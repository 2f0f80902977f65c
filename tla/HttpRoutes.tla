------------------------------ MODULE HttpRoutes ------------------------------
(***************************************************************************)
(* Virtual-host routes of the server's HTTP proxies.                       *)
(*                                                                         *)
(* HttpProxy.Run (src/unnamed/part_000) registers one route per            *)
(* (domain, location) of the proxy's configuration with the shared         *)
(* reverse proxy, custom domains first and then the subdomain, and records *)
(* a close function per route that unregisters the captured copies         *)
(* tmpDomain and tmpLocation.  The first Register that fails (the route   *)
(* belongs to another proxy) makes Run return the error, and its deferred  *)
(* pxy.Close() runs every close function recorded so far.  HttpProxy.Close *)
(* runs them all when the control removes the proxy.                       *)
(*                                                                         *)
(* The router (vhost.HttpReverseProxy, not under src/) maps a route to the *)
(* proxy that registered it; Register fails when the route is taken and    *)
(* UnRegister removes the route whoever holds it.  Proxies of different    *)
(* clients run concurrently; a closed or failed proxy may be registered    *)
(* again by its client.  Group routes (HTTPGroupCtl) are not modelled.     *)
(***************************************************************************)
EXTENDS Naturals, Sequences, SequencesExt

CONSTANTS
    Proxies,   \* HTTP proxies, of one or several clients
    Keys,      \* routes (domain, location)
    Routes,    \* Routes[p]: the routes of p's configuration, in Run's order
    None

ASSUME /\ None \notin Proxies
       /\ Routes \in [Proxies -> Seq(Keys)]
       /\ \A p \in Proxies : Len(Routes[p]) > 0

VARIABLES
    router,    \* the reverse proxy's route table
    ppc,       \* "idle", "run", "ok", "failed", "closed"
    idx,       \* the next route Run registers
    cur,       \* routeConfig.Domain / Location as last assigned by Run
    closeFns   \* pxy.closeFuncs: the route each one unregisters

vars == <<router, ppc, idx, cur, closeFns>>

TypeOK ==
    /\ router \in [Keys -> Proxies \cup {None}]
    /\ ppc \in [Proxies -> {"idle", "run", "ok", "failed", "closed"}]
    /\ idx \in [Proxies -> Nat]
    /\ cur \in [Proxies -> Keys \cup {None}]
    /\ closeFns \in [Proxies -> Seq(Keys)]
    \* one close function per route Run has registered
    /\ \A p \in Proxies : Len(closeFns[p]) = idx[p] - 1

Init ==
    /\ router = [k \in Keys |-> None]
    /\ ppc = [p \in Proxies |-> "idle"]
    /\ idx = [p \in Proxies |-> 1]
    /\ cur = [p \in Proxies |-> None]
    /\ closeFns = [p \in Proxies |-> <<>>]

\* Mutant of CloseFnKeys: the close functions capture routeConfig itself,
\* so each unregisters the route Run has assigned last when it runs.
CloseFnKeysLoopVar(p) == IF closeFns[p] = <<>> THEN {} ELSE {cur'[p]}

\* The routes that running p's close functions unregisters.
CloseFnKeys(p) == ToSet(closeFns[p])

\* pxy.Close(): BaseProxy.Close() (an HTTP proxy has no listener) and
\* every close function: HttpReverseProxy.UnRegister(domain, location).
CloseRoutes(p) ==
    router' = [k \in Keys |-> IF k \in CloseFnKeys(p) THEN None ELSE router[k]]

\* Mutant of StartRun: the proxy object is reused with its old closeFuncs.
StartRunKeepCloseFuncs(p) ==
    /\ ppc[p] \in {"idle", "failed", "closed"}
    /\ ppc' = [ppc EXCEPT ![p] = "run"]
    /\ idx' = [idx EXCEPT ![p] = 1]
    /\ cur' = [cur EXCEPT ![p] = None]
    /\ UNCHANGED <<router, closeFns>>

\* The control's RegisterProxy makes a new HttpProxy and calls Run.
StartRun(p) ==
    /\ ppc[p] \in {"idle", "failed", "closed"}
    /\ ppc' = [ppc EXCEPT ![p] = "run"]
    /\ idx' = [idx EXCEPT ![p] = 1]
    /\ cur' = [cur EXCEPT ![p] = None]
    /\ closeFns' = [closeFns EXCEPT ![p] = <<>>]
    /\ UNCHANGED router

\* Mutant of RegisterRoute: no deferred Close when Run fails.
RegisterRouteNoRollback(p) ==
    /\ ppc[p] = "run" /\ idx[p] <= Len(Routes[p])
    /\ LET k == Routes[p][idx[p]] IN
       /\ cur' = [cur EXCEPT ![p] = k]
       /\ IF router[k] = None
            THEN /\ router' = [router EXCEPT ![k] = p]
                 /\ closeFns' = [closeFns EXCEPT ![p] = Append(@, k)]
                 /\ idx' = [idx EXCEPT ![p] = @ + 1]
                 /\ UNCHANGED ppc
            ELSE /\ ppc' = [ppc EXCEPT ![p] = "failed"]
                 /\ UNCHANGED <<router, closeFns, idx>>

\* One iteration of Run's loops: routeConfig.Domain/Location are set and
\* HttpReverseProxy.Register(routeConfig) is called.  On success a close
\* function for the route is appended; on error Run returns it and the
\* deferred pxy.Close() unregisters what was registered.
RegisterRoute(p) ==
    /\ ppc[p] = "run" /\ idx[p] <= Len(Routes[p])
    /\ LET k == Routes[p][idx[p]] IN
       /\ cur' = [cur EXCEPT ![p] = k]
       /\ IF router[k] = None
            THEN /\ router' = [router EXCEPT ![k] = p]
                 /\ closeFns' = [closeFns EXCEPT ![p] = Append(@, k)]
                 /\ idx' = [idx EXCEPT ![p] = @ + 1]
                 /\ UNCHANGED ppc
            ELSE /\ ppc' = [ppc EXCEPT ![p] = "failed"]
                 /\ CloseRoutes(p)
                 /\ UNCHANGED <<closeFns, idx>>

\* Every route is registered: Run returns the joined addresses, no error.
FinishRun(p) ==
    /\ ppc[p] = "run" /\ idx[p] > Len(Routes[p])
    /\ ppc' = [ppc EXCEPT ![p] = "ok"]
    /\ UNCHANGED <<router, idx, cur, closeFns>>

\* The control closes the proxy (CloseProxy from frpc, or the control's
\* shutdown): HttpProxy.Close().
Close(p) ==
    /\ ppc[p] = "ok"
    /\ UNCHANGED <<idx, cur, closeFns>>
    /\ ppc' = [ppc EXCEPT ![p] = "closed"]
    /\ CloseRoutes(p)

Next ==
    \E p \in Proxies :
        StartRun(p) \/ RegisterRoute(p) \/ FinishRun(p) \/ Close(p)

Spec == Init /\ [][Next]_vars

-----------------------------------------------------------------------------
(* Properties                                                              *)

\* A route leads to a proxy that is running or still in Run: a failed Run
\* leaves none of its routes behind, and a closed proxy none of its own.
RoutesOwnedByLive ==
    \A k \in Keys : router[k] # None => ppc[router[k]] \in {"run", "ok"}

\* A proxy whose Run succeeded holds every route of its configuration
\* until it is closed: another proxy's failure or close never removes one.
RunningHoldsRoutes ==
    \A p \in Proxies : ppc[p] = "ok" =>
        \A i \in 1..Len(Routes[p]) : router[Routes[p][i]] = p

\* The routes a request can be served by: those of proxies whose Run has
\* returned; a route registered by a Run still in progress, or left by one
\* that failed, is not yet (or no longer) part of the promise.
Served == [k \in Keys |-> IF router[k] # None /\ ppc[router[k]] = "ok"
                           THEN router[k] ELSE None]

Abstract == INSTANCE RouteTable WITH table <- Served

\* HttpProxy.Run, its rollback and HttpProxy.Close implement the route
\* table: a proxy gets all its routes at once when Run returns nil, a
\* failed Run changes nothing that is served, and Close gives back exactly
\* the proxy's own routes.
RouteTableRefined == Abstract!Spec

=============================================================================
