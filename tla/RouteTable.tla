------------------------------ MODULE RouteTable ------------------------------
(***************************************************************************)
(* What the server's HTTP routing promises, with Run seen as one step.      *)
(*                                                                         *)
(* A route (domain, location) leads to at most one proxy.  A proxy takes    *)
(* all the routes of its configuration at once, and only when none of them *)
(* is taken; it gives all of them back when it is closed.  A proxy that    *)
(* cannot get its routes leaves the table as it was.                       *)
(***************************************************************************)
EXTENDS Sequences, SequencesExt

CONSTANTS Proxies, Keys, Routes, None

VARIABLE table   \* the route -> proxy mapping a request is served by

RouteSet(p) == ToSet(Routes[p])

Init == table = [k \in Keys |-> None]

\* A proxy starts serving: every route of its configuration was free.
Acquire(p) ==
    /\ \A k \in RouteSet(p) : table[k] = None
    /\ table' = [k \in Keys |-> IF k \in RouteSet(p) THEN p ELSE table[k]]

\* A serving proxy is closed: it gives up every route it held.
Release(p) ==
    /\ \E k \in Keys : table[k] = p
    /\ table' = [k \in Keys |-> IF table[k] = p THEN None ELSE table[k]]

Next == \E p \in Proxies : Acquire(p) \/ Release(p)

Spec == Init /\ [][Next]_table

==============================================================================
