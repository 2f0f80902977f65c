--------------------------- MODULE ClientUdpProxy ---------------------------
(***************************************************************************)
(* The client's UDP proxy (UdpProxy in src/client/proxy/proxy.go).  Every  *)
(* work connection the server hands over replaces the previous one:        *)
(* InWorkConn calls Close() (one critical section), then installs the new  *)
(* connection and fresh channels and clears `closed` (a second critical   *)
(* section), then starts the sender, reader and heartbeat goroutines with  *)
(* values of pxy.workConn, pxy.readCh and pxy.sendCh read AFTER the unlock *)
(* and blocks in udp.Forwarder until its readCh is closed.                 *)
(*                                                                         *)
(* Work connections reach InWorkConn from concurrent HandleReqWorkConn     *)
(* goroutines of the client Control; the proxy manager (not under src/)    *)
(* stops a proxy by calling Close(), and may have looked the proxy up just *)
(* before, so an InWorkConn can start after the stop.  Each call brings    *)
(* its own work connection; the channels it makes are named after it.     *)
(***************************************************************************)
EXTENDS Naturals

CONSTANTS
    Calls,   \* InWorkConn invocations, each with its own work connection
    None     \* nil

ASSUME None \notin Calls

VARIABLES
    closed,      \* pxy.closed
    workConn,    \* pxy.workConn: the connection of the call that set it
    chans,       \* pxy.readCh / pxy.sendCh: made together by one call
    connClosed,  \* connClosed[c]: the work connection of call c is closed
    chanCloses,  \* chanCloses[c]: times the channels of call c were closed
    pc,          \* program counter of each InWorkConn call
    fwdCh,       \* the readCh value the call's goroutines and Forwarder read
    stopped      \* the proxy manager has stopped the proxy

vars == <<closed, workConn, chans, connClosed, chanCloses, pc, fwdCh, stopped>>

Pc == {"idle", "close", "init", "spawn", "forward", "done"}

TypeOK ==
    /\ closed \in BOOLEAN /\ stopped \in BOOLEAN
    /\ workConn \in Calls \cup {None} /\ chans \in Calls \cup {None}
    /\ connClosed \in [Calls -> BOOLEAN]
    /\ chanCloses \in [Calls -> 0..2]
    /\ pc \in [Calls -> Pc]
    /\ fwdCh \in [Calls -> Calls \cup {None}]
    \* a started forwarder serves a real channel, never a nil one
    /\ \A c \in Calls : pc[c] \in {"forward", "done"} => fwdCh[c] \in Calls

\* After UdpProxy.Run: no work connection yet, nil channels.
Init ==
    /\ closed = FALSE /\ stopped = FALSE
    /\ workConn = None /\ chans = None
    /\ connClosed = [c \in Calls |-> FALSE]
    /\ chanCloses = [c \in Calls |-> 0]
    /\ pc = [c \in Calls |-> "idle"]
    /\ fwdCh = [c \in Calls |-> None]

\* Mutant of CloseBody: the `if !pxy.closed` check is dropped.
CloseBodyUnguarded ==
    /\ closed' = TRUE
    /\ connClosed' = IF workConn # None
                       THEN [connClosed EXCEPT ![workConn] = TRUE]
                       ELSE connClosed
    /\ chanCloses' = IF chans # None
                       THEN [chanCloses EXCEPT ![chans] = @ + 1]
                       ELSE chanCloses

\* The state change of UdpProxy.Close(), under pxy.mu.
CloseBody ==
    IF ~closed
      THEN /\ closed' = TRUE
           /\ connClosed' = IF workConn # None
                              THEN [connClosed EXCEPT ![workConn] = TRUE]
                              ELSE connClosed
           /\ chanCloses' = IF chans # None
                              THEN [chanCloses EXCEPT ![chans] = @ + 1]
                              ELSE chanCloses
      ELSE UNCHANGED <<closed, connClosed, chanCloses>>

\* pm.HandleWorkConn found the proxy and calls InWorkConn(conn, m).
Arrive(c) ==
    /\ pc[c] = "idle"
    /\ pc' = [pc EXCEPT ![c] = "close"]
    /\ UNCHANGED <<closed, workConn, chans, connClosed, chanCloses, fwdCh, stopped>>

\* "close resources releated with old workConn": pxy.Close().
CloseOld(c) ==
    /\ pc[c] = "close"
    /\ CloseBody
    /\ pc' = [pc EXCEPT ![c] = "init"]
    /\ UNCHANGED <<workConn, chans, fwdCh, stopped>>

\* Mutant of Install: the channels are not made again for the new
\* connection (left to Run, which leaves them nil).
InstallNoMakeChans(c) ==
    /\ pc[c] = "init"
    /\ workConn' = c /\ closed' = FALSE
    /\ pc' = [pc EXCEPT ![c] = "spawn"]
    /\ UNCHANGED <<chans, connClosed, chanCloses, fwdCh, stopped>>

\* pxy.mu.Lock(); workConn = conn; readCh, sendCh = make(...);
\* closed = false; pxy.mu.Unlock()
Install(c) ==
    /\ pc[c] = "init"
    /\ workConn' = c /\ chans' = c /\ closed' = FALSE
    /\ pc' = [pc EXCEPT ![c] = "spawn"]
    /\ UNCHANGED <<connClosed, chanCloses, fwdCh, stopped>>

\* go workConnSenderFn(pxy.workConn, pxy.sendCh) ... udp.Forwarder(...,
\* pxy.readCh, pxy.sendCh): the fields are read without the lock, so they
\* hold whatever the latest Install or Close left there.
Spawn(c) ==
    /\ pc[c] = "spawn"
    /\ fwdCh' = [fwdCh EXCEPT ![c] = chans]
    /\ pc' = [pc EXCEPT ![c] = "forward"]
    /\ UNCHANGED <<closed, workConn, chans, connClosed, chanCloses, stopped>>

\* udp.Forwarder returns once the readCh it serves is closed; InWorkConn
\* returns.
ForwarderDone(c) ==
    /\ pc[c] = "forward"
    /\ fwdCh[c] # None => chanCloses[fwdCh[c]] > 0
    /\ pc' = [pc EXCEPT ![c] = "done"]
    /\ UNCHANGED <<closed, workConn, chans, connClosed, chanCloses, fwdCh, stopped>>

\* The proxy manager stops the proxy (reload, health check, control
\* shutdown): pxy.Close().
Stop ==
    /\ ~stopped
    /\ stopped' = TRUE
    /\ CloseBody
    /\ UNCHANGED <<workConn, chans, pc, fwdCh>>

Next ==
    \/ \E c \in Calls : Arrive(c) \/ CloseOld(c) \/ Install(c) \/ Spawn(c)
                          \/ ForwarderDone(c)
    \/ Stop

Spec == Init /\ [][Next]_vars

-----------------------------------------------------------------------------
(* Properties                                                              *)

\* A channel is never closed twice: close() of a closed channel panics,
\* and Close() runs outside any recover, so frpc would crash.  Close() and
\* InWorkConn's second critical section rely on `closed` for this.
NoDoubleClose == \A c \in Calls : chanCloses[c] <= 1

\* A work connection that is no longer the proxy's current one has been
\* closed: replacing a work connection must not leak the old socket (and
\* the goroutines still blocked on it).
ReplacedConnClosed ==
    \A c \in Calls :
        (pc[c] \in {"spawn", "forward", "done"} /\ workConn # c) => connClosed[c]

\* Once the proxy manager has stopped the proxy, it holds no open work
\* connection: spec P5, "after Close, no new work-conn is handed to a proxy".
StoppedStaysClosed ==
    stopped => (workConn = None \/ connClosed[workConn])

=============================================================================
