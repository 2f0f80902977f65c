--------------------------- MODULE ServerWorkConn ---------------------------
(***************************************************************************)
(* Dispatch of work connections to user connections on frps.              *)
(*                                                                         *)
(* Each accepted user connection runs HandleUserTcpConnection in its own   *)
(* goroutine (server proxy, src/unnamed/part_000).  It calls               *)
(* BaseProxy.GetWorkConnFromPool, which tries up to poolCount+1 times to   *)
(* take a work connection from the control's pool (getWorkConnFn, i.e.     *)
(* server Control.GetWorkConn) and to write StartWorkConn on it; a write   *)
(* failure means the pooled connection was already dead, so it is closed   *)
(* and the next one is tried.  Then the user and work connections are      *)
(* joined.  An HTTP request of the vhost reverse proxy takes its work     *)
(* connection through HttpProxy.GetRealConn instead, which hands it to the *)
(* reverse proxy's transport.  The stats collector is not modelled.      *)
(*                                                                         *)
(* server/control.go is not part of src/: the pool (a bounded channel of   *)
(* work connections), GetWorkConn (pop, or send ReqWorkConn and wait with  *)
(* a timeout, then ask for a replacement) and RegisterWorkConn (push, or   *)
(* close when full) follow spec section 4.9.  frpc answers each ReqWorkConn*)
(* by dialing a fresh work connection (Control.HandleReqWorkConn).         *)
(***************************************************************************)
EXTENDS Naturals, Sequences, FiniteSets

CONSTANTS
    Users,       \* user connections accepted by the proxy's listener
    HttpUsers,   \* those that are HTTP requests of the vhost reverse proxy
    PoolCount,   \* poolCount of the proxy (pool_count of the client)
    MaxConns     \* bound on the work connections frpc dials

ASSUME /\ HttpUsers \subseteq Users /\ PoolCount \in Nat \ {0} /\ MaxConns \in Nat \ {0}

Conns == 1..MaxConns
NoConn == 0

\* Server-side state of a work connection: not dialed yet, waiting in the
\* pool, taken by a user goroutine, or closed.
ConnStatus == {"none", "pooled", "user", "closed"}

\* Program counter of one HandleUserTcpConnection goroutine.
UserPc == {"idle", "get", "wait", "write", "joined", "splice", "inuse", "closed", "done"}

VARIABLES
    pool,      \* ctl.workConnCh
    status,    \* server view of each work connection
    alive,     \* frpc's end of the work connection is still open
    started,   \* WriteMsg of StartWorkConn reported success on it
    reqs,      \* ReqWorkConn frames frpc has not yet answered
    dialed,    \* work connections frpc has dialed so far
    upc,       \* per-user program counter
    utry,      \* loop index i of GetWorkConnFromPool
    uconn      \* the work connection the user goroutine holds

vars == <<pool, status, alive, started, reqs, dialed, upc, utry, uconn>>

TypeOK ==
    /\ pool \in Seq(Conns) /\ Len(pool) <= PoolCount
    /\ status \in [Conns -> ConnStatus]
    /\ alive \in [Conns -> BOOLEAN] /\ started \in [Conns -> BOOLEAN]
    /\ reqs \in Nat /\ dialed \in 0..MaxConns
    /\ upc \in [Users -> UserPc]
    /\ utry \in [Users -> 0..PoolCount]
    /\ uconn \in [Users -> Conns \cup {NoConn}]

Init ==
    /\ pool = <<>>
    /\ status = [c \in Conns |-> "none"]
    /\ alive = [c \in Conns |-> FALSE]
    /\ started = [c \in Conns |-> FALSE]
    /\ reqs = 0 /\ dialed = 0
    /\ upc = [u \in Users |-> "idle"]
    /\ utry = [u \in Users |-> 0]
    /\ uconn = [u \in Users |-> NoConn]

\* A user connection was accepted: startListenHandler spawns the handler.
Accept(u) ==
    /\ upc[u] = "idle"
    /\ upc' = [upc EXCEPT ![u] = "get"]
    /\ UNCHANGED <<pool, status, alive, started, reqs, dialed, utry, uconn>>

\* Take the head of the pool and, as GetWorkConn does after every
\* successful take, ask frpc for a replacement.
TakeFromPool(u) ==
    /\ pool # <<>>
    /\ uconn' = [uconn EXCEPT ![u] = Head(pool)]
    /\ status' = [status EXCEPT ![Head(pool)] = "user"]
    /\ pool' = Tail(pool)
    /\ reqs' = reqs + 1
    /\ upc' = [upc EXCEPT ![u] = "write"]

\* getWorkConnFn(): pop from the pool, or (empty pool) send ReqWorkConn
\* and wait.
GetWorkConn(u) ==
    /\ upc[u] = "get"
    /\ \/ TakeFromPool(u)
       \/ /\ pool = <<>>
          /\ reqs' = reqs + 1
          /\ upc' = [upc EXCEPT ![u] = "wait"]
          /\ UNCHANGED <<pool, status, uconn>>
    /\ UNCHANGED <<alive, started, dialed, utry>>

\* The wait for a work connection ends: one arrived in the pool.
WaitWorkConn(u) ==
    /\ upc[u] = "wait"
    /\ TakeFromPool(u)
    /\ UNCHANGED <<alive, started, dialed, utry>>

\* Mutant of WaitTimeout: the wait on workConnCh has no timer.
WaitNoTimeout(u) == FALSE

\* The wait timed out (UserConnTimeout): getWorkConnFn returns an error,
\* GetWorkConnFromPool returns it, HandleUserTcpConnection closes userConn.
WaitTimeout(u) ==
    /\ upc[u] = "wait"
    /\ upc' = [upc EXCEPT ![u] = "closed"]
    /\ UNCHANGED <<pool, status, alive, started, reqs, dialed, utry, uconn>>

\* The write of StartWorkConn fails: workConn.Close(), and the loop goes on
\* while i < poolCount+1.  When the last try fails the function falls
\* through to `if err != nil` with the outer err, which the inner `err :=`
\* shadowed, still nil: it returns the closed connection and no error.
\* Mutant of StartWorkConnFailed: the loop runs while i <= poolCount+1.
StartWorkConnFailedOffByOne(u) ==
    /\ status' = [status EXCEPT ![uconn[u]] = "closed"]
    /\ IF utry[u] <= PoolCount
         THEN /\ utry' = [utry EXCEPT ![u] = utry[u] + 1]
              /\ upc' = [upc EXCEPT ![u] = "get"]
         ELSE /\ upc' = [upc EXCEPT ![u] = "joined"]
              /\ UNCHANGED utry

StartWorkConnFailed(u) ==
    /\ status' = [status EXCEPT ![uconn[u]] = "closed"]
    /\ IF utry[u] < PoolCount
         THEN /\ utry' = [utry EXCEPT ![u] = utry[u] + 1]
              /\ upc' = [upc EXCEPT ![u] = "get"]
         ELSE /\ upc' = [upc EXCEPT ![u] = "joined"]
              /\ UNCHANGED utry

\* Mutant of WriteStartWorkConn: the failed connection is not closed.
WriteStartWorkConnNoClose(u) ==
    /\ upc[u] = "write"
    /\ ~alive[uconn[u]]
    /\ IF utry[u] < PoolCount
         THEN /\ utry' = [utry EXCEPT ![u] = utry[u] + 1]
              /\ upc' = [upc EXCEPT ![u] = "get"]
         ELSE /\ upc' = [upc EXCEPT ![u] = "joined"]
              /\ UNCHANGED utry
    /\ UNCHANGED <<pool, status, alive, started, reqs, dialed, uconn>>

\* msg.WriteMsg(workConn, &msg.StartWorkConn{...}).  On a live connection
\* it succeeds and breaks the loop; on a dead one it fails, or succeeds
\* into the socket buffer when the reset has not arrived yet.
WriteStartWorkConn(u) ==
    /\ upc[u] = "write"
    /\ \/ /\ started' = [started EXCEPT ![uconn[u]] = TRUE]
          /\ upc' = [upc EXCEPT ![u] = "joined"]
          /\ UNCHANGED <<status, utry>>
       \/ /\ ~alive[uconn[u]]
          /\ StartWorkConnFailed(u)
          /\ UNCHANGED started
    /\ UNCHANGED <<pool, alive, reqs, dialed, uconn>>

\* HandleUserTcpConnection after GetWorkConnFromPool: encryption and
\* compression wrap the work connection, TypeOpenConnection is marked and
\* frpIo.Join splices the two connections.
JoinStart(u) ==
    /\ upc[u] = "joined" /\ u \notin HttpUsers
    /\ upc' = [upc EXCEPT ![u] = "splice"]
    /\ UNCHANGED <<pool, status, alive, started, reqs, dialed, utry, uconn>>

\* Join returns when either side ends: TypeCloseConnection and the traffic
\* are marked, and the deferred workConn.Close() and userConn.Close() run.
JoinEnd(u) ==
    /\ upc[u] = "splice"
    /\ status' = [status EXCEPT ![uconn[u]] = "closed"]
    /\ alive' = [alive EXCEPT ![uconn[u]] = FALSE]
    /\ upc' = [upc EXCEPT ![u] = "done"]
    /\ UNCHANGED <<pool, started, reqs, dialed, utry, uconn>>

\* HttpProxy.GetRealConn after GetWorkConnFromPool: the work connection
\* is wrapped (encryption, compression, and a stats wrapper that calls
\* updateStatsAfterClosedConn on Close), TypeOpenConnection is marked and
\* the connection goes to the reverse proxy's transport.  An error of
\* GetWorkConnFromPool is returned to the reverse proxy (WaitTimeout).
GetRealConn(u) ==
    /\ upc[u] = "joined" /\ u \in HttpUsers
    /\ upc' = [upc EXCEPT ![u] = "inuse"]
    /\ UNCHANGED <<pool, status, alive, started, reqs, dialed, utry, uconn>>

\* The transport is done with the connection and closes it; the stats
\* wrapper's Close closes the work connection (and reports the close and
\* the traffic to the collector, which is not modelled).
HttpConnClosed(u) ==
    /\ upc[u] = "inuse"
    /\ status' = [status EXCEPT ![uconn[u]] = "closed"]
    /\ alive' = [alive EXCEPT ![uconn[u]] = FALSE]
    /\ upc' = [upc EXCEPT ![u] = "done"]
    /\ UNCHANGED <<pool, started, reqs, dialed, utry, uconn>>

\* frpc's HandleReqWorkConn answers one ReqWorkConn: connectServer fails
\* (nothing is sent), or it dials, writes NewWorkConn, and the server's
\* RegisterWorkConn pushes the connection into the pool, or closes it when
\* the pool is full.
ClientReqWorkConn ==
    /\ reqs > 0
    /\ reqs' = reqs - 1
    /\ \/ UNCHANGED <<pool, status, alive, dialed>>
       \/ /\ dialed < MaxConns
          /\ LET c == dialed + 1 IN
             /\ dialed' = c
             /\ alive' = [alive EXCEPT ![c] = TRUE]
             /\ IF Len(pool) < PoolCount
                  THEN pool' = Append(pool, c)
                       /\ status' = [status EXCEPT ![c] = "pooled"]
                  ELSE status' = [status EXCEPT ![c] = "closed"]
                       /\ UNCHANGED pool
    /\ UNCHANGED <<started, upc, utry, uconn>>

\* A pooled work connection dies on frpc's side (network, NAT timeout,
\* frpc restart) while the server still holds it in the pool.
PooledConnDies(c) ==
    /\ status[c] = "pooled" /\ alive[c]
    /\ alive' = [alive EXCEPT ![c] = FALSE]
    /\ UNCHANGED <<pool, status, started, reqs, dialed, upc, utry, uconn>>

UserStep(u) ==
    GetWorkConn(u) \/ WaitWorkConn(u) \/ WaitTimeout(u)
      \/ WriteStartWorkConn(u) \/ JoinStart(u) \/ JoinEnd(u)
      \/ GetRealConn(u)

Next ==
    \/ \E u \in Users : Accept(u) \/ UserStep(u) \/ HttpConnClosed(u)
    \/ ClientReqWorkConn
    \/ \E c \in Conns : PooledConnDies(c)

\* Each handler goroutine runs; its wait is bounded by the timer.  Users
\* and frpc owe nothing.
Spec == Init /\ [][Next]_vars /\ \A u \in Users : WF_vars(UserStep(u))

-----------------------------------------------------------------------------
(* Properties                                                              *)

\* Every work connection frpc dialed is accounted for: it sits in the pool
\* exactly when the server calls it pooled, and one it calls "user" is held
\* by exactly one handler goroutine that is still writing StartWorkConn or
\* joined.  A connection dropped on any path without Close() leaks.
WorkConnAccounted ==
    /\ \A c \in Conns :
         /\ (status[c] = "pooled") <=> (\E i \in 1..Len(pool) : pool[i] = c)
         /\ status[c] = "user" =>
              Cardinality({u \in Users : uconn[u] = c /\ upc[u] \in {"write", "joined", "splice", "inuse"}}) = 1
    /\ \A i, j \in 1..Len(pool) : pool[i] = pool[j] => i = j

\* Every accepted user connection is eventually answered: joined to a work
\* connection or closed, even when frpc never supplies one.
UserConnAnswered ==
    \A u \in Users : (upc[u] = "get") ~> (upc[u] \in {"joined", "closed", "done"})

\* A user connection is joined only to a work connection that accepted
\* StartWorkConn: when every try fails GetWorkConnFromPool must report the
\* error ("try to get work connection failed in the end").
JoinedOnlyStarted ==
    \A u \in Users : upc[u] = "joined" => started[uconn[u]]

=============================================================================
