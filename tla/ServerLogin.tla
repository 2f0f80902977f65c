----------------------------- MODULE ServerLogin -----------------------------
(***************************************************************************)
(* Login of frpc clients on frps, and re-login with the same run id.       *)
(*                                                                         *)
(* Service.HandleListener (src/unnamed/part_000) runs dealFn on every new  *)
(* connection, or on every stream of a tcp_mux session.  A Login goes to   *)
(* RegisterControl: version and auth checks, NewControl, ctlManager.Add,   *)
(* which evicts a control already registered under the run id; the new   *)
(* control waits for the evicted one's allShutdown, then starts, and a     *)
(* goroutine removes it from the manager once it has closed.  dealFn       *)
(* answers a failed login with LoginResp{Error} and closes the connection. *)
(*                                                                         *)
(* The control manager and the control's lifecycle live in                 *)
(* server/control.go, not under src/, and follow spec section 4.9:        *)
(* Add replaces and signals the old control, Del removes only the control  *)
(* it is given, and a control whose shutdown was started (replaced, or its *)
(* connection failed) closes after it has started.                       *)
(*                                                                         *)
(* All logins present the same run id; each makes its own control, named  *)
(* after the login.  The `err` that dealFn tests is the variable of the    *)
(* accept loop, shared by every stream of one mux session.                 *)
(***************************************************************************)
EXTENDS Naturals, FiniteSets

CONSTANTS
    Logins,  \* Login messages carrying the same run id
    None

ASSUME None \notin Logins

VARIABLES
    pc,        \* where each login's dealFn goroutine is
    err,       \* err[l]: the shared err of l's mux session
    cstate,    \* cstate[l]: "none", "new", "running" or "closed"
    stopReq,   \* allShutdown.Start() was called on l's control
    waitFor,   \* the control RegisterControl evicted and waits for
    mgr,       \* ctlManager.ctlsByRunId[runId]
    delPc,     \* the goroutine that waits for the control and calls Del
    wstate,    \* the stream frpc opens on l's session, once it has logged in
    answeredErr \* dealFn answered l with LoginResp{Error} and closed it

vars == <<pc, err, cstate, stopReq, waitFor, mgr, delPc, wstate, answeredErr>>

TypeOK ==
    /\ pc \in [Logins -> {"read", "register", "wait", "checkErr", "done"}]
    /\ err \in [Logins -> {"nil", "fail"}]
    /\ cstate \in [Logins -> {"none", "new", "running", "closed"}]
    /\ stopReq \in [Logins -> BOOLEAN]
    /\ waitFor \in [Logins -> Logins \cup {None}]
    \* a new control waits for another control, never for itself
    /\ \A l \in Logins : waitFor[l] # l
    /\ mgr \in Logins \cup {None}
    /\ delPc \in [Logins -> {"none", "waiting", "done"}]
    /\ wstate \in [Logins -> {"none", "closed", "visitor", "registered", "orphan"}]
    /\ answeredErr \in [Logins -> BOOLEAN]

Init ==
    /\ pc = [l \in Logins |-> "read"]
    /\ err = [l \in Logins |-> "nil"]
    /\ cstate = [l \in Logins |-> "none"]
    /\ stopReq = [l \in Logins |-> FALSE]
    /\ waitFor = [l \in Logins |-> None]
    /\ mgr = None
    /\ delPc = [l \in Logins |-> "none"]
    /\ wstate = [l \in Logins |-> "none"]
    /\ answeredErr = [l \in Logins |-> FALSE]

\* dealFn: msg.ReadMsg under the 10 s connReadTimeout; on error the
\* connection is closed.  A Login goes on to RegisterControl.
ReadLogin(l) ==
    /\ pc[l] = "read"
    /\ \/ pc' = [pc EXCEPT ![l] = "register"] /\ UNCHANGED err
       \/ pc' = [pc EXCEPT ![l] = "done"] /\ err' = [err EXCEPT ![l] = "fail"]
    /\ UNCHANGED <<cstate, stopReq, waitFor, mgr, delPc, wstate, answeredErr>>

\* Mutant of Register: the old control is looked up after Add.
RegisterWaitSelf(l) ==
    /\ pc[l] = "register"
    /\ \/ /\ err' = [err EXCEPT ![l] = "fail"]
          /\ pc' = [pc EXCEPT ![l] = "checkErr"]
          /\ UNCHANGED <<cstate, stopReq, waitFor, mgr>>
       \/ /\ cstate' = [cstate EXCEPT ![l] = "new"]
          /\ mgr' = l
          /\ waitFor' = [waitFor EXCEPT ![l] = mgr']
          /\ stopReq' = IF mgr # None THEN [stopReq EXCEPT ![mgr] = TRUE] ELSE stopReq
          /\ pc' = [pc EXCEPT ![l] = "wait"]
          /\ UNCHANGED err
    /\ UNCHANGED <<delPc, wstate, answeredErr>>

\* Mutant of Register: Replaced() signals only a control that has started.
RegisterNoEvictNew(l) ==
    /\ pc[l] = "register"
    /\ \/ /\ err' = [err EXCEPT ![l] = "fail"]
          /\ pc' = [pc EXCEPT ![l] = "checkErr"]
          /\ UNCHANGED <<cstate, stopReq, waitFor, mgr>>
       \/ /\ cstate' = [cstate EXCEPT ![l] = "new"]
          /\ mgr' = l
          /\ waitFor' = [waitFor EXCEPT ![l] = mgr]
          /\ stopReq' = IF mgr # None /\ cstate[mgr] = "running"
                          THEN [stopReq EXCEPT ![mgr] = TRUE] ELSE stopReq
          /\ pc' = [pc EXCEPT ![l] = "wait"]
          /\ UNCHANGED err
    /\ UNCHANGED <<delPc, wstate, answeredErr>>

\* RegisterControl up to the wait: the version, auth and API checks fail
\* (err is assigned, dealFn tests it), or NewControl and ctlManager.Add,
\* which returns the control registered under the run id and starts its
\* shutdown (Replaced).
Register(l) ==
    /\ pc[l] = "register"
    /\ \/ /\ err' = [err EXCEPT ![l] = "fail"]
          /\ pc' = [pc EXCEPT ![l] = "checkErr"]
          /\ UNCHANGED <<cstate, stopReq, waitFor, mgr>>
       \/ /\ cstate' = [cstate EXCEPT ![l] = "new"]
          /\ mgr' = l
          /\ waitFor' = [waitFor EXCEPT ![l] = mgr]
          /\ stopReq' = IF mgr # None THEN [stopReq EXCEPT ![mgr] = TRUE] ELSE stopReq
          /\ pc' = [pc EXCEPT ![l] = "wait"]
          /\ UNCHANGED err
    /\ UNCHANGED <<delPc, wstate, answeredErr>>

\* Mutant of StartControl: the evicted control is not waited for.
StartControlNoWait(l) ==
    /\ pc[l] = "wait"
    /\ cstate' = [cstate EXCEPT ![l] = "running"]
    /\ delPc' = [delPc EXCEPT ![l] = "waiting"]
    /\ err' = [err EXCEPT ![l] = "nil"]
    /\ pc' = [pc EXCEPT ![l] = "checkErr"]
    /\ UNCHANGED <<stopReq, waitFor, mgr, wstate, answeredErr>>

\* oldCtl.allShutdown.WaitDone(); ctl.Start(); go { ctl.WaitClosed();
\* ctlManager.Del(runId, ctl) }; return nil, which dealFn stores in err.
StartControl(l) ==
    /\ pc[l] = "wait"
    /\ waitFor[l] # None => cstate[waitFor[l]] = "closed"
    /\ cstate' = [cstate EXCEPT ![l] = "running"]
    /\ delPc' = [delPc EXCEPT ![l] = "waiting"]
    /\ err' = [err EXCEPT ![l] = "nil"]
    /\ pc' = [pc EXCEPT ![l] = "checkErr"]
    /\ UNCHANGED <<stopReq, waitFor, mgr, wstate, answeredErr>>

\* dealFn: `if err != nil` answers LoginResp{Error} and closes the
\* connection; a control already running on it then shuts down.
CheckErr(l) ==
    /\ pc[l] = "checkErr"
    /\ stopReq' = IF err[l] = "fail" /\ cstate[l] # "none"
                    THEN [stopReq EXCEPT ![l] = TRUE] ELSE stopReq
    /\ answeredErr' = [answeredErr EXCEPT ![l] = (err[l] = "fail")]
    /\ pc' = [pc EXCEPT ![l] = "done"]
    /\ UNCHANGED <<err, cstate, waitFor, mgr, delPc, wstate>>

\* Service.RegisterWorkConn: ctlManager.GetById(runId) and
\* ctl.RegisterWorkConn (the control's pool, server/control.go); with no
\* control under the run id it returns without closing the connection.
\* A control that has closed but is not yet deleted has closed its pool
\* channel: the send panics, the deferred recover swallows the panic and
\* the connection is left open, as when no control is found.
RegisterWorkConn(l) ==
    wstate' = [wstate EXCEPT ![l] = IF mgr # None /\ cstate[mgr] # "closed"
                                      THEN "registered" ELSE "orphan"]

\* Once its control has sent LoginResp, frpc opens streams on the same mux
\* session: a work connection for each ReqWorkConn, also after the server
\* has closed the control and before frpc notices, or a visitor
\* connection.  The stream's dealFn assigns the shared err from ReadMsg:
\* on error, or on a message of no known kind, it closes the stream; a
\* NewWorkConn goes to RegisterWorkConn; a NewVisitorConn is answered by
\* RegisterVisitorConn (the visitor manager, not under src/).
WorkConnStream(l) ==
    /\ cstate[l] \in {"running", "closed"} /\ wstate[l] = "none"
    /\ \E e \in {"nil", "fail"}, kind \in {"NewWorkConn", "NewVisitorConn", "other"} :
         /\ err' = [err EXCEPT ![l] = e]
         /\ CASE e = "fail" \/ kind = "other" -> wstate' = [wstate EXCEPT ![l] = "closed"]
              [] kind = "NewVisitorConn"     -> wstate' = [wstate EXCEPT ![l] = "visitor"]
              [] OTHER                       -> RegisterWorkConn(l)
    /\ UNCHANGED <<pc, cstate, stopReq, waitFor, mgr, delPc, answeredErr>>

\* The control connection fails (frpc went away, heartbeat timeout):
\* the control starts its own shutdown.
ConnLost(l) ==
    /\ cstate[l] = "running" /\ ~stopReq[l]
    /\ stopReq' = [stopReq EXCEPT ![l] = TRUE]
    /\ UNCHANGED <<pc, err, cstate, waitFor, mgr, delPc, wstate, answeredErr>>

\* The control's stopper finishes the shutdown: allShutdown is done.
CtlClosed(l) ==
    /\ cstate[l] = "running" /\ stopReq[l]
    /\ cstate' = [cstate EXCEPT ![l] = "closed"]
    /\ UNCHANGED <<pc, err, stopReq, waitFor, mgr, delPc, wstate, answeredErr>>

\* Mutant of Del: the entry is removed without checking it is still ctl.
DelAny(l) ==
    /\ delPc[l] = "waiting" /\ cstate[l] = "closed"
    /\ mgr' = None
    /\ delPc' = [delPc EXCEPT ![l] = "done"]
    /\ UNCHANGED <<pc, err, cstate, stopReq, waitFor, wstate, answeredErr>>

\* ctlManager.Del(runId, ctl): removes the entry only if it is still ctl.
Del(l) ==
    /\ delPc[l] = "waiting" /\ cstate[l] = "closed"
    /\ mgr' = IF mgr = l THEN None ELSE mgr
    /\ delPc' = [delPc EXCEPT ![l] = "done"]
    /\ UNCHANGED <<pc, err, cstate, stopReq, waitFor, wstate, answeredErr>>

LoginStep(l) == ReadLogin(l) \/ Register(l) \/ StartControl(l) \/ CheckErr(l)

Next ==
    \E l \in Logins :
        \/ LoginStep(l) \/ WorkConnStream(l) \/ ConnLost(l)
        \/ CtlClosed(l) \/ Del(l)

\* dealFn goroutines, the control's stopper and the Del goroutine run;
\* frpc and the network owe nothing.
Spec ==
    Init /\ [][Next]_vars
    /\ \A l \in Logins : WF_vars(LoginStep(l)) /\ WF_vars(CtlClosed(l)) /\ WF_vars(Del(l))

-----------------------------------------------------------------------------
(* Properties                                                              *)

Running == {l \in Logins : cstate[l] = "running"}

\* I2/P2: at most one control runs for a run id at any instant; a re-login
\* waits until the evicted control has shut down before starting its own.
OneControlPerRunId == Cardinality(Running) <= 1

\* A running control that nothing has asked to stop is the one the manager
\* returns for its run id, so work connections for it find it: an old
\* control's deferred Del must not remove its successor.
ManagerTracksLive ==
    \A l \in Running : ~stopReq[l] => mgr = l

\* Every login is answered: even when re-logins evict controls that have
\* not started yet, no RegisterControl waits forever.
LoginCompletes == \A l \in Logins : (pc[l] = "read") ~> (pc[l] = "done")

\* A login is answered with LoginResp{Error} only when RegisterControl
\* rejected it: dealFn's error path must never close the connection of a
\* control that RegisterControl registered and started.
ErrorAnswerOnlyIfRejected ==
    \A l \in Logins : answeredErr[l] => cstate[l] = "none"

\* A work connection that frpc opens while its control still runs on the
\* server always reaches a control: GetById in RegisterWorkConn finds the
\* run id, even while that control shuts down or a re-login replaces it,
\* because an old control's deferred Del never removes its successor.
LiveWorkConnRegistered ==
    \A l \in Logins : wstate[l] = "orphan" => cstate[l] = "closed"

\* A work connection the server cannot use is closed (spec section 7:
\* per-connection errors close that connection), so that frpc's
\* HandleReqWorkConn, which reads StartWorkConn with no deadline, ends.
WorkConnNeverOrphaned ==
    \A l \in Logins : wstate[l] # "orphan"

=============================================================================
