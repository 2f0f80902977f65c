--------------------------- MODULE ClientControl ---------------------------
(***************************************************************************)
(* The client side of the control connection (client/control.go, the      *)
(* first file of src/unnamed/part_000): four goroutines started by         *)
(* Control.worker share two buffered channels and one connection.          *)
(*                                                                         *)
(*   reader     : conn  --ReadMsg-->  readCh                               *)
(*   msgHandler : readCh --> handle; heartbeat tickers --> sendCh          *)
(*   writer     : sendCh --WriteMsg--> conn                                *)
(*   worker     : waits on closedCh, then tears everything down in order   *)
(*                                                                         *)
(* The server (frps) is the environment: it sends ReqWorkConn,             *)
(* NewProxyResp, Pong and malformed frames, answers Pings when it likes,   *)
(* and may close the connection at any time.  Time is a bounded discrete   *)
(* clock; one tick is one second of the hbCheck ticker.                    *)
(***************************************************************************)
EXTENDS Naturals, Sequences

CONSTANTS
    ReadChCap,          \* capacity of ctl.readCh  (make(chan, 100))
    SendChCap,          \* capacity of ctl.sendCh  (make(chan, 100))
    HeartBeatInterval,  \* g.GlbClientCfg.HeartBeatInterval, in ticks
    HeartBeatTimeout,   \* g.GlbClientCfg.HeartBeatTimeout, in ticks
    MaxTime,            \* bound on the clock
    MaxServerMsgs       \* bound on the non-Pong frames the server sends

ASSUME /\ ReadChCap \in Nat \ {0}
       /\ SendChCap \in Nat \ {0}
       /\ HeartBeatInterval \in Nat \ {0}
       /\ HeartBeatTimeout \in Nat
       /\ MaxTime \in Nat /\ MaxServerMsgs \in Nat

\* Frames the server sends on the control connection.  "Bad" is a frame
\* msg.ReadMsg fails to decode (unknown tag, oversize, bad JSON).
ServerMsgs == {"ReqWorkConn", "NewProxyResp", "Pong", "Bad"}

\* Connection state: "open"; "peerClosed" when frps or the network ended
\* the stream (buffered frames are still readable, then EOF); "closed"
\* after a local conn.Close() (every read and write fails at once).
ConnStates == {"open", "peerClosed", "closed"}

VARIABLES
    conn,          \* the control connection
    wire,          \* frames sent by frps and not yet read by reader
    pongsOwed,     \* Pings delivered to frps and not yet answered
    serverSent,    \* non-Pong frames frps has sent (bounded)
    readCh, readChClosed,
    sendCh, sendChClosed,
    closedCh,      \* closed by reader() on exit
    closedDoneCh,  \* closed by worker() after all resources are released
    pmClosed,      \* ctl.pm.Close() has run
    lastPong,      \* ctl.lastPong
    now, nextPing, nextCheck,  \* clock and the two tickers of msgHandler
    rd, rdMsg,     \* reader program counter and the frame it holds
    wr,            \* writer program counter
    hd,            \* msgHandler program counter
    wk             \* worker program counter

envVars   == <<wire, pongsOwed, serverSent>>
chanVars  == <<readCh, readChClosed, sendCh, sendChClosed, closedCh, closedDoneCh>>
timeVars  == <<lastPong, now, nextPing, nextCheck>>
pcVars    == <<rd, rdMsg, wr, hd, wk>>
vars == <<conn, pmClosed, envVars, chanVars, timeVars, pcVars>>

TypeOK ==
    /\ conn \in ConnStates
    /\ wire \in Seq(ServerMsgs)
    /\ pongsOwed \in Nat /\ serverSent \in 0..MaxServerMsgs
    /\ readCh \in Seq(ServerMsgs \ {"Bad"}) /\ Len(readCh) <= ReadChCap
    /\ sendCh \in Seq({"Ping"}) /\ Len(sendCh) <= SendChCap
    /\ {readChClosed, sendChClosed, closedCh, closedDoneCh, pmClosed} \subseteq BOOLEAN
    /\ {lastPong, now, nextPing, nextCheck} \subseteq Nat
    /\ rd \in {"read", "deliver", "done"} /\ rdMsg \in (ServerMsgs \ {"Bad"}) \cup {"none"}
    /\ wr \in {"init", "loop", "done"}
    /\ hd \in {"loop", "ping", "done"}
    /\ wk \in {"wait", "waitReader", "waitHandler", "waitWriter", "done"}

\* NewControl + Control.Run: channels made, goroutines about to start,
\* ctl.lastPong = time.Now() at the top of msgHandler.
Init ==
    /\ conn = "open"
    /\ wire = <<>> /\ pongsOwed = 0 /\ serverSent = 0
    /\ readCh = <<>> /\ readChClosed = FALSE
    /\ sendCh = <<>> /\ sendChClosed = FALSE
    /\ closedCh = FALSE /\ closedDoneCh = FALSE /\ pmClosed = FALSE
    /\ lastPong = 0 /\ now = 0
    /\ nextPing = HeartBeatInterval /\ nextCheck = 1
    /\ rd = "read" /\ rdMsg = "none"
    /\ wr = "init" /\ hd = "loop" /\ wk = "wait"

-----------------------------------------------------------------------------
(* reader(): ReadMsg from conn, push into readCh.  On any error it returns; *)
(* the deferred close(ctl.closedCh) and readerShutdown.Done() then run.     *)

\* Mutant of ReaderRead: the decode error is not checked and the frame is
\* passed on to readCh.
ReaderReadNoDecodeCheck ==
    /\ rd = "read" /\ conn # "closed" /\ wire # <<>>
    /\ rd' = "deliver" /\ rdMsg' = Head(wire)
    /\ wire' = Tail(wire)
    /\ UNCHANGED <<conn, closedCh, pongsOwed, serverSent, readCh, readChClosed, sendCh,
                   sendChClosed, closedDoneCh, pmClosed, timeVars, wr, hd, wk>>

\* A successful ReadMsg; a local Close discards whatever was buffered.
ReaderRead ==
    /\ rd = "read" /\ conn # "closed" /\ wire # <<>>
    /\ IF Head(wire) = "Bad"
         THEN \* decode error: ctl.conn.Close(); return
              /\ conn' = "closed" /\ rd' = "done" /\ closedCh' = TRUE
              /\ UNCHANGED rdMsg
         ELSE /\ rd' = "deliver" /\ rdMsg' = Head(wire)
              /\ UNCHANGED <<conn, closedCh>>
    /\ wire' = Tail(wire)
    /\ UNCHANGED <<pongsOwed, serverSent, readCh, readChClosed, sendCh,
                   sendChClosed, closedDoneCh, pmClosed, timeVars, wr, hd, wk>>

\* ReadMsg fails: io.EOF after the peer closed, or "use of closed network
\* connection" after a local Close (then ctl.conn.Close() again, a no-op).
ReaderFail ==
    /\ rd = "read"
    /\ \/ conn = "peerClosed" /\ wire = <<>>
       \/ conn = "closed"
    /\ rd' = "done" /\ closedCh' = TRUE
    /\ UNCHANGED <<conn, envVars, readCh, readChClosed, sendCh, sendChClosed,
                   closedDoneCh, pmClosed, timeVars, rdMsg, wr, hd, wk>>

\* ctl.readCh <- m : blocks while the buffer is full.
ReaderDeliver ==
    /\ rd = "deliver" /\ Len(readCh) < ReadChCap
    /\ readCh' = Append(readCh, rdMsg)
    /\ rd' = "read" /\ rdMsg' = "none"
    /\ UNCHANGED <<conn, envVars, readChClosed, sendCh, sendChClosed, closedCh,
                   closedDoneCh, pmClosed, timeVars, wr, hd, wk>>

-----------------------------------------------------------------------------
(* writer(): crypto.NewWriter (writes the IV), then drain sendCh.  A write  *)
(* error makes it return WITHOUT closing the connection.                    *)

WriterInit ==
    /\ wr = "init"
    /\ \/ conn = "open" /\ wr' = "loop" /\ UNCHANGED conn
       \/ conn = "peerClosed" /\ wr' = "loop" /\ UNCHANGED conn
       \/ conn # "open" /\ wr' = "done" /\ conn' = "closed"
    /\ UNCHANGED <<envVars, chanVars, pmClosed, timeVars, rd, rdMsg, hd, wk>>

\* m, ok := <-ctl.sendCh with ok; WriteMsg succeeds or fails.
WriterSend ==
    /\ wr = "loop" /\ sendCh # <<>>
    /\ sendCh' = Tail(sendCh)
    /\ \/ conn = "open" /\ wr' = "loop" /\ pongsOwed' = pongsOwed + 1
       \/ conn = "peerClosed" /\ wr' = "loop" /\ UNCHANGED pongsOwed
       \/ conn # "open" /\ wr' = "done" /\ UNCHANGED pongsOwed
    /\ UNCHANGED <<conn, wire, serverSent, readCh, readChClosed, sendChClosed,
                   closedCh, closedDoneCh, pmClosed, timeVars, rd, rdMsg, hd, wk>>

\* sendCh closed and drained: !ok, "control writer is closing".
WriterExit ==
    /\ wr = "loop" /\ sendChClosed /\ sendCh = <<>>
    /\ wr' = "done"
    /\ UNCHANGED <<conn, envVars, chanVars, pmClosed, timeVars, rd, rdMsg, hd, wk>>

-----------------------------------------------------------------------------
(* msgHandler(): one select over hbSend.C, hbCheck.C and readCh; Go picks   *)
(* uniformly among the ready cases, so each case is an action of its own.   *)

\* case <-hbSend.C : the send ctl.sendCh <- &msg.Ping{} follows (HandlerPing).
HandlerHbSend ==
    /\ hd = "loop" /\ now >= nextPing
    /\ hd' = "ping" /\ nextPing' = now + HeartBeatInterval
    /\ UNCHANGED <<conn, envVars, chanVars, pmClosed, lastPong, now, nextCheck,
                   rd, rdMsg, wr, wk>>

\* ctl.sendCh <- &msg.Ping{} : blocks while the buffer is full.
HandlerPing ==
    /\ hd = "ping" /\ Len(sendCh) < SendChCap
    /\ sendCh' = Append(sendCh, "Ping") /\ hd' = "loop"
    /\ UNCHANGED <<conn, envVars, readCh, readChClosed, sendChClosed, closedCh,
                   closedDoneCh, pmClosed, timeVars, rd, rdMsg, wr, wk>>

\* case <-hbCheck.C : time.Since(lastPong) > HeartBeatTimeout closes conn
\* ("let reader() stop") and returns.
HandlerHbCheck ==
    /\ hd = "loop" /\ now >= nextCheck
    /\ IF now - lastPong > HeartBeatTimeout
         THEN conn' = "closed" /\ hd' = "done" /\ UNCHANGED nextCheck
         ELSE nextCheck' = now + 1 /\ UNCHANGED <<conn, hd>>
    /\ UNCHANGED <<envVars, chanVars, pmClosed, lastPong, now, nextPing,
                   rd, rdMsg, wr, wk>>

\* case rawMsg, ok := <-ctl.readCh with ok.  ReqWorkConn spawns
\* HandleReqWorkConn, NewProxyResp calls pm.StartProxy, Pong refreshes
\* lastPong.  A closed channel still yields its buffered frames first.
HandlerRecv ==
    /\ hd = "loop" /\ readCh # <<>>
    /\ readCh' = Tail(readCh)
    /\ lastPong' = IF Head(readCh) = "Pong" THEN now ELSE lastPong
    /\ UNCHANGED <<conn, envVars, readChClosed, sendCh, sendChClosed, closedCh,
                   closedDoneCh, pmClosed, now, nextPing, nextCheck,
                   rd, rdMsg, wr, hd, wk>>

\* readCh closed and drained: !ok, return.
HandlerExit ==
    /\ hd = "loop" /\ readChClosed /\ readCh = <<>>
    /\ hd' = "done"
    /\ UNCHANGED <<conn, envVars, chanVars, pmClosed, timeVars, rd, rdMsg, wr, wk>>

-----------------------------------------------------------------------------
(* worker(): blocks on closedCh, then releases in this order.              *)

WorkerClosed ==
    /\ wk = "wait" /\ closedCh
    /\ readChClosed' = TRUE /\ wk' = "waitReader"
    /\ UNCHANGED <<conn, envVars, readCh, sendCh, sendChClosed, closedCh,
                   closedDoneCh, pmClosed, timeVars, rd, rdMsg, wr, hd>>

WorkerWaitReader ==
    /\ wk = "waitReader" /\ rd = "done"
    /\ wk' = "waitHandler"
    /\ UNCHANGED <<conn, envVars, chanVars, pmClosed, timeVars, rd, rdMsg, wr, hd>>

\* Mutants of WorkerWaitHandler: sendCh closed without waiting for the
\* handler; the handler awaited but close(ctl.sendCh) forgotten.
WorkerCloseSendNoWait ==
    /\ wk = "waitHandler"
    /\ sendChClosed' = TRUE /\ wk' = "waitWriter"
    /\ UNCHANGED <<conn, envVars, readCh, readChClosed, sendCh, closedCh,
                   closedDoneCh, pmClosed, timeVars, rd, rdMsg, wr, hd>>

WorkerForgetCloseSend ==
    /\ wk = "waitHandler" /\ hd = "done"
    /\ wk' = "waitWriter"
    /\ UNCHANGED <<conn, envVars, chanVars, pmClosed, timeVars, rd, rdMsg, wr, hd>>

\* msgHandlerShutdown.WaitDone(); close(ctl.sendCh)
WorkerWaitHandler ==
    /\ wk = "waitHandler" /\ hd = "done"
    /\ sendChClosed' = TRUE /\ wk' = "waitWriter"
    /\ UNCHANGED <<conn, envVars, readCh, readChClosed, sendCh, closedCh,
                   closedDoneCh, pmClosed, timeVars, rd, rdMsg, wr, hd>>

\* writerShutdown.WaitDone(); pm.Close(); vm.Close(); close(closedDoneCh);
\* session.Close()
WorkerRelease ==
    /\ wk = "waitWriter" /\ wr = "done"
    /\ pmClosed' = TRUE /\ closedDoneCh' = TRUE /\ wk' = "done"
    /\ UNCHANGED <<conn, envVars, readCh, readChClosed, sendCh, sendChClosed,
                   closedCh, timeVars, rd, rdMsg, wr, hd>>

-----------------------------------------------------------------------------
(* Control.Close(), called by the client Service: pm.Close(); conn.Close(). *)
Close ==
    /\ ~pmClosed
    /\ pmClosed' = TRUE /\ conn' = "closed"
    /\ UNCHANGED <<envVars, chanVars, timeVars, pcVars>>

-----------------------------------------------------------------------------
(* The server and the network.                                             *)

ServerSend ==
    /\ conn = "open" /\ serverSent < MaxServerMsgs
    /\ \E m \in ServerMsgs \ {"Pong"} : wire' = Append(wire, m)
    /\ serverSent' = serverSent + 1
    /\ UNCHANGED <<conn, pongsOwed, chanVars, pmClosed, timeVars, pcVars>>

ServerPong ==
    /\ conn = "open" /\ pongsOwed > 0
    /\ wire' = Append(wire, "Pong") /\ pongsOwed' = pongsOwed - 1
    /\ UNCHANGED <<conn, serverSent, chanVars, pmClosed, timeVars, pcVars>>

\* frps closes the control connection, or the network breaks.
PeerClose ==
    /\ conn = "open" /\ conn' = "peerClosed"
    /\ UNCHANGED <<envVars, chanVars, pmClosed, timeVars, pcVars>>

\* One second passes.  A runnable msgHandler serves a due ticker within the
\* second (Go's scheduler does not starve it for a whole tick).
Tick ==
    /\ now < MaxTime
    /\ ~(hd = "loop" /\ (now >= nextPing \/ now >= nextCheck))
    /\ now' = now + 1
    /\ UNCHANGED <<conn, envVars, chanVars, pmClosed, lastPong, nextPing,
                   nextCheck, pcVars>>

-----------------------------------------------------------------------------
Reader  == ReaderRead \/ ReaderFail \/ ReaderDeliver
Writer  == WriterInit \/ WriterSend \/ WriterExit
Handler == HandlerHbSend \/ HandlerPing \/ HandlerHbCheck \/ HandlerRecv \/ HandlerExit
Worker  == WorkerClosed \/ WorkerWaitReader \/ WorkerWaitHandler \/ WorkerRelease
Env     == Close \/ ServerSend \/ ServerPong \/ PeerClose \/ Tick

Next == Reader \/ Writer \/ Handler \/ Worker \/ Env

\* Every goroutine that can run eventually runs; the server and the user
\* owe nothing; time passes.
Fairness ==
    /\ WF_vars(Reader) /\ WF_vars(Writer) /\ WF_vars(Handler)
    /\ WF_vars(Worker) /\ WF_vars(Tick)

Spec == Init /\ [][Next]_vars /\ Fairness

-----------------------------------------------------------------------------
(* Properties                                                              *)

\* No goroutine ever sends on a closed channel: the msgHandler's Ping send
\* (ctl.sendCh <- &msg.Ping{}) and the reader's ctl.readCh <- m are never
\* pending once worker() has closed that channel.  This is what the order
\* close(readCh) .. msgHandlerShutdown.WaitDone() .. close(sendCh) buys.
NoSendOnClosedChannel ==
    /\ hd = "ping" => ~sendChClosed
    /\ rd = "deliver" => ~readChClosed

\* Once reader() has exited and closed closedCh, worker() completes the
\* teardown: the handler and writer exit and closedDoneCh is closed, which
\* is what the client Service waits on before it reconnects.
TeardownCompletes == closedCh ~> closedDoneCh

\* Whatever closes the control connection (heartbeat timeout, a decode
\* error, the peer, Control.Close), closedDoneCh is eventually closed.  The
\* comment on closedCh and the spec (section 5, Cancellation) promise this.
ConnCloseReleases == (conn # "open") ~> closedDoneCh

=============================================================================
