------------------------------ MODULE XtcpClient ------------------------------
(***************************************************************************)
(* One run of XtcpProxy.InWorkConn (src/client/proxy/proxy.go), the       *)
(* server-role client's half of an XTCP hole punch, against the two peers *)
(* it talks to.  The client is translated from the source.  The server's  *)
(* NAT-hole controller and the visitor are not under src/; they follow    *)
(* spec section 4.7, with the server sending the visitor its NatHoleResp  *)
(* once the client's NatHoleClientDetectOK has arrived on the work        *)
(* connection.                                                             *)
(*                                                                         *)
(* UDP datagrams are a set in flight: they may be lost (fault "loss") and *)
(* arrive in any order.  A datagram for the client's local port is kept    *)
(* only while a socket listens there; a connected socket takes only its   *)
(* peer's datagrams.  KCP retransmits, so the visitor's stream-open is    *)
(* never lost.  A read deadline fires only when nothing it waits for can  *)
(* still arrive: the 5 s and 8 s deadlines are taken to exceed the        *)
(* network's delays.  The detect datagrams of sendDetectMsg only open the *)
(* client's NAT toward the visitor and are not delivered.                  *)
(***************************************************************************)
EXTENDS Naturals, Sequences, SequencesExt, GoStrings

CONSTANTS
    VisitorAddrs,   \* the visitor addresses the server may report
    Faults          \* the faults the environment may inject

AllFaults == {"eof", "dialFail", "respErr", "listenFail", "kcpFail", "loss", "stray"}

VARIABLES
    pc,         \* the client goroutine's position in InWorkConn
    wc,         \* what the server wrote on the work connection: "sid" or "eof"
    detectOK,   \* the client has written NatHoleClientDetectOK on it
    resp,       \* the NatHoleResp the client read, or <<>>
    sock,       \* the socket on the client's local port: "none", "dial", "listen"
    lq,         \* datagrams queued on the listening socket
    net,        \* datagrams in flight
    strayed,    \* a stray datagram has been sent to the client's port
    opened,     \* the resources the client has opened
    closed,     \* the ones it has closed
    defers,     \* the deferred Close calls, in the order they were deferred
    handled,    \* HandleTcpWorkConnection was called
    srv,        \* the NAT-hole controller: "waitClient", "waitDetect", "done"
    vpc         \* the visitor: "waitResp", "waitEcho", "connected", "gone"

vars == <<pc, wc, detectOK, resp, sock, lq, net, strayed, opened, closed, defers,
          handled, srv, vpc>>

Terminal == {"done", "panic"}

Resources == {"conn", "clientConn", "lConn", "sess"}

Dgram(dst, kind) == [dst |-> dst, kind |-> kind]
RespTo(dst, e, a) == [dst |-> dst, kind |-> "resp", err |-> e, addr |-> a]

TypeOK ==
    /\ pc \in {"readSid", "dial", "readResp", "split", "listen", "readVSid", "kcp",
               "accept", "handle"} \cup Terminal
    /\ wc \in {"sid", "eof"} /\ detectOK \in BOOLEAN /\ handled \in BOOLEAN
    /\ sock \in {"none", "dial", "listen"}
    /\ opened \subseteq Resources /\ closed \subseteq Resources
    /\ ToSet(defers) \subseteq Resources
    /\ srv \in {"waitClient", "waitDetect", "done"}
    /\ vpc \in {"waitResp", "waitEcho", "connected", "gone"}
    /\ pc \in {"readVSid", "kcp", "accept"} => sock = "listen"

Init ==
    /\ pc = "readSid"
    /\ wc \in IF "eof" \in Faults THEN {"sid", "eof"} ELSE {"sid"}
    /\ detectOK = FALSE /\ resp = <<>> /\ sock = "none" /\ lq = <<>>
    /\ net = {} /\ strayed = FALSE
    /\ opened = {"conn"} /\ closed = {} /\ defers = <<"conn">>
    /\ handled = FALSE /\ srv = "waitClient" /\ vpc = "waitResp"

-----------------------------------------------------------------------------
(* The client: XtcpProxy.InWorkConn                                        *)

\* `return`: the deferred Close calls run, last deferred first.
Return ==
    /\ pc' = "done" /\ closed' = closed \cup ToSet(defers) /\ sock' = "none"

\* msg.ReadMsgInto(conn, &natHoleSidMsg)
ReadSid ==
    /\ pc = "readSid"
    /\ IF wc = "sid" THEN pc' = "dial" /\ UNCHANGED <<closed, sock>> ELSE Return
    /\ UNCHANGED <<wc, detectOK, resp, lq, net, strayed, opened, defers, handled, srv, vpc>>

\* net.DialUDP to the server's UDP port, its error unchecked, then WriteMsg
\* of NatHoleClient.  A nil clientConn fails the write; its deferred Close
\* is a no-op.
DialWrite ==
    /\ pc = "dial"
    /\ \/ /\ pc' = "readResp" /\ sock' = "dial"
          /\ opened' = opened \cup {"clientConn"} /\ defers' = Append(defers, "clientConn")
          /\ net' = net \cup {Dgram("server", "natHoleClient")}
          /\ UNCHANGED closed
       \/ /\ "dialFail" \in Faults
          /\ Return /\ UNCHANGED <<opened, defers, net>>
    /\ UNCHANGED <<wc, detectOK, resp, lq, strayed, handled, srv, vpc>>

\* clientConn.Read with the 5 s deadline, then clientConn.Close(); a
\* NatHoleResp carrying an error ends the run.
RecvResp ==
    /\ pc = "readResp"
    /\ \E d \in net :
         /\ d.dst = "client" /\ d.kind = "resp"
         /\ net' = net \ {d}
         /\ IF d.err
              THEN Return /\ UNCHANGED resp
              ELSE /\ resp' = d /\ pc' = "split" /\ sock' = "none"
                   /\ closed' = closed \cup {"clientConn"}
    /\ UNCHANGED <<wc, detectOK, lq, strayed, opened, defers, handled, srv, vpc>>

\* The 5 s read deadline passes: no NatHoleResp is on its way.
NothingForClient == ~\E d \in net : d.dst \in {"client", "server"}

\* Mutant of RespTimeout: no read deadline is set.
RespTimeoutNoDeadline == FALSE

RespTimeout ==
    /\ pc = "readResp" /\ NothingForClient
    /\ Return
    /\ UNCHANGED <<wc, detectOK, resp, lq, net, strayed, opened, defers, handled, srv, vpc>>

\* strings.Split of VisitorAddr on ":": with one part the code logs and
\* indexes array[1] anyway, a panic (the deferred Closes run as it
\* unwinds); a port that ParseInt rejects ends the run; otherwise
\* sendDetectMsg and then WriteMsg(conn, NatHoleClientDetectOK).
Split ==
    /\ pc = "split"
    /\ LET array == SplitSeq(resp.addr, ":") IN
       CASE Len(array) <= 1 ->
              /\ pc' = "panic" /\ closed' = closed \cup ToSet(defers)
              /\ UNCHANGED <<detectOK, sock>>
         [] ~IsDecimal(array[2]) ->
              Return /\ UNCHANGED detectOK
         [] OTHER ->
              /\ detectOK' = TRUE /\ pc' = "listen"
              /\ UNCHANGED <<closed, sock>>
    /\ UNCHANGED <<wc, resp, lq, net, strayed, opened, defers, handled, srv, vpc>>

\* Mutant of Listen: lConn.Close() is not deferred.
ListenNoDefer ==
    /\ pc = "listen"
    /\ pc' = "readVSid" /\ sock' = "listen" /\ opened' = opened \cup {"lConn"}
    /\ UNCHANGED <<closed, defers>>
    /\ UNCHANGED <<wc, detectOK, resp, lq, net, strayed, handled, srv, vpc>>

\* Mutant of Listen: the ListenUDP error is not checked, as DialUDP's is not.
ListenErrUnchecked ==
    /\ pc = "listen"
    /\ \/ /\ pc' = "readVSid" /\ sock' = "listen"
          /\ opened' = opened \cup {"lConn"} /\ defers' = Append(defers, "lConn")
       \/ /\ "listenFail" \in Faults
          /\ pc' = "readVSid" /\ UNCHANGED <<sock, opened, defers>>
    /\ UNCHANGED <<closed, wc, detectOK, resp, lq, net, strayed, handled, srv, vpc>>

\* net.ListenUDP on clientConn's former local address; defer lConn.Close().
Listen ==
    /\ pc = "listen"
    /\ \/ /\ pc' = "readVSid" /\ sock' = "listen"
          /\ opened' = opened \cup {"lConn"} /\ defers' = Append(defers, "lConn")
          /\ UNCHANGED closed
       \/ /\ "listenFail" \in Faults
          /\ Return /\ UNCHANGED <<opened, defers>>
    /\ UNCHANGED <<wc, detectOK, resp, lq, net, strayed, handled, srv, vpc>>

\* lConn.ReadFromUDP under the 8 s deadline: the first datagram must be the
\* sid, which is echoed to its sender; anything else ends the run.
ReadVSid ==
    /\ pc = "readVSid" /\ lq # <<>>
    /\ lq' = Tail(lq)
    /\ IF Head(lq).kind = "sid"
         THEN /\ net' = net \cup {Dgram("visitor", "echo")} /\ pc' = "kcp"
              /\ UNCHANGED <<closed, sock>>
         ELSE Return /\ UNCHANGED net
    /\ UNCHANGED <<wc, detectOK, resp, strayed, opened, defers, handled, srv, vpc>>

\* The 8 s deadline passes: no datagram is queued or on its way, and the
\* visitor sends none any more.
VisitorMaySend == vpc = "waitResp" /\ \E d \in net : d.dst = "visitor" /\ d.kind = "resp"

SidTimeout ==
    /\ pc = "readVSid" /\ lq = <<>>
    /\ ~\E d \in net : d.dst = "client"
    /\ ~VisitorMaySend /\ srv # "waitDetect"
    /\ Return
    /\ UNCHANGED <<wc, detectOK, resp, lq, net, strayed, opened, defers, handled, srv, vpc>>

\* NewKcpConnFromUdp over lConn, then fmux.Server (which cannot fail with
\* the default config); defer sess.Close().
Kcp ==
    /\ pc = "kcp"
    /\ \/ /\ pc' = "accept"
          /\ opened' = opened \cup {"sess"} /\ defers' = Append(defers, "sess")
          /\ UNCHANGED <<closed, sock>>
       \/ /\ "kcpFail" \in Faults
          /\ Return /\ UNCHANGED <<opened, defers>>
    /\ UNCHANGED <<wc, detectOK, resp, lq, net, strayed, handled, srv, vpc>>

\* sess.Accept(): the visitor's stream opens.  KCP drops other datagrams.
Accept ==
    /\ pc = "accept" /\ lq # <<>>
    /\ lq' = Tail(lq)
    /\ pc' = IF Head(lq).kind = "open" THEN "handle" ELSE "accept"
    /\ UNCHANGED <<wc, detectOK, resp, sock, net, strayed, opened, closed, defers,
                   handled, srv, vpc>>

\* Accept has no deadline; it fails when the session's keepalive finds the
\* visitor gone.
AcceptFail ==
    /\ pc = "accept" /\ vpc = "gone"
    /\ ~\E i \in DOMAIN lq : lq[i].kind = "open"
    /\ Return
    /\ UNCHANGED <<wc, detectOK, resp, lq, net, strayed, opened, defers, handled, srv, vpc>>

\* HandleTcpWorkConnection on the stream, then the deferred Closes.
Handle ==
    /\ pc = "handle"
    /\ handled' = TRUE /\ Return
    /\ UNCHANGED <<wc, detectOK, resp, lq, net, strayed, opened, defers, srv, vpc>>

-----------------------------------------------------------------------------
(* The network                                                             *)

\* A datagram reaches the client's local port: queued if lConn listens
\* there, dropped otherwise.
DeliverToPort ==
    \E d \in net :
        /\ d.dst = "client" /\ d.kind # "resp"
        /\ net' = net \ {d}
        /\ lq' = IF sock = "listen" THEN Append(lq, d) ELSE lq
        /\ UNCHANGED <<pc, wc, detectOK, resp, sock, strayed, opened, closed, defers,
                       handled, srv, vpc>>

Lose ==
    /\ "loss" \in Faults
    /\ \E d \in net :
         /\ d.kind # "open"
         /\ net' = net \ {d}
    /\ UNCHANGED <<pc, wc, detectOK, resp, sock, lq, strayed, opened, closed, defers,
                   handled, srv, vpc>>

\* Some other host sends a datagram to the client's public port.
Stray ==
    /\ "stray" \in Faults /\ ~strayed
    /\ strayed' = TRUE /\ net' = net \cup {Dgram("client", "stray")}
    /\ UNCHANGED <<pc, wc, detectOK, resp, sock, lq, opened, closed, defers, handled,
                   srv, vpc>>

-----------------------------------------------------------------------------
(* The server's NAT-hole controller and the visitor (spec section 4.7)      *)

\* The controller pairs the client's NatHoleClient with the waiting visitor
\* and answers the client with the visitor's observed address.
ServerRecvClient ==
    /\ srv = "waitClient"
    /\ Dgram("server", "natHoleClient") \in net
    /\ \E e \in IF "respErr" \in Faults THEN BOOLEAN ELSE {FALSE}, a \in VisitorAddrs :
         net' = (net \ {Dgram("server", "natHoleClient")}) \cup {RespTo("client", e, a)}
    /\ srv' = "waitDetect"
    /\ UNCHANGED <<pc, wc, detectOK, resp, sock, lq, strayed, opened, closed, defers,
                   handled, vpc>>

\* On NatHoleClientDetectOK the visitor gets the client's address; if the
\* work connection ends first, it gets nothing.
ServerReadDetect ==
    /\ srv = "waitDetect"
    /\ \/ detectOK /\ net' = net \cup {RespTo("visitor", FALSE, <<>>)}
       \/ ~detectOK /\ pc \in Terminal /\ UNCHANGED net
    /\ srv' = "done"
    /\ UNCHANGED <<pc, wc, detectOK, resp, sock, lq, strayed, opened, closed, defers,
                   handled, vpc>>

\* The visitor sends the sid to the client's address and waits for the echo.
VisitorRecvResp ==
    /\ vpc = "waitResp"
    /\ \E d \in net :
         /\ d.dst = "visitor" /\ d.kind = "resp"
         /\ net' = (net \ {d}) \cup {Dgram("client", "sid")}
    /\ vpc' = "waitEcho"
    /\ UNCHANGED <<pc, wc, detectOK, resp, sock, lq, strayed, opened, closed, defers,
                   handled, srv>>

\* The echo arrives: the visitor opens the KCP session and its stream.
VisitorRecvEcho ==
    /\ vpc = "waitEcho" /\ Dgram("visitor", "echo") \in net
    /\ net' = (net \ {Dgram("visitor", "echo")}) \cup {Dgram("client", "open")}
    /\ vpc' = "connected"
    /\ UNCHANGED <<pc, wc, detectOK, resp, sock, lq, strayed, opened, closed, defers,
                   handled, srv>>

\* The visitor gives up when what it waits for can no longer come, and
\* ends its session when the client's side has closed.
VisitorGone ==
    /\ \/ vpc = "waitResp" /\ srv = "done" /\ ~\E d \in net : d.dst = "visitor"
       \/ vpc = "waitResp" /\ srv = "waitClient" /\ pc \notin {"readSid", "dial"}
          /\ Dgram("server", "natHoleClient") \notin net
       \/ vpc = "waitEcho" /\ Dgram("visitor", "echo") \notin net
          /\ pc \notin {"split", "listen", "readVSid"}
       \/ vpc = "connected" /\ pc \in Terminal
    /\ vpc' = "gone"
    /\ UNCHANGED <<pc, wc, detectOK, resp, sock, lq, net, strayed, opened, closed, defers,
                   handled, srv>>

-----------------------------------------------------------------------------

Client ==
    \/ ReadSid \/ DialWrite \/ RecvResp \/ RespTimeout \/ Split \/ Listen
    \/ ReadVSid \/ SidTimeout \/ Kcp \/ Accept \/ AcceptFail \/ Handle

Peers == ServerRecvClient \/ ServerReadDetect \/ VisitorRecvResp \/ VisitorRecvEcho
         \/ VisitorGone

Next == Client \/ DeliverToPort \/ Lose \/ Stray \/ Peers

\* The goroutine, the deadlines, the peers and the delivery of datagrams
\* that are not lost all make progress; loss and strays need not happen.
Fairness == WF_vars(Client) /\ WF_vars(DeliverToPort) /\ WF_vars(Peers)

Spec == Init /\ [][Next]_vars /\ Fairness

-----------------------------------------------------------------------------
(* Properties                                                              *)

\* Every way out of InWorkConn, the early returns after a failed read,
\* dial, listen or KCP setup, a wrong sid, and the panic on a malformed
\* address included, closes the work connection, clientConn, lConn and
\* the yamux session it opened: the deferred Closes cover them all.
DefersReleaseAll == pc \in Terminal => opened \subseteq closed

\* The goroutine always returns: every wait in InWorkConn has a deadline
\* (the NatHoleResp read, the visitor's sid) or ends with its peer (the
\* yamux Accept, through the session keepalive), whatever datagrams are
\* lost or stray.
InWorkConnReturns == <>(pc \in Terminal)

\* With no fault in the network or the peers, the punch succeeds (the
\* spec's scenario 5): the work connection is handed to
\* HandleTcpWorkConnection.
PunchSucceeds == pc \in Terminal => handled

==============================================================================
