--------------------------- MODULE ClientWorkConn ---------------------------
(***************************************************************************)
(* One work connection on frpc, from the ReqWorkConn that asks for it to   *)
(* the end of the splice: Control.HandleReqWorkConn (src/unnamed/part_000) *)
(* dials the server and exchanges NewWorkConn / StartWorkConn, the proxy   *)
(* manager (not under src/) hands it to the named proxy, and the TCP-like  *)
(* proxies (tcp, http, https, stcp) run HandleTcpWorkConnection           *)
(* (src/client/proxy/proxy.go): optional encryption and compression, an   *)
(* optional PROXY protocol header built from StartWorkConn's addresses,   *)
(* then either the plugin or a dial of the local service and a Join.      *)
(*                                                                         *)
(* Addresses are abstracted to their textual form: an IPv4 literal, an    *)
(* IPv6 literal, text that does not parse, or the empty string.           *)
(***************************************************************************)
EXTENDS Naturals, Sequences

\* The forms an address string of StartWorkConn can take.
AddrStrs == {"", "ipv4", "ipv6", "junk"}
Ports == {0, 1}

Nil == [fam |-> "nil", len |-> 0]

\* net.ParseIP: nil for text that is no IP literal; an IPv4 literal parses
\* to its 16-byte IPv4-in-IPv6 form, as does an IPv6 literal.
ParseIP(s) ==
    CASE s = "ipv4" -> [fam |-> "v4", len |-> 16]
      [] s = "ipv6" -> [fam |-> "v6", len |-> 16]
      [] OTHER      -> Nil

\* net.IP.To16: nil stays nil, any valid IP has a 16-byte form.
To16(ip) == IF ip = Nil THEN Nil ELSE [ip EXCEPT !.len = 16]

\* Mutant of ProxyConfs: checkForCli does not validate
\* proxy_protocol_version.
ProxyConfsUnchecked ==
    [useEncryption : BOOLEAN, useCompression : BOOLEAN,
     ppVersion : {"", "v1", "v2", "v3"}, plugin : BOOLEAN]

\* The proxy configurations a TCP-like proxy can have after its check:
\* proxy_protocol_version is "", "v1" or "v2" (BaseProxyConf.checkForCli).
ProxyConfs ==
    [useEncryption : BOOLEAN, useCompression : BOOLEAN,
     ppVersion : {"", "v1", "v2"}, plugin : BOOLEAN]

StartMsgs == [srcAddr : AddrStrs, srcPort : Ports, dstAddr : AddrStrs, dstPort : Ports]

NoHeader == [version |-> 0]

\* The pp.Header HandleTcpWorkConnection builds, or NoHeader when none is
\* sent (no version configured, or an unknown source).
PPHeader(conf, m) ==
    IF conf.ppVersion # "" /\ m.srcAddr # "" /\ m.srcPort # 0
      THEN LET dst == IF m.dstAddr = "" THEN "ipv4" ELSE m.dstAddr
               src == ParseIP(m.srcAddr)
           IN [version |-> CASE conf.ppVersion = "v1" -> 1
                                 [] conf.ppVersion = "v2" -> 2
                                 [] OTHER -> 0,
               transport |-> IF To16(src) = Nil THEN "TCPv4" ELSE "TCPv6",
               src |-> src, srcPort |-> m.srcPort,
               dst |-> ParseIP(dst), dstPort |-> m.dstPort]
      ELSE NoHeader

VARIABLES
    pc,         \* where the HandleReqWorkConn goroutine is
    workConn,   \* "none", "open", "closed", or "plugin" once handed over
    localConn,  \* "none", "open", "closed"
    localRecv,  \* what the local service has received, in order
    conf,       \* configuration of the proxy named by StartWorkConn
    startMsg,   \* the StartWorkConn read from the server
    plugin,     \* that proxy's proxyPlugin: "nil", "open" or "closed"
    handedTo    \* the state of the plugin when it took the work connection

vars == <<pc, workConn, localConn, localRecv, conf, startMsg, plugin, handedTo>>

NoMsg == [srcAddr |-> "", srcPort |-> 0, dstAddr |-> "", dstPort |-> 0]

TypeOK ==
    /\ pc \in {"connect", "writeNew", "readStart", "dispatch", "handle", "join", "done"}
    /\ workConn \in {"none", "open", "closed", "plugin"}
    /\ localConn \in {"none", "open", "closed"}
    /\ localRecv \in Seq({"header", "data"}) /\ Len(localRecv) <= 2
    /\ conf \in ProxyConfs
    /\ startMsg \in StartMsgs
    /\ plugin \in {"nil", "open", "closed"} /\ handedTo \in {"none", "open", "closed"}
    \* the header, when one is sent, has a version the PROXY protocol defines
    /\ PPHeader(conf, startMsg) = NoHeader \/ PPHeader(conf, startMsg).version \in {1, 2}

\* The Run of the TCP-like proxy NewProxy made (TcpProxy, HttpProxy,
\* HttpsProxy, StcpProxy alike): plugin.Create when a plugin is
\* configured.  A proxy whose Run failed is not started by the manager.
Run(c) == IF c.plugin THEN "open" ELSE "nil"

\* ctl.HandleReqWorkConn is spawned for a ReqWorkConn; the proxy that the
\* server will name may have any valid configuration, and is running.
Init ==
    /\ pc = "connect" /\ workConn = "none" /\ localConn = "none"
    /\ localRecv = <<>> /\ startMsg = NoMsg
    /\ conf \in ProxyConfs
    /\ plugin = Run(conf) /\ handedTo = "none"

\* Mutant of Fail: an error return that does not close the work connection.
FailNoClose == pc' = "done" /\ UNCHANGED workConn

\* An error return: workConn.Close() if it was opened, and return.
Fail == pc' = "done" /\ workConn' = IF workConn = "open" THEN "closed" ELSE workConn

\* ctl.connectServer(): a new yamux stream or TCP (and TLS) dial.  On error
\* nothing was opened and the goroutine returns.
ConnectServer ==
    /\ pc = "connect"
    /\ \/ pc' = "writeNew" /\ workConn' = "open"
       \/ pc' = "done" /\ UNCHANGED workConn
    /\ UNCHANGED <<localConn, localRecv, conf, startMsg, plugin, handedTo>>

\* msg.WriteMsg(workConn, NewWorkConn{RunId}); on error workConn.Close().
WriteNewWorkConn ==
    /\ pc = "writeNew"
    /\ \/ pc' = "readStart" /\ UNCHANGED workConn
       \/ Fail
    /\ UNCHANGED <<localConn, localRecv, conf, startMsg, plugin, handedTo>>

\* msg.ReadMsgInto(workConn, &startMsg), with no deadline: the server sends
\* StartWorkConn when a user connection takes this one from its pool, or
\* closes it (pool full, server shutdown).
ReadStartWorkConn ==
    /\ pc = "readStart"
    /\ \/ \E m \in StartMsgs : startMsg' = m /\ pc' = "dispatch" /\ UNCHANGED workConn
       \/ Fail /\ UNCHANGED startMsg
    /\ UNCHANGED <<localConn, localRecv, conf, plugin, handedTo>>

\* ctl.pm.HandleWorkConn(startMsg.ProxyName, ...): the proxy is found and
\* running and its InWorkConn is called, or the work connection is closed.
Dispatch ==
    /\ pc = "dispatch"
    /\ \/ pc' = "handle" /\ UNCHANGED workConn
       \/ Fail
    /\ UNCHANGED <<localConn, localRecv, conf, startMsg, plugin, handedTo>>

\* HandleTcpWorkConnection up to the Join: WithEncryption may fail (close,
\* return); compression only wraps the stream; the PROXY header is built;
\* a plugin takes the connection and the header; otherwise the local
\* service is dialed (close and return on error) and receives the header
\* before anything else.
HandleTcpWorkConnection ==
    /\ pc = "handle"
    /\ LET hdr == PPHeader(conf, startMsg) IN
       \/ conf.useEncryption /\ Fail /\ UNCHANGED <<localConn, localRecv, handedTo>>
       \/ /\ plugin # "nil" /\ pc' = "done" /\ workConn' = "plugin"
          /\ handedTo' = plugin /\ UNCHANGED <<localConn, localRecv>>
       \/ plugin = "nil" /\ Fail /\ UNCHANGED <<localConn, localRecv, handedTo>>
       \/ /\ plugin = "nil"
          /\ pc' = "join" /\ localConn' = "open"
          /\ localRecv' = IF hdr # NoHeader THEN <<"header">> ELSE <<>>
          /\ UNCHANGED <<workConn, handedTo>>
    /\ UNCHANGED <<conf, startMsg, plugin>>

\* frpIo.Join(localConn, remote) copies both ways and, when either side
\* ends, closes both connections.
JoinCopy ==
    /\ pc = "join" /\ "data" \notin {localRecv[i] : i \in DOMAIN localRecv}
    /\ localRecv' = Append(localRecv, "data")
    /\ UNCHANGED <<pc, workConn, localConn, conf, startMsg, plugin, handedTo>>

JoinEnd ==
    /\ pc = "join"
    /\ pc' = "done" /\ workConn' = "closed" /\ localConn' = "closed"
    /\ UNCHANGED <<localRecv, conf, startMsg, plugin, handedTo>>

\* The proxy manager closes the proxy (a reload, frpc stopping) while the
\* work connection is on its way: TcpProxy.Close closes the plugin if
\* there is one, and leaves proxyPlugin set.
Close ==
    /\ plugin = "open"
    /\ plugin' = "closed"
    /\ UNCHANGED <<pc, workConn, localConn, localRecv, conf, startMsg, handedTo>>

Next ==
    \/ ConnectServer \/ WriteNewWorkConn \/ ReadStartWorkConn \/ Dispatch
    \/ HandleTcpWorkConnection \/ JoinCopy \/ JoinEnd \/ Close

Spec == Init /\ [][Next]_vars

-----------------------------------------------------------------------------
(* Properties                                                              *)

\* On every path out of HandleReqWorkConn and HandleTcpWorkConnection the
\* work connection is closed or owned by a plugin, and no local connection
\* is left open: an early return that forgets a Close leaks a server
\* stream per ReqWorkConn.
ConnsReleased ==
    pc = "done" => workConn \in {"none", "closed", "plugin"} /\ localConn # "open"

\* The PROXY protocol header names the transport family of the user's
\* source address: TCP4 for an IPv4 source, TCP6 for an IPv6 source (the
\* PROXY protocol's rule, which haproxy and nginx enforce on receipt).
PPFamilyMatches ==
    LET hdr == PPHeader(conf, startMsg) IN
    pc \in {"join", "done"} /\ hdr # NoHeader /\ hdr.src # Nil =>
        hdr.transport = IF hdr.src.fam = "v4" THEN "TCPv4" ELSE "TCPv6"

\* A work connection is handed only to a plugin that is still open: a
\* closed plugin's listener no longer serves the connections put to it.
\* InWorkConn reads pxy.proxyPlugin without any lock against Close.
HandedToLivePlugin == workConn = "plugin" => handedTo = "open"

=============================================================================
