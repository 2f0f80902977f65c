------------------------------ MODULE ProxyConf ------------------------------
(***************************************************************************)
(* frpc's proxy configuration (src/models/config/proxy.go): an ini section *)
(* becomes a ProxyConf by NewProxyConfFromIni (UnmarshalFromIni of the     *)
(* type's embedded parts, then CheckForCli); Compare tells whether two     *)
(* confs are the same; ParseRangeSection expands a [range:...] section.   *)
(*                                                                         *)
(* A section is a record of the keys the code reads.  Keys whose presence *)
(* the code tests hold Absent when missing; the others hold "" as a Go map *)
(* lookup does.  A port value is parsed already into its shape: a number, *)
(* a range "lo-hi" or text that is no number.  custom_domains, locations  *)
(* and health_check_url are sequences of characters, so Split, TrimSpace, *)
(* ToLower and Join are modelled by what they do.  Keys the code copies   *)
(* verbatim and compares verbatim (group, group_key, sk, http_user,       *)
(* http_pwd, host_header_rewrite, the header_ and plugin_ keys) are left *)
(* out.                                                                    *)
(***************************************************************************)
EXTENDS Naturals, Sequences, SequencesExt, GoStrings

CONSTANTS
    Absent,
    \* frps's settings that its CheckForSvr reads (package variables of the
    \* config package): subdomain_host, vhost_http_port, vhost_https_port
    SubDomainHost, VhostHttpPort, VhostHttpsPort

\* The integer-valued health check keys, parsed alike.
HcIntKeys == {"timeout_s", "max_failed", "interval_s"}

\* proxyConfTypeMap, filled by init(): the types NewConfByType knows.
ProxyTypes == {"tcp", "udp", "http", "https", "stcp", "xtcp"}

Num(n) == [kind |-> "num", n |-> n]

\* strconv.Atoi / ParseInt on a port value: only a number parses.
IsInt(v) == v # Absent /\ v.kind = "num"

-----------------------------------------------------------------------------
(* The parts of UnmarshalFromIni and their errors                         *)

\* NewProxyConfFromIni: an empty type means tcp.
TypeOf(sec) == IF sec.type = "" THEN "tcp" ELSE sec.type

\* LocalSvrConf.UnmarshalFromIni: without a plugin local_port must be
\* present and an integer.
LocalSvrIniErr(sec) == sec.plugin = "" /\ ~IsInt(sec.localPort)

\* HealthCheckConf.UnmarshalFromIni: each integer key, when present, parses.
HealthIniErr(sec) == \E k \in HcIntKeys : sec.hcInts[k] # Absent /\ ~IsInt(sec.hcInts[k])

\* BindInfoConf.UnmarshalFromIni: remote_port is required and parses.
BindInfoIniErr(sec) == ~IsInt(sec.remotePort)

-----------------------------------------------------------------------------
(* The conf built from a section that unmarshals                          *)

LocalIp(sec) ==
    CASE sec.plugin # ""   -> ""
      [] sec.localIp = ""  -> "127.0.0.1"
      [] OTHER             -> sec.localIp

LocalPort(sec) == IF sec.plugin = "" THEN sec.localPort.n ELSE 0

\* The derived health check target of BaseProxyConf.UnmarshalFromIni: the
\* local address for tcp; for http, "http://ip:port" joined to the url by
\* a "/" unless the url starts with one.  With a plugin nothing is derived.
HcAddr(sec) ==
    IF sec.hcType = "tcp" /\ sec.plugin = "" THEN <<LocalIp(sec), LocalPort(sec)>> ELSE <<>>

HcUrl(sec) ==
    IF sec.hcType = "http" /\ sec.plugin = "" /\ sec.hcUrl # <<>>
      THEN [host |-> <<LocalIp(sec), LocalPort(sec)>>,
            path |-> IF IsPrefix(<<"/">>, sec.hcUrl) THEN sec.hcUrl ELSE <<"/">> \o sec.hcUrl]
      ELSE [host |-> <<>>, path |-> sec.hcUrl]

\* DomainConf.UnmarshalFromIni: split on ",", each trimmed and lowered.
Domains(sec) ==
    IF sec.domains = Absent THEN <<>>
    ELSE LET parts == SplitSeq(sec.domains, ",")
         IN [i \in DOMAIN parts |-> ToLower(TrimSpace(parts[i]))]

\* HttpProxyConf.UnmarshalFromIni: locations split on ","; none is [""].
Locations(sec) ==
    IF sec.locations = Absent THEN <<<<>>>> ELSE SplitSeq(sec.locations, ",")

IniConf(prefix, name, sec) ==
    LET t == TypeOf(sec) IN
    [name |-> <<prefix, name>>, type |-> t,
     enc |-> sec.enc = "true", comp |-> sec.comp = "true", ppv |-> sec.ppv,
     plugin |-> sec.plugin, localIp |-> LocalIp(sec), localPort |-> LocalPort(sec),
     hcType |-> sec.hcType, hcAddr |-> HcAddr(sec), hcUrl |-> HcUrl(sec),
     hcInts |-> [k \in HcIntKeys |-> IF sec.hcInts[k] = Absent THEN 0 ELSE sec.hcInts[k].n],
     remotePort |-> IF t \in {"tcp", "udp"} THEN sec.remotePort.n ELSE 0,
     domains |-> IF t \in {"http", "https"} THEN Domains(sec) ELSE <<>>,
     subdomain |-> IF t \in {"http", "https"} /\ sec.subdomain # Absent THEN sec.subdomain ELSE <<>>,
     locations |-> IF t = "http" THEN Locations(sec) ELSE <<>>,
     role |-> IF t \in {"stcp", "xtcp"} THEN sec.role ELSE ""]

-----------------------------------------------------------------------------
(* CheckForCli                                                             *)

\* LocalSvrConf.checkForCli: without a plugin, an ip and a positive port.
LocalSvrCliErr(c) == c.plugin = "" /\ (c.localIp = "" \/ c.localPort <= 0)

\* HealthCheckConf.checkForCli: a known type; http needs a url.
HealthCliErr(c) ==
    \/ c.hcType \notin {"", "tcp", "http"}
    \/ c.hcType = "http" /\ c.hcUrl.path = <<>>

\* BaseProxyConf.checkForCli: the PROXY protocol version, then the local
\* service, then the health check.
BaseCliErr(c) ==
    c.ppv \notin {"", "v1", "v2"} \/ LocalSvrCliErr(c) \/ HealthCliErr(c)

\* DomainConf.check: a custom domain or a subdomain is required.  A
\* custom_domains key with an empty value is one domain, "".
DomainCliErr(c) == Len(c.domains) = 0 /\ c.subdomain = <<>>

\* The CheckForCli of each type.
TcpCliErr(c)   == BaseCliErr(c)
UdpCliErr(c)   == BaseCliErr(c)
HttpCliErr(c)  == BaseCliErr(c) \/ DomainCliErr(c)
HttpsCliErr(c) == BaseCliErr(c) \/ DomainCliErr(c)
StcpCliErr(c)  == BaseCliErr(c) \/ c.role # "server"
XtcpCliErr(c)  == BaseCliErr(c) \/ c.role # "server"

\* ProxyConf.CheckForCli, dispatched on the conf's type.
CheckForCliErr(c) ==
    CASE c.type = "tcp"   -> TcpCliErr(c)
      [] c.type = "udp"   -> UdpCliErr(c)
      [] c.type = "http"  -> HttpCliErr(c)
      [] c.type = "https" -> HttpsCliErr(c)
      [] c.type = "stcp"  -> StcpCliErr(c)
      [] c.type = "xtcp"  -> XtcpCliErr(c)

-----------------------------------------------------------------------------
(* UnmarshalFromIni: the first error, in the order the code meets them     *)

\* `if err = f(); err != nil { return }` followed by g.
FirstErr(e1, e2) == IF e1 # "" THEN e1 ELSE e2

\* BaseProxyConf.UnmarshalFromIni: the local service, then the health check.
BaseIniErr(sec) ==
    CASE LocalSvrIniErr(sec) -> "local_port"
      [] HealthIniErr(sec)   -> "health_check"
      [] OTHER               -> ""

\* The UnmarshalFromIni of each type: the base, then the type's own part.
\* DomainConf's never fails; stcp and xtcp read the local service twice,
\* with the same outcome, after the role.
TcpIniErr(sec)   == FirstErr(BaseIniErr(sec), IF BindInfoIniErr(sec) THEN "remote_port" ELSE "")
UdpIniErr(sec)   == FirstErr(BaseIniErr(sec), IF BindInfoIniErr(sec) THEN "remote_port" ELSE "")
HttpIniErr(sec)  == BaseIniErr(sec)
HttpsIniErr(sec) == BaseIniErr(sec)
StcpIniErr(sec)  == FirstErr(BaseIniErr(sec), IF sec.role # "server" THEN "role" ELSE "")
XtcpIniErr(sec)  == FirstErr(BaseIniErr(sec), IF sec.role # "server" THEN "role" ELSE "")

\* ProxyConf.UnmarshalFromIni, dispatched on the type NewConfByType chose.
UnmarshalErr(t, sec) ==
    CASE t = "tcp"   -> TcpIniErr(sec)
      [] t = "udp"   -> UdpIniErr(sec)
      [] t = "http"  -> HttpIniErr(sec)
      [] t = "https" -> HttpsIniErr(sec)
      [] t = "stcp"  -> StcpIniErr(sec)
      [] t = "xtcp"  -> XtcpIniErr(sec)

\* NewProxyConfFromIni: the first error it returns, or "" when it returns
\* the conf IniConf(prefix, name, sec).
NewProxyConfFromIni(prefix, name, sec) ==
    LET t == TypeOf(sec) IN
    CASE t \notin ProxyTypes                          -> "type"
      [] UnmarshalErr(t, sec) # ""                     -> UnmarshalErr(t, sec)
      [] CheckForCliErr(IniConf(prefix, name, sec))    -> "check"
      [] OTHER                                         -> ""

-----------------------------------------------------------------------------
(* Compare                                                                 *)

\* LocalSvrConf.compare and HealthCheckConf.compare (HealthCheckAddr is
\* derived and not compared).
LocalSvrCompare(a, b) == a.localIp = b.localIp /\ a.localPort = b.localPort /\ a.plugin = b.plugin
HealthCompare(a, b) == a.hcType = b.hcType /\ a.hcInts = b.hcInts /\ a.hcUrl = b.hcUrl

\* BaseProxyConf.compare.
BaseCompare(a, b) ==
    /\ a.name = b.name /\ a.type = b.type /\ a.enc = b.enc /\ a.comp = b.comp
    /\ a.ppv = b.ppv /\ LocalSvrCompare(a, b) /\ HealthCompare(a, b)

\* DomainConf.compare: the domains joined by " ", and the subdomain.
DomainCompare(a, b) ==
    JoinSeq(a.domains, " ") = JoinSeq(b.domains, " ") /\ a.subdomain = b.subdomain

\* The Compare of each type: the type assertion cmp.(*XxxProxyConf), then
\* the parts.  http compares its locations joined by " ".
TcpCompare(a, b)   == b.type = "tcp" /\ BaseCompare(a, b) /\ a.remotePort = b.remotePort
UdpCompare(a, b)   == b.type = "udp" /\ BaseCompare(a, b) /\ a.remotePort = b.remotePort
HttpCompare(a, b)  ==
    /\ b.type = "http" /\ BaseCompare(a, b) /\ DomainCompare(a, b)
    /\ JoinSeq(a.locations, " ") = JoinSeq(b.locations, " ")
HttpsCompare(a, b) == b.type = "https" /\ BaseCompare(a, b) /\ DomainCompare(a, b)
StcpCompare(a, b)  == b.type = "stcp" /\ BaseCompare(a, b) /\ a.role = b.role
XtcpCompare(a, b)  ==
    b.type = "xtcp" /\ BaseCompare(a, b) /\ LocalSvrCompare(a, b) /\ a.role = b.role

\* ProxyConf.Compare, dispatched on the receiver's type.
Compare(a, b) ==
    CASE a.type = "tcp"   -> TcpCompare(a, b)
      [] a.type = "udp"   -> UdpCompare(a, b)
      [] a.type = "http"  -> HttpCompare(a, b)
      [] a.type = "https" -> HttpsCompare(a, b)
      [] a.type = "stcp"  -> StcpCompare(a, b)
      [] a.type = "xtcp"  -> XtcpCompare(a, b)

-----------------------------------------------------------------------------
(* The NewProxy message, and the conf frps makes of it                     *)

\* msg.NewProxy with Go's zero values, restricted to the modelled fields.
MsgZero ==
    [name |-> <<>>, type |-> "", enc |-> FALSE, comp |-> FALSE, remotePort |-> 0,
     domains |-> <<>>, subdomain |-> <<>>, locations |-> <<>>]

\* The MarshalToMsg of the embedded parts: conf c's fields into message m.
BaseToMsg(c, m) ==
    [m EXCEPT !.name = c.name, !.type = c.type, !.enc = c.enc, !.comp = c.comp]
BindToMsg(c, m) == [m EXCEPT !.remotePort = c.remotePort]
DomainToMsg(c, m) == [m EXCEPT !.domains = c.domains, !.subdomain = c.subdomain]

\* The MarshalToMsg of each type; stcp and xtcp add their sk.
TcpMarshalToMsg(c)   == BindToMsg(c, BaseToMsg(c, MsgZero))
UdpMarshalToMsg(c)   == BindToMsg(c, BaseToMsg(c, MsgZero))
HttpMarshalToMsg(c)  ==
    [DomainToMsg(c, BaseToMsg(c, MsgZero)) EXCEPT !.locations = c.locations]
HttpsMarshalToMsg(c) == DomainToMsg(c, BaseToMsg(c, MsgZero))
StcpMarshalToMsg(c)  == BaseToMsg(c, MsgZero)
XtcpMarshalToMsg(c)  == BaseToMsg(c, MsgZero)

\* ProxyConf.MarshalToMsg, dispatched on the conf's type.
MarshalToMsg(c) ==
    CASE c.type = "tcp"   -> TcpMarshalToMsg(c)
      [] c.type = "udp"   -> UdpMarshalToMsg(c)
      [] c.type = "http"  -> HttpMarshalToMsg(c)
      [] c.type = "https" -> HttpsMarshalToMsg(c)
      [] c.type = "stcp"  -> StcpMarshalToMsg(c)
      [] c.type = "xtcp"  -> XtcpMarshalToMsg(c)

\* The UnmarshalFromMsg of the embedded parts: message m's fields into a
\* conf c that NewConfByType zeroed (frps's confs have the message's shape).
BaseFromMsg(m, c) ==
    [c EXCEPT !.name = m.name, !.type = m.type, !.enc = m.enc, !.comp = m.comp]
BindFromMsg(m, c) == [c EXCEPT !.remotePort = m.remotePort]
DomainFromMsg(m, c) == [c EXCEPT !.domains = m.domains, !.subdomain = m.subdomain]

\* The UnmarshalFromMsg of each type; stcp and xtcp take the sk only.
TcpUnmarshalFromMsg(m)   == BindFromMsg(m, BaseFromMsg(m, MsgZero))
UdpUnmarshalFromMsg(m)   == BindFromMsg(m, BaseFromMsg(m, MsgZero))
HttpUnmarshalFromMsg(m)  ==
    [DomainFromMsg(m, BaseFromMsg(m, MsgZero)) EXCEPT !.locations = m.locations]
HttpsUnmarshalFromMsg(m) == DomainFromMsg(m, BaseFromMsg(m, MsgZero))
StcpUnmarshalFromMsg(m)  == BaseFromMsg(m, MsgZero)
XtcpUnmarshalFromMsg(m)  == BaseFromMsg(m, MsgZero)

\* ProxyConf.UnmarshalFromMsg, on the conf NewConfByType made for m.type.
UnmarshalFromMsg(m) ==
    CASE m.type = "tcp"   -> TcpUnmarshalFromMsg(m)
      [] m.type = "udp"   -> UdpUnmarshalFromMsg(m)
      [] m.type = "http"  -> HttpUnmarshalFromMsg(m)
      [] m.type = "https" -> HttpsUnmarshalFromMsg(m)
      [] m.type = "stcp"  -> StcpUnmarshalFromMsg(m)
      [] m.type = "xtcp"  -> XtcpUnmarshalFromMsg(m)

\* Mutant of DomainSvrErr: any custom domain containing subdomain_host is
\* refused, whatever its number of labels.
DomainSvrErrNoLabels(c) ==
    CASE DomainCliErr(c) -> "domain"
      [] \E i \in DOMAIN c.domains :
            SubDomainHost # <<>> /\ HasInfix(c.domains[i], SubDomainHost) -> "custom_domain"
      [] c.subdomain # <<>> /\ SubDomainHost = <<>> -> "subdomain"
      [] c.subdomain # <<>> /\ {".", "*"} \cap ToSet(c.subdomain) # {} -> "subdomain"
      [] OTHER -> ""

\* DomainConf.checkForSvr: check(); no custom domain with more labels than
\* subdomain_host that contains it; a subdomain only when subdomain_host
\* is set, and without "." or "*".
DomainSvrErr(c) ==
    CASE DomainCliErr(c) -> "domain"
      [] \E i \in DOMAIN c.domains :
            /\ SubDomainHost # <<>>
            /\ Len(SplitSeq(SubDomainHost, ".")) < Len(SplitSeq(c.domains[i], "."))
            /\ HasInfix(c.domains[i], SubDomainHost) -> "custom_domain"
      [] c.subdomain # <<>> /\ SubDomainHost = <<>> -> "subdomain"
      [] c.subdomain # <<>> /\ {".", "*"} \cap ToSet(c.subdomain) # {} -> "subdomain"
      [] OTHER -> ""

\* The CheckForSvr of each type: http and https need their vhost port.
TcpSvrErr(c)   == ""
UdpSvrErr(c)   == ""
HttpSvrErr(c)  == IF VhostHttpPort = 0 THEN "vhost_http_port" ELSE DomainSvrErr(c)
HttpsSvrErr(c) == IF VhostHttpsPort = 0 THEN "vhost_https_port" ELSE DomainSvrErr(c)
StcpSvrErr(c)  == ""
XtcpSvrErr(c)  == ""

\* ProxyConf.CheckForSvr, dispatched on the conf's type.
CheckForSvrErr(c) ==
    CASE c.type = "tcp"   -> TcpSvrErr(c)
      [] c.type = "udp"   -> UdpSvrErr(c)
      [] c.type = "http"  -> HttpSvrErr(c)
      [] c.type = "https" -> HttpsSvrErr(c)
      [] c.type = "stcp"  -> StcpSvrErr(c)
      [] c.type = "xtcp"  -> XtcpSvrErr(c)

\* NewProxyConfFromMsg: an empty type means tcp; NewConfByType, then
\* UnmarshalFromMsg and CheckForSvr.  The error, and the conf.
NewProxyConfFromMsg(pMsg) ==
    LET m == IF pMsg.type = "" THEN [pMsg EXCEPT !.type = "tcp"] ELSE pMsg
        c == UnmarshalFromMsg(m)
    IN IF m.type \notin ProxyTypes THEN [err |-> "type", conf |-> MsgZero]
       ELSE [err |-> CheckForSvrErr(c), conf |-> c]

-----------------------------------------------------------------------------
(* Range sections                                                          *)

\* util.ParseRangeNumbers (not under src/): "n" or "lo-hi"; anything else,
\* the empty string included, is an error (Absent here).
ParseRangeNumbers(v) ==
    CASE v = Absent       -> Absent
      [] v.kind = "num"   -> <<v.n>>
      [] v.kind = "range" -> [i \in 1..(v.hi - v.lo + 1) |-> v.lo + i - 1]
      [] OTHER            -> Absent

\* fmt.Sprintf("%s_%d", name, i)
SubName(name, i) == <<name, i>>

\* ParseRangeSection: the error, or the sub-sections name_i, each a copy of
\* the section with the i-th local and remote port.
RangeErr(sec) ==
    LET lp == ParseRangeNumbers(sec.localPort)
        rp == ParseRangeNumbers(sec.remotePort)
    IN lp = Absent \/ rp = Absent \/ Len(lp) # Len(rp) \/ Len(lp) = 0

ParseRangeSection(name, sec) ==
    LET lp == ParseRangeNumbers(sec.localPort)
        rp == ParseRangeNumbers(sec.remotePort)
    IN [sn \in {SubName(name, i) : i \in 0..(Len(lp) - 1)} |->
          [sec EXCEPT !.localPort = Num(lp[sn[2] + 1]), !.remotePort = Num(rp[sn[2] + 1])]]

==============================================================================
