----------------------------- MODULE MCConfigLoad -----------------------------
EXTENDS ConfigLoad

\* Section names: [common], two plain proxies and a range.
MCCommon == [kind |-> "common", id |-> <<"common">>]
MCPlainA == [kind |-> "plain", id |-> <<"a">>]
MCPlainB == [kind |-> "plain", id |-> <<"b">>]
MCRange  == [kind |-> "range", id |-> "r"]
\* [r_0]: the name of the first sub-section of [range:r].
MCPlainR0 == [kind |-> "plain", id |-> SubName("r", 0)]

RangeOf(lo, hi) == [kind |-> "range", lo |-> lo, hi |-> hi]

BaseSection ==
    [type |-> "tcp", role |-> "", enc |-> "", comp |-> "", ppv |-> "", plugin |-> "",
     localIp |-> "", localPort |-> Num(1), remotePort |-> Num(1),
     hcType |-> "", hcUrl |-> <<>>, hcInts |-> [k \in HcIntKeys |-> Absent],
     domains |-> Absent, subdomain |-> Absent, locations |-> Absent]

TcpOk     == BaseSection
TcpOther  == [BaseSection EXCEPT !.remotePort = Num(2)]
RangeOk   == [BaseSection EXCEPT !.localPort = RangeOf(1, 2), !.remotePort = RangeOf(1, 2)]
\* two local ports, one remote port: a range error, an Atoi error if plain
RangeBad  == [BaseSection EXCEPT !.localPort = RangeOf(1, 2)]
Stcp      == [BaseSection EXCEPT !.type = "stcp"]
Visitor   == [BaseSection EXCEPT !.type = "stcp", !.role = "visitor"]
Udp       == [BaseSection EXCEPT !.type = "udp"]
Xtcp      == [BaseSection EXCEPT !.type = "xtcp"]
\* https without custom_domains or subdomain: DomainConf.check fails
HttpsBare == [BaseSection EXCEPT !.type = "https"]
\* role = client: neither server nor visitor
ClientRole == [BaseSection EXCEPT !.role = "client"]
\* frps's subdomain_host "e.c"
MCHost == <<"e", ".", "c">>
\* http with custom_domains = e.c, frps's own host: not under it
HttpHost  == [BaseSection EXCEPT !.type = "http", !.domains = MCHost]
\* http with custom_domains = a.xe.c: outside e.c, yet it contains "e.c"
HttpNear  == [BaseSection EXCEPT !.type = "http", !.domains = <<"a", ".", "x", "e", ".", "c">>]
\* http with custom_domains = x.e.c: a subdomain of e.c, frps refuses it
HttpUnder == [BaseSection EXCEPT !.type = "http", !.domains = <<"x", ".", "e", ".", "c">>]
BigPort   == [BaseSection EXCEPT !.localPort = Num(70000)]
HcPlugin  == [BaseSection EXCEPT !.plugin = "p", !.hcType = "tcp"]

MCNames == {MCCommon, MCPlainA, MCPlainB, MCRange}
MCSections == {TcpOk, RangeOk, RangeBad, Stcp, Visitor, Udp, Xtcp, HttpsBare, ClientRole, HttpHost, HttpUnder}
MCStartSets == {{}, {MCPlainA}, {MCRange}}

MCCollideNames == {MCPlainR0, MCRange}
MCCollideSections == {TcpOther, RangeOk}

MCHcNames == {MCPlainA}
MCHcSections == {HcPlugin}
MCPortSections == {BigPort}
MCNearSections == {HttpNear}
MCAllStart == {{}}
==============================================================================
