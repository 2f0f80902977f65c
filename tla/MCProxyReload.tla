---------------------------- MODULE MCProxyReload ----------------------------
EXTENDS ProxyReload

MCIdA == <<"a">>
MCHost == <<"e", ".", "c">>

HttpSection ==
    [type |-> "http", role |-> "", enc |-> "", comp |-> "", ppv |-> "", plugin |-> "",
     localIp |-> "", localPort |-> Num(1), remotePort |-> Absent,
     hcType |-> "", hcUrl |-> <<>>, hcInts |-> [k \in HcIntKeys |-> Absent],
     domains |-> <<"x">>, subdomain |-> Absent, locations |-> Absent]

\* locations = /a /b (one location, a typo) and locations = /a,/b (two).
HttpSpaced == [HttpSection EXCEPT !.locations = <<"/", "a", " ", "/", "b">>]
HttpComma  == [HttpSection EXCEPT !.locations = <<"/", "a", ",", "/", "b">>]

MCNames == {MCIdA}
MCSections == {HttpSpaced, HttpComma}
==============================================================================
