---------------------------- MODULE MCXtcpClient ----------------------------
EXTENDS XtcpClient

\* Observed UDP addresses as the server formats them (raddr.String()):
\* IPv4 "1.1:5" and IPv6 "[::1]:5", and one without a port.
AddrV4 == <<"1", ".", "1", ":", "5">>
AddrV6 == <<"[", ":", ":", "1", "]", ":", "5">>
AddrNoPort == <<"1", ".", "1">>

MCAddrs == {AddrV4, AddrNoPort}
MCV4 == {AddrV4}
MCV6 == {AddrV6}
==============================================================================
