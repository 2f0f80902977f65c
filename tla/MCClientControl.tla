-------------------------- MODULE MCClientControl --------------------------
(* Bounds for checking ClientControl.  The real channels hold 100 frames; *)
(* a readCh of 2 already lets one burst from frps fill it.  sendCh is     *)
(* large enough for every Ping the clock allows, as 100 is for the three  *)
(* Pings one 90 s heartbeat timeout (interval 30 s) allows.               *)
EXTENDS ClientControl

MCReadChCap == 2
MCSendChCap == 4
MCHeartBeatInterval == 1
MCHeartBeatTimeout == 1
MCMaxTime == 3
MCMaxServerMsgs == 2
=============================================================================
