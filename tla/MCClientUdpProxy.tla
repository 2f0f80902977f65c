-------------------------- MODULE MCClientUdpProxy --------------------------
(* Three work connections arriving for one UDP proxy, and one stop.          *)
EXTENDS ClientUdpProxy, TLC

CONSTANTS w1, w2, w3

MCCalls == {w1, w2, w3}

MCSymmetry == Permutations(MCCalls)
=============================================================================
