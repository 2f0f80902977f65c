---------------------------- MODULE MCServerLogin ----------------------------
(* Three logins with one run id: a first login and two re-logins.          *)
EXTENDS ServerLogin, TLC

CONSTANTS l1, l2, l3

MCLogins == {l1, l2, l3}

MCSymmetry == Permutations(MCLogins)
=============================================================================
