-------------------------- MODULE MCClientWorkConn --------------------------
(* Every proxy configuration and every StartWorkConn address form.         *)
EXTENDS ClientWorkConn
=============================================================================
