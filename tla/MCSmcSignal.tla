---------------------------- MODULE MCSmcSignal ----------------------------
(***************************************************************************)
(* Model-checking instance of SmcSignal: three pages against rings of three*)
(* slots, of which two hold events, so that either ring fills up within    *)
(* one block.                                                              *)
(***************************************************************************)
EXTENDS SmcSignal

CONSTANTS p1, p2, p3

MCPage == {p1, p2, p3}
MCPermissions == {{"read", "execute"}, {"read", "write"}}
=============================================================================
