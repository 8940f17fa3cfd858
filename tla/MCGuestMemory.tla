--------------------------- MODULE MCGuestMemory ---------------------------
(***************************************************************************)
(* Model-checking instance of GuestMemory: three interchangeable pages, so *)
(* that two mirrors can share a canonical page, and a registry that holds  *)
(* two of them.                                                            *)
(***************************************************************************)
EXTENDS GuestMemory, TLC

CONSTANTS a, b, c

MCPage == {a, b, c}
MCPermissions == {{"read", "write"}, {"read", "execute"}}
PageSymmetry == Permutations(MCPage)
=============================================================================
