---------------------------- MODULE MCProfileLog ----------------------------
(***************************************************************************)
(* Model-checking instance of ProfileLog: two writing processes and one    *)
(* reader, two branch pairs and one other event, files of up to three      *)
(* records, opened for writing up to a size of two.                        *)
(***************************************************************************)
EXTENDS ProfileLog, TLC

CONSTANTS w1, w2

MCWriter == {w1, w2}
WriterSymmetry == Permutations(MCWriter)
=============================================================================
