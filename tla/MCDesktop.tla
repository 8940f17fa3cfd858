----------------------------- MODULE MCDesktop -----------------------------
(***************************************************************************)
(* Model-checking instance of Desktop: two windows, two workers after each *)
(* other, two title ids and two attempts at one, two choices in the        *)
(* settings.  Nothing tells the windows or the ids apart.                  *)
(***************************************************************************)
EXTENDS Desktop

MCScripts == {<<"log", "progress", "completed">>, <<"log", "junk", "log", "completed">>}
MCActionOf == [b \in {"south"} |-> "A"]
Symmetry == Permutations(Windows) \cup Permutations(Ids)
=============================================================================
