---------------------------- MODULE MCDispatcher ----------------------------
(***************************************************************************)
(* Model-checking instance of Dispatcher: three guest functions over three *)
(* blocks on two code pages.  Block 1 begins on the first page and ends on *)
(* the second.                                                             *)
(***************************************************************************)
EXTENDS Dispatcher

MCPc == 1..3
MCPage == {"P", "Q"}
MCPageOf == <<"P", "Q", "Q">>
MCCodePages == <<{"P", "Q"}, {"Q"}, {"Q"}>>

(* 1 -> 2 -> 3, and 3 halts. *)
Straight == [succ |-> <<2, 3, 0>>, branch |-> {1, 2}]

(* 1 -> 2 -> 3 -> 1: a loop. *)
Loop == [succ |-> <<2, 3, 1>>, branch |-> {1, 2, 3}]

(* 1 -> 2 -> 3, and 3 ends in Return, which leaves native.pc at 3. *)
Returning == [succ |-> <<2, 3, 3>>, branch |-> {1, 2}]

MCPrograms == {Straight, Loop, Returning}
=============================================================================
