------------------------------- MODULE Flags -------------------------------
(***************************************************************************)
(* The NZCV flags of nx86-core/src/guest.rs: how ADDS and SUBS set them and *)
(* what each condition code reads from them.  A word is a number below     *)
(* 2 * Half; Half is 2^63 in the program and any positive number here.     *)
(***************************************************************************)
EXTENDS Integers

CONSTANT Half
ASSUME HalfAssumption == Half \in Nat \ {0}

Words == 0 .. 2 * Half - 1
NZCV == [negative : BOOLEAN, zero : BOOLEAN, carry : BOOLEAN, overflow : BOOLEAN]
NoFlags == [negative |-> FALSE, zero |-> FALSE, carry |-> FALSE, overflow |-> FALSE]

\* The top bit of a word, and wrapping addition and subtraction.
Top(w) == w >= Half
WrapAdd(l, r) == IF l + r >= 2 * Half THEN l + r - 2 * Half ELSE l + r
WrapSub(l, r) == IF l < r THEN l - r + 2 * Half ELSE l - r

\* Nzcv::from_add: signed overflow when both operands differ in sign from the result.
FromAdd(l, r) ==
    LET sum == WrapAdd(l, r)
    IN  [negative |-> Top(sum), zero |-> sum = 0, carry |-> l + r >= 2 * Half,
         overflow |-> Top(l) # Top(sum) /\ Top(r) # Top(sum)]

\* Nzcv::from_sub: the carry is the inverse of the borrow.
FromSub(l, r) ==
    LET diff == WrapSub(l, r)
    IN  [negative |-> Top(diff), zero |-> diff = 0, carry |-> l >= r,
         overflow |-> Top(l) # Top(r) /\ Top(l) # Top(diff)]

Conds == {"Eq", "Ne", "Cs", "Cc", "Mi", "Pl", "Vs", "Vc",
          "Hi", "Ls", "Ge", "Lt", "Gt", "Le", "Al"}

\* Nzcv::satisfies.
Satisfies(f, cond) ==
    CASE cond = "Eq" -> f.zero
      [] cond = "Ne" -> ~f.zero
      [] cond = "Cs" -> f.carry
      [] cond = "Cc" -> ~f.carry
      [] cond = "Mi" -> f.negative
      [] cond = "Pl" -> ~f.negative
      [] cond = "Vs" -> f.overflow
      [] cond = "Vc" -> ~f.overflow
      [] cond = "Hi" -> f.carry /\ ~f.zero
      [] cond = "Ls" -> ~f.carry \/ f.zero
      [] cond = "Ge" -> f.negative = f.overflow
      [] cond = "Lt" -> f.negative # f.overflow
      [] cond = "Gt" -> ~f.zero /\ f.negative = f.overflow
      [] cond = "Le" -> f.zero \/ f.negative # f.overflow
      [] cond = "Al" -> TRUE

\* The two's complement reading of a word.
Signed(w) == IF Top(w) THEN w - 2 * Half ELSE w

=============================================================================
