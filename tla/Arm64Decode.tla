----------------------------- MODULE Arm64Decode -----------------------------
(***************************************************************************)
(* The AArch64 decoder (nx86-arm64-decode/src/lib.rs).  A 32-bit word is a *)
(* pair of 16-bit halves, high first.  decode_kind tests the word against  *)
(* one pattern after another; here the patterns are a sequence in the same *)
(* order, and Match is what each test says of a word.                      *)
(***************************************************************************)
EXTENDS Integers, Sequences, SequencesExt

\* bits: width bits of the word from offset on.
BitsOf(w, offset, width) ==
    CASE offset >= 16 -> (w[1] \div 2 ^ (offset - 16)) % 2 ^ width
      [] offset < 16 /\ offset + width <= 16 -> (w[2] \div 2 ^ offset) % 2 ^ width
      [] OTHER -> (w[2] \div 2 ^ offset) + (w[1] % 2 ^ (offset + width - 16)) * 2 ^ (16 - offset)
\* sign_extend.
\* Mutant: the offset is taken as unsigned.
ZeroExtend(value, width) == value
SignExtend(value, width) == IF value >= 2 ^ (width - 1) THEN value - 2 ^ width ELSE value

Rd(w) == BitsOf(w, 0, 5)
Rn(w) == BitsOf(w, 5, 5)
Rm(w) == BitsOf(w, 16, 5)

-----------------------------------------------------------------------------
(* The instruction a word with the pattern stands for.  A shifted immediate *)
(* keeps its shift where the value would not fit.                          *)

Immediate12(w) == BitsOf(w, 10, 12) * (IF BitsOf(w, 22, 1) = 1 THEN 4096 ELSE 1)
WithImmediate(k, w) == [k |-> k, rd |-> Rd(w), rn |-> Rn(w), imm |-> Immediate12(w)]
Registers3(k, op, w) == [k |-> k, op |-> op, rd |-> Rd(w), rn |-> Rn(w), rm |-> Rm(w)]
Scale(size) == IF size = "Word" THEN 4 ELSE 8
Access(k, size, w) == [k |-> k, rt |-> Rd(w), rn |-> Rn(w), offset |-> BitsOf(w, 10, 12) * Scale(size), size |-> size]
Conditions == <<"Eq", "Ne", "Cs", "Cc", "Mi", "Pl", "Vs", "Vc", "Hi", "Ls", "Ge", "Lt", "Gt", "Le", "Al", "Al">>

Undecoded == [k |-> "Undecoded"]
\* Exclusive and ordered accesses: told apart by bits 22 and 21, after the
\* size bits, of which 10 is a word and anything else a double.
ExclusiveKind(w) ==
    LET load == BitsOf(w, 22, 1) = 1
        ordered == BitsOf(w, 21, 1) = 1
    IN  CASE load /\ Rm(w) = 31 -> IF ordered THEN "LoadAcquire" ELSE "LoadExclusive"
          [] ~load -> IF ordered THEN "StoreRelease" ELSE "StoreExclusive"
          [] OTHER -> "Undecoded"
Exclusive(w) ==
    LET k == ExclusiveKind(w)
        size == IF BitsOf(w, 30, 2) = 2 THEN "Word" ELSE "Double"
    IN  CASE k = "StoreExclusive" -> [k |-> k, rs |-> Rm(w), rt |-> Rd(w), rn |-> Rn(w), size |-> size]
          [] k = "Undecoded" -> Undecoded
          [] OTHER -> [k |-> k, rt |-> Rd(w), rn |-> Rn(w), size |-> size]

FpImmediate(w) ==
    LET imm8 == BitsOf(w, 13, 8)
    IN  IF imm8 \in {0, 112} THEN [k |-> "FpMoveImmediate", rd |-> Rd(w), value |-> IF imm8 = 0 THEN 2 ELSE 1]
        ELSE Undecoded

\* Branches are relative to the address of the instruction, in bytes.
BranchTo(w, at) == LET o == SignExtend(BitsOf(w, 0, 26) * 4, 28) IN [k |-> "Branch", offset |-> o, target |-> at + o]
CondBranchTo(w, at) ==
    LET o == SignExtend(BitsOf(w, 5, 19) * 4, 21)
    IN  [k |-> "CondBranch", cond |-> Conditions[BitsOf(w, 0, 4) + 1], offset |-> o, target |-> at + o]

Forms == <<"MovZ", "AddImmediate", "SubImmediate", "AddsImmediate", "SubsImmediate", "Branch", "CondBranch",
           "Svc", "Dsb", "Dmb", "Isb", "FpMove", "FpAdd", "FpSub", "FpMul", "FpDiv", "FpCompare", "AddI64", "AddF64",
           "And", "Or", "Xor", "StoreWord", "StoreDouble", "LoadWord", "LoadDouble", "Exclusive">>

\* The fields a mask of decode_kind selects: offset, width and the bits the
\* test compares them with.
Pattern == [form \in ToSet(Forms) |->
    CASE form = "MovZ" -> <<<<23, 9, \h1A5>>>>
      [] form = "AddImmediate" -> <<<<24, 8, \h91>>>>
      [] form = "SubImmediate" -> <<<<24, 8, \hD1>>>>
      [] form = "AddsImmediate" -> <<<<24, 8, \hB1>>>>
      [] form = "SubsImmediate" -> <<<<24, 8, \hF1>>>>
      [] form = "Branch" -> <<<<26, 6, \h5>>>>
      [] form = "CondBranch" -> <<<<24, 8, \h54>>, <<4, 1, \h0>>>>
      [] form = "Svc" -> <<<<21, 11, \h6A0>>, <<0, 5, \h1>>>>
      [] form = "Dsb" -> <<<<12, 20, \hD5033>>, <<0, 8, \h9F>>>>
      [] form = "Dmb" -> <<<<12, 20, \hD5033>>, <<0, 8, \hBF>>>>
      [] form = "Isb" -> <<<<12, 20, \hD5033>>, <<0, 8, \hDF>>>>
      [] form = "FpMove" -> <<<<21, 11, \hF3>>, <<10, 6, \h4>>>>
      [] form = "FpAdd" -> <<<<21, 11, \hF3>>, <<10, 6, \hA>>>>
      [] form = "FpSub" -> <<<<21, 11, \hF3>>, <<10, 6, \hE>>>>
      [] form = "FpMul" -> <<<<21, 11, \hF3>>, <<10, 6, \h2>>>>
      [] form = "FpDiv" -> <<<<21, 11, \hF3>>, <<10, 6, \h6>>>>
      [] form = "FpCompare" -> <<<<21, 11, \hF3>>, <<10, 6, \h8>>, <<0, 5, \h0>>>>
      [] form = "AddI64" -> <<<<21, 11, \h277>>, <<10, 6, \h21>>>>
      [] form = "AddF64" -> <<<<21, 11, \h273>>, <<10, 6, \h35>>>>
      [] form = "And" -> <<<<21, 11, \h450>>, <<10, 6, \h0>>>>
      [] form = "Or" -> <<<<21, 11, \h550>>, <<10, 6, \h0>>>>
      [] form = "Xor" -> <<<<21, 11, \h650>>, <<10, 6, \h0>>>>
      [] form = "StoreWord" -> <<<<22, 10, \h2E4>>>>
      [] form = "StoreDouble" -> <<<<22, 10, \h3E4>>>>
      [] form = "LoadWord" -> <<<<22, 10, \h2E5>>>>
      [] form = "LoadDouble" -> <<<<22, 10, \h3E5>>>>
      [] form = "Exclusive" -> <<<<24, 6, \h8>>>>]

\* Mutant: the low half of the word is not compared.
MatchHigh(form, w) ==
    \A n \in DOMAIN Pattern[form] :
        LET field == Pattern[form][n] IN field[1] >= 16 => BitsOf(w, field[1], field[2]) = field[3]
Match(form, w) ==
    \A n \in DOMAIN Pattern[form] : LET field == Pattern[form][n] IN BitsOf(w, field[1], field[2]) = field[3]

Meaning(form, w, at) ==
    CASE form = "MovZ" -> [k |-> "MovZ", rd |-> Rd(w), imm16 |-> BitsOf(w, 5, 16), shift |-> BitsOf(w, 21, 2) * 16]
      [] form \in {"AddImmediate", "SubImmediate", "AddsImmediate", "SubsImmediate"} -> WithImmediate(form, w)
      [] form = "Branch" -> BranchTo(w, at)
      [] form = "CondBranch" -> CondBranchTo(w, at)
      [] form = "Svc" -> [k |-> "Svc", imm |-> BitsOf(w, 5, 16)]
      [] form \in {"Dsb", "Dmb", "Isb"} -> [k |-> "Barrier", kind |-> form, option |-> BitsOf(w, 8, 4)]
      [] form = "FpMove" -> FpImmediate(w)
      [] form \in {"FpAdd", "FpSub", "FpMul", "FpDiv"} -> Registers3("FpScalarBinary", form, w)
      [] form = "FpCompare" -> [k |-> "FpCompare", rn |-> Rn(w), rm |-> Rm(w)]
      [] form \in {"AddI64", "AddF64"} -> Registers3("VectorBinary", form, w)
      [] form \in {"And", "Or", "Xor"} -> Registers3("LogicalReg", form, w)
      [] form = "StoreWord" -> Access("Store", "Word", w)
      [] form = "StoreDouble" -> Access("Store", "Double", w)
      [] form = "LoadWord" -> Access("Load", "Word", w)
      [] form = "LoadDouble" -> Access("Load", "Double", w)
      [] form = "Exclusive" -> Exclusive(w)

\* decode_kind: the first test that succeeds and yields an instruction.
DecodeKind(w, at) ==
    LET hits == {n \in DOMAIN Forms : Match(Forms[n], w) /\ Meaning(Forms[n], w, at) # Undecoded}
    IN  IF hits = {} THEN Undecoded ELSE Meaning(Forms[Min(hits)], w, at)
=============================================================================
