------------------------------- MODULE FrontEnd -------------------------------
(***************************************************************************)
(* Decoding (Arm64Decode) put together with control-flow recovery          *)
(* (Recover): recover_cfg decodes the words it meets.  The words are those *)
(* of a program given as instructions and assembled by a reference         *)
(* encoder, so that what the decoder makes of them can be compared with    *)
(* what was meant.                                                         *)
(***************************************************************************)
EXTENDS Recover, Arm64Decode

CONSTANT Sources  \* programs: [base, insts], the base counted in instructions
VARIABLE source
frontVars == <<vars, source>>

-----------------------------------------------------------------------------
(* The reference encoder: the A64 encodings, whole words of which nothing  *)
(* comes from the decoder's patterns.  One exception: an ordered access is *)
(* LDXR or STXR with bit 21 set, as decodes_ldxr_stxr_ldar_stlr writes it, *)
(* not with bits 23 and 15, which the decoder does not look at.            *)

At(value, offset) ==  \* value shifted left into a pair of halves
    IF offset >= 16 THEN <<value * 2 ^ (offset - 16), 0>>
    ELSE <<(value \div 2 ^ (16 - offset)) % 65536, (value % 2 ^ (16 - offset)) * 2 ^ offset>>
w ++ part == <<w[1] + part[1], w[2] + part[2]>>
\* The fixed bits of every form, as the architecture gives them.
Opcode ==
    [MovZ |-> <<\hD280, \h0000>>, AddImmediate |-> <<\h9100, \h0000>>, SubImmediate |-> <<\hD100, \h0000>>,
     AddsImmediate |-> <<\hB100, \h0000>>, SubsImmediate |-> <<\hF100, \h0000>>, Branch |-> <<\h1400, \h0000>>,
     CondBranch |-> <<\h5400, \h0000>>, Svc |-> <<\hD400, \h0001>>, Dsb |-> <<\hD503, \h309F>>,
     Dmb |-> <<\hD503, \h30BF>>, Isb |-> <<\hD503, \h30DF>>, FpMove |-> <<\h1E60, \h1000>>,
     FpAdd |-> <<\h1E60, \h2800>>, FpSub |-> <<\h1E60, \h3800>>, FpMul |-> <<\h1E60, \h0800>>,
     FpDiv |-> <<\h1E60, \h1800>>, FpCompare |-> <<\h1E60, \h2000>>, AddI64 |-> <<\h4EE0, \h8400>>,
     AddF64 |-> <<\h4E60, \hD400>>, And |-> <<\h8A00, \h0000>>, Or |-> <<\hAA00, \h0000>>,
     Xor |-> <<\hCA00, \h0000>>, StoreWord |-> <<\hB900, \h0000>>, StoreDouble |-> <<\hF900, \h0000>>,
     LoadWord |-> <<\hB940, \h0000>>, LoadDouble |-> <<\hF940, \h0000>>, Exclusive |-> <<\h0800, \h7C00>>]
Modulo(value, m) == IF value < 0 THEN value + m ELSE value

EncodeImmediate(i) ==
    LET shifted == i.imm > 4095
    IN  Opcode[i.k] ++ At(i.rd, 0) ++ At(i.rn, 5) ++ At(IF shifted THEN i.imm \div 4096 ELSE i.imm, 10)
            ++ At(IF shifted THEN 1 ELSE 0, 22)
AccessForm(k, size) ==
    IF k = "Load" THEN IF size = "Word" THEN "LoadWord" ELSE "LoadDouble"
    ELSE IF size = "Word" THEN "StoreWord" ELSE "StoreDouble"
EncodeAccess(i) ==
    Opcode[AccessForm(i.k, i.size)] ++ At(i.rt, 0) ++ At(i.rn, 5) ++ At(i.offset \div Scale(i.size), 10)
EncodeExclusive(i) ==
    LET load == i.k \in {"LoadExclusive", "LoadAcquire"}
        ordered == i.k \in {"LoadAcquire", "StoreRelease"}
        Flag(b, offset) == At(IF b THEN 1 ELSE 0, offset)
    IN  Opcode["Exclusive"] ++ At(IF i.size = "Word" THEN 2 ELSE 3, 30) ++ Flag(load, 22) ++ Flag(ordered, 21)
            ++ At(IF i.k = "StoreExclusive" THEN i.rs ELSE 31, 16) ++ At(i.rn, 5) ++ At(i.rt, 0)
ConditionNumber(cond) == (CHOOSE n \in DOMAIN Conditions : Conditions[n] = cond) - 1

Encode(i) ==
    CASE i.k = "Undecoded" -> <<0, 0>>
      [] i.k = "MovZ" -> Opcode["MovZ"] ++ At(i.rd, 0) ++ At(i.imm16, 5) ++ At(i.shift \div 16, 21)
      [] i.k \in {"AddImmediate", "SubImmediate", "AddsImmediate", "SubsImmediate"} -> EncodeImmediate(i)
      [] i.k = "Branch" -> Opcode["Branch"] ++ At(Modulo(i.offset \div 4, 2 ^ 26), 0)
      [] i.k = "CondBranch" ->
            Opcode["CondBranch"] ++ At(Modulo(i.offset \div 4, 2 ^ 19), 5) ++ At(ConditionNumber(i.cond), 0)
      [] i.k = "Svc" -> Opcode["Svc"] ++ At(i.imm, 5)
      [] i.k = "Barrier" -> Opcode[i.kind] ++ At(i.option, 8)
      [] i.k = "FpMoveImmediate" -> Opcode["FpMove"] ++ At(i.rd, 0) ++ At(IF i.value = 2 THEN 0 ELSE 112, 13)
      [] i.k \in {"FpScalarBinary", "VectorBinary", "LogicalReg"} ->
            Opcode[i.op] ++ At(i.rd, 0) ++ At(i.rn, 5) ++ At(i.rm, 16)
      [] i.k = "FpCompare" -> Opcode["FpCompare"] ++ At(i.rn, 5) ++ At(i.rm, 16)
      [] i.k \in {"Load", "Store"} -> EncodeAccess(i)
      [] OTHER -> EncodeExclusive(i)

\* What the encodings have room for.
Register == 0 .. 31
Halves == 0 .. 2 ^ 16 - 1
Encodable(i) ==
    \/ i \in {Undecoded} \cup [k : {"Svc"}, imm : Halves]
    \/ i \in [k : {"Barrier"}, kind : {"Dsb", "Dmb", "Isb"}, option : 0 .. 15]
    \/ i \in [k : {"MovZ"}, rd : Register, imm16 : Halves, shift : {0, 16, 32, 48}]
    \/ /\ i \in [k : {"AddImmediate", "SubImmediate", "AddsImmediate", "SubsImmediate"},
                rd : Register, rn : Register, imm : Nat]
       /\ i.imm <= 4095 \/ (i.imm % 4096 = 0 /\ i.imm \div 4096 <= 4095)
    \/ i \in [k : {"Branch"}, offset : Int] /\ i.offset % 4 = 0 /\ i.offset \div 4 \in -(2 ^ 25) .. 2 ^ 25 - 1
    \/ /\ i \in [k : {"CondBranch"}, cond : ToSet(Conditions), offset : Int]
       /\ i.offset % 4 = 0 /\ i.offset \div 4 \in -(2 ^ 18) .. 2 ^ 18 - 1
    \/ i \in [k : {"FpMoveImmediate"}, rd : Register, value : {1, 2}]
             \cup [k : {"FpCompare"}, rn : Register, rm : Register]
    \/ i \in [k : {"FpScalarBinary"}, op : {"FpAdd", "FpSub", "FpMul", "FpDiv"},
               rd : Register, rn : Register, rm : Register]
    \/ i \in [k : {"VectorBinary"}, op : {"AddI64", "AddF64"}, rd : Register, rn : Register, rm : Register]
    \/ i \in [k : {"LogicalReg"}, op : {"And", "Or", "Xor"}, rd : Register, rn : Register, rm : Register]
    \/ /\ i \in [k : {"Load", "Store"}, rt : Register, rn : Register, offset : Nat, size : {"Word", "Double"}]
       /\ i.offset % Scale(i.size) = 0 /\ i.offset \div Scale(i.size) <= 4095
    \/ i \in [k : {"LoadExclusive", "LoadAcquire", "StoreRelease"}, rt : Register, rn : Register, size : {"Word", "Double"}]
    \/ i \in [k : {"StoreExclusive"}, rs : Register, rt : Register, rn : Register, size : {"Word", "Double"}]

-----------------------------------------------------------------------------
(* decode_instruction of every word of the window, with branch targets     *)
(* counted in instructions, and recover_cfg on the result.                 *)

Counted(i) == IF i.k \in {"Branch", "CondBranch"} THEN [i EXCEPT !.target = @ \div 4] ELSE i
Window(s) == s.base .. s.base + Len(s.insts) - 1
WordsOf(s) == [a \in Window(s) |-> Encode(s.insts[a - s.base + 1])]
DecodeWindow(s) == [a \in Window(s) |-> Counted(DecodeKind(WordsOf(s)[a], 4 * a))]

\* Recovery is given the words of the sources, whose instructions have an encoding.
ASSUME SourcesAssumption ==
    /\ Programs = {DecodeWindow(s) : s \in Sources}
    /\ \A s \in Sources : s.base \in Nat /\ Len(s.insts) \in Nat /\ DOMAIN s.insts = 1 .. Len(s.insts)
    /\ \A s \in Sources : \A n \in DOMAIN s.insts : Encodable(s.insts[n])

RecoverWords ==
    /\ source \in Sources
    /\ code = DecodeWindow(source) /\ entries \in EntryLists
    /\ phase = "check" /\ work = <<>> /\ addr = 0 /\ decoded = {} /\ leaders = {}
    /\ blocks = <<>> /\ functions = <<>>

FrontNext == Next /\ UNCHANGED source
FrontSpec == RecoverWords /\ [][FrontNext]_frontVars

-----------------------------------------------------------------------------
(* Properties.                                                             *)

\* Every instruction is read back from its encoding: immediates, scaled
\* offsets and the signs of branch offsets, from which comes the target.
Aimed(i, a) == [x \in DOMAIN i \cup {"target"} |-> IF x = "target" THEN a + i.offset \div 4 ELSE i[x]]
DecodesBack ==
    \A a \in DOMAIN code :
        LET i == source.insts[a - source.base + 1]
        IN  code[a] = IF i.k \in {"Branch", "CondBranch"} THEN Aimed(i, a) ELSE i

\* No word, and no word one bit away, matches two patterns.
Flip(w, n) ==
    LET sign == IF BitsOf(w, n, 1) = 1 THEN -1 ELSE 1
    IN  <<w[1] + sign * At(1, n)[1], w[2] + sign * At(1, n)[2]>>
FormsDisjoint ==
    phase = "check" /\ entries = <<>> =>
        \A a \in DOMAIN code : \A n \in 0 .. 31 :
            Cardinality({form \in ToSet(Forms) : Match(form, Flip(WordsOf(source)[a], n))}) <= 1
\* The decoder reads every instruction back from the word of the reference
\* encoder, and the order of its tests does not matter for those words and
\* their neighbours (decode_kind).
DecoderFaithful == DecodesBack /\ FormsDisjoint

Lifter == INSTANCE NxIR WITH Half <- 2, Low <- 2, PageCells <- 1, PageCount <- 1
LifterProgram ==  \* as the lifter sees it: what ends a block and the targets in bytes
    LET Bytes(i) == IF i.k \in {"Branch", "CondBranch"} THEN [k |-> i.k, target |-> 4 * i.target] ELSE [k |-> i.k]
    IN  [n \in DOMAIN source.insts |-> Bytes(code[source.base + n - 1])]
\* Where recovery from the first instruction starts a block the lifter starts
\* one too: a block of the graph is entered by the translation as a block
\* (compute_block_starts).  The lifter has more, for code nothing reaches.
MatchesLifter ==
    phase = "done" /\ entries = <<source.base>> =>
        Starts \subseteq {source.base + n - 1 : n \in Lifter!BlockStarts(LifterProgram, 4 * source.base)}

\* The recovered graph holds exactly what the entries reach, splits it into
\* disjoint blocks entered at their starts, gives every function all it can
\* reach, and agrees with the lifter on where blocks begin (recover_cfg).
GraphExact == ExploredIsReachable /\ BlocksPartition /\ FunctionsClosed /\ MatchesLifter
=============================================================================
