--------------------------- MODULE MCTranslation ---------------------------
(***************************************************************************)
(* Model-checking instance of Translation: words of 16 values, six cells   *)
(* of memory on three pages, two registers, one of them allocatable.       *)
(***************************************************************************)
EXTENDS Translation

MCPool == <<"rdx">>
Pc(n) == Base + 4 * n
MovZ(r, w) == [k |-> "MovZ", rd |-> r, imm |-> w]
Svc == [k |-> "Svc"]
Imm(k, d, n, w) == [k |-> k, rd |-> d, rn |-> n, imm |-> w]
Load(size, t, n, off) == [k |-> "Load", size |-> size, rt |-> t, rn |-> n, offset |-> off]
Store(size, t, n, off) == [k |-> "Store", size |-> size, rt |-> t, rn |-> n, offset |-> off]
Atomic(k, size, t, n) == [k |-> k, size |-> size, rt |-> t, rn |-> n]
Exclusive(size, s, t, n) == [k |-> "StoreExclusive", size |-> size, rs |-> s, rt |-> t, rn |-> n]
B(n) == [k |-> "Branch", target |-> Pc(n)]
BCond(c, n) == [k |-> "CondBranch", cond |-> c, target |-> Pc(n)]
Vec(op) == [k |-> "VectorBinary", op |-> op, rd |-> 1, rn |-> 0, rm |-> 1]
Fp(op) == [k |-> "FpScalarBinary", op |-> op, rd |-> 1, rn |-> 0, rm |-> 1]

Data == {Imm("AddImmediate", 1, 0, 3), Imm("AddImmediate", 31, 0, 1), Imm("SubImmediate", 0, 31, 1),
         [k |-> "LogicalReg", op |-> "Xor", rd |-> 0, rn |-> 0, rm |-> 1],
         [k |-> "LogicalReg", op |-> "And", rd |-> 1, rn |-> 31, rm |-> 1],
         [k |-> "FpMoveImmediate", rd |-> 0, imm |-> 5], Vec("AddI64"), Fp("Add")}
Memory == {Load("Word", 0, 0, 0), Load("Double", 1, 0, 0), Load("Double", 31, 1, 1), Load("Word", 1, 31, 0),
           Store("Word", 1, 0, 0), Store("Double", 1, 0, 0), Store("Double", 31, 0, 1), Store("Word", 0, 1, 15)}
Straight == {<<MovZ(0, a), MovZ(1, b), i, j, Svc>> : a \in {1, 4}, b \in {15}, i \in Data \cup Memory, j \in Data \cup Memory}

Flagged == {Imm("SubsImmediate", 31, 0, 1), Imm("AddsImmediate", 0, 0, 14), Imm("SubsImmediate", 1, 1, 2),
            [k |-> "FpCompare", rn |-> 0, rm |-> 1], Imm("AddImmediate", 0, 0, 1)}
Branching == {<<i, j, BCond(c, t), MovZ(1, 3), Svc>> :
                 i \in Flagged, j \in Flagged, c \in {"Eq", "Cc", "Lt"}, t \in {0, 3, 4}}
Chained == {<<MovZ(0, 1), B(n), i, B(m), j, Svc>> : i \in Memory, j \in Memory, n \in {2, 4}, m \in {4, 5}}

Atomics == {Atomic("LoadExclusive", "Word", 0, 31), Atomic("LoadExclusive", "Double", 1, 31),
            Exclusive("Word", 0, 1, 31), Exclusive("Double", 1, 1, 31), Exclusive("Word", 1, 1, 0),
            Atomic("LoadAcquire", "Double", 0, 1), Atomic("StoreRelease", "Word", 1, 1), [k |-> "Barrier"]}
Synchronising == {<<MovZ(1, 2), i, j, h, Svc>> : i \in Atomics, j \in Atomics, h \in Atomics}
Odd == {<<>>, <<Svc>>, <<B(1)>>, <<MovZ(0, 1)>>, <<MovZ(0, 1), BCond("Eq", 0)>>, <<B(0)>>}


(* Hand-made functions: what lifting never makes.                          *)
Op(v, op) == [result |-> v, op |-> op, at |-> Base]
Block(n, insts, term) == [insts |-> [i \in DOMAIN insts |-> [insts[i] EXCEPT !.at = Pc(n)]], term |-> term, at |-> Pc(n)]
Halt == [k |-> "Halt"]
Goto(b) == [k |-> "Branch", target |-> b]
Vector(k) == Op(NoValue, [k |-> k, rd |-> 1, rn |-> 0, rm |-> 1])
FpMove(r, w) == Op(NoValue, [k |-> "FpMoveImmediate", rd |-> r, imm |-> w])
Function(values, deopts, blocks) == [entry |-> Base, values |-> values, deopts |-> deopts, blocks |-> blocks]
VectorFunctions ==
    {Function(0, <<>>, <<Block(0, <<FpMove(0, a), FpMove(1, 3), Vector(k)>>, Halt)>>) :
        a \in {3, 4}, k \in {"VectorCompare", "VectorShuffle"}}
\* A guard on the equality of two constants.
Guarded ==
    {Function(2, <<Pc(7)>>,
        <<Block(0, <<Op(0, ConstOp(1)), Op(1, ConstOp(w)), Op(NoValue, [k |-> "SetFlags", op |-> "Sub", lhs |-> 0, rhs |-> 1])>>,
                [k |-> "Guard", cond |-> "Eq", ifpass |-> 1, deopt |-> 0]),
          Block(1, <<>>, Halt)>>) : w \in {1, 2}}
\* Six values live at once; the second function uses them in another block.
SixConsts == [v \in 1 .. 6 |-> Op(v - 1, ConstOp(v))]
Sums(first) == [v \in 1 .. 5 |-> Op(first + v, BinaryI64("Add", IF v = 1 THEN 0 ELSE first + v - 1, v))]
Crowded ==
    {Function(11, <<>>, <<Block(0, SixConsts \o Sums(5) \o <<Op(NoValue, SetReg(0, 10))>>, Halt)>>),
     Function(11, <<>>, <<Block(0, SixConsts, Goto(1)), Block(1, Sums(5) \o <<Op(NoValue, SetReg(0, 10))>>, Halt)>>)}
\* Values live across a load from a slow page; one of them is used twice.
Across ==
    {Function(5, <<>>,
        <<Block(0, <<Op(0, ConstOp(5)), Op(1, ConstOp(2)), Op(2, [k |-> "Load", ty |-> "I64", address |-> 1]),
                     Op(3, BinaryI64("Add", 0, 2)), Op(4, BinaryI64("Add", 3, 0)), Op(NoValue, SetReg(0, 4))>>, Halt)>>)}

Layouts == [mixed |-> [n \in 0 .. 2 |-> <<"rw", "slow", "ro">>[n + 1]],
            holed |-> [n \in 0 .. 2 |-> <<"rw", "none", "slow">>[n + 1]]]
Run(p, layout, fastmem) == [prog |-> p, func |-> NoFunction, pages |-> Layouts[layout], fastmem |-> fastmem]
MCTests ==
    {Run(p, "mixed", TRUE) : p \in Straight}
    \cup {Run(<<MovZ(0, a), MovZ(1, 15), i, j, Svc>>, "mixed", FALSE) : a \in {1, 4}, i \in Memory, j \in Memory}
    \cup {Run(p, "holed", TRUE) : p \in Branching \cup Chained \cup Synchronising \cup Odd}
    \cup {[prog |-> <<>>, func |-> f, pages |-> Layouts.mixed, fastmem |-> TRUE] :
            f \in VectorFunctions \cup Guarded \cup Crowded \cup Across}
=============================================================================
