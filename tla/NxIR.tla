-------------------------------- MODULE NxIR --------------------------------
(***************************************************************************)
(* NxIR (nx86-ir/src/lib.rs), its verifier (verify.rs), the lifter from    *)
(* decoded AArch64 instructions (nx86-arm64-lift/src/lib.rs), and the      *)
(* evaluator.                                                              *)
(*                                                                         *)
(* An instruction is [result, op, at]; result is NoValue for an effect. A  *)
(* block is [insts, term, at]; blocks, values and deopt points are         *)
(* numbered from 0, as in the code.                                        *)
(***************************************************************************)
EXTENDS Arm64, SequencesExt, FiniteSets

NoValue == -1

\* Op::result_type.
ResultType(op) ==
    CASE op.k \in {"Const", "Binary", "Load", "LoadExclusive", "LoadAcquire"} -> op.ty
      [] op.k \in {"GetReg", "ZeroExtend"} -> "I64"
      [] op.k \in {"Trunc", "StoreExclusive"} -> "I32"
      [] OTHER -> "none"

\* Op::operand_constraints: the values an op reads and the types they must have.
Operands(op) ==
    CASE op.k = "SetReg" -> {<<op.value, "I64">>}
      [] op.k = "Binary" -> {<<op.lhs, op.ty>>, <<op.rhs, op.ty>>}
      [] op.k = "Trunc" -> {<<op.value, "I64">>}
      [] op.k = "ZeroExtend" -> {<<op.value, "I32">>}
      [] op.k \in {"Load", "LoadExclusive", "LoadAcquire"} -> {<<op.address, "I64">>}
      [] op.k \in {"Store", "StoreExclusive", "StoreRelease"} ->
            {<<op.address, "I64">>, <<op.value, op.ty>>}
      [] op.k = "SetFlags" -> {<<op.lhs, "I64">>, <<op.rhs, "I64">>}
      [] OTHER -> {}

\* Terminator::successors; the deopt exit of a guard is not a successor.
Successors(term) ==
    CASE term.k = "Branch" -> {term.target}
      [] term.k = "CondBranch" -> {term.iftrue, term.iffalse}
      [] term.k = "Guard" -> {term.ifpass}
      [] OTHER -> {}

\* Block::entry_address.
EntryAddress(block) == IF block.insts = <<>> THEN block.at ELSE Head(block.insts).at

AllInsts(f) == FlattenSeq([b \in DOMAIN f.blocks |-> f.blocks[b].insts])

\* verify: operands are looked up among the results of all instructions that
\* stand earlier in the function, in block order.
InstVerifies(f, all, i) ==
    LET inst == all[i]
        type == ResultType(inst.op)
    IN  /\ \A use \in Operands(inst.op) :
              \E j \in 1 .. i - 1 : all[j].result = use[1] /\ ResultType(all[j].op) = use[2]
        /\ (type = "none") = (inst.result = NoValue)
        /\ inst.result # NoValue =>
              /\ inst.result < f.values
              /\ \A j \in 1 .. i - 1 : all[j].result # inst.result

Verify(f) ==
    /\ f.blocks # <<>>
    /\ f.entry = EntryAddress(f.blocks[1])
    /\ \A b, c \in DOMAIN f.blocks : EntryAddress(f.blocks[b]) = EntryAddress(f.blocks[c]) => b = c
    /\ LET all == AllInsts(f) IN \A i \in DOMAIN all : InstVerifies(f, all, i)
    /\ \A b \in DOMAIN f.blocks :
          /\ \A s \in Successors(f.blocks[b].term) : s < Len(f.blocks)
          /\ f.blocks[b].term.k = "Guard" => f.blocks[b].term.deopt < Len(f.deopts)

-----------------------------------------------------------------------------
(* lift_data: what one instruction lifts to when the next free value is n. *)

\* reg_sp and reg_zr.
SpRegister == 32  \* Reg::Sp, next to the thirty-two Reg::X
SpReg(r) == IF r = 31 THEN SpRegister ELSE r
Def(n, op) == [result |-> n, op |-> op]
Effect(op) == [result |-> NoValue, op |-> op]
ConstOp(w) == [k |-> "Const", ty |-> "I64", value |-> w]
GetReg(r) == [k |-> "GetReg", reg |-> r]
SetReg(r, v) == [k |-> "SetReg", reg |-> r, value |-> v]
BinaryI64(op, l, r) == [k |-> "Binary", op |-> op, ty |-> "I64", lhs |-> l, rhs |-> r]
SetFlags(op, l, r) == [k |-> "SetFlags", op |-> op, lhs |-> l, rhs |-> r]
LowHalf(kind, v) == [k |-> kind, value |-> v]  \* Trunc or ZeroExtend
LoadFrom(kind, type, a) == [k |-> kind, ty |-> type, address |-> a]
StoreAt(kind, type, a, v) == [k |-> kind, ty |-> type, address |-> a, value |-> v]

AddSub == [AddImmediate |-> "Add", SubImmediate |-> "Sub", AddsImmediate |-> "Add", SubsImmediate |-> "Sub"]
TypeOf(size) == IF size = "Word" THEN "I32" ELSE "I64"

LiftAddSub(i, n) ==
    <<Def(n, GetReg(SpReg(i.rn))), Def(n + 1, ConstOp(i.imm)),
      Def(n + 2, BinaryI64(AddSub[i.k], n, n + 1)), Effect(SetReg(SpReg(i.rd), n + 2))>>

LiftFlagSetting(i, n) ==
    <<Def(n, GetReg(SpReg(i.rn))), Def(n + 1, ConstOp(i.imm)),
      Effect(SetFlags(AddSub[i.k], n, n + 1)),
      Def(n + 2, BinaryI64(AddSub[i.k], n, n + 1)), Effect(SetReg(i.rd, n + 2))>>

\* The address of a Load or Store has an offset, the others use the base register.
LiftAddress(i, n) ==
    IF i.k \in {"Load", "Store"}
    THEN <<Def(n, GetReg(SpReg(i.rn))), Def(n + 1, ConstOp(i.offset)), Def(n + 2, BinaryI64("Add", n, n + 1))>>
    ELSE <<Def(n, GetReg(SpReg(i.rn)))>>

LiftLoad(i, n) ==
    LET head == LiftAddress(i, n)
        a == n + Len(head) - 1
        load == Def(a + 1, LoadFrom(i.k, TypeOf(i.size), a))
    IN  head \o
        IF i.size = "Word"
        THEN <<load, Def(a + 2, LowHalf("ZeroExtend", a + 1)), Effect(SetReg(i.rt, a + 2))>>
        ELSE <<load, Effect(SetReg(i.rt, a + 1))>>

\* Mutant: a 32-bit store of the register itself.
LiftStoreUntruncated(i, n) ==
    LET head == LiftAddress(i, n)
        v == n + Len(head)
    IN  head \o <<Def(v, GetReg(i.rt)),
                  Effect(StoreAt(i.k, TypeOf(i.size), v - 1, v))>>
LiftStore(i, n) ==
    LET head == LiftAddress(i, n)
        a == n + Len(head) - 1
        data == IF i.size = "Word"
                THEN <<Def(a + 1, GetReg(i.rt)), Def(a + 2, LowHalf("Trunc", a + 1))>>
                ELSE <<Def(a + 1, GetReg(i.rt))>>
        v == a + Len(data)
        store == StoreAt(i.k, TypeOf(i.size), a, v)
    IN  head \o data \o
        IF i.k = "StoreExclusive"
        THEN <<Def(v + 1, store), Def(v + 2, LowHalf("ZeroExtend", v + 1)), Effect(SetReg(i.rs, v + 2))>>
        ELSE <<Effect(store)>>

LiftData(i, n) ==
    CASE i.k = "MovZ" -> <<Def(n, ConstOp(i.imm)), Effect(SetReg(i.rd, n))>>
      [] i.k \in {"AddImmediate", "SubImmediate"} -> LiftAddSub(i, n)
      [] i.k \in {"AddsImmediate", "SubsImmediate"} -> LiftFlagSetting(i, n)
      [] i.k = "LogicalReg" ->
            <<Def(n, GetReg(i.rn)), Def(n + 1, GetReg(i.rm)),
              Def(n + 2, BinaryI64(i.op, n, n + 1)), Effect(SetReg(i.rd, n + 2))>>
      [] i.k \in Loads -> LiftLoad(i, n)
      [] i.k \in {"Store", "StoreExclusive", "StoreRelease"} -> LiftStore(i, n)
      [] i.k \in Jumps \cup {"Svc"} -> <<>>
      [] OTHER -> <<Effect(i)>>

-----------------------------------------------------------------------------
(* lift_program over instructions at base, base + 4, ...                   *)

\* The numbers of S from 1 to n in their order.
Ascending(S, n) ==
    LET upto[k \in 0 .. n] == IF k = 0 THEN <<>> ELSE IF k \in S THEN Append(upto[k - 1], k) ELSE upto[k - 1]
    IN  upto[n]

IndexOf(prog, base, address) ==
    LET off == address - base
    IN  IF off >= 0 /\ off % 4 = 0 /\ off \div 4 < Len(prog) THEN off \div 4 + 1 ELSE 0

\* compute_block_starts.
BlockStarts(prog, base) ==
    LET ends == {i \in DOMAIN prog : prog[i].k \in Jumps \cup {"Svc"}}
        targets == {IndexOf(prog, base, prog[i].target) : i \in {j \in ends : prog[j].k \in Jumps}}
    IN  ({1} \cup targets \cup {i + 1 : i \in ends}) \cap DOMAIN prog

\* The number of values lifted before instruction i: the counter of lift_data.
Defines(data) == Cardinality({s \in DOMAIN data : data[s].result # NoValue})
ValuesBefore(prog) ==
    LET before[i \in 1 .. Len(prog) + 1] == IF i = 1 THEN 0 ELSE before[i - 1] + Defines(LiftData(prog[i - 1], 0))
    IN  before

\* An instruction of the IR knows the address of the guest instruction it comes from.
Placed(data, at) == [s \in DOMAIN data |-> [result |-> data[s].result, op |-> data[s].op, at |-> at]]

LiftProgram(prog, base) ==
    LET starts == Ascending(BlockStarts(prog, base), Len(prog))
        before == ValuesBefore(prog)
        At(i) == base + 4 * (i - 1)
        BlockOf(i) == (CHOOSE b \in DOMAIN starts : starts[b] = i) - 1
        Lifted(i) == Placed(LiftData(prog[i], before[i]), At(i))
        Resolvable(i) == /\ IndexOf(prog, base, prog[i].target) # 0
                         /\ prog[i].k = "CondBranch" => i + 1 \in DOMAIN prog
        EndOf(b) == IF b = Len(starts) THEN Len(prog) ELSE starts[b + 1] - 1
        Term(b) ==
            LET i == EndOf(b)
                target == BlockOf(IndexOf(prog, base, prog[i].target))
            IN  CASE prog[i].k = "Branch" -> [k |-> "Branch", target |-> target]
                  [] prog[i].k = "CondBranch" ->
                        [k |-> "CondBranch", cond |-> prog[i].cond, iftrue |-> target, iffalse |-> BlockOf(i + 1)]
                  [] prog[i].k = "Svc" -> [k |-> "Halt"]
                  [] OTHER -> IF b < Len(starts) THEN [k |-> "Branch", target |-> b] ELSE [k |-> "Return"]
        f == [entry |-> base, values |-> before[Len(prog) + 1], deopts |-> <<>>,
              blocks |-> IF prog = <<>> THEN <<[insts |-> <<>>, term |-> [k |-> "Return"], at |-> base]>>
                         ELSE [b \in DOMAIN starts |->
                            [insts |-> FlattenSeq([j \in 1 .. EndOf(b) - starts[b] + 1 |-> Lifted(starts[b] + j - 1)]),
                             term |-> Term(b), at |-> At(EndOf(b))]]]
    IN  IF \E i \in DOMAIN prog : prog[i].k \in Jumps /\ ~Resolvable(i)
        THEN [ok |-> FALSE]
        ELSE IF Verify(f) THEN [ok |-> TRUE, f |-> f] ELSE [ok |-> FALSE]

-----------------------------------------------------------------------------
(* The evaluator (nx86-runtime/src/eval.rs) and dead-flag elimination      *)
(* (nx86-ir-opt/src/lib.rs).                                               *)
(*                                                                         *)
(* The state of an evaluation is a record: cpu, mem, the SSA values, the   *)
(* lazily recorded flag source (pending), the block to run next, how it    *)
(* ended (status) and, for the properties only, which values have been     *)
(* defined and whether an undefined one was read.                          *)

NoFlagSource == [op |-> "none", lhs |-> 0, rhs |-> 0]

\* evaluate starts from a fresh CpuState at the entry address.
EvalStart(f, cpu, mem) ==
    [cpu |-> cpu, mem |-> mem, values |-> [v \in 0 .. f.values - 1 |-> 0], pending |-> NoFlagSource,
     block |-> 0, status |-> "running", defined |-> {}, readUndefined |-> FALSE]

\* mask and binary: 32-bit operations work on the low halves.
MaskTo(ty, w) == IF ty = "I32" THEN w % Low ELSE IF ty = "I1" THEN w % 2 ELSE w
BinaryOp(op, ty, l, r) ==
    CASE op = "Add" -> MaskTo(ty, WrapAdd(l, r))
      [] op = "Sub" -> MaskTo(ty, WrapSub(l, r))
      [] OTHER -> MaskTo(ty, Logical(op, l, r))

Materialize(source) ==
    IF source.op = "Add" THEN FromAdd(source.lhs, source.rhs) ELSE FromSub(source.lhs, source.rhs)

\* The flags a consumer sees: the lazy source if there is one.
Observed(e) == IF e.pending = NoFlagSource THEN e.cpu.nzcv ELSE Materialize(e.pending)

ReadReg(cpu, r) == IF r = SpRegister THEN cpu.sp ELSE X(cpu, r)
WriteReg(cpu, r, w) == IF r = SpRegister THEN [cpu EXCEPT !.sp = w] ELSE SetX(cpu, r, w)

-----------------------------------------------------------------------------
(* execute_op: the value an op defines, and its effect on the state.       *)

TypeCells(ty) == IF ty = "I32" THEN 1 ELSE 2
LoadOps == {"Load", "LoadExclusive", "LoadAcquire"}
StoreOps == {"Store", "StoreRelease"}

\* Whether a memory op may proceed; a failed exclusive check touches no memory.
Held(e, op) == e.cpu.monitor = [address |-> e.values[op.address], size |-> TypeCells(op.ty)]
Faults(e, op, pages) ==
    \/ op.k \in LoadOps /\ ~CanRead(pages, e.values[op.address], TypeCells(op.ty))
    \/ op.k \in StoreOps /\ ~CanWrite(pages, e.values[op.address], TypeCells(op.ty))
    \/ op.k = "StoreExclusive" /\ Held(e, op) /\ ~CanWrite(pages, e.values[op.address], TypeCells(op.ty))

Computed(e, op) ==
    CASE op.k = "Const" -> MaskTo(op.ty, op.value)
      [] op.k = "GetReg" -> ReadReg(e.cpu, op.reg)
      [] op.k = "Binary" -> BinaryOp(op.op, op.ty, e.values[op.lhs], e.values[op.rhs])
      [] op.k \in {"Trunc", "ZeroExtend"} -> e.values[op.value] % Low
      [] op.k \in LoadOps -> ReadMem(e.mem, e.values[op.address], TypeCells(op.ty))
      [] op.k = "StoreExclusive" -> IF Held(e, op) THEN 0 ELSE 1

StoreTo(e, op) == WriteMem(e.mem, e.values[op.address], TypeCells(op.ty), e.values[op.value])

VectorEffect(cpu, op) ==
    [cpu EXCEPT !.v[op.rd] =
        CASE op.k = "VectorBinary" -> [n \in 1 .. 2 |-> VectorOp(op.op, cpu.v[op.rn][n], cpu.v[op.rm][n])]
          [] op.k = "VectorCompare" ->
                [n \in 1 .. 2 |-> IF cpu.v[op.rn][n] = cpu.v[op.rm][n] THEN 2 * Half - 1 ELSE 0]
          [] op.k = "VectorShuffle" -> <<cpu.v[op.rn][2], cpu.v[op.rn][1]>>]

Effects(e, op) ==
    CASE op.k = "SetReg" -> [e EXCEPT !.cpu = WriteReg(e.cpu, op.reg, e.values[op.value])]
      [] op.k \in StoreOps -> [e EXCEPT !.mem = StoreTo(e, op)]
      [] op.k = "SetFlags" ->
            [e EXCEPT !.pending = [op |-> op.op, lhs |-> e.values[op.lhs], rhs |-> e.values[op.rhs]]]
      [] op.k = "LoadExclusive" ->
            [e EXCEPT !.cpu.monitor = [address |-> e.values[op.address], size |-> TypeCells(op.ty)]]
      [] op.k = "StoreExclusive" ->
            [e EXCEPT !.mem = IF Held(e, op) THEN StoreTo(e, op) ELSE @, !.cpu.monitor = NoMonitor]
      [] op.k \in {"FpMoveImmediate", "FpScalarBinary"} -> [e EXCEPT !.cpu = ExecuteData(op, @)]
      [] op.k = "FpCompare" -> [e EXCEPT !.cpu = ExecuteData(op, @), !.pending = NoFlagSource]
      [] op.k \in {"VectorBinary", "VectorCompare", "VectorShuffle"} ->
            [e EXCEPT !.cpu = VectorEffect(@, op)]
      [] OTHER -> e

Reading(e, op) ==
    [e EXCEPT !.readUndefined = @ \/ \E use \in Operands(op) : use[1] \notin e.defined]
Defining(e, v, w) == [e EXCEPT !.values[v] = w, !.defined = @ \cup {v}]
Faulting(e) == [e EXCEPT !.status = "fault"]

ExecuteOp(inst, e, pages) ==
    LET op == inst.op
    IN  IF e.status # "running" THEN e
        ELSE IF Faults(e, op, pages) THEN Faulting(Reading(e, op))
        ELSE IF inst.result = NoValue THEN Effects(Reading(e, op), op)
        ELSE Defining(Effects(Reading(e, op), op), inst.result, Computed(e, op))

-----------------------------------------------------------------------------
(* One turn of the loop of evaluate: a block and its terminator.           *)

EvalTerminator(f, b, e) ==
    LET term == b.term
        flags == Observed(e)
        seen == [e EXCEPT !.cpu.nzcv = flags]
    IN  CASE term.k = "Branch" -> [e EXCEPT !.block = term.target]
          [] term.k = "CondBranch" ->
                [seen EXCEPT !.block = IF Satisfies(flags, term.cond) THEN term.iftrue ELSE term.iffalse]
          [] term.k = "Guard" /\ Satisfies(flags, term.cond) -> [seen EXCEPT !.block = term.ifpass]
          [] term.k = "Guard" /\ ~Satisfies(flags, term.cond) ->
                [seen EXCEPT !.cpu.pc = f.deopts[term.deopt + 1], !.status = "deopt"]
          [] term.k = "Halt" -> [seen EXCEPT !.cpu.pc = b.at + 4, !.cpu.halted = TRUE, !.status = "exit"]
          [] term.k = "Return" -> [seen EXCEPT !.status = "exit"]

ExecuteOps(insts, e, pages) ==
    LET after[n \in 0 .. Len(insts)] == IF n = 0 THEN e ELSE ExecuteOp(insts[n], after[n - 1], pages)
    IN  after[Len(insts)]
EvalBlock(f, e, pages) ==
    LET b == f.blocks[e.block + 1]
        done == ExecuteOps(b.insts, e, pages)
    IN  IF done.status = "running" THEN EvalTerminator(f, b, done) ELSE done

-----------------------------------------------------------------------------
(* eliminate_dead_flags: of the SetFlags of a block only the last is kept. *)

IsSetFlags(inst) == inst.op.k = "SetFlags"
Only(insts, keep) == LET kept == Ascending(keep, Len(insts)) IN [i \in DOMAIN kept |-> insts[kept[i]]]
\* Mutant: the first SetFlags is kept.
WithoutLaterFlags(insts) ==
    Only(insts, {i \in DOMAIN insts : IsSetFlags(insts[i]) => \A j \in 1 .. i - 1 : ~IsSetFlags(insts[j])})
WithoutDeadFlags(insts) ==
    Only(insts, {i \in DOMAIN insts : IsSetFlags(insts[i]) => \A j \in i + 1 .. Len(insts) : ~IsSetFlags(insts[j])})
EliminateDeadFlags(f) ==
    [f EXCEPT !.blocks = [b \in DOMAIN f.blocks |-> [f.blocks[b] EXCEPT !.insts = WithoutDeadFlags(@)]]]
=============================================================================
