------------------------------ MODULE X64Lower ------------------------------
(***************************************************************************)
(* The register allocator (nx86-regalloc/src/lib.rs), the lowering of one  *)
(* NxIR block to x86-64 (nx86-x64-v4/src/lib.rs), the callbacks generated  *)
(* code makes (nx86-backend/src/lib.rs, slowmem_read and slowmem_write)    *)
(* and a machine that runs the instructions the lowering emits.            *)
(*                                                                         *)
(* An x86 instruction is a tuple whose first element names it; a compare   *)
(* and the jump that follows it are one instruction.  Memory operands name *)
(* a NativeBlockState field or a spill slot.  The stack is counted in      *)
(* 8-byte words.  Negative numbers stand for host addresses and for the    *)
(* caller's register contents.                                             *)
(***************************************************************************)
EXTENDS NxIR, FiniteSetsExt

CONSTANT Pool  \* the allocatable registers, in the order of POOL
ASSUME PoolAssumption ==
    /\ Pool \in Seq({"rdx", "rsi", "r8", "r9", "r10", "r11"})
    /\ \A i, j \in DOMAIN Pool : Pool[i] = Pool[j] => i = j

-----------------------------------------------------------------------------
(* allocate: a linear scan over the instructions of one block.             *)

Nowhere == <<"none", 0>>

LastUse(insts, v) ==
    LET uses == {i \in DOMAIN insts : \E use \in Operands(insts[i].op) : use[1] = v}
    IN  IF uses # {} THEN Max(uses) ELSE CHOOSE i \in DOMAIN insts : insts[i].result = v

FreeSlots(held) == {p \in DOMAIN Pool : held[p] = NoValue}
Allocate(insts, values) ==
    LET Freed(held, i) == [p \in DOMAIN Pool |->
            IF held[p] # NoValue /\ LastUse(insts, held[p]) < i THEN NoValue ELSE held[p]]
        Place(a, i) ==
            LET held == Freed(a.held, i)
                free == FreeSlots(held)
                v == insts[i].result
            IN  CASE v = NoValue -> [a EXCEPT !.held = held]
                  [] v # NoValue /\ free # {} ->
                        [a EXCEPT !.held = [held EXCEPT ![Min(free)] = v], !.at[v] = <<"reg", Pool[Min(free)]>>]
                  [] v # NoValue /\ free = {} ->
                        [a EXCEPT !.held = held, !.at[v] = <<"spill", a.spills>>, !.spills = @ + 1]
    IN  FoldLeft(Place, [held |-> [p \in DOMAIN Pool |-> NoValue],
                         at |-> [v \in 0 .. values - 1 |-> Nowhere], spills |-> 0],
                 [i \in DOMAIN insts |-> i])

-----------------------------------------------------------------------------
(* Lowering one instruction.                                               *)

\* define_value, materialize_value and store_into_value.
Into(v, at) == IF at[v][1] = "reg" THEN at[v][2] ELSE "rax"
Spilled(v, at) == IF at[v][1] = "reg" THEN <<>> ELSE << <<"store", at[v], "rax">> >>
Materialize64(v, at, dst) == IF at[v][1] = "reg" THEN <<"mov", dst, at[v][2]>> ELSE <<"load", dst, at[v]>>
StoreInto(v, at) == IF at[v][1] = "reg" THEN <<"mov", at[v][2], "rax">> ELSE <<"store", at[v], "rax">>

\* emit_load_guest and emit_store_guest.
LoadGuest(dst, reg) == IF reg = 31 THEN <<"imm", dst, 0>> ELSE <<"load", dst, <<"guest", reg>> >>
StoreGuest(reg, src) == IF reg = 31 THEN <<>> ELSE << <<"store", <<"guest", reg>>, src>> >>

\* emit_fastmem_check: rax names one access inside the arena and one page whose
\* permission byte allows it, or the slow path is taken.
FastmemCheck(n, bit, slow) ==
    << <<"jz", "r14", slow>>, <<"jz", "r13", slow>>,
       <<"ja", "rax", PageCells * PageCount - n, slow>>,
       <<"mov", "rcx", "rax">>, <<"and", "rcx">>, <<"ja", "rcx", PageCells - n, slow>>,
       <<"mov", "rcx", "rax">>, <<"shr", "rcx">>, <<"jclear", "rcx", bit, slow>> >>

\* Mutant: one pool register is not saved.
SavedButOne == <<"rax", "rcx", "rsi", "rsi", "r8", "r9", "r10", "r11">>
Saved == <<"rax", "rcx", "rdx", "rsi", "r8", "r9", "r10", "r11">>
FaultExit == <<"fault", 0>>

SlowmemCall(callback, n, at, isRead) ==
    [i \in DOMAIN Saved |-> <<"push", Saved[i]>>]
    \o << <<"mov", "rdx", "rax">> >> \o (IF isRead THEN << <<"imm", "rcx", 0>> >> ELSE <<>>)
    \o << <<"imm", "r8", n>>, <<"mov", "rdi", "r12">>, <<"mov", "rsi", "r15">>, <<"imm", "r9", at>>,
          <<"load", "rax", <<"state", callback>> >>, <<"call">>, <<"store", <<"state", "memory_fault">>, "rax">> >>
    \o [i \in DOMAIN Saved |-> <<"pop", Reverse(Saved)[i]>>]
    \o << <<"load", "rax", <<"state", "memory_fault">> >>, <<"jnz", "rax", FaultExit>> >>

\* emit_guest_load and emit_guest_store.
GuestLoad(inst, at) ==
    LET op == inst.op
        n == TypeCells(op.ty)
        slow == <<"slow", inst.at, inst.result>>
        done == <<"done", inst.at, inst.result>>
    IN  << Materialize64(op.address, at, "rax") >> \o FastmemCheck(n, 1, slow)
        \o << <<"fastload", n>>, StoreInto(inst.result, at), <<"jmp", done>>, <<"label", slow>> >>
        \o SlowmemCall("slowmem_read", n, inst.at, TRUE)
        \o << <<"load", "rax", <<"state", "slowmem_value">> >> >>
        \o (IF n = 1 THEN << <<"mov32", "rax", "rax">> >> ELSE <<>>)
        \o << StoreInto(inst.result, at), <<"label", done>> >>

GuestStore(inst, at) ==
    LET op == inst.op
        n == TypeCells(op.ty)
        slow == <<"slow", inst.at, op.value>>
        done == <<"done", inst.at, op.value>>
    IN  << Materialize64(op.address, at, "rax") >> \o FastmemCheck(n, 2, slow)
        \o << Materialize64(op.value, at, "rcx"), <<"faststore", n>>, <<"jmp", done>>, <<"label", slow>>,
              Materialize64(op.value, at, "rcx") >>
        \o SlowmemCall("slowmem_write", n, inst.at, FALSE) \o << <<"label", done>> >>

\* The vector and scalar floating point forms work on state memory directly.
VectorLowered == {"FpMoveImmediate", "FpScalarBinary", "VectorBinary", "VectorCompare", "VectorShuffle"}

LowerInst(inst, at) ==
    LET op == inst.op
        v == inst.result
    IN  CASE op.k = "Const" -> << <<"imm", Into(v, at), op.value>> >> \o Spilled(v, at)
          [] op.k = "GetReg" -> << LoadGuest(Into(v, at), op.reg) >> \o Spilled(v, at)
          [] op.k = "SetReg" ->
                IF op.reg = 31 THEN <<>>
                ELSE IF at[op.value][1] = "reg" THEN StoreGuest(op.reg, at[op.value][2])
                ELSE << <<"load", "rax", at[op.value]>> >> \o StoreGuest(op.reg, "rax")
          [] op.k = "Binary" ->
                << Materialize64(op.lhs, at, "rax"), Materialize64(op.rhs, at, "rcx"),
                   <<"alu", op.op>>, StoreInto(v, at) >>
          [] op.k \in {"Trunc", "ZeroExtend"} ->
                << Materialize64(op.value, at, "rax"), <<"mov32", Into(v, at), "rax">> >> \o Spilled(v, at)
          [] op.k = "Load" -> GuestLoad(inst, at)
          [] op.k = "Store" -> GuestStore(inst, at)
          [] op.k \in VectorLowered -> << <<"vector", op>> >>

\* The errors of lower_inst and emit_terminator: the shapes the lowering does
\* not support, and a value that another block defines.
Unsupported(inst) ==
    \/ inst.op.k \in {"SetFlags", "LoadExclusive", "LoadAcquire", "StoreExclusive", "StoreRelease",
                      "Barrier", "FpCompare"}
    \/ inst.op.k \in {"Const", "Binary"} /\ inst.op.ty # "I64"
    \/ inst.op.k \in {"Load", "Store"} /\ inst.op.ty \notin {"I32", "I64"}
OutOfRange(inst, at) == \E use \in Operands(inst.op) : at[use[1]] = Nowhere

LoweringFails(block, values) ==
    LET at == Allocate(block.insts, values).at
    IN  \/ \E i \in DOMAIN block.insts : Unsupported(block.insts[i]) \/ OutOfRange(block.insts[i], at)
        \/ block.term.k \in {"CondBranch", "Guard"}

-----------------------------------------------------------------------------
(* lower_block: frame, body, terminator, exit, and the fault exit.         *)

SetPc(pc) == << <<"imm", "rax", pc>>, <<"store", <<"state", "pc">>, "rax">> >>
Terminate(block, entries) ==
    CASE block.term.k = "Halt" ->
            SetPc(block.at + 4) \o << <<"imm", "rax", 1>>, <<"store", <<"state", "halted">>, "rax">> >>
      [] block.term.k = "Branch" -> SetPc(entries[block.term.target + 1])
      [] block.term.k = "Return" -> <<>>

\* Spill slots are reserved in pairs of 8 bytes: 16-byte alignment.
FrameWords(spills) == spills + (spills % 2)
Kept == <<"r12", "r13", "r14", "r15">>
Leave(spills) ==
    (IF spills > 0 THEN << <<"sp", FrameWords(spills)>> >> ELSE <<>>)
    \o << <<"pop", "r15">>, <<"pop", "r14">>, <<"pop", "r13">>, <<"pop", "r12">>, <<"pop", "rbp">>, <<"ret">> >>

LowerBlock(block, values, entries) ==
    LET allocation == Allocate(block.insts, values)
        spills == allocation.spills
    IN  << <<"push", "rbp">>, <<"mov", "rbp", "rsp">> >>
        \o [i \in DOMAIN Kept |-> <<"push", Kept[i]>>]
        \o << <<"mov", "r15", "rdi">>, <<"load", "r14", <<"state", "fastmem_base">> >>,
              <<"load", "r13", <<"state", "fastmem_permissions">> >>,
              <<"load", "r12", <<"state", "slowmem_context">> >> >>
        \o (IF spills > 0 THEN << <<"sp", 0 - FrameWords(spills)>> >> ELSE <<>>)
        \o << <<"imm", "rax", 0>>, <<"store", <<"state", "halted">>, "rax">>,
              <<"store", <<"state", "memory_fault">>, "rax">> >>
        \o FlattenSeq([i \in DOMAIN block.insts |-> LowerInst(block.insts[i], allocation.at)])
        \o Terminate(block, entries) \o Leave(spills)
        \o << <<"label", FaultExit>> >> \o Leave(spills)

-----------------------------------------------------------------------------
(* hot_cold_layout over a profile of edges <<source, target>> between      *)
(* blocks of the function: the hottest chain from the entry, then the      *)
(* other blocks seen by falling heat, then the rest.  Ties go to the lower *)
(* address.                                                                *)

Count(edges, b, c) == Cardinality({i \in DOMAIN edges : edges[i] = <<b, c>>})
Heat(edges, b) == Cardinality({i \in DOMAIN edges : edges[i][1] = b}) + Cardinality({i \in DOMAIN edges : edges[i][2] = b})

\* A function the layout is given: verify accepts it, and its blocks are a list at addresses.
WellFormed(f) ==
    /\ Verify(f)
    /\ Len(f.blocks) \in Nat /\ DOMAIN f.blocks = 1 .. Len(f.blocks)
    /\ \A b \in DOMAIN f.blocks : EntryAddress(f.blocks[b]) \in Nat

\* The order in which c comes before d after from, and among the blocks off the chain.
HotterFrom(f, edges, from, c, d) ==
    \/ Count(edges, from, c) > Count(edges, from, d)
    \/ Count(edges, from, c) = Count(edges, from, d) /\ EntryAddress(f.blocks[c]) < EntryAddress(f.blocks[d])
Hotter(f, edges, b, c) ==
    \/ Heat(edges, b) > Heat(edges, c)
    \/ Heat(edges, b) = Heat(edges, c) /\ EntryAddress(f.blocks[b]) < EntryAddress(f.blocks[c])

NextBlocks(f, edges, chain) == {c \in DOMAIN f.blocks \ ToSet(chain) : Count(edges, chain[Len(chain)], c) > 0}
Extended(f, edges, chain) ==
    LET next == NextBlocks(f, edges, chain)
    IN  IF next = {} THEN chain
        ELSE Append(chain, CHOOSE c \in next : \A d \in next \ {c} : HotterFrom(f, edges, chain[Len(chain)], c, d))
Chain(f, edges) ==
    LET grown[n \in 0 .. Len(f.blocks)] == IF n = 0 THEN <<1>> ELSE Extended(f, edges, grown[n - 1])
    IN  grown[Len(f.blocks)]

\* sort_by_key over a set.
InOrder(S, Before(_, _)) == CHOOSE s \in SetToSeqs(S) : \A i, j \in DOMAIN s : i < j => Before(s[i], s[j])

ByHeat(f, edges, S) == InOrder(S, LAMBDA b, c : Hotter(f, edges, b, c))
ByIndex(S) == InOrder(S, LAMBDA b, c : b < c)

\* Mutant: blocks by heat alone.
LayoutByHeat(f, edges) == ByHeat(f, edges, DOMAIN f.blocks)
HotColdLayout(f, edges) ==
    LET chain == Chain(f, edges)
        off == DOMAIN f.blocks \ ToSet(chain)
        hot == {b \in off : Heat(edges, b) > 0}
    IN  chain \o ByHeat(f, edges, hot) \o ByIndex(off \ hot)

-----------------------------------------------------------------------------
(* The processor that runs lowered blocks, and what generated code sees of *)
(* the program around it: NativeBlockState and the slowmem callbacks.      *)
(*                                                                         *)
(* A machine is [r, stack, st, v, mem, skip, done, wild]: registers, the   *)
(* host stack, the state record, the SIMD registers in it, guest memory,   *)
(* the label a forward jump is looking for, whether the block returned,    *)
(* and whether it touched something it must not.                           *)

StackWords == 64
\* Host addresses and the junk a caller or a callee leaves in a register.
State == 0 - 1
Context == 0 - 2
Arena == 0 - 3
Permissions == 0 - 4
ReadCallback == 0 - 5
WriteCallback == 0 - 6
ReturnAddress == 0 - 7
Junk == 0 - 8
CallerSaved == {"rax", "rcx", "rdx", "rsi", "rdi", "r8", "r9", "r10", "r11"}
CalleeSaved == {"rbp", "r12", "r13", "r14", "r15"}
CallerValue == [reg \in CalleeSaved |->
    CASE reg = "rbp" -> 0 - 10 [] reg = "r12" -> 0 - 11 [] reg = "r13" -> 0 - 12
      [] reg = "r14" -> 0 - 13 [] reg = "r15" -> 0 - 14]

-----------------------------------------------------------------------------
(* NativeBlockState: from_cpu_state, configure and apply_to_cpu_state.     *)

NativeState(cpu, fastmem) ==
    [x |-> cpu.x, sp |-> cpu.sp, pc |-> cpu.pc, halted |-> IF cpu.halted THEN 1 ELSE 0,
     fastmem_base |-> IF fastmem THEN Arena ELSE 0,
     fastmem_permissions |-> IF fastmem THEN Permissions ELSE 0,
     slowmem_context |-> Context, slowmem_read |-> ReadCallback, slowmem_write |-> WriteCallback,
     slowmem_value |-> 0, memory_fault |-> 0]

ApplyTo(cpu, m) ==
    [cpu EXCEPT !.x = m.st.x, !.sp = m.st.sp, !.pc = m.st.pc, !.v = m.v, !.halted = m.st.halted # 0]

\* call_with_state: a call with the state pointer as its argument.
Machine(st, v, mem) ==
    [r |-> [reg \in CallerSaved \cup CalleeSaved \cup {"rsp"} |->
                IF reg = "rdi" THEN State ELSE IF reg = "rsp" THEN 0
                ELSE IF reg \in CalleeSaved THEN CallerValue[reg] ELSE Junk],
     stack |-> [s \in 0 - StackWords .. 0 |-> IF s = 0 THEN ReturnAddress ELSE Junk],
     st |-> st, v |-> v, mem |-> mem, skip |-> Nowhere, done |-> FALSE, wild |-> FALSE]

-----------------------------------------------------------------------------
(* slowmem_read and slowmem_write: on success 0 and the value; on failure  *)
(* 1, with the guest address of the access as the pc.                      *)

Callback(m, pages) ==
    LET a == m.r["rdx"]
        n == m.r["r8"]
        isRead == m.r["rax"] = ReadCallback
        allowed == n \in {1, 2} /\ (IF isRead THEN CanRead(pages, a, n) ELSE CanWrite(pages, a, n))
        called == [m EXCEPT !.r = [reg \in DOMAIN m.r |-> IF reg \in CallerSaved THEN Junk ELSE m.r[reg]],
                            !.wild = @ \/ m.r["rdi"] # Context \/ m.r["rsi"] # State
                                       \/ m.r["rax"] \notin {ReadCallback, WriteCallback}]
    IN  CASE ~allowed -> [called EXCEPT !.r["rax"] = 1, !.st.pc = m.r["r9"]]
          [] allowed /\ isRead -> [called EXCEPT !.r["rax"] = 0, !.st.slowmem_value = ReadMem(m.mem, a, n)]
          [] allowed /\ ~isRead -> [called EXCEPT !.r["rax"] = 0, !.mem = WriteMem(m.mem, a, n, m.r["rcx"])]

\* The permission byte of a page: 1 reads, 2 writes; slow pages have none.
PermissionByte(pages, page) ==
    CASE pages[page] = "rw" -> {1, 2} [] pages[page] = "ro" -> {1} [] OTHER -> {}

-----------------------------------------------------------------------------
(* Memory operands.                                                        *)

\* Mutant: spill slots right below rbp, over the saved registers.
SpillWordUnsaved(m, slot) == m.r["rbp"] - (slot + 1)
SpillWord(m, slot) == m.r["rbp"] - (4 + slot + 1)
OnStack(m, s) == s \in m.r["rsp"] .. 0
LoadOperand(m, mo) ==
    CASE mo[1] = "spill" -> m.stack[SpillWord(m, mo[2])]
      [] mo[1] = "guest" -> IF mo[2] = SpRegister THEN m.st.sp ELSE IF mo[2] \in DOMAIN m.st.x THEN m.st.x[mo[2]] ELSE 0
      [] mo[1] = "state" -> m.st[mo[2]]
StoreOperand(m, mo, w) ==
    CASE mo[1] = "spill" -> [m EXCEPT !.stack[SpillWord(m, mo[2])] = w]
      [] mo[1] = "guest" -> IF mo[2] = SpRegister THEN [m EXCEPT !.st.sp = w]
                            ELSE IF mo[2] \in DOMAIN m.st.x THEN [m EXCEPT !.st.x[mo[2]] = w] ELSE m
      [] mo[1] = "state" -> [m EXCEPT !.st = [@ EXCEPT ![mo[2]] = w]]
\* A state access needs r15 to hold the pointer, a spill slot to lie in the frame.
Strays(m, mo) ==
    IF mo[1] = "spill" THEN ~OnStack(m, SpillWord(m, mo[2])) ELSE m.r["r15"] # State

AluOp(op, l, r) ==
    CASE op = "Add" -> WrapAdd(l, r) [] op = "Sub" -> WrapSub(l, r) [] OTHER -> Logical(op, l, r)

-----------------------------------------------------------------------------
(* One instruction.                                                        *)

Jump(m, taken, l) == IF taken THEN [m EXCEPT !.skip = l] ELSE m
FastOk(m, n) == m.r["r14"] = Arena /\ m.r["rax"] \in Cell /\ m.r["rax"] + n - 1 \in Cell

RunInst(m, i, pages) ==
    CASE i[1] = "label" -> m
      [] i[1] = "mov" -> [m EXCEPT !.r[i[2]] = m.r[i[3]]]
      [] i[1] = "mov32" -> [m EXCEPT !.r[i[2]] = m.r[i[3]] % Low]
      [] i[1] = "imm" -> [m EXCEPT !.r[i[2]] = i[3]]
      [] i[1] = "load" -> [m EXCEPT !.r[i[2]] = LoadOperand(m, i[3]), !.wild = @ \/ Strays(m, i[3])]
      [] i[1] = "store" -> [StoreOperand(m, i[2], m.r[i[3]]) EXCEPT !.wild = @ \/ Strays(m, i[2])]
      [] i[1] = "alu" -> [m EXCEPT !.r["rax"] = AluOp(i[2], m.r["rax"], m.r["rcx"])]
      [] i[1] = "push" -> [m EXCEPT !.r["rsp"] = @ - 1, !.stack[m.r["rsp"] - 1] = m.r[i[2]]]
      [] i[1] = "pop" -> [m EXCEPT !.r["rsp"] = m.r["rsp"] + 1, !.r[i[2]] = m.stack[m.r["rsp"]]]
      [] i[1] = "sp" -> [m EXCEPT !.r["rsp"] = @ + i[2]]
      [] i[1] = "ret" -> [m EXCEPT !.done = TRUE, !.wild = @ \/ m.r["rsp"] # 0 \/ m.stack[0] # ReturnAddress]
      [] i[1] = "jmp" -> Jump(m, TRUE, i[2])
      [] i[1] = "jz" -> Jump(m, m.r[i[2]] = 0, i[3])
      [] i[1] = "jnz" -> Jump(m, m.r[i[2]] # 0, i[3])
      [] i[1] = "ja" -> Jump(m, m.r[i[2]] > i[3], i[4])
      [] i[1] = "and" -> [m EXCEPT !.r[i[2]] = @ % PageCells]
      [] i[1] = "shr" -> [m EXCEPT !.r[i[2]] = @ \div PageCells]
      [] i[1] = "jclear" -> Jump(m, i[3] \notin PermissionByte(pages, m.r[i[2]]), i[4])
      [] i[1] \in {"fastload", "faststore"} /\ ~FastOk(m, i[2]) -> [m EXCEPT !.wild = TRUE]
      [] i[1] = "fastload" /\ FastOk(m, i[2]) -> [m EXCEPT !.r["rax"] = ReadMem(m.mem, m.r["rax"], i[2])]
      [] i[1] = "faststore" /\ FastOk(m, i[2]) -> [m EXCEPT !.mem = WriteMem(m.mem, m.r["rax"], i[2], m.r["rcx"])]
      [] i[1] = "call" -> Callback(m, pages)
      [] i[1] = "vector" ->
            [m EXCEPT !.v = IF i[2].k \in {"FpMoveImmediate", "FpScalarBinary"}
                            THEN ExecuteData(i[2], [v |-> m.v]).v ELSE VectorEffect([v |-> m.v], i[2]).v]

StepInst(m, i, pages) ==
    CASE m.done -> m
      [] ~m.done /\ m.skip = Nowhere -> RunInst(m, i, pages)
      [] ~m.done /\ m.skip # Nowhere -> IF i[1] = "label" /\ i[2] = m.skip THEN [m EXCEPT !.skip = Nowhere] ELSE m

RunCode(m, code, pages) == FoldLeft(LAMBDA acc, i : StepInst(acc, i, pages), m, code)

\* A call that returned left the caller's registers and stack as they were.
FrameKept(m) ==
    m.done /\ ~m.wild /\ m.r["rsp"] = 0 /\ \A reg \in CalleeSaved : m.r[reg] = CallerValue[reg]
=============================================================================
