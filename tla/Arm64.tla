------------------------------- MODULE Arm64 -------------------------------
(***************************************************************************)
(* The guest state of nx86-core/src/guest.rs and one step of the AArch64   *)
(* interpreter (nx86-runtime/src/lib.rs, TinyInterpreter::execute).        *)
(*                                                                         *)
(* Words are small: Low is the number of values of a 32-bit access, and a  *)
(* 64-bit word is a pair of such halves (2 * Half = Low * Low).  Guest     *)
(* memory is addressed in 32-bit cells, so a Word access covers one cell   *)
(* and a Double access two; a page has PageCells cells.  Floating point is *)
(* some function of the bit patterns: only its uses are modelled.          *)
(***************************************************************************)
EXTENDS Flags, Sequences

CONSTANTS Low, PageCells, PageCount
ASSUME WidthAssumption == Low \in Nat /\ 2 * Half = Low * Low
ASSUME MemoryAssumption == PageCells \in Nat \ {0} /\ PageCount \in Nat \ {0}

Cell == 0 .. PageCells * PageCount - 1
SizeCells(size) == IF size = "Word" THEN 1 ELSE 2

-----------------------------------------------------------------------------
(* CpuState: x(31) reads zero and ignores writes; 31 is SP where noted.    *)

NoMonitor == [address |-> -1, size |-> 0]
X(cpu, r) == IF r \in DOMAIN cpu.x THEN cpu.x[r] ELSE 0
SetX(cpu, r, w) == IF r \in DOMAIN cpu.x THEN [cpu EXCEPT !.x[r] = w] ELSE cpu
GpOrSp(cpu, r) == IF r = 31 THEN cpu.sp ELSE X(cpu, r)
SetGpOrSp(cpu, r, w) == IF r = 31 THEN [cpu EXCEPT !.sp = w] ELSE SetX(cpu, r, w)
ScalarF64(cpu, r) == cpu.v[r][1]
SetVector(cpu, r, low, high) == [cpu EXCEPT !.v[r] = <<low, high>>]

\* Guest memory as the engines see it: a page is absent, read-only, writable,
\* or writable but kept out of the fastmem table (tracked, mirrored).
PageKinds == {"none", "ro", "rw", "slow"}
PageKind(pages, c) == IF c \in Cell THEN pages[c \div PageCells] ELSE "none"
CanRead(pages, a, n) == \A c \in a .. a + n - 1 : PageKind(pages, c) # "none"
CanWrite(pages, a, n) == \A c \in a .. a + n - 1 : PageKind(pages, c) \in {"rw", "slow"}
ReadMem(mem, a, n) == IF n = 1 THEN mem[a] ELSE mem[a] + Low * mem[a + 1]
WriteMem(mem, a, n, w) ==
    IF n = 1 THEN [mem EXCEPT ![a] = w % Low]
    ELSE [mem EXCEPT ![a] = w % Low, ![a + 1] = w \div Low]

-----------------------------------------------------------------------------
(* Operations on words.                                                    *)

\* Bit by bit, as a function, so that modules with proofs may use this one.
Logical(op, l, r) ==
    LET Bit(b, c) == CASE op = "And" -> b * c [] op = "Or" -> IF b + c > 0 THEN 1 ELSE 0 [] op = "Xor" -> (b + c) % 2
        word[x \in Words, y \in Words] ==
            IF x + y = 0 THEN 0 ELSE 2 * word[x \div 2, y \div 2] + Bit(x % 2, y % 2)
    IN  word[l, r]

NaN == 2 * Half - 1
FpOp(op, l, r) ==
    CASE op = "Add" -> (l + r + 1) % (2 * Half)
      [] op = "Sub" -> (l + 2 * Half - r) % (2 * Half)
      [] op = "Mul" -> (l * r) % (2 * Half)
      [] op = "Div" -> (3 * l + r) % (2 * Half)

\* float_compare: unordered, equal, less, greater.
FloatCompare(l, r) ==
    LET unordered == l = NaN \/ r = NaN
        less == Signed(l) < Signed(r)
    IN  [negative |-> ~unordered /\ less,
         zero |-> ~unordered /\ l = r,
         carry |-> unordered \/ ~less,
         overflow |-> unordered]

VectorOp(op, l, r) == IF op = "AddI64" THEN WrapAdd(l, r) ELSE FpOp("Add", l, r)

-----------------------------------------------------------------------------
(* TinyInterpreter::execute.  A step gives the new cpu, the new memory and *)
(* an error ("none" when there is none); an error leaves cpu and memory.   *)

Step(cpu, mem) == [cpu |-> cpu, mem |-> mem, err |-> "none"]
Fail(cpu, mem, err) == [cpu |-> cpu, mem |-> mem, err |-> err]
NextPc(cpu) == [cpu EXCEPT !.pc = @ + 4]

ExecuteJump(i, cpu, mem, inside) ==
    IF i.k = "CondBranch" /\ ~Satisfies(cpu.nzcv, i.cond) THEN Step(NextPc(cpu), mem)
    ELSE IF ~inside THEN Fail(cpu, mem, "branch")
    ELSE Step([cpu EXCEPT !.pc = i.target], mem)

ExecuteLoad(i, cpu, mem, pages) ==
    LET n == SizeCells(i.size)
        a == IF i.k = "Load" THEN WrapAdd(GpOrSp(cpu, i.rn), i.offset) ELSE GpOrSp(cpu, i.rn)
        marked == IF i.k = "LoadExclusive"
                  THEN [cpu EXCEPT !.monitor = [address |-> a, size |-> n]] ELSE cpu
    IN  IF CanRead(pages, a, n)
        THEN Step(NextPc(SetX(marked, i.rt, ReadMem(mem, a, n))), mem)
        ELSE Fail(cpu, mem, "memory")

ExecuteStore(i, cpu, mem, pages) ==
    LET n == SizeCells(i.size)
        a == IF i.k = "Store" THEN WrapAdd(GpOrSp(cpu, i.rn), i.offset) ELSE GpOrSp(cpu, i.rn)
    IN  IF CanWrite(pages, a, n)
        THEN Step(NextPc(cpu), WriteMem(mem, a, n, X(cpu, i.rt)))
        ELSE Fail(cpu, mem, "memory")

ExecuteStoreExclusive(i, cpu, mem, pages) ==
    LET n == SizeCells(i.size)
        a == GpOrSp(cpu, i.rn)
        held == cpu.monitor = [address |-> a, size |-> n]
        done == [cpu EXCEPT !.monitor = NoMonitor]
    IN  CASE ~held -> Step(NextPc(SetX(done, i.rs, 1)), mem)
          [] held /\ CanWrite(pages, a, n) ->
                Step(NextPc(SetX(done, i.rs, 0)), WriteMem(mem, a, n, X(cpu, i.rt)))
          [] OTHER -> Fail(cpu, mem, "memory")

\* The instructions that touch neither memory nor control flow.
ExecuteData(i, cpu) ==
    LET lhs == GpOrSp(cpu, i.rn)
    IN  CASE i.k = "MovZ" -> SetX(cpu, i.rd, i.imm)
          [] i.k = "AddImmediate" -> SetGpOrSp(cpu, i.rd, WrapAdd(lhs, i.imm))
          [] i.k = "SubImmediate" -> SetGpOrSp(cpu, i.rd, WrapSub(lhs, i.imm))
          [] i.k = "AddsImmediate" ->
                SetX([cpu EXCEPT !.nzcv = FromAdd(lhs, i.imm)], i.rd, WrapAdd(lhs, i.imm))
          [] i.k = "SubsImmediate" ->
                SetX([cpu EXCEPT !.nzcv = FromSub(lhs, i.imm)], i.rd, WrapSub(lhs, i.imm))
          [] i.k = "LogicalReg" -> SetX(cpu, i.rd, Logical(i.op, X(cpu, i.rn), X(cpu, i.rm)))
          [] i.k = "Barrier" -> cpu
          [] i.k = "FpMoveImmediate" -> SetVector(cpu, i.rd, i.imm, 0)
          [] i.k = "FpScalarBinary" ->
                SetVector(cpu, i.rd, FpOp(i.op, ScalarF64(cpu, i.rn), ScalarF64(cpu, i.rm)), 0)
          [] i.k = "FpCompare" ->
                [cpu EXCEPT !.nzcv = FloatCompare(ScalarF64(cpu, i.rn), ScalarF64(cpu, i.rm))]
          [] i.k = "VectorBinary" ->
                [cpu EXCEPT !.v[i.rd] = [n \in 1 .. 2 |-> VectorOp(i.op, cpu.v[i.rn][n], cpu.v[i.rm][n])]]

Loads == {"Load", "LoadExclusive", "LoadAcquire"}
Jumps == {"Branch", "CondBranch"}
Accesses == Loads \cup {"Store", "StoreExclusive", "StoreRelease"}
DataKinds == {"Barrier", "FpMoveImmediate", "FpScalarBinary", "FpCompare", "VectorBinary"}
Immediates == {"AddImmediate", "SubImmediate", "AddsImmediate", "SubsImmediate"}
LogicalOps == {"And", "Or", "Xor"}
GuestReg == 0 .. 31
Sizes == {"Word", "Double"}

\* DecodedInst: register numbers, sizes, and immediates that fit in a word.
InstOk(i) ==
    /\ i.k \in {"MovZ", "LogicalReg", "Svc"} \cup Immediates \cup Accesses \cup Jumps \cup DataKinds
    /\ i.k = "MovZ" => i.rd \in GuestReg /\ i.imm \in Words
    /\ i.k \in Immediates => i.rd \in GuestReg /\ i.rn \in GuestReg /\ i.imm \in Words
    /\ i.k = "LogicalReg" =>
          i.op \in LogicalOps /\ i.rd \in GuestReg /\ i.rn \in GuestReg /\ i.rm \in GuestReg
    /\ i.k \in Accesses => i.rn \in GuestReg /\ i.rt \in GuestReg /\ i.size \in Sizes
    /\ i.k = "StoreExclusive" => i.rs \in GuestReg
    /\ i.k \in {"Load", "Store"} => i.offset \in Words
    /\ i.k \in Jumps => i.target \in Nat

\* inside: whether the target of a branch is an address of the program.
Execute(i, cpu, mem, pages, inside) ==
    CASE i.k \in Jumps -> ExecuteJump(i, cpu, mem, inside)
      [] i.k = "Svc" -> Step([NextPc(cpu) EXCEPT !.halted = TRUE], mem)
      [] i.k \in Loads -> ExecuteLoad(i, cpu, mem, pages)
      [] i.k \in {"Store", "StoreRelease"} -> ExecuteStore(i, cpu, mem, pages)
      [] i.k = "StoreExclusive" -> ExecuteStoreExclusive(i, cpu, mem, pages)
      [] OTHER -> Step(NextPc(ExecuteData(i, cpu)), mem)
=============================================================================
