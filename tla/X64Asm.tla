------------------------------- MODULE X64Asm -------------------------------
(***************************************************************************)
(* The x86-64 assembler (nx86-x64-asm/src/lib.rs): calls append bytes,     *)
(* labels are bound before or after the jumps to them, finish fills in the *)
(* displacements.  A call is a record; registers are their numbers, and a  *)
(* memory operand is [base, index, disp].                                  *)
(***************************************************************************)
EXTENDS Integers, SequencesExt, TLC

CONSTANT Listings  \* sequences of calls: assembled from the first to the last

VARIABLES listing, done,  \* the calls, and how many were made
          bytes,          \* Assembler.bytes
          labels,         \* Assembler.labels: [position, fixups]
          sites,          \* Assembler.patch_sites: offsets
          outcome         \* "open", "ok", or the error that ended it
asmVars == <<listing, done, bytes, labels, sites, outcome>>

Absent == -1  \* no index register; no position yet
ChainExitSize == 5

-----------------------------------------------------------------------------
(* Bytes.                                                                  *)

\* to_le_bytes, of an integer in two's complement.
LittleEndian(value, size) ==
    LET rest[n \in 0 .. size] == IF n = 0 THEN value ELSE rest[n - 1] \div 256
    IN  [n \in 1 .. size |-> rest[n - 1] % 256]
RexBit(r) == IF r = Absent THEN 0 ELSE r \div 8
EmitRex(w, reg, index, rm) ==
    LET rex == 64 + 8 * w + 4 * RexBit(reg) + 2 * RexBit(index) + RexBit(rm)
    IN  IF rex = 64 THEN <<>> ELSE <<rex>>
ModRm(mode, reg, rm) == 64 * mode + 8 * (reg % 8) + (rm % 8)
Wide(i) == IF i.w = 64 THEN 1 ELSE 0

\* emit_mem_modrm: rsp and r12 need a SIB byte, rbp and r13 a displacement.
\* Mutant: the registers above 7 are forgotten.
DisplacementOfLowBase(m) ==
    CASE m.disp = 0 /\ m.base # 5 -> <<0, <<>> >>
      [] m.disp \in -128 .. 127 /\ (m.disp # 0 \/ m.base = 5) -> <<1, LittleEndian(m.disp, 1)>>
      [] OTHER -> <<2, LittleEndian(m.disp, 4)>>
Displacement(m) ==
    CASE m.disp = 0 /\ m.base \notin {5, 13} -> <<0, <<>> >>
      [] m.disp \in -128 .. 127 /\ (m.disp # 0 \/ m.base \in {5, 13}) -> <<1, LittleEndian(m.disp, 1)>>
      [] OTHER -> <<2, LittleEndian(m.disp, 4)>>
MemModRm(reg, m) ==
    LET sib == m.index # Absent \/ m.base \in {4, 12}
    IN  <<ModRm(Displacement(m)[1], reg, IF sib THEN 4 ELSE m.base)>>
        \o (IF sib THEN <<8 * (IF m.index = Absent THEN 4 ELSE m.index % 8) + (m.base % 8)>> ELSE <<>>)
        \o Displacement(m)[2]

-----------------------------------------------------------------------------
(* One call.                                                               *)

AluOpcode == [add |-> \h01, or |-> \h09, and |-> \h21, sub |-> \h29, xor |-> \h31, cmp |-> \h39]
ImmExtension == [add |-> 0, and |-> 4, sub |-> 5, cmp |-> 7]
JumpOpcode == [jmp |-> <<\hE9>>, jz |-> <<\h0F, \h84>>, jnz |-> <<\h0F, \h85>>, ja |-> <<\h0F, \h87>>]
\* prefix, opcode bytes after 0F
SseLoad == [movsd |-> <<\hF2, \h10>>, movdqu |-> <<\hF3, \h6F>>, addsd |-> <<\hF2, \h58>>, mulsd |-> <<\hF2, \h59>>,
            subsd |-> <<\hF2, \h5C>>, divsd |-> <<\hF2, \h5E>>, addpd |-> <<\h66, \h58>>, paddq |-> <<\h66, \hD4>>,
            pcmpeqq |-> <<\h66, \h38, \h29>>, pshufd |-> <<\h66, \h70>>]
SseStore == [movsd |-> <<\hF2, \h11>>, movdqu |-> <<\hF3, \h7F>>]

\* emit_reg_reg, emit_reg_mem, emit_mem_reg
RegReg(w, opcode, dst, src) == EmitRex(w, src, Absent, dst) \o <<opcode, ModRm(3, src, dst)>>
RegMem(w, opcode, reg, m) == EmitRex(w, reg, m.index, m.base) \o opcode \o MemModRm(reg, m)
\* emit_xmm_mem, emit_xmm_mem_0f38, emit_mem_xmm
XmmMem(form, reg, m) == <<form[1]>> \o RegMem(0, <<\h0F>> \o Tail(form), reg, m)

\* emit_evex_prefix: every extension bit is stored inverted.
Evex(map, pp, vvvv, reg, index, rm) ==
    <<\h62, 128 * (1 - RexBit(reg)) + 64 * (1 - RexBit(index)) + 32 * (1 - RexBit(rm)) + 16 + map,
      128 + 8 * (15 - vvvv) + 4 + pp, \h08>>

EmittedMove(i) ==
    CASE i.op = "mov_imm" -> EmitRex(1, Absent, Absent, i.dst) \o <<\hB8 + (i.dst % 8)>> \o LittleEndian(i.imm, 8)
      [] i.op = "mov" -> RegReg(Wide(i), \h89, i.dst, i.src)
      [] i.op = "load" -> RegMem(Wide(i), <<\h8B>>, i.reg, i.mem)
      [] i.op = "store" -> RegMem(Wide(i), <<\h89>>, i.reg, i.mem)
      [] i.op = "movzx8" -> RegMem(1, <<\h0F, \hB6>>, i.reg, i.mem)
Emitted(i) ==
    CASE i.op \in {"mov_imm", "mov", "load", "store", "movzx8"} -> EmittedMove(i)
      [] i.op \in DOMAIN AluOpcode -> RegReg(1, AluOpcode[i.op], i.dst, i.src)
      [] i.op = "alu_imm" -> EmitRex(1, Absent, Absent, i.dst) \o <<\h81, ModRm(3, ImmExtension[i.alu], i.dst)>>
                             \o LittleEndian(i.imm, 4)
      [] i.op = "test_imm" -> EmitRex(1, Absent, Absent, i.dst) \o <<\hF7, ModRm(3, 0, i.dst)>> \o LittleEndian(i.imm, 4)
      [] i.op = "shr" -> EmitRex(1, Absent, Absent, i.dst) \o <<\hC1, ModRm(3, 5, i.dst), i.imm>>
      [] i.op = "xmm_load" -> XmmMem(SseLoad[i.sse], i.reg, i.mem) \o (IF i.sse = "pshufd" THEN <<i.imm>> ELSE <<>>)
      [] i.op = "xmm_store" -> XmmMem(SseStore[i.sse], i.reg, i.mem)
      [] i.op = "vmovdqu64_load" -> Evex(1, 2, 0, i.reg, i.mem.index, i.mem.base) \o <<\h6F>> \o MemModRm(i.reg, i.mem)
      [] i.op = "vmovdqu64_store" -> Evex(1, 2, 0, i.reg, i.mem.index, i.mem.base) \o <<\h7F>> \o MemModRm(i.reg, i.mem)
      [] i.op = "vpcmpeqq" -> Evex(2, 1, i.lhs, i.dst, Absent, i.rhs) \o <<\h29, ModRm(3, i.dst, i.rhs)>>
      [] i.op = "vpmovm2q" -> Evex(2, 2, 0, i.dst, Absent, i.src) \o <<\h38, ModRm(3, i.dst, i.src)>>
      [] i.op = "call" -> EmitRex(0, Absent, Absent, i.reg) \o <<\hFF, ModRm(3, 2, i.reg)>>
      [] i.op = "push" -> EmitRex(0, Absent, Absent, i.reg) \o <<\h50 + (i.reg % 8)>>
      [] i.op = "pop" -> EmitRex(0, Absent, Absent, i.reg) \o <<\h58 + (i.reg % 8)>>
      [] i.op = "nop" -> <<\h90>>
      [] i.op = "ret" -> <<\hC3>>

\* prologue, epilogue and chain_exit are short sequences of these.
Pieces(i) ==
    CASE i.op = "prologue" -> <<[op |-> "push", reg |-> 5], [op |-> "mov", w |-> 64, dst |-> 5, src |-> 4]>>
      [] i.op = "epilogue" -> <<[op |-> "pop", reg |-> 5], [op |-> "ret"]>>
      [] i.op = "chain_exit" -> <<[op |-> "ret"]>> \o [n \in 1 .. ChainExitSize - 1 |-> [op |-> "nop"]]
      [] OTHER -> <<i>>

EncodeJmpRel32(rel) == <<\hE9>> \o LittleEndian(rel, 4)

-----------------------------------------------------------------------------
(* The calls of a listing, in turn; an error ends the assembly.            *)

AsmInit ==
    /\ listing \in Listings /\ done = 0
    /\ bytes = <<>> /\ labels = <<>> /\ sites = <<>> /\ outcome = "open"

Call == listing[done + 1]
IsJump(i) == i.op \in DOMAIN JumpOpcode
Calls == outcome = "open" /\ done < Len(listing) /\ done' = done + 1 /\ UNCHANGED listing

CreateLabel ==
    /\ Calls /\ Call.op = "label"
    /\ labels' = Append(labels, [position |-> Absent, fixups |-> <<>>])
    /\ UNCHANGED <<bytes, sites, outcome>>
BindLabel ==
    /\ Calls /\ Call.op = "bind"
    /\ IF Call.label \notin DOMAIN labels THEN outcome' = "InvalidLabel" /\ UNCHANGED labels
       ELSE IF labels[Call.label].position # Absent THEN outcome' = "DuplicateLabel" /\ UNCHANGED labels
       ELSE labels' = [labels EXCEPT ![Call.label].position = Len(bytes)] /\ UNCHANGED outcome
    /\ UNCHANGED <<bytes, sites>>
\* emit_label_rel32: the displacement follows the opcode and is relative to
\* what comes after it.
EmitJump ==
    /\ Calls /\ IsJump(Call)
    /\ IF Call.label \notin DOMAIN labels THEN outcome' = "InvalidLabel" /\ UNCHANGED <<bytes, labels>>
       ELSE /\ bytes' = bytes \o JumpOpcode[Call.op] \o <<0, 0, 0, 0>>
            /\ labels' = [labels EXCEPT ![Call.label].fixups = Append(@, Len(bytes) + Len(JumpOpcode[Call.op]))]
            /\ UNCHANGED outcome
    /\ UNCHANGED sites
EmitInstruction ==
    /\ Calls /\ Call.op \notin {"label", "bind"} /\ ~IsJump(Call)
    /\ bytes' = bytes \o FlattenSeq([n \in DOMAIN Pieces(Call) |-> Emitted(Pieces(Call)[n])])
    /\ sites' = IF Call.op = "chain_exit" THEN Append(sites, Len(bytes)) ELSE sites
    /\ UNCHANGED <<labels, outcome>>

Overwritten(code, offset, by) == [n \in DOMAIN code |-> IF n - offset \in DOMAIN by THEN by[n - offset] ELSE code[n]]
\* Mutant: displacements are relative to where they are stored.
FixedFromField(code, label) ==
    FoldLeft(LAMBDA c, offset : Overwritten(c, offset, LittleEndian(label.position - offset, 4)), code, label.fixups)
Fixed(code, label) ==
    FoldLeft(LAMBDA c, offset : Overwritten(c, offset, LittleEndian(label.position - (offset + 4), 4)), code, label.fixups)
Finish ==
    /\ outcome = "open" /\ done = Len(listing)
    /\ IF \E n \in DOMAIN labels : labels[n].position = Absent
       THEN outcome' = "UnresolvedLabel" /\ UNCHANGED bytes
       ELSE outcome' = "ok" /\ bytes' = FoldLeft(Fixed, bytes, labels)
    /\ UNCHANGED <<listing, done, labels, sites>>

AsmNext == CreateLabel \/ BindLabel \/ EmitJump \/ EmitInstruction \/ Finish

-----------------------------------------------------------------------------
(* Reference: the instruction at an offset of the bytes, read as the       *)
(* processor does (Intel SDM volume 2), for the opcodes above.  [inst,     *)
(* size]; jumps give the offset they go to.                                *)

ByteAt(c, p) == IF p < Len(c) THEN c[p + 1] ELSE 0
Signed(c, p, n) ==  \* n little-endian bytes, two's complement
    LET high == ByteAt(c, p + n - 1)
        sum[k \in 0 .. n - 1] == IF k = 0 THEN IF high >= 128 THEN high - 256 ELSE high
                                 ELSE 256 * sum[k - 1] + ByteAt(c, p + n - 1 - k)
    IN  sum[n - 1]

\* The ModRM byte at p, with the extensions of its three register fields and
\* what a one-byte displacement is multiplied by: [reg, rm, mem, size].
ReadModRm(c, p, r, x, b, scale) ==
    LET at == ByteAt(c, p)
        mode == at \div 64
        low == at % 8
        sib == IF mode # 3 /\ low = 4 THEN 1 ELSE 0
        index == ((ByteAt(c, p + 1) \div 8) % 8) + 8 * x
        base == (IF sib = 1 THEN ByteAt(c, p + 1) % 8 ELSE low) + 8 * b
        disp == CASE mode = 1 -> scale * Signed(c, p + 1 + sib, 1) [] mode = 2 -> Signed(c, p + 1 + sib, 4) [] OTHER -> 0
        ripRelative == mode = 0 /\ base % 8 = 5
    IN  [reg |-> ((at \div 8) % 8) + 8 * r, rm |-> IF mode = 3 THEN low + 8 * b ELSE Absent,
         mem |-> IF ripRelative THEN [base |-> Absent, index |-> Absent, disp |-> 0]
                 ELSE [base |-> base, index |-> IF sib = 1 /\ index # 4 THEN index ELSE Absent, disp |-> disp],
         size |-> 1 + sib + (CASE mode = 1 -> 1 [] mode = 2 -> 4 [] OTHER -> 0)]

KeyOf(f, value) == CHOOSE k \in DOMAIN f : f[k] = value
Jump(c, p, op, size) == [inst |-> [op |-> op, to |-> p + size + Signed(c, p + size - 4, 4)], size |-> size]
Unknown == [inst |-> [op |-> "unknown"], size |-> 1]

ReadEvex(c, p) ==
    LET p0 == ByteAt(c, p + 1)
        p1 == ByteAt(c, p + 2)
        Bit(n) == 1 - ((p0 \div 2 ^ n) % 2)
        m == ReadModRm(c, p + 5, Bit(7), Bit(6), Bit(5), 16)
        vvvv == 15 - ((p1 \div 8) % 16)
        form == <<p0 % 16, p1 % 4, ByteAt(c, p + 4)>>
        load == [reg |-> m.reg, mem |-> m.mem]
        inst == CASE form = <<1, 2, \h6F>> -> load @@ [op |-> "vmovdqu64_load"]
                  [] form = <<1, 2, \h7F>> -> load @@ [op |-> "vmovdqu64_store"]
                  [] form = <<2, 1, \h29>> -> [op |-> "vpcmpeqq", dst |-> m.reg, lhs |-> vvvv, rhs |-> m.rm]
                  [] form = <<2, 2, \h38>> -> [op |-> "vpmovm2q", dst |-> m.reg, src |-> m.rm]
                  [] OTHER -> Unknown.inst
    IN  [inst |-> inst, size |-> 5 + m.size]

Escape(c, p) == IF ByteAt(c, p) # \h0F THEN 0 ELSE IF ByteAt(c, p + 1) = \h38 THEN 2 ELSE 1

\* After the prefixes of p: mandatory is 66, F2, F3 or 0, rex the REX bits, m
\* what the ModRM byte says if there is one.
ReadForm(c, p, mandatory, rex, m) ==
    LET w == rex \div 8
        b == rex % 2
        code == ByteAt(c, p)
        second == ByteAt(c, p + 1)
        opcode == <<  <<code>>, <<second>>, <<\h38, ByteAt(c, p + 2)>> >>[Escape(c, p) + 1]
        size == 1 + Escape(c, p) + m.size
        sse == <<mandatory>> \o opcode
        extension == m.reg % 8
        Is(inst, n) == [inst |-> inst, size |-> n]
        bits == [w |-> IF w = 1 THEN 64 ELSE 32]
        move == [reg |-> m.reg, mem |-> m.mem]
        imm == [dst |-> m.rm, imm |-> Signed(c, p + size, 4)]
    IN  CASE code = \h0F /\ mandatory = 0 /\ second \in {\h84, \h85, \h87} ->
                Jump(c, p, KeyOf(JumpOpcode, <<\h0F, second>>), 6)
          [] code = \h0F /\ mandatory = 0 /\ second = \hB6 -> Is(move @@ [op |-> "movzx8"], size)
          [] code = \h0F /\ sse \in {SseStore[k] : k \in DOMAIN SseStore} ->
                Is(move @@ [op |-> "xmm_store", sse |-> KeyOf(SseStore, sse)], size)
          [] code = \h0F /\ sse = <<\h66, \h70>> ->
                Is(move @@ [op |-> "xmm_load", sse |-> "pshufd", imm |-> ByteAt(c, p + size)], size + 1)
          [] code = \h0F /\ sse \in {SseLoad[k] : k \in DOMAIN SseLoad} ->
                Is(move @@ [op |-> "xmm_load", sse |-> KeyOf(SseLoad, sse)], size)
          [] code = \hE9 -> Jump(c, p, "jmp", 5)
          [] code \in {\h90, \hC3} -> Is([op |-> IF code = \h90 THEN "nop" ELSE "ret"], 1)
          [] code \in \h50 .. \h57 -> Is([op |-> "push", reg |-> code - \h50 + 8 * b], 1)
          [] code \in \h58 .. \h5F -> Is([op |-> "pop", reg |-> code - \h58 + 8 * b], 1)
          [] code \in \hB8 .. \hBF -> Is([op |-> "mov_imm", dst |-> code - \hB8 + 8 * b,
                                        imm |-> SubSeq(c, p + 2, p + 9)], 9)
          [] code = \h89 /\ m.rm # Absent -> Is(bits @@ [op |-> "mov", dst |-> m.rm, src |-> m.reg], size)
          [] code = \h89 /\ m.rm = Absent -> Is(move @@ bits @@ [op |-> "store"], size)
          [] code = \h8B -> Is(move @@ bits @@ [op |-> "load"], size)
          [] code \in {AluOpcode[k] : k \in DOMAIN AluOpcode} ->
                Is([op |-> KeyOf(AluOpcode, code), dst |-> m.rm, src |-> m.reg], size)
          [] code = \h81 /\ extension \in {0, 4, 5, 7} ->
                Is(imm @@ [op |-> "alu_imm", alu |-> KeyOf(ImmExtension, extension)], size + 4)
          [] code = \hF7 /\ extension = 0 -> Is(imm @@ [op |-> "test_imm"], size + 4)
          [] code = \hC1 /\ extension = 5 -> Is([op |-> "shr", dst |-> m.rm, imm |-> ByteAt(c, p + size)], size + 1)
          [] code = \hFF /\ extension = 2 -> Is([op |-> "call", reg |-> m.rm], size)
          [] OTHER -> Unknown

ReadLegacy(c, p, mandatory, rex) ==
    ReadForm(c, p, mandatory, rex,
             ReadModRm(c, p + 1 + Escape(c, p), (rex \div 4) % 2, (rex \div 2) % 2, rex % 2, 1))

ReadOne(c, p) ==
    LET mandatory == IF ByteAt(c, p) \in {\h66, \hF2, \hF3} THEN 1 ELSE 0
        rex == IF ByteAt(c, p + mandatory) \in 64 .. 79 THEN 1 ELSE 0
        read == ReadLegacy(c, p + mandatory + rex, IF mandatory = 1 THEN ByteAt(c, p) ELSE 0,
                           IF rex = 1 THEN ByteAt(c, p + mandatory) - 64 ELSE 0)
    IN  IF ByteAt(c, p) = \h62 THEN ReadEvex(c, p) ELSE [read EXCEPT !.size = @ + mandatory + rex]

\* All of them: <<offset, instruction>> pairs.
ReadAll(c) ==
    LET from[p \in 0 .. Len(c)] ==
            LET And(one) == << <<p, one.inst>> >> \o (IF p + one.size <= Len(c) THEN from[p + one.size] ELSE <<>>)
            IN  IF p = Len(c) THEN <<>> ELSE And(ReadOne(c, p))
    IN  from[0]

-----------------------------------------------------------------------------
(* A finished assembly reads back as the calls that made it: every         *)
(* operand, width and sign, with each jump going to the instruction before *)
(* which its label was bound.  An error is the one the listing earns.      *)
(* Writing a direct jump over a patch site changes that site and nothing   *)
(* else (Assembler, encode_jmp_rel32).                                     *)
Emits(i) == i.op \notin {"label", "bind"}
Before(n) == FlattenSeq([k \in 1 .. n |-> IF Emits(listing[k]) THEN Pieces(listing[k]) ELSE <<>>])
Bound(label) == CHOOSE n \in DOMAIN listing : listing[n] = [op |-> "bind", label |-> label]
OffsetOf(read, n) == IF n <= Len(read) THEN read[n][1] ELSE Len(bytes)
Meant(i, read) ==
    CASE IsJump(i) -> [op |-> i.op, to |-> OffsetOf(read, Len(Before(Bound(i.label))) + 1)]
      [] i.op = "mov_imm" -> [i EXCEPT !.imm = LittleEndian(i.imm, 8)]
      [] OTHER -> i
Matches(read, meant) == Len(read) = Len(meant) /\ \A n \in DOMAIN read : read[n][2] = Meant(meant[n], read)
ReadsBack == outcome = "ok" => Matches(ReadAll(bytes), Before(Len(listing)))

Created(n) == Cardinality({k \in 1 .. n : listing[k].op = "label"})
Invalid == \E n \in DOMAIN listing : (listing[n].op = "bind" \/ IsJump(listing[n])) /\ listing[n].label > Created(n)
Duplicate == \E m, n \in DOMAIN listing : m < n /\ listing[m].op = "bind" /\ listing[n] = listing[m]
Unresolved == \E label \in 1 .. Created(Len(listing)) : ~\E n \in DOMAIN listing : listing[n] = [op |-> "bind", label |-> label]
ErrorsEarned ==
    outcome # "open" =>
        /\ outcome \in {"InvalidLabel", "DuplicateLabel"} \/ ~(Invalid \/ Duplicate)
        /\ outcome = "InvalidLabel" => Invalid
        /\ outcome = "DuplicateLabel" => Duplicate
        /\ outcome = "UnresolvedLabel" <=> Unresolved /\ ~Invalid /\ ~Duplicate

\* A jump of -2 - ChainExitSize, in place of the ret and its padding.
Patched(before, after, site) ==
    LET Elsewhere(read) == {r \in read : r[1] \notin site .. site + ChainExitSize - 1}
    IN  /\ Elsewhere(after) = Elsewhere(before)
        /\ after \ Elsewhere(after) = {<<site, [op |-> "jmp", to |-> site - 2]>>}
        /\ <<site, [op |-> "ret"]>> \in before
SitesPatchable ==
    outcome = "ok" => \A k \in DOMAIN sites :
        Patched(ToSet(ReadAll(bytes)),
                ToSet(ReadAll(Overwritten(bytes, sites[k], EncodeJmpRel32(-2 - ChainExitSize)))), sites[k])
AssemblesBack == ReadsBack /\ ErrorsEarned /\ SitesPatchable
=============================================================================
