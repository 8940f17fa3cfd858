------------------------------ MODULE MCFrontEnd ------------------------------
(***************************************************************************)
(* Model-checking instance of both ends of the translator that deal in     *)
(* bits: decoding and recovery (FrontEnd) and the assembler (X64Asm).      *)
(* Programs of up to five instructions at three places of a small address  *)
(* space for control flow; one program per instruction form and register   *)
(* and immediate boundary for decoding; listings for the assembler, one    *)
(* per form, register and displacement boundary, and all short ones with   *)
(* labels.                                                                 *)
(***************************************************************************)
EXTENDS FrontEnd, X64Asm

-----------------------------------------------------------------------------
(* The two share nothing: a behaviour runs one, the other never starts.    *)

encodingVars == <<frontVars, asmVars>>
NothingToAssemble ==
    listing = <<>> /\ done = 0 /\ bytes = <<>> /\ labels = <<>> /\ sites = <<>> /\ outcome = "unused"
NothingToRecover ==
    /\ source = [base |-> 0, insts |-> <<>>] /\ code = DecodeWindow(source) /\ entries = <<>>
    /\ phase = "error" /\ work = <<>> /\ addr = 0 /\ decoded = {} /\ leaders = {}
    /\ blocks = <<>> /\ functions = <<>>

EncodingInit == (RecoverWords /\ NothingToAssemble) \/ (AsmInit /\ NothingToRecover)
EncodingNext == (FrontNext /\ UNCHANGED asmVars) \/ (AsmNext /\ UNCHANGED frontVars)
\* Both are loops on one thread: they run until they end.
EncodingSpec == EncodingInit /\ [][EncodingNext]_encodingVars /\ WF_encodingVars(EncodingNext)

\* Recovery ends on every program, loops included, and assembly on every
\* listing.
BothTerminate == Terminates /\ <>(outcome # "open")

-----------------------------------------------------------------------------
Plain == [k |-> "AddImmediate", rd |-> 1, rn |-> 31, imm |-> 1]
B(o) == [k |-> "Branch", offset |-> 4 * o]
BCond(c, o) == [k |-> "CondBranch", cond |-> c, offset |-> 4 * o]
Exit == [k |-> "Svc", imm |-> 0]
Program(base, insts) == [base |-> base, insts |-> insts]

Flow == {Plain, B(-1), BCond("Ne", 2), BCond("Al", 1), Exit, [k |-> "Undecoded"]}
Flows == {<<i, j, k>> : i \in Flow, j \in Flow, k \in Flow}
         \cup {<<i, j, k, B(-3), Exit>> : i \in Flow, j \in {BCond("Lt", 3), BCond("Ge", -1), Plain}, k \in {B(1), B(2), Plain, Exit}}
\* At the top of the address space, in the middle, and at 0.
Placed == {Program(base, f) : base \in {0, 4}, f \in Flows} \cup {Program(11 - Len(f), f) : f \in Flows}

Regs == {0, 17, 31}
Imms(k) == {[k |-> k, rd |-> d, rn |-> n, imm |-> w] : d \in Regs, n \in {0, 31}, w \in {0, 1, 4095, 4096, 4095 * 4096}}
Three(k, op) == {[k |-> k, op |-> op, rd |-> d, rn |-> n, rm |-> m] : d \in {0, 31}, n \in {1, 30}, m \in {2, 31}}
Accesses == {[k |-> k, rt |-> 3, rn |-> n, offset |-> Scale(size) * o, size |-> size] :
                k \in {"Load", "Store"}, size \in {"Word", "Double"}, n \in {0, 31}, o \in {0, 1, 4095}}
Atomics == {[k |-> k, rt |-> 0, rn |-> 1, size |-> size] : k \in {"LoadExclusive", "LoadAcquire", "StoreRelease"}, size \in {"Word", "Double"}}
           \cup {[k |-> "StoreExclusive", rs |-> s, rt |-> 0, rn |-> 1, size |-> size] : s \in {2, 31}, size \in {"Word", "Double"}}
Moves == {[k |-> "MovZ", rd |-> d, imm16 |-> w, shift |-> s] : d \in Regs, w \in {0, 32769, 65535}, s \in {0, 16, 48}}
Others == {[k |-> "Svc", imm |-> 65535], [k |-> "FpCompare", rn |-> 31, rm |-> 1],
           [k |-> "FpMoveImmediate", rd |-> 4, value |-> 1], [k |-> "FpMoveImmediate", rd |-> 4, value |-> 2]}
          \cup {[k |-> "Barrier", kind |-> b, option |-> o] : b \in {"Dsb", "Dmb", "Isb"}, o \in {0, 15}}
Far == {B(o) : o \in {33554431, -33554432}} \cup {BCond(c, o) : c \in {"Eq", "Gt"}, o \in {262143, -262144}}
Instructions ==
    Moves \cup Atomics \cup Accesses \cup Others \cup Far
    \cup UNION {Imms(k) : k \in {"AddImmediate", "SubImmediate", "AddsImmediate", "SubsImmediate"}}
    \cup UNION {Three("FpScalarBinary", op) : op \in {"FpAdd", "FpSub", "FpMul", "FpDiv"}}
    \cup UNION {Three("VectorBinary", op) : op \in {"AddI64", "AddF64"}}
    \cup UNION {Three("LogicalReg", op) : op \in {"And", "Or", "Xor"}}

MCSources == Placed \cup {Program(4, <<i, Exit>>) : i \in Instructions}
MCPrograms == {DecodeWindow(s) : s \in MCSources}
MCEntries == {<<>>, <<4>>, <<0>>, <<6, 4>>, <<10>>, <<5, 5>>}

-----------------------------------------------------------------------------
\* Registers around the special encodings, with and without REX.
Bases == {0, 4, 5, 7, 12, 13, 15}
Indices == {Absent, 0, 5, 12, 14}
Displacements == {0, 1, -1, 127, 128, -128, -129, 848, -70000}
Mem(b, x, o) == [base |-> b, index |-> x, disp |-> o]
Mems == {Mem(b, x, o) : b \in Bases, x \in Indices, o \in Displacements}
FewMems == {Mem(b, x, o) : b \in {5, 12, 15}, x \in {Absent, 1, 9}, o \in {0, 16, 336}}
\* Scaled displacements of one byte are left out (see README, findings).
EvexMems == {m \in FewMems : m.disp # 16 /\ (m.disp = 0 => m.base # 5)}
SomeRegs == {0, 4, 5, 8, 12, 13, 15}
Imm32 == {0, 1, -1, 127, 128, 2147483647, -2147483647}
Pairs(f) == {f @@ [dst |-> d, src |-> s] : d \in SomeRegs, s \in SomeRegs}
Calls1 ==
    UNION {Pairs([op |-> alu]) : alu \in DOMAIN AluOpcode} \cup UNION {Pairs([op |-> "mov", w |-> w]) : w \in {32, 64}}
    \cup {[op |-> "alu_imm", alu |-> alu, dst |-> d, imm |-> v] : alu \in DOMAIN ImmExtension, d \in SomeRegs, v \in Imm32}
    \cup {[op |-> k, dst |-> d, imm |-> v] : k \in {"mov_imm", "test_imm"}, d \in SomeRegs, v \in Imm32}
    \cup {[op |-> "shr", dst |-> d, imm |-> v] : d \in SomeRegs, v \in {0, 12, 255}}
    \cup {[op |-> k, w |-> w, reg |-> r, mem |-> m] : k \in {"load", "store"}, w \in {32, 64}, r \in {0, 12}, m \in Mems}
    \cup {[op |-> "movzx8", reg |-> r, mem |-> m] : r \in {0, 9}, m \in Mems}
    \cup {[op |-> "xmm_load", sse |-> f, reg |-> r, mem |-> m] : f \in DOMAIN SseLoad \ {"pshufd"}, r \in {1, 10}, m \in FewMems}
    \cup {[op |-> "xmm_load", sse |-> "pshufd", reg |-> r, mem |-> m, imm |-> 78] : r \in {1, 10}, m \in FewMems}
    \cup {[op |-> "xmm_store", sse |-> f, reg |-> r, mem |-> m] : f \in DOMAIN SseStore, r \in {1, 10}, m \in FewMems}
    \cup {[op |-> k, reg |-> r, mem |-> m] : k \in {"vmovdqu64_load", "vmovdqu64_store"}, r \in {1, 10}, m \in EvexMems}
    \cup {[op |-> "vpcmpeqq", dst |-> k, lhs |-> l, rhs |-> r] : k \in {0, 7}, l \in {0, 9, 15}, r \in {1, 8}}
    \cup {[op |-> "vpmovm2q", dst |-> d, src |-> k] : d \in {0, 9}, k \in {1, 7}}
    \cup {[op |-> k, reg |-> r] : k \in {"push", "pop", "call"}, r \in 0 .. 15}

Label == [op |-> "label"]
Short == {Label, [op |-> "prologue"], [op |-> "chain_exit"], [op |-> "ret"]}
         \cup {[op |-> k, label |-> n] : k \in {"bind", "jmp", "jnz"}, n \in {1, 2}}
Twice == {<<Label, Label>> \o s : s \in [1 .. 4 -> Short \ {Label}]}
MCListings ==
    {<<c>> : c \in Calls1} \cup Twice \cup UNION {[1 .. n -> Short] : n \in 0 .. 3}
    \cup {<<Label, [op |-> k, label |-> 1], [op |-> "epilogue"], [op |-> "bind", label |-> 1]>> : k \in DOMAIN JumpOpcode}
=============================================================================
