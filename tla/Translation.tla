---------------------------- MODULE Translation ----------------------------
(***************************************************************************)
(* run_synthetic_test (nx86-runtime/src/lib.rs): one guest program run by  *)
(* the interpreter, by the NxIR evaluator after lifting and dead-flag      *)
(* elimination, and natively block by block (nx86-backend), and the three  *)
(* results compared.                                                       *)
(*                                                                         *)
(* The code stops at an interpreter error.  The comparison here goes on    *)
(* after a guest memory fault, since the dispatcher runs faulting blocks   *)
(* outside of these tests too.                                             *)
(***************************************************************************)
EXTENDS X64Lower

CONSTANTS Tests,     \* the runs: [prog, func, pages, fastmem]; a func that is not
                     \* NoFunction is a hand-made function to run instead of a program
          Base,      \* the entry point
          MaxSteps   \* the step limit of each engine
ASSUME LimitsAssumption == Base \in Nat /\ MaxSteps \in Nat
\* A program is a sequence of what the decoder yields.
ASSUME TestsAssumption ==
    \A t \in Tests : /\ Len(t.prog) \in Nat /\ DOMAIN t.prog = 1 .. Len(t.prog)
                     /\ \A n \in DOMAIN t.prog : InstOk(t.prog[n])
\* A word has a power of two of values: and, or and xor of words are words.
ASSUME LogicalAssumption == \A op \in LogicalOps, l, r \in Words : Logical(op, l, r) \in Words

VARIABLES test, stage, guestCpu, guestMem, guestErr, steps, func, ev, nat
testVars == <<test, stage, guestCpu, guestMem, guestErr, steps, func, ev, nat>>

Registers == {0, 1}
NewCpu == [x |-> [r \in Registers |-> 0], sp |-> 0, pc |-> Base, nzcv |-> NoFlags,
           v |-> [r \in Registers |-> <<0, 0>>], monitor |-> NoMonitor, halted |-> FALSE]
NewMem == [c \in Cell |-> 0]
NoFunction == [entry |-> 0, values |-> 0, deopts |-> <<>>, blocks |-> <<>>]
\* A hand-made function is one its users accept, and runs enter at its entry.
Accepted(f) == WellFormed(f) /\ f.entry = Base
ASSUME FunctionsAssumption == \A t \in Tests : t.func = NoFunction \/ Accepted(t.func)
NewNative(fastmem) ==
    [cpu |-> NewCpu, mem |-> NewMem, status |-> "running", frame |-> TRUE, fastmem |-> fastmem, path |-> <<>>]

TestInit ==
    /\ test \in Tests
    /\ stage = IF test.func = NoFunction THEN "interpret" ELSE "evaluate"
    /\ guestCpu = NewCpu /\ guestMem = NewMem /\ guestErr = "none" /\ steps = 0
    /\ func = test.func
    /\ ev = EvalStart(test.func, NewCpu, NewMem)
    /\ nat = NewNative(test.fastmem)

-----------------------------------------------------------------------------
(* The interpreter's loop.                                                 *)

Interpret ==
    /\ stage = "interpret" /\ guestErr = "none" /\ ~guestCpu.halted /\ steps < MaxSteps
    /\ LET at == IndexOf(test.prog, Base, guestCpu.pc)
       IN  IF at = 0 THEN guestErr' = "pc" /\ UNCHANGED <<guestCpu, guestMem>>
           ELSE LET i == test.prog[at]
                    inside == i.k \in Jumps /\ IndexOf(test.prog, Base, i.target) # 0
                    s == Execute(i, guestCpu, guestMem, test.pages, inside)
                IN  guestCpu' = s.cpu /\ guestMem' = s.mem /\ guestErr' = s.err
    /\ steps' = steps + 1
    /\ UNCHANGED <<test, stage, func, ev, nat>>

\* The loop has ended: by a halt, an error, or the step limit.
Interpreted == stage = "interpret" /\ (guestErr # "none" \/ guestCpu.halted \/ steps = MaxSteps)

-----------------------------------------------------------------------------
(* run_translation_differentials: lift, eliminate dead flags, verify.      *)

Translate ==
    /\ Interpreted
    /\ LET lifted == LiftProgram(test.prog, Base)
           optimised == EliminateDeadFlags(lifted.f)
       IN  IF lifted.ok /\ Verify(optimised)
           THEN /\ stage' = "evaluate"
                /\ func' = optimised
                /\ ev' = EvalStart(optimised, NewCpu, NewMem)
           ELSE stage' = "untranslated" /\ UNCHANGED <<func, ev>>
    /\ steps' = 0
    /\ UNCHANGED <<test, guestCpu, guestMem, guestErr, nat>>

EvaluateBlock ==
    /\ stage = "evaluate" /\ ev.status = "running" /\ steps < MaxSteps
    /\ ev' = EvalBlock(func, ev, test.pages)
    /\ steps' = steps + 1
    /\ UNCHANGED <<test, stage, guestCpu, guestMem, guestErr, func, nat>>

Evaluated ==
    /\ stage = "evaluate" /\ (ev.status # "running" \/ steps = MaxSteps)
    /\ stage' = "native" /\ steps' = 0
    /\ UNCHANGED <<test, guestCpu, guestMem, guestErr, func, ev, nat>>

-----------------------------------------------------------------------------
(* The dispatcher's loop over separately lowered blocks, looked up by pc.  *)

Entries == [b \in DOMAIN func.blocks |-> EntryAddress(func.blocks[b])]

\* from_function refuses a function when one of its blocks cannot be lowered.
Loadable == \A b \in DOMAIN func.blocks : ~LoweringFails(func.blocks[b], func.values)
AtPc == {b \in DOMAIN func.blocks : Entries[b] = nat.cpu.pc}

NativeBlock ==
    /\ stage = "native" /\ nat.status = "running" /\ steps < MaxSteps /\ Loadable
    /\ \E b \in AtPc :
          LET m == RunCode(Machine(NativeState(nat.cpu, nat.fastmem), nat.cpu.v, nat.mem),
                           LowerBlock(func.blocks[b], func.values, Entries), test.pages)
          IN  nat' = [nat EXCEPT !.cpu = ApplyTo(@, m), !.mem = m.mem, !.frame = @ /\ FrameKept(m),
                                 !.path = Append(@, b),
                                 !.status = IF m.st.memory_fault # 0 THEN "fault"
                                            ELSE IF m.st.halted # 0 THEN "exit" ELSE "running"]
    /\ steps' = steps + 1
    /\ UNCHANGED <<test, stage, guestCpu, guestMem, guestErr, func, ev>>

NativeFails ==
    /\ stage = "native" /\ nat.status = "running" /\ steps < MaxSteps
    /\ ~Loadable \/ AtPc = {}
    /\ nat' = [nat EXCEPT !.status = IF Loadable THEN "missing" ELSE "unsupported"]
    /\ UNCHANGED <<test, stage, guestCpu, guestMem, guestErr, steps, func, ev>>

TestNext == Interpret \/ Translate \/ EvaluateBlock \/ Evaluated \/ NativeBlock \/ NativeFails
TestSpec == TestInit /\ [][TestNext]_testVars

-----------------------------------------------------------------------------
(* Properties.                                                             *)

\* Lifting a program whose branches stay inside it yields a function the
\* verifier accepts, and so does the dead-flag pass; the evaluator then reads
\* no value that nothing has defined (lift_program, verify,
\* eliminate_dead_flags, evaluate).
BranchesInside ==
    \A i \in DOMAIN test.prog : test.prog[i].k \in Jumps =>
        /\ IndexOf(test.prog, Base, test.prog[i].target) # 0
        /\ test.prog[i].k = "CondBranch" => i + 1 \in DOMAIN test.prog
LiftedVerifies ==
    /\ stage = "untranslated" => ~BranchesInside
    /\ test.func = NoFunction => ~ev.readUndefined

\* The evaluator ends where the interpreter ended, with the same registers,
\* flags, monitor and memory; it faults exactly when the interpreter does,
\* and had then made exactly the same stores (evaluate against run_in).
NxirAgrees ==
    stage = "native" /\ test.func = NoFunction =>
        /\ guestCpu.halted => ev.status = "exit" /\ ev.cpu = guestCpu /\ ev.mem = guestMem
        /\ guestErr = "memory" => ev.status = "fault" /\ ev.mem = guestMem

\* Native code that can be generated at all ends like the evaluator, and like
\* the interpreter: same registers and memory at a halt.  At a memory fault it
\* stops before any effect of the faulting instruction, with that
\* instruction's pc (lower_block, slowmem_read, slowmem_write).
NativeAgrees ==
    /\ nat.status = "exit" /\ ev.status = "exit" => nat.cpu = ev.cpu /\ nat.mem = ev.mem
    /\ nat.status = "exit" /\ guestErr = "none" /\ guestCpu.halted => nat.cpu = guestCpu /\ nat.mem = guestMem
    /\ nat.status = "fault" => guestErr = "memory" /\ nat.cpu = guestCpu /\ nat.mem = guestMem
    /\ guestErr = "memory" /\ nat.status # "running" => nat.status \in {"fault", "unsupported"}

\* Every block returns with the caller's stack and callee-saved registers as
\* they were, on the normal, the chained and the fault exit, and never
\* touches memory outside its frame, the state and the arena (lower_block).
FrameIntact == nat.frame

\* A run that enters no block twice is laid out in the order it ran, at the
\* head of a layout that keeps every block exactly once (hot_cold_layout).
LayoutFollowsRun ==
    stage = "native" /\ nat.path # <<>> =>
        LET layout == HotColdLayout(func, [i \in 1 .. Len(nat.path) - 1 |-> <<nat.path[i], nat.path[i + 1]>>])
        IN  /\ Len(layout) = Len(func.blocks) /\ ToSet(layout) = DOMAIN func.blocks
            /\ Cardinality(ToSet(nat.path)) = Len(nat.path) => IsPrefix(nat.path, layout)
=============================================================================
