-------------------------- MODULE DispatcherProofs --------------------------
(***************************************************************************)
(* Proofs about Dispatcher, for every set of blocks and pages, every guest *)
(* function, step budget and mprotect failure: the indexes of native and   *)
(* software chains stay exact, no patched exit leaves the registered code, *)
(* and no stale block is looked up again.                                  *)
(***************************************************************************)
EXTENDS Dispatcher, SequenceTheorems, TLAPS

-----------------------------------------------------------------------------
(* The chain cache inside the dispatcher is a ChainCache, and what         *)
(* ChainCacheProofs proves of its steps holds of the dispatcher's calls.   *)
ChainTheorems == INSTANCE ChainCacheProofs

LEMMA SameOperators ==
    /\ Chains!vars = ChainTheorems!vars
    /\ Chains!TypeOK = ChainTheorems!TypeOK
    /\ Chains!IncomingExact = ChainTheorems!IncomingExact
BY DEF Chains!vars, ChainTheorems!vars, Chains!TypeOK, ChainTheorems!TypeOK,
       Chains!IncomingExact, ChainTheorems!IncomingExact

LEMMA SameObserve ==
    ASSUME NEW source \in Pc, NEW target \in Pc
    PROVE  /\ Chains!Observe(source, target) = ChainTheorems!Observe(source, target)
           /\ Chains!Installs(source, target) = ChainTheorems!Installs(source, target)
BY DEF Chains!Observe, Chains!Chained, Chains!CountAfter, Chains!Installs,
       Chains!threshold, Chains!ChainsWithout, Chains!IncomingWithout, Chains!vars,
       ChainTheorems!Observe, ChainTheorems!Chained, ChainTheorems!CountAfter,
       ChainTheorems!Installs, ChainTheorems!threshold,
       ChainTheorems!ChainsWithout, ChainTheorems!IncomingWithout, ChainTheorems!vars

LEMMA SameInvalidate ==
    ASSUME NEW block \in Pc
    PROVE  Chains!Invalidate(block) = ChainTheorems!Invalidate(block)
BY DEF Chains!Invalidate, Chains!ChainsWithout, Chains!IncomingWithout,
       ChainTheorems!Invalidate, ChainTheorems!ChainsWithout,
       ChainTheorems!IncomingWithout

LEMMA SameSetEnabled ==
    ASSUME NEW value \in BOOLEAN
    PROVE  Chains!SetEnabled(value) = ChainTheorems!SetEnabled(value)
BY DEF Chains!SetEnabled, Chains!NoEdges, Chains!NoChains, Chains!NoSources,
       ChainTheorems!SetEnabled, ChainTheorems!NoEdges, ChainTheorems!NoChains,
       ChainTheorems!NoSources

-----------------------------------------------------------------------------
(* The type invariant in parts. *)
CodeTyped ==
    /\ blocks \in SUBSET Pc
    /\ exits \in SUBSET blocks
    /\ patched \in SUBSET exits
    /\ slot \in [Pc -> Slots]
    /\ poisoned \in SUBSET blocks
    /\ native_incoming \in [Pc -> SUBSET Pc]

RunTyped ==
    /\ phase \in Phases
    /\ pc \in Pc \cup {NoPc}
    /\ guest_pc \in Pc \cup {NoPc}
    /\ patched_successor \in Pc \cup {NoPc}
    /\ halted \in BOOLEAN
    /\ pending \in Seq(Page \cup {NoPage})
    /\ drained \in BOOLEAN
    /\ steps \in 0..MaxSteps

OtherTyped ==
    /\ program \in Programs
    /\ native_patch_chaining \in BOOLEAN
    /\ ring \in Seq(Page)
    /\ erred \in BOOLEAN

(* Blocks that are waiting for something are registered; only an eviction  *)
(* in progress has blocks left to evict.                                   *)
Waiting == /\ stale \in SUBSET blocks
           /\ evicting \in SUBSET blocks
           /\ evicting # {} => phase = "evict"

(* Past the lookup there is a block being run, within the step budget, and *)
(* a live slot leads somewhere.                                            *)
InRun == /\ phase \notin {"idle", "crashed"} => guest_pc \in Pc
         /\ phase \in {"native", "settle", "evict", "route"} => pc \in Pc
         /\ phase \in {"native", "settle", "evict"} => steps < MaxSteps
         /\ \A s \in Pc : slot[s] = "live" => Successor(s) \in Pc

Typed == /\ CodeTyped /\ Chains!TypeOK /\ RunTyped /\ OtherTyped
         /\ Waiting /\ InRun

LEMMA TypedIsTypeOK == Typed => TypeOK
BY DEF Typed, CodeTyped, RunTyped, OtherTyped, Waiting, TypeOK

LEMMA InitTyped == Init => Typed
<1> SUFFICES ASSUME Init PROVE Typed
  OBVIOUS
<1>1. program \in [succ : [Pc -> Pc \cup {NoPc}], branch : SUBSET Pc]
  BY ProgramAssumption DEF Init
<1>2. CodeTyped
  BY <1>1 DEF Init, CodeTyped, Slots
<1>3. Chains!TypeOK
  BY CountAssumption
  DEF Init, Chains!Init, Chains!TypeOK, Chains!NoEdges, Chains!NoChains,
      Chains!NoSources
<1>4. RunTyped
  <2>1. pending \in Seq(Page \cup {NoPage})
    BY EmptySeq DEF Init
  <2>2. steps \in 0..MaxSteps
    BY GateAssumption DEF Init
  <2> QED
    BY <2>1, <2>2 DEF Init, RunTyped, Phases
<1>5. OtherTyped
  BY EmptySeq DEF Init, OtherTyped
<1>6. Waiting /\ InRun
  BY DEF Init, Waiting, InRun
<1> QED
  BY <1>2, <1>3, <1>4, <1>5, <1>6 DEF Typed

(* The guest function never changes, and its successors are blocks. *)
LEMMA SuccessorTyped ==
    ASSUME OtherTyped
    PROVE  /\ \A s \in Pc : Successor(s) \in Pc \cup {NoPc}
           /\ program.branch \subseteq Pc
           /\ \A s \in program.branch : Successor(s) # NoPc
BY ProgramAssumption DEF OtherTyped, Successor

-----------------------------------------------------------------------------
(* The ways a step can change the code: everything else leaves it alone.   *)
Quarantined(s, t) == /\ Installable(s, t)
                     /\ slot' = [slot EXCEPT ![s] = "live"]
                     /\ poisoned' = poisoned \cup {s}
                     /\ UNCHANGED <<blocks, exits, patched, native_incoming>>

Recompiled == /\ guest_pc \in Pc \ blocks
              /\ blocks' = blocks \cup {guest_pc}
              /\ UNCHANGED <<exits, patched, slot, poisoned, native_incoming>>

CodeStep ==
    \/ \E b \in Pc : InvalidateOk(b) \/ EvictOk(b)
    \/ \E sources \in SUBSET patched : RestoreFails(sources)
    \/ RestoreEverything
    \/ \E s, t \in Pc : Install(s, t) \/ Quarantined(s, t)
    \/ Recompiled
    \/ UNCHANGED code_vars

LEMMA EveryCodeStep ==
    ASSUME Typed, [Next]_vars
    PROVE  CodeStep /\ UNCHANGED program
<1> USE DEF CodeStep
<1>1. CASE \E b \in Pc : Invalidate(b) \/ Evict(b) \/ EvictStale(b)
  BY <1>1 DEF Invalidate, Evict, EvictStale, Idle, PatchedAround
<1>2. CASE \E value \in BOOLEAN : SetChainingEnabled(value)
  BY <1>2 DEF SetChainingEnabled, Idle
<1>3. CASE \E value \in BOOLEAN : SetNativePatchChaining(value)
  BY <1>3 DEF SetNativePatchChaining, Idle
<1>4. CASE CompileMissing
  BY <1>4 DEF CompileMissing, Recompiled, code_vars, Typed, InRun
<1>5. CASE Route
  <2>1. CASE UNCHANGED code_vars
    BY <1>5, <2>1 DEF Route
  <2>2. CASE phase = "route" /\ guest_pc \in blocks /\ TryInstall(pc, guest_pc)
    <3>1. pc \in Pc /\ guest_pc \in Pc
      BY <2>2 DEF Typed, InRun, CodeTyped
    <3>2. \/ Install(pc, guest_pc) \/ Quarantined(pc, guest_pc)
          \/ UNCHANGED code_vars
      BY <2>2 DEF TryInstall, InstallDeclined, InstallFails, Quarantined, code_vars
    <3> QED
      BY <1>5, <3>1, <3>2 DEF Route
  <2> QED
    BY <1>5, <2>1, <2>2 DEF Route, NextIteration
<1>6. CASE StepLimit \/ CallBlock \/ ExecuteBlock \/ MemoryFault \/ TakeEvent
           \/ RecordEvent \/ DrainRing \/ CountStep
           \/ \E entry \in Pc : StartRun(entry)
  BY <1>6 DEF StepLimit, CallBlock, ExecuteBlock, MemoryFault, TakeEvent,
              RecordEvent, DrainRing, CountStep, StartRun
<1>7. CASE UNCHANGED vars
  BY <1>7 DEF vars
<1> QED
  BY <1>1, <1>2, <1>3, <1>4, <1>5, <1>6, <1>7 DEF Next, RunStep

-----------------------------------------------------------------------------
(* What each way of changing the code does to the types. *)
LEMMA CodeStaysTyped ==
    ASSUME Typed, CodeStep, UNCHANGED program
    PROVE  CodeTyped'
<1> USE DEF Typed, CodeTyped, Slots
<1>1. CASE UNCHANGED code_vars
  BY <1>1 DEF code_vars
<1>2. ASSUME NEW b \in Pc, InvalidateOk(b) PROVE CodeTyped'
  BY <1>2 DEF InvalidateOk, Unlink, RestoreOk, SlotsAfter, IncomingAfter
<1>3. ASSUME NEW b \in Pc, EvictOk(b) PROVE CodeTyped'
  <2>1. slot' \in [Pc -> Slots]
    BY <1>3 DEF EvictOk, SlotsAfter
  <2>2. native_incoming' \in [Pc -> SUBSET Pc]
    BY <1>3 DEF EvictOk, Unlink, IncomingAfter
  <2>3. patched' = patched \ PatchedAround(b)
    BY <1>3 DEF EvictOk, Unlink, RestoreOk
  <2>4. b \in patched => b \in PatchedAround(b)
    BY DEF PatchedAround
  <2> QED
    BY <1>3, <2>1, <2>2, <2>3, <2>4 DEF EvictOk
<1>4. ASSUME NEW sources \in SUBSET patched, RestoreFails(sources)
      PROVE  CodeTyped'
  BY <1>4 DEF RestoreFails, SlotsAfter, IncomingAfter
<1>5. CASE RestoreEverything
  BY <1>5 DEF RestoreEverything, RestoreOk, SlotsAfter
<1>6. ASSUME NEW s \in Pc, NEW t \in Pc, Install(s, t) PROVE CodeTyped'
  BY <1>6 DEF Install, Installable, MayInstall
<1>7. ASSUME NEW s \in Pc, NEW t \in Pc, Quarantined(s, t) PROVE CodeTyped'
  BY <1>7 DEF Quarantined, Installable, MayInstall
<1>8. CASE Recompiled
  BY <1>8 DEF Recompiled
<1> QED
  BY <1>1, <1>2, <1>3, <1>4, <1>5, <1>6, <1>7, <1>8 DEF CodeStep

(* Every step of the dispatcher is a step of the chain cache or leaves it  *)
(* alone.                                                                  *)
ChainStep ==
    \/ \E s, t \in Pc : Chains!Observe(s, t)
    \/ \E b \in Pc : Chains!Invalidate(b)
    \/ \E value \in BOOLEAN : Chains!SetEnabled(value)
    \/ UNCHANGED chain_vars

LEMMA EveryChainStep ==
    ASSUME Typed, [Next]_vars
    PROVE  ChainStep
<1> USE DEF ChainStep
<1>1. CASE \E b \in Pc : Invalidate(b) \/ Evict(b) \/ EvictStale(b)
  BY <1>1 DEF Invalidate, Evict, EvictStale, InvalidateOk, EvictOk, Unlink,
              RestoreFails
<1>2. CASE \E value \in BOOLEAN : SetChainingEnabled(value)
  BY <1>2 DEF SetChainingEnabled, RestoreFails
<1>3. CASE \E value \in BOOLEAN : SetNativePatchChaining(value)
  BY <1>3 DEF SetNativePatchChaining, RestoreFails
<1>4. CASE Route
  <2>1. CASE UNCHANGED chain_vars
    BY <2>1
  <2>2. CASE phase = "route" /\ Chains!Observe(pc, guest_pc) /\ guest_pc \in blocks
    BY <2>2 DEF Typed, InRun, CodeTyped
  <2> QED
    BY <1>4, <2>1, <2>2 DEF Route
<1>5. CASE StepLimit \/ CallBlock \/ CompileMissing \/ ExecuteBlock
           \/ MemoryFault \/ TakeEvent \/ RecordEvent \/ DrainRing \/ CountStep
           \/ \E entry \in Pc : StartRun(entry)
  BY <1>5 DEF StepLimit, CallBlock, CompileMissing, ExecuteBlock, MemoryFault,
              TakeEvent, RecordEvent, DrainRing, CountStep, StartRun
<1>6. CASE UNCHANGED vars
  BY <1>6 DEF vars
<1> QED
  BY <1>1, <1>2, <1>3, <1>4, <1>5, <1>6 DEF Next, RunStep

LEMMA IsCacheStep ==
    ASSUME ChainStep
    PROVE  [ChainTheorems!Next]_(ChainTheorems!vars)
BY SameObserve, SameInvalidate, SameSetEnabled
DEF ChainStep, ChainTheorems!Next, ChainTheorems!vars, chain_vars

LEMMA ChainsStayTyped ==
    ASSUME Chains!TypeOK, ChainStep
    PROVE  Chains!TypeOK'
<1>1. ChainTheorems!NoPcAssumption /\ ChainTheorems!CountAssumption
  BY PcAssumption, CountAssumption
  DEF ChainTheorems!NoPcAssumption, ChainTheorems!CountAssumption
<1>2. ChainTheorems!TypeOK
  BY SameOperators
<1>3. ChainTheorems!TypeOK'
  BY <1>1, <1>2, IsCacheStep, ChainTheorems!StepTyped
<1> QED
  BY <1>3 DEF Chains!TypeOK, ChainTheorems!TypeOK

-----------------------------------------------------------------------------
(* What is left of the types, one action at a time. *)
LEMMA RouteStep ==
    ASSUME Route
    PROVE  /\ UNCHANGED <<program, native_patch_chaining, ring, stale, blocks>>
           /\ \/ Return /\ erred' = TRUE
              \/ /\ phase' = "fetch"
                 /\ UNCHANGED <<pc, guest_pc, patched_successor, halted,
                                pending, drained, evicting, steps, erred>>
<1>1. CASE TryInstall(pc, guest_pc) /\ phase = "route"
  BY <1>1 DEF Route, TryInstall, InstallDeclined, Install, InstallFails,
              ReturnErr, code_vars
<1> QED
  BY <1>1 DEF Route, NextIteration, ReturnErr, code_vars

LEMMA RunStaysTyped ==
    ASSUME Typed, [Next]_vars
    PROVE  RunTyped' /\ OtherTyped'
<1> USE DEF Typed, RunTyped, OtherTyped, Phases
<1>1. 0 \in 0..MaxSteps /\ <<>> \in Seq(Page \cup {NoPage}) /\ <<>> \in Seq(Page)
  BY GateAssumption, EmptySeq
<1>2. Return => RunTyped'
  BY <1>1 DEF Return
<1>3. \A p \in Page : /\ pending \o <<NoPage, p>> \in Seq(Page \cup {NoPage})
                      /\ Append(ring, p) \in Seq(Page)
  OBVIOUS
<1>4. CASE \E b \in Pc : Invalidate(b) \/ Evict(b)
  BY <1>4 DEF Invalidate, Evict, Idle, run_vars, InvalidateOk, EvictOk,
              Unlink, RestoreFails
<1>5. CASE \E value \in BOOLEAN : SetChainingEnabled(value)
                               \/ SetNativePatchChaining(value)
  BY <1>5 DEF SetChainingEnabled, SetNativePatchChaining, Idle, run_vars,
              RestoreEverything, RestoreFails
<1>6. CASE \E entry \in Pc : StartRun(entry)
  BY <1>6 DEF StartRun
<1>7. CASE StepLimit
  BY <1>2, <1>7 DEF StepLimit
<1>8. CASE CallBlock
  <2>1. CASE ReturnErr
    BY <1>2, <1>8, <2>1 DEF CallBlock, ReturnErr
  <2> QED
    BY <1>8, <2>1, SuccessorTyped DEF CallBlock, CodeTyped
<1>9. CASE CompileMissing
  BY <1>2, <1>9 DEF CompileMissing, ReturnErr, run_vars
<1>10. CASE ExecuteBlock
  <2>1. pending' \in Seq(Page \cup {NoPage}) /\ ring' \in Seq(Page)
    BY <1>10, <1>3 DEF ExecuteBlock, Store, Stored
  <2>2. phase' \in Phases /\ guest_pc' \in Pc \cup {NoPc} /\ halted' \in BOOLEAN
    BY <1>10, SuccessorTyped DEF ExecuteBlock, InRun
  <2> QED
    BY <1>10, <2>1, <2>2 DEF ExecuteBlock
<1>11. CASE MemoryFault
  <2>1. ring' \in Seq(Page)
    BY <1>11, <1>3 DEF MemoryFault
  <2> QED
    BY <1>2, <1>11, <2>1 DEF MemoryFault, ReturnErr
<1>12. CASE TakeEvent
  <2>1. pending' \in Seq(Page \cup {NoPage})
    BY <1>12 DEF TakeEvent
  <2> QED
    BY <1>12, <2>1 DEF TakeEvent
<1>13. CASE \E b \in Pc : EvictStale(b)
  BY <1>2, <1>13 DEF EvictStale, ReturnErr, EvictOk, Unlink, RestoreFails
<1>14. CASE RecordEvent
  BY <1>2, <1>14 DEF RecordEvent, ReturnErr
<1>15. CASE DrainRing
  <2>1. ring \in Seq(Page \cup {NoPage})
    OBVIOUS
  <2> QED
    BY <1>1, <1>15, <2>1 DEF DrainRing
<1>16. CASE CountStep
  <2>1. CASE steps' = steps + 1 /\ phase = "settle"
    <3>1. steps' \in 0..MaxSteps
      BY <2>1, GateAssumption DEF InRun
    <3> QED
      BY <1>2, <1>16, <3>1 DEF CountStep
  <2> QED
    BY <1>2, <1>16, <2>1 DEF CountStep
<1>17. CASE Route
  BY <1>2, <1>17, RouteStep
<1>18. CASE UNCHANGED vars
  BY <1>18 DEF vars, run_vars
<1> QED
  BY <1>4, <1>5, <1>6, <1>7, <1>8, <1>9, <1>10, <1>11, <1>12, <1>13, <1>14,
     <1>15, <1>16, <1>17, <1>18 DEF Next, RunStep

LEMMA WaitingStays ==
    ASSUME Typed, [Next]_vars
    PROVE  Waiting'
<1> USE DEF Typed, Waiting, CodeTyped
<1>1. Return /\ stale' \in SUBSET blocks' => Waiting'
  BY DEF Return
<1>2. \A p \in Page, b \in Pc : {c \in blocks : p \in CodePages[c]} \subseteq blocks
  OBVIOUS
<1>3. ASSUME NEW b \in Pc, Invalidate(b) \/ Evict(b) PROVE Waiting'
  BY <1>3 DEF Invalidate, Evict, Idle, run_vars, InvalidateOk, EvictOk,
              RestoreFails
<1>4. CASE \E value \in BOOLEAN : SetChainingEnabled(value)
                               \/ SetNativePatchChaining(value)
  BY <1>4 DEF SetChainingEnabled, SetNativePatchChaining, Idle, run_vars,
              code_vars, RestoreEverything, RestoreFails
<1>5. CASE \E entry \in Pc : StartRun(entry)
  BY <1>5 DEF StartRun, code_vars
<1>6. CASE StepLimit
  BY <1>1, <1>6 DEF StepLimit, code_vars
<1>7. CASE CallBlock
  BY <1>1, <1>7 DEF CallBlock, ReturnErr, code_vars
<1>8. CASE CompileMissing
  BY <1>1, <1>8 DEF CompileMissing, ReturnErr, run_vars
<1>9. CASE ExecuteBlock
  BY <1>9 DEF ExecuteBlock, Store, Stored, code_vars
<1>10. CASE MemoryFault
  BY <1>1, <1>10 DEF MemoryFault, ReturnErr, code_vars
<1>11. CASE TakeEvent
  BY <1>11 DEF TakeEvent, code_vars
<1>12. ASSUME NEW b \in Pc, EvictStale(b) PROVE Waiting'
  <2>1. CASE EvictOk(b) /\ evicting' = evicting \ {b} /\ UNCHANGED phase
    BY <1>12, <2>1 DEF EvictStale, EvictOk
  <2>2. CASE RestoreFails(PatchedAround(b)) /\ ReturnErr
    BY <1>1, <2>2 DEF RestoreFails, ReturnErr
  <2> QED
    BY <1>12, <2>1, <2>2 DEF EvictStale
<1>13. CASE RecordEvent
  BY <1>1, <1>13 DEF RecordEvent, ReturnErr, code_vars
<1>14. CASE DrainRing
  BY <1>14 DEF DrainRing, code_vars
<1>15. CASE CountStep
  BY <1>1, <1>15 DEF CountStep, code_vars
<1>16. CASE Route
  <2>1. CASE Return
    BY <1>1, <1>16, <2>1, RouteStep
  <2>2. CASE phase = "route" /\ UNCHANGED evicting
    BY <1>16, <2>2, RouteStep
  <2> QED
    BY <1>16, <2>1, <2>2, RouteStep DEF Route
<1>17. CASE UNCHANGED vars
  BY <1>17 DEF vars, run_vars, code_vars
<1> QED
  BY <1>3, <1>4, <1>5, <1>6, <1>7, <1>8, <1>9, <1>10, <1>11, <1>12, <1>13,
     <1>14, <1>15, <1>16, <1>17 DEF Next, RunStep

(* A live slot is an installed one, and Install has a target.              *)
LEMMA LiveSlotStays ==
    ASSUME Typed, CodeStep, UNCHANGED program
    PROVE  \A s \in Pc : slot'[s] = "live" => Successor(s)' \in Pc
<1> USE DEF Typed, InRun, CodeTyped, Successor
<1>1. CASE UNCHANGED code_vars
  BY <1>1 DEF code_vars
<1>2. ASSUME NEW b \in Pc, InvalidateOk(b)
      PROVE  \A s \in Pc : slot'[s] = "live" => Successor(s)' \in Pc
  BY <1>2 DEF InvalidateOk, SlotsAfter
<1>3. ASSUME NEW b \in Pc, EvictOk(b)
      PROVE  \A s \in Pc : slot'[s] = "live" => Successor(s)' \in Pc
  BY <1>3 DEF EvictOk, SlotsAfter
<1>4. ASSUME NEW sources \in SUBSET patched, RestoreFails(sources)
      PROVE  \A s \in Pc : slot'[s] = "live" => Successor(s)' \in Pc
  BY <1>4 DEF RestoreFails, SlotsAfter
<1>5. CASE RestoreEverything
  BY <1>5 DEF RestoreEverything, SlotsAfter
<1>6. ASSUME NEW s \in Pc, NEW t \in Pc, Install(s, t) \/ Quarantined(s, t)
      PROVE  \A r \in Pc : slot'[r] = "live" => Successor(r)' \in Pc
  BY <1>6 DEF Install, Quarantined, Installable
<1>7. CASE Recompiled
  BY <1>7 DEF Recompiled
<1> QED
  BY <1>1, <1>2, <1>3, <1>4, <1>5, <1>6, <1>7 DEF CodeStep

(* Where the run is: what InRun says of the loop itself.                   *)
RunPlaced == /\ phase \notin {"idle", "crashed"} => guest_pc \in Pc
             /\ phase \in {"native", "settle", "evict", "route"} => pc \in Pc
             /\ phase \in {"native", "settle", "evict"} => steps < MaxSteps

LEMMA RunStaysPlaced ==
    ASSUME Typed, [Next]_vars
    PROVE  RunPlaced'
<1> USE DEF Typed, InRun, RunPlaced
<1>1. Return => RunPlaced'
  BY DEF Return
<1>2. CASE UNCHANGED run_vars
  BY <1>2 DEF run_vars
<1>3. CASE \E b \in Pc : Invalidate(b) \/ Evict(b)
  BY <1>2, <1>3 DEF Invalidate, Evict, Idle
<1>4. CASE \E value \in BOOLEAN : SetChainingEnabled(value)
                               \/ SetNativePatchChaining(value)
  BY <1>2, <1>4 DEF SetChainingEnabled, SetNativePatchChaining, Idle
<1>5. CASE \E entry \in Pc : StartRun(entry)
  BY <1>5 DEF StartRun
<1>6. CASE StepLimit
  BY <1>1, <1>6 DEF StepLimit
<1>7. CASE CallBlock
  BY <1>1, <1>7 DEF CallBlock, ReturnErr
<1>8. CASE CompileMissing
  BY <1>1, <1>2, <1>8 DEF CompileMissing, ReturnErr
<1>9. CASE ExecuteBlock
  <2>1. Successor(guest_pc) \in Pc \cup {NoPc} /\ guest_pc \in Pc
    BY <1>9, SuccessorTyped DEF ExecuteBlock
  <2>2. phase' # "crashed" => guest_pc' \in Pc
    BY <1>9, <2>1 DEF ExecuteBlock
  <2>3. phase' \in {"native", "settle", "crashed"}
    BY <1>9 DEF ExecuteBlock
  <2> QED
    BY <1>9, <2>2, <2>3 DEF ExecuteBlock
<1>10. CASE MemoryFault
  BY <1>1, <1>10 DEF MemoryFault, ReturnErr
<1>11. CASE TakeEvent
  BY <1>11 DEF TakeEvent
<1>12. CASE \E b \in Pc : EvictStale(b)
  BY <1>1, <1>12 DEF EvictStale, ReturnErr
<1>13. CASE RecordEvent
  BY <1>1, <1>13 DEF RecordEvent, ReturnErr
<1>14. CASE DrainRing
  BY <1>14 DEF DrainRing
<1>15. CASE CountStep
  BY <1>1, <1>15 DEF CountStep
<1>16. CASE Route
  <2>1. phase = "route"
    BY <1>16 DEF Route
  <2> QED
    BY <1>1, <1>16, <2>1, RouteStep
<1>17. CASE UNCHANGED vars
  BY <1>2, <1>17 DEF vars
<1> QED
  BY <1>3, <1>4, <1>5, <1>6, <1>7, <1>8, <1>9, <1>10, <1>11, <1>12, <1>13,
     <1>14, <1>15, <1>16, <1>17 DEF Next, RunStep

LEMMA StepTyped == Typed /\ [Next]_vars => Typed'
<1> SUFFICES ASSUME Typed, [Next]_vars PROVE Typed'
  OBVIOUS
<1>1. CodeStep /\ UNCHANGED program
  BY EveryCodeStep
<1>2. CodeTyped'
  BY <1>1, CodeStaysTyped
<1>3. Chains!TypeOK'
  BY EveryChainStep, ChainsStayTyped DEF Typed
<1>4. RunTyped' /\ OtherTyped'
  BY RunStaysTyped
<1>5. Waiting'
  BY WaitingStays
<1>6. InRun'
  BY <1>1, LiveSlotStays, RunStaysPlaced DEF RunPlaced, InRun
<1> QED
  BY <1>2, <1>3, <1>4, <1>5, <1>6 DEF Typed

(* The variables stay in their types: only registered blocks have an exit, *)
(* a patch, a quarantined mapping or something left to do, and the run     *)
(* keeps its step budget.                                                  *)
THEOREM TypeCorrect == Spec => []TypeOK
BY InitTyped, StepTyped, TypedIsTypeOK, PTL DEF Spec

-----------------------------------------------------------------------------
(* The index of native patches is inductive together with the types.       *)
LEMMA UnlinkKeepsIncoming ==
    ASSUME Typed, NativeIncomingExact, NEW b \in Pc, Unlink(b), UNCHANGED program
    PROVE  NativeIncomingExact'
<1> SUFFICES ASSUME NEW s \in Pc, NEW t \in Pc
             PROVE  s \in native_incoming'[t] <=>
                      s \in patched' /\ Successor(s) = t
  BY DEF NativeIncomingExact, Successor
<1> DEFINE around == PatchedAround(b)
<1>1. patched' = patched \ around
  BY DEF Unlink, RestoreOk
<1>2. native_incoming'[t] = IF t = b THEN {} ELSE IncomingAfter(around)[t] \ {b}
  BY DEF Unlink
<1>3. s \in around <=> s \in patched /\ (s = b \/ Successor(s) = b)
  BY DEF PatchedAround, NativeIncomingExact
<1>4. s \in IncomingAfter(around)[t] <=>
        s \in native_incoming[t] /\ ~(s \in around /\ Successor(s) = t)
  BY DEF IncomingAfter
<1>5. s \in native_incoming[t] <=> s \in patched /\ Successor(s) = t
  BY DEF NativeIncomingExact
<1> QED
  BY <1>1, <1>2, <1>3, <1>4, <1>5

LEMMA IncomingStaysExact ==
    ASSUME Typed, NativeIncomingExact, CodeStep, UNCHANGED program
    PROVE  NativeIncomingExact'
<1> USE DEF NativeIncomingExact, Typed, CodeTyped, Successor
<1>1. CASE UNCHANGED code_vars
  BY <1>1 DEF code_vars
<1>2. ASSUME NEW b \in Pc, Unlink(b) PROVE NativeIncomingExact'
  BY <1>2, UnlinkKeepsIncoming
<1>3. ASSUME NEW sources \in SUBSET patched, RestoreFails(sources)
      PROVE  NativeIncomingExact'
  BY <1>3 DEF RestoreFails, IncomingAfter
<1>4. CASE RestoreEverything
  BY <1>4 DEF RestoreEverything, RestoreOk
<1>5. ASSUME NEW s \in Pc, NEW t \in Pc, Install(s, t)
      PROVE  NativeIncomingExact'
  <2>1. patched' = patched \cup {s} /\ Successor(s) = t
    BY <1>5 DEF Install, Installable
  <2>2. \A u \in Pc : native_incoming'[u] =
            IF u = t THEN native_incoming[t] \cup {s} ELSE native_incoming[u]
    BY <1>5 DEF Install
  <2> QED
    BY <2>1, <2>2
<1>6. ASSUME NEW s \in Pc, NEW t \in Pc, Quarantined(s, t)
      PROVE  NativeIncomingExact'
  BY <1>6 DEF Quarantined
<1>7. CASE Recompiled
  BY <1>7 DEF Recompiled
<1> QED
  BY <1>1, <1>2, <1>3, <1>4, <1>5, <1>6, <1>7 DEF CodeStep, InvalidateOk, EvictOk

(* The reverse index of native patches lists exactly the exits patched     *)
(* into a block, whatever mprotect fails, so invalidate() always finds     *)
(* every exit it has to restore.                                           *)
THEOREM NativeIncomingAlwaysExact == Spec => []NativeIncomingExact
<1>1. Init => NativeIncomingExact
  BY DEF Init, NativeIncomingExact
<1>2. Typed /\ NativeIncomingExact /\ [Next]_vars => NativeIncomingExact'
  BY EveryCodeStep, IncomingStaysExact
<1> QED
  BY <1>1, <1>2, InitTyped, StepTyped, PTL DEF Spec

-----------------------------------------------------------------------------
(* The two switches move only with every exit restored, and exits are      *)
(* patched only with both switches on.                                     *)
LEMMA UnpatchedStays ==
    ASSUME Typed, DisabledMeansUnpatched, [Next]_vars
    PROVE  DisabledMeansUnpatched'
<1> USE DEF DisabledMeansUnpatched
<1>1. CASE patched' \subseteq patched /\ UNCHANGED <<enabled, native_patch_chaining>>
  BY <1>1
<1>2. CASE \E b \in Pc : Invalidate(b) \/ Evict(b) \/ EvictStale(b)
  BY <1>1, <1>2 DEF Invalidate, Evict, EvictStale, InvalidateOk, EvictOk,
                    Unlink, RestoreOk, RestoreFails, Chains!Invalidate, chain_vars
<1>3. CASE \E value \in BOOLEAN : SetChainingEnabled(value)
  <2>1. CASE SetChainingEnabled(TRUE)
    BY <2>1 DEF SetChainingEnabled, Chains!SetEnabled, code_vars
  <2>2. CASE SetChainingEnabled(FALSE)
    BY <1>1, <2>2 DEF SetChainingEnabled, RestoreEverything, RestoreOk,
                      RestoreFails, chain_vars
  <2> QED
    BY <1>3, <2>1, <2>2
<1>4. CASE \E value \in BOOLEAN : SetNativePatchChaining(value)
  BY <1>1, <1>4 DEF SetNativePatchChaining, RestoreEverything, RestoreOk,
                    RestoreFails, code_vars, chain_vars
<1>5. CASE Route
  <2>1. UNCHANGED <<enabled, native_patch_chaining>>
    BY <1>5 DEF Route, Chains!Observe, Chains!vars, chain_vars
  <2>2. \/ UNCHANGED patched
        \/ enabled /\ native_patch_chaining
    BY <1>5 DEF Route, NextIteration, TryInstall, InstallDeclined, Install,
                InstallFails, Installable, MayInstall, code_vars
  <2> QED
    BY <2>1, <2>2
<1>6. CASE StepLimit \/ CallBlock \/ CompileMissing \/ ExecuteBlock
           \/ MemoryFault \/ TakeEvent \/ RecordEvent \/ DrainRing \/ CountStep
           \/ \E entry \in Pc : StartRun(entry)
  BY <1>6 DEF StepLimit, CallBlock, CompileMissing, ExecuteBlock, MemoryFault,
              TakeEvent, RecordEvent, DrainRing, CountStep, StartRun,
              code_vars, chain_vars
<1>7. CASE UNCHANGED vars
  BY <1>7 DEF vars, code_vars, chain_vars
<1> QED
  BY <1>2, <1>3, <1>4, <1>5, <1>6, <1>7 DEF Next, RunStep

(* Once a switch is reported off no exit is patched, also when restoring   *)
(* them failed half way at an earlier attempt.                             *)
THEOREM DisabledAlwaysUnpatched == Spec => []DisabledMeansUnpatched
<1>1. Init => DisabledMeansUnpatched
  BY DEF Init, DisabledMeansUnpatched
<1> QED
  BY <1>1, UnpatchedStays, InitTyped, StepTyped, PTL DEF Spec

-----------------------------------------------------------------------------
(* NoWildJump is not inductive by itself.  Evicting a block must restore   *)
(* every live slot into it, which needs the index to be exact and patches  *)
(* to lead to registered exits; and recompiling a block must not bring an  *)
(* old slot back.                                                          *)
SlotInv ==
    /\ \A s \in Pc \ blocks : slot[s] = "ret"
    /\ \A s \in patched : Successor(s) \in exits /\ Successor(s) > s
    /\ NoWildJump

LEMMA UnlinkCutsAll ==
    ASSUME Typed, NativeIncomingExact, NEW b \in Pc, Unlink(b)
    PROVE  /\ patched' = patched \ PatchedAround(b)
           /\ \A s \in Pc : s \in PatchedAround(b) <=>
                  s \in patched /\ (s = b \/ Successor(s) = b)
<1>1. patched' = patched \ PatchedAround(b)
  BY DEF Unlink, RestoreOk
<1>2. \A s \in Pc : s \in PatchedAround(b) <=>
          s \in patched /\ (s = b \/ Successor(s) = b)
  BY DEF PatchedAround, NativeIncomingExact
<1> QED
  BY <1>1, <1>2

LEMMA EvictKeepsSlots ==
    ASSUME Typed, NativeIncomingExact, SlotInv, NEW b \in Pc, EvictOk(b),
           UNCHANGED program
    PROVE  SlotInv'
<1> USE DEF Typed, CodeTyped, SlotInv
<1>1. /\ patched' = patched \ PatchedAround(b)
      /\ \A s \in Pc : s \in PatchedAround(b) <=>
             s \in patched /\ (s = b \/ Successor(s) = b)
  BY UnlinkCutsAll DEF EvictOk
<1>2. /\ blocks' = blocks \ {b}
      /\ exits' = exits \ {b}
      /\ poisoned' = poisoned \ {b}
  BY DEF EvictOk
<1>3. \A s \in Pc : Successor(s)' = Successor(s)
  BY DEF Successor
<1>4. slot'[b] = "ret"
  BY DEF EvictOk
<1>5. ASSUME NEW s \in Pc, s # b
      PROVE  slot'[s] = IF s \in PatchedAround(b) THEN "ret"
                        ELSE IF slot[s] = "live" /\ Successor(s) = b THEN "freed"
                        ELSE slot[s]
  BY <1>5 DEF EvictOk, SlotsAfter
<1>6. \A s \in Pc \ blocks' : slot'[s] = "ret"
  BY <1>2, <1>4, <1>5
<1>7. \A s \in patched' : Successor(s)' \in exits' /\ Successor(s)' > s
  BY <1>1, <1>2, <1>3
<1>8. ASSUME NEW s \in blocks' \ poisoned'
      PROVE  /\ slot'[s] # "freed"
             /\ slot'[s] = "live" => /\ s \in patched'
                                     /\ Successor(s)' \in exits'
                                     /\ Successor(s)' > s
  <2>1. s \in blocks \ poisoned /\ s # b /\ s \in Pc
    BY <1>2, <1>8
  <2>2. /\ slot[s] # "freed"
        /\ slot[s] = "live" => /\ s \in patched
                               /\ Successor(s) \in exits
                               /\ Successor(s) > s
    BY <2>1 DEF NoWildJump
  <2>3. ~(slot[s] = "live" /\ Successor(s) = b /\ s \notin PatchedAround(b))
    BY <1>1, <2>1, <2>2
  <2>4. slot'[s] = IF s \in PatchedAround(b) THEN "ret" ELSE slot[s]
    BY <1>5, <2>1, <2>3
  <2> QED
    BY <1>1, <1>2, <1>3, <2>1, <2>2, <2>4
<1> QED
  BY <1>6, <1>7, <1>8 DEF NoWildJump

LEMMA SlotsStay ==
    ASSUME Typed, NativeIncomingExact, SlotInv, CodeStep, UNCHANGED program
    PROVE  SlotInv'
<1> USE DEF Typed, CodeTyped, SlotInv, NoWildJump
<1>0. \A s \in Pc : Successor(s)' = Successor(s)
  BY DEF Successor
<1>1. CASE UNCHANGED code_vars
  BY <1>0, <1>1 DEF code_vars
<1>2. ASSUME NEW b \in Pc, InvalidateOk(b) PROVE SlotInv'
  <2>1. patched' = patched \ PatchedAround(b)
    BY <1>2, UnlinkCutsAll DEF InvalidateOk
  <2>2. UNCHANGED <<blocks, exits, poisoned>>
    BY <1>2 DEF InvalidateOk
  <2>3. \A s \in Pc : slot'[s] =
            IF s \in PatchedAround(b) THEN "ret" ELSE slot[s]
    BY <1>2 DEF InvalidateOk, SlotsAfter
  <2> QED
    BY <1>0, <2>1, <2>2, <2>3
<1>3. ASSUME NEW b \in Pc, EvictOk(b) PROVE SlotInv'
  BY <1>3, EvictKeepsSlots
<1>4. ASSUME NEW sources \in SUBSET patched, RestoreFails(sources)
      PROVE  SlotInv'
  <2> PICK failing \in sources, restored \in SUBSET sources :
        /\ patched' = patched \ restored
        /\ \/ /\ slot' = SlotsAfter(restored)
              /\ UNCHANGED poisoned
           \/ /\ slot' = SlotsAfter(restored \cup {failing})
              /\ poisoned' = poisoned \cup {failing}
        /\ UNCHANGED <<blocks, exits>>
    BY <1>4 DEF RestoreFails
  <2>1. \A s \in Pc : slot'[s] \in {slot[s], "ret"}
    BY DEF SlotsAfter
  <2>2. \A s \in Pc \ poisoned' : slot'[s] = "live" => s \notin restored
    BY DEF SlotsAfter
  <2> QED
    BY <1>0, <2>1, <2>2
<1>5. CASE RestoreEverything
  BY <1>0, <1>5 DEF RestoreEverything, RestoreOk, SlotsAfter
<1>6. ASSUME NEW s \in Pc, NEW t \in Pc, Install(s, t) PROVE SlotInv'
  BY <1>0, <1>6 DEF Install, Installable, MayInstall
<1>7. ASSUME NEW s \in Pc, NEW t \in Pc, Quarantined(s, t) PROVE SlotInv'
  BY <1>0, <1>7 DEF Quarantined, Installable, MayInstall
<1>8. CASE Recompiled
  BY <1>0, <1>8 DEF Recompiled
<1> QED
  BY <1>1, <1>2, <1>3, <1>4, <1>5, <1>6, <1>7, <1>8 DEF CodeStep

(* No callable block ever jumps into freed memory or along an edge that    *)
(* was not a forward one into a registered Branch block, for every guest   *)
(* function and every pattern of mprotect failures and evictions.          *)
THEOREM NeverAWildJump == Spec => []NoWildJump
<1>1. Init => NativeIncomingExact /\ SlotInv
  BY DEF Init, NativeIncomingExact, SlotInv, NoWildJump
<1>2. Typed /\ NativeIncomingExact /\ SlotInv /\ [Next]_vars
        => NativeIncomingExact' /\ SlotInv'
  BY EveryCodeStep, IncomingStaysExact, SlotsStay
<1>3. SlotInv => NoWildJump
  BY DEF SlotInv
<1> QED
  BY <1>1, <1>2, <1>3, InitTyped, StepTyped, PTL DEF Spec

-----------------------------------------------------------------------------
(* Why a halt is the caller's own.  A block entered through a native chain *)
(* has an exit, so it ends in Branch and never halts; a halting block has  *)
(* no successor to be patched.                                             *)
HaltInv ==
    /\ exits \subseteq program.branch
    /\ halted => phase \in {"settle", "evict"}
    /\ phase = "native" => /\ guest_pc \in blocks \ poisoned
                           /\ guest_pc = pc \/ guest_pc \in exits
                           /\ patched_successor \in {Successor(pc), NoPc}
    /\ HaltIsClassified

LEMMA ExitsStayBranches ==
    ASSUME CodeStep
    PROVE  exits' \subseteq exits
BY DEF CodeStep, InvalidateOk, EvictOk, RestoreFails, RestoreEverything, Install,
       Quarantined, Recompiled, code_vars

LEMMA ExecuteKeepsHalt ==
    ASSUME Typed, SlotInv, HaltInv, ExecuteBlock
    PROVE  HaltInv'
<1> USE DEF HaltInv, HaltIsClassified
<1>0. /\ UNCHANGED <<program, blocks, exits, poisoned, pc, patched_successor>>
      /\ guest_pc \in blocks \ poisoned /\ ~halted
      /\ guest_pc = pc \/ guest_pc \in exits
      /\ patched_successor \in {Successor(pc), NoPc}
  BY DEF ExecuteBlock, code_vars
<1>1. CASE slot[guest_pc] = "ret"
  <2>1. phase' = "settle"
    BY <1>1 DEF ExecuteBlock
  <2>2. ASSUME halted' PROVE pc' = guest_pc' /\ patched_successor' = NoPc
    <3>1. Successor(guest_pc) = NoPc /\ guest_pc' = guest_pc
      BY <1>1, <2>2 DEF ExecuteBlock
    <3>2. guest_pc \notin exits
      BY <3>1, SuccessorTyped DEF Typed
    <3> QED
      BY <1>0, <3>1, <3>2
  <2> QED
    BY <1>0, <2>1, <2>2
<1>2. CASE phase' = "native" /\ slot[guest_pc] = "live"
  <2>1. guest_pc' = Successor(guest_pc) /\ guest_pc' \notin poisoned /\ ~halted'
    BY <1>0, <1>2 DEF ExecuteBlock
  <2>2. guest_pc' \in exits
    BY <1>0, <1>2, <2>1 DEF SlotInv, NoWildJump
  <2>3. guest_pc' \in blocks
    BY <2>2 DEF Typed, CodeTyped
  <2> QED
    BY <1>0, <1>2, <2>1, <2>2, <2>3 DEF Successor
<1>3. CASE phase' = "crashed"
  BY <1>0, <1>3 DEF ExecuteBlock
<1> QED
  BY <1>1, <1>2, <1>3 DEF ExecuteBlock

LEMMA HaltStays ==
    ASSUME Typed, SlotInv, HaltInv, [Next]_vars
    PROVE  HaltInv'
<1> USE DEF HaltInv, HaltIsClassified
<1>0. exits' \subseteq program'.branch
  BY EveryCodeStep, ExitsStayBranches
<1>1. Return => HaltInv'
  BY <1>0 DEF Return
<1>2. CASE /\ UNCHANGED <<halted, pc, guest_pc, patched_successor>>
           /\ phase' # "native"
           /\ phase \in {"settle", "evict"} => phase' \in {"settle", "evict"}
  BY <1>0, <1>2
<1>3. CASE \E b \in Pc : Invalidate(b) \/ Evict(b)
  BY <1>2, <1>3 DEF Invalidate, Evict, Idle, run_vars
<1>4. CASE \E value \in BOOLEAN : SetChainingEnabled(value)
                               \/ SetNativePatchChaining(value)
  BY <1>2, <1>4 DEF SetChainingEnabled, SetNativePatchChaining, Idle, run_vars
<1>5. CASE \E entry \in Pc : StartRun(entry)
  BY <1>0, <1>5 DEF StartRun
<1>6. CASE StepLimit
  BY <1>1, <1>6 DEF StepLimit
<1>7. CASE CallBlock
  BY <1>0, <1>1, <1>7 DEF CallBlock, ReturnErr, code_vars, Successor
<1>8. CASE CompileMissing
  BY <1>0, <1>1, <1>8 DEF CompileMissing, ReturnErr, run_vars
<1>9. CASE ExecuteBlock
  BY <1>9, ExecuteKeepsHalt
<1>10. CASE MemoryFault
  BY <1>1, <1>10 DEF MemoryFault, ReturnErr
<1>11. CASE TakeEvent
  BY <1>0, <1>11 DEF TakeEvent
<1>12. CASE \E b \in Pc : EvictStale(b)
  BY <1>0, <1>1, <1>12 DEF EvictStale, ReturnErr
<1>13. CASE RecordEvent
  BY <1>0, <1>1, <1>13 DEF RecordEvent, ReturnErr
<1>14. CASE DrainRing
  BY <1>2, <1>14 DEF DrainRing
<1>15. CASE CountStep
  <2>1. CASE phase' = "route" /\ UNCHANGED halted /\ ~halted
    BY <1>0, <2>1
  <2> QED
    BY <1>1, <1>15, <2>1 DEF CountStep
<1>16. CASE Route
  <2>1. phase = "route"
    BY <1>16 DEF Route
  <2>2. CASE phase' = "fetch" /\ UNCHANGED <<halted, pc, guest_pc, patched_successor>>
    <3>1. ~halted
      BY <2>1
    <3> QED
      BY <1>0, <2>2, <3>1
  <2> QED
    BY <1>1, <1>16, <2>2, RouteStep
<1>17. CASE UNCHANGED vars
  BY <1>0, <1>17 DEF vars, run_vars, code_vars, Successor
<1> QED
  BY <1>3, <1>4, <1>5, <1>6, <1>7, <1>8, <1>9, <1>10, <1>11, <1>12, <1>13,
     <1>14, <1>15, <1>16, <1>17 DEF Next, RunStep

(* A halt is always reported by the block the dispatcher called: native    *)
(* chains never swallow one.                                               *)
THEOREM HaltsAlwaysClassified == Spec => []HaltIsClassified
<1>1. Init => NativeIncomingExact /\ SlotInv /\ HaltInv
  BY DEF Init, NativeIncomingExact, SlotInv, NoWildJump, HaltInv, HaltIsClassified
<1>2. Typed /\ NativeIncomingExact /\ SlotInv /\ HaltInv /\ [Next]_vars
        => NativeIncomingExact' /\ SlotInv' /\ HaltInv'
  BY EveryCodeStep, IncomingStaysExact, SlotsStay, HaltStays
<1>3. HaltInv => HaltIsClassified
  BY DEF HaltInv
<1> QED
  BY <1>1, <1>2, <1>3, InitTyped, StepTyped, PTL DEF Spec

-----------------------------------------------------------------------------
(* The software chains.  The cache's own invariant is carried along, and   *)
(* the dispatcher adds when the source of an edge can be gone by the time  *)
(* the edge is observed: its counts were dropped with it, so with a        *)
(* threshold of at least 2 the observation cannot install a chain.         *)
RegInv ==
    /\ ChainTheorems!Inv
    /\ phase = "native" => pc \in blocks
    /\ phase \in {"settle", "evict", "route"} /\ pc \notin blocks =>
           \A t \in Pc : hot_edges[<<pc, t>>] = 0
    /\ SoftChainsRegistered

LEMMA CacheAssumptions == ChainTheorems!NoPcAssumption /\ ChainTheorems!CountAssumption
BY PcAssumption, CountAssumption
DEF ChainTheorems!NoPcAssumption, ChainTheorems!CountAssumption

LEMMA ChainsStayExact ==
    ASSUME ChainTheorems!Inv, ChainStep
    PROVE  ChainTheorems!Inv'
BY CacheAssumptions, IsCacheStep, ChainTheorems!StepTyped, ChainTheorems!StepKeepsInv
DEF ChainTheorems!Inv

LEMMA ChainsCut ==
    ASSUME ChainTheorems!Inv, NEW b \in Pc, Chains!Invalidate(b)
    PROVE  /\ \A s \in Pc : direct_chains'[s] =
                 IF s = b \/ direct_chains[s] = b THEN NoPc ELSE direct_chains[s]
           /\ \A s, t \in Pc : hot_edges'[<<s, t>>] =
                 IF s = b \/ t = b THEN 0 ELSE hot_edges[<<s, t>>]
<1>1. ChainTheorems!Invalidate(b)
  BY SameInvalidate
<1>2. \A s \in Pc : direct_chains'[s] =
          IF s = b \/ direct_chains[s] = b THEN NoPc ELSE direct_chains[s]
  BY <1>1, CacheAssumptions, ChainTheorems!InvalidateEffect DEF ChainTheorems!Inv
<1>3. \A s, t \in Pc : hot_edges'[<<s, t>>] =
          IF s = b \/ t = b THEN 0 ELSE hot_edges[<<s, t>>]
  BY DEF Chains!Invalidate
<1> QED
  BY <1>2, <1>3

LEMMA ChainGrown ==
    ASSUME Typed, Threshold >= 2, NEW s \in Pc, NEW t \in Pc, Chains!Observe(s, t)
    PROVE  \/ UNCHANGED direct_chains
           \/ /\ hot_edges[<<s, t>>] # 0
              /\ direct_chains' = [direct_chains EXCEPT ![s] = t]
<1>1. CASE Chains!Installs(s, t)
  <2>1. hot_edges[<<s, t>>] \in Nat
    BY DEF Typed, Chains!TypeOK
  <2>2. Chains!CountAfter(s, t) >= Threshold
    BY <1>1 DEF Chains!Installs, Chains!threshold
  <2>3. hot_edges[<<s, t>>] # 0
    BY <2>1, <2>2, CountAssumption DEF Chains!CountAfter
  <2>4. direct_chains' = [direct_chains EXCEPT ![s] = t]
    BY <1>1 DEF Chains!Observe, Chains!Installs, Chains!ChainsWithout,
                Typed, Chains!TypeOK
  <2> QED
    BY <2>3, <2>4
<1>2. CASE ~Chains!Installs(s, t)
  BY <1>2 DEF Chains!Observe, Chains!vars
<1> QED
  BY <1>1, <1>2

LEMMA UnlinkKeepsRegistered ==
    ASSUME Typed, RegInv, NEW b \in Pc, Chains!Invalidate(b),
           blocks \ {b} \subseteq blocks'
    PROVE  SoftChainsRegistered'
<1> SUFFICES ASSUME NEW s \in Pc, direct_chains'[s] # NoPc
             PROVE  {s, direct_chains'[s]} \subseteq blocks'
  BY DEF SoftChainsRegistered
<1>1. s # b /\ direct_chains[s] # b /\ direct_chains'[s] = direct_chains[s]
  BY ChainsCut DEF RegInv
<1>2. {s, direct_chains[s]} \subseteq blocks
  BY <1>1 DEF RegInv, SoftChainsRegistered
<1> QED
  BY <1>1, <1>2

LEMMA ChainsStayRegistered ==
    ASSUME Typed, Threshold >= 2, RegInv, [Next]_vars
    PROVE  SoftChainsRegistered'
<1>1. CASE UNCHANGED direct_chains /\ blocks \subseteq blocks'
  BY <1>1 DEF RegInv, SoftChainsRegistered
<1>2. CASE \E b \in Pc : Invalidate(b) \/ Evict(b) \/ EvictStale(b)
  <2>1. CASE \E b \in Pc : Chains!Invalidate(b) /\ blocks \ {b} \subseteq blocks'
    BY <2>1, UnlinkKeepsRegistered
  <2> QED
    BY <1>1, <1>2, <2>1 DEF Invalidate, Evict, EvictStale, InvalidateOk, EvictOk,
                            Unlink, RestoreFails, chain_vars
<1>3. CASE \E value \in BOOLEAN : SetChainingEnabled(value)
  <2>1. UNCHANGED blocks
    BY <1>3 DEF SetChainingEnabled, code_vars, RestoreEverything, RestoreFails
  <2>2. CASE Chains!SetEnabled(FALSE)
    BY <2>2 DEF Chains!SetEnabled, Chains!NoChains, SoftChainsRegistered
  <2>3. UNCHANGED direct_chains \/ Chains!SetEnabled(FALSE)
    BY <1>3 DEF SetChainingEnabled, Chains!SetEnabled, RestoreFails, chain_vars
  <2> QED
    BY <1>1, <2>1, <2>2, <2>3
<1>4. CASE \E value \in BOOLEAN : SetNativePatchChaining(value)
  BY <1>1, <1>4 DEF SetNativePatchChaining, code_vars, chain_vars,
                    RestoreEverything, RestoreFails
<1>5. CASE Route
  <2>1. UNCHANGED blocks
    BY <1>5, RouteStep
  <2>2. CASE /\ phase = "route"
             /\ guest_pc \in blocks
             /\ Chains!Observe(pc, guest_pc)
    <3>1. pc \in Pc /\ guest_pc \in Pc
      BY <2>2 DEF Typed, InRun, CodeTyped
    <3>2. CASE /\ hot_edges[<<pc, guest_pc>>] # 0
               /\ direct_chains' = [direct_chains EXCEPT ![pc] = guest_pc]
      <4>1. pc \in blocks
        BY <2>2, <3>1, <3>2 DEF RegInv
      <4>2. \A s \in Pc : direct_chains'[s] =
                IF s = pc THEN guest_pc ELSE direct_chains[s]
        BY <3>2 DEF Typed, Chains!TypeOK
      <4> QED
        BY <2>1, <2>2, <4>1, <4>2 DEF RegInv, SoftChainsRegistered
    <3> QED
      BY <1>1, <2>1, <2>2, <3>1, <3>2, ChainGrown
  <2>3. CASE UNCHANGED chain_vars
    BY <1>1, <2>1, <2>3 DEF chain_vars
  <2> QED
    BY <1>5, <2>2, <2>3 DEF Route
<1>6. CASE StepLimit \/ CallBlock \/ CompileMissing \/ ExecuteBlock
           \/ MemoryFault \/ TakeEvent \/ RecordEvent \/ DrainRing \/ CountStep
           \/ \E entry \in Pc : StartRun(entry)
  BY <1>1, <1>6 DEF StepLimit, CallBlock, CompileMissing, ExecuteBlock,
                    MemoryFault, TakeEvent, RecordEvent, DrainRing, CountStep,
                    StartRun, code_vars, chain_vars
<1>7. CASE UNCHANGED vars
  BY <1>1, <1>7 DEF vars, code_vars, chain_vars
<1> QED
  BY <1>2, <1>3, <1>4, <1>5, <1>6, <1>7 DEF Next, RunStep

(* Where the called block can be missing. *)
CallerKnown ==
    /\ phase = "native" => pc \in blocks
    /\ phase \in {"settle", "evict", "route"} /\ pc \notin blocks =>
           \A t \in Pc : hot_edges[<<pc, t>>] = 0

LEMMA CallerStaysKnown ==
    ASSUME Typed, RegInv, [Next]_vars
    PROVE  CallerKnown'
<1> USE DEF RegInv, CallerKnown
<1>1. phase' \in {"idle", "fetch", "crashed"} => CallerKnown'
  OBVIOUS
<1>2. CASE /\ UNCHANGED <<pc, blocks, hot_edges>>
           /\ phase' = "native" => phase = "native" \/ pc' \in blocks'
           /\ phase \in {"native", "settle", "evict", "route"}
  BY <1>2 DEF Typed, RunTyped, Phases
<1>3. CASE \E b \in Pc : Invalidate(b) \/ Evict(b)
  BY <1>1, <1>3 DEF Invalidate, Evict, Idle, run_vars
<1>4. CASE \E value \in BOOLEAN : SetChainingEnabled(value)
                               \/ SetNativePatchChaining(value)
  BY <1>1, <1>4 DEF SetChainingEnabled, SetNativePatchChaining, Idle, run_vars
<1>5. CASE (\E entry \in Pc : StartRun(entry)) \/ StepLimit \/ CompileMissing
           \/ MemoryFault
  BY <1>1, <1>5 DEF StartRun, StepLimit, CompileMissing, MemoryFault, ReturnErr,
                    Return, run_vars
<1>6. CASE CallBlock
  BY <1>1, <1>6 DEF CallBlock, ReturnErr, Return, code_vars
<1>7. CASE ExecuteBlock
  BY <1>1, <1>2, <1>7 DEF ExecuteBlock, code_vars, chain_vars
<1>8. CASE TakeEvent \/ RecordEvent \/ DrainRing \/ CountStep
  BY <1>1, <1>2, <1>8 DEF TakeEvent, RecordEvent, DrainRing, CountStep, ReturnErr,
                          Return, code_vars, chain_vars
<1>9. ASSUME NEW b \in Pc, EvictStale(b) PROVE CallerKnown'
  <2>1. CASE EvictOk(b) /\ UNCHANGED <<phase, pc>>
    <3>1. \A s, t \in Pc : hot_edges'[<<s, t>>] =
              IF s = b \/ t = b THEN 0 ELSE hot_edges[<<s, t>>]
      BY <2>1, ChainsCut DEF EvictOk, Unlink
    <3>2. phase = "evict" /\ pc \in Pc
      BY <1>9 DEF EvictStale, Typed, InRun
    <3> QED
      BY <2>1, <3>1, <3>2 DEF EvictOk
  <2> QED
    BY <1>1, <1>9, <2>1 DEF EvictStale, ReturnErr, Return
<1>10. CASE Route
  BY <1>1, <1>10, RouteStep DEF Return
<1>11. CASE UNCHANGED vars
  BY <1>11 DEF vars, run_vars, code_vars, chain_vars
<1> QED
  BY <1>3, <1>4, <1>5, <1>6, <1>7, <1>8, <1>9, <1>10, <1>11 DEF Next, RunStep

(* Software chains only ever connect registered blocks, with the code's    *)
(* threshold DEFAULT_CHAIN_THRESHOLD = 2 or any larger one; with 1 a block *)
(* evicted by its own store would be chained again at once.                *)
THEOREM SoftChainsAlwaysRegistered ==
    ASSUME Threshold >= 2
    PROVE  Spec => []SoftChainsRegistered
<1>1. Init => RegInv
  <2> SUFFICES ASSUME Init PROVE RegInv
    OBVIOUS
  <2>1. ChainTheorems!Init
    BY DEF Init, Chains!Init, Chains!NoEdges, Chains!NoChains, Chains!NoSources,
           ChainTheorems!Init, ChainTheorems!NoEdges, ChainTheorems!NoChains,
           ChainTheorems!NoSources
  <2>2. ChainTheorems!Inv
    BY <2>1, InitTyped, SameOperators, CacheAssumptions,
       ChainTheorems!InitEstablishesInv DEF ChainTheorems!Inv, Typed
  <2> QED
    BY <2>2 DEF Init, Chains!Init, Chains!NoChains, RegInv, SoftChainsRegistered
<1>2. Typed /\ RegInv /\ [Next]_vars => RegInv'
  <2> SUFFICES ASSUME Typed, RegInv, [Next]_vars PROVE RegInv'
    OBVIOUS
  <2>1. ChainTheorems!Inv'
    BY EveryChainStep, ChainsStayExact DEF RegInv
  <2> QED
    BY <2>1, ChainsStayRegistered, CallerStaysKnown DEF RegInv, CallerKnown
<1>3. RegInv => SoftChainsRegistered
  BY DEF RegInv
<1> QED
  BY <1>1, <1>2, <1>3, InitTyped, StepTyped, PTL DEF Spec

-----------------------------------------------------------------------------
(* The pages of a list of events. *)
Elements(s) == {s[i] : i \in 1..Len(s)}

LEMMA ElementsOfNothing == Elements(<<>>) = {}
BY DEF Elements

LEMMA ElementsAppended ==
    ASSUME NEW S, NEW s \in Seq(S), NEW e \in S
    PROVE  Elements(s) \cup {e} \subseteq Elements(Append(s, e))
<1> DEFINE app == Append(s, e)
<1>1. /\ Len(s) \in Nat /\ Len(app) = Len(s) + 1
      /\ \A i \in 1..Len(s) : app[i] = s[i]
      /\ app[Len(s) + 1] = e
  BY AppendProperties, LenProperties
<1> HIDE DEF app
<1>2. Elements(s) \cup {e} \subseteq Elements(app)
  BY <1>1 DEF Elements
<1> QED
  BY <1>2 DEF app

LEMMA ElementsOfTail ==
    ASSUME NEW S, NEW s \in Seq(S), s # <<>>
    PROVE  Elements(s) \subseteq Elements(Tail(s)) \cup {Head(s)}
<1> DEFINE tl == Tail(s)
<1>1. /\ Len(s) \in Nat /\ Len(tl) = Len(s) - 1
      /\ \A i \in 1..(Len(s) - 1) : tl[i] = s[i + 1]
  BY HeadTailProperties, LenProperties, EmptySeq
<1>2. Head(s) = s[1]
  OBVIOUS
<1> HIDE DEF tl
<1>3. ASSUME NEW i \in 1..Len(s)
      PROVE  s[i] \in Elements(tl) \cup {Head(s)}
  <2>1. CASE i = 1
    BY <1>2, <2>1
  <2>2. CASE i # 1
    <3>1. i - 1 \in 1..(Len(s) - 1) /\ (i - 1) + 1 = i
      BY <1>1, <2>2
    <3>2. tl[i - 1] = s[i]
      BY <1>1, <3>1
    <3> QED
      BY <1>1, <3>1, <3>2 DEF Elements
  <2> QED
    BY <2>1, <2>2
<1>4. Elements(s) \subseteq Elements(tl) \cup {Head(s)}
  BY <1>3 DEF Elements
<1> QED
  BY <1>4 DEF tl

(* The two events of a slow-path store. *)
LEMMA ElementsOfStore ==
    ASSUME NEW S, NEW s \in Seq(S), NEW d \in S, NEW e \in S
    PROVE  Elements(s) \cup {e} \subseteq Elements(s \o <<d, e>>)
<1> DEFINE both == s \o <<d, e>>
<1>1. /\ Len(s) \in Nat /\ Len(both) = Len(s) + 2
      /\ \A i \in 1..Len(s) : both[i] = s[i]
      /\ both[Len(s) + 2] = e
  OBVIOUS
<1> HIDE DEF both
<1>2. Elements(s) \cup {e} \subseteq Elements(both)
  BY <1>1 DEF Elements
<1> QED
  BY <1>2 DEF both

-----------------------------------------------------------------------------
(* Where the eviction of a stale block is still owed: the block is among   *)
(* those being evicted, or its page is in an event not yet handled.        *)
Owed(b) == \/ b \in evicting
           \/ PageOf[b] \in Elements(pending)
           \/ PageOf[b] \in Elements(ring)

OwesAll == \A b \in stale : CodePages[b] = {PageOf[b]} => Owed(b)

(* Nothing is owed outside the part of the loop that settles the events,   *)
(* and the ring is empty from the moment it is drained to the next block.  *)
NothingLeft ==
    /\ phase \in {"idle", "fetch", "route"} => pending = <<>> /\ ring = <<>>
    /\ phase = "native" => ~drained
    /\ phase \in {"settle", "evict"} /\ drained => ring = <<>>

StaleInv == ~erred => OwesAll /\ NothingLeft

LEMMA ErrorsStay ==
    ASSUME Typed, [Next]_vars
    PROVE  erred => erred'
<1>1. CASE UNCHANGED erred
  BY <1>1
<1>2. CASE \E b \in Pc : Invalidate(b) \/ Evict(b) \/ EvictStale(b)
  BY <1>2 DEF Invalidate, Evict, EvictStale, ReturnErr
<1>3. CASE \E value \in BOOLEAN : SetChainingEnabled(value)
                               \/ SetNativePatchChaining(value)
  BY <1>3 DEF SetChainingEnabled, SetNativePatchChaining, RestoreEverything
<1>4. CASE Route
  BY <1>4, RouteStep
<1>5. CASE StepLimit \/ CallBlock \/ CompileMissing \/ ExecuteBlock
           \/ MemoryFault \/ TakeEvent \/ RecordEvent \/ DrainRing \/ CountStep
           \/ \E entry \in Pc : StartRun(entry)
  BY <1>5 DEF StepLimit, CallBlock, CompileMissing, ExecuteBlock, MemoryFault,
              TakeEvent, RecordEvent, DrainRing, CountStep, StartRun, ReturnErr
<1>6. CASE UNCHANGED vars
  BY <1>1, <1>6 DEF vars
<1> QED
  BY <1>2, <1>3, <1>4, <1>5, <1>6 DEF Next, RunStep

LEMMA StoreIsOwed ==
    ASSUME Typed, OwesAll, NEW p \in Page, NEW seen, Stored(p, seen),
           UNCHANGED evicting
    PROVE  OwesAll'
<1>1. /\ Elements(pending) \subseteq Elements(pending')
      /\ Elements(ring) \subseteq Elements(ring')
      /\ p \in Elements(pending') \cup Elements(ring')
  <2>1. CASE pending' = pending \o <<NoPage, p>> /\ UNCHANGED ring
    <3>1. Elements(pending) \cup {p} \subseteq Elements(pending \o <<NoPage, p>>)
      BY ElementsOfStore DEF Typed, RunTyped
    <3> QED
      BY <2>1, <3>1
  <2>2. CASE ring' = Append(ring, p) /\ UNCHANGED pending
    <3>1. Elements(ring) \cup {p} \subseteq Elements(Append(ring, p))
      BY ElementsAppended DEF Typed, OtherTyped
    <3> QED
      BY <2>2, <3>1
  <2> QED
    BY <2>1, <2>2 DEF Stored
<1>2. ASSUME NEW b \in stale', CodePages[b] = {PageOf[b]} PROVE Owed(b)'
  <2>1. CASE b \in stale
    BY <1>1, <1>2, <2>1 DEF OwesAll, Owed
  <2>2. CASE p \in CodePages[b]
    BY <1>1, <1>2, <2>2 DEF Owed
  <2> QED
    BY <2>1, <2>2 DEF Stored
<1> QED
  BY <1>2 DEF OwesAll

LEMMA EventsAreSettled ==
    ASSUME Typed, OwesAll, NothingLeft,
           TakeEvent \/ DrainRing \/ CountStep
    PROVE  ReturnErr \/ (OwesAll' /\ NothingLeft')
<1> USE DEF Typed, Waiting
<1>1. CASE TakeEvent
  <2>1. /\ pending \in Seq(Page \cup {NoPage}) /\ pending # <<>>
        /\ evicting = {} /\ phase = "settle" /\ phase' = "evict"
        /\ evicting' = {b \in blocks : PageOf[b] = Head(pending)}
        /\ pending' = Tail(pending)
        /\ UNCHANGED <<ring, stale, drained>>
    BY <1>1 DEF TakeEvent, RunTyped
  <2>2. Elements(pending) \subseteq Elements(Tail(pending)) \cup {Head(pending)}
    BY <2>1, ElementsOfTail
  <2>3. OwesAll'
    BY <2>1, <2>2 DEF OwesAll, Owed
  <2> QED
    BY <2>1, <2>3 DEF NothingLeft
<1>2. CASE DrainRing
  <2>1. /\ pending = <<>> /\ pending' = ring /\ ring' = <<>>
        /\ phase' = "settle" /\ UNCHANGED <<evicting, stale>>
    BY <1>2 DEF DrainRing
  <2>2. OwesAll'
    BY <2>1, ElementsOfNothing DEF OwesAll, Owed
  <2> QED
    BY <2>1, <2>2 DEF NothingLeft
<1>3. CASE CountStep
  <2>1. /\ phase = "settle" /\ pending = <<>> /\ ring = <<>> /\ evicting = {}
        /\ UNCHANGED <<ring, stale>> /\ pending' = <<>>
        /\ phase' \in {"idle", "route"}
    BY <1>3 DEF CountStep, Return, NothingLeft
  <2>2. \A b \in stale : CodePages[b] # {PageOf[b]}
    BY <2>1, ElementsOfNothing DEF OwesAll, Owed
  <2> QED
    BY <2>1, <2>2 DEF OwesAll, NothingLeft
<1> QED
  BY <1>1, <1>2, <1>3

LEMMA StaleStays ==
    ASSUME Typed, StaleInv, [Next]_vars
    PROVE  StaleInv'
<1> SUFFICES ASSUME ~erred' PROVE OwesAll' /\ NothingLeft'
  BY DEF StaleInv
<1>1. OwesAll /\ NothingLeft /\ ~ReturnErr
  BY ErrorsStay DEF StaleInv, ReturnErr
<1> USE <1>1
<1>2. ASSUME UNCHANGED <<evicting, pending, ring>>, stale' \subseteq stale
      PROVE  OwesAll'
  BY <1>2 DEF OwesAll, Owed
<1>3. ASSUME UNCHANGED <<run_vars, ring>>, stale' \subseteq stale
      PROVE  OwesAll' /\ NothingLeft'
  BY <1>2, <1>3 DEF run_vars, NothingLeft
<1>4. CASE \E b \in Pc : Invalidate(b) \/ Evict(b)
  BY <1>3, <1>4 DEF Invalidate, Evict, Idle, InvalidateOk, EvictOk
<1>5. CASE \E value \in BOOLEAN : SetChainingEnabled(value)
                               \/ SetNativePatchChaining(value)
  BY <1>3, <1>5 DEF SetChainingEnabled, SetNativePatchChaining, Idle,
                    RestoreEverything
<1>6. CASE \E entry \in Pc : StartRun(entry)
  BY <1>2, <1>6 DEF StartRun, NothingLeft
<1>7. ASSUME phase = "fetch", Return, UNCHANGED <<ring, stale>>
      PROVE  OwesAll' /\ NothingLeft'
  <2>1. evicting = {} /\ pending = <<>> /\ ring = <<>>
    BY <1>7 DEF Typed, Waiting, NothingLeft
  <2> QED
    BY <1>2, <1>7, <2>1 DEF Return, NothingLeft
<1>8. CASE StepLimit
  BY <1>7, <1>8 DEF StepLimit
<1>9. CASE CallBlock
  BY <1>2, <1>9 DEF CallBlock, NothingLeft
<1>10. CASE CompileMissing
  BY <1>3, <1>7, <1>10 DEF CompileMissing
<1>11. CASE ExecuteBlock
  <2>1. phase' \in {"native", "settle", "crashed"} /\ ~drained /\ ~drained'
    BY <1>11 DEF ExecuteBlock, NothingLeft
  <2>2. UNCHANGED evicting /\ Store
    BY <1>11 DEF ExecuteBlock
  <2>3. OwesAll'
    BY <1>2, <2>2, StoreIsOwed DEF Store
  <2> QED
    BY <2>1, <2>3 DEF NothingLeft
<1>12. CASE MemoryFault
  BY <1>12 DEF MemoryFault
<1>13. CASE TakeEvent \/ DrainRing \/ CountStep
  BY <1>13, EventsAreSettled
<1>14. ASSUME NEW b \in Pc, EvictStale(b) PROVE OwesAll' /\ NothingLeft'
  <2>1. /\ stale' = stale \ {b} /\ evicting' = evicting \ {b}
        /\ UNCHANGED <<phase, pending, drained, ring>>
    BY <1>14 DEF EvictStale, EvictOk
  <2> QED
    BY <2>1 DEF OwesAll, Owed, NothingLeft
<1>15. CASE RecordEvent
  BY <1>2, <1>15 DEF RecordEvent, NothingLeft
<1>16. CASE Route
  <2>1. phase = "route" /\ phase' = "fetch"
        /\ UNCHANGED <<evicting, pending, ring, stale>>
    BY <1>16, RouteStep DEF Route, ReturnErr
  <2> QED
    BY <1>2, <2>1 DEF NothingLeft
<1>17. CASE UNCHANGED vars
  BY <1>3, <1>17 DEF vars
<1> QED
  BY <1>4, <1>5, <1>6, <1>8, <1>9, <1>10, <1>11, <1>12, <1>13, <1>14, <1>15,
     <1>16, <1>17 DEF Next, RunStep

(* Unless something returned an error, no block on a single page is looked *)
(* up after a write to that page: every event, from the slow path or from  *)
(* the signal handler, is settled before the next block is called.         *)
THEOREM StaleAlwaysEvicted == Spec => []StaleEvicted
<1>1. Init => StaleInv
  BY DEF Init, StaleInv, OwesAll, NothingLeft
<1>2. Typed /\ StaleInv => StaleEvicted
  BY ElementsOfNothing
  DEF Typed, Waiting, StaleInv, OwesAll, Owed, NothingLeft, StaleEvicted
<1> QED
  BY <1>1, <1>2, StaleStays, InitTyped, StepTyped, PTL DEF Spec
=============================================================================
