----------------------------- MODULE Dispatcher -----------------------------
(***************************************************************************)
(* The multi-block dispatcher, Dispatcher of                               *)
(* crates/nx86-backend/src/dispatch.rs: a registry of native blocks keyed  *)
(* by guest entry PC, the lookup / call / route loop, software chains      *)
(* (ChainCache), experimental native exit patching, eviction after         *)
(* self-modifying writes, and emergency-JIT recompilation.                 *)
(*                                                                         *)
(* The dispatcher is single threaded, so a call of its public operations   *)
(* is one step while no run is in progress.  A run is split into one step  *)
(* per native block executed and per event handled, because each can fail  *)
(* and the failure leaves whatever was done so far.                        *)
(*                                                                         *)
(* A block is known by its entry PC.  A lowered block that ends in an      *)
(* unconditional Branch has one patchable exit; every other block, and     *)
(* every block the JIT or the object cache supplies, has none.  Machine    *)
(* code is reduced to what its exit slot does: return, jump into the live  *)
(* mapping of the successor, or jump into a mapping that has been freed.   *)
(***************************************************************************)
EXTENDS Naturals, Sequences

CONSTANTS
  Pc,           \* guest entry PCs, ordered as addresses
  NoPc,         \* "no block", "no successor"
  Page,         \* guest pages holding code
  PageOf,       \* PageOf[pc]: the page of a block's entry PC
  CodePages,    \* CodePages[pc]: the pages its guest instructions lie on
  NoPage,       \* a profile event that is not an SMC invalidation
  Programs,     \* guest functions: records of succ (NoPc: the block halts)
                \* and branch (the blocks that end in Branch)
  NativeGate,   \* the native-patch-chaining feature on Linux x86_64
  PatchErrors,  \* the stages at which mprotect may fail while patching
  MaxSteps,     \* max_steps of a run
  MaxRing,      \* bound: undrained signal-handler events
  Threshold, CountMax

ASSUME PcAssumption == /\ Pc \subseteq Nat
                       /\ NoPc \notin Pc
                       /\ NoPage \notin Page
                       /\ PageOf \in [Pc -> Page]
                       /\ CodePages \in [Pc -> SUBSET Page]
                       /\ \A pc \in Pc : PageOf[pc] \in CodePages[pc]
ASSUME ProgramAssumption ==
    /\ Programs \subseteq [succ : [Pc -> Pc \cup {NoPc}], branch : SUBSET Pc]
    /\ \A prog \in Programs : \A block \in prog.branch : prog.succ[block] # NoPc
ASSUME CountAssumption == /\ Threshold \in Nat
                          /\ CountMax \in Nat \ {0}
                          /\ Threshold <= CountMax
ASSUME GateAssumption ==
    /\ NativeGate \in BOOLEAN
    /\ PatchErrors \subseteq {"MakeWritable", "RestoreExecutable"}
    /\ MaxSteps \in Nat

VARIABLES
  program,                \* the guest function; never changes
  blocks,                 \* registered entry PCs
  exits,                  \* blocks with a chain exit
  patched,                \* exits whose ChainExit.patched flag is set
  slot,                   \* what the exit slot's machine code does
  poisoned,               \* mappings quarantined after a failed RX restore
  native_patch_chaining,
  native_incoming,        \* target -> sources patched into it
  enabled, hot_edges, direct_chains, incoming,   \* the ChainCache
  phase,                  \* where the run loop is
  pc,                     \* the block the dispatcher called
  guest_pc,               \* native.pc: executing block, then next block
  patched_successor,      \* read before the call
  halted,
  pending,                \* events left to handle: an SMC page or NoPage
  drained,                \* the signal ring was drained in this iteration
  ring,                   \* undrained signal-handler events
  evicting,               \* blocks left to evict for the current event
  steps,
  stale,                  \* history: blocks whose page was written since
  erred                   \* history: some run or operation returned Err

chain_vars == <<enabled, hot_edges, direct_chains, incoming>>
code_vars == <<blocks, exits, patched, slot, poisoned, native_incoming>>
run_vars == <<phase, pc, guest_pc, patched_successor, halted, pending, drained,
              evicting, steps>>
vars == <<program, code_vars, native_patch_chaining, chain_vars, run_vars,
          ring, stale, erred>>

Chains == INSTANCE ChainCache

Successor(block) == program.succ[block]
Phases == {"idle", "fetch", "native", "settle", "evict", "route", "crashed"}
Slots == {"ret", "live", "freed"}

TypeOK ==
  /\ program \in Programs
  /\ blocks \in SUBSET Pc
  /\ exits \in SUBSET blocks
  /\ patched \in SUBSET exits
  /\ slot \in [Pc -> Slots]
  /\ poisoned \in SUBSET blocks
  /\ native_patch_chaining \in BOOLEAN
  /\ native_incoming \in [Pc -> SUBSET Pc]
  /\ Chains!TypeOK
  /\ phase \in Phases
  /\ pc \in Pc \cup {NoPc}
  /\ guest_pc \in Pc \cup {NoPc}
  /\ patched_successor \in Pc \cup {NoPc}
  /\ halted \in BOOLEAN
  /\ pending \in Seq(Page \cup {NoPage})
  /\ drained \in BOOLEAN
  /\ ring \in Seq(Page)
  /\ evicting \in SUBSET blocks
  /\ steps \in 0..MaxSteps
  /\ stale \in SUBSET blocks
  /\ erred \in BOOLEAN

(* from_function registers every block with its exit metadata;             *)
(* from_objects registers whichever cached blocks it is given, without.    *)
Init ==
  /\ program \in Programs
  /\ \/ blocks = Pc /\ exits = program.branch
     \/ blocks \in SUBSET Pc \ {{}} /\ exits = {}
  /\ patched = {}
  /\ slot = [p \in Pc |-> "ret"]
  /\ poisoned = {}
  /\ native_patch_chaining \in BOOLEAN
  /\ native_incoming = [t \in Pc |-> {}]
  /\ Chains!Init
  /\ phase = "idle"
  /\ pc = NoPc
  /\ guest_pc = NoPc
  /\ patched_successor = NoPc
  /\ halted = FALSE
  /\ pending = <<>>
  /\ drained = FALSE
  /\ ring = <<>>
  /\ evicting = {}
  /\ steps = 0
  /\ stale = {}
  /\ erred = FALSE

-----------------------------------------------------------------------------
(* ExecutableMemory::patch either rewrites the slot, fails before touching *)
(* it (MakeWritable, or the mapping is already quarantined), or rewrites   *)
(* it, cannot make it executable again and quarantines the mapping.        *)
PatchRefused(source) == \/ source \in poisoned
                        \/ "MakeWritable" \in PatchErrors
PatchQuarantines(source) == /\ source \notin poisoned
                            /\ "RestoreExecutable" \in PatchErrors

(* Mutant: restoring an exit forgets the reverse index. *)
IncomingForgotten(restored) == native_incoming

(* native_incoming without the exits just restored. *)
IncomingAfter(restored) ==
    [t \in Pc |-> native_incoming[t] \ {s \in restored : Successor(s) = t}]

SlotsAfter(restored) ==
    [s \in Pc |-> IF s \in restored THEN "ret" ELSE slot[s]]

(* restore_native_exits over the patched exits of these sources, when every *)
(* patch succeeds.                                                         *)
RestoreOk(sources) == /\ sources \cap poisoned = {}
                      /\ patched' = patched \ sources

(* The same, stopping at the first patch that fails.  The sources come     *)
(* from a hash set, so any of them may have been restored by then.         *)
RestoreFails(sources) ==
    \E failing \in sources, restored \in SUBSET sources :
        /\ restored \cap ({failing} \cup poisoned) = {}
        /\ patched' = patched \ restored
        /\ native_incoming' = IncomingAfter(restored)
        /\ \/ /\ PatchRefused(failing)
              /\ slot' = SlotsAfter(restored)
              /\ UNCHANGED poisoned
           \/ /\ PatchQuarantines(failing)
              /\ slot' = SlotsAfter(restored \cup {failing})
              /\ poisoned' = poisoned \cup {failing}
        /\ UNCHANGED <<blocks, exits, native_patch_chaining, chain_vars, stale>>

(* Mutant: only the block's own exit is restored. *)
OwnExit(block) == patched \cap {block}

(* The patched exits that enter or leave a block. *)
PatchedAround(block) ==
    {s \in patched \cap (native_incoming[block] \cup {block}) :
        s = block \/ Successor(s) = block}

(* Mutant: the software chains of the block stay. *)
UnlinkNativeOnly(block) ==
    /\ RestoreOk(PatchedAround(block))
    /\ native_incoming' =
         [t \in Pc |-> IF t = block THEN {}
                       ELSE IncomingAfter(PatchedAround(block))[t] \ {block}]
    /\ UNCHANGED <<chain_vars, native_patch_chaining>>

(* What invalidate(block) does once every exit is restored. *)
Unlink(block) ==
    /\ RestoreOk(PatchedAround(block))
    /\ native_incoming' =
         [t \in Pc |-> IF t = block THEN {}
                       ELSE IncomingAfter(PatchedAround(block))[t] \ {block}]
    /\ Chains!Invalidate(block)
    /\ UNCHANGED native_patch_chaining

InvalidateOk(block) ==
    /\ Unlink(block)
    /\ slot' = SlotsAfter(PatchedAround(block))
    /\ UNCHANGED <<blocks, exits, poisoned, stale>>

(* Mutant: the block goes but what is known about it stays. *)
EvictRegistryOnly(block) ==
    /\ Unlink(block)
    /\ slot' = SlotsAfter(PatchedAround(block))
    /\ blocks' = blocks \ {block}
    /\ UNCHANGED <<exits, poisoned, stale>>

(* evict(block): removing the block unmaps its code, so a slot that still  *)
(* jumps there jumps into freed memory from then on.                       *)
EvictOk(block) ==
    /\ Unlink(block)
    /\ slot' = [s \in Pc |->
         CASE s = block -> "ret"
           [] s # block /\ slot[s] = "live" /\ Successor(s) = block
                /\ s \notin PatchedAround(block) -> "freed"
           [] OTHER -> SlotsAfter(PatchedAround(block))[s]]
    /\ blocks' = blocks \ {block}
    /\ exits' = exits \ {block}
    /\ poisoned' = poisoned \ {block}
    /\ stale' = stale \ {block}

-----------------------------------------------------------------------------
(* The public operations, while no run borrows the dispatcher. *)
Idle == /\ phase = "idle"
        /\ UNCHANGED <<program, run_vars, ring>>

Invalidate(block) ==
    /\ Idle
    /\ \/ InvalidateOk(block) /\ UNCHANGED erred
       \/ RestoreFails(PatchedAround(block)) /\ erred' = TRUE

Evict(block) ==
    /\ Idle
    /\ \/ EvictOk(block) /\ UNCHANGED erred
       \/ RestoreFails(PatchedAround(block)) /\ erred' = TRUE

(* restore_all_native_exits, when every patch succeeds. *)
RestoreEverything ==
    /\ RestoreOk(patched)
    /\ slot' = SlotsAfter(patched)
    /\ native_incoming' = [t \in Pc |-> {}]
    /\ UNCHANGED <<blocks, exits, poisoned, stale, erred>>

(* set_chaining_enabled: the native exits are restored before the switch   *)
(* moves, and a failure leaves it where it was.                            *)
SetChainingEnabled(value) ==
    /\ Idle
    /\ \/ /\ value
          /\ Chains!SetEnabled(TRUE)
          /\ UNCHANGED <<code_vars, native_patch_chaining, stale, erred>>
       \/ /\ ~value
          /\ \/ /\ RestoreEverything
                /\ native_patch_chaining' = FALSE
                /\ Chains!SetEnabled(FALSE)
             \/ RestoreFails(patched) /\ erred' = TRUE

(* set_native_patch_chaining *)
SetNativePatchChaining(value) ==
    /\ Idle
    /\ \/ /\ value
          /\ native_patch_chaining' = TRUE
          /\ UNCHANGED <<code_vars, chain_vars, stale, erred>>
       \/ /\ ~value
          /\ \/ /\ RestoreEverything
                /\ native_patch_chaining' = FALSE
                /\ UNCHANGED chain_vars
             \/ RestoreFails(patched) /\ erred' = TRUE

-----------------------------------------------------------------------------
(* run_with_memory.  The locals of a run die with it; the memory context's *)
(* pending events are among them.                                          *)
Return == /\ phase' = "idle"
          /\ pc' = NoPc
          /\ guest_pc' = NoPc
          /\ patched_successor' = NoPc
          /\ halted' = FALSE
          /\ pending' = <<>>
          /\ drained' = FALSE
          /\ evicting' = {}
          /\ steps' = 0

ReturnErr == Return /\ erred' = TRUE

StartRun(entry) ==
    /\ phase = "idle"
    /\ phase' = "fetch"
    /\ guest_pc' = entry
    /\ UNCHANGED <<program, code_vars, native_patch_chaining, chain_vars, pc,
                   patched_successor, halted, pending, drained, evicting,
                   steps, ring, stale, erred>>

StepLimit ==
    /\ phase = "fetch"
    /\ steps = MaxSteps
    /\ Return
    /\ UNCHANGED <<program, code_vars, native_patch_chaining, chain_vars,
                   ring, stale, erred>>

(* call_generated_block refuses a quarantined mapping. *)
CallBlock ==
    /\ phase = "fetch"
    /\ steps < MaxSteps
    /\ guest_pc \in blocks
    /\ \/ /\ guest_pc \in poisoned
          /\ ReturnErr
       \/ /\ guest_pc \notin poisoned
          /\ phase' = "native"
          /\ pc' = guest_pc
          /\ patched_successor' = IF guest_pc \in patched
                                    THEN Successor(guest_pc) ELSE NoPc
          /\ drained' = FALSE
          /\ UNCHANGED <<guest_pc, halted, pending, evicting, steps, erred>>
    /\ UNCHANGED <<program, code_vars, native_patch_chaining, chain_vars,
                   ring, stale>>

(* A missing block: no JIT (or no such source block), a compilation,       *)
(* profile or allocation failure, or a fresh block without patch metadata. *)
CompileMissing ==
    /\ phase = "fetch"
    /\ steps < MaxSteps
    /\ guest_pc \notin blocks
    /\ \/ Return /\ UNCHANGED <<blocks, erred>>
       \/ ReturnErr /\ UNCHANGED blocks
       \/ /\ blocks' = blocks \cup {guest_pc}
          /\ UNCHANGED <<run_vars, erred>>
    /\ UNCHANGED <<program, exits, patched, slot, poisoned, native_incoming,
                   native_patch_chaining, chain_vars, ring, stale>>

(* What a block may do to code pages: nothing, or one store (bound), seen  *)
(* by the slowmem callback or by the SIGSEGV handler.                      *)
Stored(page, seen) ==
    /\ stale' = stale \cup {b \in blocks : page \in CodePages[b]}
    /\ \/ /\ seen = "slowmem"
          /\ pending' = pending \o <<NoPage, page>>
          /\ UNCHANGED ring
       \/ /\ seen = "signal"
          /\ Len(ring) < MaxRing
          /\ ring' = Append(ring, page)
          /\ UNCHANGED pending

Store == \/ \E page \in Page, seen \in {"slowmem", "signal"} : Stored(page, seen)
         \/ UNCHANGED <<stale, pending, ring>>

(* One native block runs to its exit: it halts or returns to the           *)
(* dispatcher, or its patched slot jumps straight into the successor.      *)
ExecuteBlock ==
    /\ phase = "native"
    /\ Store
    /\ \/ /\ slot[guest_pc] = "ret"
          /\ phase' = "settle"
          /\ halted' = (Successor(guest_pc) = NoPc)
          /\ guest_pc' = IF halted' THEN guest_pc ELSE Successor(guest_pc)
       \/ /\ slot[guest_pc] = "live"
          /\ Successor(guest_pc) \notin poisoned
          /\ guest_pc' = Successor(guest_pc)
          /\ UNCHANGED <<phase, halted>>
       \/ /\ \/ slot[guest_pc] = "freed"
             \/ slot[guest_pc] = "live" /\ Successor(guest_pc) \in poisoned
          /\ phase' = "crashed"
          /\ UNCHANGED <<guest_pc, halted>>
    /\ UNCHANGED <<program, code_vars, native_patch_chaining, chain_vars, pc,
                   patched_successor, drained, evicting, steps, erred>>

(* A memory fault side-exits the executing block.  The run returns before  *)
(* any event is looked at.                                                 *)
MemoryFault ==
    /\ phase = "native"
    /\ \/ UNCHANGED <<stale, ring>>
       \/ \E page \in Page :
            /\ stale' = stale \cup {b \in blocks : page \in CodePages[b]}
            /\ \/ UNCHANGED ring
               \/ Len(ring) < MaxRing /\ ring' = Append(ring, page)
    /\ ReturnErr
    /\ UNCHANGED <<program, code_vars, native_patch_chaining, chain_vars>>

(* Mutant: only the block that was called is looked at. *)
TakeEventOfCaller ==
    /\ phase = "settle"
    /\ pending # <<>>
    /\ phase' = "evict"
    /\ evicting' = {b \in blocks : b = pc /\ PageOf[b] = Head(pending)}
    /\ pending' = Tail(pending)
    /\ UNCHANGED <<program, code_vars, native_patch_chaining, chain_vars, pc,
                   guest_pc, patched_successor, halted, drained, steps, ring,
                   stale, erred>>

(* The next event: the blocks whose entry PC is on the written page go.    *)
TakeEvent ==
    /\ phase = "settle"
    /\ pending # <<>>
    /\ phase' = "evict"
    /\ evicting' = {b \in blocks : PageOf[b] = Head(pending)}
    /\ pending' = Tail(pending)
    /\ UNCHANGED <<program, code_vars, native_patch_chaining, chain_vars, pc,
                   guest_pc, patched_successor, halted, drained, steps, ring,
                   stale, erred>>

EvictStale(block) ==
    /\ phase = "evict"
    /\ block \in evicting
    /\ \/ /\ EvictOk(block)
          /\ evicting' = evicting \ {block}
          /\ UNCHANGED <<phase, pc, guest_pc, patched_successor, halted,
                         pending, drained, steps, erred>>
       \/ RestoreFails(PatchedAround(block)) /\ ReturnErr
    /\ UNCHANGED <<program, ring>>

(* record_profile of the event just handled. *)
RecordEvent ==
    /\ phase = "evict"
    /\ evicting = {}
    /\ \/ /\ phase' = "settle"
          /\ UNCHANGED <<pc, guest_pc, patched_successor, halted, pending,
                         drained, evicting, steps, erred>>
       \/ ReturnErr
    /\ UNCHANGED <<program, code_vars, native_patch_chaining, chain_vars,
                   ring, stale>>

(* drain_smc_events: the handler's events are taken off the ring at once.  *)
DrainRing ==
    /\ phase = "settle"
    /\ pending = <<>>
    /\ ~drained
    /\ drained' = TRUE
    /\ pending' = ring
    /\ ring' = <<>>
    /\ UNCHANGED <<program, code_vars, native_patch_chaining, chain_vars,
                   phase, pc, guest_pc, patched_successor, halted, evicting,
                   steps, stale, erred>>

(* Mutant: the step is not counted. *)
CountNoStep ==
    /\ phase = "settle" /\ pending = <<>> /\ drained
    /\ \/ halted /\ Return
       \/ /\ ~halted
          /\ phase' = "route"
          /\ UNCHANGED <<pc, guest_pc, patched_successor, halted, pending,
                         drained, evicting, steps>>
    /\ UNCHANGED <<program, code_vars, native_patch_chaining, chain_vars,
                   ring, stale, erred>>

(* All events handled: count the step and report a halt. *)
CountStep ==
    /\ phase = "settle"
    /\ pending = <<>>
    /\ drained
    /\ \/ halted /\ Return
       \/ /\ ~halted
          /\ phase' = "route"
          /\ steps' = steps + 1
          /\ UNCHANGED <<pc, guest_pc, patched_successor, halted, pending,
                         drained, evicting>>
    /\ UNCHANGED <<program, code_vars, native_patch_chaining, chain_vars,
                   ring, stale, erred>>

-----------------------------------------------------------------------------
(* Mutant: back edges may be patched. *)
MayInstallBackward(source, target) ==
    NativeGate /\ native_patch_chaining /\ enabled /\ target \in exits

(* try_install_native_chain: only a forward edge into a Branch block may   *)
(* be patched, so native execution cannot loop or swallow a halt.          *)
MayInstall(source, target) ==
    /\ NativeGate
    /\ native_patch_chaining
    /\ enabled
    /\ target > source
    /\ target \in exits

Installable(source, target) ==
    /\ MayInstall(source, target)
    /\ source \in exits \ patched
    /\ Successor(source) = target

(* No patch is installed, and the run goes on (rel32 out of range and a    *)
(* refused patch among the reasons).                                       *)
InstallDeclined(source, target) ==
    /\ \/ ~MayInstall(source, target)
       \/ /\ target \notin poisoned
          /\ ~Installable(source, target) \/ source \notin poisoned
    /\ phase' = "fetch"
    /\ UNCHANGED <<code_vars, erred, pc, guest_pc, patched_successor, halted,
                   pending, drained, evicting, steps>>

Install(source, target) ==
    /\ Installable(source, target)
    /\ {source, target} \cap poisoned = {}
    /\ patched' = patched \cup {source}
    /\ slot' = [slot EXCEPT ![source] = "live"]
    /\ native_incoming' = [native_incoming EXCEPT ![target] = @ \cup {source}]
    /\ phase' = "fetch"
    /\ UNCHANGED <<blocks, exits, poisoned, erred, pc, guest_pc,
                   patched_successor, halted, pending, drained, evicting,
                   steps>>

InstallFails(source, target) ==
    /\ \/ /\ MayInstall(source, target)
          /\ target \in poisoned \/ (Installable(source, target) /\ source \in poisoned)
          /\ UNCHANGED <<slot, poisoned>>
       \/ /\ Installable(source, target)
          /\ target \notin poisoned
          /\ PatchQuarantines(source)
          /\ slot' = [slot EXCEPT ![source] = "live"]
          /\ poisoned' = poisoned \cup {source}
    /\ ReturnErr
    /\ UNCHANGED <<blocks, exits, patched, native_incoming>>

TryInstall(source, target) == \/ InstallDeclined(source, target)
                              \/ Install(source, target)
                              \/ InstallFails(source, target)

NextIteration == /\ phase' = "fetch"
                 /\ UNCHANGED <<code_vars, erred, pc, guest_pc,
                                patched_successor, halted, pending, drained,
                                evicting, steps>>

(* The edge just taken is profiled, and then counted or followed.  A call  *)
(* that entered a native chain is not looked at any further.               *)
Route ==
    /\ phase = "route"
    /\ \/ /\ ReturnErr
          /\ UNCHANGED <<code_vars, chain_vars>>
       \/ /\ patched_successor # NoPc \/ guest_pc \notin blocks
          /\ NextIteration
          /\ UNCHANGED chain_vars
       \/ /\ patched_successor = NoPc
          /\ guest_pc \in blocks
          /\ Chains!Observe(pc, guest_pc)
          /\ IF Chains!Hit(pc, guest_pc) \/ Chains!Installs(pc, guest_pc)
               THEN TryInstall(pc, guest_pc) ELSE NextIteration
    /\ UNCHANGED <<program, native_patch_chaining, ring, stale>>

-----------------------------------------------------------------------------
RunStep == \/ StepLimit \/ CallBlock \/ CompileMissing \/ ExecuteBlock
           \/ MemoryFault \/ TakeEvent \/ RecordEvent \/ DrainRing \/ CountStep
           \/ Route
           \/ \E block \in Pc : EvictStale(block)

Next == \/ RunStep
        \/ \E entry \in Pc : StartRun(entry)
        \/ \E block \in Pc : Invalidate(block) \/ Evict(block)
        \/ \E value \in BOOLEAN : \/ SetChainingEnabled(value)
                                  \/ SetNativePatchChaining(value)

Spec == Init /\ [][Next]_vars

(* A run that has been started keeps executing. *)
FairSpec == Spec /\ WF_vars(RunStep)
-----------------------------------------------------------------------------
(* The reverse index of native patches is exact: source is listed under    *)
(* target precisely when source's exit is patched to jump there.  It is    *)
(* how invalidate() finds the exits it must restore, and it must survive   *)
(* every partial failure of restoring them.                                *)
NativeIncomingExact ==
    \A source, target \in Pc :
        (source \in native_incoming[target]) <=>
            (source \in patched /\ Successor(source) = target)

(* No callable block ever jumps into a mapping that was freed, or into one *)
(* that never was a forward Branch block; and unless a failed RX restore   *)
(* quarantined some mapping, the flag tells what the machine code does.    *)
NoWildJump ==
    \A source \in blocks \ poisoned :
        /\ slot[source] # "freed"
        /\ slot[source] = "live" =>
             /\ source \in patched
             /\ Successor(source) \in exits
             /\ Successor(source) > source

(* Disabling chaining is reported as successful only with every native     *)
(* exit restored: a debug run never enters a native chain.                 *)
DisabledMeansUnpatched ==
    ~enabled \/ ~native_patch_chaining => patched = {}

(* A software chain only connects registered blocks ("never cache a        *)
(* dangling chain"), though a block may be evicted between being executed  *)
(* and having its edge observed.                                           *)
SoftChainsRegistered ==
    \A source \in Pc :
        direct_chains[source] # NoPc =>
            {source, direct_chains[source]} \subseteq blocks

(* A block that halts was called by the dispatcher itself, never entered   *)
(* through a native chain, so its own halt reason is the one reported.     *)
HaltIsClassified ==
    halted => pc = guest_pc /\ patched_successor = NoPc

(* As long as nothing returned an error, every block that lies on a single *)
(* page has been evicted after a write to it before the dispatcher looks   *)
(* up the next one.                                                        *)
StaleEvicted ==
    phase = "fetch" /\ ~erred =>
        \A block \in stale : CodePages[block] # {PageOf[block]}

(* All blocks on affected pages are evicted, also those that only reach    *)
(* into a written page from the one before.                                *)
AffectedEvicted ==
    phase = "fetch" /\ ~erred => stale = {}

(* A quarantined mapping is out of reach: no callable block jumps into it. *)
QuarantineHolds ==
    \A source \in blocks \ poisoned :
        slot[source] = "live" => Successor(source) \notin poisoned

(* Every run ends: patched code cannot loop outside the step budget, and   *)
(* recompiling evicted blocks does not keep a run going either.            *)
RunTerminates == phase = "fetch" ~> phase \in {"idle", "crashed"}
=============================================================================
