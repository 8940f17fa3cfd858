# Nx86: a TLA+ model of the emulator

Nx86 translates guest ARM64 code to host x86-64 code ahead of time, runs the
translated blocks under a dispatcher, compiles missing blocks on demand, and
notices when the guest overwrites its own code. Around that core lie the object
and shader caches, the profile, the services offered to a guest, and a desktop
application that runs the translation in a worker process. This directory
models all of these. It follows the code under `src/crates`; where a document
or a comment says something else, `PROJECT.json` lists the difference under
`findings`.

## 1. Inventory

| Part | State | Operations | Talks to | What is hard | What makes it correct |
|---|---|---|---|---|---|
| Decoder, recovery (`nx86-arm64-decode`, `nx86-arm64-lift/src/recover.rs`) | worklist, leaders, decoded code | decode a word, recover blocks and functions | lifter, inspector | signed and scaled fields, ends of the address space | read back from its encoding; explores what the entries reach |
| Lifter, NxIR, verifier, optimiser (`nx86-arm64-lift`, `nx86-ir`, `nx86-ir-opt`) | none | lift, verify, drop dead flags | evaluator, back end | block starts, widths, flags read in another block | verifies; means what the guest code means |
| Interpreter, evaluator (`nx86-runtime`, `nx86-core/src/guest.rs`) | guest registers, flags, exclusive monitor | interpret, evaluate, compare | test suite | reference semantics, partial effects of a fault | three engines agree |
| x86-64 back end (`nx86-x64-v4`, `nx86-regalloc`) | frame, registers, chain slots | lower a block | JIT, AOT, dispatcher | spills, slowmem calls in mid-block, fast path | native result = IR result |
| Assembler (`nx86-x64-asm`) | bytes, labels, fixups, patch sites | emit, bind, finish | back end | special encodings, displacement forms | reads back as what was asked for |
| Chain cache (`nx86-backend/src/chain.rs`) | switch, edge counts, chains, reverse index | observe, hit, invalidate, set_enabled | called by the dispatcher | two maps kept in step by hand, saturation | index exact, chains hot |
| Dispatcher (`nx86-backend/src/dispatch.rs`) | block registry, chain exits, native incoming index, switches | run, invalidate, evict, switch chaining | chain cache, executable memory, guest memory, JIT, profile | every step may fail half way; patched code runs outside the loop | no jump into freed or wrong code, stale blocks evicted, runs end |
| Executable memory (`nx86-jit/src/lib.rs`) | mapping, quarantine flag | new, patch, call | dispatcher | mprotect fails between RW and RX | quarantined code is not run |
| Guest memory (`nx86-vmm/src/lib.rs`) | page table, arena and its protections, fastmem bytes, mirrors, generations | map, unmap, protect, mirror, read, write | slowmem callbacks, native code, handler | five descriptions of one address space; mprotect failures | fastmem never exceeds the host, mirrors share |
| Write-fault handler (`nx86-vmm/src/smc_signal.rs`) | page registry, two event rings, overflow flag | register, fault, drain, re-protect | guest memory, dispatcher | interrupts native code anywhere; rings fill up | no store to code goes unseen |
| Slowmem callbacks (`nx86-backend/src/lib.rs`) | pending events, failure, counters | read, write | guest memory, dispatcher | events lost on a fault | each store to code is reported |
| Profile (`nx86-profile`) | JSON-lines file, lock, known branch pairs | open, record, read | dispatcher, rebuild | crashes, torn lines, rollback, two processes | readable, nothing lost or repeated |
| Object and shader caches (`nx86-cache`, `nx86-object`, `nx86-shader/src/cache.rs`) | one file per object | insert, load, checks, remove, clear, scan | JIT, rebuild, shader pass, GUI | no lock; crash between file operations | only whole, inserted objects are served |
| Emergency JIT, rebuild, shader pass (`nx86-jit/src/emergency.rs`, `nx86-backend/src/lib.rs`, `nx86-shader/src/aot.rs`) | a job and its report | compile, rebuild, compile shaders, readiness | caches, profile, dispatcher | crash between cache and profile; files vanish under a report | reports are true; what is profiled was cached |
| Homebrew import (`nx86-import`) | guest memory under construction | parse, map | runtime | shared pages, ranges at the limits | memory as the file says |
| HLE, sessions (`nx86-hle`, `nx86-service`, boot in `nx86-runtime`) | session, domain and object tables; handles | supervisor calls, open, close, commands | audio | counts in headers, nested lifetimes, saturating handles | commands read once and whole; tables agree |
| Audio (`nx86-audio`) | queue of samples, counters | enqueue, device callback, mute | host device thread | full and empty queue between two threads | in order, each sample once |
| Scheduler (`nx86-scheduler`) | threads, turn, bounded replay log | run, tick, crash, analyse | none yet | quantum and work used up together; the log drops its oldest | turns in order, the log is the newest part |
| GUI worker (`nx86-gui`, `nx86-app`, `nx86-core/src/ipc.rs`) | child process, pipe, channel, panel | start, poll, cancel, reap | worker process | exit races output and cancel | the panel says what the worker said |
| Input (`nx86-input`) | pad buttons, pending events, snapshot | poll, pad and key events | host | events wait while the pad is off | the snapshot is what is held |
| Titles (`nx86-title-db`) | table, content and sidecar files | create, list, inspect, rewrite | GUI | one step of several fails; two windows | files belong to their title |
| Settings (`nx86-core/src/config.rs`) | file, edited and last saved settings | load, edit, save | GUI | saved in place by every window | what counts as saved is saved |
| Vulkan, GPU front end, logging | driver handles; none | create, release, translate | driver | driver calls | not modelled |

The dispatcher, guest memory and native code run on one thread. Concurrency is
that of a signal handler interrupting native code, of the audio device's thread,
of processes sharing files, and of the GUI's worker process. What makes the
core hard is elsewhere: almost every operation updates several structures by
hand and may be stopped between two updates by the host (mprotect, file I/O),
and native code acts on what it was told earlier (a patched jump, a fastmem
byte) without asking again. The translator is a chain of pure functions; it is
hard because five of them must agree about every instruction. `PROJECT.json`
lists each such place under `hazards`.

## 2. Modules

| Module | Kind | Models |
|---|---|---|
| `ChainMap` | abstract | a switch and a partial map of chains |
| `ChainCache` | component, implements `ChainMap` | `ChainCache` of `chain.rs` |
| `Dispatcher` | composes `ChainCache` | `Dispatcher`, `ExecutableMemory::patch`, chain exits |
| `GuestMemory` | component | `GuestMemory`, the arena, the page registry |
| `BoundedQueue` | abstract | what an event ring promises |
| `EventRing` | component | one ring of `smc_signal.rs` |
| `SmcSignal` | composes two `EventRing`s, implements `BoundedQueue` | the handler, the drain and re-protection |
| `ProfileLog` | component | `ProfileWriter`, `read_profile` |
| `Flags` | operators | NZCV flags and conditions |
| `Arm64` | operators on `Flags` | guest state, `TinyInterpreter::execute` |
| `NxIR` | operators on `Arm64` | NxIR, verifier, lifter, dead-flag pass, evaluator |
| `X64Lower` | operators on `NxIR` | allocator, lowering, callbacks, hot/cold layout, the host machine |
| `Translation` | composes the four | `run_synthetic_test`: three engines on one program |
| `Arm64Decode` | operators | the decoder |
| `Recover` | component | `recover_cfg` |
| `FrontEnd` | composes decoder, `Recover` and the lifter's block starts | words to a control-flow graph |
| `X64Asm` | component | the assembler, and a reference decoder to read it back |
| `CacheDir` | component | `CacheManager`, `ShaderCache`: a directory of objects |
| `ObjectClients` | composes `CacheDir` with its users | emergency JIT, rebuild, shader pass, readiness |
| `IpcSessions`, `AudioQueue`, `Scheduler`, `Homebrew` | components | session table and command format, audio, guest threads, import |
| `GuestServices` | composes them | boot of a homebrew, its supervisor calls |
| `WorkerPanel`, `HostInput`, `TitleStore`, `Settings` | components | worker process and panel, controller, titles, configuration |
| `Desktop` | composes them | windows of the application |
| `ChainCacheProofs`, `DispatcherProofs` | proofs | theorems about the module of that name |
| `MemoryProofs` | proofs | theorems about `GuestMemory` and `SmcSignal` |
| `PersistenceProofs` | proofs | theorems about `ProfileLog` and `ObjectClients` |
| `AlgorithmProofs` | proofs | theorems about `Recover`, `FrontEnd` with the decoder, `Flags`, lifting in `NxIR` and block layout in `X64Lower` |
| `TranslationProofs` | proofs | theorems about `Translation`, on top of the former |
| `GuestServicesProofs`, `DesktopProofs` | proofs | theorems about the two compositions and their parts |
| `MC*` | instances | constants for TLC (`ChainCache` needs only its cfg) |

In each module a definition named *Mutant* in its comment is a plausible bug of
the definition after it. It is used by no action; substituting it shows that a
property notices the bug.

### ChainCache

State and names are those of the struct; an absent map entry is `NoPc`, `{}` or
0. `remove_outgoing` is the pair `ChainsWithout` / `IncomingWithout`, read by
`Observe` and `Invalidate` in the order the code calls it.

### Dispatcher

Blocks are entry PCs. `exits` says which have a patchable exit, `patched` is
the flag the Rust code keeps, and `slot` is what the machine code really does:
return, jump into a live mapping, or jump into one that was freed. The
properties relate the last two. The public operations are single steps while no
run borrows the dispatcher (`&mut self`); `run_with_memory` is split into one
step per native block and per event handled: `CallBlock`, `ExecuteBlock`
(stays in native code across patched exits), `MemoryFault`, `TakeEvent` /
`EvictStale` / `RecordEvent` for each event, `DrainRing`, `CountStep`, `Route`,
`CompileMissing`, `StepLimit`. Each error return is a disjunct and leaves what
was done so far, among others a restore that stops at any of the exits it
visits (they come from a hash set) and a quarantined mapping. Which stores are
noticed, and by which of the two detectors, is left open. A program is a
successor function and the set of blocks that end in a Branch. A block has the
page of its entry (what eviction compares) and all the pages it lies on.

### GuestMemory

Every public operation, in the three modes (arena, logical, debug). A page's
contents are one value. `MapPageFails` and `UnmapPageFails` are the stops
between two updates; where a refused mprotect comes first nothing changes. A
write goes over one or two pages, chunk by chunk, as the code does. `crashed`
is a host fault inside a copy or a fastmem store. `misused` records that an
operation was applied to a page of the wrong kind, which the code does not
check (see the findings).

### EventRing, SmcSignal

The handler runs in the middle of a store, the store is then retried
(`retrying`), so no other store comes first. `stale` is history: pages stored
to since their blocks were evicted. The handler is modelled as installed and
native code as storing to any page; at this commit no caller installs it and
the fastmem check keeps generated code away from read-only pages, so these
properties are about the mechanism as it is meant to be switched on.

### ProfileLog

A file is a sequence of cells, three to a record: the beginning of a line
(which is no JSON yet), its rest, its newline. An append stops after any cell:
with an error and a rollback, with a failed rollback, or by the death of the
process. Opening is split at the lock, the size check coming before it.
Nothing is synced by the code, so a power failure is outside the model.

### Flags, Arm64, NxIR, X64Lower, Translation

The translator is modelled as the functions it is made of. A word is a small
number (`2 * Half` values, a pair of halves); memory is counted in 32-bit cells
so that 32- and 64-bit accesses, alignment and page crossings stay apart.
Floating point is some function of the bit patterns, the same for all engines:
what is modelled is which operands reach it and where the result goes.

`Arm64` gives one step of the interpreter. `NxIR` has the instruction set, the
verifier's checks, the lifter (block starts, one sequence of NxIR instructions
per guest instruction), the dead-flag pass, and the evaluator with its reads of
undefined values. `X64Lower` has the linear scan, the lowering to symbolic x86
instructions (frame, callee-saved registers, the slowmem call with its pushes,
the fast path's two checks, fault and chain exits), the two callbacks, and a
machine that runs those instructions with a stack and an arena; `FrameKept` is
what the machine notices about stack, saved registers and stray accesses.

`Translation` is `run_synthetic_test`: `Interpret` is one guest instruction,
`Translate` the whole pipeline, `EvaluateBlock` and `NativeBlock` one block of
the second and third engine. The code stops at an interpreter error; the model
goes on after a memory fault, because the dispatcher runs faulting blocks too.
`Loadable` says which functions the lowering refuses.

### Arm64Decode, Recover, FrontEnd, X64Asm

The decoder's if-chain is a sequence of patterns tried in order, `Match` is
what each test says of a word given as two 16-bit halves. `Recover` keeps the
worklist, the leaders and the decoded addresses of `recover_cfg`: a step checks
an entry, pops an address, scans one instruction, or builds the blocks or the
functions. `FrontEnd` decodes a program that a reference encoder assembled and
recovers its graph, so that what comes out can be compared with what was meant,
and with where the lifter starts blocks; `Encodable` is what the encodings have
room for. The encoder's fixed bits (`Opcode`) are those of the architecture, not the
decoder's patterns, so a wrong pattern shows. Only an ordered access is not in its
A64 encoding: LDAR and STLR are written with bit 21 set, as the test
`decodes_ldxr_stxr_ldar_stlr` writes them. What assemblers emit (bits 23 and 15) the
decoder takes for LDXR and STXR, which is recorded as a finding. `X64Asm` appends the bytes of one call
per step, resolves fixups at `finish`, and is read back by a decoder written
from the instruction format.

### CacheDir, ObjectClients

A call is its sequence of file operations (`WriteTemporary`, `Rename`, `Size`;
`Probe`, `Read`; `List`, then one file at a time), and `call` says where each
process is in its own. A file is its key, body and how it reads: whole, cut,
without a header, of another version, or with an unknown stage. Other processes
call at any time, anybody may damage a file, and the worker may die between any
two operations. `ObjectClients` runs one of the four jobs at a time: the JIT's
insert, profile record and registration; the rebuild; the shader pass; the
readiness count. `taken` is history: keys removed or spoiled since the job
began, the only ones a report may be wrong about.

### GuestServices and its parts

A behaviour is about one of five parts, chosen at the start. In *boot* the guest
prepares a command in memory, makes supervisor calls, and the host's device
thread empties the audio queue in between; in *table* a client opens and closes
sessions, domains and objects; in *codec* buffers are decoded; in *import* a
homebrew file is checked range by range and mapped page by page; in *threads*
the scheduler spawns a program's threads and runs them, one dispatch a step.
Handles saturate, as in the code. Samples are numbered in the order they are
accepted; `accepted`, `played` and the scheduler's `history` are history
variables, what the properties compare the queue and the log with.

### Desktop and its parts

Likewise: *worker* (the child writes lines into a bounded pipe, the reader
thread turns them into a channel, the window drains it once per frame, cancel
kills and waits), *input*, *titles* (creation is one step per row or file, and
a window may fail or vanish after each) and *settings* (load, edit, save in
place at the end of a frame, the first-launch wizard), the last two with two
windows.

## 3. Runs

| Run | Instance | Shows |
|---|---|---|
| `chain_cache` | 3 blocks, threshold and saturation at 2 | `IncomingExact`, `ChainIsHot`, refinement of `ChainMap` |
| `dispatcher` | 3 blocks on 2 pages (one across both), three programs (straight, loop, ending in Return), 2 steps, both mprotect failures | `TypeOK`, `NativeIncomingExact`, `NoWildJump`, `SoftChainsRegistered`, `StaleEvicted`, `RunTerminates` |
| `guest_memory` | 3 interchangeable pages, registry of 2, one mprotect failure | `TypeOK`, `FastmemWithinHost`, `MirrorIndexExact`, `MirrorsGrounded`, `ExecutableRegistered`, `WritesAreShared` |
| `profile_log` | 2 writers, 1 reader, 2 branch pairs and another event, 3 records | `ProfileSound`, `LogGrows` |
| `smc_signal` | 3 pages, rings of 3 slots | `StoresAreSeen`, `WritableIsQueued`, the ring as a queue (`EventsAreQueued`) |
| `translation` | words of 16 values, 3 pages of 2 cells, 2 registers of which 1 can be allocated, 9 steps per engine; programs of up to 5 guest instructions in every combination of data, memory, branch and exclusive forms, and hand-made functions for what lifting never emits | `LiftedVerifies`, `NxirAgrees`, `NativeAgrees`, `FrameIntact`, `LayoutFollowsRun` |
| `front_end` | programs of up to 5 instructions at three places of an 11-address space; one program per instruction form and field boundary; one listing per assembler call, register and displacement boundary, and all short ones with labels | `ReentryIsLeader`, `GraphExact`, `DecoderFaithful`, `AssemblesBack`, `BothTerminate` |
| `persistence` | 2 keys (one no block of the source), the worker and the GUI, one act of damage | `ObjectsKept`, `ReportsAreTrue`, `ProfiledWasCached` |
| `services` | 2 boots of 5 calls, a queue of 2 frames, handles up to 3, replay logs of 0, 3 and 64 events, up to 3 threads, images of up to 3 segments in pages of 4 cells and an arena of 16 | `IpcFaithful`, `AudioInOrder`, `SchedulerCorrect`, `ImportFaithful` |
| `desktop` | 2 windows, 2 workers after each other, a pipe of 2 lines and a log of 2, 2 title ids and 3 calls, 2 choices in the settings, 2 pads, 2 queued events | `WindowTruthful`, `TitlesKept`, `SettingsSaved` |
| `quarantine_holds`, `affected_evicted` | as `dispatcher` | a violated statement of a document each; see `findings` |

Why the bounds are enough. Three blocks give a target two sources, replace a
target, and put a self edge beside both; a chain of two patched exits needs
three blocks; two steps with threshold 2 suffice because counts and patches
survive runs and any number of runs may follow each other. Both failure stages
of `patch` are enabled for every call. Three pages let two mirrors share a
canonical page; a registry of two of them overflows. Rings of three slots hold
two events, so two faults fill one and a third page overflows it, and they wrap
after three. A file of three records allows damage before, in and behind a
record, and outgrows the two records that may still be opened.

Sixteen values make every combination of the four flags, both widths and an
address past the arena; two cells to a page let a double access cross into a
page of another kind (read-write, slow, read-only, absent); one allocatable
register makes a second live value spill, six live values also across a
slowmem call. Programs are at most five instructions because a defect of
one translation shows in the instruction, the one that reads its result, and
the loads of the operands. The eleven addresses put a program at the bottom, in
the middle and at the top of the address space, where a fall-through or a
branch leaves it. Encodings are per field, so boundaries of each field are
combined with each form, not with each other.

Two keys distinguish a file from its neighbour copied over it; one other
process suffices because calls keep no lock. A boot of five calls opens,
appends, queries and advances; two frames fill the queue in two buffers. Three
handles reach saturation. Two windows race for one id and for one settings
file; a pipe of two lines blocks a worker of three. Symmetry is used for pages
(`guest_memory`), writers (`profile_log`), windows and ids (`desktop`), which
nothing orders.

`CHECK_DEADLOCK FALSE` is set where the system stops: a dispatcher that jumped
into a mapping which cannot be executed, a process killed by SIGSEGV, a profile
larger than what `open` accepts, a program that has run in all engines, a graph
that is built, and the parts of `persistence`, `services` and `desktop` whose
work or bound is used up.

Fairness. `RunTerminates` assumes `WF_vars(RunStep)`: a run that has begun keeps
executing, which is what a single-threaded loop does. It does not assume that
any particular outcome is chosen. `BothTerminate` assumes weak fairness of the
next step of recovery and of the assembler, which are loops of one thread.
Nothing else is assumed.

## 4. Proofs

Each module's type invariant is proved first (`TypeCorrect`), strengthened
where it is not inductive; every other proof carries it along. One lemma says
what an operation does to each entry it touches, one says that a step keeps the
invariant, action by action, and the theorem combines them.

`ChainCacheProofs`, for every set of blocks, every threshold and every
saturation bound (`NoPcAssumption`, `CountAssumption`):

* `IncomingAlwaysExact`. With `TypeOK` the index is inductive, and it is why the
  others hold: `Invalidate` cuts the chains into a block through it alone.
* `ChainsAlwaysHot`. Inductive only together with `IncomingExact`, for otherwise
  an invalidation could reset a count and leave the chain behind.
* `RefinesChainMap`: `Spec => ImplementsChainMap`. Each step maps to a step or a
  stutter of `ChainMap`; `Invalidate` maps to `Sever` by `IncomingExact`.

`DispatcherProofs`, for every set of blocks and pages, every guest function,
step budget and set of failing stages (`PcAssumption`, `ProgramAssumption`,
`CountAssumption`, `GateAssumption`). The many actions change the code in seven
ways (`CodeStep`) and the chain cache in three (`ChainStep`). What is said of
registry, index and slots is proved over the former; the latter are steps of
`ChainCache`, so the theorems of `ChainCacheProofs` apply to the cache inside
the dispatcher.

* `NativeIncomingAlwaysExact`: inductive with the types.
* `DisabledAlwaysUnpatched`: inductive; a failed restore only shrinks `patched`.
* `NeverAWildJump`. `SlotInv` adds that an unregistered block has an unpatched
  slot (recompiling it brings no old jump back) and that every patch, also that
  of a quarantined mapping, is a forward edge into a registered exit. Eviction
  keeps it because the exact index finds every live slot into the block.
* `HaltsAlwaysClassified`. `HaltInv` says a block that native code entered
  through a chain has an exit; it ends in Branch, so it does not halt.
* `SoftChainsAlwaysRegistered`, for `Threshold >= 2` (the code's default is 2).
  `RegInv` says that the counts of the called block are 0 once it has been
  evicted, so the observation that follows cannot install a chain. With a
  threshold of 1 the statement is false.
* `StaleAlwaysEvicted`. `StaleInv` says where an eviction is still owed (blocks
  being evicted, events pending, events in the ring) and that nothing is owed
  outside the part of the loop that settles the events. It speaks of blocks on a single
  page, until the first error: `AffectedEvicted` shows what happens to a block across two
  pages, and events lost to an error are recorded as a finding.

`MemoryProofs`, on `GuestMemory`, for every set of pages, every content and every registry
size; `Typed` adds to `TypeOK` that the registry is a finite set, without which
its bound says nothing.

* `FastmemAlwaysWithinHost`, `MirrorIndexAlwaysExact`: inductive with the types.
* `MirrorsAlwaysGrounded`, `ExecutableAlwaysRegistered`: under the history
  variables the properties themselves name; they need that the registry counts
  plain pages only and that debug memory has no mirrors.
* `WritesAlwaysShared`: `BytesInv` says where the bytes of a page live in each
  mode (the arena, the page table, a debug mirror's own copy). A write is then
  followed chunk by chunk to the place both its page and the sharers read from.

`MemoryProofs`, on `SmcSignal`, for every set of pages and any number of slots
(`GuestPageAssumption`, `SlotsAssumption`, `GuestPermissionAssumption`):

* `EventRingIsQueue`: the circular buffer implements `BoundedQueue`; the only
  arithmetic is that of the wrapping indices.
* `WritableAlwaysQueued`: inductive with the types.
* `StoresAlwaysSeen`, under the hypothesis `WriteXorExecute` (no page is granted
  both; the importer refuses such segments, `map_page` itself does not, and at this
  commit no caller installs the handler): `RingsAgree` says that until a run fails both rings hold the same
  events, so a page is made writable only when its event was kept as well.

`PersistenceProofs`, on the profile, for every set of events, writers and readers
and any length of the file:

* `ProfileAlwaysSound`. The invariant describes the file itself: `Whole(cells,
  n, j)`, n complete records and j cells of one more. Until a rollback fails
  every crash leaves such a file, and an open writer's boundary is `3 * n`. That
  gives readability, and that a writer knows what is on disk.
* `LogAlwaysGrows`, from the same description: repair cuts at `3 * n` or adds
  the missing newline, an append adds one record, and neither happens while a
  reader holds the lock.

`AlgorithmProofs`, on recovery, for every program, list of entries and address space
(`TopAssumption`, `ProgramsAssumption`; for the lifter and the decoder
`SourcesAssumption`, which says that the programs are those the sources encode and that
their instructions have an encoding). The worklist is used as a set.

* `ReentryAlwaysLeader`: explored addresses that are no leaders were reached by
  falling through (`LeaderInv`), so the scan only meets explored code where a
  block already begins.
* `ExploredAlwaysReachable`: `ReachInv` says that what follows an explored
  address is explored or owed, and that every set closed under following that
  contains the entries contains what is explored.
* `GraphAlwaysExact`, the rest of the graph on top of that (`GraphInv`). The blocks
  partition what was explored: every explored address lies in the block of the
  last start before it, and the scan from a start ends at the first stop after it
  (`Least`, both ways). A function holds all it can reach: the rounds of
  `discover_functions` stop adding blocks before there are more rounds than blocks
  (`ReachCloses`, a pigeonhole on cardinalities). Together the functions hold every block, for
  what they hold contains the entries and is closed under following. And every
  start is one of the lifter's: `LifterInv` says that a leader is an entry or the
  target or follower of a decoded branch, each of which `compute_block_starts`
  marks too.

And on the decoder, `DecoderAlwaysFaithful`: for every program of encodable instructions
(in the A64 encodings, ordered accesses as the decoder's tests write them),
with every register, immediate, offset and condition there is room for, at every
place. The invariant only says where the words come from (`DecodedInv`); the work is
in the words. A pattern's fields are read as arithmetic on the two halves (`Fields...`);
`Marks` says what each form then asks of five parts of the word, and no five numbers are
what two forms ask (`MarksDiffer`). So a word, and a word with one bit changed, which is again one (`FlipsAreWords`), matches
at most one (`FewMatch`), and of an encoding the one that was meant: the order of
the tests does not matter there (`SoleForm`, `DecodesAs`). Each layout's values are
put in place and read back, signs of offsets included (`EverythingRead`).

And on `Flags`: `CompareDecidesOrder`, after a SUBS each condition decides the
comparison it is named for, signed and unsigned, at every word size.

And on lifting, `InstructionLifts`: for every cpu, memory and page layout the ops of
an instruction take the evaluator where `Execute` takes the interpreter, or to the
same fault. The evaluator's cpu differs from the interpreter's in the flags it still
owes (`Sees`: the pending record, evaluated, is the interpreter's flags) and in
the pc, which it only sets at a block's end. Each op is run on a state written as a
list of fields (`EvalState`), an instruction as the sequence of its ops (`RunSteps`).

`TranslationProofs`, for every program of decodable instructions, base address, step
limit and page layout (`TestsAssumption`: the members of a program satisfy `InstOk`, the
ranges of the decoder's fields; `LimitsAssumption`; `LogicalAssumption`: and, or and
xor of words are words, which no prover here finds from the bitwise definition;
`FunctionsAssumption`: a hand-made function verifies and is entered at its entry):

* `LiftingVerifies`. Of a list of ops "sound from n to m" means: each value it
  defines has the next number, and each it uses was defined before, with the type the
  use wants (`Solid`, `Gives`). Every instruction lifts to such a list, such lists laid
  end to end are one (`LiftSound`), and dropping `SetFlags` ops defines no fewer values. Blocks of
  such lists, at ascending addresses, with targets among them, are what `verify`
  accepts. `LiftInv` adds that the evaluator is in a block of a `Sane` function and
  has not read an undefined value, which `readUndefined` would remember.
* `LayoutFollows`. `LayoutInv`: what is translated or handed in is accepted, and a
  native run enters blocks of it, the first one first (`Enters`). The rest
  is about the sort and the chain of hot edges (`LayoutHolds`, in
  `AlgorithmProofs`): a chain takes no block twice, follows the path of a run that
  enters none twice, and the hot and cold blocks after it are the others.

* `DeadFlagsUnseen`: with and without the dropped `SetFlags` two runs of a block
  differ in the pending record only, and no longer once the last one is executed.
* `EnginesAgree`, that is `NxirAgrees`. The interpreter's run is a sequence of states,
  a trace (`Traced`). `LiftProgram` cuts the program into blocks that begin at the
  block starts and end at the next terminator or before the next start
  (`BlocksShaped`), so one turn of the evaluator follows the trace from the start of a block to
  the start of another, to its end, or to its fault (`BlockTurns`). The invariant
  `RunInv` says for the first phase that there is such a trace, for the second that the
  evaluator stands at a block's start somewhere on it, not behind its own
  number of turns, or has ended as the trace does. A turn moves on by at least one
  instruction, which is why the evaluator gets to the end within the same step limit.

`PersistenceProofs`, on the caches, for every set of keys, bodies and processes, any lists of
shaders and any amount of damage (`ClientAssumption`, `ShadersAssumption`,
`CallsAssumption`). `Effect` is what one step of a call does: the files change
by one replacement, one removal or not at all; an answer of `load` or
`full_check` has just read a whole object; a successful insert replaced its
file one step earlier; a scan loses sight of no whole object. It is proved once
for each of the eleven steps, and everything else follows from it.

* `ObjectsAlwaysKept`. `DirInv` adds that a file which reads as whole holds an
  object that was inserted; damage can spoil or move files, never make one.
* `ReportsAlwaysTrue`. What the worker knows during a job: an insert or check
  that has succeeded leaves its key whole or in `taken` (`InsertInv`,
  `CheckInv`), the scan has seen or will see every key that counts (`ScanInv`),
  and the counters add up with the inputs still queued (`CountInv`, whose
  `Pending` is the hot shader at hand). `Carried` says that nobody else's step
  changes what the worker knows.
* `ProfiledAlwaysCached`: `RecordInv`, the block about to be recorded has been
  in the cache, whatever has happened to its file since.

`GuestServicesProofs`, for every program of threads, replay limit, queue limit,
request, buffer and number of handles (`ServicesAssumption`: words are naturals).
The parts share no variable but those of the boot, so each has an invariant of
its own and every step of one is a step or a stutter of the others.

* `SchedulerAlwaysCorrect`. `ThreadsSound` ties a thread's ticks, remaining work,
  pc and status to what happened to it; `LogSound` says the log is the newest
  part of that. Fairness is not inductive as it stands: `RoundSound` adds that
  after some number of ticks for everybody the threads before the one whose
  turn it is are a quantum on, those behind it are not, and it is as far as its
  quantum is used, unless their work ran out.
* `AudioAlwaysInOrder`. With the types and the counters the property is
  inductive; the work is in where each sample is after a consumer took frames.
* `CommandsReadBack`, `ResponsesReadBack`: for words of every length. `Agree` says
  that what was written so far agrees with the message, `Stands` that a list read
  from it stands where it is written again; the sections are appended one by one.
* `IpcAlwaysFaithful` adds the tables: handles in them lie below their counters
  until a counter has reached the last handle (`TablesSound`), so a new handle
  disturbs no entry; and the reply agrees with the message that asked for it.
* `ImportAlwaysFaithful`, for every image, page size and limit with which pages
  divide the address space (`HomebrewAssumption`). Three parts: what each check
  of `parse` leaves true of a file it lets pass (`Parsed`); that `validate_layout`,
  which compares only neighbours in the sorted list, finds every two ranges that
  need one page (`AllApart`: the nearest range that begins after one is its
  neighbour); and `MapInv`: the ranges before the cursor's are done (bytes,
  permissions, `DoneIn`), its own is mapped or protected up to the cursor, and
  nothing else is mapped. As accepted ranges share no page, no step disturbs what
  is done (`DoneStays`), and `write` and `set_page_permissions` find their pages.

`DesktopProofs`, for every set of windows, titles, settings and pads and any
output of the worker:

* `WindowAlwaysTruthful`. `LinesInOrder`: the lines applied, those in the channel
  and those in the pipe are together the lines written, as long as the window
  holds the receiver; what the panel shows is what the applied ones say. For the
  controller `InputInv` says that the events still waiting turn the buttons
  applied so far into those held down (`PressedNext`: the last
  event of a button decides).
* `TitlesAlwaysKept`. `CallSound` says of a creation whose row is to come that its
  number is its own, and of one past its row that the row is its own and what it
  has written is kept, torn sidecars being owed to a window still rewriting them
  (`TornBy`). So a window that lost the race for an id has no file to write.
* `SettingsAlwaysSaved`. `WindowSound` is what a window knows by itself, `FileSound`
  what it knows of the file if no two writes overlapped: the window that writes
  is the only one in step with it, any other in step finds what it saved last.

Model-checked only: native code (`NativeAgrees`, `FrameIntact`), where the lowered
instructions of every op would have to be followed through the machine under every
register allocation; the assembler (`AssemblesBack`), whose encoder and decoder recurse
over listings and bytes; the liveness properties, for the proof system does not
handle fairness; and the violated statements, which are counterexamples. Induction over data is only possible where it can be put as a
least element of a set of naturals (lemma `Least`, from the library's
well-foundedness of the naturals), since the library's induction rules take
operators as parameters.

## 5. Not modelled

Not modelled at all: the Vulkan pipeline cache (one blob replaced by the
protocol of `CacheDir`, around driver calls), context, swapchain and offscreen
target (driver calls), the GPU front end (a stateless translation of draw
commands), logging and the crates that hold only their name.

Within the modelled parts:

* executable memory: mapping and unmapping, the host ABI;
* dispatcher: guest registers and data, which `Translation` has instead;
* handler: installing and removing it, mprotect failures inside it (the code
  ignores them), several memories sharing the one page registry;
* assembler: EVEX operands with a one-byte displacement, which it encodes wrongly
  (see `findings`), and rsp as an index register, for which the processor has no
  encoding and which no caller asks for; displacements out of range cannot occur
  at these sizes;
* caches: the manifest, which nothing reads back;
* import: TOML, hexadecimal and texts; GUI: layout, default values, directory
  names, a panic of the reader thread;
* counters, reports and dumps everywhere, unless a property names them; power
  failures (a crash is the death of a process).

## 6. Plan

1. `CodeWrites`: guest memory, slowmem callbacks and dispatcher together, to say
   which stores to code pages (mirrors and page-crossing stores included) are
   detected.
2. A theorem for `FrameIntact`, whose lowered code can be followed op by op as the
   lifted code is, then for `NativeAgrees`.
3. A panic of the reader thread in `WorkerPanel`; progress of the panel under
   the fairness a frame per event would justify, which the code lacks today.
4. The pipeline cache as a further instance of the file protocol.
