--------------------------- MODULE ObjectClients ---------------------------
(***************************************************************************)
(* Who uses the object caches: the emergency JIT of the dispatch loop and  *)
(* the profile-guided rebuild on the native one, the batch shader pass and *)
(* the readiness count on the shader one.  A worker runs one of these jobs *)
(* at a time and may die at any step; the other processes of CacheDir make *)
(* calls of their own, as the GUI does that shows and clears the caches.   *)
(***************************************************************************)
EXTENDS CacheDir, SequencesExt

CONSTANTS Worker,    \* the process that runs jobs
          Source,    \* native: the block entries of the source function,
          Bad,       \*         those of them that fail to lower
          Shaders,   \* shader: the sets of inputs, sequences of [key, stage, hot]
          Calls      \* what the other processes call, for either cache
ASSUME ClientAssumption ==
    Worker \in Process /\ Bad \subseteq Source /\ Source \subseteq Key /\ IsFiniteSet(Key) /\ "code" \in Body
ShaderInput == [key : Key, stage : Body, hot : BOOLEAN]
ASSUME ShadersAssumption == Shaders \subseteq Seq(ShaderInput)
ASSUME CallsAssumption ==
    \A c \in Calls.native \cup Calls.shader :
        /\ c.op \in Ops /\ c.key \in Key \cup {"none"} /\ c.body \in Body \cup {"none"}
        /\ c.op \in Keyed => c.key \in Key
        /\ c.op = "insert" => c.body \in Body

VARIABLES kind,      \* which of the two caches this is
          profile,   \* native: the PCs with a JitBlock record
          blocks,    \* native: the blocks the dispatcher has registered
          job,       \* what the worker is doing
          taken      \* history: keys removed or spoiled since the job began
clientVars == <<kind, profile, blocks, job, taken>>

\* A report counts; done holds the keys it counts as cached, of which hotDone
\* are hinted hot.
Report == [ok |-> 0, already |-> 0, skipped |-> 0, failed |-> 0, total |-> 0, hotTotal |-> 0, hotOk |-> 0]
NoJob == [name |-> "none", at |-> "none", queue |-> <<>>, done |-> {}, report |-> Report, native |-> {}]

Init ==
    /\ DirInit
    /\ kind \in {"native", "shader"}
    /\ profile \in (IF kind = "native" THEN SUBSET Key ELSE {{}})
    /\ blocks = {} /\ job = NoJob /\ taken = {}

Start(name, at, queue) ==
    /\ job.at \in {"none", "reported"} /\ Ready(Worker)
    /\ job' = [NoJob EXCEPT !.name = name, !.at = at, !.queue = queue, !.report.total = Len(queue)]
    /\ taken' = {}
    /\ UNCHANGED <<kind, profile, blocks>>
Finish == job' = [job EXCEPT !.at = "reported"]
Give == job' = NoJob
First == job.queue[1]
Rest == Tail(job.queue)
In(name, at) == job.name = name /\ job.at = at
Returned == Ready(Worker)

-----------------------------------------------------------------------------
(* EmergencyJit::compile in the dispatch loop: lower the missing block,    *)
(* insert it, then record it in the profile, then register it.             *)

\* Mutant: the block is in the profile before it is in the cache.
JitMissingRecorded(pc) ==
    /\ kind = "native" /\ pc \in (Source \ Bad) \ blocks
    /\ job.at \in {"none", "reported"} /\ Ready(Worker)
    /\ job' = [NoJob EXCEPT !.name = "jit", !.at = "insert", !.queue = <<[key |-> pc]>>]
    /\ taken' = {} /\ profile' = profile \cup {pc}
    /\ Call(Worker, "insert", pc, "code")
    /\ UNCHANGED <<kind, blocks, files, inserted, lost, damage>>
\* A PC that is no block of the source is a missing block, one that fails to
\* lower an error: neither changes anything.
JitMissing(pc) ==
    /\ kind = "native" /\ pc \in (Source \ Bad) \ blocks
    /\ Start("jit", "insert", <<[key |-> pc]>>)
    /\ Call(Worker, "insert", pc, "code")
    /\ UNCHANGED <<files, inserted, lost, damage>>

JitInserted ==
    /\ In("jit", "insert") /\ Returned
    /\ IF call[Worker].result = "ok" THEN job' = [job EXCEPT !.at = "record"] ELSE Give
    /\ UNCHANGED <<dirVars, kind, profile, blocks, taken>>

\* The profile may refuse the record, and the run ends without the block.
JitRecord ==
    /\ In("jit", "record") /\ Give
    /\ \/ profile' = profile \cup {First.key} /\ blocks' = blocks \cup {First.key}
       \/ UNCHANGED <<profile, blocks>>
    /\ UNCHANGED <<dirVars, kind, taken>>

-----------------------------------------------------------------------------
(* rebuild_from_profile: compile every JIT block of the profile again,     *)
(* then scan the cache for what is native now.                             *)

Rebuild ==
    /\ kind = "native"
    /\ \E queue \in SetToSeqs(profile) : Start("rebuild", "next", [i \in DOMAIN queue |-> [key |-> queue[i]]])
    /\ UNCHANGED dirVars

Count(field, done) == job' = [job EXCEPT !.at = "next", !.queue = Rest, !.report[field] = @ + 1, !.done = @ \cup done]

RebuildNext ==
    /\ In("rebuild", "next") /\ job.queue # <<>>
    /\ \/ First.key \notin Source /\ Count("skipped", {}) /\ UNCHANGED call
       \/ First.key \in Bad /\ Count("failed", {}) /\ UNCHANGED call
       \/ /\ First.key \in Source \ Bad
          /\ job' = [job EXCEPT !.at = "insert"] /\ Call(Worker, "insert", First.key, "code")
    /\ UNCHANGED <<files, inserted, lost, damage, kind, profile, blocks, taken>>

RebuildInserted ==
    /\ In("rebuild", "insert") /\ Returned
    /\ IF call[Worker].result = "ok" THEN Count("ok", {First.key}) ELSE Count("failed", {})
    /\ UNCHANGED <<dirVars, kind, profile, blocks, taken>>

RebuildScan ==
    /\ In("rebuild", "next") /\ job.queue = <<>>
    /\ job' = [job EXCEPT !.at = "scan"] /\ Call(Worker, "scan", "none", "none")
    /\ UNCHANGED <<files, inserted, lost, damage, kind, profile, blocks, taken>>

\* static_native_blocks: the source blocks the scan found.  A failed scan
\* fails the rebuild.
RebuildScanned ==
    /\ In("rebuild", "scan") /\ Returned
    /\ IF call[Worker].result = "ok"
       THEN job' = [job EXCEPT !.at = "reported", !.native = call[Worker].found \cap Source] ELSE Give
    /\ UNCHANGED <<dirVars, kind, profile, blocks, taken>>

-----------------------------------------------------------------------------
(* compile_shaders and cached_readiness_bps.                               *)

\* Hints name hashes: every input with a hot hash is hot, and goes first.
IsHot(inputs, i) == \E j \in DOMAIN inputs : inputs[j].key = i.key /\ inputs[j].hot
\* order: the indices sorted by a stable sort, hot ones first.
Before(inputs, i, j) ==
    IF IsHot(inputs, inputs[i]) = IsHot(inputs, inputs[j]) THEN i < j ELSE IsHot(inputs, inputs[i])
HotFirst(inputs) ==
    {order \in [DOMAIN inputs -> DOMAIN inputs] :
        \A m, n \in DOMAIN inputs : m < n => Before(inputs, order[m], order[n])}

CompileShaders ==
    /\ kind = "shader"
    /\ \E inputs \in Shaders : \E order \in HotFirst(inputs) :
          Start("aot", "next", [i \in DOMAIN inputs |->
                    [inputs[order[i]] EXCEPT !.hot = IsHot(inputs, inputs[order[i]])]])
    /\ UNCHANGED dirVars

ShaderFullCheck(h) == Call(Worker, "full", h, "none")
ShaderInsert(h, stage) == Call(Worker, "insert", h, stage)

AotCheck ==
    /\ In("aot", "next") /\ job.queue # <<>>
    /\ job' = [job EXCEPT !.at = "check", !.report.hotTotal = IF First.hot THEN @ + 1 ELSE @]
    /\ ShaderFullCheck(First.key)
    /\ UNCHANGED <<files, inserted, lost, damage, kind, profile, blocks, taken>>

Cached(field) ==
    job' = [job EXCEPT !.at = "next", !.queue = Rest, !.report.ok = @ + 1, !.report.already = IF field = "already" THEN @ + 1 ELSE @,
                       !.report.hotOk = IF First.hot THEN @ + 1 ELSE @, !.done = @ \cup {First.key}]

\* An object that is there already is kept; a check that fails ends the pass.
AotChecked ==
    /\ In("aot", "check") /\ Returned
    /\ CASE call[Worker].result = "ok" -> Cached("already") /\ UNCHANGED call
         [] call[Worker].result = "error" -> Give /\ UNCHANGED call
         [] OTHER -> job' = [job EXCEPT !.at = "insert"] /\ ShaderInsert(First.key, First.stage)
    /\ UNCHANGED <<files, inserted, lost, damage, kind, profile, blocks, taken>>

\* Mutant: a failed insert is counted as compiled.
AotInsertedAnyway ==
    /\ In("aot", "insert") /\ Returned
    /\ Cached("compiled")
    /\ UNCHANGED <<dirVars, kind, profile, blocks, taken>>
AotInserted ==
    /\ In("aot", "insert") /\ Returned
    /\ IF call[Worker].result = "ok" THEN Cached("compiled") ELSE Count("failed", {})
    /\ UNCHANGED <<dirVars, kind, profile, blocks, taken>>

AotDone == In("aot", "next") /\ job.queue = <<>> /\ Finish /\ UNCHANGED <<dirVars, kind, profile, blocks, taken>>

\* cached_readiness_bps counts the known hashes that pass a full check.
Readiness ==
    /\ kind = "shader"
    /\ \E inputs \in Shaders : Start("ready", "next", inputs)
    /\ UNCHANGED dirVars
ReadyNext ==
    /\ In("ready", "next")
    /\ IF job.queue = <<>> THEN Finish /\ UNCHANGED call
       ELSE job' = [job EXCEPT !.at = "check"] /\ ShaderFullCheck(First.key)
    /\ UNCHANGED <<files, inserted, lost, damage, kind, profile, blocks, taken>>
ReadyChecked ==
    /\ In("ready", "check") /\ Returned
    /\ CASE call[Worker].result = "ok" -> Count("ok", {First.key})
         [] call[Worker].result = "error" -> Give
         [] OTHER -> Count("skipped", {})
    /\ UNCHANGED <<dirVars, kind, profile, blocks, taken>>

-----------------------------------------------------------------------------
(* Everything together.                                                    *)

NativeCall(p) == kind = "native" /\ \E c \in Calls.native : Call(p, c.op, c.key, c.body)
ShaderCall(p) == kind = "shader" /\ \E c \in Calls.shader : Call(p, c.op, c.key, c.body)
OthersCall(p) ==
    /\ p # Worker /\ Ready(p)
    /\ NativeCall(p) \/ ShaderCall(p)
    /\ UNCHANGED <<files, inserted, lost, damage, clientVars>>
Removed == {k \in Key : IsFile(files[k]) /\ ~IsFile(files'[k])}
Progress(p) == CallStep(p) /\ taken' = taken \cup Removed /\ UNCHANGED <<kind, profile, blocks, job>>
Outside == \E k \in Key : Damage(k) /\ taken' = taken \cup {k} /\ UNCHANGED <<kind, profile, blocks, job>>
\* The worker's process dies; files and profile stay.
Crash ==
    /\ job.at # "none" /\ Die(Worker)
    /\ job' = NoJob /\ blocks' = {} /\ taken' = {}
    /\ UNCHANGED <<kind, profile>>

Jobs ==
    \/ (\E pc \in Key : JitMissing(pc)) \/ JitInserted \/ JitRecord
    \/ Rebuild \/ RebuildNext \/ RebuildInserted \/ RebuildScan \/ RebuildScanned
    \/ CompileShaders \/ AotCheck \/ AotChecked \/ AotInserted \/ AotDone
    \/ Readiness \/ ReadyNext \/ ReadyChecked
Next == Jobs \/ Crash \/ Outside \/ \E p \in Process : OthersCall(p) \/ Progress(p)
vars == <<dirVars, clientVars>>
Spec == Init /\ [][Next]_vars

-----------------------------------------------------------------------------
(* Properties.                                                             *)

\* Objects: only what was inserted is served, and only removal loses any.
ObjectsKept == ServesOnlyInserted /\ OnlyRemovalLoses

\* A block in the profile, or registered by a run, was in the cache before:
\* no crash, refused record or failed insert leaves a record of an object
\* that never was (dispatch.rs, the JIT's insert, then record_profile).
ProfiledWasCached ==
    [][profile' \ profile \subseteq {e[1] : e \in inserted} /\ blocks' \subseteq profile']_vars

\* A report adds up, and what it counts as cached is there, whole, unless
\* somebody took it away while the job ran (compile_shaders,
\* cached_readiness_bps, rebuild_from_profile).
ReportsAreTrue ==
    job.at = "reported" =>
        LET r == job.report
        IN  /\ r.ok + r.skipped + r.failed = r.total
            /\ r.already <= r.ok /\ r.hotOk <= r.hotTotal /\ r.hotOk <= r.ok
            /\ r.failed = 0 => r.hotOk = r.hotTotal \/ job.name # "aot"
            /\ \A k \in job.done \ taken : FromBytes(files[k]) /\ files[k].key = k
            /\ job.name = "rebuild" => job.done \ taken \subseteq job.native
=============================================================================
