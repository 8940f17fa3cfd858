-------------------------- MODULE PersistenceProofs --------------------------
(***************************************************************************)
(* Proofs about what the emulator keeps on disk.  First ObjectClients and  *)
(* the directory below it, for every set of keys, objects and processes    *)
(* and any amount of damage.  Then ProfileLog, for every set of events,    *)
(* writers and readers and any length of the file: crashes and failed      *)
(* appends damage it behind its last complete record only, so it can be    *)
(* read and repaired.                                                      *)
(***************************************************************************)
EXTENDS ObjectClients, ProfileLog, FiniteSetTheorems, SequenceTheorems, TLAPS

-----------------------------------------------------------------------------
(* Types.                                                                  *)

Item == [key : Key] \cup ShaderInput
Counters == [ok : Nat, already : Nat, skipped : Nat, failed : Nat, total : Nat, hotTotal : Nat, hotOk : Nat]
CallsTyped ==
    \A p \in Process : /\ call[p].op \in Keyed => call[p].key \in Key
                       /\ call[p].op = "insert" => call[p].body \in Body
                       /\ call[p].at = "measure" => call[p].key \in Key
JobTyped ==
    /\ job \in [name : {"none", "jit", "rebuild", "aot", "ready"},
                at : {"none", "insert", "record", "next", "scan", "check", "reported"},
                queue : Seq(Item), done : SUBSET Key, report : Counters, native : SUBSET Key]
    /\ job.name = "aot" => job.queue \in Seq(ShaderInput)
    /\ job.at \in {"insert", "record", "check"} => job.queue # <<>>
TypeOK ==
    /\ DirTypeOK /\ CallsTyped /\ JobTyped
    /\ profile \subseteq Key /\ blocks \subseteq Key /\ taken \subseteq Key

LEMMA FileTyped ==
    ASSUME NEW f \in {Absent, Folder} \cup Files
    PROVE  /\ IsFile(f) <=> f \in Files
           /\ f = Absent <=> f.state = "absent"
           /\ f = Folder <=> f.state = "folder"
BY DEF Absent, Folder, Files, IsFile, Spoiled

LEMMA CallTyped ==
    ASSUME DirTypeOK, CallsTyped, NEW p \in Process, NEW op \in Ops, NEW k \in Key \cup {"none"}, NEW b \in Body \cup {"none"},
           op \in Keyed => k \in Key, op = "insert" => b \in Body,
           Call(p, op, k, b), UNCHANGED <<files, inserted, lost, damage>>
    PROVE  DirTypeOK' /\ CallsTyped'
<1>1. call'[p] = [Idle EXCEPT !.op = op, !.at = "start", !.key = k, !.body = b]
      /\ \A q \in Process \ {p} : call'[q] = call[q]
  BY DEF Call, DirTypeOK
<1>2. call'[p] = [op |-> op, at |-> "start", key |-> k, body |-> b, todo |-> {}, found |-> {}, result |-> "none"]
  BY <1>1 DEF Idle
<1>3. call'[p] \in CallRecords
  BY <1>2 DEF CallRecords
<1>5. DirTypeOK'
  BY <1>1, <1>3 DEF DirTypeOK, Call
<1>4. CallsTyped'
  BY <1>1, <1>2 DEF CallsTyped
<1> QED
  BY <1>4, <1>5

\* A call moves on: its operation and object stay, and its key unless it
\* lists the directory.
LEMMA CallMoved ==
    ASSUME DirTypeOK, CallsTyped, NEW p \in Process, NEW r \in CallRecords,
           r.op = call[p].op, r.body = call[p].body, r.op \in Keyed => r.key = call[p].key,
           r.at = "measure" => r.key \in Key,
           call' = [call EXCEPT ![p] = r]
    PROVE  /\ call' \in [Process -> CallRecords] /\ CallsTyped'
           /\ call'[p] = r /\ \A q \in Process \ {p} : call'[q] = call[q]
<1>1. /\ call' \in [Process -> CallRecords]
      /\ call'[p] = r /\ \A q \in Process \ {p} : call'[q] = call[q]
  BY DEF DirTypeOK
<1>2. CallsTyped'
  BY <1>1 DEF CallsTyped
<1> QED
  BY <1>1, <1>2

Points == {"start", "rename", "size", "read", "each", "measure", "done"}
Results == {"none", "ok", "error", "missing", "invalid"}
Moved(p, at, result) ==
    /\ call' \in [Process -> CallRecords] /\ CallsTyped'
    /\ call'[p] = [call[p] EXCEPT !.at = at, !.result = result]
    /\ \A q \in Process \ {p} : call'[q] = call[q]

LEMMA GotoTyped ==
    ASSUME DirTypeOK, CallsTyped, NEW p \in Process, NEW at \in Points \ {"measure"}, Goto(p, at)
    PROVE  Moved(p, at, call[p].result)
<1> DEFINE r == [call[p] EXCEPT !.at = at]
<1>1. call[p] \in CallRecords
  BY DEF DirTypeOK
<1>2. r \in CallRecords /\ r.op = call[p].op /\ r.body = call[p].body /\ r.key = call[p].key /\ r.at # "measure"
  BY <1>1 DEF CallRecords, Points
<1>3. call' = [call EXCEPT ![p] = r]
  BY DEF Goto
<1>4. r = [call[p] EXCEPT !.at = at, !.result = call[p].result]
  BY <1>1 DEF CallRecords
<1> HIDE DEF r
<1>5. call'[p] = r /\ call' \in [Process -> CallRecords] /\ CallsTyped' /\ \A q \in Process \ {p} : call'[q] = call[q]
  BY <1>2, <1>3, CallMoved
<1> QED
  BY <1>4, <1>5 DEF Moved

LEMMA ReturnTyped ==
    ASSUME DirTypeOK, CallsTyped, NEW p \in Process, NEW result \in Results, Return(p, result)
    PROVE  Moved(p, "done", result)
<1> DEFINE r == [call[p] EXCEPT !.at = "done", !.result = result]
<1>1. call[p] \in CallRecords
  BY DEF DirTypeOK
<1>2. r \in CallRecords /\ r.op = call[p].op /\ r.body = call[p].body /\ r.key = call[p].key /\ r.at # "measure"
  BY <1>1 DEF CallRecords, Results
<1>3. call' = [call EXCEPT ![p] = r]
  BY DEF Return
<1> HIDE DEF r
<1>5. call'[p] = r /\ call' \in [Process -> CallRecords] /\ CallsTyped' /\ \A q \in Process \ {p} : call'[q] = call[q]
  BY <1>2, <1>3, CallMoved
<1> QED
  BY <1>5 DEF Moved, r

LEMMA MovedFields ==
    ASSUME DirTypeOK, NEW p \in Process, NEW at, NEW result, Moved(p, at, result)
    PROVE  /\ call'[p].op = call[p].op /\ call'[p].key = call[p].key /\ call'[p].body = call[p].body
           /\ call'[p].todo = call[p].todo /\ call'[p].found = call[p].found
           /\ call'[p].at = at /\ call'[p].result = result
<1>1. call[p] \in CallRecords
  BY DEF DirTypeOK
<1> QED
  BY <1>1 DEF Moved, CallRecords

-----------------------------------------------------------------------------
(* What a step of a call does.                                             *)

Whole(k) == FromBytes(files[k]) /\ files[k].key = k
Same == UNCHANGED <<files, inserted, lost, damage>>
Replaced(k, b) ==
    /\ files' = [files EXCEPT ![k] = File(k, b, "whole")]
    /\ inserted' = inserted \cup {<<k, b>>} /\ lost' = lost \ {k} /\ damage' = damage
Dropped(k) ==
    /\ IsFile(files[k]) /\ files' = [files EXCEPT ![k] = Absent]
    /\ lost' = lost \cup {k} /\ UNCHANGED <<inserted, damage>>
FileStep == Same \/ \E k \in Key : Dropped(k) \/ \E b \in Body : Replaced(k, b)

\* A load or a full check that succeeds has just read a whole object.
Served(p) ==
    call[p].op \in {"load", "full"} /\ call'[p].at = "done" /\ call'[p].result = "ok" =>
        Same /\ Whole(call[p].key) /\ call'[p].found = {files[call[p].key]}
\* An insert that succeeds has put its object in place one step earlier.
Written(p) ==
    /\ call[p].op = "insert" /\ call'[p].at = "size" => Replaced(call[p].key, call[p].body)
    /\ call[p].op = "insert" /\ call'[p].at = "done" /\ call'[p].result = "ok" => Same /\ call[p].at = "size"
\* A scan that succeeds loses sight of no whole object it has seen.
Seen(c) == c.todo \cup c.found \cup (IF c.at = "measure" THEN {c.key} ELSE {})
Scanned(p) ==
    call[p].op = "scan" =>
        /\ Same
        /\ call'[p].at # "done" \/ call'[p].result = "ok" =>
               \A k \in Key : Whole(k) /\ (call[p].at = "start" \/ k \in Seen(call[p])) => k \in Seen(call'[p])
        /\ call'[p].at = "done" /\ call'[p].result = "ok" => call'[p].todo = {}
Effect(p) ==
    /\ DirTypeOK' /\ CallsTyped' /\ FileStep
    /\ \A q \in Process \ {p} : call'[q] = call[q]
    /\ call[p].at # "done" /\ call'[p].at # "start" /\ call'[p].op = call[p].op
    /\ call[p].op \in Keyed => call'[p].key = call[p].key
    /\ Served(p) /\ Written(p) /\ Scanned(p)

LEMMA FilesTyped ==
    ASSUME DirTypeOK
    PROVE  /\ Same => DirTypeOK' \/ call' \notin [Process -> CallRecords]
           /\ \A k \in Key, b \in Body : Replaced(k, b) => DirTypeOK' \/ call' \notin [Process -> CallRecords]
           /\ \A k \in Key : Dropped(k) => DirTypeOK' \/ call' \notin [Process -> CallRecords]
<1>1. \A k \in Key, b \in Body : File(k, b, "whole") \in Files
  BY DEF File, Files
<1>2. Absent \in {Absent, Folder} \cup Files
  OBVIOUS
<1>3. Same => DirTypeOK' \/ call' \notin [Process -> CallRecords]
  BY DEF DirTypeOK, Same
<1>4. ASSUME NEW k \in Key, NEW b \in Body, Replaced(k, b)
      PROVE  DirTypeOK' \/ call' \notin [Process -> CallRecords]
  <2>1. files' \in [Key -> {Absent, Folder} \cup Files]
    BY <1>1, <1>4 DEF DirTypeOK, Replaced
  <2>2. inserted' \subseteq Key \X Body /\ lost' \subseteq Key /\ damage' \in Nat
    BY <1>4 DEF DirTypeOK, Replaced
  <2> QED
    BY <2>1, <2>2 DEF DirTypeOK
<1>5. ASSUME NEW k \in Key, Dropped(k)
      PROVE  DirTypeOK' \/ call' \notin [Process -> CallRecords]
  <2>1. files' \in [Key -> {Absent, Folder} \cup Files]
    BY <1>2, <1>5 DEF DirTypeOK, Dropped
  <2>2. inserted' \subseteq Key \X Body /\ lost' \subseteq Key /\ damage' \in Nat
    BY <1>5 DEF DirTypeOK, Dropped
  <2> QED
    BY <2>1, <2>2 DEF DirTypeOK
<1> QED
  BY <1>3, <1>4, <1>5

\* Steps that move the call on and leave the files alone.
LEMMA MoveEffect ==
    ASSUME DirTypeOK, CallsTyped, NEW p \in Process, NEW at, NEW result, Moved(p, at, result), Same,
           call[p].at # "done", at # "start", call[p].op = "scan" => at = "done" /\ result # "ok",
           ~(call[p].op \in {"load", "full"} /\ at = "done" /\ result = "ok"),
           call[p].op = "insert" => at # "size" /\ (at = "done" /\ result = "ok" => call[p].at = "size")
    PROVE  Effect(p)
<1>1. /\ call'[p].op = call[p].op /\ call'[p].key = call[p].key
      /\ call'[p].at = at /\ call'[p].result = result
  BY MovedFields
<1>2. call' \in [Process -> CallRecords] /\ CallsTyped' /\ \A q \in Process \ {p} : call'[q] = call[q]
  BY DEF Moved
<1>3. DirTypeOK'
  BY <1>2, FilesTyped
<1> QED
  BY <1>1, <1>2, <1>3 DEF Effect, FileStep, Served, Written, Scanned

LEMMA ReturnEffect ==
    ASSUME DirTypeOK, CallsTyped, NEW p \in Process, NEW result \in Results, Return(p, result), Same,
           call[p].at # "done", call[p].op \in {"scan", "load", "full"} => result # "ok",
           call[p].op = "insert" /\ result = "ok" => call[p].at = "size"
    PROVE  Effect(p)
<1>1. Moved(p, "done", result)
  BY ReturnTyped
<1> QED
  BY <1>1, MoveEffect

LEMMA GotoEffect ==
    ASSUME DirTypeOK, CallsTyped, NEW p \in Process, NEW at \in Points \ {"start", "size", "measure", "done"}, Goto(p, at), Same,
           call[p].at # "done", call[p].op # "scan"
    PROVE  Effect(p)
<1>1. Moved(p, at, call[p].result)
  BY GotoTyped
<1> QED
  BY <1>1, MoveEffect

LEMMA WriteTemporaryEffect ==
    ASSUME DirTypeOK, CallsTyped, NEW p \in Process, WriteTemporary(p)
    PROVE  Effect(p)
<1>1. call[p].op = "insert" /\ call[p].at = "start" /\ Same
  BY DEF WriteTemporary, At, Same
<1>2. CASE Goto(p, "rename")
  BY <1>1, <1>2, GotoEffect DEF Points
<1>3. CASE Return(p, "error")
  BY <1>1, <1>3, ReturnEffect DEF Results
<1> QED
  BY <1>2, <1>3 DEF WriteTemporary

LEMMA RenameEffect ==
    ASSUME DirTypeOK, CallsTyped, NEW p \in Process, Rename(p)
    PROVE  Effect(p)
<1> DEFINE k == call[p].key
           b == call[p].body
<1>1. call[p].op = "insert" /\ call[p].at = "rename" /\ k \in Key /\ b \in Body
  BY DEF Rename, At, CallsTyped, Keyed
<1>2. CASE Replace(p)
  <2>1. Replaced(k, b) /\ Goto(p, "size")
    BY <1>2 DEF Replace, Replaced, Put, Rename
  <2>2. Moved(p, "size", call[p].result)
    BY <2>1, GotoTyped DEF Points
  <2>3. call'[p].op = "insert" /\ call'[p].at = "size" /\ call'[p].key = k
    BY <1>1, <2>2, MovedFields
  <2>4. call' \in [Process -> CallRecords] /\ CallsTyped' /\ \A q \in Process \ {p} : call'[q] = call[q]
    BY <2>2 DEF Moved
  <2>5. DirTypeOK'
    BY <1>1, <2>1, <2>4, FilesTyped
  <2> QED
    BY <1>1, <2>1, <2>3, <2>4, <2>5 DEF Effect, FileStep, Served, Written, Scanned
<1>3. CASE files[k] = Folder /\ Return(p, "error") /\ UNCHANGED <<files, inserted, lost>>
  <2>1. Same
    BY <1>3 DEF Rename, Same
  <2> QED
    BY <1>1, <1>3, <2>1, ReturnEffect DEF Results
<1> QED
  BY <1>2, <1>3 DEF Rename

LEMMA SizeEffect ==
    ASSUME DirTypeOK, CallsTyped, NEW p \in Process, Size(p)
    PROVE  Effect(p)
<1>1. call[p].op = "insert" /\ call[p].at = "size" /\ Same
  BY DEF Size, At, Same
<1>2. PICK result \in {"error", "ok"} : Return(p, result)
  BY DEF Size
<1> QED
  BY <1>1, <1>2, ReturnEffect DEF Results

LEMMA ProbeEffect ==
    ASSUME DirTypeOK, CallsTyped, NEW p \in Process, Probe(p)
    PROVE  Effect(p)
<1>1. call[p].op \in {"shallow", "full", "load"} /\ call[p].at = "start" /\ Same
  BY DEF Probe, At, Same
<1>2. Goto(p, "read") \/ \E result \in {"error", "missing", "invalid"} : Return(p, result)
  BY DEF Probe
<1>3. CASE Goto(p, "read")
  BY <1>1, <1>3, GotoEffect DEF Points
<1>4. ASSUME NEW result \in {"error", "missing", "invalid"}, Return(p, result)
      PROVE  Effect(p)
  BY <1>1, <1>4, ReturnEffect DEF Results
<1> QED
  BY <1>2, <1>3, <1>4

LEMMA ReadEffect ==
    ASSUME DirTypeOK, CallsTyped, NEW p \in Process, Read(p)
    PROVE  Effect(p)
<1> DEFINE k == call[p].key
           f == files[k]
           r == [call[p] EXCEPT !.at = "done", !.result = "ok", !.found = {f}]
<1>1. call[p].op \in {"shallow", "full", "load"} /\ call[p].at = "read" /\ Same /\ k \in Key
  BY DEF Read, At, Same, CallsTyped, Keyed
<1>2. \/ \E result \in {"error", "missing", "invalid"} : Return(p, result)
      \/ Valid(call[p].op, f, k) /\ call' = [call EXCEPT ![p] = r]
  BY DEF Read
<1>3. CASE Valid(call[p].op, f, k) /\ call' = [call EXCEPT ![p] = r]
  <2>1. f \in {Absent, Folder} \cup Files /\ call[p] \in CallRecords
    BY <1>1 DEF DirTypeOK
  <2>2. f \in Files /\ f.key = k
    BY <1>3, <2>1, FileTyped DEF Valid
  <2>3. r \in CallRecords /\ r.op = call[p].op /\ r.body = call[p].body /\ r.key = k
        /\ r.at = "done" /\ r.found = {f}
    BY <2>1, <2>2 DEF CallRecords
  <2>4. call[p].op # "shallow" => Whole(k)
    BY <1>1, <1>3, <2>2 DEF Valid, Whole
  <2> HIDE DEF r
  <2>5. /\ call' \in [Process -> CallRecords] /\ CallsTyped'
        /\ call'[p] = r /\ \A q \in Process \ {p} : call'[q] = call[q]
    BY <1>3, <2>3, CallMoved
  <2>6. DirTypeOK'
    BY <1>1, <2>5, FilesTyped
  <2> QED
    BY <1>1, <2>3, <2>4, <2>5, <2>6 DEF Effect, FileStep, Served, Written, Scanned
<1>4. ASSUME NEW result \in {"error", "missing", "invalid"}, Return(p, result)
      PROVE  Effect(p)
  BY <1>1, <1>4, ReturnEffect DEF Results
<1> QED
  BY <1>2, <1>3, <1>4

LEMMA RemoveFileEffect ==
    ASSUME DirTypeOK, CallsTyped, NEW p \in Process, RemoveFile(p)
    PROVE  Effect(p)
<1> DEFINE k == call[p].key
<1>1. call[p].op = "remove" /\ call[p].at = "start" /\ k \in Key
  BY DEF RemoveFile, At, CallsTyped, Keyed
<1>2. CASE IsFile(files[k])
  <2>1. Dropped(k) /\ Return(p, "ok")
    BY <1>2 DEF RemoveFile, Dropped, Put
  <2>2. Moved(p, "done", "ok")
    BY <2>1, ReturnTyped DEF Results
  <2>3. call'[p].op = "remove" /\ call'[p].at = "done" /\ call'[p].key = k
    BY <1>1, <2>2, MovedFields
  <2>4. call' \in [Process -> CallRecords] /\ CallsTyped' /\ \A q \in Process \ {p} : call'[q] = call[q]
    BY <2>2 DEF Moved
  <2>5. DirTypeOK'
    BY <1>1, <2>1, <2>4, FilesTyped
  <2> QED
    BY <1>1, <2>1, <2>3, <2>4, <2>5 DEF Effect, FileStep, Served, Written, Scanned
<1>3. CASE ~IsFile(files[k])
  <2>1. Same /\ \E result \in {"error", "missing"} : Return(p, result)
    BY <1>3 DEF RemoveFile, Same
  <2> QED
    BY <1>1, <2>1, ReturnEffect DEF Results
<1> QED
  BY <1>2, <1>3

LEMMA ListEffect ==
    ASSUME DirTypeOK, CallsTyped, NEW p \in Process, List(p)
    PROVE  Effect(p)
<1> DEFINE todo == {k \in Key : IsFile(files[k])}
           r == [call[p] EXCEPT !.at = "each", !.todo = todo]
<1>1. call[p].op \in {"clear", "scan"} /\ call[p].at = "start" /\ Same
  BY DEF List, At, Same
<1>2. call[p] \in CallRecords
  BY DEF DirTypeOK
<1>3. r \in CallRecords /\ r.op = call[p].op /\ r.body = call[p].body /\ r.key = call[p].key
      /\ r.at = "each" /\ r.todo = todo
  BY <1>2 DEF CallRecords
<1>4. call' = [call EXCEPT ![p] = r]
  BY DEF List
<1> HIDE DEF r
<1>5. /\ call' \in [Process -> CallRecords] /\ CallsTyped'
      /\ call'[p] = r /\ \A q \in Process \ {p} : call'[q] = call[q]
  BY <1>3, <1>4, CallMoved
<1>6. \A k \in Key : Whole(k) => k \in Seen(r)
  BY <1>3 DEF Whole, FromBytes, Seen
<1>7. DirTypeOK'
  BY <1>1, <1>5, FilesTyped
<1> QED
  BY <1>1, <1>3, <1>5, <1>6, <1>7 DEF Effect, FileStep, Served, Written, Scanned

LEMMA ClearOneEffect ==
    ASSUME DirTypeOK, CallsTyped, NEW p \in Process, ClearOne(p)
    PROVE  Effect(p)
<1>1. call[p].op = "clear" /\ call[p].at = "each"
  BY DEF ClearOne, At
<1>2. PICK k \in call[p].todo :
          /\ IF files[k] = Folder THEN Return(p, "error") ELSE call' = [call EXCEPT ![p].todo = @ \ {k}]
          /\ IF IsFile(files[k]) THEN Put(k, Absent) /\ lost' = lost \cup {k} ELSE UNCHANGED <<files, lost>>
  BY DEF ClearOne
<1> DEFINE r == [call[p] EXCEPT !.todo = @ \ {k}]
<1>3. call[p] \in CallRecords
  BY DEF DirTypeOK
<1>4. k \in Key
  BY <1>3 DEF CallRecords
<1>5. Same \/ Dropped(k)
  BY <1>2 DEF ClearOne, Same, Dropped, Put
<1>6. CASE files[k] = Folder
  <2>1. Return(p, "error") /\ Same
    BY <1>2, <1>5, <1>6 DEF Dropped, IsFile, Folder
  <2> QED
    BY <1>1, <2>1, ReturnEffect DEF Results
<1>7. CASE files[k] # Folder
  <2>1. r \in CallRecords /\ r.op = "clear" /\ r.body = call[p].body /\ r.at = "each"
    BY <1>1, <1>3 DEF CallRecords
  <2>2. call' = [call EXCEPT ![p] = r]
    BY <1>2, <1>7
  <2> HIDE DEF r
  <2>3. /\ call' \in [Process -> CallRecords] /\ CallsTyped'
        /\ call'[p] = r /\ \A q \in Process \ {p} : call'[q] = call[q]
    BY <1>1, <2>1, <2>2, CallMoved DEF Keyed
  <2>4. DirTypeOK'
    BY <1>4, <1>5, <2>3, FilesTyped
  <2>5. FileStep
    BY <1>4, <1>5 DEF FileStep
  <2> QED
    BY <1>1, <2>1, <2>3, <2>4, <2>5 DEF Effect, Served, Written, Scanned, Keyed
<1> QED
  BY <1>6, <1>7

LEMMA ScanHeaderEffect ==
    ASSUME DirTypeOK, CallsTyped, NEW p \in Process, ScanHeader(p)
    PROVE  Effect(p)
<1>1. call[p].op = "scan" /\ call[p].at = "each" /\ Same
  BY DEF ScanHeader, At, Same
<1>2. PICK k \in call[p].todo :
          IF files[k] = Folder THEN Return(p, "error")
          ELSE call' = [call EXCEPT ![p] =
                  IF HasHeader(files[k]) /\ files[k].key = k /\ StageKnown(files[k])
                  THEN [[call[p] EXCEPT !.todo = @ \ {k}] EXCEPT !.at = "measure", !.key = k]
                  ELSE [call[p] EXCEPT !.todo = @ \ {k}]]
  BY DEF ScanHeader
<1>3. call[p] \in CallRecords
  BY DEF DirTypeOK
<1>4. k \in Key
  BY <1>3 DEF CallRecords
<1>5. CASE files[k] = Folder
  BY <1>1, <1>2, <1>5, ReturnEffect DEF Results
<1>6. CASE files[k] # Folder
  <2> DEFINE listed == HasHeader(files[k]) /\ files[k].key = k /\ StageKnown(files[k])
             r == IF listed THEN [[call[p] EXCEPT !.todo = @ \ {k}] EXCEPT !.at = "measure", !.key = k]
                  ELSE [call[p] EXCEPT !.todo = @ \ {k}]
  <2>1. call' = [call EXCEPT ![p] = r]
    BY <1>2, <1>6
  <2>2. Whole(k) => listed
    BY DEF Whole, FromBytes, HasHeader, StageKnown
  <2>3. /\ r \in CallRecords /\ r.op = "scan" /\ r.body = call[p].body
        /\ r.todo = call[p].todo \ {k} /\ r.found = call[p].found
        /\ listed => r.at = "measure" /\ r.key = k
        /\ ~listed => r.at = "each"
    <3>1. CASE listed
      BY <1>1, <1>3, <1>4, <3>1 DEF CallRecords
    <3>2. CASE ~listed
      BY <1>1, <1>3, <1>4, <3>2 DEF CallRecords
    <3> QED
      BY <3>1, <3>2
  <2> HIDE DEF r, listed
  <2>4. /\ call' \in [Process -> CallRecords] /\ CallsTyped'
        /\ call'[p] = r /\ \A q \in Process \ {p} : call'[q] = call[q]
    BY <1>1, <1>4, <2>1, <2>3, CallMoved DEF Keyed
  <2>5. DirTypeOK'
    BY <1>1, <2>4, FilesTyped
  <2>6. \A j \in Key : Whole(j) /\ j \in Seen(call[p]) => j \in Seen(r)
    BY <1>1, <2>2, <2>3 DEF Seen
  <2> QED
    BY <1>1, <2>3, <2>4, <2>5, <2>6 DEF Effect, FileStep, Served, Written, Scanned, Keyed
<1> QED
  BY <1>5, <1>6

LEMMA ScanSizeEffect ==
    ASSUME DirTypeOK, CallsTyped, NEW p \in Process, ScanSize(p)
    PROVE  Effect(p)
<1>1. call[p].op = "scan" /\ call[p].at = "measure" /\ Same /\ call[p].key \in Key
  BY DEF ScanSize, At, Same, CallsTyped
<1>2. CASE files[call[p].key] = Absent
  BY <1>1, <1>2, ReturnEffect DEF ScanSize, Results
<1>3. CASE files[call[p].key] # Absent
  <2> DEFINE r == [call[p] EXCEPT !.at = "each", !.found = @ \cup {call[p].key}]
  <2>1. call' = [call EXCEPT ![p] = r]
    BY <1>3 DEF ScanSize
  <2>2. call[p] \in CallRecords
    BY DEF DirTypeOK
  <2>3. /\ r \in CallRecords /\ r.op = "scan" /\ r.body = call[p].body /\ r.at = "each"
        /\ r.todo = call[p].todo /\ r.found = call[p].found \cup {call[p].key}
    BY <1>1, <2>2 DEF CallRecords
  <2> HIDE DEF r
  <2>4. /\ call' \in [Process -> CallRecords] /\ CallsTyped'
        /\ call'[p] = r /\ \A q \in Process \ {p} : call'[q] = call[q]
    BY <1>1, <2>1, <2>3, CallMoved DEF Keyed
  <2>5. DirTypeOK'
    BY <1>1, <2>4, FilesTyped
  <2>6. \A j \in Key : j \in Seen(call[p]) => j \in Seen(r)
    BY <1>1, <2>3 DEF Seen
  <2> QED
    BY <1>1, <2>3, <2>4, <2>5, <2>6 DEF Effect, FileStep, Served, Written, Scanned, Keyed
<1> QED
  BY <1>2, <1>3

LEMMA EndOfListEffect ==
    ASSUME DirTypeOK, CallsTyped, NEW p \in Process, EndOfList(p)
    PROVE  Effect(p)
<1>1. call[p].op \in {"clear", "scan"} /\ call[p].at = "each" /\ Same /\ call[p].todo = {} /\ Return(p, "ok")
  BY DEF EndOfList, At, Same
<1>2. Moved(p, "done", "ok")
  BY <1>1, ReturnTyped DEF Results
<1>3. /\ call'[p].op = call[p].op /\ call'[p].todo = {} /\ call'[p].found = call[p].found
      /\ call'[p].at = "done" /\ call'[p].result = "ok"
  BY <1>1, <1>2, MovedFields
<1>4. call' \in [Process -> CallRecords] /\ CallsTyped' /\ \A q \in Process \ {p} : call'[q] = call[q]
  BY <1>2 DEF Moved
<1>5. DirTypeOK'
  BY <1>1, <1>4, FilesTyped
<1>6. \A j \in Key : j \in Seen(call[p]) => j \in Seen(call'[p])
  BY <1>1, <1>3 DEF Seen
<1> QED
  BY <1>1, <1>3, <1>4, <1>5, <1>6 DEF Effect, FileStep, Served, Written, Scanned, Keyed

LEMMA CallStepEffect ==
    ASSUME DirTypeOK, CallsTyped, NEW p \in Process, CallStep(p)
    PROVE  Effect(p)
BY WriteTemporaryEffect, RenameEffect, SizeEffect, ProbeEffect, ReadEffect, RemoveFileEffect,
   ListEffect, ClearOneEffect, ScanHeaderEffect, ScanSizeEffect, EndOfListEffect DEF CallStep

-----------------------------------------------------------------------------
(* What the worker knows while it runs a job.                              *)

Kept(k) == k \in taken \/ Whole(k)
Known(k) == \E e \in inserted : e[1] = k
Succeeded == call[Worker].at = "done" /\ call[Worker].result = "ok"
InsertInv ==
    job.at = "insert" =>
        /\ call[Worker].op = "insert" /\ call[Worker].key = First.key
        /\ job.name = "rebuild" => First.key \in Source
        /\ call[Worker].at = "size" \/ Succeeded => Kept(First.key) /\ Known(First.key)
CheckInv ==
    job.at = "check" =>
        /\ call[Worker].op = "full" /\ call[Worker].key = First.key
        /\ Succeeded => Kept(First.key)
RecordInv == job.at = "record" => Known(First.key)
ScanInv ==
    job.at = "scan" =>
        /\ call[Worker].op = "scan" /\ job.queue = <<>>
        /\ call[Worker].at \notin {"start", "done"} \/ Succeeded => job.done \ taken \subseteq Seen(call[Worker])
        /\ Succeeded => call[Worker].todo = {}
DoneInv ==
    /\ \A k \in job.done : Kept(k)
    /\ job.name = "rebuild" => job.done \subseteq Source
ReportedInv ==
    job.at = "reported" =>
        job.queue = <<>> /\ (job.name = "rebuild" => job.done \ taken \subseteq job.native)
\* The hot shader at hand has been counted already.
Pending == IF job.name = "aot" /\ job.at \in {"check", "insert"} /\ First.hot THEN 1 ELSE 0
CountInv ==
    LET r == job.report
    IN  /\ r.ok + r.skipped + r.failed + Len(job.queue) = r.total
        /\ r.already <= r.ok /\ r.hotOk <= r.ok
        /\ r.hotOk + Pending <= r.hotTotal
        /\ job.name = "aot" /\ r.failed = 0 => r.hotOk + Pending = r.hotTotal
CallInv == InsertInv /\ CheckInv /\ RecordInv /\ ScanInv
JobInv == CallInv /\ DoneInv /\ ReportedInv /\ CountInv

LEMMA QueueTyped ==
    ASSUME JobTyped, job.queue # <<>>
    PROVE  /\ First \in Item /\ First.key \in Key /\ Rest \in Seq(Item) /\ Len(Rest) = Len(job.queue) - 1
           /\ Len(job.queue) \in Nat /\ Len(Rest) \in Nat
           /\ job.name = "aot" => First \in ShaderInput /\ Rest \in Seq(ShaderInput)
<1>1. job.queue \in Seq(Item) /\ (job.name = "aot" => job.queue \in Seq(ShaderInput))
  BY DEF JobTyped
<1>2. First \in Item /\ Rest \in Seq(Item) /\ Len(Rest) = Len(job.queue) - 1 /\ Len(job.queue) \in Nat /\ Len(Rest) \in Nat
  BY <1>1 DEF First, Rest
<1>3. First.key \in Key
  BY <1>2 DEF Item, ShaderInput
<1>4. job.name = "aot" => First \in ShaderInput /\ Rest \in Seq(ShaderInput)
  BY <1>1 DEF First, Rest
<1> QED
  BY <1>2, <1>3, <1>4

Jobs1 == {"none", "jit", "rebuild", "aot", "ready"}
Points1 == {"none", "insert", "record", "next", "scan", "check", "reported"}

LEMMA StartFields ==
    ASSUME NEW name \in Jobs1, NEW at \in Points1, NEW queue \in Seq(Item), Start(name, at, queue),
           name = "aot" => queue \in Seq(ShaderInput),
           at \in {"insert", "record", "check"} => queue # <<>>
    PROVE  /\ JobTyped'
           /\ job'.name = name /\ job'.at = at /\ job'.queue = queue /\ job'.done = {}
           /\ job'.report = [Report EXCEPT !.total = Len(queue)]
<1>1. job' = [name |-> name, at |-> at, queue |-> queue, done |-> {},
              report |-> [Report EXCEPT !.total = Len(queue)], native |-> {}]
  BY DEF Start, NoJob
<1>2. [Report EXCEPT !.total = Len(queue)] \in Counters
  BY DEF Report, Counters
<1> DEFINE counts == [Report EXCEPT !.total = Len(queue)]
<1> HIDE DEF counts
<1>3. counts \in Counters
  BY <1>2 DEF counts
<1>4. job' = [name |-> name, at |-> at, queue |-> queue, done |-> {}, report |-> counts, native |-> {}]
  BY <1>1 DEF counts
<1>5. JobTyped'
  BY <1>3, <1>4 DEF JobTyped, Jobs1, Points1
<1> QED
  BY <1>4, <1>5 DEF counts

LEMMA CountFields ==
    ASSUME JobTyped, job.queue # <<>>, NEW field \in {"ok", "skipped", "failed"}, NEW done \in SUBSET Key, Count(field, done)
    PROVE  /\ JobTyped'
           /\ job'.name = job.name /\ job'.at = "next" /\ job'.queue = Rest /\ job'.done = job.done \cup done
           /\ job'.report = [job.report EXCEPT ![field] = @ + 1]
<1>1. job.report \in Counters
  BY DEF JobTyped
<1>2. [job.report EXCEPT ![field] = @ + 1] \in Counters
  BY <1>1 DEF Counters
<1> DEFINE counts == [job.report EXCEPT ![field] = @ + 1]
<1>3. job' = [job EXCEPT !.at = "next", !.queue = Rest, !.report = counts, !.done = @ \cup done]
  BY DEF Count
<1>4. counts \in Counters
  BY <1>2
<1> HIDE DEF counts
<1>5. /\ job'.name = job.name /\ job'.at = "next" /\ job'.queue = Rest /\ job'.done = job.done \cup done
      /\ job'.report = counts
  BY <1>3 DEF JobTyped
<1>6. JobTyped'
  BY <1>3, <1>4, <1>5, QueueTyped DEF JobTyped
<1> QED
  BY <1>5, <1>6 DEF counts

LEMMA CachedFields ==
    ASSUME JobTyped, job.queue # <<>>, job.name = "aot", NEW field, Cached(field)
    PROVE  /\ JobTyped'
           /\ job'.name = "aot" /\ job'.at = "next" /\ job'.queue = Rest /\ job'.done = job.done \cup {First.key}
           /\ job'.report = [job.report EXCEPT !.ok = @ + 1, !.already = IF field = "already" THEN @ + 1 ELSE @,
                                               !.hotOk = IF First.hot THEN @ + 1 ELSE @]
<1> DEFINE counts == [job.report EXCEPT !.ok = @ + 1, !.already = IF field = "already" THEN @ + 1 ELSE @,
                                        !.hotOk = IF First.hot THEN @ + 1 ELSE @]
<1>1. job.report \in Counters
  BY DEF JobTyped
<1>2. counts \in Counters
  <2> DEFINE already == IF field = "already" THEN job.report.already + 1 ELSE job.report.already
             hotOk == IF First.hot THEN job.report.hotOk + 1 ELSE job.report.hotOk
  <2>3. job.report.ok \in Nat /\ job.report.already \in Nat /\ job.report.hotOk \in Nat
    BY <1>1 DEF Counters
  <2>1. already \in Nat /\ hotOk \in Nat /\ job.report.ok + 1 \in Nat
    BY <2>3
  <2>2. counts = [job.report EXCEPT !.ok = @ + 1, !.already = already, !.hotOk = hotOk]
    OBVIOUS
  <2> HIDE DEF already, hotOk
  <2> QED
    BY <1>1, <2>1, <2>2 DEF Counters
<1>3. job' = [job EXCEPT !.at = "next", !.queue = Rest, !.report = counts, !.done = @ \cup {First.key}]
  BY DEF Cached
<1> HIDE DEF counts
<1>4. /\ job'.name = "aot" /\ job'.at = "next" /\ job'.queue = Rest /\ job'.done = job.done \cup {First.key}
      /\ job'.report = counts
  BY <1>3 DEF JobTyped
<1>5. JobTyped'
  BY <1>2, <1>3, <1>4, QueueTyped DEF JobTyped
<1> QED
  BY <1>4, <1>5 DEF counts

\* The counters after each kind of step.
LEMMA StartCounts ==
    ASSUME NEW name \in Jobs1, NEW at \in Points1, NEW queue \in Seq(Item),
           job'.name = name, job'.at = at, job'.queue = queue,
           job'.report = [Report EXCEPT !.total = Len(queue)],
           at \notin {"insert", "check"} \/ name # "aot"
    PROVE  CountInv'
<1>1. /\ job'.report.ok = 0 /\ job'.report.already = 0 /\ job'.report.skipped = 0 /\ job'.report.failed = 0
      /\ job'.report.total = Len(queue) /\ job'.report.hotTotal = 0 /\ job'.report.hotOk = 0
  BY DEF Report
<1>2. Pending' = 0
  BY DEF Pending
<1>3. Len(queue) \in Nat
  OBVIOUS
<1> QED
  BY <1>1, <1>2, <1>3 DEF CountInv

LEMMA CountCounts ==
    ASSUME JobTyped, CountInv, job.queue # <<>>, NEW field \in {"ok", "skipped", "failed"},
           job.name = "aot" => field = "failed",
           job'.name = job.name, job'.at = "next", job'.queue = Rest,
           job'.report = [job.report EXCEPT ![field] = @ + 1]
    PROVE  CountInv'
<1> DEFINE r == job.report
           s == job'.report
<1>1. r \in Counters
  BY DEF JobTyped
<1>2. /\ s.ok = r.ok + (IF field = "ok" THEN 1 ELSE 0) /\ s.skipped = r.skipped + (IF field = "skipped" THEN 1 ELSE 0)
      /\ s.failed = r.failed + (IF field = "failed" THEN 1 ELSE 0)
      /\ s.already = r.already /\ s.total = r.total /\ s.hotTotal = r.hotTotal /\ s.hotOk = r.hotOk
  BY <1>1 DEF Counters
<1>3. Pending' = 0 /\ Pending \in {0, 1}
  BY DEF Pending
<1>4. /\ r.ok \in Nat /\ r.already \in Nat /\ r.skipped \in Nat /\ r.failed \in Nat
      /\ r.total \in Nat /\ r.hotTotal \in Nat /\ r.hotOk \in Nat
  BY <1>1 DEF Counters
<1>5. Len(job'.queue) = Len(job.queue) - 1 /\ Len(job.queue) \in Nat
  BY QueueTyped
<1>6. /\ r.ok + r.skipped + r.failed + Len(job.queue) = r.total
      /\ r.already <= r.ok /\ r.hotOk <= r.ok /\ r.hotOk + Pending <= r.hotTotal
  BY DEF CountInv
<1> HIDE DEF r, s
<1>7. /\ s.ok + s.skipped + s.failed + Len(job'.queue) = s.total
      /\ s.already <= s.ok /\ s.hotOk <= s.ok /\ s.hotOk + Pending' <= s.hotTotal
      /\ job'.name = "aot" => s.failed # 0
  <2>0. /\ s.ok \in Nat /\ s.skipped \in Nat /\ s.failed \in Nat /\ s.already \in Nat
        /\ s.total \in Nat /\ s.hotTotal \in Nat /\ s.hotOk \in Nat
    BY <1>2, <1>4
  <2>1. s.ok + s.skipped + s.failed = r.ok + r.skipped + r.failed + 1
    <3>1. CASE field = "ok"
      <4>1. s.ok = r.ok + 1 /\ s.skipped = r.skipped /\ s.failed = r.failed
        BY <1>2, <1>4, <3>1
      <4> QED
        BY ONLY <1>4, <4>1
    <3>2. CASE field = "skipped"
      <4>1. s.ok = r.ok /\ s.skipped = r.skipped + 1 /\ s.failed = r.failed
        BY <1>2, <1>4, <3>2
      <4> QED
        BY ONLY <1>4, <4>1
    <3>3. CASE field = "failed"
      <4>1. s.ok = r.ok /\ s.skipped = r.skipped /\ s.failed = r.failed + 1
        BY <1>2, <1>4, <3>3
      <4> QED
        BY ONLY <1>4, <4>1
    <3> QED
      BY <3>1, <3>2, <3>3
  <2>2. s.ok + s.skipped + s.failed + Len(job'.queue) = s.total
    <3>2. s.ok + s.skipped + s.failed \in Nat /\ r.ok + r.skipped + r.failed \in Nat
      BY ONLY <1>4, <2>0
    <3> DEFINE a == s.ok + s.skipped + s.failed
               b == r.ok + r.skipped + r.failed
               m == Len(job.queue)
               n == Len(job'.queue)
    <3>3. a \in Nat /\ b \in Nat /\ a = b + 1
      BY ONLY <2>1, <3>2
    <3>4. b + m = r.total /\ n = m - 1 /\ m \in Nat
      BY <1>5, <1>6
    <3> HIDE DEF a, b, m, n
    <3>5. a + n = b + m
      BY ONLY <3>3, <3>4
    <3>6. a + n = s.total
      BY ONLY <1>2, <3>4, <3>5
    <3> QED
      BY <3>6 DEF a, n
  <2>3. s.already <= s.ok /\ s.hotOk <= s.ok
    BY ONLY <1>2, <1>4, <1>6, <2>0
  <2>4. s.hotOk + Pending' <= s.hotTotal
    <3>1. r.hotOk <= r.hotTotal
      BY ONLY <1>3, <1>4, <1>6
    <3> QED
      BY ONLY <1>2, <1>3, <1>4, <3>1
  <2>5. job'.name = "aot" => s.failed # 0
    BY <1>2, <1>4
  <2> QED
    BY <2>2, <2>3, <2>4, <2>5
<1> QED
  BY <1>7 DEF CountInv, s

LEMMA CachedCounts ==
    ASSUME JobTyped, CountInv, job.queue # <<>>, job.name = "aot", job.at \in {"check", "insert"}, NEW field,
           job'.name = "aot", job'.at = "next", job'.queue = Rest,
           job'.report = [job.report EXCEPT !.ok = @ + 1, !.already = IF field = "already" THEN @ + 1 ELSE @,
                                            !.hotOk = IF First.hot THEN @ + 1 ELSE @]
    PROVE  CountInv'
<1> DEFINE r == job.report
           s == job'.report
<1>1. r \in Counters
  BY DEF JobTyped
<1>2. /\ s.ok = r.ok + 1 /\ s.skipped = r.skipped /\ s.failed = r.failed
      /\ s.already = r.already \/ s.already = r.already + 1
      /\ s.total = r.total /\ s.hotTotal = r.hotTotal
      /\ s.hotOk = IF First.hot THEN r.hotOk + 1 ELSE r.hotOk
  BY <1>1 DEF Counters
<1>3. Pending' = 0 /\ Pending = IF First.hot THEN 1 ELSE 0
  BY DEF Pending
<1>4. /\ r.ok \in Nat /\ r.already \in Nat /\ r.skipped \in Nat /\ r.failed \in Nat
      /\ r.total \in Nat /\ r.hotTotal \in Nat /\ r.hotOk \in Nat
  BY <1>1 DEF Counters
<1>5. Len(job'.queue) = Len(job.queue) - 1 /\ Len(job.queue) \in Nat
  BY QueueTyped
<1>6. /\ r.ok + r.skipped + r.failed + Len(job.queue) = r.total
      /\ r.already <= r.ok /\ r.hotOk <= r.ok /\ r.hotOk + Pending <= r.hotTotal
      /\ r.failed = 0 => r.hotOk + Pending = r.hotTotal
  BY DEF CountInv
<1> HIDE DEF r, s
<1>7. s.hotOk + Pending' = r.hotOk + Pending /\ s.hotOk <= r.hotOk + 1
  BY ONLY <1>2, <1>3, <1>4
<1>8. /\ s.ok + s.skipped + s.failed + Len(job'.queue) = s.total
      /\ s.already <= s.ok /\ s.hotOk <= s.ok /\ s.hotOk + Pending' <= s.hotTotal
      /\ s.failed = 0 => s.hotOk + Pending' = s.hotTotal
  <2>0. /\ s.ok \in Nat /\ s.skipped \in Nat /\ s.failed \in Nat /\ s.already \in Nat
        /\ s.total \in Nat /\ s.hotTotal \in Nat /\ s.hotOk \in Nat
    BY <1>2, <1>4
  <2>1. s.ok + s.skipped + s.failed = r.ok + r.skipped + r.failed + 1
    BY <1>2, <1>4
  <2>2. s.ok + s.skipped + s.failed + Len(job'.queue) = s.total
    <3>2. s.ok + s.skipped + s.failed \in Nat /\ r.ok + r.skipped + r.failed \in Nat
      BY ONLY <1>4, <2>0
    <3> DEFINE a == s.ok + s.skipped + s.failed
               b == r.ok + r.skipped + r.failed
               m == Len(job.queue)
               n == Len(job'.queue)
    <3>3. a \in Nat /\ b \in Nat /\ a = b + 1
      BY ONLY <2>1, <3>2
    <3>4. b + m = r.total /\ n = m - 1 /\ m \in Nat
      BY <1>5, <1>6
    <3> HIDE DEF a, b, m, n
    <3>5. a + n = b + m
      BY ONLY <3>3, <3>4
    <3>6. a + n = s.total
      BY ONLY <1>2, <3>4, <3>5
    <3> QED
      BY <3>6 DEF a, n
  <2>3. s.already <= s.ok /\ s.hotOk <= s.ok
    BY ONLY <1>2, <1>4, <1>6, <1>7, <2>0
  <2>4. s.hotOk + Pending' <= s.hotTotal
    BY ONLY <1>2, <1>6, <1>7
  <2>5. s.failed = 0 => s.hotOk + Pending' = s.hotTotal
    BY ONLY <1>2, <1>6, <1>7
  <2> QED
    BY <2>2, <2>3, <2>4, <2>5
<1> QED
  BY <1>8 DEF CountInv, s

-----------------------------------------------------------------------------
(* The steps of the jobs.                                                  *)

LEMMA WorkerCall ==
    ASSUME DirTypeOK, CallsTyped, NEW op \in Ops, NEW k \in Key \cup {"none"}, NEW b \in Body \cup {"none"},
           op \in Keyed => k \in Key, op = "insert" => b \in Body, Call(Worker, op, k, b), Same
    PROVE  /\ DirTypeOK' /\ CallsTyped'
           /\ call'[Worker].op = op /\ call'[Worker].key = k /\ call'[Worker].at = "start"
<1>1. Worker \in Process
  BY ClientAssumption
<1>2. DirTypeOK' /\ CallsTyped'
  BY <1>1, CallTyped DEF Same
<1>3. call'[Worker] = [Idle EXCEPT !.op = op, !.at = "start", !.key = k, !.body = b]
  BY <1>1 DEF Call, DirTypeOK
<1> QED
  BY <1>2, <1>3 DEF Idle

LEMMA CallsUnchanged ==
    ASSUME DirTypeOK, CallsTyped, UNCHANGED dirVars
    PROVE  DirTypeOK' /\ CallsTyped' /\ Same
BY DEF DirTypeOK, CallsTyped, dirVars, Same

LEMMA KeptSame ==
    ASSUME Same, taken' = taken
    PROVE  \A k : (Kept(k) => Kept(k)') /\ (Known(k) => Known(k)')
BY DEF Same, Kept, Known, Whole

\* Between calls nothing is known about the worker's call.
LEMMA BetweenCalls ==
    ASSUME job'.at \in {"none", "next", "reported"}
    PROVE  CallInv'
BY DEF CallInv, InsertInv, CheckInv, RecordInv, ScanInv

LEMMA GiveStep ==
    ASSUME Give
    PROVE  JobTyped' /\ JobInv'
<1>1. job' = NoJob
  BY DEF Give
<1>2. Report \in Counters
  BY DEF Report, Counters
<1>3. /\ job'.name = "none" /\ job'.at = "none" /\ job'.queue = <<>> /\ job'.done = {} /\ job'.report = Report
  BY <1>1 DEF NoJob
<1>4. JobTyped'
  BY <1>1, <1>2, <1>3 DEF JobTyped, NoJob
<1>5. CallInv'
  BY <1>3, BetweenCalls
<1>6. DoneInv' /\ ReportedInv'
  BY <1>3 DEF DoneInv, ReportedInv
<1>7. Pending' = 0 /\ Len(job'.queue) = 0
  BY <1>3 DEF Pending
<1>8. /\ job'.report.ok = 0 /\ job'.report.already = 0 /\ job'.report.skipped = 0 /\ job'.report.failed = 0
      /\ job'.report.total = 0 /\ job'.report.hotTotal = 0 /\ job'.report.hotOk = 0
  BY <1>3 DEF Report
<1>9. CountInv'
  BY <1>7, <1>8 DEF CountInv
<1> QED
  BY <1>4, <1>5, <1>6, <1>9 DEF JobInv

\* A job that only moves on keeps its books.
LEMMA JobMoved ==
    ASSUME JobTyped, DoneInv, CountInv, Same, taken' = taken, NEW at \in Points1,
           job' = [job EXCEPT !.at = at], Pending' = Pending,
           at \in {"insert", "record", "check"} => job.queue # <<>>
    PROVE  /\ JobTyped' /\ DoneInv' /\ CountInv'
           /\ job'.name = job.name /\ job'.at = at /\ job'.queue = job.queue /\ job'.done = job.done
<1>1. /\ job'.name = job.name /\ job'.at = at /\ job'.queue = job.queue /\ job'.done = job.done /\ job'.report = job.report
  BY DEF JobTyped
<1>2. JobTyped'
  BY <1>1 DEF JobTyped, Points1
<1>3. DoneInv'
  BY <1>1, KeptSame DEF DoneInv
<1>4. CountInv'
  BY <1>1 DEF CountInv
<1> QED
  BY <1>1, <1>2, <1>3, <1>4

LEMMA JitMissingStep ==
    ASSUME TypeOK, JobInv, NEW pc \in Key, JitMissing(pc)
    PROVE  Same /\ TypeOK' /\ JobInv'
<1> DEFINE queue == <<[key |-> pc]>>
<1>1. Same /\ taken' = {} /\ UNCHANGED <<profile, blocks>>
  BY DEF JitMissing, Same, Start
<1>2. queue \in Seq(Item) /\ queue # <<>> /\ queue[1].key = pc /\ Len(queue) = 1
  BY DEF Item
<1>3. Start("jit", "insert", queue) /\ Call(Worker, "insert", pc, "code")
  BY DEF JitMissing
<1> HIDE DEF queue
<1>4. /\ JobTyped'
      /\ job'.name = "jit" /\ job'.at = "insert" /\ job'.queue = queue /\ job'.done = {}
      /\ job'.report = [Report EXCEPT !.total = Len(queue)]
  BY <1>2, <1>3, StartFields DEF Jobs1, Points1
<1>5. /\ DirTypeOK' /\ CallsTyped'
      /\ call'[Worker].op = "insert" /\ call'[Worker].key = pc /\ call'[Worker].at = "start"
  BY <1>1, <1>3, WorkerCall, ClientAssumption DEF TypeOK, Ops, Keyed
<1>6. CallInv'
  BY <1>2, <1>4, <1>5 DEF CallInv, InsertInv, CheckInv, RecordInv, ScanInv, First, Succeeded
<1>7. DoneInv' /\ ReportedInv'
  BY <1>4 DEF DoneInv, ReportedInv
<1>8. CountInv'
  BY <1>2, <1>4, StartCounts DEF Jobs1, Points1
<1> QED
  BY <1>1, <1>4, <1>5, <1>6, <1>7, <1>8 DEF TypeOK, JobInv

LEMMA JitInsertedStep ==
    ASSUME TypeOK, JobInv, JitInserted
    PROVE  Same /\ TypeOK' /\ JobInv'
<1>1. /\ job.name = "jit" /\ job.at = "insert" /\ call[Worker].at = "done"
      /\ UNCHANGED <<dirVars, profile, blocks, taken>>
  BY DEF JitInserted, In, Returned, Ready
<1>2. DirTypeOK' /\ CallsTyped' /\ Same
  BY <1>1, CallsUnchanged DEF TypeOK
<1>3. CASE call[Worker].result = "ok"
  <2>1. job' = [job EXCEPT !.at = "record"]
    BY <1>3 DEF JitInserted
  <2>2. job'.name = job.name
    BY <2>1 DEF TypeOK, JobTyped
  <2>3. Pending' = Pending
    BY <1>1, <2>2 DEF Pending
  <2>4. /\ JobTyped' /\ DoneInv' /\ CountInv'
        /\ job'.at = "record" /\ job'.queue = job.queue
    BY <1>1, <1>2, <2>1, <2>3, JobMoved DEF TypeOK, JobInv, JobTyped, Points1
  <2>5. Known(First.key)
    BY <1>1, <1>3 DEF JobInv, CallInv, InsertInv, Succeeded
  <2>6. CallInv' /\ ReportedInv'
    BY <1>1, <1>2, <2>4, <2>5, KeptSame DEF CallInv, InsertInv, CheckInv, RecordInv, ScanInv, ReportedInv, First
  <2> QED
    BY <1>1, <1>2, <2>4, <2>6 DEF TypeOK, JobInv
<1>4. CASE call[Worker].result # "ok"
  BY <1>1, <1>2, <1>4, GiveStep DEF JitInserted, TypeOK
<1> QED
  BY <1>3, <1>4

LEMMA JitRecordStep ==
    ASSUME TypeOK, JobInv, JitRecord
    PROVE  Same /\ TypeOK' /\ JobInv'
<1>1. job.at = "record" /\ Give /\ UNCHANGED <<dirVars, taken>>
  BY DEF JitRecord, In
<1>2. First.key \in Key
  BY <1>1, QueueTyped DEF TypeOK, JobTyped
<1>3. profile' \subseteq Key /\ blocks' \subseteq Key
  BY <1>2 DEF JitRecord, TypeOK
<1> QED
  BY <1>1, <1>3, CallsUnchanged, GiveStep DEF TypeOK

\* A job that begins without a call.
LEMMA StartStep ==
    ASSUME TypeOK, JobInv, NEW name \in Jobs1, NEW queue \in Seq(Item), name = "aot" => queue \in Seq(ShaderInput),
           Start(name, "next", queue), UNCHANGED dirVars
    PROVE  Same /\ TypeOK' /\ JobInv'
<1>1. /\ JobTyped'
      /\ job'.name = name /\ job'.at = "next" /\ job'.queue = queue /\ job'.done = {}
      /\ job'.report = [Report EXCEPT !.total = Len(queue)]
  BY StartFields DEF Points1
<1>2. CallInv'
  BY <1>1, BetweenCalls
<1>3. DoneInv' /\ ReportedInv'
  BY <1>1 DEF DoneInv, ReportedInv
<1>4. CountInv'
  BY <1>1, StartCounts DEF Points1
<1>5. taken' = {} /\ UNCHANGED <<profile, blocks>>
  BY DEF Start
<1> QED
  BY <1>1, <1>2, <1>3, <1>4, <1>5, CallsUnchanged DEF TypeOK, JobInv

LEMMA RebuildStep ==
    ASSUME TypeOK, JobInv, Rebuild
    PROVE  Same /\ TypeOK' /\ JobInv'
<1>1. PICK order \in SetToSeqs(profile) : Start("rebuild", "next", [i \in DOMAIN order |-> [key |-> order[i]]])
  BY DEF Rebuild
<1>2. Cardinality(profile) \in Nat
  BY ClientAssumption, FS_Subset, FS_CardinalityType DEF TypeOK
<1>3. order \in [1 .. Cardinality(profile) -> profile]
  BY DEF SetToSeqs
<1> DEFINE queue == [i \in DOMAIN order |-> [key |-> order[i]]]
<1>4. \A i \in DOMAIN order : [key |-> order[i]] \in Item
  BY <1>3 DEF Item, TypeOK
<1>5. queue \in [1 .. Cardinality(profile) -> Item]
  BY <1>3, <1>4
<1>6. queue \in Seq(Item)
  BY <1>2, <1>5
<1> HIDE DEF queue
<1>7. Start("rebuild", "next", queue) /\ UNCHANGED dirVars
  BY <1>1 DEF queue, Rebuild
<1> QED
  BY <1>6, <1>7, StartStep DEF Jobs1

\* A report that counts the item at hand.
LEMMA CountStep ==
    ASSUME TypeOK, JobInv, job.queue # <<>>, NEW field \in {"ok", "skipped", "failed"}, NEW done \in SUBSET Key,
           job.name = "aot" => field = "failed", Count(field, done), Same,
           \A k \in done : Kept(k), job.name = "rebuild" => done \subseteq Source,
           UNCHANGED <<profile, blocks, taken, call>>
    PROVE  TypeOK' /\ JobInv'
<1>1. /\ JobTyped'
      /\ job'.name = job.name /\ job'.at = "next" /\ job'.queue = Rest /\ job'.done = job.done \cup done
      /\ job'.report = [job.report EXCEPT ![field] = @ + 1]
  BY CountFields DEF TypeOK
<1>2. CallInv'
  BY <1>1, BetweenCalls
<1>3. DoneInv' /\ ReportedInv'
  BY <1>1, KeptSame DEF DoneInv, ReportedInv, JobInv
<1>4. CountInv'
  BY <1>1, CountCounts DEF TypeOK, JobInv
<1>5. UNCHANGED dirVars
  BY DEF Same, dirVars
<1> QED
  BY <1>1, <1>2, <1>3, <1>4, <1>5, CallsUnchanged DEF TypeOK, JobInv

LEMMA RebuildNextStep ==
    ASSUME TypeOK, JobInv, RebuildNext
    PROVE  Same /\ TypeOK' /\ JobInv'
<1>1. /\ job.name = "rebuild" /\ job.at = "next" /\ job.queue # <<>> /\ Same
      /\ UNCHANGED <<profile, blocks, taken>>
  BY DEF RebuildNext, In, Same
<1>2. CASE Count("skipped", {}) /\ UNCHANGED call
  BY <1>1, <1>2, CountStep
<1>3. CASE Count("failed", {}) /\ UNCHANGED call
  BY <1>1, <1>3, CountStep
<1>4. CASE First.key \in Source \ Bad /\ job' = [job EXCEPT !.at = "insert"] /\ Call(Worker, "insert", First.key, "code")
  <2>1. First.key \in Key
    BY <1>1, QueueTyped DEF TypeOK
  <2>2. /\ DirTypeOK' /\ CallsTyped'
        /\ call'[Worker].op = "insert" /\ call'[Worker].key = First.key /\ call'[Worker].at = "start"
    BY <1>1, <1>4, <2>1, WorkerCall, ClientAssumption DEF TypeOK, Ops, Keyed
  <2>3. job'.name = job.name
    BY <1>4 DEF TypeOK, JobTyped
  <2>4. Pending' = Pending
    BY <1>1, <2>3 DEF Pending
  <2>5. /\ JobTyped' /\ DoneInv' /\ CountInv'
        /\ job'.at = "insert" /\ job'.queue = job.queue
    BY <1>1, <1>4, <2>4, JobMoved DEF TypeOK, JobInv, Points1
  <2>6. CallInv' /\ ReportedInv'
    BY <1>4, <2>2, <2>5 DEF CallInv, InsertInv, CheckInv, RecordInv, ScanInv, ReportedInv, First, Succeeded
  <2> QED
    BY <1>1, <2>2, <2>5, <2>6 DEF TypeOK, JobInv
<1> QED
  BY <1>2, <1>3, <1>4 DEF RebuildNext

LEMMA RebuildInsertedStep ==
    ASSUME TypeOK, JobInv, RebuildInserted
    PROVE  Same /\ TypeOK' /\ JobInv'
<1>1. /\ job.name = "rebuild" /\ job.at = "insert" /\ call[Worker].at = "done" /\ Same
      /\ UNCHANGED <<profile, blocks, taken, call>>
  BY DEF RebuildInserted, In, Same, dirVars, Returned, Ready
<1>2. job.queue # <<>> /\ First.key \in Key
  BY <1>1, QueueTyped DEF TypeOK, JobTyped
<1>3. CASE call[Worker].result = "ok"
  <2>1. Kept(First.key) /\ First.key \in Source
    BY <1>1, <1>3 DEF JobInv, CallInv, InsertInv, Succeeded
  <2>2. Count("ok", {First.key})
    BY <1>3 DEF RebuildInserted
  <2> QED
    BY <1>1, <1>2, <2>1, <2>2, CountStep
<1>4. CASE call[Worker].result # "ok"
  <2>1. Count("failed", {})
    BY <1>4 DEF RebuildInserted
  <2> QED
    BY <1>1, <1>2, <2>1, CountStep
<1> QED
  BY <1>3, <1>4

LEMMA RebuildScanStep ==
    ASSUME TypeOK, JobInv, RebuildScan
    PROVE  Same /\ TypeOK' /\ JobInv'
<1>1. /\ job.name = "rebuild" /\ job.at = "next" /\ job.queue = <<>> /\ Same
      /\ job' = [job EXCEPT !.at = "scan"] /\ Call(Worker, "scan", "none", "none")
      /\ UNCHANGED <<profile, blocks, taken>>
  BY DEF RebuildScan, In, Same
<1>2. /\ DirTypeOK' /\ CallsTyped'
      /\ call'[Worker].op = "scan" /\ call'[Worker].at = "start"
  BY <1>1, WorkerCall DEF TypeOK, Ops, Keyed
<1>3. job'.name = job.name
  BY <1>1 DEF TypeOK, JobTyped
<1>4. Pending' = Pending
  BY <1>1, <1>3 DEF Pending
<1>5. /\ JobTyped' /\ DoneInv' /\ CountInv'
      /\ job'.at = "scan" /\ job'.queue = job.queue
  BY <1>1, <1>4, JobMoved DEF TypeOK, JobInv, Points1
<1>6. CallInv' /\ ReportedInv'
  BY <1>1, <1>2, <1>5 DEF CallInv, InsertInv, CheckInv, RecordInv, ScanInv, ReportedInv, Succeeded
<1> QED
  BY <1>1, <1>2, <1>5, <1>6 DEF TypeOK, JobInv

LEMMA RebuildScannedStep ==
    ASSUME TypeOK, JobInv, RebuildScanned
    PROVE  Same /\ TypeOK' /\ JobInv'
<1>1. /\ job.name = "rebuild" /\ job.at = "scan" /\ call[Worker].at = "done"
      /\ UNCHANGED <<dirVars, profile, blocks, taken>>
  BY DEF RebuildScanned, In, Returned, Ready
<1>2. DirTypeOK' /\ CallsTyped' /\ Same
  BY <1>1, CallsUnchanged DEF TypeOK
<1>3. CASE call[Worker].result = "ok"
  <2> DEFINE native == call[Worker].found \cap Source
  <2>1. job.queue = <<>> /\ job.done \ taken \subseteq native
    BY <1>1, <1>3 DEF JobInv, CallInv, ScanInv, DoneInv, Seen, Succeeded
  <2>2. native \subseteq Key
    BY ClientAssumption
  <2>3. job' = [job EXCEPT !.at = "reported", !.native = native]
    BY <1>3 DEF RebuildScanned
  <2> HIDE DEF native
  <2>4. /\ job'.name = "rebuild" /\ job'.at = "reported" /\ job'.queue = job.queue /\ job'.done = job.done
        /\ job'.native = native /\ job'.report = job.report
    BY <1>1, <2>3 DEF TypeOK, JobTyped
  <2>5. JobTyped'
    BY <1>1, <2>2, <2>3, <2>4 DEF TypeOK, JobTyped
  <2>6. CallInv'
    BY <2>4, BetweenCalls
  <2>7. DoneInv' /\ ReportedInv'
    BY <1>1, <1>2, <2>1, <2>4, KeptSame DEF JobInv, DoneInv, ReportedInv
  <2>8. Pending' = 0 /\ Pending = 0
    BY <1>1, <2>4 DEF Pending
  <2>9. CountInv'
    BY <1>1, <2>4, <2>8 DEF JobInv, CountInv
  <2> QED
    BY <1>1, <1>2, <2>5, <2>6, <2>7, <2>9 DEF TypeOK, JobInv
<1>4. CASE call[Worker].result # "ok"
  BY <1>1, <1>2, <1>4, GiveStep DEF RebuildScanned, TypeOK
<1> QED
  BY <1>3, <1>4

LEMMA CompileShadersStep ==
    ASSUME TypeOK, JobInv, CompileShaders
    PROVE  Same /\ TypeOK' /\ JobInv'
<1>1. PICK inputs \in Shaders : \E order \in HotFirst(inputs) :
          Start("aot", "next", [i \in DOMAIN inputs |->
                    [inputs[order[i]] EXCEPT !.hot = IsHot(inputs, inputs[order[i]])]])
  BY DEF CompileShaders
<1>2. PICK order \in HotFirst(inputs) :
          Start("aot", "next", [i \in DOMAIN inputs |->
                    [inputs[order[i]] EXCEPT !.hot = IsHot(inputs, inputs[order[i]])]])
  BY <1>1
<1> DEFINE queue == [i \in DOMAIN inputs |-> [inputs[order[i]] EXCEPT !.hot = IsHot(inputs, inputs[order[i]])]]
<1>3. inputs \in Seq(ShaderInput)
  BY ShadersAssumption
<1>4. order \in [DOMAIN inputs -> DOMAIN inputs]
  BY DEF HotFirst
<1>5. ASSUME NEW i \in DOMAIN inputs
      PROVE  queue[i] \in ShaderInput
  <2>1. inputs[order[i]] \in ShaderInput
    BY <1>3, <1>4
  <2>2. IsHot(inputs, inputs[order[i]]) \in BOOLEAN
    BY DEF IsHot
  <2> DEFINE hot == IsHot(inputs, inputs[order[i]])
             input == inputs[order[i]]
  <2>3. queue[i] = [input EXCEPT !.hot = hot]
    OBVIOUS
  <2>4. input \in ShaderInput /\ hot \in BOOLEAN
    BY <2>1, <2>2
  <2> HIDE DEF hot, input, queue
  <2> QED
    BY <2>3, <2>4 DEF ShaderInput
<1>6. DOMAIN queue = 1 .. Len(inputs) /\ Len(inputs) \in Nat
  BY <1>3
<1>7. queue \in [1 .. Len(inputs) -> ShaderInput]
  BY <1>5, <1>6
<1> HIDE DEF queue
<1>8. queue \in Seq(ShaderInput)
  BY <1>6, <1>7
<1>9. queue \in Seq(Item)
  BY <1>8 DEF Item
<1>10. Start("aot", "next", queue) /\ UNCHANGED dirVars
  BY <1>2 DEF queue, CompileShaders
<1> QED
  BY <1>8, <1>9, <1>10, StartStep DEF Jobs1

LEMMA AotCheckStep ==
    ASSUME TypeOK, JobInv, AotCheck
    PROVE  Same /\ TypeOK' /\ JobInv'
<1> DEFINE r == job.report
           counts == [r EXCEPT !.hotTotal = IF First.hot THEN @ + 1 ELSE @]
<1>1. /\ job.name = "aot" /\ job.at = "next" /\ job.queue # <<>> /\ Same
      /\ Call(Worker, "full", First.key, "none")
      /\ UNCHANGED <<profile, blocks, taken>>
  BY DEF AotCheck, In, Same, ShaderFullCheck
<1>2. First.key \in Key
  BY <1>1, QueueTyped DEF TypeOK
<1>3. /\ DirTypeOK' /\ CallsTyped'
      /\ call'[Worker].op = "full" /\ call'[Worker].key = First.key /\ call'[Worker].at = "start"
  BY <1>1, <1>2, WorkerCall DEF TypeOK, Ops, Keyed
<1>4. r \in Counters
  BY DEF TypeOK, JobTyped
<1>5. counts \in Counters /\ counts.hotTotal = r.hotTotal + (IF First.hot THEN 1 ELSE 0)
      /\ counts.ok = r.ok /\ counts.already = r.already /\ counts.skipped = r.skipped /\ counts.failed = r.failed
      /\ counts.total = r.total /\ counts.hotOk = r.hotOk
  <2>1. CASE First.hot
    BY <1>4, <2>1 DEF Counters
  <2>2. CASE ~First.hot
    BY <1>4, <2>2 DEF Counters
  <2> QED
    BY <2>1, <2>2
<1>6. job' = [job EXCEPT !.at = "check", !.report = counts]
  BY DEF AotCheck
<1> HIDE DEF counts
<1>7. /\ job'.name = "aot" /\ job'.at = "check" /\ job'.queue = job.queue /\ job'.done = job.done
      /\ job'.report = counts
  BY <1>1, <1>6 DEF TypeOK, JobTyped
<1>8. JobTyped'
  BY <1>1, <1>5, <1>6, <1>7 DEF TypeOK, JobTyped
<1>9. CallInv'
  BY <1>3, <1>7 DEF CallInv, InsertInv, CheckInv, RecordInv, ScanInv, First, Succeeded
<1>10. DoneInv' /\ ReportedInv'
  BY <1>1, <1>7, KeptSame DEF JobInv, DoneInv, ReportedInv
<1>11. CountInv'
  <2>1. /\ r.ok + r.skipped + r.failed + Len(job.queue) = r.total
        /\ r.already <= r.ok /\ r.hotOk <= r.ok /\ r.hotOk <= r.hotTotal
        /\ r.failed = 0 => r.hotOk = r.hotTotal
    <3>1. Pending = 0
      BY <1>1 DEF Pending
    <3>2. r.hotOk \in Nat
      BY <1>4 DEF Counters
    <3> QED
      BY <1>1, <3>1, <3>2 DEF JobInv, CountInv
  <2>2. Pending' = IF First.hot THEN 1 ELSE 0
    BY <1>7 DEF Pending, First
  <2>3. r.hotOk \in Nat /\ r.hotTotal \in Nat
    BY <1>4 DEF Counters
  <2> HIDE DEF r
  <2>4. /\ counts.hotOk + Pending' <= counts.hotTotal
        /\ r.hotOk = r.hotTotal => counts.hotOk + Pending' = counts.hotTotal
    BY ONLY <1>5, <2>1, <2>2, <2>3
  <2>5. /\ counts.ok + counts.skipped + counts.failed + Len(job'.queue) = counts.total
        /\ counts.already <= counts.ok /\ counts.hotOk <= counts.ok
        /\ counts.failed = 0 => r.hotOk = r.hotTotal
    BY ONLY <1>5, <1>7, <2>1
  <2> QED
    BY <1>7, <2>4, <2>5 DEF CountInv
<1> QED
  BY <1>1, <1>3, <1>8, <1>9, <1>10, <1>11 DEF TypeOK, JobInv

\* A report that counts the shader at hand as cached.
LEMMA CachedStep ==
    ASSUME TypeOK, JobInv, job.name = "aot", job.at \in {"check", "insert"}, NEW field, Cached(field), Same,
           Kept(First.key), UNCHANGED <<profile, blocks, taken, call>>
    PROVE  TypeOK' /\ JobInv'
<1>1. job.queue # <<>>
  BY DEF TypeOK, JobTyped
<1>2. /\ JobTyped'
      /\ job'.name = "aot" /\ job'.at = "next" /\ job'.queue = Rest /\ job'.done = job.done \cup {First.key}
      /\ job'.report = [job.report EXCEPT !.ok = @ + 1, !.already = IF field = "already" THEN @ + 1 ELSE @,
                                          !.hotOk = IF First.hot THEN @ + 1 ELSE @]
  BY <1>1, CachedFields DEF TypeOK
<1>3. CallInv'
  BY <1>2, BetweenCalls
<1>4. DoneInv' /\ ReportedInv'
  BY <1>2, KeptSame DEF DoneInv, ReportedInv, JobInv
<1>5. CountInv'
  BY <1>1, <1>2, CachedCounts DEF TypeOK, JobInv
<1>6. UNCHANGED dirVars
  BY DEF Same, dirVars
<1> QED
  BY <1>2, <1>3, <1>4, <1>5, <1>6, CallsUnchanged DEF TypeOK, JobInv

LEMMA AotCheckedStep ==
    ASSUME TypeOK, JobInv, AotChecked
    PROVE  Same /\ TypeOK' /\ JobInv'
<1>1. /\ job.name = "aot" /\ job.at = "check" /\ call[Worker].at = "done" /\ Same
      /\ UNCHANGED <<profile, blocks, taken>>
  BY DEF AotChecked, In, Same, Returned, Ready
<1>2. job.queue # <<>> /\ First.key \in Key /\ First \in ShaderInput
  BY <1>1, QueueTyped DEF TypeOK, JobTyped
<1>3. CASE call[Worker].result = "ok"
  <2>1. Cached("already") /\ UNCHANGED call
    BY <1>3 DEF AotChecked
  <2>2. Kept(First.key)
    BY <1>1, <1>3 DEF JobInv, CallInv, CheckInv, Succeeded
  <2> QED
    BY <1>1, <2>1, <2>2, CachedStep
<1>4. CASE call[Worker].result = "error"
  <2>1. Give /\ UNCHANGED dirVars
    BY <1>1, <1>4 DEF AotChecked, Same, dirVars
  <2> QED
    BY <1>1, <2>1, CallsUnchanged, GiveStep DEF TypeOK
<1>5. CASE call[Worker].result \notin {"ok", "error"}
  <2>1. job' = [job EXCEPT !.at = "insert"] /\ Call(Worker, "insert", First.key, First.stage)
    BY <1>5 DEF AotChecked, ShaderInsert
  <2>2. First.stage \in Body
    BY <1>2 DEF ShaderInput
  <2>3. /\ DirTypeOK' /\ CallsTyped'
        /\ call'[Worker].op = "insert" /\ call'[Worker].key = First.key /\ call'[Worker].at = "start"
    BY <1>1, <1>2, <2>1, <2>2, WorkerCall DEF TypeOK, Ops, Keyed
  <2>4. job'.name = "aot" /\ job'.at = "insert" /\ job'.queue = job.queue
    BY <1>1, <2>1 DEF TypeOK, JobTyped
  <2>5. Pending' = Pending
    BY <1>1, <2>4 DEF Pending, First
  <2>6. JobTyped' /\ DoneInv' /\ CountInv'
    BY <1>1, <1>2, <2>1, <2>5, JobMoved DEF TypeOK, JobInv, Points1
  <2>7. CallInv' /\ ReportedInv'
    BY <2>3, <2>4 DEF CallInv, InsertInv, CheckInv, RecordInv, ScanInv, ReportedInv, First, Succeeded
  <2> QED
    BY <1>1, <2>3, <2>6, <2>7 DEF TypeOK, JobInv
<1> QED
  BY <1>3, <1>4, <1>5

LEMMA AotInsertedStep ==
    ASSUME TypeOK, JobInv, AotInserted
    PROVE  Same /\ TypeOK' /\ JobInv'
<1>1. /\ job.name = "aot" /\ job.at = "insert" /\ call[Worker].at = "done" /\ Same
      /\ UNCHANGED <<profile, blocks, taken, call>>
  BY DEF AotInserted, In, Same, dirVars, Returned, Ready
<1>2. CASE call[Worker].result = "ok"
  <2>1. Cached("compiled")
    BY <1>2 DEF AotInserted
  <2>2. Kept(First.key)
    BY <1>1, <1>2 DEF JobInv, CallInv, InsertInv, Succeeded
  <2> QED
    BY <1>1, <2>1, <2>2, CachedStep
<1>3. CASE call[Worker].result # "ok"
  <2>1. Count("failed", {}) /\ job.queue # <<>>
    BY <1>1, <1>3 DEF AotInserted, TypeOK, JobTyped
  <2> QED
    BY <1>1, <2>1, CountStep
<1> QED
  BY <1>2, <1>3

\* A report that is complete.
LEMMA FinishStep ==
    ASSUME TypeOK, JobInv, job.name # "rebuild", job.at = "next", job.queue = <<>>, Finish,
           Same, UNCHANGED <<profile, blocks, taken, call>>
    PROVE  TypeOK' /\ JobInv'
<1>1. job' = [job EXCEPT !.at = "reported"]
  BY DEF Finish
<1>2. job'.name = job.name /\ job'.at = "reported"
  BY <1>1 DEF TypeOK, JobTyped
<1>3. Pending' = Pending
  BY <1>2 DEF Pending
<1>4. JobTyped' /\ DoneInv' /\ CountInv' /\ job'.queue = job.queue
  BY <1>1, <1>3, JobMoved DEF TypeOK, JobInv, Points1
<1>5. CallInv' /\ ReportedInv'
  BY <1>2, <1>4, BetweenCalls DEF ReportedInv
<1>6. UNCHANGED dirVars
  BY DEF Same, dirVars
<1> QED
  BY <1>4, <1>5, <1>6, CallsUnchanged DEF TypeOK, JobInv

LEMMA AotDoneStep ==
    ASSUME TypeOK, JobInv, AotDone
    PROVE  Same /\ TypeOK' /\ JobInv'
BY FinishStep DEF AotDone, In, Same, dirVars

LEMMA ReadinessStep ==
    ASSUME TypeOK, JobInv, Readiness
    PROVE  Same /\ TypeOK' /\ JobInv'
<1>1. PICK inputs \in Shaders : Start("ready", "next", inputs)
  BY DEF Readiness
<1>2. inputs \in Seq(Item)
  BY ShadersAssumption DEF Item
<1> QED
  BY <1>1, <1>2, StartStep DEF Readiness, Jobs1

LEMMA ReadyNextStep ==
    ASSUME TypeOK, JobInv, ReadyNext
    PROVE  Same /\ TypeOK' /\ JobInv'
<1>1. /\ job.name = "ready" /\ job.at = "next" /\ Same
      /\ UNCHANGED <<profile, blocks, taken>>
  BY DEF ReadyNext, In, Same
<1>2. CASE job.queue = <<>>
  BY <1>1, <1>2, FinishStep DEF ReadyNext
<1>3. CASE job.queue # <<>>
  <2>1. job' = [job EXCEPT !.at = "check"] /\ Call(Worker, "full", First.key, "none")
    BY <1>3 DEF ReadyNext, ShaderFullCheck
  <2>2. First.key \in Key
    BY <1>3, QueueTyped DEF TypeOK
  <2>3. /\ DirTypeOK' /\ CallsTyped'
        /\ call'[Worker].op = "full" /\ call'[Worker].key = First.key /\ call'[Worker].at = "start"
    BY <1>1, <2>1, <2>2, WorkerCall DEF TypeOK, Ops, Keyed
  <2>4. job'.name = "ready" /\ job'.at = "check" /\ job'.queue = job.queue
    BY <1>1, <2>1 DEF TypeOK, JobTyped
  <2>5. Pending' = Pending
    BY <1>1, <2>4 DEF Pending
  <2>6. JobTyped' /\ DoneInv' /\ CountInv'
    BY <1>1, <1>3, <2>1, <2>5, JobMoved DEF TypeOK, JobInv, Points1
  <2>7. CallInv' /\ ReportedInv'
    BY <2>3, <2>4 DEF CallInv, InsertInv, CheckInv, RecordInv, ScanInv, ReportedInv, First, Succeeded
  <2> QED
    BY <1>1, <2>3, <2>6, <2>7 DEF TypeOK, JobInv
<1> QED
  BY <1>2, <1>3

LEMMA ReadyCheckedStep ==
    ASSUME TypeOK, JobInv, ReadyChecked
    PROVE  Same /\ TypeOK' /\ JobInv'
<1>1. /\ job.name = "ready" /\ job.at = "check" /\ call[Worker].at = "done" /\ Same /\ UNCHANGED dirVars
      /\ UNCHANGED <<profile, blocks, taken, call>>
  BY DEF ReadyChecked, In, Same, dirVars, Returned, Ready
<1>2. job.queue # <<>> /\ First.key \in Key
  BY <1>1, QueueTyped DEF TypeOK, JobTyped
<1>3. CASE call[Worker].result = "ok"
  <2>1. Count("ok", {First.key})
    BY <1>3 DEF ReadyChecked
  <2>2. Kept(First.key)
    BY <1>1, <1>3 DEF JobInv, CallInv, CheckInv, Succeeded
  <2> QED
    BY <1>1, <1>2, <2>1, <2>2, CountStep
<1>4. CASE call[Worker].result = "error"
  <2>1. Give
    BY <1>4 DEF ReadyChecked
  <2> QED
    BY <1>1, <2>1, CallsUnchanged, GiveStep DEF TypeOK
<1>5. CASE call[Worker].result \notin {"ok", "error"}
  <2>1. Count("skipped", {})
    BY <1>5 DEF ReadyChecked
  <2> QED
    BY <1>1, <1>2, <2>1, CountStep
<1> QED
  BY <1>3, <1>4, <1>5

-----------------------------------------------------------------------------
(* The steps of the calls, and what happens from outside.                  *)

LEMMA KeptAcross ==
    ASSUME DirTypeOK, FileStep, taken' = taken \cup Removed, taken \subseteq Key
    PROVE  /\ \A k \in Key : (Kept(k) => Kept(k)') /\ (Known(k) => Known(k)')
           /\ taken \subseteq taken' /\ taken' \subseteq Key
<1>1. taken \subseteq taken' /\ taken' \subseteq Key
  BY DEF Removed
<1>2. CASE Same
  BY <1>1, <1>2 DEF Same, Kept, Known, Whole
<1>3. ASSUME NEW j \in Key, Dropped(j), NEW k \in Key
      PROVE  (Kept(k) => Kept(k)') /\ (Known(k) => Known(k)')
  <2>1. Known(k) => Known(k)'
    BY <1>3 DEF Dropped, Known
  <2>2. CASE k = j
    <3>1. files'[k] = Absent /\ IsFile(files[k])
      BY <1>3, <2>2 DEF Dropped, DirTypeOK
    <3>2. k \in taken'
      BY <3>1 DEF Removed, IsFile, Absent
    <3> QED
      BY <2>1, <3>2 DEF Kept
  <2>3. CASE k # j
    <3>1. files'[k] = files[k]
      BY <1>3, <2>3 DEF Dropped, DirTypeOK
    <3> QED
      BY <1>1, <2>1, <3>1 DEF Kept, Whole
  <2> QED
    BY <2>2, <2>3
<1>4. ASSUME NEW j \in Key, NEW b \in Body, Replaced(j, b), NEW k \in Key
      PROVE  (Kept(k) => Kept(k)') /\ (Known(k) => Known(k)')
  <2>1. Known(k) => Known(k)'
    BY <1>4 DEF Replaced, Known
  <2>2. CASE k = j
    <3>1. files'[k] = File(k, b, "whole")
      BY <1>4, <2>2 DEF Replaced, DirTypeOK
    <3> QED
      BY <2>1, <3>1 DEF Kept, Whole, FromBytes, IsFile, File
  <2>3. CASE k # j
    <3>1. files'[k] = files[k]
      BY <1>4, <2>3 DEF Replaced, DirTypeOK
    <3> QED
      BY <1>1, <2>1, <3>1 DEF Kept, Whole
  <2> QED
    BY <2>2, <2>3
<1> QED
  BY <1>1, <1>2, <1>3, <1>4 DEF FileStep

\* Somebody else acts: what the worker knows stays true.
LEMMA Carried ==
    ASSUME JobTyped, JobInv, job' = job, taken \subseteq taken', call'[Worker] = call[Worker],
           \A k \in Key : (Kept(k) => Kept(k)') /\ (Known(k) => Known(k)')
    PROVE  JobTyped' /\ JobInv'
<1>1. JobTyped' /\ CountInv'
  BY DEF JobTyped, JobInv, CountInv, Pending, First
<1>2. job.at \in {"insert", "record", "check"} => First.key \in Key
  BY QueueTyped DEF JobTyped
<1>3. InsertInv' /\ CheckInv' /\ RecordInv'
  BY <1>2 DEF JobInv, CallInv, InsertInv, CheckInv, RecordInv, Succeeded, First
<1>4. ScanInv'
  BY DEF JobInv, CallInv, ScanInv, Succeeded, Seen
<1>5. DoneInv' /\ ReportedInv'
  BY DEF JobInv, JobTyped, DoneInv, ReportedInv
<1> QED
  BY <1>1, <1>3, <1>4, <1>5 DEF JobInv, CallInv

\* The worker's own call moves on.
LEMMA WorkerMoves ==
    ASSUME TypeOK, JobInv, job' = job, Effect(Worker), taken \subseteq taken',
           \A k \in Key : (Kept(k) => Kept(k)') /\ (Known(k) => Known(k)')
    PROVE  JobTyped' /\ JobInv'
<1> DEFINE c == call[Worker]
           d == call'[Worker]
<1>1. JobTyped' /\ CountInv'
  BY DEF TypeOK, JobTyped, JobInv, CountInv, Pending, First
<1>2. job.at \in {"insert", "record", "check"} => First.key \in Key
  BY QueueTyped DEF TypeOK, JobTyped
<1>3. c.at # "done" /\ d.at # "start" /\ d.op = c.op /\ (c.op \in Keyed => d.key = c.key)
  BY DEF Effect
<1>4. InsertInv'
  <2> SUFFICES ASSUME job.at = "insert"
               PROVE  /\ d.op = "insert" /\ d.key = First.key
                      /\ job.name = "rebuild" => First.key \in Source
                      /\ d.at = "size" \/ Succeeded' => Kept(First.key)' /\ Known(First.key)'
    BY DEF InsertInv, First
  <2>1. /\ c.op = "insert" /\ c.key = First.key
        /\ job.name = "rebuild" => First.key \in Source
        /\ c.at = "size" => Kept(First.key) /\ Known(First.key)
    BY DEF JobInv, CallInv, InsertInv
  <2>2. CASE d.at = "size"
    <3>1. Replaced(First.key, c.body)
      BY <2>1, <2>2 DEF Effect, Written
    <3>2. files'[First.key] = File(First.key, c.body, "whole")
      BY <1>2, <3>1 DEF Replaced, TypeOK, DirTypeOK
    <3>3. Kept(First.key)'
      BY <3>2 DEF Kept, Whole, FromBytes, IsFile, File, First
    <3>4. <<First.key, c.body>> \in inserted'
      BY <3>1 DEF Replaced
    <3>5. Known(First.key)'
      BY <3>4 DEF Known, First
    <3> QED
      BY <1>3, <2>1, <3>3, <3>5 DEF Keyed
  <2>3. CASE d.at # "size"
    <3>1. Succeeded' => c.at = "size"
      BY <2>1 DEF Effect, Written, Succeeded
    <3>2. Succeeded' => Kept(First.key)' /\ Known(First.key)'
      BY <1>2, <2>1, <3>1 DEF First
    <3> QED
      BY <1>3, <2>1, <2>3, <3>2 DEF Keyed
  <2> QED
    BY <2>2, <2>3
<1>5. CheckInv'
  <2> SUFFICES ASSUME job.at = "check"
               PROVE  /\ d.op = "full" /\ d.key = First.key
                      /\ Succeeded' => Kept(First.key)'
    BY DEF CheckInv, First
  <2>1. c.op = "full" /\ c.key = First.key
    BY DEF JobInv, CallInv, CheckInv
  <2>2. Succeeded' => Same /\ Whole(First.key)
    BY <2>1 DEF Effect, Served, Succeeded
  <2>3. Succeeded' => Kept(First.key)
    BY <2>2 DEF Kept
  <2>4. Succeeded' => Kept(First.key)'
    BY <1>2, <2>3 DEF First
  <2> QED
    BY <1>3, <2>1, <2>4 DEF Keyed
<1>6. RecordInv'
  BY <1>2 DEF JobInv, CallInv, RecordInv, First
<1>7. ScanInv'
  <2> SUFFICES ASSUME job.at = "scan"
               PROVE  /\ d.op = "scan" /\ job.queue = <<>>
                      /\ d.at # "done" \/ Succeeded' => job.done \ taken' \subseteq Seen(d)
                      /\ Succeeded' => d.todo = {}
    BY DEF ScanInv
  <2>1. /\ c.op = "scan" /\ job.queue = <<>>
        /\ c.at # "start" => job.done \ taken \subseteq Seen(c)
    BY <1>3 DEF JobInv, CallInv, ScanInv
  <2>2. ASSUME d.at # "done" \/ Succeeded', NEW k \in job.done \ taken'
        PROVE  k \in Seen(d)
    <3>1. k \in Key /\ Whole(k) /\ k \in job.done \ taken
      BY <2>2 DEF TypeOK, JobTyped, JobInv, DoneInv, Kept
    <3>2. c.at = "start" \/ k \in Seen(c)
      BY <2>1, <3>1
    <3> QED
      BY <2>1, <2>2, <3>1, <3>2 DEF Effect, Scanned, Succeeded
  <2>3. Succeeded' => d.todo = {}
    BY <2>1 DEF Effect, Scanned, Succeeded
  <2> QED
    BY <1>3, <2>1, <2>2, <2>3
<1>8. DoneInv' /\ ReportedInv'
  BY DEF TypeOK, JobInv, JobTyped, DoneInv, ReportedInv
<1> QED
  BY <1>1, <1>4, <1>5, <1>6, <1>7, <1>8 DEF JobInv, CallInv

LEMMA ProgressStep ==
    ASSUME TypeOK, JobInv, NEW p \in Process, Progress(p)
    PROVE  Effect(p) /\ TypeOK' /\ JobInv'
<1>1. Effect(p) /\ taken' = taken \cup Removed /\ UNCHANGED <<profile, blocks, job>>
  BY CallStepEffect DEF Progress, TypeOK
<1>2. /\ \A k \in Key : (Kept(k) => Kept(k)') /\ (Known(k) => Known(k)')
      /\ taken \subseteq taken' /\ taken' \subseteq Key
  BY <1>1, KeptAcross DEF TypeOK, Effect
<1>3. JobTyped' /\ JobInv'
  <2>1. CASE p = Worker
    BY <1>1, <1>2, <2>1, WorkerMoves
  <2>2. CASE p # Worker
    <3>1. call'[Worker] = call[Worker]
      BY <1>1, <2>2, ClientAssumption DEF Effect
    <3> QED
      BY <1>1, <1>2, <3>1, Carried DEF TypeOK
  <2> QED
    BY <2>1, <2>2
<1> QED
  BY <1>1, <1>2, <1>3 DEF TypeOK, Effect

LEMMA OthersCallStep ==
    ASSUME TypeOK, JobInv, NEW p \in Process, OthersCall(p)
    PROVE  Same /\ TypeOK' /\ JobInv'
<1>1. /\ p # Worker /\ Same /\ UNCHANGED <<profile, blocks, job, taken>>
      /\ \E c \in Calls.native \cup Calls.shader : Call(p, c.op, c.key, c.body)
  BY DEF OthersCall, NativeCall, ShaderCall, Same, clientVars
<1>2. PICK c \in Calls.native \cup Calls.shader : Call(p, c.op, c.key, c.body)
  BY <1>1
<1>3. DirTypeOK' /\ CallsTyped'
  BY <1>1, <1>2, CallsAssumption, CallTyped DEF TypeOK, Same
<1>4. call'[Worker] = call[Worker]
  BY <1>1, <1>2, ClientAssumption DEF Call, TypeOK, DirTypeOK
<1>5. JobTyped' /\ JobInv'
  BY <1>1, <1>4, KeptSame, Carried DEF TypeOK
<1> QED
  BY <1>1, <1>3, <1>5 DEF TypeOK

\* Damage leaves the other files alone and puts a file or a folder there.
LEMMA Damaged ==
    ASSUME DirTypeOK, NEW k \in Key, Damage(k)
    PROVE  /\ DirTypeOK' /\ call' = call /\ inserted' = inserted /\ lost' = lost \cup {k}
           /\ \A j \in Key \ {k} : files'[j] = files[j]
           /\ ~FromBytes(files'[k]) \/ \E j \in Key : files'[k] = files[j]
<1>1. call' = call /\ inserted' = inserted /\ lost' = lost \cup {k} /\ damage' = damage + 1
  BY DEF Damage
<1>2. PICK f \in {Absent, Folder} \cup Files :
          Put(k, f) /\ (~FromBytes(f) \/ \E j \in Key : f = files[j])
  <2>1. CASE \E s \in Spoiled : IsFile(files[k]) /\ Put(k, [files[k] EXCEPT !.state = s])
    <3>1. PICK s \in Spoiled : IsFile(files[k]) /\ Put(k, [files[k] EXCEPT !.state = s])
      BY <2>1
    <3>2. files[k] \in Files
      BY <3>1, FileTyped DEF DirTypeOK
    <3>3. [files[k] EXCEPT !.state = s] \in Files /\ ~FromBytes([files[k] EXCEPT !.state = s])
      BY <3>1, <3>2 DEF Files, FromBytes, Spoiled
    <3> QED
      BY <3>1, <3>3
  <2>2. CASE \E j \in Key \ {k} : IsFile(files[j]) /\ Put(k, files[j])
    BY <2>2 DEF DirTypeOK
  <2>3. CASE Put(k, Folder)
    BY <2>3 DEF FromBytes, IsFile, Folder
  <2> QED
    BY <2>1, <2>2, <2>3 DEF Damage
<1>3. files' = [files EXCEPT ![k] = f]
  BY <1>2 DEF Put
<1>4. files' \in [Key -> {Absent, Folder} \cup Files] /\ files'[k] = f
      /\ \A j \in Key \ {k} : files'[j] = files[j]
  BY <1>3 DEF DirTypeOK
<1>5. DirTypeOK'
  BY <1>1, <1>4 DEF DirTypeOK
<1> QED
  BY <1>1, <1>2, <1>4, <1>5

LEMMA OutsideStep ==
    ASSUME TypeOK, JobInv, NEW k \in Key, Damage(k), taken' = taken \cup {k}, UNCHANGED <<profile, blocks, job>>
    PROVE  TypeOK' /\ JobInv'
<1>1. /\ DirTypeOK' /\ call' = call /\ inserted' = inserted
      /\ \A j \in Key \ {k} : files'[j] = files[j]
  BY Damaged DEF TypeOK
<1>2. \A j \in Key : (Kept(j) => Kept(j)') /\ (Known(j) => Known(j)')
  BY <1>1 DEF Kept, Known, Whole
<1>3. JobTyped' /\ JobInv'
  BY <1>1, <1>2, Carried DEF TypeOK
<1>4. CallsTyped' /\ taken' \subseteq Key
  BY <1>1 DEF TypeOK, CallsTyped
<1> QED
  BY <1>1, <1>3, <1>4 DEF TypeOK

LEMMA CrashStep ==
    ASSUME TypeOK, JobInv, Crash
    PROVE  Same /\ TypeOK' /\ JobInv'
<1>1. Same /\ Give /\ blocks' = {} /\ taken' = {} /\ profile' = profile /\ call' = [call EXCEPT ![Worker] = Idle]
  BY DEF Crash, Die, Same, Give
<1>2. Idle \in CallRecords
  BY DEF Idle, CallRecords, Ops
<1>3. call' \in [Process -> CallRecords] /\ call'[Worker] = Idle
      /\ \A q \in Process \ {Worker} : call'[q] = call[q]
  BY <1>1, <1>2, ClientAssumption DEF TypeOK, DirTypeOK
<1>4. DirTypeOK'
  BY <1>1, <1>3, FilesTyped DEF TypeOK
<1>5. CallsTyped'
  BY <1>3 DEF TypeOK, CallsTyped, Idle, Keyed
<1> QED
  BY <1>1, <1>4, <1>5, GiveStep DEF TypeOK

-----------------------------------------------------------------------------
(* The directory holds only what was inserted; the whole invariant.        *)

DirInv ==
    /\ \A k \in Key : FromBytes(files[k]) => <<files[k].key, files[k].body>> \in inserted
    /\ ServesOnlyInserted /\ OnlyRemovalLoses
BlocksInv == blocks \subseteq profile
IInv == TypeOK /\ JobInv /\ DirInv /\ BlocksInv

\* No call of this step ends with an answer.
NoAnswer == \A p \in Process : call'[p] = call[p] \/ call'[p].at # "done" \/ call'[p] = Idle

LEMMA CallAnswersNothing ==
    ASSUME DirTypeOK, NEW p \in Process, NEW op, NEW k, NEW b, Call(p, op, k, b)
    PROVE  NoAnswer
<1>1. /\ call'[p] = [Idle EXCEPT !.op = op, !.at = "start", !.key = k, !.body = b]
      /\ \A q \in Process \ {p} : call'[q] = call[q]
  BY DEF Call, DirTypeOK
<1>2. call'[p].at = "start"
  BY <1>1 DEF Idle
<1> QED
  BY <1>1, <1>2 DEF NoAnswer

LEMMA JobsAnswerNothing ==
    ASSUME DirTypeOK, Jobs
    PROVE  NoAnswer
<1>1. UNCHANGED call \/ \E op, k, b : Call(Worker, op, k, b)
  <2>1. CASE \E pc \in Key : JitMissing(pc)
    BY <2>1 DEF JitMissing
  <2>2. CASE JitInserted \/ JitRecord \/ Rebuild \/ RebuildInserted \/ RebuildScanned
    BY <2>2 DEF JitInserted, JitRecord, Rebuild, RebuildInserted, RebuildScanned, dirVars
  <2>3. CASE RebuildNext \/ RebuildScan
    BY <2>3 DEF RebuildNext, RebuildScan
  <2>4. CASE CompileShaders \/ AotInserted \/ AotDone \/ Readiness \/ ReadyChecked
    BY <2>4 DEF CompileShaders, AotInserted, AotDone, Readiness, ReadyChecked, dirVars
  <2>5. CASE AotCheck \/ AotChecked \/ ReadyNext
    BY <2>5 DEF AotCheck, AotChecked, ReadyNext, ShaderFullCheck, ShaderInsert
  <2> QED
    BY <2>1, <2>2, <2>3, <2>4, <2>5 DEF Jobs
<1> QED
  BY <1>1, CallAnswersNothing, ClientAssumption DEF NoAnswer

LEMMA DirSame ==
    ASSUME DirInv, Same, NoAnswer
    PROVE  DirInv'
<1>1. ServesOnlyInserted'
  <2> SUFFICES ASSUME NEW p \in Process, At(p, {"load", "full"}, "done")', call'[p].result = "ok"
               PROVE  \E e \in inserted' : e[1] = call'[p].key /\ call'[p].found = {File(e[1], e[2], "whole")}
    BY DEF ServesOnlyInserted
  <2>1. call'[p] # Idle /\ call'[p].at = "done"
    BY DEF At, Idle
  <2>2. call'[p] = call[p]
    BY <2>1 DEF NoAnswer
  <2> QED
    BY <2>2 DEF DirInv, ServesOnlyInserted, At, Same
<1> QED
  BY <1>1 DEF DirInv, Same, OnlyRemovalLoses

LEMMA DirEffect ==
    ASSUME DirTypeOK, CallsTyped, DirInv, NEW p \in Process, Effect(p)
    PROVE  DirInv'
<1>0. inserted \subseteq inserted' /\ inserted \subseteq Key \X Body
  BY DEF Effect, FileStep, Same, Dropped, Replaced, DirTypeOK
<1>1. ServesOnlyInserted'
  <2> SUFFICES ASSUME NEW q \in Process, At(q, {"load", "full"}, "done")', call'[q].result = "ok"
               PROVE  \E e \in inserted' : e[1] = call'[q].key /\ call'[q].found = {File(e[1], e[2], "whole")}
    BY DEF ServesOnlyInserted
  <2>1. CASE q # p
    <3>1. call'[q] = call[q]
      BY <2>1 DEF Effect
    <3> QED
      BY <1>0, <3>1 DEF DirInv, ServesOnlyInserted, At
  <2>2. CASE q = p
    <3> DEFINE k == call[p].key
               f == files[k]
    <3>1. call[p].op \in {"load", "full"} /\ call'[p].at = "done" /\ call'[p].key = k
      BY <2>2 DEF At, Effect, Keyed
    <3>2. Same /\ Whole(k) /\ call'[p].found = {f} /\ k \in Key
      BY <2>2, <3>1 DEF Effect, Served, CallsTyped, Keyed
    <3>3. <<f.key, f.body>> \in inserted' /\ f.key = k
      BY <1>0, <3>2 DEF DirInv, Whole
    <3>4. f \in Files /\ f.state = "whole"
      BY <3>2, FileTyped DEF Whole, FromBytes, DirTypeOK
    <3>5. f = File(k, f.body, "whole")
      BY <3>3, <3>4 DEF Files, File
    <3> HIDE DEF f
    <3> QED
      BY <2>2, <3>1, <3>2, <3>3, <3>5
  <2> QED
    BY <2>1, <2>2
<1>2. CASE Same
  BY <1>1, <1>2 DEF DirInv, Same, OnlyRemovalLoses
<1>3. ASSUME NEW k \in Key, Dropped(k)
      PROVE  DirInv'
  <2>1. files'[k] = Absent /\ \A j \in Key \ {k} : files'[j] = files[j]
    BY <1>3 DEF Dropped, DirTypeOK
  <2>2. lost' = lost \cup {k} /\ inserted' = inserted
    BY <1>3 DEF Dropped
  <2>3. ~FromBytes(files'[k])
    BY <2>1 DEF FromBytes, IsFile, Absent
  <2>4. OnlyRemovalLoses'
    <3> SUFFICES ASSUME NEW e \in inserted, e[1] \notin lost'
                 PROVE  FromBytes(files'[e[1]]) /\ files'[e[1]].key = e[1]
      BY <2>2 DEF OnlyRemovalLoses
    <3>1. e[1] \in Key \ {k} /\ e[1] \notin lost
      BY <1>0, <2>2
    <3> QED
      BY <2>1, <3>1 DEF DirInv, OnlyRemovalLoses
  <2>5. \A j \in Key : FromBytes(files'[j]) => <<files'[j].key, files'[j].body>> \in inserted'
    BY <2>1, <2>2, <2>3 DEF DirInv
  <2> QED
    BY <1>1, <2>4, <2>5 DEF DirInv, FromBytes, IsFile
<1>4. ASSUME NEW k \in Key, NEW b \in Body, Replaced(k, b)
      PROVE  DirInv'
  <2> DEFINE f == File(k, b, "whole")
  <2>1. files'[k] = f /\ \A j \in Key \ {k} : files'[j] = files[j]
    BY <1>4 DEF Replaced, DirTypeOK
  <2>2. lost' = lost \ {k} /\ inserted' = inserted \cup {<<k, b>>}
    BY <1>4 DEF Replaced
  <2>3. FromBytes(f) /\ f.key = k /\ f.body = b
    BY DEF FromBytes, IsFile, File
  <2> HIDE DEF f
  <2>4. OnlyRemovalLoses'
    <3> SUFFICES ASSUME NEW e \in inserted', e[1] \notin lost'
                 PROVE  FromBytes(files'[e[1]]) /\ files'[e[1]].key = e[1]
      BY DEF OnlyRemovalLoses, FromBytes, IsFile
    <3>1. CASE e[1] = k
      BY <2>1, <2>3, <3>1
    <3>2. CASE e[1] # k
      <4>1. e \in inserted /\ e[1] \in Key \ {k} /\ e[1] \notin lost
        BY <1>0, <2>2, <3>2
      <4> QED
        BY <2>1, <4>1 DEF DirInv, OnlyRemovalLoses
    <3> QED
      BY <3>1, <3>2
  <2>5. \A j \in Key : FromBytes(files'[j]) => <<files'[j].key, files'[j].body>> \in inserted'
    BY <2>1, <2>2, <2>3 DEF DirInv
  <2> QED
    BY <1>1, <2>4, <2>5 DEF DirInv, FromBytes, IsFile
<1> QED
  BY <1>2, <1>3, <1>4 DEF Effect, FileStep

LEMMA DirDamaged ==
    ASSUME DirTypeOK, DirInv, NEW k \in Key, Damage(k)
    PROVE  DirInv'
<1>1. /\ call' = call /\ inserted' = inserted /\ lost' = lost \cup {k}
      /\ \A j \in Key \ {k} : files'[j] = files[j]
      /\ ~FromBytes(files'[k]) \/ \E j \in Key : files'[k] = files[j]
  BY Damaged
<1>2. \A j \in Key : FromBytes(files'[j]) => <<files'[j].key, files'[j].body>> \in inserted'
  BY <1>1 DEF DirInv
<1>3. ServesOnlyInserted'
  BY <1>1 DEF DirInv, ServesOnlyInserted, At
<1>4. OnlyRemovalLoses'
  <2> SUFFICES ASSUME NEW e \in inserted, e[1] \notin lost'
               PROVE  FromBytes(files'[e[1]]) /\ files'[e[1]].key = e[1]
    BY <1>1 DEF OnlyRemovalLoses, FromBytes, IsFile
  <2>1. e[1] \in Key \ {k} /\ e[1] \notin lost
    BY <1>1 DEF DirTypeOK
  <2> QED
    BY <1>1, <2>1 DEF DirInv, OnlyRemovalLoses
<1> QED
  BY <1>2, <1>3, <1>4 DEF DirInv, FromBytes, IsFile

LEMMA InitInvariant == Init => IInv
<1> SUFFICES ASSUME Init PROVE IInv
  OBVIOUS
<1>1. /\ files = [k \in Key |-> Absent] /\ call = [p \in Process |-> Idle]
      /\ inserted = {} /\ lost = {} /\ damage = 0
      /\ profile \subseteq Key /\ blocks = {} /\ job = NoJob /\ taken = {}
  BY DEF Init, DirInit
<1>2. Idle \in CallRecords
  BY DEF Idle, CallRecords, Ops
<1>3. DirTypeOK
  BY <1>1, <1>2 DEF DirTypeOK
<1>4. CallsTyped
  BY <1>1 DEF CallsTyped, Idle, Keyed
<1>5. Report \in Counters
  BY DEF Report, Counters
<1>6. job.name = "none" /\ job.at = "none" /\ job.queue = <<>> /\ job.done = {} /\ job.report = Report
  BY <1>1 DEF NoJob
<1>7. JobTyped
  BY <1>1, <1>5, <1>6 DEF JobTyped, NoJob
<1>8. CallInv /\ DoneInv /\ ReportedInv
  BY <1>6 DEF CallInv, InsertInv, CheckInv, RecordInv, ScanInv, DoneInv, ReportedInv
<1>9. Pending = 0 /\ Len(job.queue) = 0
  BY <1>6 DEF Pending
<1>10. /\ job.report.ok = 0 /\ job.report.already = 0 /\ job.report.skipped = 0 /\ job.report.failed = 0
       /\ job.report.total = 0 /\ job.report.hotTotal = 0 /\ job.report.hotOk = 0
  BY <1>6 DEF Report
<1>11. CountInv
  BY <1>9, <1>10 DEF CountInv
<1>12. \A k \in Key : ~FromBytes(files[k])
  BY <1>1 DEF FromBytes, IsFile, Absent
<1>13. DirInv
  BY <1>1, <1>12 DEF DirInv, ServesOnlyInserted, OnlyRemovalLoses, At, Idle
<1> QED
  BY <1>1, <1>3, <1>4, <1>7, <1>8, <1>11, <1>13 DEF IInv, TypeOK, JobInv, BlocksInv

LEMMA JobsStep ==
    ASSUME TypeOK, JobInv, Jobs
    PROVE  Same /\ TypeOK' /\ JobInv'
BY JitMissingStep, JitInsertedStep, JitRecordStep,
   RebuildStep, RebuildNextStep, RebuildInsertedStep, RebuildScanStep, RebuildScannedStep,
   CompileShadersStep, AotCheckStep, AotCheckedStep, AotInsertedStep, AotDoneStep,
   ReadinessStep, ReadyNextStep, ReadyCheckedStep DEF Jobs

\* What a step does to the profile and to the registered blocks.
ProfileStep ==
    \/ UNCHANGED <<profile, blocks>>
    \/ profile' = profile /\ blocks' = {}
    \/ /\ profile' = profile \cup {First.key} /\ blocks' = blocks \cup {First.key} /\ Known(First.key)

LEMMA ProfileSteps ==
    ASSUME JobInv, Next
    PROVE  ProfileStep
<1>1. CASE JitRecord
  BY <1>1 DEF JitRecord, In, JobInv, CallInv, RecordInv, ProfileStep
<1>2. CASE Crash
  BY <1>2 DEF Crash, ProfileStep
<1>3. CASE (\E pc \in Key : JitMissing(pc)) \/ Rebuild \/ CompileShaders \/ Readiness
  BY <1>3 DEF JitMissing, Rebuild, CompileShaders, Readiness, Start, ProfileStep
<1>4. CASE JitInserted \/ RebuildNext \/ RebuildInserted \/ RebuildScan \/ RebuildScanned
  BY <1>4 DEF JitInserted, RebuildNext, RebuildInserted, RebuildScan, RebuildScanned, ProfileStep
<1>5. CASE AotCheck \/ AotChecked \/ AotInserted \/ AotDone \/ ReadyNext \/ ReadyChecked
  BY <1>5 DEF AotCheck, AotChecked, AotInserted, AotDone, ReadyNext, ReadyChecked, ProfileStep
<1>6. CASE Outside \/ \E p \in Process : OthersCall(p) \/ Progress(p)
  BY <1>6 DEF Outside, OthersCall, Progress, clientVars, ProfileStep
<1> QED
  BY <1>1, <1>2, <1>3, <1>4, <1>5, <1>6 DEF Next, Jobs

LEMMA NextInvariant == IInv /\ [Next]_vars => IInv'
<1> SUFFICES ASSUME IInv, [Next]_vars PROVE IInv'
  OBVIOUS
<1>1. TypeOK /\ JobInv /\ DirInv /\ BlocksInv
  BY DEF IInv
<1>2. CASE UNCHANGED vars
  <2>1. Same /\ NoAnswer /\ UNCHANGED <<call, profile, blocks, job, taken>> /\ UNCHANGED dirVars
    BY <1>2 DEF vars, dirVars, clientVars, Same, NoAnswer
  <2>2. DirInv'
    BY <1>1, <2>1, DirSame
  <2>3. JobTyped' /\ JobInv'
    BY <1>1, <2>1, KeptSame, Carried DEF TypeOK
  <2> QED
    BY <1>1, <2>1, <2>2, <2>3, CallsUnchanged DEF IInv, TypeOK, BlocksInv
<1>3. CASE Next
  <2>1. BlocksInv'
    BY <1>1, <1>3, ProfileSteps DEF BlocksInv, ProfileStep
  <2>2. CASE Jobs
    BY <1>1, <2>1, <2>2, JobsStep, JobsAnswerNothing, DirSame DEF IInv, TypeOK
  <2>3. CASE Crash
    <3>1. NoAnswer
      BY <2>3, <1>1, ClientAssumption DEF Crash, Die, NoAnswer, TypeOK, DirTypeOK
    <3> QED
      BY <1>1, <2>1, <2>3, <3>1, CrashStep, DirSame DEF IInv
  <2>4. CASE Outside
    <3>1. PICK k \in Key : Damage(k) /\ taken' = taken \cup {k} /\ UNCHANGED <<profile, blocks, job>>
      BY <2>4 DEF Outside
    <3> QED
      BY <1>1, <2>1, <3>1, OutsideStep, DirDamaged DEF IInv, TypeOK
  <2>5. ASSUME NEW p \in Process, OthersCall(p)
        PROVE  IInv'
    <3>1. NoAnswer
      BY <1>1, <2>5, CallAnswersNothing DEF OthersCall, NativeCall, ShaderCall, TypeOK
    <3> QED
      BY <1>1, <2>1, <2>5, <3>1, OthersCallStep, DirSame DEF IInv
  <2>6. ASSUME NEW p \in Process, Progress(p)
        PROVE  IInv'
    BY <1>1, <2>1, <2>6, ProgressStep, DirEffect DEF IInv, TypeOK
  <2> QED
    BY <1>3, <2>2, <2>3, <2>4, <2>5, <2>6 DEF Next
<1> QED
  BY <1>2, <1>3

LEMMA SpecInvariant == Spec => []IInv
BY InitInvariant, NextInvariant, PTL DEF Spec

-----------------------------------------------------------------------------
(* The theorems.                                                           *)

\* Every file, call, job and counter keeps its type, and a call that needs a
\* key or an object has one (cache/src/lib.rs, dispatch.rs, rebuild.rs, aot.rs).
THEOREM TypeCorrect == Spec => []TypeOK
<1>1. IInv => TypeOK
  BY DEF IInv
<1> QED
  BY <1>1, SpecInvariant, PTL

\* Whatever processes call, die and damage, load and full_check accept only an
\* object some insert put under that key, and an object that nobody removed
\* and nothing spoiled is there, whole (write_atomic, from_bytes).
THEOREM ObjectsAlwaysKept == Spec => []ObjectsKept
<1>1. IInv => ObjectsKept
  BY DEF IInv, DirInv, ObjectsKept
<1> QED
  BY <1>1, SpecInvariant, PTL

\* A report of a rebuild, a shader pass or a readiness count adds up, and what
\* it counts as cached is there unless somebody took it away meanwhile.
THEOREM ReportsAlwaysTrue == Spec => []ReportsAreTrue
<1>1. IInv => ReportsAreTrue
  <2> SUFFICES ASSUME IInv, job.at = "reported"
               PROVE  LET r == job.report
                      IN  /\ r.ok + r.skipped + r.failed = r.total
                          /\ r.already <= r.ok /\ r.hotOk <= r.hotTotal /\ r.hotOk <= r.ok
                          /\ r.failed = 0 => r.hotOk = r.hotTotal \/ job.name # "aot"
                          /\ \A k \in job.done \ taken : FromBytes(files[k]) /\ files[k].key = k
                          /\ job.name = "rebuild" => job.done \ taken \subseteq job.native
    BY DEF ReportsAreTrue
  <2> DEFINE r == job.report
  <2>1. job.queue = <<>> /\ (job.name = "rebuild" => job.done \ taken \subseteq job.native)
    BY DEF IInv, JobInv, ReportedInv
  <2>2. Pending = 0 /\ Len(job.queue) = 0
    BY <2>1 DEF Pending
  <2>3. /\ r.ok \in Nat /\ r.skipped \in Nat /\ r.failed \in Nat /\ r.hotOk \in Nat
    BY DEF IInv, TypeOK, JobTyped, Counters
  <2>4. /\ r.ok + r.skipped + r.failed + Len(job.queue) = r.total
        /\ r.already <= r.ok /\ r.hotOk <= r.ok
        /\ r.hotOk + Pending <= r.hotTotal
        /\ job.name = "aot" /\ r.failed = 0 => r.hotOk + Pending = r.hotTotal
    BY DEF IInv, JobInv, CountInv
  <2>5. \A k \in job.done \ taken : FromBytes(files[k]) /\ files[k].key = k
    BY DEF IInv, JobInv, DoneInv, Kept, Whole
  <2> HIDE DEF r
  <2>6. /\ r.ok + r.skipped + r.failed = r.total
        /\ r.already <= r.ok /\ r.hotOk <= r.hotTotal /\ r.hotOk <= r.ok
        /\ r.failed = 0 => r.hotOk = r.hotTotal \/ job.name # "aot"
    BY ONLY <2>2, <2>3, <2>4
  <2> QED
    BY <2>1, <2>5, <2>6 DEF r
<1> QED
  BY <1>1, SpecInvariant, PTL

\* A block that is in the profile, or that a run has registered, was in the
\* cache first, whatever failed or died in between (the JIT's insert in
\* dispatch.rs, then record_profile).
THEOREM ProfiledAlwaysCached == Spec => ProfiledWasCached
<1> DEFINE A == profile' \ profile \subseteq {e[1] : e \in inserted} /\ blocks' \subseteq profile'
<1>1. IInv /\ [Next]_vars => [A]_vars
  <2> SUFFICES ASSUME IInv, Next PROVE A
    OBVIOUS
  <2>1. ProfileStep /\ blocks \subseteq profile
    BY ProfileSteps DEF IInv, BlocksInv
  <2> QED
    BY <2>1 DEF ProfileStep, Known
<1> QED
  BY <1>1, SpecInvariant, PTL DEF Spec, ProfiledWasCached


-----------------------------------------------------------------------------
(* A file of n complete records and j cells of one more.                   *)

HasRecord(cells, k) ==
    /\ 3 * k <= Len(cells)
    /\ \E e \in Event : /\ cells[3 * k - 2] = <<e, "head">>
                        /\ cells[3 * k - 1] = <<e, "tail">>
                        /\ cells[3 * k] = Newline
WholeRecords(cells, n, j) ==
    /\ cells \in Seq(Cell) /\ n \in Nat /\ j \in 0 .. 2
    /\ Len(cells) = 3 * n + j
    /\ \A k \in 1 .. n : HasRecord(cells, k)
    /\ j > 0 => \E e \in Event : /\ cells[3 * n + 1] = <<e, "head">>
                                 /\ j = 2 => cells[3 * n + 2] = <<e, "tail">>

LEMMA ThreeInSequence ==
    ASSUME NEW S, NEW a \in S, NEW b \in S, NEW c \in S
    PROVE  /\ <<a, b, c>> \in Seq(S) /\ Len(<<a, b, c>>) = 3
           /\ <<a, b, c>>[1] = a /\ <<a, b, c>>[2] = b /\ <<a, b, c>>[3] = c
  OBVIOUS

LEMMA PartOf ==
    ASSUME NEW S, NEW s \in Seq(S), NEW a \in Nat \ {0}, NEW b \in Nat, b <= Len(s), a <= b + 1
    PROVE  /\ SubSeq(s, a, b) \in Seq(S) /\ Len(SubSeq(s, a, b)) = b - a + 1
           /\ \A i \in 1 .. b - a + 1 : SubSeq(s, a, b)[i] = s[a + i - 1]
  BY SubSeqProperties

LEMMA BytesTyped ==
    ASSUME NEW e \in Event
    PROVE  /\ Bytes(e) \in Seq(Cell) /\ Len(Bytes(e)) = 3
           /\ Bytes(e)[1] = <<e, "head">> /\ Bytes(e)[2] = <<e, "tail">> /\ Bytes(e)[3] = Newline
<1>1. <<e, "head">> \in Cell /\ <<e, "tail">> \in Cell /\ Newline \in Cell
  BY DEF Cell
<1> QED
  BY <1>1, ThreeInSequence DEF Bytes

LEMMA RecordAt ==
    ASSUME NEW cells \in Seq(Cell), NEW k \in Nat \ {0}
    PROVE  IsRecord(cells, k) <=> HasRecord(cells, k)
<1> SUFFICES ASSUME 3 * k <= Len(cells)
             PROVE  IsRecord(cells, k) <=> HasRecord(cells, k)
  BY DEF IsRecord, HasRecord
<1> DEFINE line == Line(cells, k)
<1>1. /\ line \in Seq(Cell) /\ Len(line) = 3
      /\ line[1] = cells[3 * k - 2] /\ line[2] = cells[3 * k - 1] /\ line[3] = cells[3 * k]
  <2>1. 3 * k - 2 \in Nat \ {0} /\ 3 * k \in Nat /\ 3 * k - 2 <= 3 * k + 1 /\ 3 * k - (3 * k - 2) + 1 = 3
    OBVIOUS
  <2>2. /\ line \in Seq(Cell) /\ Len(line) = 3
        /\ \A i \in 1 .. 3 : line[i] = cells[3 * k - 2 + i - 1]
    BY <2>1, PartOf DEF Line
  <2> QED
    BY <2>2
<1>2. ASSUME NEW e \in Event
      PROVE  line = Bytes(e) <=> /\ line[1] = <<e, "head">>
                                 /\ line[2] = <<e, "tail">> /\ line[3] = Newline
  <2>1. /\ Bytes(e) \in Seq(Cell) /\ Len(Bytes(e)) = 3
        /\ Bytes(e)[1] = <<e, "head">> /\ Bytes(e)[2] = <<e, "tail">> /\ Bytes(e)[3] = Newline
    BY BytesTyped
  <2>2. ASSUME line[1] = Bytes(e)[1], line[2] = Bytes(e)[2], line[3] = Bytes(e)[3]
        PROVE  line = Bytes(e)
    <3>1. \A i \in 1 .. 3 : i = 1 \/ i = 2 \/ i = 3
      OBVIOUS
    <3>2. \A i \in 1 .. 3 : line[i] = Bytes(e)[i]
      BY <2>2, <3>1
    <3> HIDE DEF line
    <3> QED
      BY <1>1, <2>1, <3>2
  <2> QED
    BY <2>1, <2>2
<1> QED
  BY <1>1, <1>2 DEF IsRecord, HasRecord

LEMMA GoodLinesIs ==
    ASSUME NEW cells, NEW n, NEW j, WholeRecords(cells, n, j)
    PROVE  GoodLines(cells) = n
<1>1. \A k \in 1 .. n : IsRecord(cells, k)
  BY RecordAt DEF WholeRecords
<1>2. ~IsRecord(cells, n + 1)
  BY DEF WholeRecords, IsRecord
<1>3. n \in 0 .. Len(cells)
  BY DEF WholeRecords
<1>4. ASSUME NEW m \in 0 .. Len(cells), \A k \in 1 .. m : IsRecord(cells, k), ~IsRecord(cells, m + 1)
      PROVE  m = n
  <2>1. n \in Nat /\ m \in Nat
    BY DEF WholeRecords
  <2>2. ~(m < n)
    BY <1>1, <1>4, <2>1
  <2>3. ~(n < m)
    BY <1>2, <1>4, <2>1
  <2> QED
    BY <2>1, <2>2, <2>3
<1> QED
  BY <1>1, <1>2, <1>3, <1>4 DEF GoodLines

LEMMA WholeReads ==
    ASSUME NEW cells, NEW n, NEW j, WholeRecords(cells, n, j)
    PROVE  /\ Parses(cells)
           /\ Len(Remainder(cells)) = j
           /\ j = 0 => Remainder(cells) = <<>>
           /\ \A i \in 1 .. j : Remainder(cells)[i] = cells[3 * n + i]
           /\ Unterminated(cells) <=> j = 2
<1>1. Remainder(cells) = SubSeq(cells, 3 * n + 1, Len(cells))
  BY GoodLinesIs DEF Remainder
<1>2. /\ Remainder(cells) \in Seq(Cell) /\ Len(Remainder(cells)) = j
      /\ \A i \in 1 .. j : Remainder(cells)[i] = cells[3 * n + i]
  BY <1>1 DEF WholeRecords
<1>3. j = 0 => Remainder(cells) = <<>>
  BY <1>2
<1>4. j \in 0 .. 2 /\ n \in Nat
  BY DEF WholeRecords
<1>5. Parses(cells)
  <2> SUFFICES ASSUME NEW i \in 1 .. j
               PROVE  cells[3 * n + i] # Newline
    BY <1>2 DEF Parses
  <2>1. i = 1 \/ (i = 2 /\ j = 2)
    BY <1>4
  <2>2. \E e \in Event, p \in {"head", "tail"} : cells[3 * n + i] = <<e, p>>
    BY <1>4, <2>1 DEF WholeRecords
  <2> QED
    BY <2>2, EventAssumption
<1>6. Unterminated(cells) <=> j = 2
  <2>1. CASE j = 2
    <3>1. PICK e \in Event : cells[3 * n + 1] = <<e, "head">> /\ cells[3 * n + 2] = <<e, "tail">>
      BY <2>1 DEF WholeRecords
    <3>2. Remainder(cells)[1] = <<e, "head">> /\ Remainder(cells)[2] = <<e, "tail">>
      BY <1>2, <2>1, <3>1
    <3>3. Remainder(cells) = << <<e, "head">>, <<e, "tail">> >>
      BY <1>2, <2>1, <3>2
    <3> QED
      BY <2>1, <3>3 DEF Unterminated
  <2>2. CASE j # 2
    <3>1. \A e : Len(<< <<e, "head">>, <<e, "tail">> >>) = 2
      OBVIOUS
    <3> QED
      BY <1>2, <2>2, <3>1 DEF Unterminated
  <2> QED
    BY <2>1, <2>2
<1> QED
  BY <1>2, <1>3, <1>5, <1>6

(* What is read: one event per complete record, and one more for a record  *)
(* that only misses its newline.                                           *)
LEMMA RecordsAre ==
    ASSUME NEW cells, NEW n, NEW j, WholeRecords(cells, n, j)
    PROVE  /\ Records(cells) \in Seq(Event)
           /\ Len(Records(cells)) = IF j = 2 THEN n + 1 ELSE n
           /\ \A k \in 1 .. Len(Records(cells)) : Records(cells)[k] = cells[3 * k - 2][1]
<1> DEFINE complete == [k \in 1 .. n |-> cells[3 * k - 2][1]]
<1>1. n \in Nat /\ j \in 0 .. 2
  BY DEF WholeRecords
<1>2. ASSUME NEW k \in 1 .. n
      PROVE  Line(cells, k)[1] = cells[3 * k - 2] /\ cells[3 * k - 2][1] \in Event
  <2>1. cells \in Seq(Cell) /\ 3 * k <= Len(cells) /\ k \in Nat /\ k >= 1
    BY <1>1 DEF WholeRecords
  <2>2. Line(cells, k)[1] = cells[3 * k - 2]
    BY <2>1 DEF Line
  <2>3. \E e \in Event : cells[3 * k - 2] = <<e, "head">>
    BY DEF WholeRecords, HasRecord
  <2> QED
    BY <2>2, <2>3
<1>3. GoodLines(cells) = n /\ (Unterminated(cells) <=> j = 2)
  BY GoodLinesIs, WholeReads
<1>4. [k \in 1 .. GoodLines(cells) |-> Line(cells, k)[1][1]] = complete
  BY <1>2, <1>3
<1>5. complete \in Seq(Event) /\ Len(complete) = n
  BY <1>1, <1>2
<1>6. CASE j = 2
  <2>1. PICK e \in Event : cells[3 * n + 1] = <<e, "head">>
    BY <1>6 DEF WholeRecords
  <2>2. Remainder(cells)[1] = <<e, "head">>
    BY <1>6, <2>1, WholeReads
  <2>3. Records(cells) = complete \o <<Remainder(cells)[1][1]>> /\ Remainder(cells)[1][1] = e
    <3>1. Unterminated(cells)
      BY <1>3, <1>6
    <3>2. Records(cells) = [k \in 1 .. GoodLines(cells) |-> Line(cells, k)[1][1]] \o <<Remainder(cells)[1][1]>>
      BY <3>1 DEF Records
    <3>3. Remainder(cells)[1][1] = e
      BY <2>2
    <3> HIDE DEF complete
    <3>4. Records(cells) = complete \o <<Remainder(cells)[1][1]>>
      BY ONLY <1>4, <3>2
    <3> QED
      BY <3>3, <3>4
  <2>4. Records(cells) \in Seq(Event) /\ Len(Records(cells)) = n + 1
    BY <1>1, <1>5, <2>3
  <2>5. ASSUME NEW k \in 1 .. n + 1
        PROVE  Records(cells)[k] = cells[3 * k - 2][1]
    <3>1. CASE k = n + 1
      <4>1. Records(cells)[k] = e
        BY <1>1, <1>5, <2>3, <3>1
      <4>2. 3 * k - 2 = 3 * n + 1
        BY <1>1, <3>1
      <4> QED
        BY <2>1, <4>1, <4>2
    <3>2. CASE k \in 1 .. n
      BY <1>1, <1>5, <2>3, <3>2
    <3> QED
      BY <1>1, <3>1, <3>2
  <2> QED
    BY <1>6, <2>4, <2>5
<1>7. CASE j # 2
  <2>1. Records(cells) = complete \o <<>>
    BY <1>3, <1>4, <1>7 DEF Records
  <2>2. Records(cells) = complete
    BY <1>5, <2>1
  <2> QED
    BY <1>5, <1>7, <2>2
<1> QED
  BY <1>6, <1>7

-----------------------------------------------------------------------------
(* How the calls change a file of this shape, and what is read afterwards. *)

Complete(n, j) == IF j = 2 THEN n + 1 ELSE n

LEMMA SameRecords ==
    ASSUME NEW c, NEW n, NEW j, WholeRecords(c, n, j),
           NEW d, NEW m, NEW i, WholeRecords(d, m, i),
           NEW count, count = Complete(n, j), count = Complete(m, i),
           \A k \in 1 .. count : c[3 * k - 2] = d[3 * k - 2]
    PROVE  Records(c) = Records(d)
<1>1. /\ Records(c) \in Seq(Event) /\ Len(Records(c)) = count
      /\ \A k \in 1 .. Len(Records(c)) : Records(c)[k] = c[3 * k - 2][1]
  BY RecordsAre DEF Complete
<1>2. /\ Records(d) \in Seq(Event) /\ Len(Records(d)) = count
      /\ \A k \in 1 .. Len(Records(d)) : Records(d)[k] = d[3 * k - 2][1]
  BY RecordsAre DEF Complete
<1>3. \A k \in 1 .. count : Records(c)[k] = Records(d)[k]
  BY <1>1, <1>2
<1> QED
  BY <1>1, <1>2, <1>3, SeqEqual

LEMMA Prefix ==
    ASSUME NEW e \in Event, NEW n \in 0 .. 3
    PROVE  /\ SubSeq(Bytes(e), 1, n) \in Seq(Cell) /\ Len(SubSeq(Bytes(e), 1, n)) = n
           /\ n > 0 => SubSeq(Bytes(e), 1, n)[1] = <<e, "head">>
           /\ n > 1 => SubSeq(Bytes(e), 1, n)[2] = <<e, "tail">>
           /\ n > 2 => SubSeq(Bytes(e), 1, n)[3] = Newline
<1>1. /\ Bytes(e) \in Seq(Cell) /\ Len(Bytes(e)) = 3
      /\ Bytes(e)[1] = <<e, "head">> /\ Bytes(e)[2] = <<e, "tail">> /\ Bytes(e)[3] = Newline
  BY BytesTyped
<1>2. /\ SubSeq(Bytes(e), 1, n) \in Seq(Cell) /\ Len(SubSeq(Bytes(e), 1, n)) = n
      /\ \A i \in 1 .. n : SubSeq(Bytes(e), 1, n)[i] = Bytes(e)[i]
  <2> DEFINE p == Bytes(e)
  <2>1. p \in Seq(Cell) /\ Len(p) = 3
    BY <1>1
  <2> HIDE DEF p
  <2>2. /\ SubSeq(p, 1, n) \in Seq(Cell) /\ Len(SubSeq(p, 1, n)) = n
        /\ \A i \in 1 .. n : SubSeq(p, 1, n)[i] = p[i]
    BY <2>1
  <2> QED
    BY <2>2 DEF p
<1> QED
  BY <1>1, <1>2

LEMMA Joined ==
    ASSUME NEW c \in Seq(Cell), NEW p \in Seq(Cell)
    PROVE  /\ c \o p \in Seq(Cell) /\ Len(c \o p) = Len(c) + Len(p)
           /\ \A i \in 1 .. Len(c) : (c \o p)[i] = c[i]
           /\ \A i \in 1 .. Len(p) : (c \o p)[Len(c) + i] = p[i]
  BY ConcatProperties

\* The first complete records of a file do not depend on what follows them.
LEMMA AlreadyRecorded ==
    ASSUME NEW c, NEW n, NEW j, WholeRecords(c, n, j), NEW d \in Seq(Cell),
           3 * n <= Len(d), \A i \in 1 .. 3 * n : d[i] = c[i]
    PROVE  \A k \in 1 .. n : HasRecord(d, k)
<1> SUFFICES ASSUME NEW k \in 1 .. n
             PROVE  HasRecord(d, k)
  OBVIOUS
<1>1. n \in Nat /\ HasRecord(c, k) /\ Len(d) \in Nat
  BY DEF WholeRecords
<1>2. 3 * k <= 3 * n /\ {3 * k - 2, 3 * k - 1, 3 * k} \subseteq 1 .. 3 * n
  BY <1>1
<1>3. d[3 * k - 2] = c[3 * k - 2] /\ d[3 * k - 1] = c[3 * k - 1] /\ d[3 * k] = c[3 * k]
  BY <1>2
<1>4. 3 * k <= Len(d)
  BY <1>1, <1>2
<1> QED
  BY <1>1, <1>3, <1>4 DEF HasRecord

\* A torn append leaves the records as they were.
LEMMA TornKeeps ==
    ASSUME NEW c, NEW n, WholeRecords(c, n, 0), NEW e \in Event, NEW j \in 0 .. 2
    PROVE  WholeRecords(c \o SubSeq(Bytes(e), 1, j), n, j)
<1> DEFINE p == SubSeq(Bytes(e), 1, j)
           d == c \o p
<1>1. c \in Seq(Cell) /\ n \in Nat /\ Len(c) = 3 * n
  BY DEF WholeRecords
<1>2. /\ p \in Seq(Cell) /\ Len(p) = j
      /\ j > 0 => p[1] = <<e, "head">>
      /\ j > 1 => p[2] = <<e, "tail">>
  BY Prefix
<1> HIDE DEF p
<1>3. /\ d \in Seq(Cell) /\ Len(d) = 3 * n + j
      /\ \A i \in 1 .. 3 * n : d[i] = c[i]
      /\ \A i \in 1 .. j : d[3 * n + i] = p[i]
  BY <1>1, <1>2, Joined
<1> HIDE DEF d
<1>4. \A k \in 1 .. n : HasRecord(d, k)
  BY <1>1, <1>3, AlreadyRecorded
<1>5. ASSUME j > 0
      PROVE  d[3 * n + 1] = <<e, "head">> /\ (j = 2 => d[3 * n + 2] = <<e, "tail">>)
  BY <1>2, <1>3, <1>5
<1>6. WholeRecords(d, n, j)
  BY <1>1, <1>3, <1>4, <1>5 DEF WholeRecords
<1> QED
  BY <1>6 DEF d, p

LEMMA WholeAppend ==
    ASSUME NEW c, NEW n, WholeRecords(c, n, 0), NEW e \in Event
    PROVE  WholeRecords(c \o Bytes(e), n + 1, 0) /\ Records(c \o Bytes(e)) = Append(Records(c), e)
<1> DEFINE p == Bytes(e)
           d == c \o p
<1>1. c \in Seq(Cell) /\ n \in Nat /\ Len(c) = 3 * n
  BY DEF WholeRecords
<1>2. p \in Seq(Cell) /\ Len(p) = 3 /\ p[1] = <<e, "head">> /\ p[2] = <<e, "tail">> /\ p[3] = Newline
  BY BytesTyped
<1> HIDE DEF p
<1>3. /\ d \in Seq(Cell) /\ Len(d) = 3 * n + 3
      /\ \A i \in 1 .. 3 * n : d[i] = c[i]
      /\ \A i \in 1 .. 3 : d[3 * n + i] = p[i]
  <2>1. /\ d \in Seq(Cell) /\ Len(d) = Len(c) + Len(p)
        /\ \A i \in 1 .. Len(c) : d[i] = c[i]
        /\ \A i \in 1 .. Len(p) : d[Len(c) + i] = p[i]
    BY <1>1, <1>2, Joined
  <2> QED
    BY <1>1, <1>2, <2>1
<1> HIDE DEF d
<1>4. d[3 * n + 1] = <<e, "head">> /\ d[3 * n + 2] = <<e, "tail">> /\ d[3 * n + 3] = Newline
  BY <1>2, <1>3
<1>5. HasRecord(d, n + 1)
  <2>1. 3 * (n + 1) - 2 = 3 * n + 1 /\ 3 * (n + 1) - 1 = 3 * n + 2 /\ 3 * (n + 1) = 3 * n + 3
    BY <1>1
  <2> QED
    BY <1>3, <1>4, <2>1 DEF HasRecord
<1>6. \A k \in 1 .. n : HasRecord(d, k)
  <2>1. 3 * n <= Len(d) /\ \A i \in 1 .. 3 * n : d[i] = c[i]
    BY <1>1, <1>3
  <2> QED
    BY <1>3, <2>1, AlreadyRecorded
<1>7. WholeRecords(d, n + 1, 0)
  <2>1. \A k \in 1 .. n + 1 : k \in 1 .. n \/ k = n + 1
    BY <1>1
  <2>2. \A k \in 1 .. n + 1 : HasRecord(d, k)
    BY <1>5, <1>6, <2>1
  <2>3. n + 1 \in Nat /\ Len(d) = 3 * (n + 1) + 0 /\ 0 \in 0 .. 2
    BY <1>1, <1>3
  <2> QED
    BY <1>3, <2>2, <2>3 DEF WholeRecords
<1>8. /\ Records(c) \in Seq(Event) /\ Len(Records(c)) = n
      /\ \A k \in 1 .. n : Records(c)[k] = c[3 * k - 2][1]
  BY RecordsAre
<1>9. /\ Records(d) \in Seq(Event) /\ Len(Records(d)) = n + 1
      /\ \A k \in 1 .. n + 1 : Records(d)[k] = d[3 * k - 2][1]
  BY <1>7, RecordsAre
<1>10. /\ Append(Records(c), e) \in Seq(Event) /\ Len(Append(Records(c), e)) = n + 1
       /\ \A k \in 1 .. n : Append(Records(c), e)[k] = Records(c)[k]
       /\ Append(Records(c), e)[n + 1] = e
  BY <1>1, <1>8, AppendProperties
<1>11. ASSUME NEW k \in 1 .. n + 1
       PROVE  Records(d)[k] = Append(Records(c), e)[k]
  <2>1. CASE k = n + 1
    <3>1. 3 * k - 2 = 3 * n + 1
      BY <1>1, <2>1
    <3>2. d[3 * k - 2][1] = e
      BY <1>4, <3>1
    <3> QED
      BY <1>9, <1>10, <2>1, <3>2
  <2>2. CASE k \in 1 .. n
    <3>1. 3 * k - 2 \in 1 .. 3 * n
      BY <1>1, <2>2
    <3>2. Records(d)[k] = d[3 * k - 2][1] /\ d[3 * k - 2] = c[3 * k - 2]
      BY <1>3, <1>9, <3>1
    <3>3. Append(Records(c), e)[k] = c[3 * k - 2][1]
      BY <1>8, <1>10, <2>2
    <3> QED
      BY <3>2, <3>3
  <2>3. k = n + 1 \/ k \in 1 .. n
    BY <1>1
  <2> QED
    BY <2>1, <2>2, <2>3
<1>12. Records(d) = Append(Records(c), e)
  BY <1>9, <1>10, <1>11, SeqEqual
<1> QED
  BY <1>7, <1>12 DEF d, p

\* The tail repair adds the missing newline ...
LEMMA Terminated ==
    ASSUME NEW c, NEW n, WholeRecords(c, n, 2)
    PROVE  WholeRecords(Append(c, Newline), n + 1, 0) /\ Records(Append(c, Newline)) = Records(c)
<1> DEFINE d == Append(c, Newline)
<1>1. c \in Seq(Cell) /\ n \in Nat /\ Len(c) = 3 * n + 2 /\ Newline \in Cell
  BY DEF WholeRecords, Cell
<1>2. PICK e \in Event : c[3 * n + 1] = <<e, "head">> /\ c[3 * n + 2] = <<e, "tail">>
  BY DEF WholeRecords
<1>3. /\ d \in Seq(Cell) /\ Len(d) = 3 * n + 3
      /\ \A i \in 1 .. 3 * n + 2 : d[i] = c[i]
      /\ d[3 * n + 3] = Newline
  <2>1. /\ d \in Seq(Cell) /\ Len(d) = Len(c) + 1
        /\ \A i \in 1 .. Len(c) : d[i] = c[i]
        /\ d[Len(c) + 1] = Newline
    BY <1>1, AppendProperties
  <2> HIDE DEF d
  <2> QED
    BY <1>1, <2>1
<1> HIDE DEF d
<1>4. HasRecord(d, n + 1)
  <2>1. 3 * (n + 1) - 2 = 3 * n + 1 /\ 3 * (n + 1) - 1 = 3 * n + 2 /\ 3 * (n + 1) = 3 * n + 3
    BY <1>1
  <2>2. d[3 * n + 1] = <<e, "head">> /\ d[3 * n + 2] = <<e, "tail">>
    BY <1>1, <1>2, <1>3
  <2> QED
    BY <1>3, <2>1, <2>2 DEF HasRecord
<1>5. \A k \in 1 .. n : HasRecord(d, k)
  BY <1>1, <1>3, AlreadyRecorded
<1>6. WholeRecords(d, n + 1, 0)
  <2>1. \A k \in 1 .. n + 1 : k \in 1 .. n \/ k = n + 1
    BY <1>1
  <2>2. \A k \in 1 .. n + 1 : HasRecord(d, k)
    BY <1>4, <1>5, <2>1
  <2>3. n + 1 \in Nat /\ Len(d) = 3 * (n + 1) + 0 /\ 0 \in 0 .. 2
    BY <1>1, <1>3
  <2> QED
    BY <1>3, <2>2, <2>3 DEF WholeRecords
<1>7. \A k \in 1 .. n + 1 : d[3 * k - 2] = c[3 * k - 2]
  BY <1>1, <1>3
<1>8. Records(d) = Records(c)
  BY <1>6, <1>7, n + 1 = Complete(n, 2), n + 1 = Complete(n + 1, 0), SameRecords DEF Complete
<1> QED
  BY <1>6, <1>8 DEF d

\* ... or cuts what is torn, and set_len what was appended.
LEMMA Cut ==
    ASSUME NEW c, NEW n, NEW j, WholeRecords(c, n, j), j # 2
    PROVE  WholeRecords(SubSeq(c, 1, 3 * n), n, 0) /\ Records(SubSeq(c, 1, 3 * n)) = Records(c)
<1> DEFINE d == SubSeq(c, 1, 3 * n)
<1>1. c \in Seq(Cell) /\ n \in Nat /\ j \in 0 .. 2 /\ Len(c) = 3 * n + j
  BY DEF WholeRecords
<1>2. d \in Seq(Cell) /\ Len(d) = 3 * n /\ \A i \in 1 .. 3 * n : d[i] = c[i]
  <2> DEFINE m == 3 * n
  <2>1. m \in Nat /\ m <= Len(c)
    BY <1>1
  <2> HIDE DEF m
  <2>2. /\ SubSeq(c, 1, m) \in Seq(Cell) /\ Len(SubSeq(c, 1, m)) = m
        /\ \A i \in 1 .. m : SubSeq(c, 1, m)[i] = c[i]
    BY <1>1, <2>1
  <2> QED
    BY <2>2 DEF m
<1> HIDE DEF d
<1>3. \A k \in 1 .. n : HasRecord(d, k)
  BY <1>1, <1>2, AlreadyRecorded
<1>4. WholeRecords(d, n, 0)
  BY <1>1, <1>2, <1>3 DEF WholeRecords
<1>5. \A k \in 1 .. n : d[3 * k - 2] = c[3 * k - 2]
  BY <1>1, <1>2
<1>6. Records(d) = Records(c)
  BY <1>4, <1>5, n = Complete(n, j), n = Complete(n, 0), SameRecords DEF Complete
<1> QED
  BY <1>4, <1>6 DEF d

-----------------------------------------------------------------------------
(* The invariant.  A failed rollback may leave anything behind, but then   *)
(* rollback_failed is set; before that the file is damaged only behind its *)
(* last complete record, and not at all while a writer has it open.        *)

Typed ==
    /\ state \in [Writer -> {"closed", "opened", "open"}]
    /\ valid_len = [w \in Writer |-> valid_len[w]]
    /\ branch_targets \in [Writer -> SUBSET Branch]
    /\ readers \subseteq Reader
    /\ rollback_failed \in BOOLEAN
    /\ \A v, w \in Writer : state[v] = "open" /\ state[w] = "open" => v = w
    /\ (\E w \in Writer : state[w] = "open") => readers = {}
Intact(n, j) ==
    /\ WholeRecords(file, n, j)
    /\ \A w \in Writer : state[w] = "open" =>
          j = 0 /\ valid_len[w] = Len(file) /\ branch_targets[w] = BranchesIn(file)
Inv == Typed /\ (rollback_failed \/ \E n, j : Intact(n, j))

Kindly == (rollback_failed' \/ OneMore) /\ (readers \cap readers' # {} => file' = file)

LEMMA InitInv == ProfileInit => Inv
<1> SUFFICES ASSUME ProfileInit PROVE Inv
  OBVIOUS
<1>1. Typed
  <2>1. \A w \in Writer : state[w] = "closed"
    BY DEF ProfileInit
  <2>2. branch_targets \in [Writer -> SUBSET Branch] /\ valid_len = [w \in Writer |-> valid_len[w]]
    BY DEF ProfileInit
  <2>3. state \in [Writer -> {"closed", "opened", "open"}]
    BY DEF ProfileInit
  <2> QED
    BY <2>1, <2>2, <2>3 DEF ProfileInit, Typed
<1>2. Intact(0, 0)
  BY DEF ProfileInit, Intact, WholeRecords
<1> QED
  BY <1>1, <1>2 DEF Inv

LEMMA InvSound == Inv => ProfileSound
<1> SUFFICES ASSUME Inv, ~rollback_failed PROVE ProfileSound
  BY DEF ProfileSound, ProfileReadable, WriterKnowsFile
<1>1. PICK n, j : Intact(n, j)
  BY DEF Inv
<1>2. Parses(file) /\ (j = 0 => Remainder(file) = <<>>)
  BY <1>1, WholeReads DEF Intact
<1> QED
  BY <1>1, <1>2 DEF Intact, ProfileSound, ProfileReadable, WriterKnowsFile

\* A step that leaves the file and what open writers know of it alone.
LEMMA Undisturbed ==
    ASSUME Inv, Typed', file' = file, rollback_failed' = rollback_failed,
           \A w \in Writer : state'[w] = "open" =>
               state[w] = "open" /\ valid_len'[w] = valid_len[w] /\ branch_targets'[w] = branch_targets[w]
    PROVE  Inv' /\ Kindly
<1>1. ASSUME NEW n, NEW j, Intact(n, j) PROVE Intact(n, j)'
  BY <1>1 DEF Intact
<1>2. OneMore
  BY DEF OneMore
<1> QED
  BY <1>1, <1>2 DEF Inv, Kindly

LEMMA BranchesAppend ==
    ASSUME NEW c, NEW d, NEW e \in Event, Records(c) \in Seq(Event), Records(d) = Append(Records(c), e)
    PROVE  BranchesIn(d) = BranchesIn(c) \cup ({e} \cap Branch)
<1> DEFINE r == Records(c)
           t == Records(d)
<1>1. /\ r \in Seq(Event) /\ Len(t) = Len(r) + 1
      /\ \A k \in 1 .. Len(r) : t[k] = r[k]
      /\ t[Len(r) + 1] = e
      /\ DOMAIN r = 1 .. Len(r) /\ DOMAIN t = 1 .. Len(r) + 1 /\ Len(r) \in Nat
  BY AppendProperties
<1> HIDE DEF r, t
<1>2. \A k \in 1 .. Len(r) + 1 : k \in 1 .. Len(r) \/ k = Len(r) + 1
  BY <1>1
<1>3. \A k \in 1 .. Len(r) : k \in 1 .. Len(r) + 1
  BY <1>1
<1>4. Len(r) + 1 \in 1 .. Len(r) + 1
  BY <1>1
<1>5. {t[k] : k \in DOMAIN t} = {r[k] : k \in DOMAIN r} \cup {e}
  BY <1>1, <1>2, <1>3, <1>4
<1> QED
  BY <1>5 DEF BranchesIn, r, t

\* Nobody else has the file open.
LEMMA Alone ==
    ASSUME Typed, NEW w \in Writer, state[w] = "open"
    PROVE  readers = {} /\ \A v \in Writer \ {w} : state[v] # "open"
  BY DEF Typed

LEMMA ClosedTyped ==
    ASSUME Typed, NEW w \in Writer, Closed(w), readers' = readers, rollback_failed' \in BOOLEAN
    PROVE  Typed' /\ \A v \in Writer : state'[v] = "open" =>
               v # w /\ state[v] = "open" /\ valid_len'[v] = valid_len[v] /\ branch_targets'[v] = branch_targets[v]
<1>1. \A v \in Writer : state'[v] = IF v = w THEN "closed" ELSE state[v]
  BY DEF Typed, Closed
<1>2. \A v \in Writer \ {w} : valid_len'[v] = valid_len[v] /\ branch_targets'[v] = branch_targets[v]
  BY DEF Typed, Closed
<1>3. state' \in [Writer -> {"closed", "opened", "open"}] /\ branch_targets' \in [Writer -> SUBSET Branch]
  BY DEF Typed, Closed
<1>4. valid_len' = [v \in Writer |-> valid_len'[v]]
  BY DEF Typed, Closed
<1> QED
  BY <1>1, <1>2, <1>3, <1>4 DEF Typed

-----------------------------------------------------------------------------
(* Action by action.                                                       *)

LEMMA OpenFileStep ==
    ASSUME Inv, NEW w \in Writer, OpenFile(w)
    PROVE  Inv' /\ Kindly
<1>1. \A v \in Writer : state'[v] = IF v = w THEN "opened" ELSE state[v]
  BY DEF Inv, Typed, OpenFile
<1>2. Typed'
  BY <1>1 DEF Inv, Typed, OpenFile
<1> QED
  BY <1>1, <1>2, Undisturbed DEF OpenFile

LEMMA EndStep ==
    ASSUME Inv, NEW w \in Writer, OpenFails(w) \/ Close(w)
    PROVE  Inv' /\ Kindly
<1>1. Closed(w) /\ readers' = readers /\ rollback_failed' = rollback_failed /\ file' = file
  BY DEF OpenFails, Close
<1>2. Typed /\ rollback_failed' \in BOOLEAN
  BY <1>1 DEF Inv, Typed
<1> QED
  BY <1>1, <1>2, ClosedTyped, Undisturbed

LEMMA ReaderStep ==
    ASSUME Inv, NEW r \in Reader, BeginRead(r) \/ EndRead(r)
    PROVE  Inv' /\ Kindly
<1>1. UNCHANGED <<file, state, valid_len, branch_targets, rollback_failed>>
  BY DEF BeginRead, EndRead
<1>2. readers' \subseteq Reader /\ ((\E w \in Writer : state[w] = "open") => readers' = {})
  BY DEF Inv, Typed, BeginRead, EndRead
<1>3. Typed'
  BY <1>1, <1>2 DEF Inv, Typed
<1> QED
  BY <1>1, <1>3, Undisturbed

LEMMA OpenLockedStep ==
    ASSUME Inv, NEW w \in Writer, OpenLocked(w)
    PROVE  Inv' /\ Kindly
<1>1. /\ Typed /\ readers = {} /\ \A v \in Writer : state[v] # "open"
      /\ readers' = readers /\ rollback_failed' = rollback_failed /\ file' = Repaired
  BY DEF Inv, OpenLocked, LockExclusive
<1>2. \A v \in Writer : state'[v] = IF v = w THEN "open" ELSE state[v]
  BY DEF Inv, Typed, OpenLocked
<1>3. Typed'
  <2>1. state' \in [Writer -> {"closed", "opened", "open"}]
    BY <1>1 DEF Typed, OpenLocked
  <2>2. branch_targets' \in [Writer -> SUBSET Branch]
    BY <1>1 DEF Typed, OpenLocked, LoadedBranches, BranchesIn
  <2>3. valid_len' = [v \in Writer |-> valid_len'[v]]
    BY <1>1 DEF Typed, OpenLocked
  <2> QED
    BY <1>1, <1>2, <2>1, <2>2, <2>3 DEF Typed
<1>4. CASE rollback_failed
  BY <1>1, <1>3, <1>4 DEF Inv, Kindly
<1>5. CASE ~rollback_failed
  <2>1. PICK n, j : WholeRecords(file, n, j)
    BY <1>5 DEF Inv, Intact
  <2>2. \E m : WholeRecords(file', m, 0) /\ Records(file') = Records(file)
    <3>1. CASE j = 2
      <4>1. file' = Append(file, Newline)
        BY <1>1, <2>1, <3>1, WholeReads DEF Repaired
      <4> QED
        BY <2>1, <3>1, <4>1, Terminated
    <3>2. CASE j # 2
      <4>1. file' = SubSeq(file, 1, Len(file) - Len(Remainder(file))) /\ Len(Remainder(file)) = j
        BY <1>1, <2>1, <3>2, WholeReads DEF Repaired
      <4>2. Len(file) - j = 3 * n
        BY <2>1 DEF WholeRecords
      <4>3. file' = SubSeq(file, 1, 3 * n)
        BY <4>1, <4>2
      <4> QED
        BY <2>1, <3>2, <4>3, Cut
    <3> QED
      BY <3>1, <3>2
  <2>3. PICK m : WholeRecords(file', m, 0) /\ Records(file') = Records(file)
    BY <2>2
  <2>4. BranchesIn(file') = BranchesIn(file)
    BY <2>3 DEF BranchesIn
  <2>5. valid_len'[w] = Len(file') /\ branch_targets'[w] = BranchesIn(file')
    BY <1>1, <2>4 DEF Typed, OpenLocked, RepairedLength, LoadedBranches
  <2>6. Intact(m, 0)'
    BY <1>1, <1>2, <2>3, <2>5 DEF Intact
  <2> QED
    BY <1>1, <1>3, <2>3, <2>6 DEF Inv, Kindly, OneMore
<1> QED
  BY <1>4, <1>5

LEMMA RecordStep ==
    ASSUME Inv, NEW w \in Writer, NEW e \in Event, Record(w, e)
    PROVE  Inv' /\ Kindly
<1>1. /\ Typed /\ state' = state /\ readers' = readers /\ rollback_failed' = rollback_failed
      /\ readers = {} /\ state[w] = "open" /\ \A v \in Writer \ {w} : state[v] # "open"
  BY Alone DEF Inv, Record
<1>2. branch_targets' \in [Writer -> SUBSET Branch] /\ branch_targets'[w] = branch_targets[w] \cup ({e} \cap Branch)
  BY DEF Inv, Typed, Record
<1>3. valid_len' = [v \in Writer |-> valid_len'[v]] /\ valid_len'[w] = valid_len[w] + 3
  BY DEF Inv, Typed, Record
<1>4. Typed'
  BY <1>1, <1>2, <1>3 DEF Typed
<1>5. CASE rollback_failed
  BY <1>1, <1>4, <1>5 DEF Inv, Kindly
<1>6. CASE ~rollback_failed
  <2>1. PICK n : WholeRecords(file, n, 0) /\ valid_len[w] = Len(file) /\ branch_targets[w] = BranchesIn(file)
    BY <1>1, <1>6 DEF Inv, Intact
  <2>2. WholeRecords(file', n + 1, 0) /\ Records(file') = Append(Records(file), e)
    BY <2>1, WholeAppend DEF Record
  <2>3. BranchesIn(file') = BranchesIn(file) \cup ({e} \cap Branch)
    BY <2>1, <2>2, RecordsAre, BranchesAppend
  <2>4. Len(file') = Len(file) + 3
    BY <2>1, <2>2 DEF WholeRecords
  <2>5. Intact(n + 1, 0)'
    BY <1>1, <1>2, <1>3, <2>1, <2>2, <2>3, <2>4 DEF Intact
  <2>6. OneMore
    BY <2>1, <2>2 DEF OneMore, Record, Duplicate
  <2> QED
    BY <1>1, <1>4, <2>5, <2>6 DEF Inv, Kindly
<1> QED
  BY <1>5, <1>6

LEMMA RolledBackStep ==
    ASSUME Inv, NEW w \in Writer, NEW e \in Event, RecordRolledBack(w, e)
    PROVE  Inv' /\ Kindly
<1>1. /\ Typed /\ UNCHANGED <<state, valid_len, branch_targets, readers, rollback_failed>>
      /\ readers = {} /\ state[w] = "open"
  BY Alone DEF Inv, RecordRolledBack
<1>2. Typed'
  BY <1>1 DEF Typed
<1>3. CASE rollback_failed
  BY <1>1, <1>2, <1>3 DEF Inv, Kindly
<1>4. CASE ~rollback_failed
  <2>1. PICK m : WholeRecords(file, m, 0) /\ valid_len[w] = Len(file)
    BY <1>1, <1>4 DEF Inv, Intact
  <2>2. PICK n \in 0 .. 2 : file' = Resized(file \o SubSeq(Bytes(e), 1, n), valid_len[w])
    BY DEF RecordRolledBack
  <2> DEFINE p == SubSeq(Bytes(e), 1, n)
             d == file \o p
             q == SubSeq(d, 1, Len(file))
  <2>3. file \in Seq(Cell) /\ p \in Seq(Cell) /\ Len(file) \in Nat /\ Len(p) \in Nat
    BY <2>1, Prefix DEF WholeRecords
  <2> HIDE DEF p
  <2>4. d \in Seq(Cell) /\ Len(file) <= Len(d) /\ \A i \in 1 .. Len(file) : d[i] = file[i]
    BY <2>3, Joined
  <2> HIDE DEF d
  <2>5. q \in Seq(Cell) /\ Len(q) = Len(file) /\ \A i \in 1 .. Len(file) : q[i] = file[i]
    BY <2>3, <2>4
  <2> HIDE DEF q
  <2>6. q = file
    BY <2>3, <2>5, SeqEqual
  <2>7. file' = file
    BY <2>1, <2>2, <2>6 DEF Resized, d, p, q
  <2> QED
    BY <1>1, <1>2, <2>7, Undisturbed
<1> QED
  BY <1>3, <1>4

LEMMA RollbackFailsStep ==
    ASSUME Inv, NEW w \in Writer, NEW e \in Event, RollbackFails(w, e)
    PROVE  Inv' /\ Kindly
<1>1. /\ Typed /\ UNCHANGED <<state, valid_len, branch_targets, readers>> /\ rollback_failed'
      /\ readers = {} /\ rollback_failed' \in BOOLEAN
  BY Alone DEF Inv, RollbackFails
<1>2. Typed'
  BY <1>1 DEF Typed
<1> QED
  BY <1>1, <1>2 DEF Inv, Kindly

\* What a process leaves behind that dies in an append: nothing, one torn
\* line, or the record itself, whose newline may be missing.
LEMMA CrashLeaves ==
    ASSUME NEW c, NEW m, WholeRecords(c, m, 0), NEW e \in Event, NEW n \in 0 .. 3, NEW d,
           d = c \o SubSeq(Bytes(e), 1, n)
    PROVE  /\ \E k, j : WholeRecords(d, k, j)
           /\ Records(d) = Records(c) \/ Records(d) = Append(Records(c), e)
<1>1. CASE n \in 0 .. 1
  <2>1. WholeRecords(d, m, n)
    BY <1>1, TornKeeps
  <2>2. \A k \in 1 .. m : d[3 * k - 2] = c[3 * k - 2]
    <3>1. c \in Seq(Cell) /\ SubSeq(Bytes(e), 1, n) \in Seq(Cell) /\ m \in Nat /\ Len(c) = 3 * m
      BY Prefix DEF WholeRecords
    <3>2. \A i \in 1 .. 3 * m : d[i] = c[i]
      BY <3>1, Joined
    <3>3. \A k \in 1 .. m : 3 * k - 2 \in 1 .. 3 * m
      BY <3>1
    <3> QED
      BY <3>2, <3>3
  <2>3. Records(d) = Records(c)
    <3>1. m = Complete(m, n) /\ m = Complete(m, 0)
      BY <1>1 DEF Complete
    <3>2. WholeRecords(c, m, 0)
      OBVIOUS
    <3> QED
      BY ONLY <2>1, <2>2, <3>1, <3>2, SameRecords
  <2> QED
    BY <2>1, <2>3
<1>2. CASE n = 2
  <2> DEFINE p == SubSeq(Bytes(e), 1, n)
             b == Bytes(e)
             x == Append(d, Newline)
             y == c \o b
  <2>1. /\ p \in Seq(Cell) /\ Len(p) = 2 /\ p[1] = <<e, "head">> /\ p[2] = <<e, "tail">>
        /\ b \in Seq(Cell) /\ Len(b) = 3 /\ b[1] = <<e, "head">> /\ b[2] = <<e, "tail">> /\ b[3] = Newline
    BY <1>2, Prefix, BytesTyped
  <2>2. c \in Seq(Cell) /\ Len(c) \in Nat /\ Newline \in Cell
    BY DEF WholeRecords, Cell
  <2>3. WholeRecords(d, m, 2)
    BY <1>2, TornKeeps
  <2> HIDE DEF p, b
  <2>4. /\ d \in Seq(Cell) /\ Len(d) = Len(c) + 2
        /\ \A i \in 1 .. Len(c) : d[i] = c[i]
        /\ d[Len(c) + 1] = p[1] /\ d[Len(c) + 2] = p[2]
    <3>1. d = c \o p
      BY DEF p
    <3>2. /\ c \o p \in Seq(Cell) /\ Len(c \o p) = Len(c) + Len(p)
          /\ \A i \in 1 .. Len(c) : (c \o p)[i] = c[i]
          /\ \A i \in 1 .. Len(p) : (c \o p)[Len(c) + i] = p[i]
      BY <2>1, <2>2, Joined
    <3> QED
      BY <2>1, <3>1, <3>2
  <2>5. /\ x \in Seq(Cell) /\ Len(x) = Len(d) + 1
        /\ \A i \in 1 .. Len(d) : x[i] = d[i]
        /\ x[Len(d) + 1] = Newline
    BY <2>2, <2>4, AppendProperties
  <2>6. /\ y \in Seq(Cell) /\ Len(y) = Len(c) + Len(b)
        /\ \A i \in 1 .. Len(c) : y[i] = c[i]
        /\ \A i \in 1 .. Len(b) : y[Len(c) + i] = b[i]
    BY <2>1, <2>2, Joined
  <2> HIDE DEF x, y
  <2>7. y[Len(c) + 1] = b[1] /\ y[Len(c) + 2] = b[2] /\ y[Len(c) + 3] = b[3]
    BY <2>1, <2>6
  <2>8. \A i \in 1 .. Len(c) + 3 : i \in 1 .. Len(c) \/ i = Len(c) + 1 \/ i = Len(c) + 2 \/ i = Len(c) + 3
    BY <2>2
  <2>9. \A i \in 1 .. Len(c) : x[i] = y[i]
    BY <2>2, <2>4, <2>5, <2>6
  <2>10. x[Len(c) + 1] = y[Len(c) + 1] /\ x[Len(c) + 2] = y[Len(c) + 2] /\ x[Len(c) + 3] = y[Len(c) + 3]
    <3>1. x[Len(c) + 1] = d[Len(c) + 1] /\ x[Len(c) + 2] = d[Len(c) + 2] /\ x[Len(c) + 3] = Newline
      BY <2>2, <2>4, <2>5
    <3> QED
      BY <2>1, <2>4, <2>7, <3>1
  <2>11. Len(x) = Len(c) + 3 /\ Len(y) = Len(c) + 3
    BY <2>1, <2>2, <2>4, <2>5, <2>6
  <2>12. \A i \in 1 .. Len(c) + 3 : x[i] = y[i]
    BY <2>8, <2>9, <2>10
  <2>13. x = y
    BY <2>5, <2>6, <2>11, <2>12, SeqEqual
  <2>14. Records(x) = Records(d)
    BY <2>3, Terminated DEF x
  <2>15. Records(y) = Append(Records(c), e)
    BY WholeAppend DEF y, b
  <2> QED
    BY <2>3, <2>13, <2>14, <2>15
<1>3. CASE n = 3
  <2> DEFINE p == SubSeq(Bytes(e), 1, n)
             b == Bytes(e)
  <2>1. /\ p \in Seq(Cell) /\ Len(p) = 3 /\ p[1] = <<e, "head">> /\ p[2] = <<e, "tail">> /\ p[3] = Newline
        /\ b \in Seq(Cell) /\ Len(b) = 3 /\ b[1] = <<e, "head">> /\ b[2] = <<e, "tail">> /\ b[3] = Newline
    BY <1>3, Prefix, BytesTyped
  <2> HIDE DEF p, b
  <2>2. \A i \in 1 .. 3 : i = 1 \/ i = 2 \/ i = 3
    OBVIOUS
  <2>3. p = b
    BY <2>1, <2>2, SeqEqual
  <2>4. d = c \o Bytes(e)
    BY <2>3 DEF p, b
  <2> QED
    BY <2>4, WholeAppend
<1> QED
  BY <1>1, <1>2, <1>3

LEMMA WriterCrashStep ==
    ASSUME Inv, NEW w \in Writer, NEW e \in Event, CrashInRecord(w, e)
    PROVE  Inv' /\ Kindly
<1>1. /\ Typed /\ readers' = readers /\ rollback_failed' = rollback_failed
      /\ readers = {} /\ state[w] = "open" /\ \A v \in Writer \ {w} : state[v] # "open"
      /\ Closed(w) /\ rollback_failed' \in BOOLEAN
  BY Alone DEF Inv, Typed, CrashInRecord
<1>2. Typed' /\ \A v \in Writer : state'[v] # "open"
  BY <1>1, ClosedTyped
<1>3. CASE rollback_failed
  BY <1>1, <1>2, <1>3 DEF Inv, Kindly
<1>4. CASE ~rollback_failed
  <2>1. PICK m : WholeRecords(file, m, 0) /\ branch_targets[w] = BranchesIn(file)
    BY <1>1, <1>4 DEF Inv, Intact
  <2>2. PICK n \in 0 .. 3 : file' = file \o SubSeq(Bytes(e), 1, n)
    BY DEF CrashInRecord
  <2>3. /\ \E k, j : WholeRecords(file', k, j)
        /\ Records(file') = Records(file) \/ Records(file') = Append(Records(file), e)
    BY <2>1, <2>2, CrashLeaves
  <2>4. PICK k, j : WholeRecords(file', k, j)
    BY <2>3
  <2>5. Intact(k, j)'
    BY <1>2, <2>4 DEF Intact
  <2>6. OneMore
    BY <2>1, <2>3 DEF OneMore, CrashInRecord, Duplicate
  <2> QED
    BY <1>1, <1>2, <2>5, <2>6 DEF Inv, Kindly
<1> QED
  BY <1>3, <1>4

LEMMA Step == Inv /\ [ProfileNext]_profileVars => Inv' /\ [Kindly]_profileVars
<1> SUFFICES ASSUME Inv, [ProfileNext]_profileVars
             PROVE  Inv' /\ [Kindly]_profileVars
  OBVIOUS
<1>1. CASE UNCHANGED profileVars
  BY <1>1, Undisturbed DEF profileVars, Inv, Typed
<1>2. ASSUME NEW w \in Writer, OpenFile(w) \/ OpenLocked(w) \/ OpenFails(w) \/ Close(w)
      PROVE  Inv' /\ Kindly
  BY <1>2, OpenFileStep, OpenLockedStep, EndStep
<1>3. ASSUME NEW w \in Writer, NEW e \in Event,
             Record(w, e) \/ RecordRolledBack(w, e) \/ RollbackFails(w, e) \/ CrashInRecord(w, e)
      PROVE  Inv' /\ Kindly
  BY <1>3, RecordStep, RolledBackStep, RollbackFailsStep, WriterCrashStep
<1>4. ASSUME NEW r \in Reader, BeginRead(r) \/ EndRead(r)
      PROVE  Inv' /\ Kindly
  BY <1>4, ReaderStep
<1>5. CASE ProfileNext
  BY <1>2, <1>3, <1>4, <1>5 DEF ProfileNext
<1> QED
  BY <1>1, <1>5

-----------------------------------------------------------------------------
(* Whatever crashed and whatever was rolled back, the profile can be read, *)
(* and an open writer's boundary and its set of known pairs are those of   *)
(* the file (ProfileWriter::open, record).                                 *)
THEOREM ProfileAlwaysSound == ProfileSpec => []ProfileSound
<1>1. Inv /\ [ProfileNext]_profileVars => Inv'
  BY Step
<1> QED
  BY <1>1, InitInv, InvSound, PTL DEF ProfileSpec

(* Nothing recorded is lost, changed or repeated, and no reader that holds *)
(* the shared lock sees the file change.                                   *)
THEOREM LogAlwaysGrows == ProfileSpec => LogGrows
<1>1. Inv /\ [ProfileNext]_profileVars => Inv' /\ [Kindly]_profileVars
  BY Step
<1>2. ProfileSpec => [][Kindly]_profileVars
  BY <1>1, InitInv, PTL DEF ProfileSpec
<1> QED
  BY <1>2, PTL DEF LogGrows, Kindly
=============================================================================
