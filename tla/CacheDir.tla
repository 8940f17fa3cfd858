------------------------------ MODULE CacheDir ------------------------------
(***************************************************************************)
(* One directory of cached objects (nx86-cache/src/lib.rs), shared by      *)
(* processes without any lock.  A call is the sequence of file operations  *)
(* the code makes: between two of them another process may act, or the     *)
(* caller may die.  The shader cache (nx86-shader/src/cache.rs) repeats    *)
(* the protocol; what it does differently is in StageKnown.                *)
(*                                                                         *)
(* A file is [key, body, state], where key is the one in its header and    *)
(* state says how it reads: "whole"; "cut" with an intact header; "junk"   *)
(* without one; "old" of another format version; "stage", whole but with a *)
(* stage code nobody knows.                                                *)
(***************************************************************************)
EXTENDS Naturals, FiniteSets, Sequences

CONSTANTS Key, Body, Process,
          MaxDamage  \* how often something else may spoil the directory

VARIABLES files,     \* [Key -> Absent, Folder or a file]: by file name
          call,      \* [Process -> the call it is in, or was in last]
          inserted,  \* history: the <<key, body>> ever renamed into place
          lost,      \* history: keys removed or spoiled since their last insert
          damage     \* how often something else has spoiled the directory
dirVars == <<files, call, inserted, lost, damage>>

Absent == [state |-> "absent"]
Folder == [state |-> "folder"]
File(k, b, s) == [key |-> k, body |-> b, state |-> s]
IsFile(f) == f.state \notin {"absent", "folder"}
Spoiled == {"cut", "junk", "old", "stage"}

Idle == [op |-> "none", at |-> "done", key |-> "none", body |-> "none", todo |-> {}, found |-> {}, result |-> "none"]

DirInit ==
    /\ files = [k \in Key |-> Absent]
    /\ call = [p \in Process |-> Idle]
    /\ inserted = {} /\ lost = {} /\ damage = 0

-----------------------------------------------------------------------------
(* What a reader makes of a file.                                          *)

\* read_header: the magic and a whole header, nothing else.
HasHeader(f) == IsFile(f) /\ f.state # "junk"
\* Mutant: the content hash is not compared.
HeaderOnly(f) == HasHeader(f) /\ f.state # "old"
\* from_bytes: magic, version, exact length, content hash, stage.
FromBytes(f) == IsFile(f) /\ f.state = "whole"
\* ShaderStage::from_code, which scan asks and shallow_check does not.
StageKnown(f) == f.state # "stage"

-----------------------------------------------------------------------------
(* The steps of a call.                                                    *)

Ready(p) == call[p].at = "done"
Call(p, op, k, b) == call' = [call EXCEPT ![p] = [Idle EXCEPT !.op = op, !.at = "start", !.key = k, !.body = b]]
At(p, ops, at) == call[p].op \in ops /\ call[p].at = at
Goto(p, at) == call' = [call EXCEPT ![p].at = at]
Return(p, result) == call' = [call EXCEPT ![p].at = "done", ![p].result = result]
Put(k, f) == files' = [files EXCEPT ![k] = f]

\* write_atomic, first half: the temporary file is created, filled and
\* synced, or the disk refuses.  Nothing ever looks at a temporary file.
WriteTemporary(p) ==
    /\ At(p, {"insert"}, "start")
    /\ Goto(p, "rename") \/ Return(p, "error")
    /\ UNCHANGED <<files, inserted, lost, damage>>

\* Mutant: the object is written in place, and the process may die half-way.
ReplaceInPlace(p) ==
    LET k == call[p].key
    IN  /\ \/ Put(k, File(k, call[p].body, "whole")) /\ Goto(p, "size")
           \/ Put(k, File(k, call[p].body, "cut")) /\ UNCHANGED call
        /\ inserted' = inserted \cup {<<k, call[p].body>>}
        /\ lost' = lost \ {k}
Replace(p) ==
    LET k == call[p].key
    IN  /\ Put(k, File(k, call[p].body, "whole"))
        /\ inserted' = inserted \cup {<<k, call[p].body>>}
        /\ lost' = lost \ {k}
        /\ Goto(p, "size")

\* write_atomic, second half: rename(2) replaces a file or a link at once, and
\* fails over a directory.
Rename(p) ==
    /\ At(p, {"insert"}, "rename")
    /\ UNCHANGED damage
    /\ \/ files[call[p].key] # Folder /\ Replace(p)
       \/ files[call[p].key] = Folder /\ Return(p, "error") /\ UNCHANGED <<files, inserted, lost>>

\* insert asks for the size of what it wrote: an error when another process
\* has removed it in between.
Size(p) ==
    /\ At(p, {"insert"}, "size")
    /\ Return(p, IF files[call[p].key] = Absent THEN "error" ELSE "ok")
    /\ UNCHANGED <<files, inserted, lost, damage>>

\* shallow_check, full_check and load: symlink_metadata first ...
Probe(p) ==
    /\ At(p, {"shallow", "full", "load"}, "start")
    /\ LET f == files[call[p].key]
           load == call[p].op = "load"
       IN  CASE f = Absent -> Return(p, IF load THEN "error" ELSE "missing")
             [] f = Folder -> Return(p, IF load THEN "error" ELSE "invalid")
             [] OTHER -> Goto(p, "read")
    /\ UNCHANGED <<files, inserted, lost, damage>>

Valid(op, f, k) ==
    /\ IsFile(f) /\ f.key = k
    /\ IF op = "shallow" THEN HasHeader(f) /\ f.state # "old" ELSE FromBytes(f)

\* ... then the file, which may have changed: a header that is gone is invalid
\* to shallow_check, a file that is gone is missing to full_check.
Read(p) ==
    /\ At(p, {"shallow", "full", "load"}, "read")
    /\ LET f == files[call[p].key]
           op == call[p].op
       IN  CASE f = Folder -> Return(p, "error")
             [] Valid(op, f, call[p].key) ->
                    call' = [call EXCEPT ![p].at = "done", ![p].result = "ok", ![p].found = {f}]
             [] f = Absent /\ op = "full" -> Return(p, "missing")
             [] OTHER -> Return(p, IF op = "load" THEN "error" ELSE "invalid")
    /\ UNCHANGED <<files, inserted, lost, damage>>

RemoveFile(p) ==
    /\ At(p, {"remove"}, "start")
    /\ LET k == call[p].key
       IN  IF IsFile(files[k])
           THEN Put(k, Absent) /\ lost' = lost \cup {k} /\ Return(p, "ok")
           ELSE UNCHANGED <<files, lost>> /\ Return(p, IF files[k] = Folder THEN "error" ELSE "missing")
    /\ UNCHANGED <<inserted, damage>>

\* clear and scan list the directory once; folders are passed over.
List(p) ==
    /\ At(p, {"clear", "scan"}, "start")
    /\ call' = [call EXCEPT ![p].at = "each", ![p].todo = {k \in Key : IsFile(files[k])}]
    /\ UNCHANGED <<files, inserted, lost, damage>>

\* clear removes by name, whatever the file has become; one that is gone is
\* passed over, a folder in its place ends the call.
ClearOne(p) ==
    /\ At(p, {"clear"}, "each")
    /\ \E k \in call[p].todo :
          /\ IF files[k] = Folder THEN Return(p, "error") ELSE call' = [call EXCEPT ![p].todo = @ \ {k}]
          /\ IF IsFile(files[k]) THEN Put(k, Absent) /\ lost' = lost \cup {k} ELSE UNCHANGED <<files, lost>>
    /\ UNCHANGED <<inserted, damage>>

\* scan: the header of one file ...
ScanHeader(p) ==
    /\ At(p, {"scan"}, "each")
    /\ \E k \in call[p].todo :
          LET f == files[k]
              rest == [call[p] EXCEPT !.todo = @ \ {k}]
          IN  IF f = Folder THEN Return(p, "error")
              ELSE call' = [call EXCEPT ![p] =
                        IF HasHeader(f) /\ f.key = k /\ StageKnown(f)
                        THEN [rest EXCEPT !.at = "measure", !.key = k] ELSE rest]
    /\ UNCHANGED <<files, inserted, lost, damage>>

\* ... and its size: a file removed in between fails the whole scan.
ScanSize(p) ==
    /\ At(p, {"scan"}, "measure")
    /\ IF files[call[p].key] = Absent THEN Return(p, "error")
       ELSE call' = [call EXCEPT ![p].at = "each", ![p].found = @ \cup {call[p].key}]
    /\ UNCHANGED <<files, inserted, lost, damage>>

EndOfList(p) ==
    /\ At(p, {"clear", "scan"}, "each") /\ call[p].todo = {}
    /\ Return(p, "ok")
    /\ UNCHANGED <<files, inserted, lost, damage>>

CallStep(p) ==
    \/ WriteTemporary(p) \/ Rename(p) \/ Size(p)
    \/ Probe(p) \/ Read(p) \/ RemoveFile(p)
    \/ List(p) \/ ClearOne(p) \/ ScanHeader(p) \/ ScanSize(p) \/ EndOfList(p)

-----------------------------------------------------------------------------
(* What happens to the directory from outside.                             *)

\* A file is damaged, comes from another version, is copied over another, or
\* is replaced by a folder.
Damage(k) ==
    /\ damage < MaxDamage /\ damage' = damage + 1
    /\ \/ \E s \in Spoiled : IsFile(files[k]) /\ Put(k, [files[k] EXCEPT !.state = s])
       \/ \E j \in Key \ {k} : IsFile(files[j]) /\ Put(k, files[j])
       \/ Put(k, Folder)
    /\ lost' = lost \cup {k}
    /\ UNCHANGED <<call, inserted>>

\* The process dies in the middle of a call.
Die(p) == call' = [call EXCEPT ![p] = Idle] /\ UNCHANGED <<files, inserted, lost, damage>>

-----------------------------------------------------------------------------
Files == [key : Key, body : Body, state : {"whole"} \cup Spoiled]
Ops == {"none", "insert", "shallow", "full", "load", "remove", "clear", "scan"}
Keyed == {"insert", "shallow", "full", "load", "remove"}
CallRecords == [op : Ops, at : {"start", "rename", "size", "read", "each", "measure", "done"},
                key : Key \cup {"none"}, body : Body \cup {"none"}, todo : SUBSET Key,
                found : SUBSET (Key \cup Files), result : {"none", "ok", "error", "missing", "invalid"}]
DirTypeOK ==
    /\ files \in [Key -> {Absent, Folder} \cup Files]
    /\ call \in [Process -> CallRecords]
    /\ inserted \subseteq Key \X Body /\ lost \subseteq Key /\ damage \in Nat

\* What load or full_check accepts for a key is an object that insert once
\* put under that key, whatever happened to the files (from_bytes, load).
ServesOnlyInserted ==
    \A p \in Process :
        At(p, {"load", "full"}, "done") /\ call[p].result = "ok" =>
            \E e \in inserted : e[1] = call[p].key /\ call[p].found = {File(e[1], e[2], "whole")}

\* An object that nobody removed and nothing spoiled is there, whole: an
\* insert that fails or dies takes nothing away (write_atomic).
OnlyRemovalLoses ==
    \A e \in inserted : e[1] \in lost \/ (FromBytes(files[e[1]]) /\ files[e[1]].key = e[1])
=============================================================================
