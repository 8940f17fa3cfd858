----------------------------- MODULE ProfileLog -----------------------------
(***************************************************************************)
(* The runtime profile of a title, ProfileWriter and read_profile of       *)
(* crates/nx86-profile/src/lib.rs: an append-only file of JSON lines that  *)
(* several processes may open, that a crash may leave with a torn last     *)
(* line, and whose failed appends are rolled back.                         *)
(*                                                                         *)
(* A record is three cells: enough of the line to be no JSON yet, the rest *)
(* of the line, and its newline.  An append stops after any of them.  The  *)
(* order of branch observations matters because a branch pair may be in    *)
(* the file only once.                                                     *)
(*                                                                         *)
(* A crash is the death of a process: what it had written stays in the     *)
(* file.  (Nothing here is synced, so a power failure is outside.)         *)
(***************************************************************************)
EXTENDS Integers, Sequences

CONSTANTS
  Branch,        \* branch_target events, as source-target pairs
  Other,         \* every other event
  Newline,
  Writer,        \* processes that open a ProfileWriter
  Reader,        \* processes that call read_profile
  MaxFile,       \* MAX_PROFILE_FILE_BYTES, in cells
  MaxLength      \* bound: cells in the file

Event == Branch \cup Other
Cell == (Event \X {"head", "tail"}) \cup {Newline}
Bytes(e) == << <<e, "head">>, <<e, "tail">>, Newline >>

ASSUME EventAssumption == Branch \cap Other = {} /\ Newline \notin Event \X {"head", "tail"}
ASSUME SizeAssumption == MaxFile \in Nat /\ MaxLength \in Nat

VARIABLES
  file,              \* the cells on disk
  state,             \* each writer: closed, opened (not locked), open
  valid_len,
  branch_targets,
  readers,           \* readers holding the shared lock
  rollback_failed    \* history: an append and its rollback both failed

profileVars == <<file, state, valid_len, branch_targets, readers, rollback_failed>>

-----------------------------------------------------------------------------
(* parse_profile: complete records first, then whatever is left.           *)
Line(cells, k) == SubSeq(cells, 3 * k - 2, 3 * k)
IsRecord(cells, k) == /\ 3 * k <= Len(cells)
                      /\ \E e \in Event : Line(cells, k) = Bytes(e)
GoodLines(cells) ==
    CHOOSE n \in 0..Len(cells) : /\ \A k \in 1..n : IsRecord(cells, k)
                                /\ ~IsRecord(cells, n + 1)
Remainder(cells) == SubSeq(cells, 3 * GoodLines(cells) + 1, Len(cells))

(* A complete record that only misses its newline. *)
Unterminated(cells) ==
    \E e \in Event : Remainder(cells) = << <<e, "head">>, <<e, "tail">> >>

(* A terminated line that is no record is an error; an incomplete last     *)
(* line is not.                                                            *)
Parses(cells) == \A i \in DOMAIN Remainder(cells) : Remainder(cells)[i] # Newline

Records(cells) ==
    [k \in 1..GoodLines(cells) |-> Line(cells, k)[1][1]]
      \o IF Unterminated(cells) THEN <<Remainder(cells)[1][1]>> ELSE <<>>

BranchesIn(cells) ==
    {Records(cells)[i] : i \in DOMAIN Records(cells)} \cap Branch

-----------------------------------------------------------------------------
ProfileInit ==
  /\ file = <<>>
  /\ state = [w \in Writer |-> "closed"]
  /\ valid_len = [w \in Writer |-> 0]
  /\ branch_targets = [w \in Writer |-> {}]
  /\ readers = {}
  /\ rollback_failed = FALSE

(* ProfileWriter::open up to its size check, which precedes the lock.      *)
OpenFile(w) ==
    /\ state[w] = "closed"
    /\ Len(file) <= MaxFile
    /\ state' = [state EXCEPT ![w] = "opened"]
    /\ UNCHANGED <<file, valid_len, branch_targets, readers, rollback_failed>>

(* Mutant: a writer does not mind readers. *)
ExclusiveAmongWriters == \A v \in Writer : state[v] # "open"

(* flock(LOCK_EX | LOCK_NB): nobody else holds the file. *)
LockExclusive == /\ \A v \in Writer : state[v] # "open"
                 /\ readers = {}

(* Mutants: a torn tail is kept, and an added newline is not counted. *)
RepairNothing == file
LengthWithoutNewline(cells) ==
    IF Unterminated(file) THEN Len(file) ELSE Len(cells)

(* The tail repair: the missing newline is added, a torn line is cut.      *)
Repaired ==
    IF Unterminated(file)
      THEN Append(file, Newline)
      ELSE SubSeq(file, 1, Len(file) - Len(Remainder(file)))

RepairedLength(cells) == Len(cells)

(* Mutant: pairs of earlier sessions are not loaded. *)
LoadNothing == {}

LoadedBranches == BranchesIn(file)

(* The rest of open(): the lock is taken before a byte is read, so the     *)
(* repair and the set of known pairs see the same file.                    *)
OpenLocked(w) ==
    /\ state[w] = "opened"
    /\ LockExclusive
    /\ Parses(file)
    /\ file' = Repaired
    /\ valid_len' = [valid_len EXCEPT ![w] = RepairedLength(Repaired)]
    /\ branch_targets' = [branch_targets EXCEPT ![w] = LoadedBranches]
    /\ state' = [state EXCEPT ![w] = "open"]
    /\ UNCHANGED <<readers, rollback_failed>>

Closed(w) == /\ state' = [state EXCEPT ![w] = "closed"]
             /\ valid_len' = [valid_len EXCEPT ![w] = 0]
             /\ branch_targets' = [branch_targets EXCEPT ![w] = {}]

(* open() gives up: the file is locked, malformed, or an I/O call failed.  *)
OpenFails(w) ==
    /\ state[w] = "opened"
    /\ Closed(w)
    /\ UNCHANGED <<file, readers, rollback_failed>>

-----------------------------------------------------------------------------
Duplicate(w, e) == e \in branch_targets[w]

(* record(): a new event is appended whole. *)
Record(w, e) ==
    /\ state[w] = "open"
    /\ ~Duplicate(w, e)
    /\ Len(file) + 3 <= MaxLength
    /\ file' = file \o Bytes(e)
    /\ valid_len' = [valid_len EXCEPT ![w] = @ + 3]
    /\ branch_targets' = [branch_targets EXCEPT ![w] = @ \cup ({e} \cap Branch)]
    /\ UNCHANGED <<state, readers, rollback_failed>>

(* What write_all leaves behind when it fails: any proper prefix.          *)
Torn(e, cells) == \E n \in 0..2 : cells = file \o SubSeq(Bytes(e), 1, n)

(* set_len(length) *)
Resized(cells, length) == SubSeq(cells, 1, length)

(* The append fails and is rolled back to the last complete record.        *)
RecordRolledBack(w, e) ==
    /\ state[w] = "open"
    /\ ~Duplicate(w, e)
    /\ Len(file) + 3 <= MaxLength
    /\ \E n \in 0..2 :
         file' = Resized(file \o SubSeq(Bytes(e), 1, n), valid_len[w])
    /\ UNCHANGED <<state, valid_len, branch_targets, readers, rollback_failed>>

(* The rollback fails too; the writer stays usable.                        *)
RollbackFails(w, e) ==
    /\ state[w] = "open"
    /\ ~Duplicate(w, e)
    /\ Len(file) + 3 <= MaxLength
    /\ Torn(e, file')
    /\ rollback_failed' = TRUE
    /\ UNCHANGED <<state, valid_len, branch_targets, readers>>

(* The process dies while appending, or closes the writer: the kernel      *)
(* releases the lock.                                                      *)
CrashInRecord(w, e) ==
    /\ state[w] = "open"
    /\ ~Duplicate(w, e)
    /\ Len(file) + 3 <= MaxLength
    /\ \E n \in 0..3 : file' = file \o SubSeq(Bytes(e), 1, n)
    /\ Closed(w)
    /\ UNCHANGED <<readers, rollback_failed>>

Close(w) ==
    /\ state[w] = "open"
    /\ Closed(w)
    /\ UNCHANGED <<file, readers, rollback_failed>>

(* read_profile: the shared lock is held while the file is read.  The size *)
(* it checks before locking may be out of date, so it bounds nothing.      *)
BeginRead(r) ==
    /\ r \notin readers
    /\ \A v \in Writer : state[v] # "open"
    /\ readers' = readers \cup {r}
    /\ UNCHANGED <<file, state, valid_len, branch_targets, rollback_failed>>

EndRead(r) ==
    /\ r \in readers
    /\ readers' = readers \ {r}
    /\ UNCHANGED <<file, state, valid_len, branch_targets, rollback_failed>>

ProfileNext ==
    \/ \E w \in Writer : \/ OpenFile(w) \/ OpenLocked(w) \/ OpenFails(w)
                         \/ Close(w)
    \/ \E w \in Writer, e \in Event : \/ Record(w, e) \/ RecordRolledBack(w, e)
                                      \/ RollbackFails(w, e)
                                      \/ CrashInRecord(w, e)
    \/ \E r \in Reader : BeginRead(r) \/ EndRead(r)

ProfileSpec == ProfileInit /\ [][ProfileNext]_profileVars
-----------------------------------------------------------------------------
(* Whatever crashed and whatever was rolled back, every complete line of   *)
(* the file is a record: the profile can always be read again.  Only a     *)
(* failed rollback, reported as such, may end that.                        *)
ProfileReadable == rollback_failed \/ Parses(file)

\* Recorded events are only added, one at a time, and never a branch pair that
\* is there already.
OneMore ==
    \/ Records(file') = Records(file)
    \/ \E e \in Event :
          /\ Records(file') = Append(Records(file), e)
          /\ e \in Branch => e \notin BranchesIn(file)
(* What readers get only ever grows: across reopening, repair, rollback    *)
(* and the death of a writer, nothing recorded is lost or repeated; and    *)
(* the file does not change under a reader that holds the shared lock      *)
(* (open_writer, record, read_profile).                                    *)
LogGrows ==
    [][ /\ rollback_failed' \/ OneMore
        /\ readers \cap readers' # {} => file' = file ]_profileVars

\* Between two calls, an open writer's boundary is the end of the file, the
\* end of a complete record, and it knows every branch pair on disk.
WriterKnowsFile ==
    \A w \in Writer : state[w] = "open" /\ ~rollback_failed =>
        /\ valid_len[w] = Len(file)
        /\ Remainder(file) = <<>>
        /\ branch_targets[w] = BranchesIn(file)
(* The profile stays readable, after any crash, and no open writer is      *)
(* mistaken about it (open_writer, record).                                *)
ProfileSound == ProfileReadable /\ WriterKnowsFile
=============================================================================
