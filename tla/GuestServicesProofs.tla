---- MODULE GuestServicesProofs ----
(* Theorems about the guest's services.  The four parts run side by side    *)
(* and share no variable but the boundary of GuestServices, so each has an  *)
(* inductive invariant of its own: SchedInv ties every thread's counters to *)
(* what happened to it, AudioInv ties the queue to all it accepted and      *)
(* played, IpcInv ties the reply to the words that were sent, ImportInv     *)
(* ties the pages to the ranges of the file that map_into is through with.  *)
EXTENDS GuestServices, FiniteSetTheorems, SequenceTheorems, WellFoundedInduction, TLAPS

-----------------------------------------------------------------------------
(* The thread scheduler.                                                   *)

\* What happens to a thread, the log's entries, and the threads.
EventKinds == {"spawned", "dispatch", "yield", "halt", "crash"}
Recorded == [id : Nat, pc : Nat, kind : EventKinds]
LogEntry == [sequence : Nat, id : Nat, pc : Nat, kind : EventKinds]
Log == [cap : Nat, events : Seq(LogEntry), sequence : Nat, dropped : Nat]
ThreadState == [pc : Nat, status : {"runnable", "running", "halted", "crashed"}, ticks : Nat, remaining : Nat]
Given == [pc : Nat, work : Nat]
ProgramState == [threads : Seq(Given), quantum : Nat]

\* The log against all that happened: its newest part, with nothing missing.
LogSound(log, happened) ==
    /\ log \in Log
    /\ Len(log.events) <= log.cap /\ log.sequence = Len(happened)
    /\ log.dropped + Len(log.events) = Len(happened)
    /\ log.dropped > 0 => Len(log.events) = log.cap
    /\ \A i \in 1 .. Len(log.events) : log.events[i] = Event(log.dropped + i - 1, happened[log.dropped + i])

\* ReplayLog::push: the log of what happened and one event more is again its
\* newest part, whether or not the oldest entry had to go.
LEMMA LogGrows ==
    ASSUME NEW log, NEW happened \in Seq(Recorded), NEW e \in Recorded, LogSound(log, happened),
           NEW after, after = Logged(log, Event(log.sequence, e))
    PROVE  LogSound(after, Append(happened, e)) /\ after.cap = log.cap
<1> DEFINE n == Len(happened)
           l == Len(log.events)
           d == log.dropped
           all == Append(happened, e)
           x == Event(log.sequence, e)
           kept == IF log.cap = 0 THEN <<>> ELSE Append(IF l = log.cap THEN Tail(log.events) ELSE log.events, x)
           more == IF l = log.cap THEN d + 1 ELSE d
<1>1. /\ log \in Log /\ log.cap \in Nat /\ log.events \in Seq(LogEntry) /\ d \in Nat /\ l \in Nat /\ n \in Nat
      /\ l <= log.cap /\ log.sequence = n /\ d + l = n /\ (d > 0 => l = log.cap)
      /\ \A i \in 1 .. l : log.events[i] = Event(d + i - 1, happened[d + i])
  BY DEF LogSound, Log
<1>2. all \in Seq(Recorded) /\ Len(all) = n + 1 /\ all[n + 1] = e /\ \A i \in 1 .. n : all[i] = happened[i]
  BY AppendProperties
<1>3. x \in LogEntry /\ x = Event(n, e)
  BY <1>1 DEF Event, LogEntry, Recorded
<1>4. after = [log EXCEPT !.events = kept, !.sequence = n + 1, !.dropped = more]
  BY <1>1 DEF Logged
<1> HIDE DEF n, l, d, all, x
<1>5. /\ kept \in Seq(LogEntry) /\ Len(kept) <= log.cap /\ more \in Nat /\ more + Len(kept) = n + 1
      /\ more > 0 => Len(kept) = log.cap
      /\ \A i \in 1 .. Len(kept) : kept[i] = Event(more + i - 1, all[more + i])
  <2>1. CASE log.cap = 0
    <3>1. kept = <<>> /\ l = 0 /\ more = d + 1 /\ Len(kept) = 0
      BY <1>1, <2>1
    <3>2. kept \in Seq(LogEntry) /\ 1 .. Len(kept) = {}
      BY <3>1
    <3> HIDE DEF kept, more
    <3> QED
      BY <1>1, <2>1, <3>1, <3>2
  <2>2. CASE log.cap # 0 /\ l = log.cap
    <3> DEFINE rest == Tail(log.events)
    <3>1. rest \in Seq(LogEntry) /\ Len(rest) = l - 1 /\ \A i \in 1 .. l - 1 : rest[i] = log.events[i + 1]
      BY <1>1, <2>2 DEF l
    <3>2. kept = Append(rest, x) /\ more = d + 1
      BY <2>2
    <3> HIDE DEF rest
    <3>3. kept \in Seq(LogEntry) /\ Len(kept) = l /\ kept[l] = x /\ \A i \in 1 .. l - 1 : kept[i] = rest[i]
      <4>1. Append(rest, x) \in Seq(LogEntry) /\ Len(Append(rest, x)) = (l - 1) + 1 /\ Append(rest, x)[(l - 1) + 1] = x
            /\ \A i \in 1 .. l - 1 : Append(rest, x)[i] = rest[i]
        BY <1>3, <3>1, AppendProperties
      <4>2. (l - 1) + 1 = l
        BY <1>1
      <4> QED
        BY <3>2, <4>1, <4>2
    <3> HIDE DEF kept, more
    <3>4. ASSUME NEW i \in 1 .. l PROVE kept[i] = Event(more + i - 1, all[more + i])
      <4>1. CASE i = l
        <5>1. more + i = n + 1 /\ more + i - 1 = n
          BY <1>1, <3>2, <4>1
        <5> QED
          BY <1>2, <1>3, <3>3, <4>1, <5>1
      <4>2. CASE i # l
        <5>1. i \in 1 .. l - 1 /\ i + 1 \in 1 .. l /\ d + (i + 1) = more + i /\ d + (i + 1) - 1 = more + i - 1 /\ more + i \in 1 .. n
          BY <1>1, <3>2, <4>2
        <5>2. kept[i] = log.events[i + 1] /\ log.events[i + 1] = Event(d + (i + 1) - 1, happened[d + (i + 1)])
          BY <1>1, <3>1, <3>3, <5>1
        <5>3. all[more + i] = happened[more + i]
          BY <1>2, <5>1
        <5> QED
          BY <5>1, <5>2, <5>3
      <4> QED
        BY <4>1, <4>2
    <3>5. more \in Nat /\ more + l = n + 1 /\ l <= log.cap
      BY <1>1, <3>2
    <3> QED
      BY <2>2, <3>3, <3>4, <3>5
  <2>3. CASE log.cap # 0 /\ l # log.cap
    <3>1. kept = Append(log.events, x) /\ more = d /\ d = 0 /\ l = n
      BY <1>1, <2>3
    <3> HIDE DEF kept, more
    <3>2. kept \in Seq(LogEntry) /\ Len(kept) = l + 1 /\ kept[l + 1] = x /\ \A i \in 1 .. l : kept[i] = log.events[i]
      BY <1>1, <1>3, <3>1, AppendProperties DEF l
    <3>3. ASSUME NEW i \in 1 .. l + 1 PROVE kept[i] = Event(more + i - 1, all[more + i])
      <4>1. CASE i = l + 1
        <5>1. more + i = n + 1 /\ more + i - 1 = n
          BY <1>1, <3>1, <4>1
        <5> QED
          BY <1>2, <1>3, <3>2, <4>1, <5>1
      <4>2. CASE i # l + 1
        <5>1. i \in 1 .. l /\ d + i = more + i /\ more + i \in 1 .. n
          BY <1>1, <3>1, <4>2
        <5> QED
          BY <1>1, <1>2, <3>1, <3>2, <5>1
      <4> QED
        BY <4>1, <4>2
    <3>4. more \in Nat /\ more + (l + 1) = n + 1 /\ l + 1 <= log.cap /\ ~(more > 0)
      BY <1>1, <2>3, <3>1
    <3> QED
      BY <3>2, <3>3, <3>4
  <2> QED
    BY <2>1, <2>2, <2>3
<1> HIDE DEF kept, more
<1>6. after \in Log /\ after.cap = log.cap /\ after.events = kept /\ after.sequence = n + 1 /\ after.dropped = more
  <2>1. log \in Log /\ n + 1 \in Nat /\ more \in Nat /\ kept \in Seq(LogEntry)
    BY <1>1, <1>5
  <2> QED
    BY ONLY <2>1, <1>4 DEF Log
<1> QED
  BY <1>2, <1>5, <1>6 DEF LogSound, all

\* Where the events of a kind are, and how many they are.
Positions(happened, es) == {k \in DOMAIN happened : happened[k] \in es}
LEMMA PositionsGrow ==
    ASSUME NEW happened \in Seq(Recorded), NEW e \in Recorded, NEW es
    PROVE  /\ Positions(Append(happened, e), es) =
                  Positions(happened, es) \cup (IF e \in es THEN {Len(happened) + 1} ELSE {})
           /\ IsFiniteSet(Positions(happened, es)) /\ Cardinality(Positions(happened, es)) \in Nat
           /\ Cardinality(Positions(Append(happened, e), es)) =
                  Cardinality(Positions(happened, es)) + (IF e \in es THEN 1 ELSE 0)
<1> DEFINE n == Len(happened)
           all == Append(happened, e)
           P == Positions(happened, es)
<1>1. /\ n \in Nat /\ DOMAIN happened = 1 .. n /\ DOMAIN all = 1 .. n + 1
      /\ all[n + 1] = e /\ \A i \in 1 .. n : all[i] = happened[i]
  BY AppendProperties, LenProperties
<1> HIDE DEF n, all
<1>2. P \subseteq 1 .. n
  BY <1>1 DEF Positions
<1>3. Positions(all, es) = P \cup (IF e \in es THEN {n + 1} ELSE {})
  BY <1>1 DEF Positions
<1> HIDE DEF P
<1>4. IsFiniteSet(P) /\ Cardinality(P) \in Nat /\ n + 1 \notin P
  <2>1. IsFiniteSet(1 .. n)
    BY <1>1, FS_Interval
  <2>2. n + 1 \notin P
    BY <1>1, <1>2
  <2>3. IsFiniteSet(P)
    BY <1>2, <2>1, FS_Subset
  <2> QED
    BY <2>2, <2>3, FS_CardinalityType
<1>5. Cardinality(Positions(all, es)) = Cardinality(P) + (IF e \in es THEN 1 ELSE 0)
  <2>1. CASE e \in es
    BY <1>3, <1>4, <2>1, FS_AddElement
  <2>2. CASE e \notin es
    BY <1>3, <1>4, <2>2
  <2> QED
    BY <2>1, <2>2
<1> QED
  BY <1>3, <1>4, <1>5 DEF n, all, P

\* A thread against what its program says and what happened to it.
Mine(i) == {e \in Recorded : e.id = i}
Dispatches(i) == {e \in Recorded : e.id = i /\ e.kind = "dispatch"}
AllDispatches == {e \in Recorded : e.kind = "dispatch"}
Crashes(i) == {e \in Recorded : e.id = i /\ e.kind = "crash"}
ThreadSound(t, given, happened, i) ==
    /\ t.ticks + t.remaining = given.work /\ t.pc = given.pc + t.ticks
    /\ t.status = "halted" => t.remaining = 0
    /\ Cardinality(Positions(happened, Dispatches(i))) = t.ticks
    /\ t.status = "crashed" <=> Positions(happened, Crashes(i)) # {}
    /\ \E k \in Positions(happened, Mine(i)) :
           /\ \A l \in Positions(happened, Mine(i)) : l <= k
           /\ happened[k].pc = t.pc - (IF t.status = "running" THEN 1 ELSE 0)

\* The invariant.  SchedTyped: the types.
Active == mode \in {"spawning", "running"}
SchedTyped ==
    /\ threads \in Seq(ThreadState) /\ program \in ProgramState /\ turn \in [index : Nat, left : Nat]
    /\ mode \in {"idle", "spawning", "running", "done", "refused"} /\ count \in Nat /\ history \in Seq(Recorded)
\* ThreadsSound: the log and every thread agree with what happened.
ThreadsSound ==
    /\ LogSound(replay, history)
    /\ Len(threads) <= Len(program.threads) /\ (mode # "spawning" => Len(threads) = Len(program.threads))
    /\ \A i \in 1 .. Len(threads) : ThreadSound(threads[i], program.threads[i], history, i)
    /\ \A k \in DOMAIN history : history[k].id \in 1 .. Len(threads)
    /\ count = Cardinality(Positions(history, AllDispatches))

\* The rounds: after some ticks for everybody, threads before the one whose
\* turn it is are a quantum on, and it is as far as its quantum is used.
Due(base, now, quantum, i) ==
    IF i < now.index THEN base + quantum ELSE IF i = now.index THEN base + (quantum - now.left) ELSE base
OnTrack(ts, base, now, quantum) ==
    \A i \in 1 .. Len(ts) : /\ ts[i].ticks <= Due(base, now, quantum, i)
                            /\ ts[i].remaining > 0 => ts[i].ticks = Due(base, now, quantum, i)
\* RoundSound: while threads run, the rounds are kept; afterwards all work is done.
RoundSound ==
    /\ mode = "spawning" => /\ Len(threads) < Len(program.threads) /\ turn = [index |-> 1, left |-> program.quantum]
                            /\ \A i \in 1 .. Len(threads) : threads[i].ticks = 0
    /\ Active => /\ turn.index \in 1 .. Len(program.threads) /\ turn.left \in 0 .. program.quantum /\ program.quantum > 0
                 /\ \A i \in 1 .. Len(threads) : threads[i].status # "crashed"
                 /\ \E base \in Nat : OnTrack(threads, base, turn, program.quantum)
    /\ ~Active => \A i \in 1 .. Len(threads) : threads[i].remaining = 0
SchedInv == SchedTyped /\ ThreadsSound /\ RoundSound

\* What happens to one thread leaves the others as they are.
LEMMA OtherThread ==
    ASSUME NEW happened \in Seq(Recorded), NEW e \in Recorded, NEW t, NEW given, NEW i, e.id # i,
           ThreadSound(t, given, happened, i)
    PROVE  ThreadSound(t, given, Append(happened, e), i)
<1> DEFINE all == Append(happened, e)
<1>1. e \notin Dispatches(i) /\ e \notin Crashes(i) /\ e \notin Mine(i)
  BY DEF Dispatches, Crashes, Mine
<1>2. /\ Positions(all, Dispatches(i)) = Positions(happened, Dispatches(i))
      /\ Positions(all, Crashes(i)) = Positions(happened, Crashes(i))
      /\ Positions(all, Mine(i)) = Positions(happened, Mine(i))
  <2>1. ASSUME NEW es, e \notin es PROVE Positions(all, es) = Positions(happened, es)
    <3>1. Positions(all, es) = Positions(happened, es) \cup (IF e \in es THEN {Len(happened) + 1} ELSE {})
      BY PositionsGrow
    <3> HIDE DEF all
    <3> QED
      BY <2>1, <3>1
  <2> HIDE DEF all
  <2> QED
    BY <1>1, <2>1
<1>3. \A k \in Positions(happened, Mine(i)) : all[k] = happened[k]
  BY AppendProperties, LenProperties DEF Positions
<1> HIDE DEF all
<1>4. ThreadSound(t, given, all, i)
  BY <1>2, <1>3 DEF ThreadSound
<1> QED
  BY <1>4 DEF all

\* A dispatch is a unit of work done and an instruction on, the rest neither.
Done(e) == IF e.kind = "dispatch" THEN 1 ELSE 0
LEMMA ThisThread ==
    ASSUME NEW happened \in Seq(Recorded), NEW t \in ThreadState, NEW u \in ThreadState, NEW given \in Given,
           NEW i \in Nat, NEW e \in Recorded, e.id = i, e.pc = t.pc, ThreadSound(t, given, happened, i), t.status # "crashed",
           u.ticks = t.ticks + Done(e), u.remaining = t.remaining - Done(e), u.pc = t.pc + Done(e),
           u.status = "halted" => u.remaining = 0,
           u.status = "running" <=> e.kind = "dispatch",
           u.status = "crashed" <=> e.kind = "crash"
    PROVE  ThreadSound(u, given, Append(happened, e), i)
<1> DEFINE all == Append(happened, e)
           n == Len(happened)
<1>1. /\ n \in Nat /\ DOMAIN happened = 1 .. n /\ DOMAIN all = 1 .. n + 1 /\ all[n + 1] = e
  BY AppendProperties, LenProperties
<1>2. e \in Mine(i) /\ (e \in Dispatches(i) <=> e.kind = "dispatch") /\ (e \in Crashes(i) <=> e.kind = "crash")
  BY DEF Dispatches, Crashes, Mine
<1>3. u.ticks + u.remaining = given.work /\ u.pc = given.pc + u.ticks
  <2> DEFINE d == Done(e)
  <2>1. d \in Nat
    BY DEF Done
  <2>2. t.ticks \in Nat /\ t.remaining \in Nat /\ given.work \in Nat /\ given.pc \in Nat
    BY DEF ThreadState, Given
  <2>3. t.ticks + t.remaining = given.work /\ t.pc = given.pc + t.ticks
    BY DEF ThreadSound
  <2>4. u.ticks = t.ticks + d /\ u.remaining = t.remaining - d /\ u.pc = t.pc + d
    OBVIOUS
  <2> HIDE DEF d
  <2> QED
    BY ONLY <2>1, <2>2, <2>3, <2>4
<1>4. Cardinality(Positions(all, Dispatches(i))) = u.ticks
  <2>1. Cardinality(Positions(all, Dispatches(i))) = Cardinality(Positions(happened, Dispatches(i))) + Done(e)
    BY <1>2, PositionsGrow DEF Done
  <2> QED
    BY <2>1 DEF ThreadSound
<1>5. u.status = "crashed" <=> Positions(all, Crashes(i)) # {}
  <2>1. Positions(all, Crashes(i)) = Positions(happened, Crashes(i)) \cup (IF e.kind = "crash" THEN {n + 1} ELSE {})
    BY <1>2, PositionsGrow
  <2>2. Positions(happened, Crashes(i)) = {}
    BY DEF ThreadSound
  <2> QED
    BY <2>1, <2>2
<1>6. n + 1 \in Positions(all, Mine(i)) /\ \A l \in Positions(all, Mine(i)) : l <= n + 1
  BY <1>1, <1>2 DEF Positions
<1>7. all[n + 1].pc = u.pc - (IF u.status = "running" THEN 1 ELSE 0)
  BY <1>1 DEF Done, ThreadState, Recorded
<1> HIDE DEF all, n
<1>8. ThreadSound(u, given, all, i)
  BY <1>3, <1>4, <1>5, <1>6, <1>7 DEF ThreadSound
<1> QED
  BY <1>8 DEF all

\* A thread is spawned with its event the only one of its own.
LEMMA NewThread ==
    ASSUME NEW happened \in Seq(Recorded), NEW given \in Given, NEW i \in Nat, NEW e \in Recorded,
           e.id = i, e.pc = given.pc, e.kind = "spawned", \A k \in DOMAIN happened : happened[k].id # i
    PROVE  ThreadSound(Thread(given.pc, given.work), given, Append(happened, e), i)
<1> DEFINE all == Append(happened, e)
           n == Len(happened)
           t == Thread(given.pc, given.work)
<1>1. /\ n \in Nat /\ DOMAIN happened = 1 .. n /\ DOMAIN all = 1 .. n + 1 /\ all[n + 1] = e
      /\ \A k \in 1 .. n : all[k] = happened[k]
  BY AppendProperties, LenProperties
<1>2. t.pc = given.pc /\ t.status = "runnable" /\ t.ticks = 0 /\ t.remaining = given.work
  BY DEF Thread
<1> HIDE DEF all, n, t
<1>3. Positions(all, Dispatches(i)) = {} /\ Positions(all, Crashes(i)) = {}
  BY <1>1 DEF Positions, Dispatches, Crashes
<1>4. n + 1 \in Positions(all, Mine(i)) /\ \A l \in Positions(all, Mine(i)) : l <= n + 1
  BY <1>1 DEF Positions, Mine
<1>5. Cardinality(Positions(all, Dispatches(i))) = 0
  BY <1>3, FS_EmptySet
<1>6. ThreadSound(t, given, all, i)
  BY <1>1, <1>2, <1>3, <1>4, <1>5 DEF ThreadSound, Given
<1> QED
  BY <1>6 DEF all, t

\* An event of thread i, which goes from t to u.
LEMMA EventStep ==
    ASSUME SchedTyped, ThreadsSound, mode # "spawning", mode' = mode, program' = program,
           NEW i \in 1 .. Len(threads), NEW kind \in EventKinds, Record(i, threads[i].pc, kind),
           NEW u \in ThreadState, threads' = [threads EXCEPT ![i] = u], threads[i].status # "crashed",
           NEW done, done = IF kind = "dispatch" THEN 1 ELSE 0,
           u.ticks = threads[i].ticks + done, u.remaining = threads[i].remaining - done, u.pc = threads[i].pc + done,
           u.status = "halted" => u.remaining = 0,
           u.status = "running" <=> kind = "dispatch",
           u.status = "crashed" <=> kind = "crash",
           count' = count + done
    PROVE  /\ threads' \in Seq(ThreadState) /\ Len(threads') = Len(threads) /\ history' \in Seq(Recorded) /\ count' \in Nat
           /\ ThreadsSound'
<1> DEFINE e == [id |-> i, pc |-> threads[i].pc, kind |-> kind]
<1>0. /\ threads \in Seq(ThreadState) /\ history \in Seq(Recorded) /\ program \in ProgramState /\ count \in Nat
      /\ LogSound(replay, history) /\ Len(threads) = Len(program.threads) /\ Len(threads) \in Nat /\ DOMAIN threads = 1 .. Len(threads)
      /\ threads[i] \in ThreadState
  BY LenProperties DEF SchedTyped, ThreadsSound
<1>1. replay' = Logged(replay, Event(replay.sequence, e)) /\ history' = Append(history, e)
  BY DEF Record
<1>2. e \in Recorded /\ e.id = i /\ e.pc = threads[i].pc /\ e.kind = kind
  BY <1>0 DEF Recorded, ThreadState
<1> HIDE DEF e
<1>3. /\ threads' \in Seq(ThreadState) /\ Len(threads') = Len(threads) /\ threads'[i] = u
      /\ \A j \in 1 .. Len(threads) : j # i => threads'[j] = threads[j]
  BY <1>0
<1>4. history' \in Seq(Recorded) /\ count' \in Nat /\ done \in {0, 1} /\ Done(e) = done
  BY <1>0, <1>1, <1>2 DEF Done
<1>5. LogSound(replay', history')
  BY <1>0, <1>1, <1>2, LogGrows
<1>6. ASSUME NEW j \in 1 .. Len(threads)
      PROVE  ThreadSound(threads'[j], program.threads[j], history', j)
  <2>0. ThreadSound(threads[j], program.threads[j], history, j) /\ program.threads[j] \in Given
    <3>1. j \in 1 .. Len(program.threads) /\ program.threads \in Seq(Given)
      BY <1>0 DEF ProgramState
    <3>2. ThreadSound(threads[j], program.threads[j], history, j)
      BY DEF ThreadsSound
    <3> QED
      BY <3>1, <3>2
  <2>1. CASE j = i
    BY <1>0, <1>1, <1>2, <1>3, <1>4, <2>0, <2>1, ThisThread
  <2>2. CASE j # i
    BY <1>0, <1>1, <1>2, <1>3, <2>0, <2>2, OtherThread
  <2> QED
    BY <2>1, <2>2
<1>7. \A k \in DOMAIN history' : history'[k].id \in 1 .. Len(threads)
  <2>1. DOMAIN history' = 1 .. Len(history) + 1 /\ DOMAIN history = 1 .. Len(history) /\ Len(history) \in Nat
        /\ history'[Len(history) + 1] = e /\ \A k \in 1 .. Len(history) : history'[k] = history[k]
    BY <1>0, <1>1, <1>2, AppendProperties, LenProperties
  <2>2. \A k \in DOMAIN history : history[k].id \in 1 .. Len(threads)
    BY DEF ThreadsSound
  <2> QED
    BY <1>2, <2>1, <2>2
<1>8. count' = Cardinality(Positions(history', AllDispatches))
  <2>1. e \in AllDispatches <=> kind = "dispatch"
    BY <1>2 DEF AllDispatches
  <2>2. Cardinality(Positions(history', AllDispatches)) = Cardinality(Positions(history, AllDispatches)) + done
    BY <1>0, <1>1, <1>2, <2>1, PositionsGrow
  <2> QED
    BY <2>2 DEF ThreadsSound
<1>9. ThreadsSound'
  BY <1>0, <1>3, <1>5, <1>6, <1>7, <1>8 DEF ThreadsSound
<1> QED
  BY <1>3, <1>4, <1>9

\* What the proofs of the steps take from the invariant.
LEMMA SchedFacts ==
    ASSUME SchedInv
    PROVE  /\ threads \in Seq(ThreadState) /\ program \in ProgramState /\ turn \in [index : Nat, left : Nat] /\ count \in Nat
           /\ history \in Seq(Recorded) /\ mode \in {"idle", "spawning", "running", "done", "refused"}
           /\ SchedTyped /\ ThreadsSound /\ RoundSound /\ Len(threads) \in Nat /\ DOMAIN threads = 1 .. Len(threads)
           /\ Len(program.threads) \in Nat
           /\ mode # "spawning" => Len(threads) = Len(program.threads)
<1>1. SchedTyped /\ ThreadsSound /\ RoundSound
  BY DEF SchedInv
<1>2. threads \in Seq(ThreadState) /\ program \in ProgramState
  BY <1>1 DEF SchedTyped
<1>3. Len(threads) \in Nat /\ DOMAIN threads = 1 .. Len(threads) /\ Len(program.threads) \in Nat
  BY <1>2, LenProperties DEF ProgramState
<1> QED
  BY <1>1, <1>2, <1>3 DEF SchedTyped, ThreadsSound

\* No program has been started: no thread, no event.
LEMMA SchedInitInv == SchedInit => SchedInv
<1> SUFFICES ASSUME SchedInit PROVE SchedInv
  OBVIOUS
<1>0. <<>> \in Seq(ThreadState) /\ <<>> \in Seq(Given) /\ <<>> \in Seq(Recorded) /\ <<>> \in Seq(LogEntry) /\ Len(<<>>) = 0 /\ DOMAIN <<>> = {}
  OBVIOUS
<1>1. SchedTyped
  BY <1>0 DEF SchedInit, SchedTyped, NoProgram, ProgramState
<1>2. LogSound(replay, history)
  <2>1. PICK cap \in Caps : replay = EmptyLog(cap)
    BY DEF SchedInit
  <2>2. cap \in Nat
    BY SchedulerAssumption
  <2>3. replay \in Log /\ replay.cap = cap /\ replay.events = <<>> /\ replay.sequence = 0 /\ replay.dropped = 0
    BY <1>0, <2>1, <2>2 DEF EmptyLog, Log
  <2> QED
    BY <1>0, <2>2, <2>3 DEF LogSound, SchedInit
<1>3. ThreadsSound
  <2>1. Positions(history, AllDispatches) = {}
    BY <1>0 DEF SchedInit, Positions
  <2>2. Cardinality(Positions(history, AllDispatches)) = 0
    BY <2>1, FS_EmptySet
  <2> QED
    BY <1>0, <1>2, <2>2 DEF ThreadsSound, SchedInit, NoProgram
<1>4. RoundSound
  BY <1>0 DEF RoundSound, SchedInit, Active
<1> QED
  BY <1>1, <1>3, <1>4 DEF SchedInv

\* run_synthetic starts over with an empty log.
LEMMA StartStep ==
    ASSUME SchedInv, NEW p \in Programs, Start(p)
    PROVE  SchedInv'
<1>0. <<>> \in Seq(ThreadState) /\ <<>> \in Seq(Recorded) /\ <<>> \in Seq(LogEntry) /\ Len(<<>>) = 0 /\ DOMAIN <<>> = {}
  OBVIOUS
<1>1. p \in ProgramState /\ p.threads # <<>> /\ p.quantum \in Nat \ {0} /\ p.threads \in Seq(Given) /\ Len(p.threads) \in Nat \ {0}
  <2>1. p \in ProgramState /\ p.threads # <<>> /\ p.quantum # 0
    BY SchedulerAssumption DEF Start, ProgramState, Given
  <2>2. p.threads \in Seq(Given) /\ p.quantum \in Nat
    BY <2>1 DEF ProgramState
  <2>3. Len(p.threads) \in Nat /\ Len(p.threads) # 0
    BY <2>1, <2>2, EmptySeq, LenProperties
  <2> QED
    BY <2>1, <2>2, <2>3
<1>2. /\ program' = p /\ mode' = "spawning" /\ count' = 0 /\ threads' = <<>> /\ replay' = EmptyLog(replay.cap) /\ history' = <<>>
      /\ turn' = [index |-> 1, left |-> p.quantum]
  BY DEF Start
<1>3. SchedTyped'
  BY <1>0, <1>1, <1>2 DEF SchedTyped
<1>4. LogSound(replay', history')
  <2>1. replay.cap \in Nat
    BY SchedFacts DEF ThreadsSound, LogSound, Log
  <2>2. replay' \in Log /\ replay'.cap = replay.cap /\ replay'.events = <<>> /\ replay'.sequence = 0 /\ replay'.dropped = 0
    BY <1>0, <1>2, <2>1 DEF EmptyLog, Log
  <2> QED
    BY <1>0, <1>2, <2>1, <2>2 DEF LogSound
<1>5. ThreadsSound'
  <2>1. Positions(history', AllDispatches) = {}
    BY <1>0, <1>2 DEF Positions
  <2>2. Cardinality(Positions(history', AllDispatches)) = 0
    BY <2>1, FS_EmptySet
  <2>3. Len(threads') = 0 /\ 1 .. Len(threads') = {} /\ DOMAIN history' = {}
    BY <1>0, <1>2
  <2>4. Len(threads') <= Len(program'.threads)
    BY <1>1, <1>2, <2>3
  <2> QED
    BY <1>2, <1>4, <2>2, <2>3, <2>4 DEF ThreadsSound
<1>6. RoundSound'
  <2>1. Len(threads') = 0 /\ 1 .. Len(threads') = {}
    BY <1>0, <1>2
  <2>2. turn'.index \in 1 .. Len(program'.threads) /\ turn'.left \in 0 .. program'.quantum /\ program'.quantum > 0
    BY <1>1, <1>2
  <2>3. Len(threads') < Len(program'.threads)
    BY <1>1, <1>2, <2>1
  <2>4. \E base \in Nat : OnTrack(threads', base, turn', program'.quantum)
    BY <2>1 DEF OnTrack
  <2> QED
    BY <1>2, <2>1, <2>2, <2>3, <2>4 DEF RoundSound, Active
<1> QED
  BY <1>3, <1>5, <1>6 DEF SchedInv

\* Scheduler::spawn adds a thread that has done nothing.
LEMMA SpawnStep ==
    ASSUME SchedInv, Spawn
    PROVE  SchedInv'
<1> DEFINE i == Len(threads) + 1
           given == program.threads[i]
           new == Thread(given.pc, given.work)
           e == [id |-> i, pc |-> given.pc, kind |-> "spawned"]
<1>1. /\ mode = "spawning" /\ threads' = Append(threads, new)
      /\ replay' = Logged(replay, Event(replay.sequence, e)) /\ history' = Append(history, e)
      /\ mode' = (IF i = Len(program.threads) THEN "running" ELSE "spawning")
      /\ UNCHANGED <<program, turn, count>>
  BY DEF Spawn, Record
<1>2. /\ threads \in Seq(ThreadState) /\ program \in ProgramState /\ history \in Seq(Recorded) /\ count \in Nat
      /\ SchedTyped /\ ThreadsSound /\ RoundSound /\ Len(threads) \in Nat /\ Len(program.threads) \in Nat
  BY SchedFacts
<1>3. /\ Len(threads) < Len(program.threads) /\ turn = [index |-> 1, left |-> program.quantum]
      /\ \A j \in 1 .. Len(threads) : threads[j].ticks = 0
      /\ \A j \in 1 .. Len(threads) : threads[j].status # "crashed"
      /\ turn.index \in 1 .. Len(program.threads) /\ turn.left \in 0 .. program.quantum /\ program.quantum > 0
  BY <1>1, <1>2 DEF RoundSound, Active
<1>4. i \in 1 .. Len(program.threads) /\ i \in Nat /\ given \in Given
  <2>1. i \in 1 .. Len(program.threads)
    BY <1>2, <1>3
  <2>2. program.threads \in Seq(Given)
    BY <1>2 DEF ProgramState
  <2> QED
    BY <2>1, <2>2
<1>5. new \in ThreadState /\ new.ticks = 0 /\ new.status = "runnable"
  BY <1>4 DEF Thread, ThreadState, Given
<1>6. e \in Recorded /\ e.id = i /\ e.pc = given.pc /\ e.kind = "spawned"
  BY <1>4 DEF Recorded, Given, EventKinds
<1> HIDE DEF e
<1>7. /\ threads' \in Seq(ThreadState) /\ Len(threads') = i /\ threads'[i] = new
      /\ \A j \in 1 .. Len(threads) : threads'[j] = threads[j]
  <2> HIDE DEF new
  <2> QED
    BY <1>1, <1>2, <1>5, AppendProperties
<1>8. history' \in Seq(Recorded) /\ LogSound(replay', history')
  BY <1>1, <1>2, <1>6, LogGrows DEF ThreadsSound
<1>9. ASSUME NEW j \in 1 .. i
      PROVE  ThreadSound(threads'[j], program.threads[j], history', j)
  <2>1. CASE j = i
    <3>1. \A k \in DOMAIN history : history[k].id # i
      BY <1>2 DEF ThreadsSound
    <3>2. ThreadSound(Thread(given.pc, given.work), given, Append(history, e), i)
      BY <1>2, <1>4, <1>6, <3>1, NewThread
    <3> QED
      BY <1>1, <1>7, <2>1, <3>2
  <2>2. CASE j # i
    <3>1. j \in 1 .. Len(threads) /\ e.id # j
      BY <1>2, <1>6, <2>2
    <3>2. ThreadSound(threads[j], program.threads[j], history, j)
      BY <1>2, <3>1 DEF ThreadsSound
    <3>3. ThreadSound(threads[j], program.threads[j], Append(history, e), j)
      BY <1>2, <1>6, <3>1, <3>2, OtherThread
    <3> QED
      BY <1>1, <1>7, <3>1, <3>3
  <2> QED
    BY <2>1, <2>2
<1>10. \A k \in DOMAIN history' : history'[k].id \in 1 .. i
  <2>1. DOMAIN history' = 1 .. Len(history) + 1 /\ DOMAIN history = 1 .. Len(history) /\ Len(history) \in Nat
        /\ history'[Len(history) + 1] = e /\ \A k \in 1 .. Len(history) : history'[k] = history[k]
    BY <1>1, <1>2, <1>6, AppendProperties, LenProperties
  <2>2. \A k \in DOMAIN history : history[k].id \in 1 .. Len(threads)
    BY <1>2 DEF ThreadsSound
  <2> QED
    BY <1>2, <1>6, <2>1, <2>2
<1>11. count' = Cardinality(Positions(history', AllDispatches))
  <2>1. e \notin AllDispatches
    BY <1>6 DEF AllDispatches
  <2>2. Cardinality(Positions(history', AllDispatches)) = Cardinality(Positions(history, AllDispatches)) + 0
    BY <1>1, <1>2, <1>6, <2>1, PositionsGrow
  <2> QED
    BY <1>1, <1>2, <2>2 DEF ThreadsSound
<1> HIDE DEF new, given
<1>12. SchedTyped'
  BY <1>1, <1>2, <1>7, <1>8 DEF SchedTyped
<1>13. ThreadsSound'
  <2>1. i <= Len(program.threads) /\ (mode' # "spawning" => i = Len(program.threads))
    BY <1>1, <1>4
  <2> HIDE DEF i
  <2> QED
    BY <1>1, <1>7, <1>8, <1>9, <1>10, <1>11, <2>1 DEF ThreadsSound
<1>14. RoundSound'
  <2>1. \A j \in 1 .. i : threads'[j].ticks = 0 /\ threads'[j].status # "crashed"
    BY <1>2, <1>3, <1>5, <1>7
  <2>2. mode' = "spawning" => i < Len(program.threads)
    BY <1>1, <1>4, <1>2
  <2>3. ASSUME NEW j \in 1 .. i PROVE Due(0, turn', program'.quantum, j) = 0
    <3>1. j = 1 \/ j > 1
      BY <1>2
    <3>2. turn'.index = 1 /\ turn'.left = program'.quantum /\ program'.quantum \in Nat
      BY <1>1, <1>2, <1>3 DEF ProgramState
    <3> QED
      BY <3>1, <3>2 DEF Due
  <2>4. mode' \in {"spawning", "running"}
    BY <1>1
  <2>5. new.remaining \in Nat
    BY <1>5 DEF ThreadState
  <2> HIDE DEF i
  <2>6. \E base \in Nat : OnTrack(threads', base, turn', program'.quantum)
    <3>1. OnTrack(threads', 0, turn', program'.quantum)
      BY <1>7, <2>1, <2>3 DEF OnTrack
    <3> QED
      BY <3>1
  <2>7. \A j \in 1 .. Len(threads') : threads'[j].ticks = 0 /\ threads'[j].status # "crashed"
    BY <1>7, <2>1
  <2>8. mode' = "spawning" => Len(threads') < Len(program'.threads)
    BY <1>1, <1>7, <2>2
  <2> QED
    BY <1>1, <1>3, <2>4, <2>6, <2>7, <2>8 DEF RoundSound, Active
<1> QED
  BY <1>12, <1>13, <1>14 DEF SchedInv

\* A step of the thread whose turn it is.
LEMMA TurnFacts ==
    ASSUME SchedInv, NEW i \in DOMAIN threads, Running(i)
    PROVE  /\ mode = "running" /\ Active /\ turn.index = i /\ i \in 1 .. Len(threads) /\ turn.left \in 0 .. program.quantum
           /\ program.quantum \in Nat /\ program.quantum > 0 /\ threads[i] \in ThreadState
           /\ Len(threads) = Len(program.threads)
           /\ threads[i].status # "crashed"
           /\ \A j \in 1 .. Len(threads) : threads[j].status # "crashed" /\ threads[j].ticks \in Nat
           /\ turn \in [index : Nat, left : Nat] /\ turn.left \in Nat
           /\ threads[i].ticks \in Nat /\ threads[i].remaining \in Nat /\ threads[i].pc \in Nat
<1>1. /\ threads \in Seq(ThreadState) /\ program \in ProgramState /\ DOMAIN threads = 1 .. Len(threads) /\ RoundSound
      /\ turn \in [index : Nat, left : Nat]
  BY SchedFacts
<1>2. mode = "running" /\ turn.index = i /\ Active
  BY DEF Running, Active
<1>3. /\ turn.left \in 0 .. program.quantum /\ program.quantum > 0 /\ program.quantum \in Nat
      /\ \A j \in 1 .. Len(threads) : threads[j].status # "crashed"
  BY <1>1, <1>2 DEF RoundSound, ProgramState
<1>4. \A j \in 1 .. Len(threads) : threads[j] \in ThreadState
  BY <1>1
<1>5. Len(threads) = Len(program.threads)
  BY <1>2, SchedFacts
<1> QED
  BY <1>1, <1>2, <1>3, <1>4, <1>5 DEF ThreadState

\* What is due to the next thread when a turn ends: in a round, or with a new one.
TurnOver(ts, base, now, later, q) ==
    /\ Len(ts) \in Nat /\ q \in Nat /\ base \in Nat /\ now.index \in 1 .. Len(ts) /\ now.left \in 0 .. q
    /\ \A j \in 1 .. Len(ts) : ts[j].ticks \in Nat /\ ts[j].remaining \in Nat
    /\ OnTrack(ts, base, now, q) /\ (ts[now.index].remaining > 0 => now.left = 0)
    /\ later.index = (IF now.index = Len(ts) THEN 1 ELSE now.index + 1) /\ later.left = q
LEMMA TurnPasses ==
    ASSUME NEW ts, NEW base, NEW now, NEW later, NEW q, TurnOver(ts, base, now, later, q)
    PROVE  \E b \in Nat : OnTrack(ts, b, later, q)
<1> DEFINE n == Len(ts)
           i == now.index
           left == now.left
           b == IF i = n THEN base + q ELSE base
<1>0. /\ n \in Nat /\ q \in Nat /\ base \in Nat /\ i \in 1 .. n /\ left \in 0 .. q
      /\ \A j \in 1 .. n : ts[j].ticks \in Nat /\ ts[j].remaining \in Nat
      /\ OnTrack(ts, base, now, q) /\ (ts[i].remaining > 0 => left = 0)
      /\ later.index = (IF i = n THEN 1 ELSE i + 1) /\ later.left = q
  BY DEF TurnOver
<1>1. b \in Nat
  BY <1>0
<1>2. ASSUME NEW j \in 1 .. n
      PROVE  Due(b, later, q, j) = (IF j <= i THEN base + q ELSE base)
  <2>1. CASE i = n
    BY <1>0, <2>1 DEF Due
  <2>2. CASE i # n
    BY <1>0, <2>2 DEF Due
  <2> QED
    BY <2>1, <2>2
<1>3. ASSUME NEW j \in 1 .. n
      PROVE  Due(base, now, q, j) = (IF j < i THEN base + q ELSE IF j = i THEN base + (q - left) ELSE base)
  BY DEF Due
<1> HIDE DEF n, i, left, b
<1>4. ASSUME NEW j \in 1 .. n
      PROVE  ts[j].ticks <= Due(b, later, q, j) /\ (ts[j].remaining > 0 => ts[j].ticks = Due(b, later, q, j))
  <2> DEFINE ticks == ts[j].ticks
             more == ts[j].remaining > 0
             was == Due(base, now, q, j)
             will == Due(b, later, q, j)
  <2>1. ticks \in Nat /\ ticks <= was /\ (more => ticks = was)
    BY <1>0 DEF OnTrack, n
  <2>2. (j = i /\ more) => left = 0
    BY <1>0
  <2>3. will = (IF j <= i THEN base + q ELSE base)
    BY <1>2
  <2>4. was = (IF j < i THEN base + q ELSE IF j = i THEN base + (q - left) ELSE base)
    BY <1>3
  <2> HIDE DEF ticks, more, was, will
  <2>5. ticks <= will /\ (more => ticks = will)
    BY <1>0, <2>1, <2>2, <2>3, <2>4
  <2> QED
    BY <2>5 DEF ticks, more, will
<1> QED
  BY <1>1, <1>4 DEF OnTrack, n

\* A thread gives up its turn with its quantum used or its work done.
LEMMA TurnEnds ==
    ASSUME SchedInv, NEW i \in DOMAIN threads, Running(i), NextTurn, program' = program, mode' = mode,
           threads' \in Seq(ThreadState), Len(threads') = Len(threads), threads[i].remaining > 0 => turn.left = 0,
           \A j \in 1 .. Len(threads) : /\ threads'[j].ticks = threads[j].ticks
                                        /\ threads'[j].remaining = threads[j].remaining
                                        /\ threads'[j].status # "crashed"
    PROVE  RoundSound' /\ turn' \in [index : Nat, left : Nat]
<1> DEFINE n == Len(threads)
           q == program.quantum
<1>1. /\ mode = "running" /\ turn.index = i /\ i \in 1 .. n /\ n \in Nat /\ turn.left \in 0 .. q /\ q \in Nat /\ q > 0
      /\ n = Len(program.threads) /\ RoundSound /\ Active
  BY TurnFacts, SchedFacts
<1>2. turn' = [index |-> IF i = n THEN 1 ELSE i + 1, left |-> q]
  BY <1>1 DEF NextTurn
<1>3. PICK base \in Nat : OnTrack(threads, base, turn, q)
  BY <1>1 DEF RoundSound
<1>4. OnTrack(threads', base, turn, q)
  BY <1>3 DEF OnTrack
<1>5. turn'.index = (IF i = n THEN 1 ELSE i + 1) /\ turn'.left = q /\ turn' \in [index : Nat, left : Nat]
  BY <1>1, <1>2
<1>6. \A j \in 1 .. n : threads'[j].ticks \in Nat /\ threads'[j].remaining \in Nat
  <2>1. \A j \in 1 .. n : threads'[j] \in ThreadState
    OBVIOUS
  <2> QED
    BY <2>1 DEF ThreadState
<1>7. Len(threads') = n /\ (threads'[i].remaining > 0 => turn.left = 0)
  BY <1>1
<1> HIDE DEF n, q
<1>8. \E b \in Nat : OnTrack(threads', b, turn', q)
  <2>1. TurnOver(threads', base, turn, turn', q)
    BY <1>1, <1>4, <1>5, <1>6, <1>7 DEF TurnOver
  <2> QED
    BY <2>1, TurnPasses
<1>9. turn'.index \in 1 .. n /\ turn'.left \in 0 .. q
  BY <1>1, <1>5
<1>10. \A j \in 1 .. n : threads'[j].status # "crashed"
  BY DEF n
<1>11. Len(program'.threads) = n /\ program'.quantum = q /\ mode' = "running"
  BY <1>1 DEF q
<1> QED
  BY <1>1, <1>5, <1>7, <1>8, <1>9, <1>10, <1>11 DEF RoundSound, Active

\* A halted thread is passed over.
LEMMA SkipStep ==
    ASSUME SchedInv, NEW i \in DOMAIN threads, Skip(i)
    PROVE  SchedInv'
<1>1. Running(i) /\ Halted(i) /\ NextTurn /\ UNCHANGED <<threads, replay, program, mode, count, history>>
  BY DEF Skip
<1>2. /\ i \in 1 .. Len(threads) /\ threads[i].remaining \in Nat
      /\ \A j \in 1 .. Len(threads) : threads[j].status # "crashed"
  BY <1>1, TurnFacts
<1>3. SchedTyped /\ ThreadsSound
  BY SchedFacts
<1>4. ThreadSound(threads[i], program.threads[i], history, i)
  BY <1>2, <1>3 DEF ThreadsSound
<1>5. threads[i].remaining = 0
  BY <1>1, <1>4 DEF Halted, ThreadSound
<1>6. RoundSound' /\ turn' \in [index : Nat, left : Nat]
  <2>1. threads' = threads /\ threads' \in Seq(ThreadState) /\ Len(threads') = Len(threads)
    BY <1>1, SchedFacts
  <2>2. threads[i].remaining > 0 => turn.left = 0
    BY <1>2, <1>5
  <2> QED
    BY <1>1, <1>2, <2>1, <2>2, TurnEnds
<1>7. SchedTyped'
  BY <1>1, <1>3, <1>6 DEF SchedTyped
<1>8. ThreadsSound'
  BY <1>1, <1>3 DEF ThreadsSound
<1> QED
  BY <1>6, <1>7, <1>8 DEF SchedInv

\* A thread that ends its turn: halted or runnable again.
LEMMA HaltOrYieldStep ==
    ASSUME SchedInv, NEW i \in DOMAIN threads, HaltThread(i) \/ Yield(i)
    PROVE  SchedInv'
<1> DEFINE t == threads[i]
           kind == IF t.remaining = 0 THEN "halt" ELSE "yield"
           status == IF t.remaining = 0 THEN "halted" ELSE "runnable"
           u == [t EXCEPT !.status = status]
<1>1. /\ Running(i) /\ NextTurn /\ program' = program /\ mode' = mode /\ count' = count
      /\ Record(i, t.pc, kind) /\ threads' = [threads EXCEPT ![i] = u]
      /\ t.remaining > 0 => turn.left = 0
  <2>1. Running(i) /\ t.remaining \in Nat
    BY TurnFacts DEF HaltThread, Yield
  <2>2. CASE HaltThread(i)
    BY <2>1, <2>2 DEF HaltThread
  <2>3. CASE Yield(i)
    <3>1. t.remaining > 0 /\ turn.left = 0 /\ Running(i) /\ NextTurn /\ UNCHANGED <<program, mode, count>>
          /\ Record(i, t.pc, "yield") /\ threads' = [threads EXCEPT ![i].status = "runnable"]
      BY <2>3 DEF Yield
    <3>2. ~(t.remaining = 0)
      BY <2>1, <3>1
    <3>3. kind = "yield" /\ u = [t EXCEPT !.status = "runnable"]
      BY <3>2
    <3>4. threads' = [threads EXCEPT ![i] = u]
      BY <3>1, <3>3
    <3> HIDE DEF t, kind, u
    <3> QED
      BY <3>1, <3>3, <3>4
  <2> QED
    BY <2>2, <2>3
<1>2. /\ i \in 1 .. Len(threads) /\ t \in ThreadState /\ mode = "running"
      /\ \A j \in 1 .. Len(threads) : threads[j].status # "crashed"
      /\ t.ticks \in Nat /\ t.remaining \in Nat /\ t.pc \in Nat
  BY <1>1, TurnFacts
<1>3. SchedTyped /\ ThreadsSound /\ threads \in Seq(ThreadState) /\ count \in Nat
  BY SchedFacts
<1>4. /\ u \in ThreadState /\ u.ticks = t.ticks /\ u.remaining = t.remaining /\ u.pc = t.pc
      /\ u.status \in {"halted", "runnable"} /\ (u.status = "halted" => u.remaining = 0)
  BY <1>2 DEF ThreadState
<1>5. kind \in EventKinds /\ kind # "dispatch" /\ kind # "crash"
  BY DEF EventKinds
<1> HIDE DEF u, kind
<1>6. /\ threads' \in Seq(ThreadState) /\ Len(threads') = Len(threads) /\ history' \in Seq(Recorded) /\ ThreadsSound'
  <2>1. /\ u.ticks = t.ticks + 0 /\ u.remaining = t.remaining - 0 /\ u.pc = t.pc + 0 /\ count' = count + 0
        /\ t.status # "crashed" /\ mode # "spawning"
    BY <1>1, <1>2, <1>3, <1>4
  <2>2. (u.status = "running" <=> kind = "dispatch") /\ (u.status = "crashed" <=> kind = "crash")
    BY <1>4, <1>5
  <2>3. 0 = IF kind = "dispatch" THEN 1 ELSE 0
    BY <1>5
  <2> QED
    BY <1>1, <1>2, <1>3, <1>4, <1>5, <2>1, <2>2, <2>3, EventStep
<1>7. \A j \in 1 .. Len(threads) : /\ threads'[j].ticks = threads[j].ticks
                                   /\ threads'[j].remaining = threads[j].remaining
                                   /\ threads'[j].status # "crashed"
  BY <1>1, <1>2, <1>3, <1>4
<1>8. RoundSound' /\ turn' \in [index : Nat, left : Nat]
  BY <1>1, <1>6, <1>7, TurnEnds
<1>9. SchedTyped'
  BY <1>1, <1>2, <1>3, <1>6, <1>8 DEF SchedTyped
<1> QED
  BY <1>6, <1>8, <1>9 DEF SchedInv

\* One instruction of the thread whose turn it is.
LEMMA DispatchStep ==
    ASSUME SchedInv, NEW i \in DOMAIN threads, Dispatch(i)
    PROVE  SchedInv'
<1> DEFINE t == threads[i]
           u == [pc |-> t.pc + 1, status |-> "running", ticks |-> t.ticks + 1, remaining |-> t.remaining - 1]
           n == Len(threads)
           q == program.quantum
<1>1. /\ Running(i) /\ ~Halted(i) /\ turn.left > 0 /\ t.remaining > 0
      /\ Record(i, t.pc, "dispatch") /\ threads' = [threads EXCEPT ![i] = u]
      /\ count' = count + 1 /\ turn' = [turn EXCEPT !.left = turn.left - 1] /\ program' = program /\ mode' = mode
  BY DEF Dispatch
<1>2. /\ i \in 1 .. n /\ t \in ThreadState /\ mode = "running" /\ turn.index = i /\ turn.left \in 0 .. q /\ q \in Nat /\ q > 0
      /\ \A j \in 1 .. n : threads[j].status # "crashed" /\ threads[j].ticks \in Nat
      /\ t.ticks \in Nat /\ t.remaining \in Nat /\ t.pc \in Nat /\ turn \in [index : Nat, left : Nat] /\ turn.left \in Nat
      /\ Active /\ n = Len(program.threads)
  BY <1>1, TurnFacts
<1>3. SchedTyped /\ ThreadsSound /\ RoundSound /\ threads \in Seq(ThreadState) /\ count \in Nat /\ n \in Nat
  BY SchedFacts
<1>4. /\ u \in ThreadState /\ u.ticks = t.ticks + 1 /\ u.remaining = t.remaining - 1 /\ u.pc = t.pc + 1 /\ u.status = "running"
  <2>1. t.pc + 1 \in Nat /\ t.ticks + 1 \in Nat /\ t.remaining - 1 \in Nat
    <3>1. t.pc \in Nat /\ t.ticks \in Nat /\ t.remaining \in Nat /\ t.remaining > 0
      BY <1>1, <1>2
    <3> HIDE DEF t
    <3> QED
      BY ONLY <3>1
  <2> QED
    BY <2>1 DEF ThreadState
<1> HIDE DEF u
<1>5. /\ threads' \in Seq(ThreadState) /\ Len(threads') = n /\ history' \in Seq(Recorded) /\ ThreadsSound'
  <2>1. "dispatch" \in EventKinds /\ mode # "spawning" /\ t.status # "crashed"
    BY <1>2 DEF EventKinds
  <2>2. 1 = IF "dispatch" = "dispatch" THEN 1 ELSE 0
    OBVIOUS
  <2>3. (u.status = "halted" => u.remaining = 0) /\ (u.status = "running" <=> "dispatch" = "dispatch") /\ (u.status = "crashed" <=> "dispatch" = "crash")
    BY <1>4
  <2> QED
    BY <1>1, <1>2, <1>3, <1>4, <2>1, <2>2, <2>3, EventStep
<1>6. /\ threads'[i] = u /\ \A j \in 1 .. n : j # i => threads'[j] = threads[j]
  BY <1>1, <1>2, <1>3
<1>7. turn'.index = i /\ turn'.left = turn.left - 1 /\ turn' \in [index : Nat, left : Nat] /\ turn'.left \in 0 .. q
  BY <1>1, <1>2
<1>8. RoundSound'
  <2>1. PICK base \in Nat : OnTrack(threads, base, turn, q)
    BY <1>2, <1>3 DEF RoundSound
  <2>2. ASSUME NEW j \in 1 .. n
        PROVE  /\ threads'[j].ticks <= Due(base, turn', q, j)
               /\ threads'[j].remaining > 0 => threads'[j].ticks = Due(base, turn', q, j)
    <3>0. threads[j].ticks <= Due(base, turn, q, j) /\ (threads[j].remaining > 0 => threads[j].ticks = Due(base, turn, q, j))
      BY <2>1 DEF OnTrack
    <3>1. CASE j = i
      <4>1. Due(base, turn, q, j) = base + (q - turn.left) /\ Due(base, turn', q, j) = base + (q - (turn.left - 1))
        BY <1>2, <1>7, <3>1 DEF Due
      <4>2. t.ticks = base + (q - turn.left)
        BY <1>1, <3>0, <3>1, <4>1
      <4>3. threads'[j].ticks = t.ticks + 1
        BY <1>4, <1>6, <3>1
      <4>4. threads'[j].ticks = Due(base, turn', q, j)
        <5> DEFINE x == t.ticks
                   l == turn.left
                   y == threads'[j].ticks
                   z == Due(base, turn', q, j)
        <5>1. x \in Nat /\ l \in Nat /\ q \in Nat /\ base \in Nat /\ x = base + (q - l) /\ y = x + 1 /\ z = base + (q - (l - 1))
          BY <1>2, <4>1, <4>2, <4>3
        <5> HIDE DEF x, l, y, z, q
        <5>2. y = z
          BY ONLY <5>1
        <5> QED
          BY <5>2 DEF y, z
      <4>5. threads'[j].ticks \in Nat
        BY <1>2, <4>3
      <4> QED
        BY <4>4, <4>5
    <3>2. CASE j # i
      <4>1. Due(base, turn', q, j) = Due(base, turn, q, j)
        BY <1>2, <1>7, <3>2 DEF Due
      <4>2. threads'[j] = threads[j]
        BY <1>6, <3>2
      <4> QED
        BY <3>0, <4>1, <4>2
    <3> QED
      BY <3>1, <3>2
  <2>3. \A j \in 1 .. n : threads'[j].status # "crashed"
    BY <1>2, <1>4, <1>6
  <2> HIDE DEF n, q
  <2>4. \E b \in Nat : OnTrack(threads', b, turn', q)
    <3>1. OnTrack(threads', base, turn', q)
      BY <1>5, <2>2 DEF OnTrack
    <3> QED
      BY <3>1
  <2>5. turn'.index \in 1 .. Len(program'.threads) /\ program'.quantum = q /\ mode' = "running"
    BY <1>1, <1>2, <1>7 DEF q
  <2> QED
    BY <1>2, <1>5, <1>7, <2>3, <2>4, <2>5 DEF RoundSound, Active
<1>9. SchedTyped'
  BY <1>1, <1>2, <1>3, <1>5, <1>7 DEF SchedTyped
<1> QED
  BY <1>5, <1>8, <1>9 DEF SchedInv

\* No work is left.
LEMMA FinishStep ==
    ASSUME SchedInv, Finish
    PROVE  SchedInv'
<1>1. /\ mode = "running" /\ mode' = "done" /\ \A j \in DOMAIN threads : threads[j].status = "halted"
      /\ UNCHANGED <<threads, replay, program, turn, count, history>>
  BY DEF Finish, AllHalted, Halted
<1>2. SchedTyped /\ ThreadsSound /\ DOMAIN threads = 1 .. Len(threads) /\ Len(threads) = Len(program.threads)
  BY <1>1, SchedFacts
<1>3. \A j \in 1 .. Len(threads) : threads[j].remaining = 0
  BY <1>1, <1>2 DEF ThreadsSound, ThreadSound
<1>4. SchedTyped'
  BY <1>1, <1>2 DEF SchedTyped
<1>5. ThreadsSound'
  BY <1>1, <1>2 DEF ThreadsSound
<1>6. RoundSound'
  BY <1>1, <1>3 DEF RoundSound, Active
<1> QED
  BY <1>4, <1>5, <1>6 DEF SchedInv

\* A program that is refused changes the mode and no more.
LEMMA RefuseStep ==
    ASSUME SchedInv, NEW p, Refuse(p)
    PROVE  SchedInv'
<1>1. /\ mode \notin {"spawning", "running"} /\ mode' = "refused"
      /\ UNCHANGED <<threads, replay, program, turn, count, history>>
  BY DEF Refuse
<1>2. SchedTyped /\ ThreadsSound /\ RoundSound
  BY SchedFacts
<1>3. SchedTyped'
  BY <1>1, <1>2 DEF SchedTyped
<1>4. ThreadsSound'
  BY <1>1, <1>2 DEF ThreadsSound
<1>5. RoundSound'
  BY <1>1, <1>2 DEF RoundSound, Active
<1> QED
  BY <1>3, <1>4, <1>5 DEF SchedInv

\* A crash of a finished scheduler's thread.
LEMMA CrashStep ==
    ASSUME SchedInv, NEW i \in DOMAIN threads, CrashThread(i)
    PROVE  SchedInv'
<1> DEFINE t == threads[i]
           u == [t EXCEPT !.status = "crashed"]
<1>1. /\ mode = "done" /\ t.status # "crashed" /\ Record(i, t.pc, "crash") /\ threads' = [threads EXCEPT ![i] = u]
      /\ UNCHANGED <<program, turn, mode, count>>
  BY DEF CrashThread
<1>2. /\ SchedTyped /\ ThreadsSound /\ RoundSound /\ threads \in Seq(ThreadState) /\ count \in Nat
      /\ i \in 1 .. Len(threads) /\ DOMAIN threads = 1 .. Len(threads) /\ t \in ThreadState
  BY SchedFacts
<1>3. t.ticks \in Nat /\ t.remaining \in Nat /\ t.pc \in Nat
  BY <1>2 DEF ThreadState
<1>4. u \in ThreadState /\ u.ticks = t.ticks /\ u.remaining = t.remaining /\ u.pc = t.pc /\ u.status = "crashed"
  BY <1>2 DEF ThreadState
<1> HIDE DEF u
<1>5. threads' \in Seq(ThreadState) /\ Len(threads') = Len(threads) /\ history' \in Seq(Recorded) /\ ThreadsSound'
  <2>1. /\ u.ticks = t.ticks + 0 /\ u.remaining = t.remaining - 0 /\ u.pc = t.pc + 0 /\ count' = count + 0
        /\ mode # "spawning" /\ mode' = mode /\ program' = program
    BY <1>1, <1>2, <1>3, <1>4
  <2>2. "crash" \in EventKinds /\ 0 = IF "crash" = "dispatch" THEN 1 ELSE 0
    BY DEF EventKinds
  <2>3. /\ u.status = "halted" => u.remaining = 0
        /\ u.status = "running" <=> "crash" = "dispatch"
        /\ u.status = "crashed" <=> "crash" = "crash"
    BY <1>4
  <2> QED
    BY <1>1, <1>2, <1>4, <2>1, <2>2, <2>3, EventStep
<1>6. SchedTyped'
  BY <1>1, <1>2, <1>5 DEF SchedTyped
<1>7. RoundSound'
  <2>1. \A j \in 1 .. Len(threads) : threads[j].remaining = 0
    BY <1>1, <1>2 DEF RoundSound, Active
  <2>2. \A j \in 1 .. Len(threads') : threads'[j].remaining = 0
    BY <1>1, <1>2, <1>4, <1>5, <2>1
  <2> QED
    BY <1>1, <2>2 DEF RoundSound, Active
<1> QED
  BY <1>5, <1>6, <1>7 DEF SchedInv

\* Every step keeps the scheduler's invariant.
LEMMA SchedStep == SchedInv /\ (SchedNext \/ UNCHANGED schedVars) => SchedInv'
<1> SUFFICES ASSUME SchedInv, SchedNext \/ UNCHANGED schedVars PROVE SchedInv'
  OBVIOUS
<1>1. ASSUME NEW p \in Programs, Refuse(p) PROVE SchedInv'
  BY <1>1, RefuseStep
<1>2. ASSUME NEW p \in Programs, Start(p) PROVE SchedInv'
  BY <1>2, StartStep
<1>3. CASE Spawn
  BY <1>3, SpawnStep
<1>4. CASE Finish
  BY <1>4, FinishStep
<1>5. ASSUME NEW i \in DOMAIN threads, Skip(i) PROVE SchedInv'
  BY <1>5, SkipStep
<1>6. ASSUME NEW i \in DOMAIN threads, Dispatch(i) PROVE SchedInv'
  BY <1>6, DispatchStep
<1>7. ASSUME NEW i \in DOMAIN threads, HaltThread(i) \/ Yield(i) PROVE SchedInv'
  BY <1>7, HaltOrYieldStep
<1>8. ASSUME NEW i \in DOMAIN threads, CrashThread(i) PROVE SchedInv'
  BY <1>8, CrashStep
<1>9. CASE UNCHANGED schedVars
  <2>1. UNCHANGED <<threads, replay, program, turn, mode, count, history>>
    BY <1>9 DEF schedVars
  <2>2. SchedTyped /\ ThreadsSound /\ RoundSound
    BY SchedFacts
  <2>3. SchedTyped'
    BY <2>1, <2>2 DEF SchedTyped
  <2>4. ThreadsSound'
    BY <2>1, <2>2 DEF ThreadsSound
  <2>5. RoundSound'
    BY <2>1, <2>2 DEF RoundSound, Active
  <2> QED
    BY <2>3, <2>4, <2>5 DEF SchedInv
<1> QED
  BY <1>1, <1>2, <1>3, <1>4, <1>5, <1>6, <1>7, <1>8, <1>9 DEF SchedNext

\* What the counts of the properties count.
LEMMA DispatchesCounted ==
    ASSUME SchedInv, NEW i \in DOMAIN threads
    PROVE  DispatchesOf(i) = threads[i].ticks
<1>1. history \in Seq(Recorded) /\ ThreadsSound /\ i \in 1 .. Len(threads)
  BY SchedFacts
<1>2. \A k \in DOMAIN history : history[k] \in Recorded
  BY <1>1
<1>3. Positions(history, Dispatches(i)) = {k \in DOMAIN history : history[k].id = i /\ history[k].kind = "dispatch"}
  BY <1>2 DEF Positions, Dispatches
<1>4. Cardinality(Positions(history, Dispatches(i))) = threads[i].ticks
  BY <1>1 DEF ThreadsSound, ThreadSound
<1> QED
  BY <1>3, <1>4 DEF DispatchesOf

\* Two threads that both have work are at most a quantum apart.
LEMMA FairlyScheduled == SchedInv => SchedulesFairly
<1> SUFFICES ASSUME SchedInv PROVE SchedulesFairly
  OBVIOUS
<1>1. /\ history \in Seq(Recorded) /\ ThreadsSound /\ RoundSound /\ DOMAIN threads = 1 .. Len(threads) /\ Len(threads) \in Nat
      /\ threads \in Seq(ThreadState) /\ program \in ProgramState /\ program.quantum \in Nat
  BY SchedFacts DEF ProgramState
<1>2. ASSUME NEW i \in DOMAIN threads, NEW j \in DOMAIN threads, threads[j].remaining > 0
      PROVE  DispatchesOf(i) <= DispatchesOf(j) + program.quantum
  <2>1. threads[i] \in ThreadState /\ threads[j] \in ThreadState /\ i \in 1 .. Len(threads) /\ j \in 1 .. Len(threads)
    BY <1>1
  <2>2. threads[i].ticks \in Nat /\ threads[j].ticks \in Nat /\ threads[j].remaining # 0
    BY <1>2, <2>1 DEF ThreadState
  <2>3. Active
    BY <1>1, <2>1, <2>2 DEF RoundSound
  <2>4. turn.left \in 0 .. program.quantum
    BY <1>1, <2>3 DEF RoundSound
  <2>5. PICK base \in Nat : OnTrack(threads, base, turn, program.quantum)
    BY <1>1, <2>3 DEF RoundSound
  <2> DEFINE q == program.quantum
             x == threads[i].ticks
             y == threads[j].ticks
  <2>6. x <= Due(base, turn, q, i) /\ y = Due(base, turn, q, j)
    BY <1>2, <2>1, <2>5 DEF OnTrack
  <2>7. \A k \in Nat : Due(base, turn, q, k) >= base /\ Due(base, turn, q, k) <= base + q /\ Due(base, turn, q, k) \in Nat
    <3> DEFINE left == turn.left
    <3>1. left \in 0 .. q /\ q \in Nat
      BY <1>1, <2>4
    <3> HIDE DEF q
    <3>2. \A k \in Nat : Due(base, turn, q, k) = (IF k < turn.index THEN base + q ELSE IF k = turn.index THEN base + (q - left) ELSE base)
      BY DEF Due
    <3> HIDE DEF left
    <3> QED
      BY <3>1, <3>2
  <2>8. i \in Nat /\ j \in Nat /\ q \in Nat /\ x \in Nat /\ y \in Nat
    BY <1>1, <2>1, <2>2
  <2> HIDE DEF q, x, y
  <2>9. x <= y + q
    BY <2>6, <2>7, <2>8
  <2> QED
    BY <2>9, DispatchesCounted DEF x, y, q
<1>3. ASSUME NEW i \in DOMAIN threads
      PROVE  /\ DispatchesOf(i) = threads[i].ticks /\ threads[i].ticks + threads[i].remaining = program.threads[i].work
             /\ threads[i].pc = program.threads[i].pc + threads[i].ticks
             /\ Halted(i) => threads[i].remaining = 0
  <2>1. ThreadSound(threads[i], program.threads[i], history, i)
    BY <1>1 DEF ThreadsSound
  <2> QED
    BY <2>1, DispatchesCounted DEF ThreadSound, Halted
<1>4. mode = "done" => \A i \in DOMAIN threads : threads[i].remaining = 0
  BY <1>1 DEF RoundSound, Active
<1>5. count = Cardinality({k \in DOMAIN history : history[k].kind = "dispatch"})
  <2>1. Positions(history, AllDispatches) = {k \in DOMAIN history : history[k].kind = "dispatch"}
    <3>1. \A k \in DOMAIN history : history[k] \in Recorded
      BY <1>1
    <3> QED
      BY <3>1 DEF Positions, AllDispatches
  <2> QED
    BY <1>1, <2>1 DEF ThreadsSound
<1> QED
  BY <1>2, <1>3, <1>4, <1>5 DEF SchedulesFairly

\* The newest event of a window is the one that is at least as new as the rest.
LEMMA NewestIs ==
    ASSUME NEW w \in SUBSET Nat, NEW k \in w, \A l \in w : l <= k
    PROVE  Newest(w) = k
<1>1. Newest(w) \in w /\ \A l \in w : l <= Newest(w)
  BY DEF Newest
<1>2. Newest(w) <= k /\ k <= Newest(w) /\ Newest(w) \in Nat /\ k \in Nat
  BY <1>1
<1> QED
  BY <1>2

\* The replay from the log tells the newest events as they happened.
LEMMA ReplayedAsLogged == SchedInv => ReplayIsSuffix
<1> SUFFICES ASSUME SchedInv PROVE ReplayIsSuffix
  OBVIOUS
<1> DEFINE es == replay.events
           gone == Len(history) - Len(es)
           d == replay.dropped
<1>1. /\ history \in Seq(Recorded) /\ ThreadsSound /\ DOMAIN threads = 1 .. Len(threads) /\ threads \in Seq(ThreadState)
      /\ LogSound(replay, history)
  BY SchedFacts DEF ThreadsSound
<1>2. /\ es \in Seq(LogEntry) /\ d \in Nat /\ Len(es) \in Nat /\ Len(history) \in Nat /\ DOMAIN es = 1 .. Len(es)
      /\ DOMAIN history = 1 .. Len(history) /\ d + Len(es) = Len(history) /\ Len(es) <= replay.cap
      /\ replay.sequence = Len(history)
      /\ \A k \in 1 .. Len(es) : es[k] = Event(d + k - 1, history[d + k])
  BY <1>1, LenProperties DEF LogSound, Log
<1>3. gone = d
  <2> DEFINE a == Len(es)
             b == Len(history)
  <2>1. a \in Nat /\ b \in Nat /\ d \in Nat /\ d + a = b
    BY <1>2
  <2> HIDE DEF a, b, d
  <2>2. b - a = d
    BY ONLY <2>1
  <2> QED
    BY <2>2 DEF a, b
<1> HIDE DEF gone, es, d
<1>4. ASSUME NEW k \in DOMAIN es
      PROVE  d + k \in DOMAIN history /\ history[d + k] \in Recorded /\ es[k].id = history[d + k].id
             /\ es[k].pc = history[d + k].pc /\ es[k].kind = history[d + k].kind
  <2>1. d + k \in DOMAIN history
    BY <1>2
  <2>2. history[d + k] \in Recorded
    BY <1>1, <2>1
  <2> QED
    BY <1>2, <2>1, <2>2 DEF Event
<1>5. ASSUME NEW i \in DOMAIN threads
      PROVE  /\ Analysis(i).dispatches <= threads[i].ticks
             /\ gone = 0 => /\ Analysis(i).dispatches = threads[i].ticks
                            /\ Analysis(i).crashed = (threads[i].status = "crashed")
                            /\ Analysis(i).last = threads[i].pc - (IF threads[i].status = "running" THEN 1 ELSE 0)
  <2> DEFINE t == threads[i]
             w == {k \in DOMAIN es : es[k].id = i}
             Ds == {k \in w : es[k].kind = "dispatch"}
             Cs == {k \in w : es[k].kind = "crash"}
             P == Positions(history, Dispatches(i))
  <2>1. ThreadSound(t, program.threads[i], history, i)
    BY <1>1 DEF ThreadsSound
  <2>2. Analysis(i).dispatches = Cardinality(Ds) /\ Analysis(i).crashed = (Cs # {})
        /\ Analysis(i).last = (IF w = {} THEN 0 ELSE es[Newest(w)].pc)
    BY DEF Analysis, Window, es
  <2>3. IsFiniteSet(P) /\ Cardinality(P) = t.ticks
    <3>1. IsFiniteSet(1 .. Len(history)) /\ P \subseteq 1 .. Len(history)
      BY <1>2, FS_Interval DEF Positions
    <3> QED
      BY <2>1, <3>1, FS_Subset DEF ThreadSound
  <2>4. Cardinality(Ds) <= t.ticks
    <3> DEFINE f == [k \in Ds |-> d + k]
    <3>1. \A k \in Ds : d + k \in P /\ k \in Nat
      BY <1>2, <1>4 DEF Positions, Dispatches
    <3>2. f \in Injection(Ds, P)
      <4>1. f \in [Ds -> P]
        BY <3>1
      <4>2. ASSUME NEW a \in Ds, NEW b \in Ds, f[a] = f[b] PROVE a = b
        <5>1. d + a = d + b /\ a \in Nat /\ b \in Nat /\ d \in Nat
          BY <1>2, <3>1, <4>2
        <5> QED
          BY ONLY <5>1
      <4> QED
        BY <4>1, <4>2 DEF Injection, IsInjective
    <3> QED
      BY <2>3, <3>2, FS_Injection
  <2>5. ASSUME gone = 0
        PROVE  /\ Cardinality(Ds) = t.ticks
               /\ Cs # {} <=> t.status = "crashed"
               /\ w # {} /\ es[Newest(w)].pc = t.pc - (IF t.status = "running" THEN 1 ELSE 0)
    <3>1. d = 0 /\ DOMAIN es = DOMAIN history /\ \A k \in DOMAIN es : k \in Nat /\ d + k = k
      <4> DEFINE a == Len(es)
                 b == Len(history)
      <4>0. a \in Nat /\ b \in Nat /\ d + a = b /\ d = 0
        BY <1>2, <1>3, <2>5
      <4> HIDE DEF a, b
      <4>1. d = 0 /\ a = b
        BY ONLY <4>0
      <4> QED
        BY <1>2, <4>1 DEF a, b
    <3>2. \A k \in DOMAIN es : history[k] \in Recorded /\ es[k].id = history[k].id /\ es[k].pc = history[k].pc /\ es[k].kind = history[k].kind
      BY <1>4, <3>1
    <3>3. w = Positions(history, Mine(i)) /\ Ds = P /\ Cs = Positions(history, Crashes(i)) /\ w \subseteq Nat
      BY <3>1, <3>2 DEF Positions, Mine, Dispatches, Crashes
    <3> HIDE DEF w, Ds, Cs, P
    <3>4. PICK k \in w : (\A l \in w : l <= k) /\ history[k].pc = t.pc - (IF t.status = "running" THEN 1 ELSE 0)
      BY <2>1, <3>3 DEF ThreadSound
    <3>5. Newest(w) = k
      BY <3>3, <3>4, NewestIs
    <3>6. es[k].pc = history[k].pc
      BY <3>2, <3>4 DEF w
    <3>7. Cs # {} <=> t.status = "crashed"
      BY <2>1, <3>3 DEF ThreadSound
    <3> QED
      BY <2>3, <3>3, <3>4, <3>5, <3>6, <3>7
  <2> HIDE DEF w, Ds, Cs, P
  <2>6. Analysis(i).dispatches <= threads[i].ticks
    BY <2>2, <2>4
  <2>7. ASSUME gone = 0
        PROVE  /\ Analysis(i).dispatches = threads[i].ticks
               /\ Analysis(i).crashed = (threads[i].status = "crashed")
               /\ Analysis(i).last = threads[i].pc - (IF threads[i].status = "running" THEN 1 ELSE 0)
    <3> HIDE DEF t
    <3>1. Analysis(i).dispatches = t.ticks /\ Analysis(i).crashed = (t.status = "crashed")
      BY <2>2, <2>5, <2>7
    <3>2. Analysis(i).last = t.pc - (IF t.status = "running" THEN 1 ELSE 0)
      BY <2>2, <2>5, <2>7
    <3> QED
      BY <3>1, <3>2 DEF t
  <2> QED
    BY <2>6, <2>7
<1>6. \A k \in DOMAIN es : es[k] = Event(gone + k - 1, history[gone + k])
  BY <1>2, <1>3
<1> QED
  BY <1>2, <1>3, <1>5, <1>6 DEF ReplayIsSuffix, es, gone, d

-----------------------------------------------------------------------------
(* The audio queue.                                                        *)

\* The queue: the types, and counters that agree with what was played.
Counters == [submitted : Nat, consumed : Nat, underflows : Nat]
AudioTyped == samples \in Seq(Nat) /\ accepted \in Seq(Nat) /\ played \in Seq(Nat \X Nat) /\ counts \in Counters

\* Values of the variables and not the variables, so that both states can be named.
InOrder(queue, all, out) ==
    /\ Len(all) = 2 * Len(out) + Len(queue) /\ Len(queue) % 2 = 0
    /\ \A k \in 1 .. Len(out) : out[k] = <<all[2 * k - 1], all[2 * k]>>
    /\ \A k \in 1 .. Len(queue) : queue[k] = all[2 * Len(out) + k]
Counted(queue, out, n) ==
    Len(queue) \div 2 <= MaxQueuedFrames /\ n.submitted = n.consumed + Len(queue) \div 2 /\ n.consumed = Len(out)
AudioInv == AudioTyped /\ InOrder(samples, accepted, played) /\ Counted(samples, played, counts)

\* The elements of a sequence over a set are in the set.
LEMMA Elements ==
    ASSUME NEW S, NEW s \in Seq(S)
    PROVE  \A k \in 1 .. Len(s) : s[k] \in S
  OBVIOUS

\* append_buffer: the new samples come after all the others, or none do.
LEMMA EnqueueStep ==
    ASSUME AudioInv, NEW n \in Nat, n % 2 = 0, NEW r, Enqueue(n, r)
    PROVE  AudioInv'
<1> DEFINE l == Len(samples)
           m == Len(accepted)
           p == Len(played)
           new == [i \in 1 .. n |-> m + i]
<1>1. /\ samples \in Seq(Nat) /\ accepted \in Seq(Nat) /\ played \in Seq(Nat \X Nat) /\ counts \in Counters
      /\ l \in Nat /\ m \in Nat /\ p \in Nat /\ InOrder(samples, accepted, played) /\ Counted(samples, played, counts)
  BY LenProperties DEF AudioInv, AudioTyped
<1>2. new \in Seq(Nat) /\ Len(new) = n
  BY <1>1
<1>3. CASE QueuedFrames + n \div 2 <= MaxQueuedFrames
  <2>1. /\ samples' = samples \o new /\ accepted' = accepted \o new /\ played' = played
        /\ counts' = [counts EXCEPT !.submitted = counts.submitted + n \div 2]
    BY <1>3 DEF Enqueue
  <2> HIDE DEF new
  <2>2. /\ samples' \in Seq(Nat) /\ Len(samples') = l + n
        /\ \A k \in 1 .. l + n : samples'[k] = IF k <= l THEN samples[k] ELSE new[k - l]
    BY <1>1, <1>2, <2>1, ConcatProperties DEF l
  <2>3. /\ accepted' \in Seq(Nat) /\ Len(accepted') = m + n
        /\ \A k \in 1 .. m + n : accepted'[k] = IF k <= m THEN accepted[k] ELSE new[k - m]
    BY <1>1, <1>2, <2>1, ConcatProperties DEF m
  <2>4. m = 2 * p + l /\ l % 2 = 0
    BY <1>1 DEF InOrder
  <2>5. ASSUME NEW k \in 1 .. p PROVE played'[k] = <<accepted'[2 * k - 1], accepted'[2 * k]>>
    <3>1. 2 * k - 1 \in 1 .. m /\ 2 * k \in 1 .. m
      <4> HIDE DEF l, m, p
      <4> QED
        BY <1>1, <2>4
    <3>2. accepted'[2 * k - 1] = accepted[2 * k - 1] /\ accepted'[2 * k] = accepted[2 * k]
      <4> HIDE DEF l, m, p
      <4> QED
        BY <1>1, <2>3, <3>1
    <3> QED
      BY <1>1, <2>1, <3>2 DEF InOrder
  <2>6. ASSUME NEW k \in 1 .. l + n PROVE samples'[k] = accepted'[2 * p + k]
    <3>1. CASE k <= l
      <4>1. 2 * p + k \in 1 .. m /\ 2 * p + k <= m /\ k \in 1 .. l
        <5> HIDE DEF l, m, p
        <5> QED
          BY <1>1, <2>4, <3>1
      <4>2. samples[k] = accepted[2 * p + k]
        BY <1>1, <4>1 DEF InOrder
      <4>3. accepted'[2 * p + k] = accepted[2 * p + k]
        <5> HIDE DEF l, m, p
        <5> QED
          BY <1>1, <2>3, <4>1
      <4> QED
        BY <2>2, <3>1, <4>2, <4>3
    <3>2. CASE ~(k <= l)
      <4> HIDE DEF l, m, p
      <4>1. 2 * p + k \in 1 .. m + n /\ ~(2 * p + k <= m) /\ 2 * p + k - m = k - l
        BY <1>1, <2>4, <3>2
      <4>2. ASSUME NEW x \in Int, x = 2 * p + k PROVE accepted'[x] = new[k - l]
        <5>1. x \in 1 .. m + n /\ ~(x <= m) /\ x - m = k - l
          BY <1>1, <4>1, <4>2
        <5>2. accepted'[x] = new[x - m]
          BY <2>3, <5>1
        <5> QED
          BY <5>1, <5>2
      <4>3. samples'[k] = new[k - l]
        BY <2>2, <3>2
      <4>4. 2 * p + k \in Int
        BY <1>1
      <4> QED
        BY <4>2, <4>3, <4>4
    <3> QED
      BY <3>1, <3>2
  <2>7. InOrder(samples', accepted', played')
    <3>1. m + n = 2 * p + (l + n) /\ (l + n) % 2 = 0 /\ Len(played') = p
      <4>1. m + n = 2 * p + (l + n) /\ (l + n) % 2 = 0
        <5>1. l \in Nat /\ m \in Nat /\ p \in Nat /\ n \in Nat /\ n % 2 = 0 /\ l % 2 = 0 /\ m = 2 * p + l
          BY <1>1, <2>4
        <5> HIDE DEF l, m, p
        <5>2. m + n = 2 * p + (l + n)
          BY ONLY <5>1
        <5>3. (l + n) % 2 = 0
          BY ONLY <5>1
        <5> QED
          BY <5>2, <5>3
      <4> QED
        BY <4>1, <2>1
    <3> HIDE DEF l, m, p
    <3> QED
      BY <2>2, <2>3, <2>5, <2>6, <3>1 DEF InOrder
  <2>8. counts' \in Counters /\ counts'.submitted = counts.submitted + n \div 2 /\ counts'.consumed = counts.consumed
    <3>1. counts.submitted + n \div 2 \in Nat
      <4> DEFINE c == counts.submitted
      <4>1. c \in Nat
        BY <1>1 DEF Counters
      <4> HIDE DEF c
      <4>2. c + n \div 2 \in Nat
        BY <4>1
      <4> QED
        BY <4>2 DEF c
    <3> DEFINE c == counts.submitted + n \div 2
    <3> HIDE DEF c
    <3>2. counts' = [counts EXCEPT !.submitted = c] /\ c \in Nat
      BY <2>1, <3>1 DEF c
    <3> QED
      BY <1>1, <3>2 DEF Counters, c
  <2>9. Counted(samples', played', counts')
    <3> DEFINE s == counts.submitted
               c == counts.consumed
    <3>1. s \in Nat /\ c \in Nat /\ l \div 2 + n \div 2 <= MaxQueuedFrames /\ s = c + l \div 2 /\ c = p /\ l % 2 = 0
      BY <1>1, <1>3, <2>4 DEF Counters, Counted, QueuedFrames
    <3>2. Len(samples') = l + n /\ Len(played') = p /\ counts'.submitted = s + n \div 2 /\ counts'.consumed = c
      BY <2>1, <2>2, <2>8
    <3> HIDE DEF l, p, s, c
    <3>3. (l + n) \div 2 = l \div 2 + n \div 2
      BY <1>1, <3>1
    <3>4. (l + n) \div 2 <= MaxQueuedFrames /\ s + n \div 2 = c + (l + n) \div 2
      BY <1>1, <3>1, <3>3, AudioAssumption
    <3> QED
      BY <3>1, <3>2, <3>4 DEF Counted
  <2> QED
    BY <1>1, <2>1, <2>2, <2>3, <2>7, <2>8, <2>9 DEF AudioInv, AudioTyped
<1>4. CASE ~(QueuedFrames + n \div 2 <= MaxQueuedFrames)
  <2>1. samples' = samples /\ accepted' = accepted /\ played' = played /\ counts' = counts
    BY <1>4 DEF Enqueue
  <2> QED
    BY <2>1 DEF AudioInv, AudioTyped, InOrder, Counted
<1> QED
  BY <1>3, <1>4

\* A consumer takes frames off the front and fills up with silence.
LEMMA ConsumeStep ==
    ASSUME AudioInv, NEW frames \in Nat, Consume(frames)
    PROVE  AudioInv'
<1> DEFINE l == Len(samples)
           m == Len(accepted)
           p == Len(played)
           n == SmallerOf(frames, l \div 2)
           out == Frames(SubSeq(samples, 1, 2 * n))
<1>1. /\ samples \in Seq(Nat) /\ accepted \in Seq(Nat) /\ played \in Seq(Nat \X Nat) /\ counts \in Counters
      /\ l \in Nat /\ m \in Nat /\ p \in Nat /\ InOrder(samples, accepted, played) /\ Counted(samples, played, counts)
      /\ DOMAIN samples = 1 .. l /\ m = 2 * p + l /\ l % 2 = 0
  BY LenProperties DEF AudioInv, AudioTyped, InOrder
<1>2. n \in Nat /\ n <= l \div 2 /\ n <= frames
  <2> HIDE DEF l
  <2> QED
    BY <1>1 DEF SmallerOf
<1>3. 2 * n <= l /\ 2 * n \in Nat /\ l - 2 * n \in Nat /\ (l - 2 * n) % 2 = 0 /\ (2 * n) \div 2 = n /\ (l - 2 * n) \div 2 = l \div 2 - n
  <2> HIDE DEF l, n
  <2> QED
    BY <1>1, <1>2
<1>4. /\ samples' = SubSeq(samples, 2 * n + 1, l) /\ accepted' = accepted /\ played' = played \o out
      /\ counts' = [counts EXCEPT !.consumed = counts.consumed + n, !.underflows = counts.underflows + (frames - n)]
  BY DEF Consume, Take, QueuedFrames
<1> HIDE DEF n
<1>5. /\ samples' \in Seq(Nat) /\ Len(samples') = l - 2 * n /\ \A k \in 1 .. l - 2 * n : samples'[k] = samples[2 * n + k]
  <2> DEFINE a == 2 * n + 1
  <2>1. a \in Int /\ l \in Int /\ \A k \in a .. l : samples[k] \in Nat
    <3>1. \A k \in 1 .. l : samples[k] \in Nat
      BY <1>1, Elements
    <3> HIDE DEF l
    <3>2. \A k \in a .. l : k \in 1 .. l
      BY <1>1, <1>2
    <3> QED
      BY <1>1, <1>2, <3>1, <3>2
  <2>2. /\ (IF a <= l THEN l - a + 1 ELSE 0) = l - 2 * n /\ l - a + 1 = l - 2 * n
        /\ \A k \in 1 .. l - 2 * n : a + k - 1 = 2 * n + k
    <3> HIDE DEF l
    <3> QED
      BY <1>1, <1>2, <1>3
  <2> HIDE DEF a
  <2>3. /\ SubSeq(samples, a, l) \in Seq(Nat) /\ Len(SubSeq(samples, a, l)) = (IF a <= l THEN l - a + 1 ELSE 0)
        /\ \A k \in 1 .. l - a + 1 : SubSeq(samples, a, l)[k] = samples[a + k - 1]
    <3> HIDE DEF l
    <3> QED
      BY <2>1, SubSeqProperties
  <2> QED
    BY <1>4, <2>2, <2>3 DEF a
<1>6. out \in Seq(Nat \X Nat) /\ Len(out) = n /\ \A k \in 1 .. n : out[k] = <<samples[2 * k - 1], samples[2 * k]>>
  <2> DEFINE s == SubSeq(samples, 1, 2 * n)
  <2>1. /\ s \in Seq(Nat) /\ Len(s) = 2 * n /\ \A k \in 1 .. 2 * n : s[k] = samples[k]
    <3>1. 2 * n \in Int /\ \A k \in 1 .. 2 * n : samples[k] \in Nat
      <4>1. \A k \in 1 .. l : samples[k] \in Nat
        BY <1>1, Elements
      <4> HIDE DEF l
      <4>2. \A k \in 1 .. 2 * n : k \in 1 .. l
        BY <1>1, <1>2, <1>3
      <4> QED
        BY <1>3, <4>1, <4>2
    <3>2. /\ SubSeq(samples, 1, 2 * n) \in Seq(Nat) /\ Len(SubSeq(samples, 1, 2 * n)) = (IF 1 <= 2 * n THEN 2 * n - 1 + 1 ELSE 0)
          /\ \A k \in 1 .. 2 * n - 1 + 1 : SubSeq(samples, 1, 2 * n)[k] = samples[1 + k - 1]
      BY <3>1, SubSeqProperties
    <3>3. (IF 1 <= 2 * n THEN 2 * n - 1 + 1 ELSE 0) = 2 * n /\ 2 * n - 1 + 1 = 2 * n /\ \A k \in 1 .. 2 * n : 1 + k - 1 = k
      BY <1>2
    <3> QED
      BY <3>2, <3>3
  <2> HIDE DEF s
  <2>2. out = [i \in 1 .. n |-> <<s[2 * i - 1], s[2 * i]>>]
    BY <1>3, <2>1 DEF Frames, s
  <2>3. \A k \in 1 .. n : 2 * k - 1 \in 1 .. 2 * n /\ 2 * k \in 1 .. 2 * n
    BY <1>2
  <2>4. \A k \in 1 .. n : s[2 * k - 1] = samples[2 * k - 1] /\ s[2 * k] = samples[2 * k] /\ s[2 * k - 1] \in Nat /\ s[2 * k] \in Nat
    BY <2>1, <2>3
  <2> HIDE DEF out
  <2> QED
    BY <1>2, <2>2, <2>4
<1> HIDE DEF out
<1>7. /\ played' \in Seq(Nat \X Nat) /\ Len(played') = p + n
      /\ \A k \in 1 .. p + n : played'[k] = IF k <= p THEN played[k] ELSE out[k - p]
  <2> DEFINE S == Nat \X Nat
  <2>1. played \in Seq(S) /\ out \in Seq(S)
    BY <1>1, <1>6
  <2> HIDE DEF S
  <2>2. /\ played \o out \in Seq(S) /\ Len(played \o out) = p + n
        /\ \A k \in 1 .. p + n : (played \o out)[k] = IF k <= p THEN played[k] ELSE out[k - p]
    BY <1>6, <2>1, ConcatProperties
  <2> QED
    BY <1>4, <2>2 DEF S
<1>8. ASSUME NEW k \in 1 .. p + n PROVE played'[k] = <<accepted[2 * k - 1], accepted[2 * k]>>
  <2>1. CASE k <= p
    <3>1. \A x \in 1 .. p : played[x] = <<accepted[2 * x - 1], accepted[2 * x]>>
      BY <1>1 DEF InOrder
    <3> HIDE DEF p
    <3>2. k \in 1 .. p /\ played'[k] = played[k]
      BY <1>1, <1>2, <1>7, <2>1
    <3> QED
      BY <3>1, <3>2
  <2>2. CASE ~(k <= p)
    <3> DEFINE j == k - p
    <3>1. j \in 1 .. n /\ 2 * j - 1 \in 1 .. l /\ 2 * j \in 1 .. l /\ 2 * p + (2 * j - 1) = 2 * k - 1 /\ 2 * p + 2 * j = 2 * k
      <4> HIDE DEF p, l
      <4> QED
        BY <1>1, <1>2, <1>3, <2>2
    <3> HIDE DEF j
    <3>2. samples[2 * j - 1] = accepted[2 * k - 1] /\ samples[2 * j] = accepted[2 * k]
      <4>1. \A x \in 1 .. l : samples[x] = accepted[2 * p + x]
        BY <1>1 DEF InOrder
      <4> HIDE DEF p, l
      <4> QED
        BY <3>1, <4>1
    <3>3. played'[k] = out[j]
      BY <1>7, <2>2 DEF j
    <3> QED
      BY <1>6, <3>1, <3>2, <3>3
  <2> QED
    BY <2>1, <2>2
<1>9. ASSUME NEW k \in 1 .. l - 2 * n PROVE samples'[k] = accepted[2 * (p + n) + k]
  <2>1. 2 * n + k \in 1 .. l /\ 2 * p + (2 * n + k) = 2 * (p + n) + k
    <3> HIDE DEF p, l
    <3> QED
      BY <1>1, <1>2, <1>3
  <2>2. \A x \in 1 .. l : samples[x] = accepted[2 * p + x]
    BY <1>1 DEF InOrder
  <2> HIDE DEF p, l
  <2> QED
    BY <1>5, <2>1, <2>2
<1>10. InOrder(samples', accepted', played')
  <2>1. m = 2 * (p + n) + (l - 2 * n)
    <3> HIDE DEF p, l, m
    <3> QED
      BY <1>1, <1>2
  <2> HIDE DEF p, l
  <2> QED
    BY <1>3, <1>4, <1>5, <1>7, <1>8, <1>9, <2>1 DEF InOrder
<1>11. /\ counts' \in Counters /\ counts'.submitted = counts.submitted /\ counts'.consumed = counts.consumed + n
  <2>1. counts.consumed + n \in Nat /\ counts.underflows + (frames - n) \in Nat
    BY <1>1, <1>2 DEF Counters
  <2> QED
    BY <1>1, <1>4, <2>1 DEF Counters
<1>12. Counted(samples', played', counts')
  <2> DEFINE s == counts.submitted
             c == counts.consumed
             h == l \div 2
  <2>1. s \in Nat /\ c \in Nat /\ h <= MaxQueuedFrames /\ s = c + h /\ c = p /\ h \in Nat
    BY <1>1 DEF Counters, Counted
  <2>2. Len(samples') \div 2 = h - n /\ Len(played') = p + n /\ counts'.submitted = s /\ counts'.consumed = c + n
    BY <1>3, <1>5, <1>7, <1>11
  <2> HIDE DEF p, s, c, h
  <2>3. h - n <= MaxQueuedFrames /\ s = (c + n) + (h - n) /\ c + n = p + n
    BY <1>1, <1>2, <2>1, AudioAssumption
  <2> QED
    BY <2>2, <2>3 DEF Counted
<1> QED
  BY <1>1, <1>4, <1>5, <1>7, <1>10, <1>11, <1>12 DEF AudioInv, AudioTyped

\* Nothing accepted, nothing played.
LEMMA AudioInitInv == AudioInit => AudioInv
<1> SUFFICES ASSUME AudioInit PROVE AudioInv
  OBVIOUS
<1>1. <<>> \in Seq(Nat) /\ <<>> \in Seq(Nat \X Nat) /\ Len(<<>>) = 0 /\ 0 \div 2 = 0 /\ 0 % 2 = 0
  OBVIOUS
<1> QED
  BY <1>1, AudioAssumption DEF AudioInit, AudioInv, AudioTyped, InOrder, Counted, Counters

\* The invariant is about the queue and what was played, and no more.
LEMMA AudioStays == AudioInv /\ UNCHANGED <<samples, accepted, played, counts>> => AudioInv'
  BY DEF AudioInv, AudioTyped, InOrder, Counted

\* The virtual clock consumes.
LEMMA ClockStep ==
    ASSUME AudioInv, NEW frames \in Nat, AdvanceClock(frames)
    PROVE  AudioInv'
<1>1. CASE Consume(frames)
  BY <1>1, ConsumeStep
<1>2. CASE UNCHANGED audioVars
  BY <1>2, AudioStays DEF audioVars
<1> QED
  BY <1>1, <1>2 DEF AdvanceClock

\* The host's side: the device's thread, and the mute switch.
LEMMA OutputStep ==
    ASSUME AudioInv, NEW values \in Nat, FillOutput(values)
    PROVE  AudioInv'
<1>1. Consume((values + Channels - 1) \div Channels)
  BY DEF FillOutput
<1>2. (values + Channels - 1) \div Channels \in Nat
  BY AudioAssumption
<1> QED
  BY <1>1, <1>2, ConsumeStep
\* Muting does not touch the queue.
LEMMA MutedStep ==
    ASSUME AudioInv, NEW m, SetMuted(m)
    PROVE  AudioInv'
  BY AudioStays DEF SetMuted

\* What was played and what is queued, together, is what was accepted.
LEMMA InOrderFollows == AudioInv => AudioInOrder
  BY LenProperties DEF AudioInv, AudioTyped, InOrder, Counted, AudioInOrder, QueuedFrames

-----------------------------------------------------------------------------
(* The wire format.                                                        *)

\* s agrees with the first n words of w, the header's three spare words aside.
Agree(s, w, n, spare) ==
    s \in Seq(Nat) /\ n \in Nat /\ Len(s) = n /\ \A i \in 1 .. n : i \in spare \/ s[i] = w[i]

\* A list of k words that stands in w after the first n.
Stands(t, w, n, k) == t \in Seq(Nat) /\ k \in Nat /\ Len(t) = k /\ \A i \in 1 .. k : t[i] = w[n + i]


\* Agreement goes on with a list that stands where the agreement ended.
LEMMA Agrees ==
    ASSUME NEW w, NEW n, NEW k, NEW spare, NEW s, NEW t, Agree(s, w, n, spare), Stands(t, w, n, k)
    PROVE  Agree(s \o t, w, n + k, spare)
<1>1. /\ s \in Seq(Nat) /\ t \in Seq(Nat) /\ Len(s) = n /\ Len(t) = k /\ n \in Nat /\ k \in Nat
      /\ \A i \in 1 .. n : i \in spare \/ s[i] = w[i]
      /\ \A i \in 1 .. k : t[i] = w[n + i]
  BY DEF Agree, Stands
<1>2. /\ s \o t \in Seq(Nat) /\ Len(s \o t) = n + k
      /\ \A i \in 1 .. n + k : (s \o t)[i] = IF i <= n THEN s[i] ELSE t[i - n]
  BY <1>1, ConcatProperties
<1>3. ASSUME NEW i \in 1 .. n + k PROVE i \in spare \/ (s \o t)[i] = w[i]
  <2>1. CASE i <= n
    BY <1>1, <1>2, <2>1
  <2>2. CASE ~(i <= n)
    <3>1. i - n \in 1 .. k /\ n + (i - n) = i
      BY <1>1, <2>2
    <3>2. (s \o t)[i] = t[i - n] /\ t[i - n] = w[n + (i - n)]
      BY <1>1, <1>2, <2>2, <3>1
    <3> QED
      BY <3>1, <3>2
  <2> QED
    BY <2>1, <2>2
<1> QED
  BY <1>1, <1>2, <1>3 DEF Agree

\* read_words: a slice stands where it was read.
LEMMA SliceStands ==
    ASSUME NEW w \in Seq(Nat), NEW from \in Nat, NEW long \in Nat, from + long <= Len(w)
    PROVE  Stands(Slice(w, from, long), w, from, long)
<1> DEFINE m == from + 1
           n == from + long
<1>1. m \in Int /\ n \in Int /\ (IF m <= n THEN n - m + 1 ELSE 0) = long /\ n - m + 1 = long
      /\ \A i \in 1 .. long : m + i - 1 = from + i
  OBVIOUS
<1>2. \A i \in m .. n : w[i] \in Nat
  <2>1. \A i \in m .. n : i \in 1 .. Len(w)
    BY LenProperties
  <2> QED
    BY <2>1
<1> HIDE DEF m, n
<1>3. /\ SubSeq(w, m, n) \in Seq(Nat) /\ Len(SubSeq(w, m, n)) = (IF m <= n THEN n - m + 1 ELSE 0)
      /\ \A i \in 1 .. n - m + 1 : SubSeq(w, m, n)[i] = w[m + i - 1]
  BY <1>1, <1>2, SubSeqProperties
<1>4. Slice(w, from, long) = SubSeq(w, m, n)
  BY DEF Slice, m, n
<1> QED
  BY <1>1, <1>3, <1>4 DEF Stands

\* Two sequences that stand in the same place are one.
LEMMA StandsOnce ==
    ASSUME NEW w, NEW v, NEW n \in Nat, NEW k, NEW s, NEW t, Stands(s, w, n, k), Stands(t, v, n, k),
           \A i \in n + 1 .. n + k : v[i] = w[i]
    PROVE  s = t
<1>1. /\ s \in Seq(Nat) /\ t \in Seq(Nat) /\ Len(s) = k /\ Len(t) = k /\ k \in Nat
      /\ \A i \in 1 .. k : s[i] = w[n + i] /\ t[i] = v[n + i]
  BY DEF Stands
<1>2. \A i \in 1 .. k : s[i] = t[i]
  <2>1. \A i \in 1 .. k : n + i \in n + 1 .. n + k
    BY <1>1
  <2> QED
    BY <1>1, <2>1
<1> QED
  BY <1>1, <1>2, SeqEqual

\* What the header of an accepted command says.
LEMMA Header ==
    ASSUME NEW w \in Seq(Nat), WellFormed(w)
    PROVE  /\ Len(w) \in Nat /\ Len(w) >= 13 /\ \A i \in 1 .. 13 : i \in 1 .. Len(w) /\ w[i] \in Nat
           /\ w[6] \in Nat /\ w[7] \in Nat /\ w[8] \in Nat
           /\ w[9] \in Nat /\ w[10] \in Nat /\ w[11] \in Nat /\ w[12] \in Nat /\ w[13] \in Nat
           /\ Begin(w).payload = 13 /\ Begin(w).descriptors = 13 + w[9] /\ Begin(w).copies = 13 + w[9] + 4 * w[10]
           /\ Begin(w).moves = 13 + w[9] + 4 * w[10] + w[11] /\ Begin(w).objects = 13 + w[9] + 4 * w[10] + w[11] + w[12]
           /\ Begin(w).end = 13 + w[9] + 4 * w[10] + w[11] + w[12] + w[13] /\ Begin(w).end = Len(w)
<1>1. Len(w) \in Nat /\ Len(w) >= 13 /\ Begin(w).end = Len(w)
  BY LenProperties DEF WellFormed, HeaderWords
<1>2. \A i \in 1 .. 13 : i \in 1 .. Len(w) /\ w[i] \in Nat
  <2>1. \A i \in 1 .. 13 : i \in 1 .. Len(w)
    BY <1>1
  <2> QED
    BY <2>1, Elements
<1>3. /\ w[6] \in Nat /\ w[7] \in Nat /\ w[8] \in Nat
      /\ w[9] \in Nat /\ w[10] \in Nat /\ w[11] \in Nat /\ w[12] \in Nat /\ w[13] \in Nat
  BY <1>2
<1> QED
  BY <1>1, <1>2, <1>3 DEF Begin, HeaderWords

\* BufferKind: the four raw values and their kinds are one to one.
LEMMA KindsCoded == \A raw \in 0 .. 3 : KindOf[raw] \in Kind /\ RawOf(KindOf[raw]) = raw
<1>1. KindOf[0] = "static" /\ KindOf[1] = "send" /\ KindOf[2] = "receive" /\ KindOf[3] = "exchange"
  BY DEF KindOf
<1> SUFFICES ASSUME NEW raw \in 0 .. 3 PROVE KindOf[raw] \in Kind /\ RawOf(KindOf[raw]) = raw
  OBVIOUS
<1>2. raw = 0 \/ raw = 1 \/ raw = 2 \/ raw = 3
  OBVIOUS
<1>3. KindOf[raw] \in Kind
  BY <1>1, <1>2 DEF Kind
<1>4. ASSUME NEW other \in 0 .. 3, KindOf[other] = KindOf[raw] PROVE other = raw
  <2>1. other = 0 \/ other = 1 \/ other = 2 \/ other = 3
    OBVIOUS
  <2> QED
    BY <1>1, <1>2, <1>4, <2>1
<1>5. RawOf(KindOf[raw]) \in 0 .. 3 /\ KindOf[RawOf(KindOf[raw])] = KindOf[raw]
  BY DEF RawOf
<1> QED
  BY <1>3, <1>4, <1>5

\* The words of the descriptors are the words they were read from.
DescriptorsOf(w, at, n) ==
    [d \in 1 .. n |-> LET s == Slice(w, at + 4 * (d - 1), 4)
                      IN  [kind |-> KindOf[s[1]], index |-> s[2], address |-> s[3], size |-> s[4]]]
\* A descriptor that was read is written back as the four words it came from.
LEMMA DescriptorIs ==
    ASSUME NEW w \in Seq(Nat), NEW at \in Nat, NEW n \in Nat, at + 4 * n <= Len(w),
           \A d \in 0 .. n - 1 : w[at + 4 * d + 1] \in 0 .. 3, NEW d \in 1 .. n
    PROVE  LET x == DescriptorsOf(w, at, n)[d] IN
           /\ x = [kind |-> KindOf[w[at + 4 * (d - 1) + 1]], index |-> w[at + 4 * (d - 1) + 2],
                   address |-> w[at + 4 * (d - 1) + 3], size |-> w[at + 4 * (d - 1) + 4]]
           /\ x.kind \in Kind /\ x.size \in Nat
           /\ \A j \in 1 .. 4 : DescriptorWords(x)[j] = w[at + 4 * (d - 1) + j] /\ w[at + 4 * (d - 1) + j] \in Nat
<1> DEFINE from == at + 4 * (d - 1)
           s == Slice(w, from, 4)
           x == DescriptorsOf(w, at, n)[d]
<1>1. from \in Nat /\ from + 4 <= Len(w) /\ d - 1 \in 0 .. n - 1
  BY LenProperties
<1>2. w[from + 1] \in 0 .. 3
  BY <1>1
<1>3. x = [kind |-> KindOf[s[1]], index |-> s[2], address |-> s[3], size |-> s[4]]
  BY DEF DescriptorsOf
<1> HIDE DEF from
<1>4. \A j \in 1 .. 4 : s[j] = w[from + j] /\ w[from + j] \in Nat
  <2>1. \A j \in 1 .. 4 : from + j \in 1 .. Len(w)
    BY <1>1, LenProperties
  <2>2. \A j \in 1 .. 4 : s[j] = w[from + j]
    BY <1>1, SliceStands DEF Stands
  <2> HIDE DEF s
  <2> QED
    BY <2>1, <2>2, Elements
<1> HIDE DEF s, x
<1>5. s[1] = w[from + 1] /\ s[2] = w[from + 2] /\ s[3] = w[from + 3] /\ s[4] = w[from + 4] /\ s[4] \in Nat
  BY <1>4
<1>6. RawOf(x.kind) = w[from + 1] /\ x.kind \in Kind
  BY <1>2, <1>3, <1>5, KindsCoded
<1>7. DescriptorWords(x) = <<w[from + 1], w[from + 2], w[from + 3], w[from + 4]>>
  BY <1>3, <1>5, <1>6 DEF DescriptorWords
<1>8. ASSUME NEW j \in 1 .. 4 PROVE DescriptorWords(x)[j] = w[from + j]
  <2>1. j = 1 \/ j = 2 \/ j = 3 \/ j = 4
    OBVIOUS
  <2> QED
    BY <1>7, <2>1
<1>9. /\ x = [kind |-> KindOf[w[from + 1]], index |-> w[from + 2], address |-> w[from + 3], size |-> w[from + 4]]
      /\ x.kind \in Kind /\ x.size \in Nat
  BY <1>3, <1>5, <1>6
<1> QED
  BY <1>4, <1>8, <1>9 DEF from, x

\* So is a list of them.
LEMMA DescriptorsStand ==
    ASSUME NEW w \in Seq(Nat), NEW at \in Nat, NEW n \in Nat, at + 4 * n <= Len(w),
           \A d \in 0 .. n - 1 : w[at + 4 * d + 1] \in 0 .. 3, NEW ds, ds = DescriptorsOf(w, at, n)
    PROVE  /\ Len(ds) = n
           /\ Stands(WordsOf(ds), w, at, 4 * n)
<1> DEFINE t == [k \in 1 .. 4 * n |-> DescriptorWords(ds[((k - 1) \div 4) + 1])[((k - 1) % 4) + 1]]
<1>1. Len(ds) = n
  BY DEF DescriptorsOf
<1>2. ASSUME NEW k \in 1 .. 4 * n PROVE t[k] = w[at + k] /\ w[at + k] \in Nat
  <2> DEFINE d == ((k - 1) \div 4) + 1
             j == ((k - 1) % 4) + 1
  <2>1. d \in 1 .. n /\ j \in 1 .. 4 /\ at + 4 * (d - 1) + j = at + k
    OBVIOUS
  <2>2. t[k] = DescriptorWords(ds[d])[j]
    OBVIOUS
  <2> HIDE DEF d, j, t
  <2>3. \A y \in 1 .. 4 : DescriptorWords(ds[d])[y] = w[at + 4 * (d - 1) + y] /\ w[at + 4 * (d - 1) + y] \in Nat
    BY <2>1, DescriptorIs
  <2> QED
    BY <2>1, <2>2, <2>3
<1>3. t \in Seq(Nat) /\ Len(t) = 4 * n
  BY <1>2
<1> HIDE DEF t
<1>4. Stands(t, w, at, 4 * n)
  <2>1. 4 * n \in Nat
    OBVIOUS
  <2>2. \A k \in 1 .. 4 * n : t[k] = w[at + k]
    BY <1>2
  <2> QED
    BY ONLY <1>3, <2>1, <2>2 DEF Stands
<1> QED
  BY <1>1, <1>4 DEF t, WordsOf

\* A command that agrees with an accepted one but for the spare words.
Spare == {6, 7, 8}
\* Words that agree but for the spare words have the same slices after the header,
LEMMA SliceSame ==
    ASSUME NEW w \in Seq(Nat), NEW v, Agree(v, w, Len(w), Spare),
           NEW from \in Nat, NEW long \in Nat, from >= 8, from + long <= Len(w)
    PROVE  Slice(v, from, long) = Slice(w, from, long)
<1>1. v \in Seq(Nat) /\ Len(v) = Len(w) /\ Len(w) \in Nat /\ \A i \in 1 .. Len(w) : i \in Spare \/ v[i] = w[i]
  BY DEF Agree
<1>2. Stands(Slice(w, from, long), w, from, long) /\ Stands(Slice(v, from, long), v, from, long)
  BY <1>1, SliceStands
<1>3. ASSUME NEW i \in from + 1 .. from + long PROVE v[i] = w[i]
  <2>1. i \in 1 .. Len(w) /\ i > 8
    BY <1>1
  <2> QED
    BY <1>1, <2>1 DEF Spare
<1> QED
  BY <1>2, <1>3, StandsOnce

\* and the same sections,
LEMMA AlikeFormed ==
    ASSUME NEW w \in Seq(Nat), NEW v, WellFormed(w), Agree(v, w, Len(w), Spare), Narrow(v[6])
    PROVE  /\ v \in Seq(Nat) /\ WellFormed(v) /\ Begin(v) = Begin(w) /\ Len(v) = Len(w)
           /\ \A i \in 1 .. 13 : i \in Spare \/ v[i] = w[i]
<1> DEFINE l == Len(w)
<1>1. v \in Seq(Nat) /\ Len(v) = l /\ l \in Nat /\ l >= 13 /\ \A i \in 1 .. l : i \in Spare \/ v[i] = w[i]
  BY Header DEF Agree
<1>2. ASSUME NEW i \in 1 .. 13 PROVE i \in Spare \/ v[i] = w[i]
  <2>1. i \in 1 .. l
    BY ONLY <1>1
  <2> QED
    BY <1>1, <2>1
<1>3. v[1] = w[1] /\ v[9] = w[9] /\ v[10] = w[10] /\ v[11] = w[11] /\ v[12] = w[12] /\ v[13] = w[13]
  BY <1>2 DEF Spare
<1>4. Begin(v) = Begin(w)
  BY <1>3 DEF Begin
<1>5. ASSUME NEW i \in 9 .. l PROVE v[i] = w[i]
  <2>1. i \in 1 .. l /\ i \notin Spare
    BY ONLY <1>1 DEF Spare
  <2> QED
    BY <1>1, <2>1
<1>6. /\ w[1] = Magic /\ \A i \in 9 .. 13 : Narrow(w[i])
      /\ Begin(w).end = l /\ \A i \in 2 .. 6 : Narrow(w[i])
      /\ \A i \in Begin(w).copies + 1 .. l : Narrow(w[i])
      /\ \A d \in 0 .. w[10] - 1 : /\ w[Begin(w).descriptors + 4 * d + 1] \in 0 .. 3
                                   /\ Narrow(w[Begin(w).descriptors + 4 * d + 2])
  BY DEF WellFormed
<1> DEFINE at == Begin(w).descriptors
           copies == Begin(w).copies
           n == w[10]
<1>7. at \in Nat /\ at >= 13 /\ copies \in Nat /\ copies >= 13 /\ n \in Nat /\ at + 4 * n <= l
  <2> DEFINE a == w[9]
             b == w[11]
             c == w[12]
             e == w[13]
  <2>1. a \in Nat /\ b \in Nat /\ c \in Nat /\ e \in Nat /\ n \in Nat
    BY Header
  <2>2. at = 13 + a /\ copies = 13 + a + 4 * n /\ l = 13 + a + 4 * n + b + c + e
    BY Header
  <2> HIDE DEF a, b, c, e, n, at, copies, l
  <2> QED
    BY ONLY <2>1, <2>2
<1>8. \A i \in 2 .. 6 : Narrow(v[i])
  <2>1. ASSUME NEW i \in 2 .. 6 PROVE i = 6 \/ v[i] = w[i]
    <3>1. i \in 1 .. 13 /\ (i \in Spare => i = 6)
      BY DEF Spare
    <3> QED
      BY <1>2, <3>1
  <2> QED
    BY <1>6, <2>1
<1> HIDE DEF l, at, copies, n
<1>9. \A i \in copies + 1 .. l : Narrow(v[i])
  <2>1. \A i \in copies + 1 .. l : i \in 9 .. l
    BY <1>1, <1>7
  <2> QED
    BY <1>5, <1>6, <2>1 DEF copies
<1>10. ASSUME NEW d \in 0 .. n - 1 PROVE v[at + 4 * d + 1] \in 0 .. 3 /\ Narrow(v[at + 4 * d + 2])
  <2>1. at + 4 * d + 1 \in 9 .. l /\ at + 4 * d + 2 \in 9 .. l
    <3>1. l \in Nat
      BY <1>1
    <3> QED
      BY ONLY <3>1, <1>7, d \in 0 .. n - 1
  <2>2. w[at + 4 * d + 1] \in 0 .. 3 /\ Narrow(w[at + 4 * d + 2])
    BY <1>6 DEF at, n
  <2> QED
    BY <1>5, <2>1, <2>2
<1>11. ASSUME NEW i \in 9 .. 13 PROVE Narrow(v[i])
  <2>1. i \in 1 .. 13 /\ i \notin Spare
    BY DEF Spare
  <2>2. v[i] = w[i]
    BY <1>2, <2>1
  <2> QED
    BY <1>6, <2>2
<1>12. WellFormed(v)
  BY <1>1, <1>3, <1>4, <1>6, <1>8, <1>9, <1>10, <1>11 DEF WellFormed, HeaderWords, l, at, copies, n
<1> QED
  BY <1>1, <1>2, <1>4, <1>12 DEF l

\* The parts of what an accepted command is read as.
LEMMA Parts ==
    ASSUME NEW w \in Seq(Nat), WellFormed(w)
    PROVE  LET b == Begin(w)
               c == FromWords(w) IN
           /\ Stands(c.payload, w, 13, w[9]) /\ Stands(c.copies, w, b.copies, w[11])
           /\ Stands(c.moves, w, b.moves, w[12]) /\ Stands(c.objects, w, b.objects, w[13])
           /\ c.descriptors = DescriptorsOf(w, b.descriptors, w[10])
           /\ b.descriptors + 4 * w[10] <= Len(w) /\ b.descriptors \in Nat
           /\ \A d \in 0 .. w[10] - 1 : w[b.descriptors + 4 * d + 1] \in 0 .. 3
<1> DEFINE p == w[9]
           n == w[10]
           x == w[11]
           m == w[12]
           o == w[13]
           l == Len(w)
           b == Begin(w)
<1>1. /\ p \in Nat /\ n \in Nat /\ x \in Nat /\ m \in Nat /\ o \in Nat /\ l \in Nat
      /\ b.payload = 13 /\ b.descriptors = 13 + p /\ b.copies = 13 + p + 4 * n /\ b.moves = 13 + p + 4 * n + x
      /\ b.objects = 13 + p + 4 * n + x + m /\ l = 13 + p + 4 * n + x + m + o
  BY Header
<1>2. /\ FromWords(w).payload = Slice(w, b.payload, p) /\ FromWords(w).copies = Slice(w, b.copies, x)
      /\ FromWords(w).moves = Slice(w, b.moves, m) /\ FromWords(w).objects = Slice(w, b.objects, o)
      /\ FromWords(w).descriptors = DescriptorsOf(w, b.descriptors, n)
  BY DEF FromWords, DescriptorsOf
<1>3. \A d \in 0 .. n - 1 : w[b.descriptors + 4 * d + 1] \in 0 .. 3
  BY DEF WellFormed
<1> HIDE DEF p, n, x, m, o, b
<1>4. /\ b.payload \in Nat /\ b.descriptors \in Nat /\ b.copies \in Nat /\ b.moves \in Nat /\ b.objects \in Nat
      /\ b.payload + p <= l /\ b.copies + x <= l /\ b.moves + m <= l /\ b.objects + o <= l /\ b.descriptors + 4 * n <= l
  <2> HIDE DEF l
  <2> QED
    BY <1>1
<1>5. /\ Stands(Slice(w, b.payload, p), w, b.payload, p) /\ Stands(Slice(w, b.copies, x), w, b.copies, x)
      /\ Stands(Slice(w, b.moves, m), w, b.moves, m) /\ Stands(Slice(w, b.objects, o), w, b.objects, o)
  BY <1>1, <1>4, SliceStands
<1> QED
  BY <1>1, <1>2, <1>3, <1>4, <1>5 DEF p, n, x, m, o, b

\* and are read as the same command when the flags agree on what is there.
LEMMA AlikeRead ==
    ASSUME NEW w \in Seq(Nat), NEW v, WellFormed(w), Agree(v, w, Len(w), Spare), Narrow(v[6]),
           Has(v[7], HasDomain) <=> Has(w[7], HasDomain), Has(w[7], HasDomain) => v[6] = w[6],
           Has(v[7], HasProcess) <=> Has(w[7], HasProcess), Has(w[7], HasProcess) => v[8] = w[8]
    PROVE  FromWords(v) = FromWords(w)
<1> DEFINE b == Begin(w)
           l == Len(w)
<1>1. Begin(v) = b /\ \A i \in 1 .. 13 : i \in Spare \/ v[i] = w[i]
  BY AlikeFormed
<1>2. /\ v[2] = w[2] /\ v[3] = w[3] /\ v[4] = w[4] /\ v[5] = w[5]
      /\ v[9] = w[9] /\ v[10] = w[10] /\ v[11] = w[11] /\ v[12] = w[12] /\ v[13] = w[13]
  BY <1>1 DEF Spare
<1> DEFINE p == w[9]
           n == w[10]
           x == w[11]
           m == w[12]
           o == w[13]
<1>3. /\ p \in Nat /\ n \in Nat /\ x \in Nat /\ m \in Nat /\ o \in Nat /\ l \in Nat
      /\ b.payload = 13 /\ b.descriptors = 13 + p /\ b.copies = 13 + p + 4 * n /\ b.moves = 13 + p + 4 * n + x
      /\ b.objects = 13 + p + 4 * n + x + m /\ l = 13 + p + 4 * n + x + m + o
  BY Header
<1> HIDE DEF p, n, x, m, o, b, l
<1>4. /\ b.payload \in Nat /\ b.descriptors \in Nat /\ b.copies \in Nat /\ b.moves \in Nat /\ b.objects \in Nat
      /\ b.payload + p <= l /\ b.copies + x <= l /\ b.moves + m <= l /\ b.objects + o <= l /\ b.descriptors + 4 * n <= l
      /\ b.payload >= 8 /\ b.descriptors >= 8 /\ b.copies >= 8 /\ b.moves >= 8 /\ b.objects >= 8
  <2> DEFINE b1 == b.payload
             b2 == b.descriptors
             b3 == b.copies
             b4 == b.moves
             b5 == b.objects
  <2>1. /\ p \in Nat /\ n \in Nat /\ x \in Nat /\ m \in Nat /\ o \in Nat /\ l \in Nat
        /\ b1 = 13 /\ b2 = 13 + p /\ b3 = 13 + p + 4 * n /\ b4 = 13 + p + 4 * n + x
        /\ b5 = 13 + p + 4 * n + x + m /\ l = 13 + p + 4 * n + x + m + o
    BY <1>3
  <2> HIDE DEF b1, b2, b3, b4, b5
  <2>2. /\ b1 \in Nat /\ b2 \in Nat /\ b3 \in Nat /\ b4 \in Nat /\ b5 \in Nat
        /\ b1 + p <= l /\ b3 + x <= l /\ b4 + m <= l /\ b5 + o <= l /\ b2 + 4 * n <= l
        /\ b1 >= 8 /\ b2 >= 8 /\ b3 >= 8 /\ b4 >= 8 /\ b5 >= 8
    BY ONLY <2>1
  <2> QED
    BY <2>2 DEF b1, b2, b3, b4, b5
<1>5. \A from, long \in Nat : from >= 8 /\ from + long <= l => Slice(v, from, long) = Slice(w, from, long)
  BY SliceSame DEF l
<1>6. /\ Slice(v, b.payload, p) = Slice(w, b.payload, p) /\ Slice(v, b.copies, x) = Slice(w, b.copies, x)
      /\ Slice(v, b.moves, m) = Slice(w, b.moves, m) /\ Slice(v, b.objects, o) = Slice(w, b.objects, o)
  BY <1>3, <1>4, <1>5
<1>7. DescriptorsOf(v, b.descriptors, n) = DescriptorsOf(w, b.descriptors, n)
  <2>1. ASSUME NEW d \in 1 .. n
        PROVE  Slice(v, b.descriptors + 4 * (d - 1), 4) = Slice(w, b.descriptors + 4 * (d - 1), 4)
    <3>1. b.descriptors + 4 * (d - 1) \in Nat /\ b.descriptors + 4 * (d - 1) >= 8 /\ b.descriptors + 4 * (d - 1) + 4 <= l
      BY <1>3, <1>4
    <3> QED
      BY <1>5, <3>1
  <2> QED
    BY <2>1 DEF DescriptorsOf
<1>8. \A u : FromWords(u) =
          [type |-> u[2], id |-> u[3], service |-> u[4], session |-> u[5],
           domain |-> IF Has(u[7], HasDomain) THEN u[6] ELSE Absent,
           process |-> IF Has(u[7], HasProcess) THEN u[8] ELSE Absent,
           payload |-> Slice(u, Begin(u).payload, u[9]),
           descriptors |-> DescriptorsOf(u, Begin(u).descriptors, u[10]),
           copies |-> Slice(u, Begin(u).copies, u[11]), moves |-> Slice(u, Begin(u).moves, u[12]),
           objects |-> Slice(u, Begin(u).objects, u[13])]
  BY DEF FromWords, DescriptorsOf
<1> QED
  BY <1>1, <1>2, <1>6, <1>7, <1>8 DEF b, p, n, x, m, o

\* Every sequence of words that from_bytes accepts as a command is one that
\* to_bytes can write and from_bytes reads as the same command, and the words
\* are its own again but for the header's spare ones (GuestCommand).
THEOREM CommandsReadBack ==
    ASSUME NEW w \in Seq(Nat)
    PROVE  ReadsBack(w)
<1> SUFFICES ASSUME WellFormed(w)
             PROVE  LET c == FromWords(w)
                        again == ToWords(c)
                    IN  /\ WellFormed(again) /\ FromWords(again) = c
                        /\ Len(again) = Len(w)
                        /\ \A i \in DOMAIN w : i \in {6, 7, 8} \/ again[i] = w[i]
  BY DEF ReadsBack
<1> DEFINE c == FromWords(w)
           again == ToWords(c)
           b == Begin(w)
           domain == OrZero(c.domain)
           flags == FlagsOf(c)
           process == OrZero(c.process)
           dw == WordsOf(c.descriptors)
           head == <<Magic, c.type, c.id, c.service, c.session, domain, flags, process,
                     Len(c.payload), Len(c.descriptors), Len(c.copies), Len(c.moves), Len(c.objects)>>
<1>1. /\ c.type = w[2] /\ c.id = w[3] /\ c.service = w[4] /\ c.session = w[5]
      /\ c.domain = IF Has(w[7], HasDomain) THEN w[6] ELSE Absent
      /\ c.process = IF Has(w[7], HasProcess) THEN w[8] ELSE Absent
  BY DEF FromWords
<1>2. /\ w[9] \in Nat /\ w[10] \in Nat /\ w[11] \in Nat /\ w[12] \in Nat /\ w[13] \in Nat /\ \A i \in 1 .. 13 : w[i] \in Nat
      /\ b.descriptors = 13 + w[9] /\ b.copies = 13 + w[9] + 4 * w[10] /\ b.moves = 13 + w[9] + 4 * w[10] + w[11]
      /\ b.objects = 13 + w[9] + 4 * w[10] + w[11] + w[12] /\ Len(w) = 13 + w[9] + 4 * w[10] + w[11] + w[12] + w[13]
      /\ Len(w) \in Nat
  BY Header
<1>3. /\ Stands(c.payload, w, 13, w[9]) /\ Stands(c.copies, w, b.copies, w[11])
      /\ Stands(c.moves, w, b.moves, w[12]) /\ Stands(c.objects, w, b.objects, w[13])
  BY Parts
<1>4. Len(c.descriptors) = w[10] /\ Stands(dw, w, b.descriptors, 4 * w[10])
  <2>1. /\ c.descriptors = DescriptorsOf(w, b.descriptors, w[10]) /\ w[10] \in Nat
        /\ b.descriptors + 4 * w[10] <= Len(w) /\ b.descriptors \in Nat
        /\ \A d \in 0 .. w[10] - 1 : w[b.descriptors + 4 * d + 1] \in 0 .. 3
    BY Header, Parts
  <2> DEFINE ds == c.descriptors
             at == b.descriptors
             n == w[10]
  <2> HIDE DEF ds, at, n
  <2>2. /\ ds = DescriptorsOf(w, at, n) /\ n \in Nat /\ at + 4 * n <= Len(w) /\ at \in Nat
        /\ \A d \in 0 .. n - 1 : w[at + 4 * d + 1] \in 0 .. 3
    BY <2>1 DEF ds, at, n
  <2>3. Len(ds) = n /\ Stands(WordsOf(ds), w, at, 4 * n)
    BY <2>2, DescriptorsStand
  <2> QED
    BY <2>3 DEF ds, at, n
<1>5. /\ domain \in Nat /\ process \in Nat /\ flags \in Nat
      /\ Has(flags, HasDomain) <=> Has(w[7], HasDomain)
      /\ Has(w[7], HasDomain) => domain = w[6]
      /\ Has(flags, HasProcess) <=> Has(w[7], HasProcess)
      /\ Has(w[7], HasProcess) => process = w[8]
      /\ domain = w[6] \/ domain = 0
  <2>1. w[6] \in Nat /\ w[8] \in Nat /\ w[6] # Absent /\ w[8] # Absent
    <3>1. w[6] \in Nat /\ w[8] \in Nat
      BY Header
    <3> QED
      BY ONLY <3>1, CodecAssumption
  <2>2. /\ c.domain = Absent <=> ~Has(w[7], HasDomain)
        /\ c.process = Absent <=> ~Has(w[7], HasProcess)
    BY <1>1, <2>1
  <2>3. domain = (IF Has(w[7], HasDomain) THEN w[6] ELSE 0) /\ process = (IF Has(w[7], HasProcess) THEN w[8] ELSE 0)
    BY <1>1, <2>1 DEF OrZero
  <2>4. flags = (IF Has(w[7], HasDomain) THEN 1 ELSE 0) + (IF Has(w[7], HasProcess) THEN 2 ELSE 0)
    BY <2>2 DEF FlagsOf, HasDomain, HasProcess
  <2>5. flags \in Nat
    BY <2>4
  <2>6. flags = (IF Has(w[7], HasDomain) THEN 1 ELSE 0) + (IF Has(w[7], HasProcess) THEN 2 ELSE 0) =>
           /\ Has(flags, HasDomain) <=> Has(w[7], HasDomain)
           /\ Has(flags, HasProcess) <=> Has(w[7], HasProcess)
    <3> DEFINE y == Has(w[7], HasDomain)
               z == Has(w[7], HasProcess)
    <3>1. flags = (IF y THEN 1 ELSE 0) + (IF z THEN 2 ELSE 0)
      BY <2>4
    <3> HIDE DEF y, z, flags
    <3>2. CASE y /\ z
      <4>1. flags = 3
        BY <3>1, <3>2
      <4> QED
        BY <3>2, <4>1 DEF Has, HasDomain, HasProcess, y, z
    <3>3. CASE y /\ ~z
      <4>1. flags = 1
        BY <3>1, <3>3
      <4>2. Has(flags, HasDomain) /\ ~Has(flags, HasProcess)
        BY <4>1 DEF Has, HasDomain, HasProcess
      <4> QED
        BY <3>3, <4>2 DEF y, z
    <3>4. CASE ~y /\ z
      <4>1. flags = 2
        BY <3>1, <3>4
      <4>2. ~Has(flags, HasDomain) /\ Has(flags, HasProcess)
        BY <4>1 DEF Has, HasDomain, HasProcess
      <4> QED
        BY <3>4, <4>2 DEF y, z
    <3>5. CASE ~y /\ ~z
      <4>1. flags = 0
        BY <3>1, <3>5
      <4>2. ~Has(flags, HasDomain) /\ ~Has(flags, HasProcess)
        BY <4>1 DEF Has, HasDomain, HasProcess
      <4> QED
        BY <3>5, <4>2 DEF y, z
    <3> QED
      BY <3>2, <3>3, <3>4, <3>5
  <2> HIDE DEF domain, process, flags
  <2> QED
    BY <2>1, <2>3, <2>4, <2>5, <2>6
<1>6. again = head \o c.payload \o dw \o c.copies \o c.moves \o c.objects
  BY DEF ToWords
<1>7. w[1] = Magic /\ Narrow(w[6])
  BY DEF WellFormed
<1>8. Len(c.payload) = w[9] /\ Len(c.copies) = w[11] /\ Len(c.moves) = w[12] /\ Len(c.objects) = w[13]
  BY <1>3 DEF Stands
<1> HIDE DEF domain, process, flags, dw
<1>9. head = <<w[1], w[2], w[3], w[4], w[5], domain, flags, process, w[9], w[10], w[11], w[12], w[13]>>
  BY <1>1, <1>4, <1>7, <1>8
<1> HIDE DEF head, c, again
<1>10. Agree(head, w, 13, Spare) /\ head[6] = domain /\ head[7] = flags /\ head[8] = process
  <2>1. Len(head) = 13 /\ head \in Seq(Nat)
    BY <1>2, <1>5, <1>9
  <2>2. ASSUME NEW i \in 1 .. 13 PROVE i \in Spare \/ head[i] = w[i]
    <3>1. i = 1 \/ i = 2 \/ i = 3 \/ i = 4 \/ i = 5 \/ i \in Spare \/ i = 9 \/ i = 10 \/ i = 11 \/ i = 12 \/ i = 13
      BY DEF Spare
    <3>2. head[1] = w[1] /\ head[2] = w[2] /\ head[3] = w[3] /\ head[4] = w[4] /\ head[5] = w[5]
      BY <1>9
    <3>3. head[9] = w[9] /\ head[10] = w[10] /\ head[11] = w[11] /\ head[12] = w[12] /\ head[13] = w[13]
      BY <1>9
    <3> QED
      BY <3>1, <3>2, <3>3
  <2>3. head[6] = domain /\ head[7] = flags /\ head[8] = process
    BY <1>9
  <2> QED
    BY <2>1, <2>2, <2>3 DEF Agree
<1> DEFINE s1 == head \o c.payload
           s2 == s1 \o dw
           s3 == s2 \o c.copies
           s4 == s3 \o c.moves
           s5 == s4 \o c.objects
<1>11. again = s5
  BY <1>6
<1>12. Agree(s1, w, 13 + w[9], Spare)
  BY <1>3, <1>10, Agrees
<1> HIDE DEF s1
<1>13. Agree(s2, w, 13 + w[9] + 4 * w[10], Spare)
  BY <1>2, <1>4, <1>12, Agrees
<1> HIDE DEF s2
<1>14. Agree(s3, w, 13 + w[9] + 4 * w[10] + w[11], Spare)
  BY <1>2, <1>3, <1>13, Agrees
<1> HIDE DEF s3
<1>15. Agree(s4, w, 13 + w[9] + 4 * w[10] + w[11] + w[12], Spare)
  BY <1>2, <1>3, <1>14, Agrees
<1> HIDE DEF s4
<1>16. Agree(again, w, Len(w), Spare)
  <2>1. Agree(s5, w, 13 + w[9] + 4 * w[10] + w[11] + w[12] + w[13], Spare)
    BY <1>2, <1>3, <1>15, Agrees
  <2> HIDE DEF s5
  <2> QED
    BY <1>2, <1>11, <2>1
<1>17. again[6] = domain /\ again[7] = flags /\ again[8] = process
  <2>1. ASSUME NEW s, NEW t, NEW n \in Nat, NEW k, n >= 13, Agree(s, w, n, Spare), Stands(t, w, n, k)
        PROVE  (s \o t)[6] = s[6] /\ (s \o t)[7] = s[7] /\ (s \o t)[8] = s[8]
    <3>1. s \in Seq(Nat) /\ t \in Seq(Nat) /\ Len(s) = n /\ k \in Nat /\ Len(t) = k
      BY <2>1 DEF Agree, Stands
    <3>2. \A i \in 1 .. n + k : (s \o t)[i] = IF i <= n THEN s[i] ELSE t[i - n]
      BY <3>1, ConcatProperties
    <3> QED
      BY <2>1, <3>1, <3>2
  <2> DEFINE n1 == 13 + w[9]
             n2 == n1 + 4 * w[10]
             n3 == n2 + w[11]
             n4 == n3 + w[12]
  <2>2. n1 \in Nat /\ n2 \in Nat /\ n3 \in Nat /\ n4 \in Nat /\ n1 >= 13 /\ n2 >= 13 /\ n3 >= 13 /\ n4 >= 13
    <3> DEFINE x1 == w[9]
               x2 == w[10]
               x3 == w[11]
               x4 == w[12]
    <3>1. x1 \in Nat /\ x2 \in Nat /\ x3 \in Nat /\ x4 \in Nat
      BY Header
    <3> HIDE DEF x1, x2, x3, x4
    <3>2. /\ 13 + x1 \in Nat /\ 13 + x1 + 4 * x2 \in Nat /\ 13 + x1 + 4 * x2 + x3 \in Nat /\ 13 + x1 + 4 * x2 + x3 + x4 \in Nat
          /\ 13 + x1 >= 13 /\ 13 + x1 + 4 * x2 >= 13 /\ 13 + x1 + 4 * x2 + x3 >= 13 /\ 13 + x1 + 4 * x2 + x3 + x4 >= 13
      BY ONLY <3>1
    <3> QED
      BY <3>2 DEF x1, x2, x3, x4
  <2>3. Agree(s1, w, n1, Spare) /\ Agree(s2, w, n2, Spare) /\ Agree(s3, w, n3, Spare) /\ Agree(s4, w, n4, Spare)
    BY <1>12, <1>13, <1>14, <1>15
  <2>4. Stands(dw, w, n1, 4 * w[10]) /\ Stands(c.copies, w, n2, w[11]) /\ Stands(c.moves, w, n3, w[12]) /\ Stands(c.objects, w, n4, w[13])
    BY <1>2, <1>3, <1>4
  <2> HIDE DEF n1, n2, n3, n4
  <2>5. s1[6] = head[6] /\ s1[7] = head[7] /\ s1[8] = head[8]
    BY <1>3, <1>10, <2>1, 13 \in Nat, 13 >= 13 DEF s1
  <2>6. s2[6] = s1[6] /\ s2[7] = s1[7] /\ s2[8] = s1[8]
    BY <2>1, <2>2, <2>3, <2>4 DEF s2
  <2>7. s3[6] = s2[6] /\ s3[7] = s2[7] /\ s3[8] = s2[8]
    BY <2>1, <2>2, <2>3, <2>4 DEF s3
  <2>8. s4[6] = s3[6] /\ s4[7] = s3[7] /\ s4[8] = s3[8]
    BY <2>1, <2>2, <2>3, <2>4 DEF s4
  <2>9. s5[6] = s4[6] /\ s5[7] = s4[7] /\ s5[8] = s4[8]
    BY <2>1, <2>2, <2>3, <2>4
  <2> HIDE DEF s5
  <2> QED
    BY <1>10, <1>11, <2>5, <2>6, <2>7, <2>8, <2>9
<1>18. Narrow(again[6])
  <2>1. w[6] \in Nat /\ w[6] < U32 /\ U32 \in Nat /\ (domain = w[6] \/ domain = 0)
    BY <1>2, <1>5, <1>7, CodecAssumption DEF Narrow
  <2>2. domain < U32
    BY ONLY <2>1
  <2> QED
    BY <1>17, <2>2 DEF Narrow
<1>19. WellFormed(again) /\ Len(again) = Len(w)
  BY <1>16, <1>18, AlikeFormed
<1>20. FromWords(again) = c
  BY <1>5, <1>16, <1>17, <1>18, AlikeRead DEF c
<1>21. \A i \in DOMAIN w : i \in {6, 7, 8} \/ again[i] = w[i]
  BY <1>16, LenProperties DEF Agree, Spare
<1> QED
  BY <1>19, <1>20, <1>21 DEF c, again

\* Every sequence of words that is accepted as a response is written back
\* as the same words (GuestResponse::from_bytes, to_bytes).
THEOREM ResponsesReadBack ==
    ASSUME NEW w \in Seq(Nat)
    PROVE  ResponseReadsBack(w)
<1> SUFFICES ASSUME ResponseFormed(w) PROVE ToResponse(FromResponse(w)) = w
  BY DEF ResponseReadsBack
<1> DEFINE r == FromResponse(w)
           p == w[4]
           x == w[5]
           m == w[6]
           o == w[7]
           l == Len(w)
<1>1. l \in Nat /\ l >= 7 /\ w[1] = Magic /\ w[2] = Response /\ 7 + p + x + m + o = l
  BY LenProperties DEF ResponseFormed, ResponseHeader
<1>2. \A i \in 1 .. 7 : w[i] \in Nat
  <2>1. \A i \in 1 .. 7 : i \in 1 .. Len(w)
    BY <1>1
  <2> QED
    BY <2>1, Elements
<1>3. p \in Nat /\ x \in Nat /\ m \in Nat /\ o \in Nat
  BY <1>2
<1>4. /\ r.result = w[3] /\ r.payload = Slice(w, 7, p) /\ r.copies = Slice(w, 7 + p, x)
      /\ r.moves = Slice(w, 7 + p + x, m) /\ r.objects = Slice(w, 7 + p + x + m, o)
  BY DEF FromResponse, ResponseHeader
<1>5. /\ ToResponse(r) = <<Magic, Response, r.result, Len(r.payload), Len(r.copies), Len(r.moves), Len(r.objects)>>
                         \o r.payload \o r.copies \o r.moves \o r.objects
  BY DEF ToResponse
<1> HIDE DEF r, p, x, m, o
<1>6. /\ Stands(r.payload, w, 7, p) /\ Stands(r.copies, w, 7 + p, x)
      /\ Stands(r.moves, w, 7 + p + x, m) /\ Stands(r.objects, w, 7 + p + x + m, o)
  <2>1. /\ 7 \in Nat /\ 7 + p \in Nat /\ 7 + p + x \in Nat /\ 7 + p + x + m \in Nat
        /\ 7 + p <= l /\ 7 + p + x <= l /\ 7 + p + x + m <= l /\ 7 + p + x + m + o <= l
    <3> HIDE DEF l
    <3> QED
      BY <1>1, <1>3
  <2> QED
    BY <1>3, <1>4, <2>1, SliceStands
<1>7. Len(r.payload) = p /\ Len(r.copies) = x /\ Len(r.moves) = m /\ Len(r.objects) = o
  BY <1>6 DEF Stands
<1> DEFINE head == <<w[1], w[2], w[3], w[4], w[5], w[6], w[7]>>
<1>8. ToResponse(r) = head \o r.payload \o r.copies \o r.moves \o r.objects
  BY <1>1, <1>4, <1>5, <1>7 DEF p, x, m, o
<1>9. Agree(head, w, 7, {})
  <2>1. head \in Seq(Nat) /\ Len(head) = 7
    BY <1>2
  <2>2. ASSUME NEW i \in 1 .. 7 PROVE head[i] = w[i]
    <3>1. i = 1 \/ i = 2 \/ i = 3 \/ i = 4 \/ i = 5 \/ i = 6 \/ i = 7
      OBVIOUS
    <3> QED
      BY <3>1
  <2> QED
    BY <2>1, <2>2 DEF Agree
<1> HIDE DEF head
<1> DEFINE s1 == head \o r.payload
           s2 == s1 \o r.copies
           s3 == s2 \o r.moves
           s4 == s3 \o r.objects
<1>10. Agree(s1, w, 7 + p, {})
  BY <1>6, <1>9, Agrees
<1> HIDE DEF s1
<1>11. Agree(s2, w, 7 + p + x, {})
  BY <1>6, <1>10, Agrees
<1> HIDE DEF s2
<1>12. Agree(s3, w, 7 + p + x + m, {})
  BY <1>6, <1>11, Agrees
<1> HIDE DEF s3
<1>13. Agree(s4, w, l, {})
  <2>1. Agree(s4, w, 7 + p + x + m + o, {})
    BY <1>6, <1>12, Agrees
  <2> HIDE DEF s4
  <2> QED
    BY <1>1, <2>1
<1> HIDE DEF s4
<1>14. s4 = w
  <2>1. s4 \in Seq(Nat) /\ Len(s4) = Len(w) /\ \A i \in 1 .. Len(s4) : s4[i] = w[i]
    BY <1>13 DEF Agree
  <2> QED
    BY <2>1, SeqEqual
<1> QED
  BY <1>8, <1>14 DEF s1, s2, s3, s4, r

-----------------------------------------------------------------------------
(* The session table.                                                      *)

\* Every handle is smaller than the counter that the next one is taken from, the
\* last handle excepted, which is given out when the counter stays.
Handles == 1 .. LastHandle
Counter == [session : Handles, domain : Handles, object : Handles]
Below(table, counter) == \A h \in DOMAIN table : h \in Handles /\ (counter < LastHandle => h < counter)
TablesSound(counters, ss, ds, os) ==
    /\ counters \in Counter
    /\ Below(ss, counters.session) /\ Below(ds, counters.domain) /\ Below(os, counters.object)
    /\ (counters.session < LastHandle /\ counters.domain < LastHandle /\ counters.object < LastHandle) =>
           /\ \A d \in DOMAIN ds : ds[d] \in DOMAIN ss
           /\ \A o \in DOMAIN os : os[o].domain \in DOMAIN ds /\ ds[os[o].domain] = os[o].session

\* insert: one entry more or one replaced.
LEMMA WithIs ==
    ASSUME NEW table, NEW h, NEW entry
    PROVE  /\ DOMAIN With(table, h, entry) = DOMAIN table \cup {h}
           /\ With(table, h, entry)[h] = entry
           /\ \A k \in DOMAIN table : k # h => With(table, h, entry)[k] = table[k]
  BY DEF With

\* A handle that is given moves its counter on, or the counter is at its end.
LEMMA HandleGiven ==
    ASSUME NEW table, NEW counter \in Handles, NEW entry, Below(table, counter)
    PROVE  LET after == IF counter < LastHandle THEN counter + 1 ELSE counter IN
           /\ after \in Handles /\ Below(With(table, counter, entry), after)
           /\ after < LastHandle => /\ counter < LastHandle /\ counter \notin DOMAIN table
                                    /\ \A k \in DOMAIN table : With(table, counter, entry)[k] = table[k]
<1> DEFINE after == IF counter < LastHandle THEN counter + 1 ELSE counter
<1>1. LastHandle \in Nat /\ counter \in Nat /\ counter >= 1 /\ counter <= LastHandle
  BY HandleAssumption DEF Handles
<1>2. after \in Handles /\ (after < LastHandle => counter < LastHandle /\ after = counter + 1)
  BY <1>1 DEF Handles
<1> HIDE DEF after
<1>3. DOMAIN With(table, counter, entry) = DOMAIN table \cup {counter}
  BY WithIs
<1>4. ASSUME NEW h \in DOMAIN table \cup {counter} PROVE h \in Handles /\ (after < LastHandle => h < after)
  <2>1. CASE h \in DOMAIN table
    <3>1. h \in Handles /\ (counter < LastHandle => h < counter)
      BY <2>1 DEF Below
    <3>2. h \in Nat
      BY <3>1 DEF Handles
    <3> QED
      BY <1>1, <1>2, <3>1, <3>2
  <2>2. CASE h = counter
    BY <1>1, <1>2, <2>2
  <2> QED
    BY <2>1, <2>2
<1>5. Below(With(table, counter, entry), after)
  BY <1>3, <1>4 DEF Below
<1>6. ASSUME after < LastHandle
      PROVE  /\ counter < LastHandle /\ counter \notin DOMAIN table
             /\ \A k \in DOMAIN table : With(table, counter, entry)[k] = table[k]
  <2>1. counter < LastHandle
    BY <1>2, <1>6
  <2>2. counter \notin DOMAIN table
    BY <1>1, <2>1 DEF Below
  <2> QED
    BY <2>1, <2>2 DEF With
<1> QED
  BY <1>2, <1>5, <1>6 DEF after

Tables == TablesSound(next, sessions, domains, objects)

\* open_service: a session's handle is given.
LEMMA OpenServiceStep ==
    ASSUME Tables, NEW x, OpenService(x)
    PROVE  Tables'
<1> DEFINE after == IF next.session < LastHandle THEN next.session + 1 ELSE next.session
<1>1. /\ next \in Counter /\ next.session \in Handles /\ Below(sessions, next.session) /\ Below(domains, next.domain) /\ Below(objects, next.object)
  BY DEF Tables, TablesSound, Counter
<1>2. /\ sessions' = With(sessions, next.session, x) /\ domains' = domains /\ objects' = objects
      /\ next' = [next EXCEPT !.session = after]
  BY DEF OpenService, Advance
<1>3. /\ after \in Handles /\ Below(sessions', after)
      /\ after < LastHandle => next.session < LastHandle
  BY <1>1, <1>2, HandleGiven
<1>4. DOMAIN sessions \subseteq DOMAIN sessions'
  BY <1>2 DEF With
<1> HIDE DEF after
<1>5. next' \in Counter /\ next'.session = after /\ next'.domain = next.domain /\ next'.object = next.object
  BY <1>1, <1>2, <1>3 DEF Counter
<1>6. ASSUME next'.session < LastHandle, next'.domain < LastHandle, next'.object < LastHandle
      PROVE  /\ \A d \in DOMAIN domains' : domains'[d] \in DOMAIN sessions'
             /\ \A o \in DOMAIN objects' : objects'[o].domain \in DOMAIN domains' /\ domains'[objects'[o].domain] = objects'[o].session
  BY <1>2, <1>3, <1>4, <1>5, <1>6 DEF Tables, TablesSound
<1>7. TablesSound(next', sessions', domains', objects')
  BY <1>1, <1>2, <1>3, <1>5, <1>6 DEF TablesSound
<1> QED
  BY <1>7 DEF Tables

\* open_domain: a handle of its own in the table of domains, for an open session.
LEMMA OpenDomainStep ==
    ASSUME Tables, NEW s, OpenDomain(s)
    PROVE  Tables'
<1> DEFINE after == IF next.domain < LastHandle THEN next.domain + 1 ELSE next.domain
<1>1. /\ next \in Counter /\ next.domain \in Handles /\ Below(sessions, next.session) /\ Below(domains, next.domain) /\ Below(objects, next.object)
  BY DEF Tables, TablesSound, Counter
<1>2. /\ domains' = With(domains, next.domain, s) /\ sessions' = sessions /\ objects' = objects /\ s \in DOMAIN sessions
      /\ next' = [next EXCEPT !.domain = after]
  BY DEF OpenDomain, Advance
<1>3. /\ after \in Handles /\ Below(domains', after)
      /\ after < LastHandle => /\ next.domain < LastHandle /\ next.domain \notin DOMAIN domains
                               /\ \A k \in DOMAIN domains : domains'[k] = domains[k]
  BY <1>1, <1>2, HandleGiven
<1>4. DOMAIN domains' = DOMAIN domains \cup {next.domain} /\ domains'[next.domain] = s
  BY <1>2 DEF With
<1> HIDE DEF after
<1>5. next' \in Counter /\ next'.domain = after /\ next'.session = next.session /\ next'.object = next.object
  BY <1>1, <1>2, <1>3 DEF Counter
<1>6. ASSUME next'.session < LastHandle, next'.domain < LastHandle, next'.object < LastHandle
      PROVE  /\ \A d \in DOMAIN domains' : domains'[d] \in DOMAIN sessions'
             /\ \A o \in DOMAIN objects' : objects'[o].domain \in DOMAIN domains' /\ domains'[objects'[o].domain] = objects'[o].session
  <2>1. /\ \A d \in DOMAIN domains : domains[d] \in DOMAIN sessions
        /\ \A o \in DOMAIN objects : objects[o].domain \in DOMAIN domains /\ domains[objects[o].domain] = objects[o].session
    BY <1>3, <1>5, <1>6 DEF Tables, TablesSound
  <2>2. \A k \in DOMAIN domains : domains'[k] = domains[k]
    BY <1>3, <1>5, <1>6
  <2>3. \A d \in DOMAIN domains' : domains'[d] \in DOMAIN sessions'
    BY <1>2, <1>4, <2>1, <2>2
  <2>4. \A o \in DOMAIN objects' : objects'[o].domain \in DOMAIN domains' /\ domains'[objects'[o].domain] = objects'[o].session
    BY <1>2, <1>4, <2>1, <2>2
  <2> QED
    BY <2>3, <2>4
<1>7. TablesSound(next', sessions', domains', objects')
  BY <1>1, <1>2, <1>3, <1>5, <1>6 DEF TablesSound
<1> QED
  BY <1>7 DEF Tables

\* add_object: likewise in the table of objects, under an open domain.
LEMMA AddObjectStep ==
    ASSUME Tables, NEW d, AddObject(d)
    PROVE  Tables'
<1> DEFINE after == IF next.object < LastHandle THEN next.object + 1 ELSE next.object
           entry == [domain |-> d, session |-> domains[d]]
<1>1. /\ next \in Counter /\ next.object \in Handles /\ Below(sessions, next.session) /\ Below(domains, next.domain) /\ Below(objects, next.object)
  BY DEF Tables, TablesSound, Counter
<1>2. /\ objects' = With(objects, next.object, entry) /\ sessions' = sessions /\ domains' = domains /\ d \in DOMAIN domains
      /\ next' = [next EXCEPT !.object = after]
  BY DEF AddObject, Advance
<1>3. /\ after \in Handles /\ Below(objects', after)
      /\ after < LastHandle => /\ next.object < LastHandle /\ next.object \notin DOMAIN objects
                               /\ \A k \in DOMAIN objects : objects'[k] = objects[k]
  BY <1>1, <1>2, HandleGiven
<1>4. DOMAIN objects' = DOMAIN objects \cup {next.object} /\ objects'[next.object] = entry
  BY <1>2 DEF With
<1> HIDE DEF after
<1>5. next' \in Counter /\ next'.object = after /\ next'.session = next.session /\ next'.domain = next.domain
  BY <1>1, <1>2, <1>3 DEF Counter
<1>6. ASSUME next'.session < LastHandle, next'.domain < LastHandle, next'.object < LastHandle
      PROVE  /\ \A e \in DOMAIN domains' : domains'[e] \in DOMAIN sessions'
             /\ \A o \in DOMAIN objects' : objects'[o].domain \in DOMAIN domains' /\ domains'[objects'[o].domain] = objects'[o].session
  <2>1. /\ \A e \in DOMAIN domains : domains[e] \in DOMAIN sessions
        /\ \A o \in DOMAIN objects : objects[o].domain \in DOMAIN domains /\ domains[objects[o].domain] = objects[o].session
    BY <1>3, <1>5, <1>6 DEF Tables, TablesSound
  <2>2. \A k \in DOMAIN objects : objects'[k] = objects[k]
    BY <1>3, <1>5, <1>6
  <2>3. ASSUME NEW o \in DOMAIN objects'
        PROVE  objects'[o].domain \in DOMAIN domains /\ domains[objects'[o].domain] = objects'[o].session
    BY <1>2, <1>4, <2>1, <2>2
  <2> QED
    BY <1>2, <2>1, <2>3
<1>7. TablesSound(next', sessions', domains', objects')
  BY <1>1, <1>2, <1>3, <1>5, <1>6 DEF TablesSound
<1> QED
  BY <1>7 DEF Tables

\* close_session takes the session's domains and their objects along.
LEMMA CloseSessionStep ==
    ASSUME Tables, NEW s, CloseSession(s)
    PROVE  Tables'
<1>1. /\ next \in Counter /\ Below(sessions, next.session) /\ Below(domains, next.domain) /\ Below(objects, next.object)
  BY DEF Tables, TablesSound
<1>2. /\ DOMAIN sessions' = DOMAIN sessions \ {s} /\ next' = next
      /\ DOMAIN domains' = {d \in DOMAIN domains : domains[d] # s} /\ \A d \in DOMAIN domains' : domains'[d] = domains[d]
      /\ DOMAIN objects' = {o \in DOMAIN objects : objects[o].session # s} /\ \A o \in DOMAIN objects' : objects'[o] = objects[o]
  <2>1. \A table, hs : DOMAIN Without(table, hs) = DOMAIN table \ hs /\ \A k \in DOMAIN table \ hs : Without(table, hs)[k] = table[k]
    BY DEF Without, Restrict
  <2>2. /\ sessions' = Without(sessions, {s}) /\ domains' = Without(domains, DomainsOf(s))
        /\ objects' = Without(objects, ObjectsOf(s)) /\ next' = next
    BY DEF CloseSession
  <2>3. DOMAIN domains \ DomainsOf(s) = {d \in DOMAIN domains : domains[d] # s}
    BY DEF DomainsOf
  <2>4. DOMAIN objects \ ObjectsOf(s) = {o \in DOMAIN objects : objects[o].session # s}
    BY DEF ObjectsOf
  <2>5. DOMAIN sessions' = DOMAIN sessions \ {s} /\ next' = next
    BY <2>1, <2>2
  <2>6. DOMAIN domains' = {d \in DOMAIN domains : domains[d] # s} /\ \A d \in DOMAIN domains' : domains'[d] = domains[d]
    BY <2>2, <2>3 DEF Without, Restrict
  <2>7. DOMAIN objects' = {o \in DOMAIN objects : objects[o].session # s} /\ \A o \in DOMAIN objects' : objects'[o] = objects[o]
    BY <2>2, <2>4 DEF Without, Restrict
  <2> QED
    BY <2>5, <2>6, <2>7
<1>3. Below(sessions', next'.session) /\ Below(domains', next'.domain) /\ Below(objects', next'.object)
  BY <1>1, <1>2 DEF Below
<1>4. ASSUME next.session < LastHandle, next.domain < LastHandle, next.object < LastHandle
      PROVE  /\ \A d \in DOMAIN domains' : domains'[d] \in DOMAIN sessions'
             /\ \A o \in DOMAIN objects' : objects'[o].domain \in DOMAIN domains' /\ domains'[objects'[o].domain] = objects'[o].session
  <2>1. /\ \A d \in DOMAIN domains : domains[d] \in DOMAIN sessions
        /\ \A o \in DOMAIN objects : objects[o].domain \in DOMAIN domains /\ domains[objects[o].domain] = objects[o].session
    BY <1>4 DEF Tables, TablesSound
  <2>2. \A d \in DOMAIN domains' : domains'[d] \in DOMAIN sessions'
    BY <1>2, <2>1
  <2>3. ASSUME NEW o \in DOMAIN objects'
        PROVE  objects'[o].domain \in DOMAIN domains' /\ domains'[objects'[o].domain] = objects'[o].session
    <3>1. o \in DOMAIN objects /\ objects'[o] = objects[o] /\ objects[o].session # s
      BY <1>2
    <3>2. objects[o].domain \in DOMAIN domains /\ domains[objects[o].domain] = objects[o].session
      BY <2>1, <3>1
    <3> QED
      BY <1>2, <3>1, <3>2
  <2> QED
    BY <2>2, <2>3
<1>5. TablesSound(next', sessions', domains', objects')
  BY <1>1, <1>2, <1>3, <1>4 DEF TablesSound
<1> QED
  BY <1>5 DEF Tables

\* A new context.
LEMMA EmptyTables ==
    TablesSound([session |-> 1, domain |-> 1, object |-> 1], Empty, Empty, Empty)
<1>1. DOMAIN Empty = {}
  BY DEF Empty
<1>2. [session |-> 1, domain |-> 1, object |-> 1] \in Counter
  BY HandleAssumption DEF Counter, Handles
<1> QED
  BY <1>1, <1>2 DEF TablesSound, Below

\* Sound tables agree with each other.
LEMMA TablesFollow == Tables => TablesAgree
<1> SUFFICES ASSUME Tables PROVE TablesAgree
  OBVIOUS
<1>1. next \in Counter /\ DOMAIN next = {"session", "domain", "object"}
  BY DEF Tables, TablesSound, Counter
<1>2. next.session \in Nat /\ next.domain \in Nat /\ next.object \in Nat
  BY <1>1 DEF Counter, Handles
<1>3. ASSUME \A c \in DOMAIN next : next[c] < LastHandle
      PROVE  next.session < LastHandle /\ next.domain < LastHandle /\ next.object < LastHandle
  BY <1>1, <1>3
<1>4. /\ next.session < LastHandle => \A s \in DOMAIN sessions : s < next.session
      /\ next.domain < LastHandle => \A d \in DOMAIN domains : d < next.domain
      /\ next.object < LastHandle => \A o \in DOMAIN objects : o < next.object
  BY <1>2 DEF Tables, TablesSound, Below
<1> QED
  BY <1>3, <1>4 DEF TablesAgree, Tables, TablesSound

-----------------------------------------------------------------------------
(* The boots and the host.                                                 *)

\* An answered query tells the frames queued, and only for a session that was granted.
ReplyTrue(answer, words, open) ==
    answer.imm = 6 /\ answer.status = Success => answer.value \in 0 .. MaxQueuedFrames /\ words[5] \in open
IpcInv ==
    /\ message \in Seq(Nat) /\ Tables
    /\ part = "boot" => DOMAIN sessions \subseteq granted
    /\ ReplyTrue(reply, message, granted)

\* No reply answers no query.
LEMMA Unanswered == \A words, open : ReplyTrue(NoReply, words, open)
  BY DEF ReplyTrue, NoReply

\* A set of naturals has a least element; the order is well-founded.
LEMMA Least ==
    ASSUME NEW T \in SUBSET Nat, T # {}
    PROVE  \E x \in T : \A y \in T : x <= y
<1> DEFINE Before == {p \in Nat \X Nat : p[1] < p[2]}
<1>1. IsWellFoundedOn(Before, Nat)
  BY NatLessThanWellFounded DEF OpToRel
<1>2. PICK x \in T : \A y \in T : ~(<<y, x>> \in Before)
  BY <1>1, WFMin
<1>3. ASSUME NEW y \in T PROVE x <= y
  <2>1. x \in Nat /\ y \in Nat /\ ~(<<y, x>> \in Before)
    BY <1>2
  <2>2. ~(y < x)
    BY <2>1
  <2> QED
    BY <2>1, <2>2
<1> QED
  BY <1>3

\* The frames a reply tells are no more than the queue can hold.
LEMMA QueueBounded ==
    ASSUME NEW queue \in Seq(Nat), NEW out, NEW n, Counted(queue, out, n)
    PROVE  Len(queue) \div 2 \in 0 .. MaxQueuedFrames
<1> DEFINE l == Len(queue)
<1>1. l \in Nat /\ l \div 2 <= MaxQueuedFrames
  BY LenProperties DEF Counted
<1> HIDE DEF l
<1>2. l \div 2 \in 0 .. MaxQueuedFrames
  BY <1>1, AudioAssumption
<1> QED
  BY <1>2 DEF l

\* The words the command is read from, and what is known once they are accepted.
LEMMA Read ==
    ASSUME IpcInv, CommandRead
    PROVE  /\ WordsRead \in Seq(Nat) /\ WellFormed(WordsRead)
           /\ WordsRead[5] # 0 => WordsRead[5] = message[5]
<1> DEFINE n == boot.x1 \div 8
<1>1. boot.x1 \in 0 .. MaxCommand /\ WellFormed(WordsRead) /\ message \in Seq(Nat)
  BY DEF CommandRead, IpcInv
<1>2. n \in Nat
  BY <1>1, ServicesAssumption
<1> HIDE DEF n
<1>3. WordsRead = [i \in 1 .. n |-> IF i <= Len(message) THEN message[i] ELSE 0]
  BY DEF WordsRead, n
<1>4. WordsRead \in Seq(Nat) /\ Len(WordsRead) = n
  <2>1. \A i \in 1 .. n : (IF i <= Len(message) THEN message[i] ELSE 0) \in Nat
    <3>1. \A i \in 1 .. n : i <= Len(message) => i \in 1 .. Len(message)
      BY <1>1, <1>2, LenProperties
    <3> QED
      BY <1>1, <3>1, Elements
  <2> QED
    BY <1>2, <1>3, <2>1
<1>5. 5 \in 1 .. n
  BY <1>1, <1>2, <1>4, Header
<1> QED
  BY <1>1, <1>3, <1>4, <1>5

\* What handle_audio_ipc takes from a command it accepted.
LEMMA CommandTyped ==
    ASSUME NEW w \in Seq(Nat), WellFormed(w)
    PROVE  LET c == FromWords(w) IN
           /\ c.session = w[5] /\ c.payload \in Seq(Nat)
           /\ Sendable(c) # {} => Source(c).size \in Nat
<1> DEFINE c == FromWords(w)
           at == Begin(w).descriptors
           n == w[10]
<1>1. /\ c.descriptors = DescriptorsOf(w, at, n) /\ n \in Nat /\ at + 4 * n <= Len(w) /\ at \in Nat
      /\ \A d \in 0 .. n - 1 : w[at + 4 * d + 1] \in 0 .. 3
      /\ c.payload \in Seq(Nat)
  BY Header, Parts DEF Stands
<1>2. c.session = w[5]
  BY DEF FromWords
<1> HIDE DEF c, at, n
<1>3. DOMAIN c.descriptors = 1 .. n
  BY <1>1 DEF DescriptorsOf
<1>4. \A d \in 1 .. n : c.descriptors[d].size \in Nat
  <2>1. ASSUME NEW d \in 1 .. n PROVE DescriptorsOf(w, at, n)[d].size \in Nat
    BY <1>1, DescriptorIs
  <2> QED
    BY <1>1, <2>1
<1>5. ASSUME Sendable(c) # {} PROVE Source(c).size \in Nat
  <2>1. Sendable(c) \subseteq 1 .. n
    BY <1>3 DEF Sendable
  <2>2. \E i \in Sendable(c) : \A j \in Sendable(c) : i <= j
    <3>1. Sendable(c) \in SUBSET Nat
      BY <1>1, <2>1
    <3> QED
      BY <1>5, <3>1, Least
  <2> DEFINE i == CHOOSE x \in Sendable(c) : \A j \in Sendable(c) : x <= j
  <2>3. i \in Sendable(c)
    BY <2>2
  <2>4. Source(c) = c.descriptors[i]
    BY DEF Source
  <2> HIDE DEF i
  <2> QED
    BY <1>4, <2>1, <2>3, <2>4
<1> QED
  BY <1>1, <1>2, <1>5 DEF c

\* What an audio command does to the queue, and what it answers.
LEMMA AudioCommandStep ==
    ASSUME AudioInv, NEW w \in Seq(Nat), WellFormed(w), AudioCommand(FromWords(w))
    PROVE  /\ AudioInv' /\ message' = message /\ reply'.imm = 6
           /\ reply'.status = Success => reply'.value \in 0 .. MaxQueuedFrames
<1> DEFINE c == FromWords(w)
<1>1. c.payload \in Seq(Nat) /\ (Sendable(c) # {} => Source(c).size \in Nat)
  BY CommandTyped
<1>2. AudioCommand(c)
  OBVIOUS
<1> HIDE DEF c
<1>3. AudioInv' => Len(samples') \div 2 \in 0 .. MaxQueuedFrames
  <2>1. AudioInv' => samples' \in Seq(Nat) /\ Counted(samples', played', counts')
    BY DEF AudioInv, AudioTyped
  <2> QED
    BY <2>1, QueueBounded
<1>4. CASE c.id = 1
  <2>1. AppendAudioBuffer(c)
    BY <1>2, <1>4 DEF AudioCommand
  <2>2. CASE BufferRead(c)
    <3> DEFINE size == Source(c).size
    <3>1. size \in Nat /\ size % 4 = 0 /\ (size \div 4) % 2 = 0
      BY <1>1, <2>2 DEF BufferRead, ValidBuffer
    <3>2. Enqueue(size \div 4, c.payload[1]) /\ Continue(6, Success, Len(samples') \div 2)
      BY <2>1, <2>2 DEF AppendAudioBuffer
    <3> HIDE DEF size
    <3>3. size \div 4 \in Nat
      BY <3>1
    <3>4. AudioInv'
      BY <3>1, <3>2, <3>3, EnqueueStep
    <3> QED
      BY <1>3, <3>2, <3>4 DEF Continue
  <2>3. CASE ~BufferRead(c)
    <3>1. Fail(InvalidCommandBuffer)
      BY <2>1, <2>3 DEF AppendAudioBuffer
    <3>2. AudioInv'
      BY <3>1, AudioStays DEF Fail, audioVars
    <3> QED
      BY <3>1, <3>2 DEF Fail, Continue, Success, InvalidCommandBuffer
  <2> QED
    BY <2>2, <2>3
<1>5. CASE c.id = 2
  <2>1. Continue(6, Success, QueuedFrames) /\ UNCHANGED audioVars
    BY <1>2, <1>5 DEF AudioCommand
  <2>2. AudioInv' /\ QueuedFrames \in 0 .. MaxQueuedFrames
    <3>1. AudioInv'
      BY <2>1, AudioStays DEF audioVars
    <3>2. samples \in Seq(Nat) /\ Counted(samples, played, counts)
      BY DEF AudioInv, AudioTyped
    <3> QED
      BY <3>1, <3>2, QueueBounded DEF QueuedFrames
  <2> QED
    BY <2>1, <2>2 DEF Continue
<1>6. CASE c.id = 3
  <2> DEFINE frames == IF c.payload = <<>> THEN 0 ELSE c.payload[1]
  <2>1. AdvanceClock(frames) /\ Continue(6, Success, Len(samples') \div 2)
    BY <1>2, <1>6 DEF AudioCommand
  <2>2. frames \in Nat
    <3>1. CASE c.payload = <<>>
      BY <3>1
    <3>2. CASE c.payload # <<>>
      <4>1. 1 \in 1 .. Len(c.payload)
        BY <1>1, <3>2, EmptySeq, LenProperties
      <4> QED
        BY <1>1, <3>2, <4>1, Elements
    <3> QED
      BY <3>1, <3>2
  <2> HIDE DEF frames
  <2>3. AudioInv'
    BY <2>1, <2>2, ClockStep
  <2> QED
    BY <1>3, <2>1, <2>3 DEF Continue
<1>7. CASE c.id \notin {1, 2, 3}
  <2>1. Fail(UnsupportedCommand)
    BY <1>2, <1>7 DEF AudioCommand
  <2>2. AudioInv'
    BY <2>1, AudioStays DEF Fail, audioVars
  <2> QED
    BY <2>1, <2>2 DEF Fail, Continue, Success, UnsupportedCommand
<1> QED
  BY <1>4, <1>5, <1>6, <1>7

\* SvcSendSyncRequest to the audio service, with what it does to the queue.
LEMMA AudioIpcStep ==
    ASSUME IpcInv, AudioInv, part = "boot", part' = part, SvcAudioIpc
    PROVE  IpcInv' /\ AudioInv'
<1> DEFINE w == WordsRead
           c == FromWords(WordsRead)
<1>1. /\ message \in Seq(Nat) /\ Tables /\ DOMAIN sessions \subseteq granted
      /\ UNCHANGED <<granted, tableVars>>
  BY DEF IpcInv, SvcAudioIpc
<1>2. UNCHANGED <<granted, next, sessions, domains, objects>>
  BY <1>1 DEF tableVars
<1>3. Tables'
  BY <1>1, <1>2 DEF Tables
<1>4. ASSUME NEW status, status # Success, Fail(status)
      PROVE  IpcInv' /\ AudioInv'
  <2>1. AudioInv'
    BY <1>4, AudioStays DEF Fail, audioVars
  <2>2. message' = message /\ reply'.status = status
    BY <1>4 DEF Fail, Continue
  <2>3. ReplyTrue(reply', message', granted')
    BY <1>4, <2>2 DEF ReplyTrue
  <2> QED
    BY <1>1, <1>2, <1>3, <2>1, <2>2, <2>3 DEF IpcInv
<1>5. CASE ~CommandRead
  <2>1. Fail(InvalidCommandBuffer)
    BY <1>5 DEF SvcAudioIpc
  <2> QED
    BY <1>4, <2>1 DEF Success, InvalidCommandBuffer
<1>6. CASE CommandRead /\ ~Routes(c)
  <2>1. Fail(InvalidHandle)
    BY <1>6 DEF SvcAudioIpc
  <2> QED
    BY <1>4, <2>1 DEF Success, InvalidHandle
<1>7. CASE CommandRead /\ Routes(c) /\ c.service # AudioOut
  <2>1. Fail(UnsupportedCommand)
    BY <1>7 DEF SvcAudioIpc
  <2> QED
    BY <1>4, <2>1 DEF Success, UnsupportedCommand
<1>8. CASE CommandRead /\ Routes(c) /\ c.service = AudioOut
  <2>1. AudioCommand(c)
    BY <1>8 DEF SvcAudioIpc
  <2>2. w \in Seq(Nat) /\ WellFormed(w) /\ (w[5] # 0 => w[5] = message[5])
    BY <1>8, Read
  <2>3. /\ AudioInv' /\ message' = message /\ reply'.imm = 6
        /\ reply'.status = Success => reply'.value \in 0 .. MaxQueuedFrames
    BY <2>1, <2>2, AudioCommandStep
  <2>4. message[5] \in granted
    <3>1. c.session = w[5]
      BY <2>2, CommandTyped
    <3>2. w[5] \in DOMAIN sessions
      BY <1>8, <3>1 DEF Routes
    <3>3. w[5] \in Handles
      BY <1>1, <3>2 DEF Tables, TablesSound, Below
    <3>4. w[5] # 0
      BY <3>3, HandleAssumption DEF Handles
    <3> QED
      BY <1>1, <2>2, <3>2, <3>4
  <2>5. ReplyTrue(reply', message', granted')
    BY <1>2, <2>3, <2>4 DEF ReplyTrue
  <2> QED
    BY <1>1, <1>2, <1>3, <2>3, <2>5 DEF IpcInv
<1> QED
  BY <1>5, <1>6, <1>7, <1>8

\* The invariant is about the message, the reply and the tables, and no more.
LEMMA IpcStays == IpcInv /\ UNCHANGED <<part, message, granted, reply, tableVars>> => IpcInv'
  BY DEF IpcInv, Tables, tableVars

\* Every other call of the guest leaves the audio queue alone.
LEMMA OtherGuestStep ==
    ASSUME IpcInv, part = "boot", part' = part, Guest, ~SvcAudioIpc
    PROVE  IpcInv' /\ UNCHANGED audioVars
<1>0. message \in Seq(Nat) /\ Tables /\ DOMAIN sessions \subseteq granted /\ ReplyTrue(reply, message, granted)
  BY DEF IpcInv
<1>1. CASE StartBoot
  <2>1. /\ message' = <<>> /\ granted' = {} /\ reply' = NoReply /\ UNCHANGED audioVars
        /\ next' = [session |-> 1, domain |-> 1, object |-> 1] /\ sessions' = Empty /\ domains' = Empty /\ objects' = Empty
    BY <1>1 DEF StartBoot
  <2>2. Tables'
    BY <2>1, EmptyTables DEF Tables
  <2>3. DOMAIN sessions' \subseteq granted'
    BY <2>1 DEF Empty
  <2> QED
    BY <2>1, <2>2, <2>3, Unanswered DEF IpcInv
<1>2. CASE EndOfBoot
  BY <1>2, IpcStays DEF EndOfBoot
<1>3. CASE SvcStops
  BY <1>3, IpcStays DEF SvcStops
<1>4. ASSUME NEW imm \in 1 .. 4, SvcQuery(imm) PROVE IpcInv' /\ UNCHANGED audioVars
  <2>1. message' = message /\ reply'.imm = imm /\ UNCHANGED <<granted, tableVars, audioVars>>
    BY <1>4 DEF SvcQuery, Continue
  <2>2. ReplyTrue(reply', message', granted')
    BY <2>1 DEF ReplyTrue
  <2> QED
    BY <1>0, <2>1, <2>2 DEF IpcInv, Tables, tableVars
<1>5. ASSUME NEW r \in Requests, Prepare(r.words, r.x0, r.x1) PROVE IpcInv' /\ UNCHANGED audioVars
  <2>1. message' = r.words /\ reply' = NoReply /\ UNCHANGED <<granted, tableVars, audioVars>>
    BY <1>5 DEF Prepare
  <2>2. message' \in Seq(Nat)
    BY <2>1, ServicesAssumption
  <2> QED
    BY <1>0, <2>1, <2>2, Unanswered DEF IpcInv, Tables, tableVars
<1>6. CASE SvcOpenAudio
  <2>1. /\ OpenService(AudioOut) /\ message' = message /\ reply'.imm = 5 /\ granted' = granted \cup {next.session}
        /\ UNCHANGED audioVars
    BY <1>6 DEF SvcOpenAudio, Continue
  <2>2. Tables'
    BY <1>0, <2>1, OpenServiceStep
  <2>3. DOMAIN sessions' \subseteq granted'
    BY <1>0, <2>1 DEF OpenService, With
  <2>4. ReplyTrue(reply', message', granted')
    BY <2>1 DEF ReplyTrue
  <2> QED
    BY <1>0, <2>1, <2>2, <2>3, <2>4 DEF IpcInv
<1> QED
  BY <1>1, <1>2, <1>3, <1>4, <1>5, <1>6 DEF Guest

\* The host consumes audio and sets the clock.
LEMMA HostStep ==
    ASSUME IpcInv, AudioInv, part' = part, Host
    PROVE  IpcInv' /\ AudioInv'
<1>1. IpcInv'
  BY IpcStays DEF Host, bootVars
<1>2. ASSUME NEW values \in {Channels, 2 * Channels + 1}, FillOutput(values) PROVE AudioInv'
  <2>1. values \in Nat
    BY AudioAssumption
  <2> QED
    BY <1>2, <2>1, OutputStep
<1>3. ASSUME NEW m \in BOOLEAN, SetMuted(m) PROVE AudioInv'
  BY <1>3, MutedStep
<1> QED
  BY <1>1, <1>2, <1>3 DEF Host

\* A client of the session table.
LEMMA ClientStep ==
    ASSUME IpcInv, part = "table", part' = part, Client
    PROVE  IpcInv' /\ UNCHANGED audioVars
<1>1. message' = <<>> /\ reply' = NoReply /\ UNCHANGED <<granted, audioVars>> /\ Tables
  BY DEF Client, IpcInv
<1>2. Tables'
  <2>1. CASE OpenService(AudioOut)
    BY <1>1, <2>1, OpenServiceStep
  <2>2. ASSUME NEW s, CloseSession(s) PROVE Tables'
    BY <1>1, <2>2, CloseSessionStep
  <2>3. ASSUME NEW s, OpenDomain(s) PROVE Tables'
    BY <1>1, <2>3, OpenDomainStep
  <2>4. ASSUME NEW d, AddObject(d) PROVE Tables'
    BY <1>1, <2>4, AddObjectStep
  <2> QED
    BY <2>1, <2>2, <2>3, <2>4 DEF Client
<1> QED
  BY <1>1, <1>2, Unanswered DEF IpcInv

\* Words are decoded and nothing else.
LEMMA DecodeStep ==
    ASSUME IpcInv, part # "boot", part' = part, NEW words \in Seq(Nat), Decode(words)
    PROVE  IpcInv' /\ UNCHANGED audioVars
<1>1. message' = words /\ reply'.imm = 99 /\ UNCHANGED <<granted, tableVars, audioVars>> /\ Tables
  BY DEF Decode, NoReply, IpcInv
<1>2. ReplyTrue(reply', message', granted')
  BY <1>1 DEF ReplyTrue
<1> QED
  BY <1>1, <1>2 DEF IpcInv, Tables, tableVars

-----------------------------------------------------------------------------
(* The import of a homebrew.  First, addresses and the pages they are on.  *)

Aligned(p) == p \in Nat /\ p % PageSize = 0
\* No multiple of the page size lies strictly between two neighbouring ones.
LEMMA Multiples ==
    ASSUME NEW j \in Int, NEW k \in Int, PageSize * j < PageSize * k
    PROVE  PageSize * j + PageSize <= PageSize * k
<1>1. PageSize \in Nat /\ PageSize > 0
  BY HomebrewAssumption
<1>2. j < k
  <2>1. SUFFICES ASSUME k <= j PROVE FALSE
    OBVIOUS
  <2>2. \E d \in Nat : j = k + d
    BY <2>1
  <2>3. PICK d \in Nat : j = k + d
    BY <2>2
  <2>4. PageSize * j = PageSize * k + PageSize * d /\ PageSize * d >= 0
    BY <1>1, <2>3
  <2>5. PageSize * j \in Int /\ PageSize * k \in Int /\ PageSize * d \in Int
    BY <1>1
  <2> QED
    BY <2>4, <2>5
<1>3. PICK d \in Nat : k = j + 1 + d
  BY <1>2
<1>4. PageSize * k = PageSize * j + PageSize + PageSize * d /\ PageSize * d >= 0
  BY <1>1, <1>3
<1>5. PageSize * j \in Int /\ PageSize * k \in Int /\ PageSize * d \in Int
  BY <1>1
<1> QED
  BY <1>1, <1>4, <1>5

\* An address is its page and its place on it.
LEMMA Divided ==
    ASSUME NEW a \in Nat
    PROVE  /\ PageBase(a) = PageSize * (a \div PageSize) /\ a \div PageSize \in Nat
           /\ a % PageSize \in 0 .. PageSize - 1 /\ a = PageBase(a) + (a % PageSize)
           /\ PageBase(a) \in Nat
<1>1. PageSize \in Nat /\ PageSize > 0
  BY HomebrewAssumption
<1>2. a = PageSize * (a \div PageSize) + (a % PageSize) /\ a % PageSize \in 0 .. PageSize - 1 /\ a \div PageSize \in Nat
  BY <1>1
<1>3. PageSize * (a \div PageSize) \in Nat
  BY <1>1, <1>2
<1> QED
  BY <1>1, <1>2, <1>3 DEF PageBase

\* An aligned address is a multiple of the page size.
LEMMA AlignedIs ==
    ASSUME NEW p
    PROVE  Aligned(p) <=> \E k \in Nat : p = PageSize * k
<1>1. PageSize \in Nat /\ PageSize > 0
  BY HomebrewAssumption
<1>2. ASSUME Aligned(p) PROVE \E k \in Nat : p = PageSize * k
  <2>1. p \in Nat /\ p % PageSize = 0
    BY <1>2 DEF Aligned
  <2>2. PageBase(p) = p
    BY <2>1 DEF PageBase
  <2>3. p = PageSize * (p \div PageSize) /\ p \div PageSize \in Nat
    BY <2>1, <2>2, Divided
  <2> QED
    BY <2>3
<1>3. ASSUME NEW k \in Nat, p = PageSize * k PROVE Aligned(p)
  <2>1. p \in Nat
    BY <1>1, <1>3
  <2>2. p = PageSize * (p \div PageSize) + (p % PageSize) /\ p % PageSize \in 0 .. PageSize - 1 /\ p \div PageSize \in Nat
    BY <1>1, <2>1
  <2> DEFINE q == p \div PageSize
             e == p % PageSize
  <2>3. PageSize * q \in Int /\ PageSize * k \in Int
    BY <1>1, <2>2
  <2>4. CASE e > 0
    <3>1. PageSize * q < PageSize * k
      BY <1>3, <2>2, <2>3, <2>4
    <3>2. PageSize * q + PageSize <= PageSize * k
      BY <2>2, <3>1, Multiples
    <3> HIDE DEF q, e
    <3> QED
      BY <1>1, <1>3, <2>2, <2>3, <3>2 DEF q, e
  <2>5. CASE e = 0
    BY <2>1, <2>5 DEF Aligned
  <2> QED
    BY <2>2, <2>4, <2>5
<1> QED
  BY <1>2, <1>3

\* Every address is on one page, the one it begins or is inside of.
LEMMA BaseOf ==
    ASSUME NEW a \in Nat
    PROVE  /\ Aligned(PageBase(a)) /\ PageBase(a) <= a /\ a < PageBase(a) + PageSize
           /\ (a % PageSize) = a - PageBase(a)
<1>1. PageSize \in Nat
  BY HomebrewAssumption
<1>2. PageBase(a) \in Nat /\ (a % PageSize) \in 0 .. PageSize - 1 /\ a = PageBase(a) + (a % PageSize)
  BY Divided
<1>3. Aligned(PageBase(a))
  BY Divided, AlignedIs
<1> QED
  BY <1>1, <1>2, <1>3

\* Two aligned addresses are at least a page apart.
LEMMA AlignedApart ==
    ASSUME NEW p, NEW q, Aligned(p), Aligned(q), p < q
    PROVE  p + PageSize <= q
<1>1. PICK j \in Nat : p = PageSize * j
  BY AlignedIs
<1>2. PICK k \in Nat : q = PageSize * k
  BY AlignedIs
<1> QED
  BY <1>1, <1>2, Multiples

\* A page further on is the next aligned address.
LEMMA AlignedNext ==
    ASSUME NEW p, Aligned(p)
    PROVE  Aligned(p + PageSize)
<1>1. PICK j \in Nat : p = PageSize * j
  BY AlignedIs
<1>2. p + PageSize = PageSize * (j + 1)
  BY <1>1, HomebrewAssumption
<1> QED
  BY <1>2, AlignedIs

\* The page an address is on is the only one that holds it.
LEMMA BaseIs ==
    ASSUME NEW p, Aligned(p), NEW a \in Nat, p <= a, a < p + PageSize
    PROVE  PageBase(a) = p /\ (a % PageSize) = a - p
<1>1. PageSize \in Nat /\ p \in Nat
  BY HomebrewAssumption DEF Aligned
<1>2. /\ Aligned(PageBase(a)) /\ PageBase(a) <= a /\ a < PageBase(a) + PageSize /\ PageBase(a) \in Nat
      /\ (a % PageSize) = a - PageBase(a)
  BY BaseOf DEF Aligned
<1>3. ~(p < PageBase(a))
  BY <1>1, <1>2, AlignedApart
<1>4. ~(PageBase(a) < p)
  BY <1>1, <1>2, AlignedApart
<1> QED
  BY <1>1, <1>2, <1>3, <1>4

\* The pages of a range are the aligned addresses from its first page on that
\* lie before its end, or, which is the same, before the end of its last page.
LEMMA NeededIs ==
    ASSUME NEW at \in Nat, NEW length \in Nat, length > 0
    PROVE  /\ Needed(at, length) = {p \in Nat : Aligned(p) /\ PageBase(at) <= p /\ p < at + length}
           /\ \A p : Aligned(p) => (p < at + length <=> p < PageBase(at + length - 1) + PageSize)
<1> DEFINE end == at + length - 1
<1>1. PageSize \in Nat /\ PageSize > 0 /\ end \in Nat /\ end + 1 = at + length /\ at <= end
  BY HomebrewAssumption
<1> HIDE DEF end
<1>2. ASSUME NEW a \in at .. end
      PROVE  PageBase(a) \in Nat /\ Aligned(PageBase(a)) /\ PageBase(at) <= PageBase(a) /\ PageBase(a) < at + length
  <2>1. /\ a \in Nat /\ PageBase(a) \in Nat /\ PageBase(at) \in Nat
        /\ Aligned(PageBase(a)) /\ Aligned(PageBase(at)) /\ PageBase(a) <= a /\ a < PageBase(a) + PageSize
        /\ PageBase(at) <= at
    BY <1>1, BaseOf DEF Aligned
  <2>2. ~(PageBase(a) < PageBase(at))
    BY <1>1, <2>1, AlignedApart
  <2> QED
    BY <1>1, <2>1, <2>2
<1>3. ASSUME NEW p, Aligned(p), PageBase(at) <= p, p < at + length PROVE \E a \in at .. end : PageBase(a) = p
  <2>1. p \in Nat
    BY <1>3 DEF Aligned
  <2>2. CASE at <= p
    <3>1. p \in at .. end /\ p < p + PageSize
      BY <1>1, <1>3, <2>1, <2>2
    <3>2. PageBase(p) = p
      BY <1>3, <2>1, <3>1, BaseIs
    <3> QED
      BY <3>1, <3>2
  <2>3. CASE p < at
    <3>1. Aligned(PageBase(at)) /\ at < PageBase(at) + PageSize /\ PageBase(at) \in Nat
      BY BaseOf DEF Aligned
    <3>2. ~(PageBase(at) < p)
      BY <1>1, <1>3, <2>1, <2>3, <3>1, AlignedApart
    <3>3. PageBase(at) = p /\ at \in at .. end
      BY <1>1, <1>3, <2>1, <3>1, <3>2
    <3> QED
      BY <3>3
  <2> QED
    BY <2>1, <2>2, <2>3
<1>4. ASSUME NEW p, Aligned(p) PROVE p < at + length <=> p < PageBase(end) + PageSize
  <2>1. /\ p \in Nat /\ PageBase(end) \in Nat /\ Aligned(PageBase(end)) /\ PageBase(end) <= end /\ end < PageBase(end) + PageSize
    BY <1>1, <1>4, BaseOf DEF Aligned
  <2>2. PageBase(end) < p => PageBase(end) + PageSize <= p
    BY <1>4, <2>1, AlignedApart
  <2> QED
    BY <1>1, <2>1, <2>2
<1>5. Needed(at, length) = {PageBase(a) : a \in at .. end}
  BY DEF Needed, end
<1> QED
  BY <1>2, <1>3, <1>4, <1>5 DEF end

-----------------------------------------------------------------------------
(* Then what parse finds out.                                              *)

\* The first error is that of a check that fails after all before it passed.
LEMMA FirstErrorIs ==
    ASSUME NEW n \in Nat, NEW checks, DOMAIN checks = 1 .. n
    PROVE  \/ FirstError(checks) = "none" /\ \A k \in 1 .. n : ~checks[k].fails
           \/ \E k \in 1 .. n : /\ checks[k].fails /\ FirstError(checks) = checks[k].error
                                /\ \A l \in 1 .. k - 1 : ~checks[l].fails
<1> DEFINE failing == {k \in DOMAIN checks : checks[k].fails}
<1>1. CASE failing = {}
  BY <1>1 DEF FirstError
<1>2. CASE failing # {}
  <2> DEFINE k == CHOOSE x \in failing : \A y \in failing : x <= y
  <2>1. failing \in SUBSET Nat
    OBVIOUS
  <2>2. k \in failing /\ \A y \in failing : k <= y
    BY <1>2, <2>1, Least
  <2>3. FirstError(checks) = checks[k].error
    BY <1>2 DEF FirstError
  <2> HIDE DEF k
  <2>4. ASSUME NEW l \in 1 .. k - 1 PROVE ~checks[l].fails
    <3>1. l \in 1 .. n /\ ~(k <= l)
      BY <2>2
    <3> QED
      BY <2>2, <3>1
  <2> QED
    BY <2>2, <2>3, <2>4
<1> QED
  BY <1>1, <1>2

\* Ranges in the order of where they begin are apart if neighbours are.
LEMMA AllApart ==
    ASSUME NEW n \in Nat, NEW spans \in [1 .. n -> [from : Nat, to : Nat]], ~Overlap(spans),
           NEW m \in 1 .. n, NEW l \in 1 .. n, Earlier(spans, m, l)
    PROVE  spans[m].to <= spans[l].from
<1> SUFFICES ASSUME spans[l].from < spans[m].to PROVE FALSE
  OBVIOUS
<1> DEFINE After == {k \in 1 .. n : Earlier(spans, m, k)}
           Froms == {spans[k].from : k \in After}
<1>1. l \in After /\ Froms \in SUBSET Nat /\ spans[l].from \in Froms
  OBVIOUS
<1>2. PICK f \in Froms : \A g \in Froms : f <= g
  BY <1>1, Least
<1> DEFINE First == {k \in After : spans[k].from = f}
<1>3. First \in SUBSET Nat /\ First # {}
  <2>1. PICK k \in After : f = spans[k].from
    BY <1>2
  <2>2. k \in First
    BY <2>1
  <2>3. First \in SUBSET Nat
    OBVIOUS
  <2> QED
    BY <2>2, <2>3
<1>4. PICK k \in First : \A j \in First : k <= j
  BY <1>3, Least
<1>5. k \in 1 .. n /\ Earlier(spans, m, k) /\ spans[k].from = f /\ f \in Nat /\ f <= spans[l].from
  BY <1>1, <1>2, <1>4
<1>6. ASSUME NEW j \in DOMAIN spans, Earlier(spans, m, j), Earlier(spans, j, k) PROVE FALSE
  <2>1. j \in After /\ spans[j].from \in Froms /\ spans[j].from \in Nat /\ j \in Nat /\ k \in Nat
    BY <1>5, <1>6
  <2>2. f <= spans[j].from
    BY <1>2, <2>1
  <2>3. spans[j].from = f /\ j < k
    BY <1>5, <1>6, <2>1, <2>2 DEF Earlier
  <2>4. k <= j
    BY <1>4, <2>1, <2>3
  <2> QED
    BY <2>1, <2>3, <2>4
<1>7. Neighbours(spans, m, k)
  BY <1>5, <1>6 DEF Neighbours
<1>8. spans[k].from < spans[m].to
  BY <1>1, <1>5
<1> QED
  BY <1>5, <1>7, <1>8 DEF Overlap

\* What map_into relies on: ranges with a beginning and at least a byte each.
Access == {"r", "rw", "rx"}
SoundRange == [at : Nat, length : Nat, access : Access]
RangesSound(i) == \A r \in 1 .. Stack(i) : RangeOf(i, r) \in SoundRange /\ RangeOf(i, r).length > 0
\* What parse checks one by one makes all ranges sound.
LEMMA Ranges ==
    ASSUME NEW i \in Images, i.length > 0, i.size > 0, i.size <= i.top,
           \A n \in 1 .. Len(i.segments) : i.segments[n].length > 0 /\ i.segments[n].access \in Access
    PROVE  RangesSound(i) /\ Stack(i) \in Nat /\ Stack(i) >= 2
<1>1. i \in [load : Nat, entry : Nat, top : Nat, size : Nat, length : Nat, segments : Seq(Segments)]
  BY HomebrewAssumption
<1>2. i.load \in Nat /\ i.length \in Nat /\ i.top \in Nat /\ i.size \in Nat /\ i.segments \in Seq(Segments)
  BY <1>1
<1>3. Len(i.segments) \in Nat /\ \A n \in 1 .. Len(i.segments) : i.segments[n] \in Segments
  BY <1>2
<1>4. ASSUME NEW r \in 1 .. Stack(i) PROVE RangeOf(i, r) \in SoundRange /\ RangeOf(i, r).length > 0
  <2>1. CASE r = 1
    <3>1. RangeOf(i, r) = [at |-> i.load, length |-> i.length, access |-> "rx"]
      BY <2>1 DEF RangeOf
    <3> QED
      BY <1>2, <3>1 DEF SoundRange, Access
  <2>2. CASE r = Stack(i)
    <3>1. r # 1 /\ i.top - i.size \in Nat
      BY <1>2, <1>3, <2>2 DEF Stack
    <3>2. RangeOf(i, r) = [at |-> i.top - i.size, length |-> i.size, access |-> "rw"]
      BY <2>2, <3>1 DEF RangeOf, Stack
    <3> QED
      BY <1>2, <3>1, <3>2 DEF SoundRange, Access
  <2>3. CASE r # 1 /\ r # Stack(i)
    <3>1. r - 1 \in 1 .. Len(i.segments) /\ RangeOf(i, r) = i.segments[r - 1]
      BY <1>3, <2>3 DEF RangeOf, Stack
    <3>2. i.segments[r - 1] \in Segments /\ i.segments[r - 1].length > 0 /\ i.segments[r - 1].access \in Access
      BY <1>3, <3>1
    <3> QED
      BY <3>1, <3>2 DEF SoundRange, Segments
  <2> QED
    BY <2>1, <2>2, <2>3
<1> QED
  BY <1>3, <1>4 DEF RangesSound, Stack

\* An aligned address that two ranges need is one on which their spans overlap.
LEMMA SpanOf ==
    ASSUME NEW i, RangesSound(i), NEW r \in 1 .. Stack(i)
    PROVE  LET R == RangeOf(i, r)
               s == Spans(i)[r]
           IN  /\ s \in [from : Nat, to : Nat] /\ Aligned(s.from) /\ Aligned(s.to) /\ s.from < s.to
               /\ Needed(R.at, R.length) = {p \in Nat : Aligned(p) /\ s.from <= p /\ p < s.to}
<1> DEFINE at == RangeOf(i, r).at
           length == RangeOf(i, r).length
           end == at + length - 1
<1>1. at \in Nat /\ length \in Nat /\ length > 0
  BY DEF RangesSound, SoundRange
<1>2. Spans(i)[r] = [from |-> PageBase(at), to |-> PageBase(end) + PageSize]
  BY DEF Spans, Span
<1>3. end \in Nat /\ at <= end /\ end < at + length /\ PageSize \in Nat
  BY <1>1, HomebrewAssumption
<1>4. PageBase(at) \in Nat /\ Aligned(PageBase(at)) /\ PageBase(at) <= at
  BY <1>1, BaseOf DEF Aligned
<1>5. PageBase(end) \in Nat /\ Aligned(PageBase(end)) /\ end < PageBase(end) + PageSize
  BY <1>3, BaseOf DEF Aligned
<1>6. Aligned(PageBase(end) + PageSize)
  BY <1>5, AlignedNext
<1>7. /\ Needed(at, length) = {p \in Nat : Aligned(p) /\ PageBase(at) <= p /\ p < at + length}
      /\ \A p : Aligned(p) => (p < at + length <=> p < PageBase(end) + PageSize)
  BY <1>1, NeededIs
<1> HIDE DEF at, length, end
<1>8. Needed(at, length) = {p \in Nat : Aligned(p) /\ PageBase(at) <= p /\ p < PageBase(end) + PageSize}
  BY <1>7
<1>9. PageBase(at) < PageBase(end) + PageSize
  BY <1>1, <1>3, <1>4, <1>5
<1> QED
  BY <1>2, <1>3, <1>4, <1>5, <1>6, <1>8, <1>9 DEF at, length

\* Two ranges need the same page.
ClashIn(i) ==
    \E m, n \in 1 .. Stack(i) :
        m # n /\ Needed(RangeOf(i, m).at, RangeOf(i, m).length) \cap Needed(RangeOf(i, n).at, RangeOf(i, n).length) # {}
\* validate_layout, which only looks at neighbours, finds every clash.
LEMMA OverlapIsClash ==
    ASSUME NEW i, RangesSound(i), Stack(i) \in Nat
    PROVE  Overlap(Spans(i)) <=> ClashIn(i)
<1> DEFINE n == Stack(i)
           spans == Spans(i)
           Pages(r) == Needed(RangeOf(i, r).at, RangeOf(i, r).length)
<1>1. ASSUME NEW r \in 1 .. n
      PROVE  /\ spans[r] \in [from : Nat, to : Nat] /\ Aligned(spans[r].from) /\ Aligned(spans[r].to) /\ spans[r].from < spans[r].to
             /\ Pages(r) = {p \in Nat : Aligned(p) /\ spans[r].from <= p /\ p < spans[r].to}
  BY SpanOf
<1>2. spans \in [1 .. n -> [from : Nat, to : Nat]] /\ DOMAIN spans = 1 .. n
  <2>1. spans = [r \in 1 .. n |-> spans[r]] /\ DOMAIN spans = 1 .. n
    BY DEF Spans
  <2> HIDE DEF spans, n
  <2> QED
    BY <1>1, <2>1
<1>3. ClashIn(i) <=> \E l, m \in 1 .. n : l # m /\ Pages(l) \cap Pages(m) # {}
  BY DEF ClashIn
<1> HIDE DEF n, spans, Pages
<1>4. ASSUME Overlap(spans) PROVE ClashIn(i)
  <2>1. PICK l, m \in 1 .. n : Earlier(spans, l, m) /\ spans[m].from < spans[l].to
    BY <1>2, <1>4 DEF Overlap, Neighbours
  <2>2. l # m /\ spans[l].from <= spans[m].from
    BY <1>1, <2>1 DEF Earlier
  <2>3. spans[m].from \in Pages(l) /\ spans[m].from \in Pages(m)
    BY <1>1, <2>1, <2>2
  <2> QED
    BY <1>3, <2>2, <2>3
<1>5. ASSUME ~Overlap(spans), NEW l \in 1 .. n, NEW m \in 1 .. n, Earlier(spans, l, m)
      PROVE  Pages(l) \cap Pages(m) = {}
  <2>1. n \in Nat
    BY DEF n
  <2>2. spans[l].to <= spans[m].from
    BY <1>2, <1>5, <2>1, AllApart
  <2> QED
    BY <1>1, <2>2
<1>6. ASSUME NEW l \in 1 .. n, NEW m \in 1 .. n, l # m PROVE Earlier(spans, l, m) \/ Earlier(spans, m, l)
  <2>1. spans[l].from \in Nat /\ spans[m].from \in Nat
    BY <1>1
  <2> QED
    BY <1>6, <2>1 DEF Earlier
<1>7. ASSUME ~Overlap(spans) PROVE ~ClashIn(i)
  BY <1>3, <1>5, <1>6, <1>7
<1> QED
  BY <1>4, <1>7 DEF spans

\* What parse answers when it is not the layout that is wrong.
ProgramErrors ==
    {"EmptyStack", "StackTooLarge", "EmptyProgram", "ProgramLength", "AddressOverflow", "EntryPointOutsideProgram",
     "TooManySegments", "EmptySegment", "InvalidPermissions", "StackUnderflow"}
\* A program that passes has an entry, and there is a stack.
LEMMA ProgramPasses ==
    ASSUME NEW i
    PROVE  \/ /\ FirstError(ProgramChecks(i)) = "none"
              /\ i.size # 0 /\ i.length # 0 /\ i.entry \in i.load .. i.load + i.length - 1
           \/ FirstError(ProgramChecks(i)) \in ProgramErrors
<1> DEFINE checks == ProgramChecks(i)
<1>1. DOMAIN checks = 1 .. 7
  BY DEF ProgramChecks
<1>2. \A k \in 1 .. 7 : checks[k].error \in ProgramErrors
  BY DEF ProgramChecks, Check, ProgramErrors
<1>3. /\ checks[1].fails <=> i.size = 0
      /\ checks[3].fails <=> i.length = 0
      /\ checks[6].fails <=>
             i.entry \notin i.load .. i.load + i.length - 1 \/ (i.entry - i.load) % InstructionSize # 0
  BY DEF ProgramChecks, Check
<1> HIDE DEF checks
<1>4. \/ FirstError(checks) = "none" /\ \A k \in 1 .. 7 : ~checks[k].fails
      \/ \E k \in 1 .. 7 : /\ checks[k].fails /\ FirstError(checks) = checks[k].error
                           /\ \A l \in 1 .. k - 1 : ~checks[l].fails
  <2>1. 7 \in Nat
    OBVIOUS
  <2> QED
    BY ONLY <1>1, <2>1, FirstErrorIs
<1>5. CASE FirstError(checks) = "none" /\ \A k \in 1 .. 7 : ~checks[k].fails
  BY <1>3, <1>5 DEF checks
<1>6. CASE \E k \in 1 .. 7 : FirstError(checks) = checks[k].error
  BY <1>2, <1>6 DEF checks
<1> QED
  BY <1>4, <1>5, <1>6

\* A segment that passes has bytes and permissions map_into knows.
LEMMA SegmentPasses ==
    ASSUME NEW s
    PROVE  \/ FirstError(SegmentChecks(s)) = "none" /\ s.length # 0 /\ s.access \in Access
           \/ FirstError(SegmentChecks(s)) \in ProgramErrors
<1> DEFINE checks == SegmentChecks(s)
<1>1. DOMAIN checks = 1 .. 3
  BY DEF SegmentChecks
<1>2. \A k \in 1 .. 3 : checks[k].error \in ProgramErrors
  BY DEF SegmentChecks, Check, ProgramErrors
<1>3. (checks[1].fails <=> s.length = 0) /\ (checks[2].fails <=> s.access \notin Access)
  BY DEF SegmentChecks, Check, Access
<1> HIDE DEF checks
<1>4. \/ FirstError(checks) = "none" /\ \A k \in 1 .. 3 : ~checks[k].fails
      \/ \E k \in 1 .. 3 : /\ checks[k].fails /\ FirstError(checks) = checks[k].error
                           /\ \A l \in 1 .. k - 1 : ~checks[l].fails
  BY <1>1, FirstErrorIs
<1>5. CASE FirstError(checks) = "none" /\ \A k \in 1 .. 3 : ~checks[k].fails
  BY <1>3, <1>5 DEF checks
<1>6. CASE \E k \in 1 .. 3 : FirstError(checks) = checks[k].error
  BY <1>2, <1>6 DEF checks
<1> QED
  BY <1>4, <1>5, <1>6

\* A layout that passes has room below the stack pointer and no overlap.
LEMMA LayoutPasses ==
    ASSUME NEW i
    PROVE  \/ FirstError(LayoutChecks(i)) = "none" /\ ~(i.top < i.size) /\ ~Overlap(Spans(i))
           \/ FirstError(LayoutChecks(i)) \in ProgramErrors
           \/ FirstError(LayoutChecks(i)) = "OverlappingRanges" /\ ~(i.top < i.size) /\ Overlap(Spans(i))
<1> DEFINE checks == LayoutChecks(i)
<1>1. DOMAIN checks = 1 .. 4
  BY DEF LayoutChecks
<1>2. \A k \in 1 .. 3 : checks[k].error \in ProgramErrors
  BY DEF LayoutChecks, Check, ProgramErrors
<1>3. checks[4].error = "OverlappingRanges" /\ (checks[2].fails <=> i.top < i.size) /\ (checks[4].fails <=> Overlap(Spans(i)))
  BY DEF LayoutChecks, Check
<1> HIDE DEF checks
<1>4. CASE FirstError(checks) = "none" /\ \A k \in 1 .. 4 : ~checks[k].fails
  BY <1>3, <1>4 DEF checks
<1>5. ASSUME NEW k \in 1 .. 4, checks[k].fails, FirstError(checks) = checks[k].error, \A l \in 1 .. k - 1 : ~checks[l].fails
      PROVE  \/ FirstError(checks) \in ProgramErrors
             \/ FirstError(checks) = "OverlappingRanges" /\ ~(i.top < i.size) /\ Overlap(Spans(i))
  <2>1. CASE k \in 1 .. 3
    BY <1>2, <1>5, <2>1
  <2>2. CASE k = 4
    BY <1>3, <1>5, <2>2
  <2> QED
    BY <2>1, <2>2
<1> QED
  BY <1>1, <1>4, <1>5, FirstErrorIs DEF checks

\* HomebrewModule::parse as a whole.
Accepted(i) == /\ RangesSound(i) /\ Stack(i) \in Nat /\ Stack(i) >= 2 /\ ~ClashIn(i)
               /\ i.entry \in i.load .. i.load + i.length - 1
\* What it accepts has no clash, and what it refuses for one has one.
LEMMA Parsed ==
    ASSUME NEW i \in Images
    PROVE  /\ ParseError(i) = "none" => Accepted(i)
           /\ ParseError(i) = "OverlappingRanges" => ClashIn(i)
           /\ ParseError(i) \in ProgramErrors \cup {"none", "OverlappingRanges"}
<1> DEFINE n == Stack(i)
           errors == Errors(i)
           segments == i.segments
           checks == [r \in 1 .. n |-> Check(errors[r] # "none", errors[r])]
<1>1. i \in [load : Nat, entry : Nat, top : Nat, size : Nat, length : Nat, segments : Seq(Segments)]
  BY HomebrewAssumption
<1>2. n = Len(segments) + 2 /\ Len(segments) \in Nat /\ n \in Nat /\ n >= 2 /\ i.size \in Nat /\ i.top \in Nat
      /\ i.length \in Nat /\ \A k \in 1 .. Len(segments) : segments[k] \in Segments
  BY <1>1 DEF Stack
<1>3. /\ errors[1] = FirstError(ProgramChecks(i)) /\ errors[n] = FirstError(LayoutChecks(i))
      /\ \A r \in 2 .. n - 1 : errors[r] = FirstError(SegmentChecks(segments[r - 1]))
  BY <1>2 DEF Errors
<1>4. errors[1] = "none" => i.size # 0 /\ i.length # 0 /\ i.entry \in i.load .. i.load + i.length - 1
  BY <1>3, ProgramPasses DEF ProgramErrors
<1>5. ASSUME \A r \in 2 .. n - 1 : errors[r] = "none", NEW k \in 1 .. Len(segments)
      PROVE  segments[k].length > 0 /\ segments[k].access \in Access
  <2>1. k + 1 \in 2 .. n - 1 /\ k + 1 - 1 = k
    BY <1>2
  <2>2. FirstError(SegmentChecks(segments[k])) = "none"
    BY <1>3, <1>5, <2>1
  <2>3. segments[k].length # 0 /\ segments[k].access \in Access /\ segments[k].length \in Nat
    BY <1>2, <2>2, SegmentPasses DEF ProgramErrors, Segments
  <2> QED
    BY <2>3
<1>6. \A r \in 1 .. n : errors[r] \in ProgramErrors \cup {"none", "OverlappingRanges"}
                        /\ (errors[r] = "OverlappingRanges" => r = n)
  <2>1. ASSUME NEW r \in 1 .. n PROVE r = 1 \/ r = n \/ r \in 2 .. n - 1
    BY <1>2
  <2>2. n # 1
    BY <1>2
  <2> HIDE DEF n, errors
  <2> QED
    BY <1>3, <2>1, <2>2, ProgramPasses, SegmentPasses, LayoutPasses DEF ProgramErrors
<1>15. ~(i.top < i.size) => i.size <= i.top
  BY <1>2
<1>7. errors[n] = "none" => i.size <= i.top /\ ~Overlap(Spans(i))
  BY <1>3, <1>15, LayoutPasses DEF ProgramErrors
<1>8. errors[n] = "OverlappingRanges" => i.size <= i.top /\ Overlap(Spans(i))
  BY <1>3, <1>15, LayoutPasses DEF ProgramErrors
<1>9. ParseError(i) = FirstError(checks) /\ DOMAIN checks = 1 .. n
      /\ \A r \in 1 .. n : (checks[r].fails <=> errors[r] # "none") /\ checks[r].error = errors[r]
  BY DEF ParseError, Check
<1>10. ASSUME errors[1] = "none", \A r \in 2 .. n - 1 : errors[r] = "none", i.size <= i.top
       PROVE  RangesSound(i) /\ (Overlap(Spans(i)) <=> ClashIn(i))
  <2>1. i.length > 0 /\ i.size > 0
    BY <1>2, <1>4, <1>10
  <2>2. RangesSound(i) /\ Stack(i) \in Nat
    BY <1>5, <1>10, <2>1, Ranges
  <2> QED
    BY <2>2, OverlapIsClash
<1> HIDE DEF errors, checks, n, segments
<1>11. CASE FirstError(checks) = "none" /\ \A r \in 1 .. n : ~checks[r].fails
  <2>1. errors[1] = "none" /\ errors[n] = "none" /\ \A r \in 2 .. n - 1 : errors[r] = "none"
    BY <1>2, <1>9, <1>11
  <2>2. RangesSound(i) /\ ~ClashIn(i)
    BY <1>7, <1>10, <2>1
  <2> QED
    BY <1>2, <1>4, <1>9, <1>11, <2>1, <2>2 DEF Accepted, n
<1>12. ASSUME NEW k \in 1 .. n, checks[k].fails, FirstError(checks) = checks[k].error, \A l \in 1 .. k - 1 : ~checks[l].fails
       PROVE  ParseError(i) \in ProgramErrors \/ (ParseError(i) = "OverlappingRanges" /\ ClashIn(i))
  <2>1. ParseError(i) = errors[k] /\ errors[k] # "none"
    BY <1>9, <1>12
  <2>2. CASE errors[k] = "OverlappingRanges"
    <3>1. k = n
      BY <1>6, <2>2
    <3>2. errors[1] = "none" /\ \A r \in 2 .. n - 1 : errors[r] = "none"
      BY <1>2, <1>9, <1>12, <3>1
    <3> QED
      BY <1>8, <1>10, <2>1, <2>2, <3>1, <3>2
  <2>3. CASE errors[k] # "OverlappingRanges"
    BY <1>6, <2>1, <2>3
  <2> QED
    BY <2>2, <2>3
<1>13. n \in Nat
  BY <1>2
<1>14. \/ FirstError(checks) = "none" /\ \A k \in 1 .. n : ~checks[k].fails
       \/ \E k \in 1 .. n : /\ checks[k].fails /\ FirstError(checks) = checks[k].error
                            /\ \A l \in 1 .. k - 1 : ~checks[l].fails
  BY <1>9, <1>13, FirstErrorIs
<1> QED
  BY <1>9, <1>11, <1>12, <1>14 DEF ProgramErrors

-----------------------------------------------------------------------------
(* And what map_into has done with the ranges before the one it is at.     *)

PagesIn(i, r) == Needed(RangeOf(i, r).at, RangeOf(i, r).length)
Bytes(i, r) == RangeOf(i, r).at .. RangeOf(i, r).at + RangeOf(i, r).length - 1
ContentAt(i, r, a) == IF r = Stack(i) THEN Zero ELSE <<r, a - RangeOf(i, r).at>>
FilledIn(i, pg, r) ==
    \A a \in Bytes(i, r) :
        PageBase(a) \in DOMAIN pg /\ pg[PageBase(a)].cells[a % PageSize] = ContentAt(i, r, a)
DoneIn(i, pg, r) ==
    /\ FilledIn(i, pg, r)
    /\ \A p \in PagesIn(i, r) : p \in DOMAIN pg /\ pg[p].access = RangeOf(i, r).access

PageRecord == [access : Access, cells : [0 .. PageSize - 1 -> Nat \X Nat]]
\* Pages of the range at hand are fresh up to the cursor, or filled and
\* given their permissions up to it; there are no others but the earlier ranges'.
Mapping(i, pg, c) ==
    /\ \A p : p \in DOMAIN pg <=> \/ \E r \in 1 .. c.range - 1 : p \in PagesIn(i, r)
                                  \/ p \in PagesIn(i, c.range) /\ p < c.page
    /\ \A p \in PagesIn(i, c.range) : p < c.page => pg[p] = Fresh
Protecting(i, pg, c) ==
    /\ c.range # Stack(i)
    /\ \A p : p \in DOMAIN pg <=> \E r \in 1 .. c.range : p \in PagesIn(i, r)
    /\ FilledIn(i, pg, c.range)
    /\ \A p \in PagesIn(i, c.range) : pg[p].access = IF p < c.page THEN RangeOf(i, c.range).access ELSE "rw"
MapInv(i, pg, c) ==
    /\ c \in [range : 1 .. Stack(i), phase : {"map", "protect"}, page : Nat]
    /\ Aligned(c.page) /\ PageBase(RangeOf(i, c.range).at) <= c.page
    /\ \A p \in DOMAIN pg : pg[p] \in PageRecord
    /\ \A r \in 1 .. c.range - 1 : DoneIn(i, pg, r)
    /\ c.phase = "map" => Mapping(i, pg, c)
    /\ c.phase = "protect" => Protecting(i, pg, c)

\* What the steps below need to know of an accepted range.
LEMMA RangeFacts ==
    ASSUME NEW i, Accepted(i), NEW r \in 1 .. Stack(i)
    PROVE  /\ RangeOf(i, r).at \in Nat /\ RangeOf(i, r).length \in Nat /\ RangeOf(i, r).access \in Access
           /\ PagesIn(i, r) = {p \in Nat : /\ Aligned(p) /\ PageBase(RangeOf(i, r).at) <= p
                                           /\ p < RangeOf(i, r).at + RangeOf(i, r).length}
           /\ \A a \in Bytes(i, r) : /\ a \in Nat /\ PageBase(a) \in PagesIn(i, r) /\ PageBase(a) \in Nat
                                     /\ (a % PageSize) \in 0 .. PageSize - 1 /\ PageBase(a) + (a % PageSize) = a
           /\ \A q \in 1 .. Stack(i) : q # r => PagesIn(i, q) \cap PagesIn(i, r) = {}
<1>1. RangeOf(i, r) \in SoundRange /\ RangeOf(i, r).length > 0
  BY DEF Accepted, RangesSound
<1>2. RangeOf(i, r).at \in Nat /\ RangeOf(i, r).length \in Nat /\ RangeOf(i, r).access \in Access
  BY <1>1 DEF SoundRange
<1>3. PagesIn(i, r) = {p \in Nat : /\ Aligned(p) /\ PageBase(RangeOf(i, r).at) <= p
                                   /\ p < RangeOf(i, r).at + RangeOf(i, r).length}
  BY <1>1, <1>2, NeededIs DEF PagesIn
<1>4. ASSUME NEW a \in Bytes(i, r)
      PROVE  /\ a \in Nat /\ PageBase(a) \in PagesIn(i, r) /\ PageBase(a) \in Nat
             /\ (a % PageSize) \in 0 .. PageSize - 1 /\ PageBase(a) + (a % PageSize) = a
  <2>1. a \in Nat
    BY <1>2 DEF Bytes
  <2>2. PageBase(a) \in PagesIn(i, r)
    BY DEF PagesIn, Needed, Bytes
  <2> QED
    BY <2>1, <2>2, Divided
<1>5. \A q \in 1 .. Stack(i) : q # r => PagesIn(i, q) \cap PagesIn(i, r) = {}
  BY DEF Accepted, ClashIn, PagesIn
<1> QED
  BY <1>2, <1>3, <1>4, <1>5

\* What is done stays done as long as its pages do.
LEMMA DoneStays ==
    ASSUME NEW i, Accepted(i), NEW r \in 1 .. Stack(i), NEW pg, DoneIn(i, pg, r), NEW after,
           \A p \in PagesIn(i, r) : p \in DOMAIN after /\ after[p] = pg[p]
    PROVE  DoneIn(i, after, r)
<1>1. \A a \in Bytes(i, r) : PageBase(a) \in PagesIn(i, r)
  BY RangeFacts
<1> QED
  BY <1>1 DEF DoneIn, FilledIn

\* map_pages: the page at the cursor is one of the range, and now fresh.
LEMMA MapPageStep ==
    ASSUME NEW i, Accepted(i), NEW pg, NEW c, MapInv(i, pg, c), c.phase = "map",
           c.page < RangeOf(i, c.range).at + RangeOf(i, c.range).length
    PROVE  /\ c.page \in PagesIn(i, c.range)
           /\ MapInv(i, FreshAt(pg, c.page), [c EXCEPT !.page = @ + PageSize])
<1> DEFINE r == c.range
           new == c.page
           after == FreshAt(pg, new)
           d == [c EXCEPT !.page = @ + PageSize]
           R == RangeOf(i, r)
<1>1. /\ r \in 1 .. Stack(i) /\ new \in Nat /\ Aligned(new) /\ PageBase(R.at) <= new
      /\ c \in [range : 1 .. Stack(i), phase : {"map", "protect"}, page : Nat]
      /\ PageSize \in Nat /\ PageSize > 0 /\ Stack(i) \in Nat
  BY HomebrewAssumption DEF MapInv, Accepted
<1>2. /\ R.at \in Nat /\ R.length \in Nat
      /\ PagesIn(i, r) = {p \in Nat : Aligned(p) /\ PageBase(R.at) <= p /\ p < R.at + R.length}
      /\ \A q \in 1 .. Stack(i) : q # r => PagesIn(i, q) \cap PagesIn(i, r) = {}
  BY <1>1, RangeFacts
<1>3. new \in PagesIn(i, r)
  BY <1>1, <1>2
<1>4. DOMAIN after = DOMAIN pg \cup {new} /\ after[new] = Fresh /\ \A p \in DOMAIN pg : p # new => after[p] = pg[p]
  BY DEF FreshAt
<1>5. /\ \A p \in DOMAIN pg : pg[p] \in PageRecord
      /\ \A q \in 1 .. r - 1 : DoneIn(i, pg, q)
      /\ Mapping(i, pg, c)
  BY DEF MapInv
<1>6. /\ d \in [range : 1 .. Stack(i), phase : {"map", "protect"}, page : Nat]
      /\ d.range = r /\ d.phase = "map" /\ d.page = new + PageSize /\ Aligned(new + PageSize)
      /\ PageBase(R.at) <= d.page
  <2>1. d \in [range : 1 .. Stack(i), phase : {"map", "protect"}, page : Nat] /\ d.range = r /\ d.phase = "map"
        /\ d.page = new + PageSize
    BY <1>1
  <2>2. Aligned(new + PageSize)
    BY <1>1, AlignedNext
  <2>3. PageBase(R.at) \in Nat
    BY <1>2, Divided
  <2> QED
    BY <1>1, <2>1, <2>2, <2>3
<1> HIDE DEF r, new, after, d, R
<1>7. ASSUME NEW p \in PagesIn(i, r) PROVE p < new + PageSize <=> (p < new \/ p = new)
  <2>1. Aligned(p) /\ p \in Nat
    BY <1>2
  <2>2. new < p => new + PageSize <= p
    BY <1>1, <2>1, AlignedApart
  <2> QED
    BY <1>1, <2>1, <2>2
<1>8. Fresh \in PageRecord
  BY DEF Fresh, PageRecord, Access, Zero
<1>9. ASSUME NEW q \in 1 .. r - 1 PROVE DoneIn(i, after, q)
  <2>1. q \in 1 .. Stack(i) /\ q # r
    BY <1>1
  <2>2. new \notin PagesIn(i, q)
    BY <1>2, <1>3, <2>1
  <2>3. \A p \in PagesIn(i, q) : p \in DOMAIN after /\ after[p] = pg[p]
    BY <1>4, <1>5, <2>2 DEF DoneIn
  <2> QED
    BY <1>5, <2>1, <2>3, DoneStays
<1>10. Mapping(i, after, d)
  <2>1. ASSUME NEW p PROVE p \in DOMAIN after <=> \/ \E q \in 1 .. r - 1 : p \in PagesIn(i, q)
                                                  \/ p \in PagesIn(i, r) /\ p < new + PageSize
    BY <1>3, <1>4, <1>5, <1>7 DEF Mapping, r, new
  <2>2. ASSUME NEW p \in PagesIn(i, r), p < new + PageSize PROVE after[p] = Fresh
    <3>1. CASE p = new
      BY <1>4, <3>1
    <3>2. CASE p # new
      BY <1>4, <1>5, <1>7, <2>2, <3>2 DEF Mapping, r, new
    <3> QED
      BY <3>1, <3>2
  <2> QED
    BY <1>6, <2>1, <2>2 DEF Mapping
<1>11. \A p \in DOMAIN after : after[p] \in PageRecord
  BY <1>4, <1>5, <1>8
<1>12. MapInv(i, after, d)
  BY <1>6, <1>9, <1>10, <1>11 DEF MapInv, R
<1> QED
  BY <1>3, <1>12 DEF after, d, r, new

\* A write leaves a page's permissions, and the cells outside its range.
LEMMA WrittenIs ==
    ASSUME NEW i, Accepted(i), NEW r \in 1 .. Stack(i), NEW page \in PageRecord, NEW p, Aligned(p)
    PROVE  LET R == RangeOf(i, r)
               w == Written(page, p, R, r)
           IN  /\ w \in PageRecord /\ w.access = page.access
               /\ \A a \in Bytes(i, r) : PageBase(a) = p => w.cells[a % PageSize] = <<r, a - R.at>>
               /\ p \notin PagesIn(i, r) => w = page
<1> DEFINE R == RangeOf(i, r)
           w == Written(page, p, R, r)
           cells == [o \in 0 .. PageSize - 1 |-> IF p + o \in Bytes(i, r) THEN <<r, p + o - R.at>> ELSE page.cells[o]]
<1>1. PageSize \in Nat /\ p \in Nat /\ R.at \in Nat /\ R.length \in Nat /\ r \in Nat
  BY RangeFacts, HomebrewAssumption DEF Aligned
<1>2. /\ page.access \in Access /\ page.cells \in [0 .. PageSize - 1 -> Nat \X Nat]
      /\ page = [access |-> page.access, cells |-> page.cells]
  BY DEF PageRecord
<1>3. w = [access |-> page.access, cells |-> cells]
  <2>1. w = [page EXCEPT !.cells = cells]
    BY DEF Written, Bytes
  <2> HIDE DEF w, cells, R
  <2> QED
    BY <1>2, <2>1
<1>4. ASSUME NEW o \in 0 .. PageSize - 1, p + o \in Bytes(i, r) PROVE <<r, p + o - R.at>> \in Nat \X Nat
  <2>1. p + o - R.at \in Nat
    BY <1>1, <1>4 DEF Bytes
  <2> QED
    BY <1>1, <2>1
<1>5. cells \in [0 .. PageSize - 1 -> Nat \X Nat]
  BY <1>2, <1>4
<1>6. w \in PageRecord /\ w.access = page.access /\ w.cells = cells
  BY <1>2, <1>3, <1>5 DEF PageRecord
<1>7. ASSUME NEW a \in Bytes(i, r), PageBase(a) = p PROVE w.cells[a % PageSize] = <<r, a - R.at>>
  <2>1. PICK o \in 0 .. PageSize - 1 : o = (a % PageSize) /\ p + o = a
    BY <1>7, RangeFacts
  <2>2. cells[o] = <<r, p + o - R.at>>
    BY <2>1
  <2>3. p + o - R.at = a - R.at
    BY <1>1, <2>1
  <2>4. w.cells[a % PageSize] = cells[o]
    BY <1>6, <2>1, Zenon
  <2> HIDE DEF cells, w, R
  <2> QED
    BY ONLY <2>2, <2>3, <2>4
<1>8. ASSUME p \notin PagesIn(i, r) PROVE w = page
  <2>1. ASSUME NEW o \in 0 .. PageSize - 1 PROVE p + o \notin Bytes(i, r)
    <3>1. p + o \in Nat /\ p <= p + o /\ p + o < p + PageSize
      BY <1>1
    <3>2. PageBase(p + o) = p
      BY <3>1, BaseIs
    <3> QED
      BY <1>8, <3>2, RangeFacts
  <2>2. cells = page.cells
    BY <1>2, <2>1
  <2> QED
    BY <1>2, <1>3, <2>2
<1> QED
  BY <1>6, <1>7, <1>8

\* When map_pages is through, all pages of the range are fresh.
LEMMA AllMapped ==
    ASSUME NEW i, Accepted(i), NEW pg, NEW c, MapInv(i, pg, c), c.phase = "map",
           ~(c.page < RangeOf(i, c.range).at + RangeOf(i, c.range).length)
    PROVE  /\ c.range \in 1 .. Stack(i)
           /\ \A p : p \in DOMAIN pg <=> \E r \in 1 .. c.range : p \in PagesIn(i, r)
           /\ \A p \in PagesIn(i, c.range) : p \in DOMAIN pg /\ pg[p] = Fresh
<1> DEFINE r == c.range
<1>1. r \in 1 .. Stack(i) /\ c.page \in Nat /\ Mapping(i, pg, c)
  BY DEF MapInv
<1>2. \A p \in PagesIn(i, r) : p < c.page
  BY <1>1, RangeFacts
<1>3. ASSUME NEW p PROVE p \in DOMAIN pg <=> \E q \in 1 .. r : p \in PagesIn(i, q)
  <2>1. \A q : q \in 1 .. r <=> q \in 1 .. r - 1 \/ q = r
    BY <1>1 DEF Accepted
  <2> QED
    BY <1>1, <1>2, <2>1 DEF Mapping
<1>4. ASSUME NEW p \in PagesIn(i, r) PROVE p \in DOMAIN pg /\ pg[p] = Fresh
  BY <1>1, <1>2 DEF Mapping
<1> QED
  BY <1>1, <1>3, <1>4

\* Writing a range finds all its pages mapped and writable, and fills them.
LEMMA WriteStep ==
    ASSUME NEW i, Accepted(i), NEW pg, NEW c, MapInv(i, pg, c), c.phase = "map", c.range # Stack(i),
           ~(c.page < RangeOf(i, c.range).at + RangeOf(i, c.range).length)
    PROVE  LET R == RangeOf(i, c.range)
           IN  /\ \A a \in R.at .. R.at + R.length - 1 : PageBase(a) \in DOMAIN pg /\ pg[PageBase(a)].access = "rw"
               /\ MapInv(i, [p \in DOMAIN pg |-> Written(pg[p], p, R, c.range)],
                         [range |-> c.range, phase |-> "protect", page |-> PageBase(R.at)])
<1> DEFINE r == c.range
           R == RangeOf(i, r)
           after == [p \in DOMAIN pg |-> Written(pg[p], p, R, r)]
           d == [range |-> r, phase |-> "protect", page |-> PageBase(R.at)]
<1>1. /\ r \in 1 .. Stack(i) /\ r # Stack(i) /\ Stack(i) \in Nat
      /\ \A p : p \in DOMAIN pg <=> \E q \in 1 .. r : p \in PagesIn(i, q)
      /\ \A p \in PagesIn(i, r) : p \in DOMAIN pg /\ pg[p] = Fresh
  BY AllMapped DEF Accepted
<1>2. /\ R.at \in Nat /\ PageBase(R.at) \in Nat /\ Aligned(PageBase(R.at)) /\ PageBase(R.at) <= PageBase(R.at)
      /\ PagesIn(i, r) = {p \in Nat : Aligned(p) /\ PageBase(R.at) <= p /\ p < R.at + R.length}
      /\ \A a \in Bytes(i, r) : PageBase(a) \in PagesIn(i, r)
      /\ \A q \in 1 .. Stack(i) : q # r => PagesIn(i, q) \cap PagesIn(i, r) = {}
  <2>1. R.at \in Nat
    BY <1>1, RangeFacts
  <2>2. PageBase(R.at) \in Nat /\ Aligned(PageBase(R.at)) /\ PageBase(R.at) <= PageBase(R.at)
    BY <2>1, BaseOf, Divided
  <2> QED
    BY <1>1, <2>1, <2>2, RangeFacts
<1>3. \A a \in Bytes(i, r) : PageBase(a) \in DOMAIN pg /\ pg[PageBase(a)].access = "rw"
  BY <1>1, <1>2 DEF Fresh
<1>4. \A q \in 1 .. r : q \in 1 .. Stack(i)
  BY <1>1
<1>5. ASSUME NEW p \in DOMAIN pg PROVE Aligned(p)
  <2>1. PICK q \in 1 .. r : p \in PagesIn(i, q)
    BY <1>1
  <2> QED
    BY <1>4, <2>1, RangeFacts
<1>6. /\ \A p \in DOMAIN pg : pg[p] \in PageRecord
      /\ \A q \in 1 .. r - 1 : DoneIn(i, pg, q)
  BY DEF MapInv
<1>7. DOMAIN after = DOMAIN pg /\ \A p \in DOMAIN pg : after[p] = Written(pg[p], p, R, r)
  OBVIOUS
<1>8. ASSUME NEW p \in DOMAIN pg
      PROVE  /\ after[p] \in PageRecord /\ after[p].access = pg[p].access
             /\ \A a \in Bytes(i, r) : PageBase(a) = p => after[p].cells[a % PageSize] = <<r, a - R.at>>
             /\ p \notin PagesIn(i, r) => after[p] = pg[p]
  BY <1>1, <1>5, <1>6, <1>7, WrittenIs
<1> HIDE DEF after
<1>9. ASSUME NEW q \in 1 .. r - 1 PROVE DoneIn(i, after, q)
  <2>1. q \in 1 .. Stack(i) /\ q # r
    BY <1>1
  <2>2. \A p \in PagesIn(i, q) : p \in DOMAIN after /\ after[p] = pg[p]
    BY <1>2, <1>6, <1>7, <1>8, <2>1 DEF DoneIn
  <2> QED
    BY <1>6, <2>1, <2>2, DoneStays
<1>10. FilledIn(i, after, r)
  <2>1. ASSUME NEW a \in Bytes(i, r)
        PROVE  PageBase(a) \in DOMAIN after /\ after[PageBase(a)].cells[a % PageSize] = ContentAt(i, r, a)
    <3>1. PageBase(a) \in DOMAIN pg
      BY <1>3
    <3>2. after[PageBase(a)].cells[a % PageSize] = <<r, a - R.at>>
      BY <1>8, <3>1
    <3>3. ContentAt(i, r, a) = <<r, a - R.at>>
      BY <1>1 DEF ContentAt
    <3> QED
      BY <1>7, <3>1, <3>2, <3>3, Zenon
  <2> QED
    BY <2>1 DEF FilledIn
<1>11. \A p \in PagesIn(i, r) : after[p].access = "rw" /\ ~(p < PageBase(R.at))
  BY <1>1, <1>2, <1>8 DEF Fresh
<1> HIDE DEF r, R
<1>12. Protecting(i, after, d)
  BY <1>1, <1>7, <1>10, <1>11 DEF Protecting
<1>13. MapInv(i, after, d)
  BY <1>1, <1>2, <1>7, <1>8, <1>9, <1>12 DEF MapInv, R
<1> QED
  BY <1>3, <1>13 DEF after, d, r, R, Bytes

\* Setting a page's permissions finds it mapped and keeps what it holds.
LEMMA SetPageStep ==
    ASSUME NEW i, Accepted(i), NEW pg, NEW c, MapInv(i, pg, c), c.phase = "protect",
           c.page < RangeOf(i, c.range).at + RangeOf(i, c.range).length
    PROVE  /\ c.page \in DOMAIN pg
           /\ MapInv(i, [pg EXCEPT ![c.page].access = RangeOf(i, c.range).access], [c EXCEPT !.page = @ + PageSize])
<1> DEFINE r == c.range
           at == c.page
           R == RangeOf(i, r)
           after == [pg EXCEPT ![at].access = R.access]
           d == [c EXCEPT !.page = @ + PageSize]
<1>1. /\ r \in 1 .. Stack(i) /\ at \in Nat /\ Aligned(at) /\ PageBase(R.at) <= at
      /\ c \in [range : 1 .. Stack(i), phase : {"map", "protect"}, page : Nat]
      /\ PageSize \in Nat /\ PageSize > 0 /\ Stack(i) \in Nat
  BY HomebrewAssumption DEF MapInv, Accepted
<1>2. /\ R.at \in Nat /\ R.length \in Nat /\ R.access \in Access
      /\ PagesIn(i, r) = {p \in Nat : Aligned(p) /\ PageBase(R.at) <= p /\ p < R.at + R.length}
      /\ \A q \in 1 .. Stack(i) : q # r => PagesIn(i, q) \cap PagesIn(i, r) = {}
  BY <1>1, RangeFacts
<1>3. /\ \A p \in DOMAIN pg : pg[p] \in PageRecord
      /\ \A q \in 1 .. r - 1 : DoneIn(i, pg, q)
      /\ Protecting(i, pg, c)
  BY DEF MapInv
<1>4. at \in PagesIn(i, r) /\ at \in DOMAIN pg
  <2>1. at \in PagesIn(i, r)
    BY <1>1, <1>2
  <2> QED
    BY <1>1, <1>3, <2>1 DEF Protecting
<1>5. /\ d \in [range : 1 .. Stack(i), phase : {"map", "protect"}, page : Nat]
      /\ d.range = r /\ d.phase = "protect" /\ d.page = at + PageSize /\ Aligned(at + PageSize)
      /\ PageBase(R.at) <= d.page
  <2>1. d \in [range : 1 .. Stack(i), phase : {"map", "protect"}, page : Nat] /\ d.range = r /\ d.phase = "protect"
        /\ d.page = at + PageSize
    BY <1>1
  <2>2. Aligned(at + PageSize)
    BY <1>1, AlignedNext
  <2>3. PageBase(R.at) \in Nat
    BY <1>2, Divided
  <2> QED
    BY <1>1, <2>1, <2>2, <2>3
<1>6. /\ DOMAIN after = DOMAIN pg /\ \A p \in DOMAIN pg : p # at => after[p] = pg[p]
      /\ after[at] \in PageRecord /\ after[at].access = R.access /\ after[at].cells = pg[at].cells
  <2>1. pg[at] \in PageRecord
    BY <1>3, <1>4
  <2>2. after[at] = [pg[at] EXCEPT !.access = R.access]
    BY <1>4
  <2>3. [pg[at] EXCEPT !.access = R.access] \in PageRecord /\ [pg[at] EXCEPT !.access = R.access].access = R.access
        /\ [pg[at] EXCEPT !.access = R.access].cells = pg[at].cells
    BY <1>2, <2>1 DEF PageRecord
  <2> QED
    BY <2>2, <2>3
<1> HIDE DEF r, at, after, d, R
<1>7. ASSUME NEW p \in PagesIn(i, r) PROVE p < at + PageSize <=> (p < at \/ p = at)
  <2>1. Aligned(p) /\ p \in Nat
    BY <1>2
  <2>2. at < p => at + PageSize <= p
    BY <1>1, <2>1, AlignedApart
  <2> QED
    BY <1>1, <2>1, <2>2
<1>8. ASSUME NEW q \in 1 .. r - 1 PROVE DoneIn(i, after, q)
  <2>1. q \in 1 .. Stack(i) /\ q # r
    BY <1>1
  <2>2. \A p \in PagesIn(i, q) : p \in DOMAIN after /\ after[p] = pg[p]
    BY <1>2, <1>3, <1>4, <1>6, <2>1 DEF DoneIn
  <2> QED
    BY <1>3, <2>1, <2>2, DoneStays
<1>9. Protecting(i, after, d)
  <2>1. FilledIn(i, pg, r) /\ r # Stack(i) /\ (\A p : p \in DOMAIN pg <=> \E q \in 1 .. r : p \in PagesIn(i, q))
        /\ \A p \in PagesIn(i, r) : pg[p].access = IF p < at THEN R.access ELSE "rw"
    BY <1>3 DEF Protecting, r, at, R
  <2>2. \A p \in DOMAIN pg : after[p].cells = pg[p].cells
    BY <1>6
  <2>3. FilledIn(i, after, r)
    BY <1>6, <2>1, <2>2 DEF FilledIn
  <2>4. ASSUME NEW p \in PagesIn(i, r) PROVE after[p].access = IF p < at + PageSize THEN R.access ELSE "rw"
    <3>1. p \in DOMAIN pg
      BY <1>1, <2>1
    <3>2. CASE p = at
      BY <1>6, <1>7, <3>2
    <3>3. CASE p # at
      BY <1>6, <1>7, <2>1, <3>1, <3>3
    <3> QED
      BY <3>2, <3>3
  <2> QED
    BY <1>5, <1>6, <2>1, <2>3, <2>4 DEF Protecting, R
<1>10. \A p \in DOMAIN after : after[p] \in PageRecord
  BY <1>3, <1>6
<1>11. MapInv(i, after, d)
  BY <1>5, <1>8, <1>9, <1>10 DEF MapInv, R
<1> QED
  BY <1>4, <1>11 DEF after, d, r, at, R

\* When set_pages is through, the range is done and the next one begins.
LEMMA NextRangeStep ==
    ASSUME NEW i, Accepted(i), NEW pg, NEW c, MapInv(i, pg, c), c.phase = "protect",
           ~(c.page < RangeOf(i, c.range).at + RangeOf(i, c.range).length)
    PROVE  MapInv(i, pg, [range |-> c.range + 1, phase |-> "map", page |-> PageBase(RangeOf(i, c.range + 1).at)])
<1> DEFINE r == c.range
           R == RangeOf(i, r)
           following == PageBase(RangeOf(i, r + 1).at)
           d == [range |-> r + 1, phase |-> "map", page |-> following]
<1>1. /\ r \in 1 .. Stack(i) /\ c.page \in Nat /\ Stack(i) \in Nat
      /\ \A p \in DOMAIN pg : pg[p] \in PageRecord
      /\ \A q \in 1 .. r - 1 : DoneIn(i, pg, q)
      /\ Protecting(i, pg, c)
  BY DEF MapInv, Accepted
<1>2. /\ R.at \in Nat /\ R.length \in Nat
      /\ PagesIn(i, r) = {p \in Nat : Aligned(p) /\ PageBase(R.at) <= p /\ p < R.at + R.length}
  BY <1>1, RangeFacts
<1>3. /\ r # Stack(i) /\ (\A p : p \in DOMAIN pg <=> \E q \in 1 .. r : p \in PagesIn(i, q))
      /\ FilledIn(i, pg, r)
      /\ \A p \in PagesIn(i, r) : pg[p].access = IF p < c.page THEN R.access ELSE "rw"
  BY <1>1 DEF Protecting
<1>4. \A p \in PagesIn(i, r) : p \in DOMAIN pg /\ pg[p].access = R.access
  BY <1>1, <1>2, <1>3
<1>5. DoneIn(i, pg, r)
  BY <1>3, <1>4 DEF DoneIn
<1>6. r + 1 \in 1 .. Stack(i)
  BY <1>1, <1>3
<1>7. RangeOf(i, r + 1).at \in Nat
  BY <1>6, RangeFacts
<1>8. following \in Nat /\ Aligned(following) /\ \A p \in PagesIn(i, r + 1) : ~(p < following)
  <2>1. following \in Nat /\ Aligned(following)
    BY <1>7, BaseOf, Divided
  <2>2. PagesIn(i, r + 1) = {p \in Nat : Aligned(p) /\ following <= p /\ p < RangeOf(i, r + 1).at + RangeOf(i, r + 1).length}
    BY <1>6, RangeFacts
  <2> QED
    BY <2>1, <2>2
<1>9. d.range = r + 1 /\ d.phase = "map" /\ d.page = following
      /\ d \in [range : 1 .. Stack(i), phase : {"map", "protect"}, page : Nat]
  BY <1>6, <1>8
<1>10. d.range - 1 = r
  BY <1>1
<1> HIDE DEF r, R, d
<1>11. \A q \in 1 .. r : DoneIn(i, pg, q)
  <2>1. ASSUME NEW q \in 1 .. r PROVE q = r \/ q \in 1 .. r - 1
    BY <1>1
  <2> QED
    BY <1>1, <1>5, <2>1
<1>12. Mapping(i, pg, d)
  BY <1>3, <1>8, <1>9, <1>10 DEF Mapping
<1> QED
  BY <1>1, <1>8, <1>9, <1>10, <1>11, <1>12 DEF MapInv, d, r

\* All ranges are done, and no other page is mapped.
AllDone(i, pg) ==
    /\ \A p : p \in DOMAIN pg <=> \E r \in 1 .. Stack(i) : p \in PagesIn(i, r)
    /\ \A r \in 1 .. Stack(i) : DoneIn(i, pg, r)
\* The stack stays as it was mapped: then everything is done.
LEMMA LoadedStep ==
    ASSUME NEW i, Accepted(i), NEW pg, NEW c, MapInv(i, pg, c), c.phase = "map", c.range = Stack(i),
           ~(c.page < RangeOf(i, c.range).at + RangeOf(i, c.range).length)
    PROVE  AllDone(i, pg)
<1> DEFINE r == Stack(i)
<1>1. /\ r \in 1 .. r /\ r \in Nat /\ r >= 2
      /\ \A p : p \in DOMAIN pg <=> \E q \in 1 .. r : p \in PagesIn(i, q)
      /\ \A p \in PagesIn(i, r) : p \in DOMAIN pg /\ pg[p] = Fresh
      /\ \A q \in 1 .. r - 1 : DoneIn(i, pg, q)
  BY AllMapped DEF Accepted, MapInv
<1>2. RangeOf(i, r).access = "rw"
  BY <1>1 DEF RangeOf, Stack
<1>3. FilledIn(i, pg, r)
  <2>1. ASSUME NEW a \in Bytes(i, r)
        PROVE  PageBase(a) \in DOMAIN pg /\ pg[PageBase(a)].cells[a % PageSize] = ContentAt(i, r, a)
    <3>1. PageBase(a) \in PagesIn(i, r)
      BY <1>1, RangeFacts
    <3>2. PICK o \in 0 .. PageSize - 1 : o = (a % PageSize)
      BY <1>1, RangeFacts
    <3>3. pg[PageBase(a)] = Fresh /\ PageBase(a) \in DOMAIN pg /\ Fresh.cells[o] = Zero
      BY <1>1, <3>1 DEF Fresh
    <3> QED
      BY <3>2, <3>3 DEF ContentAt
  <2> QED
    BY <2>1 DEF FilledIn
<1>4. DoneIn(i, pg, r)
  BY <1>1, <1>2, <1>3 DEF DoneIn, Fresh
<1>5. ASSUME NEW q \in 1 .. r PROVE q = r \/ q \in 1 .. r - 1
  BY <1>1
<1> QED
  BY <1>1, <1>4, <1>5 DEF AllDone

-----------------------------------------------------------------------------
(* What each answer says of the file and of what is mapped.                *)

ImportInv ==
    /\ loaded # "none" => image \in Images
    /\ loaded = "parse" => pages = Unmapped
    /\ loaded \in {"map", "ok", "Memory", "TotalMappingTooLarge"} => Accepted(image)
    /\ loaded = "map" => MapInv(image, pages, cursor)
    /\ loaded = "ok" => AllDone(image, pages)
    /\ loaded = "Memory" => \E r \in 1 .. Stack(image) : \E p \in PagesIn(image, r) : p + PageSize > ArenaSize
    /\ loaded = "OverlappingRanges" => ClashIn(image)

\* Nothing is mapped at first.
LEMMA ImportStarts == ImportInit \/ NoImport => ImportInv
  BY DEF ImportInit, NoImport, ImportInv

\* HomebrewModule::parse refuses or hands map_into an accepted file.
LEMMA ParseStep == ASSUME ImportInv, Parse PROVE ImportInv'
<1>1. loaded = "parse" /\ image \in Images /\ pages = Unmapped /\ image' = image /\ pages' = pages
  BY DEF Parse, ImportInv
<1>2. /\ ParseError(image) = "none" => Accepted(image)
      /\ ParseError(image) = "OverlappingRanges" => ClashIn(image)
      /\ ParseError(image) \in ProgramErrors \cup {"none", "OverlappingRanges"}
  BY <1>1, Parsed
<1>3. CASE loaded' = ParseError(image) /\ ParseError(image) # "none"
  BY <1>1, <1>2, <1>3 DEF ImportInv, ProgramErrors
<1>4. CASE loaded' = "TotalMappingTooLarge" /\ ParseError(image) = "none"
  BY <1>1, <1>2, <1>4 DEF ImportInv
<1>5. CASE loaded' = "map" /\ cursor' = AtRange(1, "map") /\ ParseError(image) = "none"
  <2>1. Accepted(image) /\ Stack(image) \in Nat /\ 1 \in 1 .. Stack(image)
    BY <1>2, <1>5 DEF Accepted
  <2> DEFINE first == PageBase(RangeOf(image, 1).at)
  <2>2. cursor' = [range |-> 1, phase |-> "map", page |-> first]
    BY <1>5 DEF AtRange
  <2>3. first \in Nat /\ Aligned(first)
    BY <2>1, RangeFacts, BaseOf, Divided
  <2>4. \A p \in PagesIn(image, 1) : p \in Nat /\ ~(p < first)
    BY <2>1, <2>3, RangeFacts
  <2>5. DOMAIN pages = {}
    BY <1>1 DEF Unmapped
  <2>6. Mapping(image, pages, cursor')
    BY <2>2, <2>4, <2>5 DEF Mapping
  <2>7. MapInv(image, pages, cursor')
    BY <2>1, <2>2, <2>3, <2>5, <2>6 DEF MapInv
  <2> QED
    BY <1>1, <1>5, <2>1, <2>7 DEF ImportInv
<1> QED
  BY <1>3, <1>4, <1>5 DEF Parse

\* Every step of map_into.
LEMMA MapImportStep ==
    ASSUME ImportInv, MapPage \/ WriteBytes \/ SetPage \/ NextRange \/ Loaded
    PROVE  ImportInv'
<1>1. loaded = "map" /\ image \in Images /\ Accepted(image) /\ MapInv(image, pages, cursor) /\ image' = image
  BY DEF ImportInv, MapPage, WriteBytes, SetPage, NextRange, Loaded, OnPage, Refused
<1>2. CASE MapPage
  <2>1. /\ cursor.page \in PagesIn(image, cursor.range)
        /\ MapInv(image, FreshAt(pages, cursor.page), [cursor EXCEPT !.page = @ + PageSize])
    BY <1>1, <1>2, MapPageStep DEF MapPage, OnPage, PagesLeft, Here
  <2>2. CASE cursor.page + PageSize > ArenaSize /\ Refused
    <3>1. cursor.range \in 1 .. Stack(image)
      BY <1>1 DEF MapInv
    <3> QED
      BY <1>1, <2>1, <2>2, <3>1 DEF ImportInv, Refused
  <2>3. CASE loaded' = loaded /\ pages' = FreshAt(pages, cursor.page) /\ cursor' = [cursor EXCEPT !.page = @ + PageSize]
    BY <1>1, <2>1, <2>3 DEF ImportInv
  <2> QED
    BY <1>2, <2>2, <2>3 DEF MapPage
<1>3. CASE WriteBytes
  <2> DEFINE after == [p \in DOMAIN pages |-> Written(pages[p], p, RangeOf(image, cursor.range), cursor.range)]
  <2>1. Writable(Here) /\ MapInv(image, after, AtRange(cursor.range, "protect"))
    BY <1>1, <1>3, WriteStep DEF WriteBytes, OnPage, PagesLeft, Here, AtRange, Writable
  <2>2. loaded' = loaded /\ pages' = after /\ cursor' = AtRange(cursor.range, "protect")
    BY <1>3, <2>1 DEF WriteBytes, Here
  <2> QED
    BY <1>1, <2>1, <2>2 DEF ImportInv
<1>4. CASE SetPage
  <2> DEFINE after == [pages EXCEPT ![cursor.page].access = RangeOf(image, cursor.range).access]
  <2>1. cursor.page \in DOMAIN pages /\ MapInv(image, after, [cursor EXCEPT !.page = @ + PageSize])
    BY <1>1, <1>4, SetPageStep DEF SetPage, OnPage, PagesLeft, Here
  <2>2. loaded' = loaded /\ pages' = after /\ cursor' = [cursor EXCEPT !.page = @ + PageSize]
    BY <1>4, <2>1 DEF SetPage, Here
  <2> QED
    BY <1>1, <2>1, <2>2 DEF ImportInv
<1>5. CASE NextRange
  <2>1. MapInv(image, pages, cursor')
    BY <1>1, <1>5, NextRangeStep DEF NextRange, OnPage, PagesLeft, Here, AtRange
  <2> QED
    BY <1>1, <1>5, <2>1 DEF ImportInv, NextRange
<1>6. CASE Loaded
  <2>1. AllDone(image, pages)
    BY <1>1, <1>6, LoadedStep DEF Loaded, OnPage, PagesLeft, Here
  <2> QED
    BY <1>1, <1>6, <2>1 DEF ImportInv, Loaded
<1> QED
  BY <1>2, <1>3, <1>4, <1>5, <1>6

\* The other parts leave the import alone.
LEMMA ImportStays == ImportInv /\ UNCHANGED importVars => ImportInv'
  BY DEF ImportInv, importVars

\* What the invariant says of a loaded homebrew.
LEMMA ImportInvFaithful == ImportInv => ImportFaithful
<1> SUFFICES ASSUME ImportInv PROVE ImportFaithful
  OBVIOUS
<1>1. \A r : NeededBy(r) = PagesIn(image, r)
  BY DEF NeededBy, PagesIn
<1>2. ClashIn(image) <=> Clash
  BY DEF ClashIn, Clash, NeededBy
<1>3. ASSUME Accepted(image) PROVE ~Clash
  BY <1>2, <1>3 DEF Accepted
<1>4. ASSUME loaded = "ok"
      PROVE  /\ Holds(1, image.load, image.length, "rx") /\ Holds(0, image.top - image.size, image.size, "rw")
             /\ \A n \in DOMAIN image.segments :
                   Holds(n + 1, image.segments[n].at, image.segments[n].length, image.segments[n].access)
             /\ DOMAIN pages = UNION {NeededBy(r) : r \in 1 .. Stack(image)}
             /\ pages[PageBase(image.entry)].access = "rx"
  <2>1. /\ image \in Images /\ Accepted(image) /\ AllDone(image, pages)
        /\ image.segments \in Seq(Segments) /\ DOMAIN image.segments = 1 .. Len(image.segments)
        /\ Len(image.segments) \in Nat /\ Stack(image) = Len(image.segments) + 2
    BY <1>4, HomebrewAssumption DEF ImportInv, Stack
  <2>2. ASSUME NEW r \in 1 .. Stack(image), NEW k, k = IF r = Stack(image) THEN 0 ELSE r
        PROVE  Holds(k, RangeOf(image, r).at, RangeOf(image, r).length, RangeOf(image, r).access)
    <3>1. ASSUME NEW a \in RangeOf(image, r).at .. RangeOf(image, r).at + RangeOf(image, r).length - 1
          PROVE  /\ PageBase(a) \in DOMAIN pages /\ pages[PageBase(a)].access = RangeOf(image, r).access
                 /\ pages[PageBase(a)].cells[a % PageSize] = IF k = 0 THEN Zero ELSE <<k, a - RangeOf(image, r).at>>
      <4>1. a \in Bytes(image, r) /\ DoneIn(image, pages, r) /\ r # 0
        BY <2>1 DEF Bytes, AllDone
      <4>2. PageBase(a) \in PagesIn(image, r)
        BY <2>1, <4>1, RangeFacts
      <4>3. PageBase(a) \in DOMAIN pages /\ pages[PageBase(a)].access = RangeOf(image, r).access
        BY <4>1, <4>2 DEF DoneIn
      <4>4. pages[PageBase(a)].cells[a % PageSize] = ContentAt(image, r, a)
        BY <4>1 DEF DoneIn, FilledIn
      <4> QED
        BY <2>2, <4>1, <4>3, <4>4 DEF ContentAt
    <3> QED
      BY <3>1 DEF Holds
  <2>3. Holds(1, image.load, image.length, "rx")
    <3>1. RangeOf(image, 1) = [at |-> image.load, length |-> image.length, access |-> "rx"] /\ 1 \in 1 .. Stack(image)
          /\ 1 # Stack(image)
      BY <2>1 DEF RangeOf
    <3>2. Holds(1, RangeOf(image, 1).at, RangeOf(image, 1).length, RangeOf(image, 1).access)
      BY <2>2, <3>1
    <3> QED
      BY <3>1, <3>2
  <2>4. Holds(0, image.top - image.size, image.size, "rw")
    <3> DEFINE r == Stack(image)
    <3>1. RangeOf(image, r) = [at |-> image.top - image.size, length |-> image.size, access |-> "rw"] /\ r \in 1 .. r
      BY <2>1 DEF RangeOf
    <3>2. Holds(0, RangeOf(image, r).at, RangeOf(image, r).length, RangeOf(image, r).access)
      BY <2>2, <3>1
    <3> QED
      BY <3>1, <3>2
  <2>5. ASSUME NEW n \in DOMAIN image.segments
        PROVE  Holds(n + 1, image.segments[n].at, image.segments[n].length, image.segments[n].access)
    <3>1. n + 1 \in 1 .. Stack(image) /\ n + 1 # Stack(image) /\ n + 1 # 1 /\ n + 1 - 1 = n
      BY <2>1
    <3>2. RangeOf(image, n + 1) = image.segments[n]
      BY <2>1, <3>1 DEF RangeOf
    <3>3. Holds(n + 1, RangeOf(image, n + 1).at, RangeOf(image, n + 1).length, RangeOf(image, n + 1).access)
      BY <2>2, <3>1
    <3> QED
      BY <3>2, <3>3
  <2>6. DOMAIN pages = UNION {NeededBy(r) : r \in 1 .. Stack(image)}
    BY <1>1, <2>1 DEF AllDone
  <2>7. pages[PageBase(image.entry)].access = "rx"
    BY <2>1, <2>3 DEF Holds, Accepted
  <2> QED
    BY <2>3, <2>4, <2>5, <2>6, <2>7
<1>5. loaded = "Memory" => \E r \in 1 .. Stack(image) : \E p \in NeededBy(r) : p + PageSize > ArenaSize
  BY <1>1 DEF ImportInv
<1> QED
  BY <1>2, <1>3, <1>4, <1>5 DEF ImportInv, ImportFaithful

-----------------------------------------------------------------------------
(* The four together.                                                      *)

ServicesInv == IpcInv /\ AudioInv /\ SchedInv /\ ImportInv

\* No part has done anything.
LEMMA ServicesInit == Init => ServicesInv
<1> SUFFICES ASSUME Init PROVE ServicesInv
  OBVIOUS
<1>1. Tables /\ DOMAIN sessions \subseteq granted
  BY EmptyTables DEF Init, TableInit, Tables, Empty
<1>2. IpcInv
  BY <1>1, Unanswered DEF Init, IpcInv
<1> QED
  BY <1>2, AudioInitInv, SchedInitInv, ImportStarts DEF Init, ServicesInv

\* A step of one part is a step or a stutter of each invariant.
LEMMA ServicesStep == ServicesInv /\ [Next]_vars => ServicesInv'
<1> SUFFICES ASSUME ServicesInv, [Next]_vars PROVE ServicesInv'
  OBVIOUS
<1>0. IpcInv /\ AudioInv /\ SchedInv /\ ImportInv
  BY DEF ServicesInv
<1>1. SchedInv /\ UNCHANGED schedVars => SchedInv'
  BY SchedStep
<1>2. AudioInv /\ UNCHANGED audioVars => AudioInv'
  BY AudioStays DEF audioVars
<1>5. ImportInv /\ UNCHANGED importVars => ImportInv'
  BY ImportStays
<1>3. CASE UNCHANGED vars
  <2>1. UNCHANGED <<part, bootVars, tableVars, audioVars, schedVars, importVars>>
    BY <1>3 DEF vars
  <2>2. IpcInv'
    BY <1>0, <2>1, IpcStays DEF bootVars
  <2> QED
    BY <1>0, <1>1, <1>2, <1>5, <2>1, <2>2 DEF ServicesInv
<1>4. CASE Next
  <2>0. part' = part
    BY <1>4 DEF Next
  <2>1. CASE part = "import" /\ ImportNext /\ UNCHANGED <<bootVars, tableVars, audioVars, schedVars>>
    <3>1. IpcInv'
      BY <1>0, <2>0, <2>1, IpcStays DEF bootVars
    <3>2. ImportInv'
      BY <1>0, <2>1, ParseStep, MapImportStep DEF ImportNext
    <3> QED
      BY <1>0, <1>1, <1>2, <2>1, <3>1, <3>2 DEF ServicesInv
  <2>2. CASE part = "boot" /\ Guest /\ UNCHANGED importVars
    <3>1. UNCHANGED schedVars
      BY <2>2 DEF Guest, StartBoot, EndOfBoot, SvcStops, SvcOpenAudio, SvcAudioIpc, SvcQuery, Prepare
    <3>2. IpcInv' /\ AudioInv'
      <4>1. CASE SvcAudioIpc
        BY <1>0, <2>0, <2>2, <4>1, AudioIpcStep
      <4>2. CASE ~SvcAudioIpc
        BY <1>0, <1>2, <2>0, <2>2, <4>2, OtherGuestStep
      <4> QED
        BY <4>1, <4>2
    <3> QED
      BY <1>0, <1>1, <1>5, <2>2, <3>1, <3>2 DEF ServicesInv
  <2>3. CASE part = "boot" /\ Host /\ UNCHANGED importVars
    <3>1. UNCHANGED schedVars
      BY <2>3 DEF Host
    <3> QED
      BY <1>0, <1>1, <1>5, <2>0, <2>3, <3>1, HostStep DEF ServicesInv
  <2>4. CASE part = "table" /\ Client /\ UNCHANGED importVars
    <3>1. UNCHANGED schedVars
      BY <2>4 DEF Client
    <3> QED
      BY <1>0, <1>1, <1>2, <1>5, <2>0, <2>4, <3>1, ClientStep DEF ServicesInv
  <2>5. ASSUME NEW words \in Owned \cup Buffers, part \in {"table", "codec"}, Decode(words), UNCHANGED importVars
        PROVE  ServicesInv'
    <3>1. UNCHANGED schedVars /\ words \in Seq(Nat) /\ part # "boot"
      BY <2>5, ServicesAssumption DEF Decode
    <3> QED
      BY <1>0, <1>1, <1>2, <1>5, <2>0, <2>5, <3>1, DecodeStep DEF ServicesInv
  <2>6. CASE part = "threads" /\ Threads /\ UNCHANGED importVars
    <3>1. SchedNext /\ UNCHANGED <<bootVars, tableVars, audioVars>>
      BY <2>6 DEF Threads
    <3>2. SchedInv'
      BY <1>0, <3>1, SchedStep
    <3>3. IpcInv'
      BY <1>0, <2>0, <3>1, IpcStays DEF bootVars
    <3> QED
      BY <1>0, <1>2, <1>5, <2>6, <3>1, <3>2, <3>3 DEF ServicesInv
  <2> QED
    BY <1>4, <2>1, <2>2, <2>3, <2>4, <2>5, <2>6 DEF Next
<1> QED
  BY <1>3, <1>4

\* In every reachable state the scheduler is fair and its replay log is the
\* newest part of what happened (Scheduler::run_synthetic, ReplayLog).
THEOREM SchedulerAlwaysCorrect == Spec => []SchedulerCorrect
<1>1. ServicesInv => SchedulerCorrect
  BY FairlyScheduled, ReplayedAsLogged DEF ServicesInv, SchedulerCorrect
<1> QED
  BY ServicesInit, ServicesStep, <1>1, PTL DEF Spec

\* In every reachable state the frames have left the audio queue in the order
\* and the pairs they were taken in, each once, and the counters say so
\* (AudioShared::enqueue, consume_frames, fill_f32).
THEOREM AudioAlwaysInOrder == Spec => []AudioInOrder
<1>1. ServicesInv => AudioInOrder
  BY InOrderFollows DEF ServicesInv
<1> QED
  BY ServicesInit, ServicesStep, <1>1, PTL DEF Spec

\* In every reachable state the message reads back as it was written, the
\* tables of sessions agree, and an audio call that succeeded came over a
\* session of this boot (GuestCommand::from_bytes, SessionTable, dispatch_audio_ipc).
THEOREM IpcAlwaysFaithful == Spec => []IpcFaithful
<1>1. ServicesInv => IpcFaithful
  <2> SUFFICES ASSUME ServicesInv PROVE IpcFaithful
    OBVIOUS
  <2>1. message \in Seq(Nat) /\ Tables /\ ReplyTrue(reply, message, granted)
    BY DEF ServicesInv, IpcInv
  <2>2. ReadsBack(message) /\ ResponseReadsBack(message) /\ TablesAgree
    BY <2>1, CommandsReadBack, ResponsesReadBack, TablesFollow
  <2> QED
    BY <2>1, <2>2 DEF IpcFaithful, ReplyTrue
<1> QED
  BY ServicesInit, ServicesStep, <1>1, PTL DEF Spec

\* In every reachable state a loaded homebrew is in memory as its file says,
\* byte for byte and with no page besides, and a file is refused for its layout
\* exactly when two of its ranges need one page (HomebrewModule::parse, map_into).
THEOREM ImportAlwaysFaithful == Spec => []ImportFaithful
<1>1. ServicesInv => ImportFaithful
  BY ImportInvFaithful DEF ServicesInv
<1> QED
  BY ServicesInit, ServicesStep, <1>1, PTL DEF Spec
=============================================================================
