----------------------------- MODULE Scheduler -----------------------------
(***************************************************************************)
(* The guest thread scheduler and its replay log                           *)
(* (nx86-scheduler/src/lib.rs).  A run of a synthetic program resets the   *)
(* scheduler, spawns the threads and gives each a quantum in turn until    *)
(* all have halted.  Every step leaves an event in a log of bounded size.  *)
(***************************************************************************)
EXTENDS Integers, Sequences, FiniteSets

CONSTANTS Programs,  \* [threads: sequence of [pc, work], quantum]
          Caps       \* sizes of the replay log
ASSUME SchedulerAssumption ==
    /\ Programs \subseteq [threads : Seq([pc : Nat, work : Nat]), quantum : Nat]
    /\ Caps \subseteq Nat /\ Caps # {}

VARIABLES threads,  \* <<[pc, status, ticks, remaining]>>: a thread's id is its index
          replay,   \* [cap, events, sequence, dropped]
          program,  \* what is running, or ran last
          turn,     \* [index, left]: whose quantum it is, and what is left of it
          mode,     \* "idle", "spawning", "running", "done" or "refused"
          count,    \* dispatches of this run
          history   \* every event since the last reset
schedVars == <<threads, replay, program, turn, mode, count, history>>

EmptyLog(cap) == [cap |-> cap, events |-> <<>>, sequence |-> 0, dropped |-> 0]
NoProgram == [threads |-> <<>>, quantum |-> 1]

SchedInit ==
    /\ \E cap \in Caps : replay = EmptyLog(cap)
    /\ threads = <<>> /\ program = NoProgram /\ turn = [index |-> 0, left |-> 0]
    /\ mode = "idle" /\ count = 0 /\ history = <<>>

-----------------------------------------------------------------------------
(* ReplayLog::record: the oldest event makes room, an empty log counts.    *)

\* Mutant: the newest event is replaced.
LoggedOverNewest(log, e) ==
    LET full == Len(log.events) = log.cap
        kept == IF log.cap = 0 THEN <<>> ELSE Append(IF full THEN SubSeq(log.events, 1, log.cap - 1) ELSE log.events, e)
    IN  [log EXCEPT !.events = kept, !.sequence = @ + 1, !.dropped = IF full THEN @ + 1 ELSE @]
Logged(log, e) ==
    LET full == Len(log.events) = log.cap
        kept == IF log.cap = 0 THEN <<>> ELSE Append(IF full THEN Tail(log.events) ELSE log.events, e)
    IN  [log EXCEPT !.events = kept, !.sequence = @ + 1, !.dropped = IF full THEN @ + 1 ELSE @]

Event(sequence, e) == [sequence |-> sequence, id |-> e.id, pc |-> e.pc, kind |-> e.kind]
Record(id, pc, kind) ==
    LET e == [id |-> id, pc |-> pc, kind |-> kind]
    IN  /\ replay' = Logged(replay, Event(replay.sequence, e))
        /\ history' = Append(history, e)

-----------------------------------------------------------------------------
Thread(pc, work) == [pc |-> pc, status |-> "runnable", ticks |-> 0, remaining |-> work]

\* run_synthetic: a program without threads or with no quantum is refused.
Refuse(p) ==
    /\ mode \notin {"spawning", "running"}
    /\ p.threads = <<>> \/ p.quantum = 0
    /\ mode' = "refused"
    /\ UNCHANGED <<threads, replay, program, turn, count, history>>

\* Otherwise whatever was there is forgotten, a crash included, and the
\* program's threads are spawned one after the other.
Start(p) ==
    /\ mode \notin {"spawning", "running"} /\ p.threads # <<>> /\ p.quantum # 0
    /\ program' = p /\ mode' = "spawning" /\ count' = 0
    /\ threads' = <<>> /\ replay' = EmptyLog(replay.cap) /\ history' = <<>>
    /\ turn' = [index |-> 1, left |-> p.quantum]
Spawn ==
    LET i == Len(threads) + 1
        new == program.threads[i]
    IN  /\ mode = "spawning"
        /\ threads' = Append(threads, Thread(new.pc, new.work))
        /\ Record(i, new.pc, "spawned")
        /\ mode' = IF i = Len(program.threads) THEN "running" ELSE "spawning"
        /\ UNCHANGED <<program, turn, count>>

Halted(i) == threads[i].status = "halted"
NextTurn == turn' = [index |-> IF turn.index = Len(threads) THEN 1 ELSE turn.index + 1, left |-> program.quantum]

AllHalted == \A i \in DOMAIN threads : Halted(i)

\* The loop looks at the end of a round only.
Finish ==
    /\ mode = "running" /\ turn.index = 1 /\ turn.left = program.quantum /\ AllHalted
    /\ mode' = "done"
    /\ UNCHANGED <<threads, replay, program, turn, count, history>>

Running(i) == mode = "running" /\ turn.index = i /\ ~(i = 1 /\ turn.left = program.quantum /\ AllHalted)

Skip(i) == Running(i) /\ Halted(i) /\ NextTurn /\ UNCHANGED <<threads, replay, program, mode, count, history>>

\* A dispatch: one unit of work, one instruction on.
Dispatch(i) ==
    LET t == threads[i]
    IN  /\ Running(i) /\ ~Halted(i) /\ turn.left > 0 /\ t.remaining > 0
        /\ Record(i, t.pc, "dispatch")
        /\ threads' = [threads EXCEPT ![i] = [pc |-> t.pc + 1, status |-> "running", ticks |-> t.ticks + 1, remaining |-> t.remaining - 1]]
        /\ count' = count + 1
        /\ turn' = [turn EXCEPT !.left = @ - 1]
        /\ UNCHANGED <<program, mode>>

\* The work is done, in the middle of a quantum or at its end.
HaltThread(i) ==
    /\ Running(i) /\ ~Halted(i) /\ threads[i].remaining = 0
    /\ Record(i, threads[i].pc, "halt")
    /\ threads' = [threads EXCEPT ![i].status = "halted"]
    /\ NextTurn
    /\ UNCHANGED <<program, mode, count>>

\* Mutant: a thread whose quantum is over keeps the processor.
YieldToItself(i) ==
    /\ Running(i) /\ ~Halted(i) /\ turn.left = 0 /\ threads[i].remaining > 0
    /\ Record(i, threads[i].pc, "yield")
    /\ threads' = [threads EXCEPT ![i].status = "runnable"]
    /\ turn' = [turn EXCEPT !.left = program.quantum]
    /\ UNCHANGED <<program, mode, count>>
Yield(i) ==
    /\ Running(i) /\ ~Halted(i) /\ turn.left = 0 /\ threads[i].remaining > 0
    /\ Record(i, threads[i].pc, "yield")
    /\ threads' = [threads EXCEPT ![i].status = "runnable"]
    /\ NextTurn
    /\ UNCHANGED <<program, mode, count>>

\* crash_thread, for which a run must be over; any thread, even a halted one
\* (here: each at most once).
CrashThread(i) ==
    /\ mode = "done" /\ threads[i].status # "crashed"
    /\ Record(i, threads[i].pc, "crash")
    /\ threads' = [threads EXCEPT ![i].status = "crashed"]
    /\ UNCHANGED <<program, turn, mode, count>>

\* crash_window: the events of one thread that the log still has, and what
\* ReplayAnalysis makes of them.
Window(id) == {k \in DOMAIN replay.events : replay.events[k].id = id}
Newest(w) == CHOOSE k \in w : \A l \in w : l <= k
Analysis(id) ==
    LET w == Window(id)
        OfKind(kind) == {k \in w : replay.events[k].kind = kind}
    IN  [dispatches |-> Cardinality(OfKind("dispatch")), crashed |-> OfKind("crash") # {}, halted |-> OfKind("halt") # {},
         last |-> IF w = {} THEN 0 ELSE replay.events[Newest(w)].pc]

SchedNext ==
    \/ (\E p \in Programs : Refuse(p) \/ Start(p)) \/ Spawn \/ Finish
    \/ \E i \in DOMAIN threads : Skip(i) \/ Dispatch(i) \/ HaltThread(i) \/ Yield(i) \/ CrashThread(i)

-----------------------------------------------------------------------------
(* Properties.                                                             *)

DispatchesOf(i) == Cardinality({k \in DOMAIN history : history[k].id = i /\ history[k].kind = "dispatch"})

\* Round robin: between two threads with work left, neither is ever more than
\* a quantum ahead; a thread halts when its work is done and never before,
\* its instructions are dispatched in order, at the end nothing is left, and
\* the run reports as many dispatches as it made.
SchedulesFairly ==
    /\ \A i, j \in DOMAIN threads :
           threads[j].remaining > 0 => DispatchesOf(i) <= DispatchesOf(j) + program.quantum
    /\ \A i \in DOMAIN threads :
           /\ DispatchesOf(i) = threads[i].ticks /\ threads[i].ticks + threads[i].remaining = program.threads[i].work
           /\ threads[i].pc = program.threads[i].pc + threads[i].ticks
           /\ Halted(i) => threads[i].remaining = 0
    /\ mode = "done" => \A i \in DOMAIN threads : threads[i].remaining = 0
    /\ count = Cardinality({k \in DOMAIN history : history[k].kind = "dispatch"})

\* The log is the newest part of what happened, with nothing missing in the
\* middle, and says how much it dropped; until it drops something a thread's
\* window has all its dispatches, its last pc and whether it crashed.
ReplayIsSuffix ==
    LET es == replay.events
        gone == Len(history) - Len(es)
    IN  /\ Len(es) <= replay.cap /\ replay.dropped = gone /\ replay.sequence = Len(history)
        /\ \A i \in DOMAIN es : es[i] = Event(gone + i - 1, history[gone + i])
        /\ \A i \in DOMAIN threads :
               /\ Analysis(i).dispatches <= threads[i].ticks
               /\ gone = 0 => /\ Analysis(i).dispatches = threads[i].ticks
                              /\ Analysis(i).crashed = (threads[i].status = "crashed")
                              /\ Analysis(i).last = threads[i].pc - (IF threads[i].status = "running" THEN 1 ELSE 0)
SchedulerCorrect == SchedulesFairly /\ ReplayIsSuffix
=============================================================================
