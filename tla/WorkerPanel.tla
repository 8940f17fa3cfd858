---------------------------- MODULE WorkerPanel ----------------------------
(***************************************************************************)
(* The Compile screen and the worker process it runs                       *)
(* (nx86-gui/src/lib.rs, screens.rs, nx86-app/src/main.rs): the child      *)
(* writes one event per line to its standard output, a reader thread       *)
(* decodes the lines into a channel, and the window looks at the channel   *)
(* and at the child once per frame.  Lines are their numbers in the        *)
(* child's script.                                                         *)
(***************************************************************************)
EXTENDS SequencesExt, FiniteSets

CONSTANTS Scripts,    \* what workers write: sequences of kinds of lines
          PipeCap,    \* lines the pipe holds before the child blocks
          LogCap,     \* 12: log lines the panel keeps
          MaxWorkers  \* bound on workers started
ASSUME PanelAssumption ==
    /\ \A s \in Scripts : s \in Seq({"log", "progress", "completed", "junk"})
    /\ {PipeCap, LogCap, MaxWorkers} \subseteq Nat \ {0}

VARIABLES panel,   \* CompileUiState: [running, status, logs]
          process, \* worker_process.is_some()
          child,   \* the last worker: [script, written, alive, reading, pipe, channel]
          frame,   \* where the frame is: "idle", "draining", "drained", "joining", "ui", "cancelling"
          killed,  \* kill and wait succeeded
          applied, \* history: the lines of the last worker the panel has applied
          started, \* counter: workers started
          gaveUp   \* history: "cancel" or "wait" if that call failed on the last worker
panelVars == <<panel, process, child, frame, killed, applied, started, gaveUp>>

NoChild == [script |-> <<>>, written |-> 0, alive |-> FALSE, reading |-> FALSE, pipe |-> <<>>, channel |-> <<>>]
PanelInit ==
    /\ panel = [running |-> FALSE, status |-> "", logs |-> <<>>]
    /\ process = FALSE /\ child = NoChild
    /\ frame = "idle" /\ killed = FALSE /\ applied = <<>> /\ started = 0 /\ gaveUp = "no"

-----------------------------------------------------------------------------
(* CompileUiState::apply_event.  A line that does not decode is a warning. *)

KeepLog(p, n) == [p EXCEPT !.logs = LET all == Append(@, n) IN IF Len(all) > LogCap THEN Tail(all) ELSE all]
ApplyEvent(p, n) ==
    CASE child.script[n] \in {"log", "junk"} -> KeepLog(p, n)
      [] child.script[n] = "progress" -> [p EXCEPT !.status = "progress"]
      [] child.script[n] = "completed" -> [p EXCEPT !.running = FALSE, !.status = "completed"]

\* drain_worker_events: one event after the other, oldest first, until the
\* channel is empty; the reader may send more meanwhile.
ApplyNext ==
    /\ frame = "draining" \/ (frame \in {"joining", "cancelling"} /\ ~child.reading)
    /\ child.channel # <<>>
    /\ panel' = ApplyEvent(panel, Head(child.channel))
    /\ applied' = Append(applied, Head(child.channel)) /\ child' = [child EXCEPT !.channel = Tail(@)]
    /\ UNCHANGED <<process, frame, killed, started, gaveUp>>

-----------------------------------------------------------------------------
(* The child and the reader thread.                                        *)

\* emit_event: one line, flushed; the child blocks on a full pipe.
Emit ==
    /\ child.alive /\ child.written < Len(child.script) /\ Len(child.pipe) < PipeCap
    /\ child' = [child EXCEPT !.written = @ + 1, !.pipe = Append(@, child.written + 1)]

\* run_worker returns, or the process dies half-way.
Exit == child.alive /\ child' = [child EXCEPT !.alive = FALSE]

\* The reader decodes a line, stops at the end of the pipe, or stops because
\* the window has dropped the receiver.
ReadLine ==
    /\ child.reading /\ child.pipe # <<>>
    /\ child' = IF process THEN [child EXCEPT !.channel = Append(@, Head(child.pipe)), !.pipe = Tail(@)]
                ELSE [child EXCEPT !.reading = FALSE, !.pipe = Tail(@)]
EndOfPipe ==
    /\ child.reading /\ child.pipe = <<>> /\ ~child.alive
    /\ child' = [child EXCEPT !.reading = FALSE]

Worker ==
    /\ Emit \/ Exit \/ ReadLine \/ EndOfPipe
    /\ UNCHANGED <<panel, process, frame, killed, applied, started, gaveUp>>

-----------------------------------------------------------------------------
(* poll_worker, at the start of every frame.                               *)

BeginFrame ==
    /\ frame = "idle" /\ frame' = IF process THEN "draining" ELSE "ui"
    /\ UNCHANGED <<panel, process, child, killed, applied, started, gaveUp>>
EndOfDrain ==
    /\ frame = "draining" /\ child.channel = <<>> /\ frame' = "drained"
    /\ UNCHANGED <<panel, process, child, killed, applied, started, gaveUp>>

TryWait ==
    /\ frame = "drained"
    /\ frame' = IF child.alive THEN "ui" ELSE "joining"
    /\ UNCHANGED <<panel, process, child, killed, applied, started, gaveUp>>
\* try_wait itself fails: the child is dropped without being waited for.
TryWaitFails ==
    /\ frame = "drained"
    /\ panel' = [panel EXCEPT !.running = FALSE, !.status = "error"]
    /\ process' = FALSE /\ frame' = "ui" /\ gaveUp' = "wait"
    /\ UNCHANGED <<child, killed, applied, started>>

\* status.contains("running"), as in "worker already running".
Exited(p) ==
    [p EXCEPT !.running = FALSE,
              !.status = IF p.status \in {"running", "already running", "none running"} THEN "exited" ELSE p.status]
\* Mutant: the events that arrived since the first drain are not applied.
PollExitedOnce ==
    /\ frame = "joining" /\ ~child.reading
    /\ panel' = Exited(panel) /\ process' = FALSE /\ frame' = "ui"
    /\ UNCHANGED <<child, killed, applied, started, gaveUp>>
\* Once the reader has ended and its last events are applied.
PollExited ==
    /\ frame = "joining" /\ ~child.reading /\ child.channel = <<>>
    /\ panel' = Exited(panel) /\ process' = FALSE /\ frame' = "ui"
    /\ UNCHANGED <<child, killed, applied, started, gaveUp>>

-----------------------------------------------------------------------------
(* The buttons, drawn after the poll; each may stay untouched.             *)

NoClick == frame = "ui" /\ frame' = "idle" /\ UNCHANGED <<panel, process, child, killed, applied, started, gaveUp>>

Says(status) ==
    /\ panel' = [panel EXCEPT !.status = status] /\ frame' = "idle"
    /\ UNCHANGED <<process, child, killed, applied, started, gaveUp>>

\* start_worker, enabled while nothing runs.
StartRefused == frame = "ui" /\ ~panel.running /\ process /\ Says("already running")
SpawnFails == frame = "ui" /\ ~panel.running /\ ~process /\ started < MaxWorkers /\ Says("error")
StartWorker(script) ==
    /\ frame = "ui" /\ ~panel.running /\ ~process /\ started < MaxWorkers
    /\ child' = [NoChild EXCEPT !.script = script, !.alive = TRUE, !.reading = TRUE]
    /\ panel' = [panel EXCEPT !.running = TRUE, !.status = "running"]
    /\ process' = TRUE /\ frame' = "idle" /\ applied' = <<>> /\ started' = started + 1 /\ gaveUp' = "no"
    /\ UNCHANGED killed

\* cancel_worker, enabled while something runs: kill, then wait for the child
\* and the reader, then apply what is left in the channel.
CancelNothing == frame = "ui" /\ panel.running /\ ~process /\ Says("none running")
CancelKill ==
    /\ frame = "ui" /\ panel.running /\ process
    /\ \/ killed' = TRUE /\ child' = [child EXCEPT !.alive = FALSE]
       \/ killed' = FALSE /\ UNCHANGED child
    /\ frame' = "cancelling"
    /\ UNCHANGED <<panel, process, applied, started, gaveUp>>
CancelDone ==
    /\ frame = "cancelling" /\ ~child.reading /\ child.channel = <<>>
    /\ panel' = IF killed THEN [panel EXCEPT !.running = FALSE, !.status = "cancelled"] ELSE [panel EXCEPT !.status = "error"]
    /\ gaveUp' = IF killed THEN gaveUp ELSE "cancel"
    /\ process' = FALSE /\ frame' = "idle"
    /\ UNCHANGED <<child, killed, applied, started>>

PanelNext ==
    \/ Worker \/ ApplyNext \/ BeginFrame \/ EndOfDrain \/ TryWait \/ TryWaitFails \/ PollExited
    \/ NoClick \/ StartRefused \/ SpawnFails \/ (\E s \in Scripts : StartWorker(s))
    \/ CancelNothing \/ CancelKill \/ CancelDone

-----------------------------------------------------------------------------
Written == [n \in 1 .. child.written |-> n]
IsLog(n) == child.script[n] \in {"log", "junk"}

(* What the panel shows is what the worker said.  Lines are applied in the *)
(* order they were written; once the process handle is gone every line is; *)
(* Cancel is offered exactly while a process is held and has not reported  *)
(* its end; "cancelled" is never said of a process that still runs; the    *)
(* last LogCap lines the worker logged are the last the panel keeps, in    *)
(* their order (start_worker, poll_worker, cancel_worker, apply_event).    *)
PanelInOrder == IsPrefix(applied, Written)
NothingLost == ~process /\ gaveUp # "wait" => applied = Written
ButtonsTrue ==
    /\ panel.running => process \/ gaveUp = "cancel"
    /\ process /\ ~panel.running => \E n \in ToSet(applied) : child.script[n] = "completed"
CancelTrue == panel.status = "cancelled" => ~process /\ ~child.alive
Said == {i \in DOMAIN applied : IsLog(applied[i])}
SaidSince(i) == Cardinality({j \in Said : j >= i})
LogsTrue ==
    /\ Len(panel.logs) <= LogCap
    /\ \A i \in Said : SaidSince(i) <= LogCap =>
          SaidSince(i) <= Len(panel.logs) /\ panel.logs[Len(panel.logs) + 1 - SaidSince(i)] = applied[i]
WorkerMatchesPanel == PanelInOrder /\ NothingLost /\ ButtonsTrue /\ CancelTrue /\ LogsTrue
=============================================================================
