--------------------------- MODULE DesktopProofs ---------------------------
(***************************************************************************)
(* Proofs about the desktop application, for every number of windows and   *)
(* titles, every script a worker may write, every controller and mapping   *)
(* and every set of preferences.                                           *)
(***************************************************************************)
EXTENDS Desktop, FiniteSetTheorems, SequenceTheorems, TLAPS

-----------------------------------------------------------------------------
(* The controller.                                                         *)

PadReport == [press : BOOLEAN, button : PadButtons]
\* The actions whose buttons are held down.
HeldActions == {ActionOf[h[2]] : h \in {x \in held : x[2] \in DOMAIN ActionOf}}
InputInv ==
    /\ held \subseteq Pads \X PadButtons /\ events \in Seq(PadReport)
    /\ buttons \subseteq Actions
    /\ ~ambiguous => /\ \A g, h \in held : g[1] = h[1]
                     /\ Pressed(buttons, events) = HeldActions
                     /\ fresh => snapshot = Keyboard \cup (IF gamepad THEN HeldActions ELSE {})

LEMMA PressedNothing == ASSUME NEW before \in SUBSET Actions PROVE Pressed(before, <<>>) = before
<1>1. DOMAIN <<>> = {}
  OBVIOUS
<1> QED
  BY <1>1 DEF Pressed

\* One more event decides about its action, if it has one, and no other.
LEMMA PressedNext ==
    ASSUME NEW before \in SUBSET Actions, NEW todo \in Seq(PadReport), NEW e \in PadReport
    PROVE  Pressed(before, Append(todo, e)) =
               CASE e.button \notin DOMAIN ActionOf -> Pressed(before, todo)
                 [] e.button \in DOMAIN ActionOf /\ e.press -> Pressed(before, todo) \cup {ActionOf[e.button]}
                 [] e.button \in DOMAIN ActionOf /\ ~e.press -> Pressed(before, todo) \ {ActionOf[e.button]}
<1> DEFINE all == Append(todo, e)
           n == Len(todo)
           Of(s, a) == {i \in DOMAIN s : s[i].button \in DOMAIN ActionOf /\ ActionOf[s[i].button] = a}
           Decides(s, a) == \E i \in Of(s, a) : s[i].press /\ \A j \in Of(s, a) : j <= i
           mapped == e.button \in DOMAIN ActionOf
<1>1. /\ n \in Nat /\ DOMAIN todo = 1 .. n /\ DOMAIN all = 1 .. n + 1
      /\ all[n + 1] = e /\ \A i \in 1 .. n : all[i] = todo[i]
  BY AppendProperties, LenProperties
<1> HIDE DEF all, n
<1>2. ASSUME NEW a \in Actions, ~(mapped /\ ActionOf[e.button] = a)
      PROVE  a \in Pressed(before, all) <=> a \in Pressed(before, todo)
  <2>1. Of(all, a) = Of(todo, a)
    BY <1>1, <1>2
  <2>2. \A i \in Of(todo, a) : all[i] = todo[i]
    BY <1>1
  <2>3. Decides(all, a) <=> Decides(todo, a)
    BY <2>1, <2>2
  <2> QED
    BY <2>1, <2>3 DEF Pressed
<1>3. ASSUME mapped, NEW a, a = ActionOf[e.button]
      PROVE  a \in Actions /\ (a \in Pressed(before, all) <=> e.press)
  <2>1. a \in Actions
    BY <1>3, InputAssumption
  <2>2. n + 1 \in Of(all, a) /\ \A j \in Of(all, a) : j \in 1 .. n + 1
    BY <1>1, <1>3
  <2>3. Decides(all, a) <=> e.press
    <3>1. \A i \in Of(all, a) : (\A j \in Of(all, a) : j <= i) => i = n + 1
      BY <1>1, <2>2
    <3>2. \A j \in Of(all, a) : j <= n + 1
      BY <1>1, <2>2
    <3> QED
      BY <1>1, <2>2, <3>1, <3>2
  <2>4. Of(all, a) # {}
    BY <2>2
  <2> HIDE DEF Of
  <2> QED
    BY <2>1, <2>3, <2>4 DEF Pressed, Of
<1>4. Pressed(before, all) \subseteq Actions /\ Pressed(before, todo) \subseteq Actions
  BY DEF Pressed
<1>5. CASE ~mapped
  BY <1>2, <1>4, <1>5 DEF all
<1>6. CASE mapped /\ e.press
  <2>1. Pressed(before, all) = Pressed(before, todo) \cup {ActionOf[e.button]}
    BY <1>2, <1>3, <1>4, <1>6
  <2> QED
    BY <1>6, <2>1 DEF all
<1>7. CASE mapped /\ ~e.press
  <2>1. Pressed(before, all) = Pressed(before, todo) \ {ActionOf[e.button]}
    BY <1>2, <1>3, <1>4, <1>7
  <2> QED
    BY <1>7, <2>1 DEF all
<1> QED
  BY <1>5, <1>6, <1>7

LEMMA InputInitInv == InputInit => InputInv
<1> SUFFICES ASSUME InputInit PROVE InputInv
  OBVIOUS
<1>1. HeldActions = {} /\ Keyboard = {}
  BY DEF InputInit, HeldActions, Keyboard
<1>2. Pressed({}, <<>>) = {}
  BY PressedNothing
<1> QED
  BY <1>1, <1>2 DEF InputInit, InputInv

LEMMA PadEventStep ==
    ASSUME InputInv, NEW pad \in Pads, NEW button \in PadButtons, PadEvent(pad, button)
    PROVE  InputInv'
<1> DEFINE b == <<pad, button>>
           e == [press |-> b \notin held, button |-> button]
<1>1. /\ held' = IF b \in held THEN held \ {b} ELSE held \cup {b}
      /\ events' = Append(events, e) /\ ~fresh'
      /\ ambiguous' = (ambiguous \/ \E h \in held : h[1] # pad)
      /\ UNCHANGED <<buttons, gamepad, keyFor, down, snapshot>>
  BY DEF PadEvent
<1>2. e \in PadReport /\ e.press = (b \notin held) /\ e.button = button
  BY DEF PadReport
<1>3. b \in Pads \X PadButtons /\ b[1] = pad /\ b[2] = button
  OBVIOUS
<1> HIDE DEF e
<1>4. held' \subseteq Pads \X PadButtons /\ events' \in Seq(PadReport) /\ buttons' \subseteq Actions
  BY <1>1, <1>2, <1>3 DEF InputInv
<1>5. ASSUME ~ambiguous'
      PROVE  /\ \A g, h \in held' : g[1] = h[1]
             /\ Pressed(buttons', events') = HeldActions'
  <2>1. ~ambiguous /\ \A h \in held : h[1] = pad
    BY <1>1, <1>5
  <2>2. \A h \in held' : h[1] = pad
    BY <1>1, <1>3, <2>1
  <2>3. Pressed(buttons, events) = HeldActions
    BY <2>1 DEF InputInv
  <2>4. \A h \in held : h[2] = button => h = b
    BY <2>1 DEF InputInv
  <2>5. HeldActions' = CASE button \notin DOMAIN ActionOf -> HeldActions
                         [] button \in DOMAIN ActionOf /\ b \notin held -> HeldActions \cup {ActionOf[button]}
                         [] button \in DOMAIN ActionOf /\ b \in held -> HeldActions \ {ActionOf[button]}
    <3>0. HeldActions = {ActionOf[h[2]] : h \in {x \in held : x[2] \in DOMAIN ActionOf}} 
      BY DEF HeldActions
    <3>1. HeldActions' = {ActionOf[h[2]] : h \in {x \in held' : x[2] \in DOMAIN ActionOf}} 
      BY DEF HeldActions
    <3>2. CASE button \notin DOMAIN ActionOf
      <4>1. {x \in held : x[2] \in DOMAIN ActionOf} = {x \in held' : x[2] \in DOMAIN ActionOf}
        BY <1>1, <1>3, <3>2
      <4> QED
        BY <3>0, <3>1, <3>2, <4>1
    <3>3. CASE button \in DOMAIN ActionOf /\ b \notin held
      <4>1. {x \in held' : x[2] \in DOMAIN ActionOf} = {x \in held : x[2] \in DOMAIN ActionOf} \cup {b}
        BY <1>1, <1>3, <3>3
      <4> QED
        BY <1>3, <3>0, <3>1, <3>3, <4>1
    <3>4. CASE button \in DOMAIN ActionOf /\ b \in held
      <4>1. {x \in held' : x[2] \in DOMAIN ActionOf} = {x \in held : x[2] \in DOMAIN ActionOf} \ {b}
        BY <1>1, <1>3, <3>4
      <4>2. \A h \in {x \in held : x[2] \in DOMAIN ActionOf} : ActionOf[h[2]] = ActionOf[button] <=> h = b
        BY <1>3, <2>4, <3>4, InputAssumption
      <4> QED
        BY <1>3, <3>0, <3>1, <3>4, <4>1, <4>2
    <3> QED
      BY <3>2, <3>3, <3>4
  <2>6. Pressed(buttons, Append(events, e)) =
            CASE button \notin DOMAIN ActionOf -> Pressed(buttons, events)
              [] button \in DOMAIN ActionOf /\ b \notin held -> Pressed(buttons, events) \cup {ActionOf[button]}
              [] button \in DOMAIN ActionOf /\ b \in held -> Pressed(buttons, events) \ {ActionOf[button]}
    <3>1. buttons \in SUBSET Actions /\ events \in Seq(PadReport)
      BY DEF InputInv
    <3> QED
      BY <1>2, <3>1, PressedNext
  <2> QED
    BY <1>1, <2>2, <2>3, <2>5, <2>6
<1> QED
  BY <1>1, <1>4, <1>5 DEF InputInv

LEMMA InputStep == InputInv /\ [Next]_vars => InputInv'
<1> SUFFICES ASSUME InputInv, [Next]_vars PROVE InputInv'
  OBVIOUS
<1>1. CASE UNCHANGED inputVars
  <2>1. Pressed(buttons, events)' = Pressed(buttons, events) /\ HeldActions' = HeldActions /\ Keyboard' = Keyboard
    BY <1>1 DEF inputVars, Pressed, HeldActions, Keyboard
  <2> QED
    BY <1>1, <2>1 DEF InputInv, inputVars
<1>2. ASSUME NEW pad \in Pads, Unplug(pad)
      PROVE  InputInv'
  BY <1>2 DEF InputInv, Unplug
<1>3. ASSUME (\E key \in Keys : KeyEvent(key)) \/ EditInput
      PROVE  InputInv'
  <2>1. ~fresh' /\ UNCHANGED <<held, events, buttons, ambiguous>>
    BY <1>3 DEF KeyEvent, EditInput
  <2> QED
    BY <2>1 DEF InputInv, HeldActions, Pressed
<1>4. CASE PollInput
  <2>1. UNCHANGED <<held, gamepad, keyFor, down, ambiguous>> /\ HeldActions' = HeldActions /\ Keyboard' = Keyboard
    BY <1>4 DEF PollInput, HeldActions, Keyboard
  <2>2. CASE gamepad
    <3>1. buttons' = Pressed(buttons, events) /\ events' = <<>> /\ snapshot' = Keyboard \cup buttons'
      BY <1>4, <2>2 DEF PollInput
    <3>2. buttons' \subseteq Actions /\ Pressed(buttons', events') = buttons' /\ events' \in Seq(PadReport)
      <4>1. buttons' \in SUBSET Actions
        BY <3>1 DEF Pressed
      <4> QED
        BY <3>1, <4>1, PressedNothing
    <3> QED
      BY <2>1, <2>2, <3>1, <3>2 DEF InputInv
  <2>3. CASE ~gamepad
    <3>1. snapshot' = Keyboard /\ UNCHANGED <<buttons, events>> /\ Pressed(buttons', events') = Pressed(buttons, events)
      BY <1>4, <2>3 DEF PollInput, Pressed
    <3> QED
      BY <2>1, <2>3, <3>1 DEF InputInv
  <2> QED
    BY <2>2, <2>3
<1>5. InputNext => InputInv'
  BY <1>2, <1>3, <1>4, PadEventStep DEF InputNext
<1> QED
  BY <1>1, <1>5 DEF Next, vars

-----------------------------------------------------------------------------
(* The compile panel.                                                      *)

Statuses == {"", "progress", "completed", "error", "running", "already running", "none running", "exited", "cancelled"}
Process ==
    [script : Seq({"log", "progress", "completed", "junk"}), written : Nat, alive : BOOLEAN, reading : BOOLEAN,
     pipe : Seq(Nat), channel : Seq(Nat)]
PanelTyped ==
    /\ panel \in [running : BOOLEAN, status : Statuses, logs : Seq(Nat)]
    /\ process \in BOOLEAN /\ killed \in BOOLEAN
    /\ child \in Process
    /\ frame \in {"idle", "draining", "drained", "joining", "ui", "cancelling"}
    /\ applied \in Seq(Nat)

\* While the window holds the receiver no line is lost: the lines applied, those
\* in the channel and those in the pipe are the lines written, in their order.
LinesInOrder ==
    /\ child.written <= Len(child.script) /\ Len(applied) <= child.written
    /\ \A i \in 1 .. Len(applied) : applied[i] = i
    /\ process =>
         /\ Len(applied) + Len(child.channel) + Len(child.pipe) = child.written
         /\ \A i \in 1 .. Len(child.channel) : child.channel[i] = Len(applied) + i
         /\ \A i \in 1 .. Len(child.pipe) : child.pipe[i] = Len(applied) + Len(child.channel) + i
         /\ ~child.reading => child.pipe = <<>> /\ ~child.alive
    /\ ~process /\ gaveUp # "wait" => Len(applied) = child.written /\ ~child.alive
FrameSound ==
    /\ frame \in {"draining", "drained", "joining", "cancelling"} => process
    /\ frame = "joining" => ~child.alive
    /\ frame = "cancelling" /\ killed => ~child.alive
PanelInv == PanelTyped /\ LinesInOrder /\ FrameSound /\ ButtonsTrue /\ CancelTrue /\ LogsTrue

LEMMA PanelInitInv == PanelInit => PanelInv
<1> SUFFICES ASSUME PanelInit PROVE PanelInv
  OBVIOUS
<1>0. <<>> \in Seq(Nat) /\ <<>> \in Seq({"log", "progress", "completed", "junk"}) /\ Len(<<>>) = 0 /\ DOMAIN <<>> = {}
  OBVIOUS
<1>1. PanelTyped
  BY <1>0 DEF PanelInit, PanelTyped, NoChild, Statuses, Process
<1>2. LinesInOrder
  <2>1. ~process /\ applied = <<>> /\ child.written = 0 /\ child.script = <<>> /\ ~child.alive
    BY DEF PanelInit, NoChild
  <2>2. Len(applied) = 0 /\ Len(child.script) = 0 /\ 1 .. Len(applied) = {}
    BY <1>0, <2>1
  <2>3. (\A i \in 1 .. Len(applied) : applied[i] = i) /\ child.written <= Len(child.script) /\ Len(applied) <= child.written
    BY <2>1, <2>2
  <2>4. Len(applied) = child.written
    BY <2>1, <2>2
  <2> QED
    BY <2>1, <2>3, <2>4 DEF LinesInOrder
<1>3. FrameSound /\ ButtonsTrue /\ CancelTrue
  BY DEF PanelInit, NoChild, FrameSound, ButtonsTrue, CancelTrue
<1>4. LogsTrue
  <2>1. Said = {} /\ Len(panel.logs) = 0
    BY <1>0 DEF PanelInit, Said
  <2>2. LogCap \in Nat
    BY PanelAssumption
  <2> QED
    BY <2>1, <2>2 DEF LogsTrue
<1> QED
  BY <1>1, <1>2, <1>3, <1>4 DEF PanelInv

LEMMA LogsStay ==
    ASSUME PanelInv, UNCHANGED applied, panel'.logs = panel.logs, child'.script = child.script
    PROVE  LogsTrue'
<1>1. Said' = Said
  BY DEF Said, IsLog
<1>2. \A i : SaidSince(i)' = SaidSince(i)
  BY <1>1 DEF SaidSince
<1> QED
  BY <1>1, <1>2 DEF PanelInv, LogsTrue

\* The child writes and ends, the reader reads and ends.
LEMMA WorkerStep ==
    ASSUME PanelInv, Worker
    PROVE  PanelInv'
<1>0. PanelTyped /\ LinesInOrder /\ FrameSound /\ ButtonsTrue /\ CancelTrue
  BY DEF PanelInv
<1>1. UNCHANGED <<panel, process, frame, killed, applied, started, gaveUp>>
  BY DEF Worker
<1> DEFINE c == child
<1>2. /\ c \in Process
      /\ Len(c.script) \in Nat /\ Len(c.pipe) \in Nat /\ Len(c.channel) \in Nat /\ Len(applied) \in Nat
  BY <1>0 DEF PanelTyped, Process
<1>3. CASE Emit
  <2> DEFINE longer == Append(c.pipe, c.written + 1)
             d == [c EXCEPT !.written = c.written + 1, !.pipe = longer]
  <2>1. child' = d /\ c.alive /\ c.written < Len(c.script)
    BY <1>3 DEF Emit
  <2>2. /\ longer \in Seq(Nat) /\ Len(longer) = Len(c.pipe) + 1
        /\ longer[Len(c.pipe) + 1] = c.written + 1
        /\ \A i \in 1 .. Len(c.pipe) : longer[i] = c.pipe[i]
    BY <1>2, AppendProperties DEF Process
  <2> HIDE DEF longer
  <2>3. /\ child' \in Process /\ child'.script = c.script /\ child'.written = c.written + 1 /\ child'.alive = c.alive
        /\ child'.reading = c.reading /\ child'.pipe = longer /\ child'.channel = c.channel
    <3>1. c.written + 1 \in Nat /\ longer \in Seq(Nat)
      BY <1>2, <2>2 DEF Process
    <3>2. d \in Process
      BY <1>2, <3>1 DEF Process
    <3>3. /\ d.script = c.script /\ d.written = c.written + 1 /\ d.alive = c.alive /\ d.reading = c.reading
          /\ d.pipe = longer /\ d.channel = c.channel
      BY <1>2 DEF Process
    <3> QED
      BY <2>1, <3>2, <3>3
  <2>4. PanelTyped'
    BY <1>0, <1>1, <2>3 DEF PanelTyped
  <2>5. LinesInOrder'
    <3>1. child'.written <= Len(child'.script) /\ Len(applied) <= child'.written
      BY <1>0, <1>2, <2>1, <2>3 DEF LinesInOrder, Process
    <3>2. \A i \in 1 .. Len(applied) : applied[i] = i
      BY <1>0 DEF LinesInOrder
    <3>3. ASSUME process
          PROVE  /\ Len(applied) + Len(child'.channel) + Len(child'.pipe) = child'.written
                 /\ \A i \in 1 .. Len(child'.channel) : child'.channel[i] = Len(applied) + i
                 /\ \A i \in 1 .. Len(child'.pipe) : child'.pipe[i] = Len(applied) + Len(child'.channel) + i
                 /\ ~child'.reading => child'.pipe = <<>> /\ ~child'.alive
      <4>1. Len(applied) + Len(c.channel) + Len(c.pipe) = c.written /\ c.reading
        BY <1>0, <2>1, <3>3 DEF LinesInOrder
      <4>2. ASSUME NEW i \in 1 .. Len(child'.pipe) PROVE child'.pipe[i] = Len(applied) + Len(child'.channel) + i
        <5>1. CASE i \in 1 .. Len(c.pipe)
          BY <1>0, <1>2, <2>2, <2>3, <3>3, <5>1 DEF LinesInOrder, Process
        <5>2. CASE i = Len(c.pipe) + 1
          BY <1>2, <2>2, <2>3, <4>1, <5>2 DEF Process
        <5> QED
          BY <1>2, <2>2, <2>3, <4>2, <5>1, <5>2 DEF Process
      <4>3. \A i \in 1 .. Len(child'.channel) : child'.channel[i] = Len(applied) + i
        BY <1>0, <2>3, <3>3 DEF LinesInOrder
      <4>4. Len(applied) + Len(child'.channel) + Len(child'.pipe) = child'.written
        BY <1>2, <2>2, <2>3, <4>1 DEF Process
      <4> QED
        BY <2>3, <4>1, <4>2, <4>3, <4>4
    <3>4. ~process => gaveUp = "wait"
      BY <1>0, <2>1 DEF LinesInOrder
    <3> QED
      BY <1>1, <3>1, <3>2, <3>3, <3>4 DEF LinesInOrder
  <2>6. FrameSound' /\ ButtonsTrue' /\ CancelTrue' /\ LogsTrue'
    BY <1>0, <1>1, <2>3, LogsStay DEF FrameSound, ButtonsTrue, CancelTrue
  <2> QED
    BY <2>4, <2>5, <2>6 DEF PanelInv
<1>4. CASE Exit
  <2>1. /\ child' \in Process
        /\ child'.script = c.script /\ child'.written = c.written /\ ~child'.alive
        /\ child'.reading = c.reading /\ child'.pipe = c.pipe /\ child'.channel = c.channel
    BY <1>2, <1>4 DEF Exit, Process
  <2>2. PanelTyped'
    BY <1>0, <1>1, <2>1 DEF PanelTyped
  <2>3. LinesInOrder'
    BY <1>0, <1>1, <2>1 DEF LinesInOrder
  <2>4. FrameSound' /\ ButtonsTrue' /\ CancelTrue' /\ LogsTrue'
    BY <1>0, <1>1, <2>1, LogsStay DEF FrameSound, ButtonsTrue, CancelTrue
  <2> QED
    BY <2>2, <2>3, <2>4 DEF PanelInv
<1>5. CASE ReadLine /\ process
  <2> DEFINE n == Head(c.pipe)
             d == [c EXCEPT !.channel = Append(c.channel, n), !.pipe = Tail(c.pipe)]
  <2>1. child' = d /\ c.pipe # <<>> /\ c.reading
    BY <1>5 DEF ReadLine
  <2>2. /\ n \in Nat /\ Tail(c.pipe) \in Seq(Nat) /\ Len(Tail(c.pipe)) = Len(c.pipe) - 1 /\ n = c.pipe[1] /\ Len(c.pipe) > 0
        /\ \A i \in 1 .. Len(c.pipe) - 1 : Tail(c.pipe)[i] = c.pipe[i + 1]
    BY <1>2, <2>1 DEF Process
  <2>3. /\ Append(c.channel, n) \in Seq(Nat) /\ Len(Append(c.channel, n)) = Len(c.channel) + 1
        /\ Append(c.channel, n)[Len(c.channel) + 1] = n
        /\ \A i \in 1 .. Len(c.channel) : Append(c.channel, n)[i] = c.channel[i]
    BY <1>2, <2>2, AppendProperties DEF Process
  <2> HIDE DEF n
  <2>4. /\ child' \in Process
        /\ child'.script = c.script /\ child'.written = c.written /\ child'.alive = c.alive
        /\ child'.reading = c.reading /\ child'.pipe = Tail(c.pipe) /\ child'.channel = Append(c.channel, n)
    BY <1>2, <2>1, <2>2, <2>3 DEF Process
  <2>5. PanelTyped'
    BY <1>0, <1>1, <2>4 DEF PanelTyped
  <2>6. LinesInOrder'
    <3>1. /\ Len(applied) + Len(c.channel) + Len(c.pipe) = c.written
          /\ \A i \in 1 .. Len(c.channel) : c.channel[i] = Len(applied) + i
          /\ \A i \in 1 .. Len(c.pipe) : c.pipe[i] = Len(applied) + Len(c.channel) + i
      BY <1>0, <1>5 DEF LinesInOrder
    <3>2. ASSUME NEW i \in 1 .. Len(child'.channel) PROVE child'.channel[i] = Len(applied) + i
      <4>1. CASE i \in 1 .. Len(c.channel)
        BY <2>3, <2>4, <3>1, <4>1
      <4>2. CASE i = Len(c.channel) + 1
        BY <1>2, <2>2, <2>3, <2>4, <3>1, <4>2 DEF Process
      <4> QED
        BY <1>2, <2>3, <2>4, <3>2, <4>1, <4>2 DEF Process
    <3>3. ASSUME NEW i \in 1 .. Len(child'.pipe) PROVE child'.pipe[i] = Len(applied) + Len(child'.channel) + i
      <4>1. i + 1 \in 1 .. Len(c.pipe) /\ i \in 1 .. Len(c.pipe) - 1
        BY <1>2, <2>2, <2>4, <3>3 DEF Process
      <4>2. child'.pipe[i] = c.pipe[i + 1] /\ c.pipe[i + 1] = Len(applied) + Len(c.channel) + (i + 1)
        BY <2>2, <2>4, <3>1, <4>1
      <4> QED
        BY <1>2, <2>3, <2>4, <4>1, <4>2 DEF Process
    <3>4. Len(applied) + Len(child'.channel) + Len(child'.pipe) = child'.written
      BY <1>2, <2>2, <2>3, <2>4, <3>1 DEF Process
    <3> QED
      BY <1>0, <1>1, <1>5, <2>1, <2>4, <3>2, <3>3, <3>4 DEF LinesInOrder
  <2>7. FrameSound' /\ ButtonsTrue' /\ CancelTrue' /\ LogsTrue'
    BY <1>0, <1>1, <2>4, LogsStay DEF FrameSound, ButtonsTrue, CancelTrue
  <2> QED
    BY <2>5, <2>6, <2>7 DEF PanelInv
<1>6. CASE (ReadLine /\ ~process) \/ EndOfPipe
  <2>1. /\ child' \in Process
        /\ child'.script = c.script /\ child'.written = c.written /\ child'.alive = c.alive
        /\ ~child'.reading /\ child'.channel = c.channel
        /\ process => child'.pipe = c.pipe /\ c.pipe = <<>> /\ ~c.alive
    <3>1. CASE ReadLine /\ ~process
      <4>1. Tail(c.pipe) \in Seq(Nat) /\ child' = [c EXCEPT !.reading = FALSE, !.pipe = Tail(c.pipe)]
        BY <1>2, <3>1 DEF ReadLine, Process
      <4> QED
        BY <1>2, <3>1, <4>1 DEF Process
    <3>2. CASE EndOfPipe
      BY <1>2, <3>2 DEF EndOfPipe, Process
    <3> QED
      BY <1>6, <3>1, <3>2
  <2>2. PanelTyped'
    BY <1>0, <1>1, <2>1 DEF PanelTyped
  <2>3. LinesInOrder'
    BY <1>0, <1>1, <2>1 DEF LinesInOrder
  <2>4. FrameSound' /\ ButtonsTrue' /\ CancelTrue' /\ LogsTrue'
    BY <1>0, <1>1, <2>1, LogsStay DEF FrameSound, ButtonsTrue, CancelTrue
  <2> QED
    BY <2>2, <2>3, <2>4 DEF PanelInv
<1> QED
  BY <1>3, <1>4, <1>5, <1>6 DEF Worker

LEMMA PanelFacts ==
    ASSUME PanelInv
    PROVE  /\ panel \in [running : BOOLEAN, status : Statuses, logs : Seq(Nat)] /\ child \in Process /\ applied \in Seq(Nat)
           /\ process \in BOOLEAN /\ killed \in BOOLEAN
           /\ LinesInOrder /\ FrameSound /\ ButtonsTrue /\ CancelTrue /\ LogsTrue
BY DEF PanelInv, PanelTyped


\* What LogsTrue says of a script, the lines applied and the logs kept.
LogLines(script, lines) == {i \in DOMAIN lines : script[lines[i]] \in {"log", "junk"}}
LogsSince(script, lines, i) == Cardinality({j \in LogLines(script, lines) : j >= i})
LogsKept(script, lines, logs) ==
    /\ Len(logs) <= LogCap
    /\ \A i \in LogLines(script, lines) : LogsSince(script, lines, i) <= LogCap =>
          /\ LogsSince(script, lines, i) <= Len(logs)
          /\ logs[Len(logs) + 1 - LogsSince(script, lines, i)] = lines[i]
LEMMA LogsTrueIs == LogsTrue <=> LogsKept(child.script, applied, panel.logs)
<1>1. Said = LogLines(child.script, applied)
  BY DEF Said, IsLog, LogLines
<1>2. \A i : SaidSince(i) = LogsSince(child.script, applied, i)
  BY <1>1 DEF SaidSince, LogsSince
<1> QED
  BY <1>1, <1>2 DEF LogsTrue, LogsKept

Newest(logs, n) == IF Len(Append(logs, n)) > LogCap THEN Tail(Append(logs, n)) ELSE Append(logs, n)
LEMMA LogsGrow ==
    ASSUME NEW script, NEW lines \in Seq(Nat), NEW logs \in Seq(Nat), NEW n \in Nat, LogsKept(script, lines, logs),
           NEW kept, kept = Newest(logs, n)
    PROVE  /\ kept \in Seq(Nat)
           /\ script[n] \in {"log", "junk"} => LogsKept(script, Append(lines, n), kept)
           /\ script[n] \notin {"log", "junk"} => LogsKept(script, Append(lines, n), logs)
<1> DEFINE a == Len(lines)
           l == Len(logs)
           k == Len(kept)
           more == Append(lines, n)
           all == Append(logs, n)
           S == LogLines(script, lines)
           T == LogLines(script, more)
<1>0. LogCap \in Nat \ {0}
  BY PanelAssumption
<1>1. /\ a \in Nat /\ Len(more) = a + 1 /\ DOMAIN more = 1 .. a + 1 /\ DOMAIN lines = 1 .. a
      /\ more[a + 1] = n /\ \A i \in 1 .. a : more[i] = lines[i]
  BY AppendProperties, LenProperties
<1>2. /\ l \in Nat /\ all \in Seq(Nat) /\ Len(all) = l + 1 /\ all[l + 1] = n /\ \A i \in 1 .. l : all[i] = logs[i]
  BY AppendProperties, LenProperties
<1>3. l <= LogCap
  BY DEF LogsKept
<1>4. /\ kept \in Seq(Nat) /\ k \in Nat /\ k > 0 /\ k <= LogCap /\ k >= l /\ k <= l + 1 /\ (k = l => l = LogCap)
      /\ \A i \in 1 .. k : kept[k + 1 - i] = all[l + 2 - i]
  <2>0. kept = IF l + 1 > LogCap THEN Tail(all) ELSE all
    BY <1>2 DEF Newest
  <2>1. CASE l + 1 > LogCap
    <3>1. kept = Tail(all) /\ l = LogCap /\ all # <<>>
      <4> HIDE DEF l, all
      <4> QED
        BY <1>0, <1>2, <1>3, <2>0, <2>1
    <3>2. Tail(all) \in Seq(Nat) /\ Len(Tail(all)) = l /\ \A i \in 1 .. l : Tail(all)[i] = all[i + 1]
      <4> HIDE DEF l, all
      <4> QED
        BY <1>2, <3>1
    <3>3. k = l /\ kept \in Seq(Nat)
      BY <3>1, <3>2
    <3> HIDE DEF l, all, k
    <3>4. ASSUME NEW i \in 1 .. k PROVE kept[k + 1 - i] = all[l + 2 - i]
      <4>1. k + 1 - i \in 1 .. l /\ (k + 1 - i) + 1 = l + 2 - i
        BY <1>2, <3>3, <3>4
      <4> QED
        BY <3>1, <3>2, <4>1
    <3>5. k \in Nat /\ k > 0 /\ k <= LogCap /\ k >= l /\ k <= l + 1 /\ (k = l => l = LogCap)
      BY <1>0, <1>2, <3>1, <3>3
    <3> QED
      BY <3>3, <3>4, <3>5
  <2>2. CASE ~(l + 1 > LogCap)
    <3>1. kept = all /\ k = l + 1 /\ kept \in Seq(Nat)
      BY <1>2, <2>0, <2>2
    <3> HIDE DEF l, all, k
    <3>2. ASSUME NEW i \in 1 .. k PROVE k + 1 - i = l + 2 - i
      BY <1>2, <3>1
    <3>3. k \in Nat /\ k > 0 /\ k <= LogCap /\ k >= l /\ k <= l + 1 /\ k # l
      BY <1>0, <1>2, <2>2, <3>1
    <3> QED
      BY <3>1, <3>2, <3>3
  <2> QED
    BY <2>1, <2>2
<1> HIDE DEF a, l, k, more, all
<1>5. S \subseteq 1 .. a /\ IsFiniteSet(S)
  <2>1. S \subseteq 1 .. a
    BY <1>1 DEF LogLines
  <2> HIDE DEF S
  <2>2. IsFiniteSet(1 .. a)
    BY <1>1, FS_Interval
  <2> QED
    BY <2>1, <2>2, FS_Subset
<1>6. CASE script[n] \notin {"log", "junk"}
  <2>1. T = S
    BY <1>1, <1>6 DEF LogLines
  <2>2. \A i : LogsSince(script, more, i) = LogsSince(script, lines, i)
    BY <2>1 DEF LogsSince
  <2>3. \A i \in S : more[i] = lines[i]
    BY <1>1, <1>5
  <2>4. LogsKept(script, more, logs)
    BY <2>1, <2>2, <2>3 DEF LogsKept
  <2> QED
    BY <1>4, <1>6, <2>4 DEF more
<1>7. CASE script[n] \in {"log", "junk"}
  <2>1. T = S \cup {a + 1}
    BY <1>1, <1>7 DEF LogLines
  <2>2. ASSUME NEW i \in T
        PROVE  /\ LogsSince(script, more, i) = (IF i = a + 1 THEN 1 ELSE LogsSince(script, lines, i) + 1)
               /\ LogsSince(script, lines, i) \in Nat /\ (i # a + 1 => LogsSince(script, lines, i) >= 1)
    <3> DEFINE old == {j \in S : j >= i}
    <3>1. {j \in T : j >= i} = old \cup {a + 1} /\ a + 1 \notin old
      <4>1. a + 1 >= i
        BY <1>1, <1>5, <2>1
      <4>2. a + 1 \notin S
        BY <1>1, <1>5
      <4> QED
        BY <2>1, <4>1, <4>2
    <3>2. IsFiniteSet(old) /\ Cardinality(old) \in Nat
      BY <1>5, FS_Subset, FS_CardinalityType
    <3>3. LogsSince(script, more, i) = Cardinality(old) + 1
      BY <3>1, <3>2, FS_AddElement DEF LogsSince
    <3>4. CASE i = a + 1
      <4>1. old = {}
        BY <1>1, <1>5, <3>4
      <4>2. Cardinality(old) = 0
        BY <4>1, FS_EmptySet
      <4>3. LogsSince(script, lines, i) = 0
        BY <4>2 DEF LogsSince
      <4> QED
        BY <3>3, <3>4, <4>2, <4>3
    <3>5. CASE i # a + 1
      <4>1. i \in old
        BY <1>1, <1>5, <2>1, <3>5
      <4>2. Cardinality(old) # 0
        BY <3>2, <4>1, FS_EmptySet
      <4> QED
        BY <3>2, <3>3, <3>5, <4>2 DEF LogsSince
    <3> QED
      BY <3>4, <3>5
  <2>3. ASSUME NEW i \in T, LogsSince(script, more, i) <= LogCap
        PROVE  LogsSince(script, more, i) <= k /\ kept[k + 1 - LogsSince(script, more, i)] = more[i]
    <3>1. CASE i = a + 1
      <4>1. LogsSince(script, more, i) = 1 /\ more[i] = n
        BY <1>1, <2>2, <3>1
      <4>2. 1 \in 1 .. k /\ 1 <= k /\ l + 2 - 1 = l + 1
        BY <1>2, <1>4
      <4>3. kept[k + 1 - 1] = all[l + 2 - 1]
        BY <1>4, <4>2
      <4> HIDE DEF T
      <4> QED
        BY <1>2, <4>1, <4>2, <4>3
    <3>2. CASE i # a + 1
      <4> DEFINE s == LogsSince(script, lines, i)
      <4>1. i \in S /\ i \in 1 .. a /\ LogsSince(script, more, i) = s + 1 /\ s \in Nat /\ s >= 1
        BY <1>5, <2>1, <2>2, <3>2
      <4> HIDE DEF s, S, T
      <4>2. s <= LogCap /\ s + 1 <= LogCap
        BY <1>0, <2>3, <4>1
      <4>3. s <= l /\ logs[l + 1 - s] = lines[i]
        BY <4>1, <4>2 DEF LogsKept, l, s, S
      <4>4. s + 1 <= k /\ s + 1 \in 1 .. k
        <5>1. k = l \/ k = l + 1
          BY <1>2, <1>4
        <5>2. s + 1 <= k
          BY <1>0, <1>2, <1>4, <4>1, <4>2, <4>3, <5>1
        <5> QED
          BY <1>4, <4>1, <5>2
      <4>5. l + 2 - (s + 1) = l + 1 - s /\ l + 1 - s \in 1 .. l
        BY <1>2, <4>1, <4>3
      <4>6. kept[k + 1 - (s + 1)] = all[l + 2 - (s + 1)]
        BY <1>4, <4>4
      <4>7. all[l + 1 - s] = logs[l + 1 - s] /\ more[i] = lines[i]
        BY <1>1, <1>2, <4>1, <4>5
      <4> QED
        BY <4>1, <4>3, <4>4, <4>5, <4>6, <4>7
    <3> QED
      BY <3>1, <3>2
  <2>4. LogsKept(script, more, kept)
    BY <1>4, <2>3 DEF LogsKept, k
  <2> QED
    BY <1>4, <1>7, <2>4 DEF more
<1> QED
  BY <1>6, <1>7

\* a lines applied, c in the channel, q in the pipe, w written, s in the script.
LEMMA NextFits ==
    ASSUME NEW a \in Nat, NEW c \in Nat \ {0}, NEW q \in Nat, NEW w \in Nat, NEW s \in Nat, a + c + q = w, w <= s
    PROVE  a + 1 <= w /\ a + 1 \in 1 .. s /\ (a + 1) + (c - 1) = a + c
OBVIOUS

\* One event applied: it is the next line, and a log line becomes the last log.
LEMMA EventApplied ==
    ASSUME PanelInv, process, child.channel # <<>>
    PROVE  LET n == Head(child.channel)
               p == ApplyEvent(panel, n)
           IN  /\ n = Len(applied) + 1 /\ n \in 1 .. Len(child.script)
               /\ p \in [running : BOOLEAN, status : Statuses, logs : Seq(Nat)]
               /\ LogsKept(child.script, Append(applied, n), p.logs)
               /\ p.status \in {panel.status, "progress", "completed"}
               /\ p.running = panel.running \/ (~p.running /\ child.script[n] = "completed")
<1> DEFINE n == Head(child.channel)
           p == ApplyEvent(panel, n)
           kind == child.script[n]
           all == Append(panel.logs, n)
           kept == Newest(panel.logs, n)
<1>0. /\ panel \in [running : BOOLEAN, status : Statuses, logs : Seq(Nat)] /\ child \in Process /\ applied \in Seq(Nat)
      /\ LinesInOrder /\ LogsKept(child.script, applied, panel.logs)
  BY PanelFacts, LogsTrueIs
<1>1. n = Len(applied) + 1 /\ n \in 1 .. Len(child.script)
  <2>1. /\ Len(applied) \in Nat /\ Len(child.channel) \in Nat \ {0} /\ Len(child.pipe) \in Nat /\ Len(child.script) \in Nat
        /\ child.written \in Nat /\ n = child.channel[1]
    BY <1>0 DEF Process
  <2>2. 1 \in 1 .. Len(child.channel)
    BY <2>1
  <2>3. /\ Len(applied) + Len(child.channel) + Len(child.pipe) = child.written /\ child.written <= Len(child.script)
        /\ child.channel[1] = Len(applied) + 1
    BY <1>0, <2>2 DEF LinesInOrder
  <2>4. n = Len(applied) + 1
    BY <2>1, <2>3
  <2>5. Len(applied) + 1 \in 1 .. Len(child.script)
    <3> DEFINE a == Len(applied)
               c == Len(child.channel)
               q == Len(child.pipe)
               w == child.written
               s == Len(child.script)
    <3>0. a \in Nat /\ c \in Nat \ {0} /\ q \in Nat /\ w \in Nat /\ s \in Nat /\ a + c + q = w /\ w <= s
      BY <2>1, <2>3
    <3> HIDE DEF a, c, q, w, s
    <3>1. a + 1 \in 1 .. s
      BY <3>0, NextFits
    <3> QED
      BY <3>1 DEF a, s
  <2> QED
    BY <2>4, <2>5
<1>2. kind \in {"log", "progress", "completed", "junk"} /\ n \in Nat /\ panel.logs \in Seq(Nat)
  BY <1>0, <1>1 DEF Process
<1>3. /\ kept \in Seq(Nat)
      /\ kind \in {"log", "junk"} => LogsKept(child.script, Append(applied, n), kept)
      /\ kind \notin {"log", "junk"} => LogsKept(child.script, Append(applied, n), panel.logs)
  <2> HIDE DEF n
  <2> QED
    BY <1>0, <1>2, LogsGrow
<1> HIDE DEF n, kept
<1>4. CASE kind = "progress"
  <2>1. p = [panel EXCEPT !.status = "progress"]
    BY <1>4 DEF ApplyEvent
  <2>2. p \in [running : BOOLEAN, status : Statuses, logs : Seq(Nat)] /\ p.logs = panel.logs /\ p.status = "progress" /\ p.running = panel.running
    BY <1>0, <2>1 DEF Statuses
  <2> HIDE DEF p
  <2> QED
    BY <1>1, <1>3, <1>4, <2>2 DEF p, n
<1>5. CASE kind = "completed"
  <2>1. p = [panel EXCEPT !.running = FALSE, !.status = "completed"]
    BY <1>5 DEF ApplyEvent
  <2>2. p \in [running : BOOLEAN, status : Statuses, logs : Seq(Nat)] /\ p.logs = panel.logs /\ p.status = "completed" /\ ~p.running
    BY <1>0, <2>1 DEF Statuses
  <2> HIDE DEF p
  <2> QED
    BY <1>1, <1>3, <1>5, <2>2 DEF p, n
<1>6. CASE kind \in {"log", "junk"}
  <2>1. p = [panel EXCEPT !.logs = kept]
    BY <1>6 DEF ApplyEvent, KeepLog, kept, Newest
  <2>2. p \in [running : BOOLEAN, status : Statuses, logs : Seq(Nat)] /\ p.logs = kept /\ p.status = panel.status /\ p.running = panel.running
    BY <1>0, <1>3, <2>1
  <2> HIDE DEF p
  <2> QED
    BY <1>1, <1>3, <1>6, <2>2 DEF p, n
<1> QED
  BY <1>2, <1>4, <1>5, <1>6

LEMMA ApplyNextStep ==
    ASSUME PanelInv, ApplyNext
    PROVE  PanelInv'
<1> DEFINE n == Head(child.channel)
           rest == Tail(child.channel)
           p == ApplyEvent(panel, n)
<1>1. /\ frame \in {"draining", "joining", "cancelling"} /\ child.channel # <<>>
      /\ panel' = p /\ applied' = Append(applied, n) /\ child' = [child EXCEPT !.channel = rest]
      /\ UNCHANGED <<process, frame, killed, started, gaveUp>>
  BY DEF ApplyNext
<1>2. process
  BY <1>1 DEF PanelInv, FrameSound
<1>3. /\ panel \in [running : BOOLEAN, status : Statuses, logs : Seq(Nat)] /\ child \in Process /\ applied \in Seq(Nat)
      /\ process \in BOOLEAN /\ killed \in BOOLEAN /\ LinesInOrder /\ FrameSound /\ ButtonsTrue /\ CancelTrue
  BY PanelFacts
<1>4. /\ n = Len(applied) + 1 /\ n \in 1 .. Len(child.script)
      /\ p \in [running : BOOLEAN, status : Statuses, logs : Seq(Nat)]
      /\ LogsKept(child.script, Append(applied, n), p.logs)
      /\ p.status \in {panel.status, "progress", "completed"}
      /\ p.running = panel.running \/ (~p.running /\ child.script[n] = "completed")
  BY <1>1, <1>2, EventApplied
<1> HIDE DEF p
<1>5. /\ Len(applied) \in Nat /\ Len(child.channel) \in Nat \ {0} /\ Len(child.pipe) \in Nat
      /\ Len(child.script) \in Nat /\ child.written \in Nat /\ n \in Nat
  BY <1>1, <1>3, <1>4 DEF Process
<1>6. /\ rest \in Seq(Nat) /\ Len(rest) = Len(child.channel) - 1
      /\ \A i \in 1 .. Len(child.channel) - 1 : rest[i] = child.channel[i + 1]
  BY <1>1, <1>3 DEF Process
<1> HIDE DEF rest, n
<1>7. /\ applied' \in Seq(Nat) /\ Len(applied') = Len(applied) + 1 /\ applied'[Len(applied) + 1] = n
      /\ \A i \in 1 .. Len(applied) : applied'[i] = applied[i]
      /\ DOMAIN applied' = 1 .. Len(applied) + 1 /\ DOMAIN applied = 1 .. Len(applied)
  BY <1>1, <1>3, <1>5, AppendProperties, LenProperties
<1>8. /\ child' \in Process /\ child'.script = child.script /\ child'.written = child.written /\ child'.alive = child.alive
      /\ child'.reading = child.reading /\ child'.pipe = child.pipe /\ child'.channel = rest
  BY <1>1, <1>3, <1>6 DEF Process
<1>9. PanelTyped'
  BY <1>1, <1>4, <1>7, <1>8, <1>3 DEF PanelTyped, PanelInv
<1>10. LinesInOrder'
  <2>1. /\ Len(applied) + Len(child.channel) + Len(child.pipe) = child.written
        /\ child.written <= Len(child.script)
        /\ \A i \in 1 .. Len(applied) : applied[i] = i
        /\ \A i \in 1 .. Len(child.channel) : child.channel[i] = Len(applied) + i
        /\ \A i \in 1 .. Len(child.pipe) : child.pipe[i] = Len(applied) + Len(child.channel) + i
        /\ ~child.reading => child.pipe = <<>> /\ ~child.alive
    BY <1>2, <1>3 DEF LinesInOrder
  <2>2. ASSUME NEW i \in 1 .. Len(applied') PROVE applied'[i] = i
    <3>1. CASE i \in 1 .. Len(applied)
      BY <1>7, <2>1, <3>1
    <3>2. CASE i = Len(applied) + 1
      BY <1>4, <1>7, <3>2
    <3> QED
      BY <1>5, <1>7, <2>2, <3>1, <3>2
  <2>3. ASSUME NEW i \in 1 .. Len(child'.channel) PROVE child'.channel[i] = Len(applied') + i
    <3>1. i \in 1 .. Len(child.channel) - 1 /\ i + 1 \in 1 .. Len(child.channel)
      BY <1>5, <1>6, <1>8, <2>3
    <3>2. child'.channel[i] = child.channel[i + 1] /\ child.channel[i + 1] = Len(applied) + (i + 1)
      BY <1>6, <1>8, <2>1, <3>1
    <3> QED
      BY <1>5, <1>7, <3>1, <3>2
  <2>4. Len(applied') + Len(child'.channel) = Len(applied) + Len(child.channel)
    <3> DEFINE a == Len(applied)
               c == Len(child.channel)
               q == Len(child.pipe)
               w == child.written
               s == Len(child.script)
    <3>0. a \in Nat /\ c \in Nat \ {0} /\ q \in Nat /\ w \in Nat /\ s \in Nat /\ a + c + q = w /\ w <= s
      BY <1>5, <2>1
    <3> HIDE DEF a, c, q, w, s
    <3>1. Len(applied') = a + 1 /\ Len(child'.channel) = c - 1
      BY <1>6, <1>7, <1>8 DEF a, c
    <3>2. (a + 1) + (c - 1) = a + c
      BY <3>0, NextFits
    <3> QED
      BY <3>1, <3>2 DEF a, c
  <2>5. Len(applied') + Len(child'.channel) + Len(child'.pipe) = child'.written
    BY <1>8, <2>1, <2>4
  <2>6. \A i \in 1 .. Len(child'.pipe) : child'.pipe[i] = Len(applied') + Len(child'.channel) + i
    BY <1>8, <2>1, <2>4
  <2>7. Len(applied') <= child'.written /\ child'.written <= Len(child'.script)
    <3> DEFINE a == Len(applied)
               c == Len(child.channel)
               q == Len(child.pipe)
               w == child.written
               s == Len(child.script)
    <3>0. a \in Nat /\ c \in Nat \ {0} /\ q \in Nat /\ w \in Nat /\ s \in Nat /\ a + c + q = w /\ w <= s
      BY <1>5, <2>1
    <3> HIDE DEF a, c, q, w, s
    <3>1. Len(applied') = a + 1
      BY <1>7 DEF a
    <3>2. a + 1 <= w
      BY <3>0, NextFits
    <3> QED
      BY <1>8, <2>1, <3>1, <3>2 DEF w
  <2> QED
    BY <1>1, <1>2, <1>8, <2>1, <2>2, <2>3, <2>5, <2>6, <2>7 DEF LinesInOrder
<1>11. FrameSound' /\ CancelTrue'
  BY <1>1, <1>2, <1>3, <1>4, <1>8 DEF FrameSound, CancelTrue
<1>12. ButtonsTrue'
  <2>1. ASSUME ~panel'.running PROVE \E m \in ToSet(applied') : child'.script[m] = "completed"
    <3>1. CASE panel.running
      <4>1. child'.script[n] = "completed"
        BY <1>1, <1>4, <1>8, <2>1, <3>1
      <4>2. n \in ToSet(applied')
        BY <1>5, <1>7 DEF ToSet
      <4> QED
        BY <4>1, <4>2
    <3>2. CASE ~panel.running
      <4>1. PICK m \in ToSet(applied) : child.script[m] = "completed"
        BY <1>2, <1>3, <3>2 DEF ButtonsTrue
      <4>2. m \in ToSet(applied')
        <5>1. PICK i \in DOMAIN applied : m = applied[i]
          BY <4>1 DEF ToSet
        <5>2. i \in DOMAIN applied' /\ applied'[i] = m
          BY <1>5, <1>7, <5>1
        <5> QED
          BY <5>2 DEF ToSet
      <4> QED
        BY <1>8, <4>1, <4>2
    <3> QED
      BY <3>1, <3>2
  <2> QED
    BY <1>1, <1>2, <2>1 DEF ButtonsTrue
<1>13. LogsTrue'
  <2>1. Said' = LogLines(child'.script, applied')
    BY DEF Said, IsLog, LogLines
  <2>2. \A i : SaidSince(i)' = LogsSince(child'.script, applied', i)
    BY <2>1 DEF SaidSince, LogsSince
  <2>3. LogsKept(child'.script, applied', panel'.logs)
    BY <1>1, <1>4, <1>8
  <2> QED
    BY <2>1, <2>2, <2>3 DEF LogsTrue, LogsKept
<1> QED
  BY <1>9, <1>10, <1>11, <1>12, <1>13 DEF PanelInv

\* Only the place in the frame moves, and what the panel says.
LEMMA SaysStep ==
    ASSUME PanelInv, UNCHANGED <<process, child, killed, applied, gaveUp>>,
           panel' \in [running : BOOLEAN, status : Statuses, logs : Seq(Nat)],
           panel'.running = panel.running, panel'.logs = panel.logs, panel'.status \in {panel.status, "error", "already running", "none running"},
           frame' \in {"idle", "draining", "drained", "joining", "ui"},
           frame' \in {"draining", "drained", "joining"} => process, frame' = "joining" => ~child.alive
    PROVE  PanelInv'
<1>1. PanelTyped'
  BY DEF PanelInv, PanelTyped
<1>2. LinesInOrder' /\ FrameSound' /\ ButtonsTrue'
  BY DEF PanelInv, LinesInOrder, FrameSound, ButtonsTrue
<1>3. CancelTrue'
  BY DEF PanelInv, CancelTrue
<1>4. LogsTrue'
  BY LogsStay
<1> QED
  BY <1>1, <1>2, <1>3, <1>4 DEF PanelInv

LEMMA SaysAction ==
    ASSUME PanelInv, NEW status \in {"error", "already running", "none running"}, Says(status)
    PROVE  PanelInv'
<1>1. /\ panel' = [panel EXCEPT !.status = status] /\ frame' = "idle"
      /\ UNCHANGED <<process, child, killed, applied, started, gaveUp>>
  BY DEF Says
<1>2. /\ panel' \in [running : BOOLEAN, status : Statuses, logs : Seq(Nat)]
      /\ panel'.running = panel.running /\ panel'.logs = panel.logs /\ panel'.status = status
  BY <1>1, PanelFacts DEF Statuses
<1> QED
  BY <1>1, <1>2, SaysStep

LEMMA FrameStep ==
    ASSUME PanelInv, BeginFrame \/ EndOfDrain \/ TryWait \/ NoClick
    PROVE  PanelInv'
<1>1. UNCHANGED <<panel, process, child, killed, applied, gaveUp>>
  BY DEF BeginFrame, EndOfDrain, TryWait, NoClick
<1>2. /\ frame' \in {"idle", "draining", "drained", "joining", "ui"}
      /\ frame' \in {"draining", "drained", "joining"} => process
      /\ frame' = "joining" => ~child.alive
  BY DEF BeginFrame, EndOfDrain, TryWait, NoClick, PanelInv, FrameSound
<1>3. panel \in [running : BOOLEAN, status : Statuses, logs : Seq(Nat)]
  BY PanelFacts
<1> QED
  BY <1>1, <1>2, <1>3, SaysStep

\* The handle is given up: every line is applied, unless waiting failed.
LEMMA HandleGone ==
    ASSUME PanelInv, process, process' = FALSE, UNCHANGED <<child, killed, applied>>,
           frame' \in {"idle", "ui"},
           panel' \in [running : BOOLEAN, status : Statuses, logs : Seq(Nat)], panel'.logs = panel.logs,
           panel'.running => gaveUp' = "cancel",
           gaveUp' # "wait" => child.channel = <<>> /\ ~child.reading,
           panel'.status = "cancelled" => ~child.alive
    PROVE  PanelInv'
<1>1. PanelTyped'
  BY DEF PanelInv, PanelTyped
<1>2. LinesInOrder'
  <2>1. LinesInOrder
    BY PanelFacts
  <2>2. ASSUME gaveUp' # "wait" PROVE Len(applied) = child.written /\ ~child.alive
    <3>1. child.pipe = <<>> /\ ~child.alive /\ Len(applied) + Len(child.channel) + Len(child.pipe) = child.written
      BY <2>1, <2>2 DEF LinesInOrder
    <3>2. Len(child.channel) = 0 /\ Len(child.pipe) = 0 /\ Len(applied) \in Nat
      BY <2>2, <3>1, PanelFacts
    <3> QED
      BY <3>1, <3>2
  <2> QED
    BY <2>1, <2>2 DEF LinesInOrder
<1>3. FrameSound' /\ ButtonsTrue' /\ CancelTrue'
  BY DEF FrameSound, ButtonsTrue, CancelTrue
<1>4. LogsTrue'
  BY LogsStay
<1> QED
  BY <1>1, <1>2, <1>3, <1>4 DEF PanelInv

LEMMA GiveUpStep ==
    ASSUME PanelInv, TryWaitFails \/ PollExited \/ CancelDone
    PROVE  PanelInv'
<1>1. panel \in [running : BOOLEAN, status : Statuses, logs : Seq(Nat)] /\ LinesInOrder /\ FrameSound /\ CancelTrue
  BY PanelFacts
<1>2. process
  BY <1>1 DEF TryWaitFails, PollExited, CancelDone, FrameSound
<1>3. CASE TryWaitFails
  <2>1. /\ panel' = [panel EXCEPT !.running = FALSE, !.status = "error"] /\ process' = FALSE /\ frame' = "ui" /\ gaveUp' = "wait"
        /\ UNCHANGED <<child, killed, applied>>
    BY <1>3 DEF TryWaitFails
  <2>2. /\ panel' \in [running : BOOLEAN, status : Statuses, logs : Seq(Nat)] /\ panel'.logs = panel.logs
        /\ ~panel'.running /\ panel'.status = "error"
    BY <1>1, <2>1 DEF Statuses
  <2> QED
    BY <1>2, <2>1, <2>2, HandleGone
<1>4. CASE PollExited
  <2>1. /\ panel' = Exited(panel) /\ process' = FALSE /\ frame' = "ui" /\ ~child.reading /\ child.channel = <<>>
        /\ UNCHANGED <<child, killed, applied>>
    BY <1>4 DEF PollExited
  <2>2. /\ panel' \in [running : BOOLEAN, status : Statuses, logs : Seq(Nat)] /\ panel'.logs = panel.logs
        /\ ~panel'.running /\ panel'.status \in {panel.status, "exited"}
    BY <1>1, <2>1 DEF Exited, Statuses
  <2>3. panel'.status # "cancelled"
    BY <1>1, <1>2, <2>2 DEF CancelTrue
  <2> QED
    BY <1>2, <2>1, <2>2, <2>3, HandleGone
<1>5. CASE CancelDone
  <2>1. /\ panel' = IF killed THEN [panel EXCEPT !.running = FALSE, !.status = "cancelled"] ELSE [panel EXCEPT !.status = "error"]
        /\ gaveUp' = (IF killed THEN gaveUp ELSE "cancel") /\ process' = FALSE /\ frame' = "idle"
        /\ ~child.reading /\ child.channel = <<>> /\ UNCHANGED <<child, killed, applied>> /\ frame = "cancelling"
    BY <1>5 DEF CancelDone
  <2>2. CASE killed
    <3>1. /\ panel' \in [running : BOOLEAN, status : Statuses, logs : Seq(Nat)] /\ panel'.logs = panel.logs
          /\ ~panel'.running
      BY <1>1, <2>1, <2>2 DEF Statuses
    <3>2. ~child.alive
      BY <1>1, <2>1, <2>2 DEF FrameSound
    <3> QED
      BY <1>2, <2>1, <3>1, <3>2, HandleGone
  <2>3. CASE ~killed
    <3>1. /\ panel' \in [running : BOOLEAN, status : Statuses, logs : Seq(Nat)] /\ panel'.logs = panel.logs
          /\ panel'.status = "error" /\ gaveUp' = "cancel"
      BY <1>1, <2>1, <2>3 DEF Statuses
    <3> QED
      BY <1>2, <2>1, <3>1, HandleGone
  <2> QED
    BY <2>2, <2>3
<1> QED
  BY <1>3, <1>4, <1>5

LEMMA StartWorkerStep ==
    ASSUME PanelInv, NEW script \in Scripts, StartWorker(script)
    PROVE  PanelInv'
<1>1. /\ child' = [NoChild EXCEPT !.script = script, !.alive = TRUE, !.reading = TRUE]
      /\ panel' = [panel EXCEPT !.running = TRUE, !.status = "running"]
      /\ process' = TRUE /\ frame' = "idle" /\ applied' = <<>> /\ UNCHANGED killed
  BY DEF StartWorker
<1>2. script \in Seq({"log", "progress", "completed", "junk"}) /\ Len(script) \in Nat
  BY PanelAssumption
<1>3. <<>> \in Seq(Nat) /\ Len(<<>>) = 0 /\ DOMAIN <<>> = {}
  OBVIOUS
<1>4. /\ child' \in Process /\ child'.script = script /\ child'.written = 0 /\ child'.alive /\ child'.reading
      /\ child'.pipe = <<>> /\ child'.channel = <<>>
  BY <1>1, <1>2, <1>3 DEF NoChild, Process
<1>5. /\ panel' \in [running : BOOLEAN, status : Statuses, logs : Seq(Nat)] /\ panel'.logs = panel.logs
      /\ panel'.running /\ panel'.status = "running"
  BY <1>1, PanelFacts DEF Statuses
<1>6. PanelTyped'
  BY <1>1, <1>3, <1>4, <1>5, PanelFacts DEF PanelTyped
<1>7. LinesInOrder'
  <2>1. Len(applied') = 0 /\ Len(child'.pipe) = 0 /\ Len(child'.channel) = 0 /\ 1 .. 0 = {}
    BY <1>1, <1>3, <1>4
  <2>2. child'.written <= Len(child'.script) /\ Len(applied') <= child'.written
    BY <1>2, <1>4, <2>1
  <2>3. Len(applied') + Len(child'.channel) + Len(child'.pipe) = child'.written
    BY <1>4, <2>1
  <2> QED
    BY <1>1, <1>4, <2>1, <2>2, <2>3 DEF LinesInOrder
<1>8. FrameSound' /\ ButtonsTrue' /\ CancelTrue'
  BY <1>1, <1>5 DEF FrameSound, ButtonsTrue, CancelTrue
<1>9. LogsTrue'
  <2>1. Said' = {}
    BY <1>1, <1>3 DEF Said
  <2>2. Len(panel.logs) <= LogCap
    BY DEF PanelInv, LogsTrue
  <2> QED
    BY <1>5, <2>1, <2>2 DEF LogsTrue
<1> QED
  BY <1>6, <1>7, <1>8, <1>9 DEF PanelInv

LEMMA KillStep ==
    ASSUME PanelInv, CancelKill
    PROVE  PanelInv'
<1>1. /\ process /\ frame' = "cancelling" /\ UNCHANGED <<panel, process, applied, started, gaveUp>>
      /\ \/ killed' = TRUE /\ child' = [child EXCEPT !.alive = FALSE]
         \/ killed' = FALSE /\ child' = child
  BY DEF CancelKill
<1>2. /\ child' \in Process /\ child'.script = child.script /\ child'.written = child.written
      /\ child'.reading = child.reading /\ child'.pipe = child.pipe /\ child'.channel = child.channel
      /\ ~child.alive => ~child'.alive
      /\ killed' => ~child'.alive
      /\ killed' \in BOOLEAN
  <2>1. child \in Process
    BY PanelFacts
  <2> QED
    BY <1>1, <2>1 DEF Process
<1>3. PanelTyped'
  BY <1>1, <1>2, PanelFacts DEF PanelTyped
<1>4. LinesInOrder'
  BY <1>1, <1>2, PanelFacts DEF LinesInOrder
<1>5. FrameSound' /\ ButtonsTrue' /\ CancelTrue'
  BY <1>1, <1>2, PanelFacts DEF FrameSound, ButtonsTrue, CancelTrue
<1>6. LogsTrue'
  BY <1>1, <1>2, LogsStay
<1> QED
  BY <1>3, <1>4, <1>5, <1>6 DEF PanelInv

LEMMA PanelStep == PanelInv /\ [Next]_vars => PanelInv'
<1> SUFFICES ASSUME PanelInv, [Next]_vars PROVE PanelInv'
  OBVIOUS
<1>1. CASE UNCHANGED panelVars
  <2>1. LogsTrue'
    BY <1>1, LogsStay DEF panelVars
  <2>2. PanelTyped' /\ LinesInOrder' /\ FrameSound' /\ ButtonsTrue' /\ CancelTrue'
    BY <1>1 DEF panelVars, PanelInv, PanelTyped, LinesInOrder, FrameSound, ButtonsTrue, CancelTrue
  <2> QED
    BY <2>1, <2>2 DEF PanelInv
<1>2. CASE StartRefused \/ SpawnFails \/ CancelNothing
  BY <1>2, SaysAction DEF StartRefused, SpawnFails, CancelNothing
<1>3. PanelNext => PanelInv'
  BY <1>2, WorkerStep, ApplyNextStep, FrameStep, GiveUpStep, StartWorkerStep, KillStep DEF PanelNext
<1> QED
  BY <1>1, <1>3 DEF Next, vars

-----------------------------------------------------------------------------
(* What the window shows.                                                  *)

LEMMA PanelInvTrue == PanelInv => WorkerMatchesPanel
<1> SUFFICES ASSUME PanelInv PROVE WorkerMatchesPanel
  OBVIOUS
<1>1. /\ child \in Process /\ applied \in Seq(Nat) /\ LinesInOrder /\ ButtonsTrue /\ CancelTrue /\ LogsTrue
  BY PanelFacts
<1> DEFINE a == Len(applied)
           w == child.written
<1>2. /\ a \in Nat /\ w \in Nat /\ a <= w /\ DOMAIN applied = 1 .. a /\ applied = [i \in 1 .. a |-> applied[i]]
      /\ \A i \in 1 .. a : applied[i] = i
  BY <1>1, LenProperties DEF LinesInOrder, Process
<1> HIDE DEF a, w
<1>3. Written \in Seq(Nat) /\ Len(Written) = w /\ \A i \in 1 .. w : Written[i] = i
  BY <1>2 DEF Written, w
<1>4. PanelInOrder
  <2>1. SubSeq(Written, 1, a) = applied
    <3>1. SubSeq(Written, 1, a) = [i \in 1 .. a |-> Written[i]]
      BY <1>2, <1>3
    <3>2. \A i \in 1 .. a : Written[i] = applied[i]
      BY <1>2, <1>3
    <3> QED
      BY <1>2, <3>1, <3>2
  <2>2. Len(applied) <= Len(Written)
    BY <1>2, <1>3 DEF a
  <2> QED
    BY <2>1, <2>2 DEF PanelInOrder, IsPrefix, a
<1>5. NothingLost
  <2>1. ASSUME ~process, gaveUp # "wait" PROVE applied = Written
    <3>1. a = w
      BY <1>1, <2>1 DEF LinesInOrder, a, w
    <3>2. Written = [i \in 1 .. a |-> i]
      BY <3>1 DEF Written, w
    <3> QED
      BY <1>2, <3>2
  <2> QED
    BY <2>1 DEF NothingLost
<1> QED
  BY <1>1, <1>4, <1>5 DEF WorkerMatchesPanel

(* The window shows what is so (WindowTruthful): the compile panel lists   *)
(* the worker's lines in their order and loses none once the process is    *)
(* gone, offers Cancel while there is one to cancel, never calls a running *)
(* process cancelled, and the controller state after a poll is what is     *)
(* held (poll_worker, start_worker, cancel_worker, poll_input).            *)
THEOREM WindowAlwaysTruthful == Spec => []WindowTruthful
<1>1. Init => PanelInv /\ InputInv
  BY PanelInitInv, InputInitInv DEF Init
<1>2. InputInv => InputMatches
  BY DEF InputInv, InputMatches, HeldActions
<1>3. PanelInv /\ InputInv => WindowTruthful
  BY <1>2, PanelInvTrue DEF WindowTruthful
<1> QED
  BY <1>1, <1>3, PanelStep, InputStep, PTL DEF Spec

-----------------------------------------------------------------------------
(* The title database.                                                     *)

Names == {"row", "meta", "settings", "placeholder", "synthetic", "homebrew"}
Op == [id : Ids \cup {"none"}, n : Nat, kind : Kinds \cup {"placeholder"}, todo : Seq(Names), filling : BOOLEAN, rewrite : BOOLEAN]
TitleTyped ==
    /\ DOMAIN rows \subseteq Ids /\ \A id \in DOMAIN rows : rows[id] \in [n : 1 .. tried, kind : Kinds]
    /\ \A f \in DOMAIN files : files[f] \in [n : Nat, whole : BOOLEAN]
    /\ op \in [Windows -> Op] /\ listed \in [Windows -> SUBSET Ids]
    /\ view \in [Windows -> [id : Ids \cup {"none"}, n : Nat]]
    /\ tried \in Nat /\ created \subseteq 1 .. tried

\* What a creation writes after its row, and the lists a call may have left.
Content(kind) == {kind, "meta", "settings"} \ {"placeholder"}
Remains(kind) == {Steps(kind), Tail(Steps(kind)), Sidecars, <<"settings">>, <<>>}

\* Whoever left the file cut short: a window whose rewrite of the title has not
\* ended, and which has not written this file again since.
TornBy(id, name) ==
    \E u \in Windows : /\ <<u, id>> \in torn
                       /\ op[u].rewrite /\ op[u].id = id => name \in ToSet(op[u].todo)
Kept(id, name) ==
    /\ <<id, name>> \in DOMAIN files
    /\ files[<<id, name>>].whole \/ (name \in {"meta", "settings"} /\ TornBy(id, name))
CreatedKept ==
    \A n \in created : \E id \in DOMAIN rows : rows[id].n = n /\ \A name \in Content(rows[id].kind) : Kept(id, name)

\* A call whose row is still to come has a number of its own; past the row, the
\* row is its own, and what it has written is kept.
CallSound(w, o) ==
    /\ o.n \in 1 .. tried /\ o.id \in Ids /\ o.kind \in Kinds
    /\ o.todo \in (IF o.rewrite THEN {Sidecars, <<"settings">>, <<>>} ELSE Remains(o.kind))
    /\ o.filling => o.todo # <<>> /\ Head(o.todo) # "row"
    /\ "row" \in ToSet(o.todo) => \A id \in DOMAIN rows : rows[id].n # o.n
    /\ "row" \notin ToSet(o.todo) => o.id \in DOMAIN rows /\ rows[o.id].n = o.n /\ rows[o.id].kind = o.kind
    /\ o.rewrite => <<w, o.id>> \in torn
    /\ ~o.rewrite => /\ o.n \notin created
                     /\ \A v \in Windows \ {w} : op[v].rewrite \/ op[v].n # o.n
                     /\ "row" \notin ToSet(o.todo) => \A name \in Content(o.kind) \ ToSet(o.todo) : Kept(o.id, name)
CallsSound == \A w \in Windows : op[w] = Idle \/ CallSound(w, op[w])
TitleInv == TitleTyped /\ FilesOwned /\ CreatedKept /\ CallsSound /\ ScreensTrue

LEMMA SetOfCons ==
    ASSUME NEW S, NEW s \in Seq(S), s # <<>>
    PROVE  ToSet(s) = {Head(s)} \cup ToSet(Tail(s))
<1>1. Len(s) \in Nat \ {0} /\ DOMAIN s = 1 .. Len(s) /\ Len(Tail(s)) = Len(s) - 1 /\ Tail(s) \in Seq(S)
  OBVIOUS
<1>2. DOMAIN Tail(s) = 1 .. Len(s) - 1 /\ \A i \in 1 .. Len(s) - 1 : Tail(s)[i] = s[i + 1]
  BY <1>1
<1>3. ASSUME NEW i \in 1 .. Len(s) PROVE s[i] \in {Head(s)} \cup ToSet(Tail(s))
  <2>1. CASE i = 1
    BY <1>1, <2>1
  <2>2. CASE i # 1
    <3>1. i - 1 \in 1 .. Len(s) - 1 /\ s[i] = Tail(s)[i - 1]
      BY <1>1, <1>2, <2>2
    <3> QED
      BY <1>2, <3>1 DEF ToSet
  <2> QED
    BY <2>1, <2>2
<1>4. ASSUME NEW i \in 1 .. Len(s) - 1 PROVE Tail(s)[i] \in ToSet(s)
  <2>1. i + 1 \in 1 .. Len(s) /\ Tail(s)[i] = s[i + 1]
    BY <1>1, <1>2
  <2> QED
    BY <1>1, <2>1 DEF ToSet
<1>5. Head(s) \in ToSet(s)
  BY <1>1 DEF ToSet
<1> QED
  BY <1>1, <1>2, <1>3, <1>4, <1>5 DEF ToSet

LEMMA Lengthened ==
    ASSUME NEW S, NEW s \in Seq(S), NEW u \in Seq(S), NEW b \in S,
           Len(u) = Len(s) + 1, \A i \in 1 .. Len(s) : u[i] = s[i], u[Len(s) + 1] = b
    PROVE  Append(s, b) = u
<1>1. /\ Append(s, b) \in Seq(S) /\ Len(Append(s, b)) = Len(s) + 1
      /\ \A i \in 1 .. Len(s) + 1 : Append(s, b)[i] = u[i]
  BY AppendProperties
<1> QED
  BY <1>1, SeqEqual

LEMMA ListOfThree ==
    ASSUME NEW S, NEW a \in S, NEW b \in S, NEW c \in S
    PROVE  <<a>> \o <<b>> = <<a, b>> /\ <<a, b>> \o <<c>> = <<a, b, c>> /\ <<a>> \o <<b, c>> = <<a, b, c>>
<1> DEFINE s == <<a>>
           t == <<a, b>>
           u == <<a, b, c>>
<1>1. /\ s \in Seq(S) /\ t \in Seq(S) /\ u \in Seq(S) /\ Len(s) = 1 /\ Len(t) = 2 /\ Len(u) = 3
      /\ s[1] = a /\ t[1] = a /\ t[2] = b /\ u[1] = a /\ u[2] = b /\ u[3] = c
      /\ <<b>> \in Seq(S) /\ <<c>> \in Seq(S)
  OBVIOUS
<1>2. <<b>> \o <<c>> = <<b, c>>
  <2> DEFINE p == <<b>>
             q == <<b, c>>
  <2>1. p \in Seq(S) /\ q \in Seq(S) /\ Len(p) = 1 /\ Len(q) = 2 /\ p[1] = b /\ q[1] = b /\ q[2] = c
    OBVIOUS
  <2> HIDE DEF p, q
  <2>2. Len(q) = Len(p) + 1 /\ (\A i \in 1 .. Len(p) : q[i] = p[i]) /\ q[Len(p) + 1] = c
    BY <2>1
  <2>3. Append(p, c) = q
    BY <2>1, <2>2, Lengthened
  <2>4. Append(p, c) = p \o <<c>>
    BY <2>1, AppendIsConcat
  <2> QED
    BY <2>3, <2>4 DEF p, q
<1> HIDE DEF s, t, u
<1>3. s \o <<b>> = t /\ t \o <<c>> = u
  <2>1. /\ Len(t) = Len(s) + 1 /\ (\A i \in 1 .. Len(s) : t[i] = s[i]) /\ t[Len(s) + 1] = b
        /\ Len(u) = Len(t) + 1 /\ (\A i \in 1 .. Len(t) : u[i] = t[i]) /\ u[Len(t) + 1] = c
    BY <1>1
  <2>0. s \in Seq(S) /\ t \in Seq(S) /\ u \in Seq(S) /\ b \in S /\ c \in S
    BY <1>1
  <2>2. Append(s, b) = t
    BY ONLY <2>0, <2>1, Lengthened
  <2>3. Append(t, c) = u
    BY ONLY <2>0, <2>1, Lengthened
  <2> QED
    BY <1>1, <2>2, <2>3, AppendIsConcat
<1>4. (s \o <<b>>) \o <<c>> = s \o (<<b>> \o <<c>>)
  BY <1>1, ConcatAssociative
<1> QED
  BY <1>2, <1>3, <1>4 DEF s, t, u

LEMMA StepsAre ==
    ASSUME NEW kind \in Kinds
    PROVE  Steps(kind) = IF kind = "placeholder" THEN <<"row", "meta", "settings">> ELSE <<"row", kind, "meta", "settings">>
<1>1. kind \in Names /\ "row" \in Names /\ "meta" \in Names /\ "settings" \in Names
  BY TitleAssumption DEF Names
<1>2. <<"row">> \in Seq(Names) /\ <<kind, "meta">> \in Seq(Names) /\ <<"row", kind>> \in Seq(Names)
      /\ <<"meta">> \in Seq(Names) /\ <<"settings">> \in Seq(Names)
  BY <1>1
<1>3. CASE kind = "placeholder"
  <2>1. Steps(kind) = (<<"row">> \o <<>>) \o <<"meta", "settings">>
    BY <1>3 DEF Steps
  <2>2. <<"row">> \o <<>> = <<"row">>
    BY <1>2, ConcatEmptySeq
  <2>3. <<"row">> \o <<"meta", "settings">> = <<"row", "meta", "settings">>
    BY <1>1, ListOfThree
  <2> QED
    BY <1>3, <2>1, <2>2, <2>3
<1>4. CASE kind # "placeholder"
  <2>1. Steps(kind) = (<<"row">> \o <<kind>>) \o <<"meta", "settings">>
    BY <1>4 DEF Steps
  <2>2. <<"row">> \o <<kind>> = <<"row", kind>> /\ <<"meta">> \o <<"settings">> = <<"meta", "settings">>
    BY <1>1, ListOfThree
  <2>3. <<"row", kind>> \o (<<"meta">> \o <<"settings">>) = (<<"row", kind>> \o <<"meta">>) \o <<"settings">>
    BY <1>2, ConcatAssociative
  <2> DEFINE t == <<"row", kind, "meta">>
             u == <<"row", kind, "meta", "settings">>
  <2>4. <<"row", kind>> \o <<"meta">> = t
    BY <1>1, ListOfThree
  <2>5. t \in Seq(Names) /\ u \in Seq(Names) /\ Len(t) = 3 /\ Len(u) = 4 /\ \A i \in 1 .. 3 : u[i] = t[i]
    BY <1>1
  <2>6. u[4] = "settings"
    OBVIOUS
  <2> HIDE DEF t, u
  <2>7. Append(t, "settings") = u
    <3>1. Len(u) = Len(t) + 1 /\ (\A i \in 1 .. Len(t) : u[i] = t[i]) /\ u[Len(t) + 1] = "settings"
      BY <2>5, <2>6
    <3>2. t \in Seq(Names) /\ u \in Seq(Names) /\ "settings" \in Names
      BY <1>1, <2>5
    <3> QED
      BY ONLY <3>1, <3>2, Lengthened
  <2>8. Append(t, "settings") = t \o <<"settings">>
    BY <1>1, <2>5, AppendIsConcat
  <2> QED
    BY <1>4, <2>1, <2>2, <2>3, <2>4, <2>7, <2>8 DEF u
<1> QED
  BY <1>3, <1>4

\* What is left of a call is told by the set of its names and the next of them.
LEMMA RemainsAre ==
    ASSUME NEW kind \in Kinds
    PROVE  /\ ToSet(<<>>) = {} /\ ToSet(<<"settings">>) = {"settings"} /\ ToSet(Sidecars) = {"meta", "settings"}
           /\ ToSet(Tail(Steps(kind))) = Content(kind) /\ ToSet(Steps(kind)) = {"row"} \cup Content(kind)
           /\ kind \notin {"meta", "settings", "row"}
           /\ \A todo \in Remains(kind) :
                 todo # <<>> => /\ Tail(todo) \in Remains(kind)
                                /\ Head(todo) \in ToSet(todo) /\ ToSet(Tail(todo)) = ToSet(todo) \ {Head(todo)}
                                /\ Head(todo) = "row" <=> todo = Steps(kind)
           /\ \A todo \in {Sidecars, <<"settings">>, <<>>} :
                 todo # <<>> => /\ Tail(todo) \in {Sidecars, <<"settings">>, <<>>}
                                /\ Head(todo) \in ToSet(todo) /\ ToSet(Tail(todo)) = ToSet(todo) \ {Head(todo)}
<1>0. kind \in Names /\ kind \notin {"meta", "settings", "row"} /\ {"row", "meta", "settings"} \subseteq Names
  BY TitleAssumption DEF Names
<1>1. /\ ToSet(<<>>) = {} /\ ToSet(<<"settings">>) = {"settings"} /\ ToSet(Sidecars) = {"meta", "settings"}
      /\ ToSet(<<"row", "meta", "settings">>) = {"row", "meta", "settings"}
      /\ ToSet(<<kind, "meta", "settings">>) = {kind, "meta", "settings"}
      /\ ToSet(<<"row", kind, "meta", "settings">>) = {"row", kind, "meta", "settings"}
  BY <1>0, SetOfCons DEF ToSet, Sidecars
<1>2. ASSUME NEW todo \in Remains(kind), todo # <<>>
      PROVE  /\ Tail(todo) \in Remains(kind)
             /\ Head(todo) \in ToSet(todo) /\ ToSet(Tail(todo)) = ToSet(todo) \ {Head(todo)}
             /\ Head(todo) = "row" <=> todo = Steps(kind)
  <2>1. CASE kind = "placeholder"
    <3>0. Steps(kind) = <<"row", "meta", "settings">>
      BY <2>1, StepsAre
    <3>1. Steps(kind) = <<"row", "meta", "settings">> /\ Tail(Steps(kind)) = <<"meta", "settings">>
      BY <3>0
    <3>2. todo \in {<<"row", "meta", "settings">>, <<"meta", "settings">>, <<"settings">>}
      BY <1>2, <3>1 DEF Remains, Sidecars
    <3>3. CASE todo = <<"row", "meta", "settings">>
      BY <1>1, <3>1, <3>3 DEF Remains, Sidecars
    <3>4. CASE todo = <<"meta", "settings">>
      BY <1>1, <3>1, <3>4 DEF Remains, Sidecars
    <3>5. CASE todo = <<"settings">>
      BY <1>1, <3>1, <3>5 DEF Remains, Sidecars
    <3> QED
      BY <3>2, <3>3, <3>4, <3>5
  <2>2. CASE kind # "placeholder"
    <3>0. Steps(kind) = <<"row", kind, "meta", "settings">>
      BY <2>2, StepsAre
    <3>1. Steps(kind) = <<"row", kind, "meta", "settings">> /\ Tail(Steps(kind)) = <<kind, "meta", "settings">>
      BY <3>0
    <3>2. todo \in {<<"row", kind, "meta", "settings">>, <<kind, "meta", "settings">>, <<"meta", "settings">>, <<"settings">>}
      BY <1>2, <3>1 DEF Remains, Sidecars
    <3>3. CASE todo = <<"row", kind, "meta", "settings">>
      BY <1>0, <1>1, <3>1, <3>3 DEF Remains, Sidecars
    <3>6. CASE todo = <<kind, "meta", "settings">>
      BY <1>0, <1>1, <3>1, <3>6 DEF Remains, Sidecars
    <3>4. CASE todo = <<"meta", "settings">>
      BY <1>0, <1>1, <3>1, <3>4 DEF Remains, Sidecars
    <3>5. CASE todo = <<"settings">>
      BY <1>0, <1>1, <3>1, <3>5 DEF Remains, Sidecars
    <3> QED
      BY <3>2, <3>3, <3>4, <3>5, <3>6
  <2> QED
    BY <2>1, <2>2
<1>3. ASSUME NEW todo \in {Sidecars, <<"settings">>, <<>>}, todo # <<>>
      PROVE  /\ Tail(todo) \in {Sidecars, <<"settings">>, <<>>}
             /\ Head(todo) \in ToSet(todo) /\ ToSet(Tail(todo)) = ToSet(todo) \ {Head(todo)}
  <2>1. CASE todo = <<"meta", "settings">>
    BY <1>0, <1>1, <2>1 DEF Sidecars
  <2>2. CASE todo = <<"settings">>
    BY <1>0, <1>1, <2>2 DEF Sidecars
  <2> QED
    BY <1>3, <2>1, <2>2 DEF Sidecars
<1>4. ToSet(Tail(Steps(kind))) = Content(kind) /\ ToSet(Steps(kind)) = {"row"} \cup Content(kind)
  <2>1. CASE kind = "placeholder"
    <3>0. Steps(kind) = <<"row", "meta", "settings">>
      BY <2>1, StepsAre
    <3>1. Tail(Steps(kind)) = <<"meta", "settings">>
      BY <3>0
    <3> QED
      BY <1>0, <1>1, <2>1, <3>0, <3>1 DEF Content, Sidecars
  <2>2. CASE kind # "placeholder"
    <3>0. Steps(kind) = <<"row", kind, "meta", "settings">>
      BY <2>2, StepsAre
    <3>1. Tail(Steps(kind)) = <<kind, "meta", "settings">>
      BY <3>0
    <3> QED
      BY <1>0, <1>1, <2>2, <3>0, <3>1 DEF Content, Sidecars
  <2> QED
    BY <2>1, <2>2
<1> QED
  BY <1>0, <1>1, <1>2, <1>3, <1>4

-----------------------------------------------------------------------------
(* What every step of a window leaves to the others.                       *)

RowsStay == DOMAIN rows \subseteq DOMAIN rows' /\ \A id \in DOMAIN rows : rows'[id] = rows[id]
KeepsOthers(w) ==
    \A id \in DOMAIN rows, name \in Names :
       (op[w].rewrite \/ rows[id].n # op[w].n) /\ Kept(id, name) => Kept(id, name)'

LEMMA ContentNames == ASSUME NEW kind \in Kinds PROVE Content(kind) \subseteq Names /\ "row" \notin Content(kind)
BY TitleAssumption DEF Content, Names

LEMMA KeptStays ==
    ASSUME UNCHANGED files, torn \subseteq torn',
           \A u \in Windows : op'[u] = op[u] \/ ~op'[u].rewrite \/ op'[u].todo = Sidecars,
           NEW id, NEW name, Kept(id, name)
    PROVE  Kept(id, name)'
<1>1. ToSet(Sidecars) = {"meta", "settings"}
  <2>1. "meta" \in Names /\ "settings" \in Names /\ Sidecars = <<"meta", "settings">>
    BY DEF Names, Sidecars
  <2> QED
    BY <2>1 DEF ToSet
<1> QED
  BY <1>1 DEF Kept, TornBy

LEMMA CreatedStay ==
    ASSUME TitleInv, NEW w \in Windows, RowsStay, KeepsOthers(w), UNCHANGED created
    PROVE  CreatedKept'
<1> SUFFICES ASSUME NEW n \in created
             PROVE  \E id \in DOMAIN rows' : rows'[id].n = n /\ \A name \in Content(rows'[id].kind) : Kept(id, name)'
  BY DEF CreatedKept
<1>1. PICK id \in DOMAIN rows : rows[id].n = n /\ \A name \in Content(rows[id].kind) : Kept(id, name)
  BY DEF TitleInv, CreatedKept
<1>2. op[w].rewrite \/ n # op[w].n
  <2>1. n \in Nat \ {0}
    BY DEF TitleInv, TitleTyped
  <2>2. op[w] = Idle \/ CallSound(w, op[w])
    BY DEF TitleInv, CallsSound
  <2> QED
    BY <2>1, <2>2 DEF CallSound, Idle
<1>3. id \in DOMAIN rows' /\ rows'[id] = rows[id] /\ Content(rows[id].kind) \subseteq Names
  BY ContentNames DEF RowsStay, TitleInv, TitleTyped
<1> QED
  BY <1>1, <1>2, <1>3 DEF KeepsOthers

LEMMA OthersStay ==
    ASSUME TitleInv, NEW w \in Windows, RowsStay, KeepsOthers(w),
           tried' \in {tried, tried + 1},
           \A id \in DOMAIN rows' \ DOMAIN rows : ~op[w].rewrite /\ rows'[id].n = op[w].n,
           \A v \in Windows \ {w} : op'[v] = op[v],
           op'[w].rewrite \/ op'[w].n \in {0, tried + 1} \/ (~op[w].rewrite /\ op'[w].n = op[w].n),
           UNCHANGED created \/ (~op[w].rewrite /\ created' = created \cup {op[w].n}),
           \A v \in Windows \ {w}, id \in Ids : <<v, id>> \in torn => <<v, id>> \in torn',
           NEW v \in Windows, v # w
    PROVE  (op[v] = Idle \/ CallSound(v, op[v]))'
<1> DEFINE o == op[v]
<1> SUFFICES ASSUME o # Idle PROVE CallSound(v, o)'
  OBVIOUS
<1>1. CallSound(v, o) /\ op'[v] = o
  BY DEF TitleInv, CallsSound
<1>2. o.n \in 1 .. tried' /\ tried \in Nat
  BY <1>1 DEF CallSound, TitleInv, TitleTyped
<1>3. ~o.rewrite => op[w].rewrite \/ op[w].n # o.n
  BY <1>1 DEF CallSound
<1>4. "row" \in ToSet(o.todo) => \A id \in DOMAIN rows' : rows'[id].n # o.n
  <2> SUFFICES ASSUME "row" \in ToSet(o.todo), NEW id \in DOMAIN rows' PROVE rows'[id].n # o.n
    OBVIOUS
  <2>1. ~o.rewrite
    <3>1. ToSet(Sidecars) = {"meta", "settings"} /\ ToSet(<<"settings">>) = {"settings"} /\ ToSet(<<>>) = {}
      BY <1>1, RemainsAre DEF CallSound
    <3> QED
      BY <1>1, <3>1 DEF CallSound
  <2>2. CASE id \in DOMAIN rows
    BY <1>1, <2>2 DEF CallSound, RowsStay
  <2>3. CASE id \notin DOMAIN rows
    BY <1>3, <2>1, <2>3
  <2> QED
    BY <2>2, <2>3
<1>5. "row" \notin ToSet(o.todo) => o.id \in DOMAIN rows' /\ rows'[o.id].n = o.n /\ rows'[o.id].kind = o.kind
  BY <1>1 DEF CallSound, RowsStay
<1>6. o.rewrite => <<v, o.id>> \in torn'
  BY <1>1 DEF CallSound
<1>7. ASSUME ~o.rewrite
      PROVE  /\ o.n \notin created'
             /\ \A u \in Windows \ {v} : op'[u].rewrite \/ op'[u].n # o.n
  <2>1. o.n \notin created' 
    BY <1>1, <1>3, <1>7 DEF CallSound
  <2>2. ASSUME NEW u \in Windows \ {v} PROVE op'[u].rewrite \/ op'[u].n # o.n
    <3>1. op[u].rewrite \/ op[u].n # o.n
      BY <1>1, <1>7 DEF CallSound
    <3>2. CASE u = w
      BY <1>1, <1>2, <1>3, <1>7, <3>2 DEF CallSound
    <3>3. CASE u # w
      BY <3>1, <3>3
    <3> QED
      BY <3>2, <3>3
  <2> QED
    BY <2>1, <2>2
<1>8. ASSUME ~o.rewrite, "row" \notin ToSet(o.todo), NEW name \in Content(o.kind) \ ToSet(o.todo)
      PROVE  Kept(o.id, name)'
  <2>1. Kept(o.id, name) /\ o.id \in DOMAIN rows /\ rows[o.id].n = o.n /\ o.kind \in Kinds
    BY <1>1, <1>8 DEF CallSound
  <2>2. name \in Names
    BY <1>8, <2>1, ContentNames
  <2> QED
    BY <1>3, <1>8, <2>1, <2>2 DEF KeepsOthers
<1>9. /\ o.id \in Ids /\ o.kind \in Kinds
      /\ o.todo \in (IF o.rewrite THEN {Sidecars, <<"settings">>, <<>>} ELSE Remains(o.kind))
      /\ o.filling => o.todo # <<>> /\ Head(o.todo) # "row"
  BY <1>1 DEF CallSound

<1> QED
  BY <1>1, <1>2, <1>4, <1>5, <1>6, <1>7, <1>8, <1>9 DEF CallSound

LEMMA IdleTyped == Idle \in Op /\ Idle.n = 0 /\ ~Idle.rewrite /\ Idle.todo = <<>>
<1>1. <<>> \in Seq(Names)
  OBVIOUS
<1> QED
  BY <1>1 DEF Idle, Op

\* The window ends its call, or has none, and leaves table and files alone.
LEMMA Released ==
    ASSUME TitleInv, NEW w, op' \in {op, [op EXCEPT ![w] = Idle]}, UNCHANGED <<rows, files, created, torn, tried>>
    PROVE  op' \in [Windows -> Op] /\ FilesOwned' /\ CreatedKept' /\ CallsSound'
<1>0. op \in [Windows -> Op] /\ CallsSound /\ FilesOwned /\ CreatedKept
  BY DEF TitleInv, TitleTyped
<1>1. op' \in [Windows -> Op]
  BY <1>0, IdleTyped
<1>2. FilesOwned'
  BY <1>0 DEF FilesOwned
<1>3. CASE op' = op
  <2>1. CreatedKept'
    BY <1>0, <1>3 DEF CreatedKept, Kept, TornBy
  <2>2. CallsSound'
    <3>1. \A id, name : Kept(id, name)' <=> Kept(id, name)
      BY <1>3 DEF Kept, TornBy
    <3>2. ASSUME NEW v \in Windows PROVE (op[v] = Idle \/ CallSound(v, op[v]))'
      BY <1>0, <1>3, <3>1 DEF CallsSound, CallSound
    <3> QED
      BY <3>2 DEF CallsSound
  <2> QED
    BY <1>1, <1>2, <2>1, <2>2
<1>4. CASE w \in Windows /\ op' # op
  <2>1. op'[w] = Idle /\ \A v \in Windows \ {w} : op'[v] = op[v]
    BY <1>0, <1>4
  <2>2. \A u \in Windows : op'[u] = op[u] \/ ~op'[u].rewrite \/ op'[u].todo = Sidecars
    BY <2>1, IdleTyped
  <2>3. KeepsOthers(w) /\ RowsStay
    BY <2>2, KeptStays DEF KeepsOthers, RowsStay
  <2>4. CreatedKept'
    BY <1>4, <2>3, CreatedStay
  <2>5. ASSUME NEW v \in Windows, v # w PROVE (op[v] = Idle \/ CallSound(v, op[v]))'
    BY <1>4, <2>1, <2>3, <2>5, IdleTyped, OthersStay
  <2>6. \A v \in Windows : (op[v] = Idle \/ CallSound(v, op[v]))'
    BY <2>1, <2>5
  <2> QED
    BY <1>1, <1>2, <2>4, <2>6 DEF CallsSound
<1>5. CASE w \notin Windows
  <2>1. op' = op
    BY <1>0, <1>5
  <2> QED
    BY <1>3, <2>1
<1> QED
  BY <1>3, <1>4, <1>5

LEMMA ScreenStep ==
    ASSUME TitleInv, NEW w,
           OpenDatabase(w) \/ Refresh(w) \/ Fails(w) \/ CloseWindow(w) \/ \E id \in Ids : InspectTitle(w, id)
    PROVE  TitleInv'
<1>0. TitleTyped /\ FilesOwned /\ ScreensTrue
  BY DEF TitleInv
<1>1. op' \in {op, [op EXCEPT ![w] = Idle]} /\ UNCHANGED <<rows, files, created, torn, tried>>
  BY DEF OpenDatabase, Refresh, Fails, CloseWindow, InspectTitle
<1>2. op' \in [Windows -> Op] /\ FilesOwned' /\ CreatedKept' /\ CallsSound'
  BY <1>1, Released
<1>3. listed' \in {listed, [listed EXCEPT ![w] = DOMAIN rows], [listed EXCEPT ![w] = {}]}
  BY DEF OpenDatabase, Refresh, Fails, CloseWindow, InspectTitle
<1>4. listed' \in [Windows -> SUBSET Ids] /\ \A v \in Windows : listed'[v] \in {listed[v], DOMAIN rows, {}}
  BY <1>0, <1>3 DEF TitleTyped
<1>5. \E shown : /\ view' \in {view, [view EXCEPT ![w] = shown]}
                 /\ \/ shown = None
                    \/ shown = view[w]
                    \/ \E id \in DOMAIN rows : shown = [id |-> id, n |-> rows[id].n]
  <2>1. CASE OpenDatabase(w) \/ Refresh(w) \/ Fails(w) \/ CloseWindow(w)
    BY <2>1 DEF OpenDatabase, Refresh, Fails, CloseWindow
  <2>2. ASSUME NEW id \in Ids, InspectTitle(w, id)
        PROVE  \E shown : /\ view' = [view EXCEPT ![w] = shown]
                          /\ \/ shown = None
                             \/ shown = view[w]
                             \/ \E i \in DOMAIN rows : shown = [id |-> i, n |-> rows[i].n]
    <3> DEFINE f == <<id, rows[id].kind>>
               show == CASE id \notin DOMAIN rows -> view[w]
                         [] id \in DOMAIN rows /\ rows[id].kind = "placeholder" -> None
                         [] id \in DOMAIN rows /\ rows[id].kind # "placeholder" /\ f \notin DOMAIN files -> view[w]
                         [] OTHER -> IF rows[id].kind = "synthetic" /\ files[f].whole THEN [id |-> id, n |-> files[f].n] ELSE None
    <3>1. view' = [view EXCEPT ![w] = show]
      BY <2>2 DEF InspectTitle
    <3>2. CASE id \notin DOMAIN rows
      BY <3>1, <3>2
    <3>3. CASE id \in DOMAIN rows /\ rows[id].kind = "placeholder"
      BY <3>1, <3>3
    <3>4. CASE id \in DOMAIN rows /\ rows[id].kind # "placeholder" /\ f \notin DOMAIN files
      BY <3>1, <3>4
    <3>5. CASE id \in DOMAIN rows /\ rows[id].kind # "placeholder" /\ f \in DOMAIN files
      <4>1. files[f].n = rows[id].n
        BY <1>0, <3>5 DEF FilesOwned
      <4>2. show = IF rows[id].kind = "synthetic" /\ files[f].whole THEN [id |-> id, n |-> files[f].n] ELSE None
        BY <3>5
      <4> QED
        BY <3>1, <3>5, <4>1, <4>2
    <3> QED
      BY <3>2, <3>3, <3>4, <3>5
  <2> QED
    BY <2>1, <2>2
<1>6. /\ view' \in [Windows -> [id : Ids \cup {"none"}, n : Nat]]
      /\ \A v \in Windows : \/ view'[v] \in {view[v], None}
                            \/ \E id \in DOMAIN rows : view'[v] = [id |-> id, n |-> rows[id].n]
  <2>1. None \in [id : Ids \cup {"none"}, n : Nat]
    BY DEF None
  <2>2. \A id \in DOMAIN rows : [id |-> id, n |-> rows[id].n] \in [id : Ids \cup {"none"}, n : Nat]
    BY <1>0 DEF TitleTyped
  <2>3. view \in [Windows -> [id : Ids \cup {"none"}, n : Nat]]
    BY <1>0 DEF TitleTyped
  <2>4. PICK shown : /\ view' \in {view, [view EXCEPT ![w] = shown]}
                     /\ \/ shown = None
                        \/ shown = view[w]
                        \/ \E id \in DOMAIN rows : shown = [id |-> id, n |-> rows[id].n]
    BY <1>5
  <2>5. CASE w \notin Windows
    BY <2>3, <2>4, <2>5
  <2>6. CASE w \in Windows
    <3>1. shown \in [id : Ids \cup {"none"}, n : Nat]
      BY <2>1, <2>2, <2>3, <2>4, <2>6
    <3> QED
      BY <2>3, <2>4, <2>6, <3>1
  <2> QED
    BY <2>5, <2>6
<1>7. TitleTyped'
  BY <1>0, <1>1, <1>2, <1>4, <1>6 DEF TitleTyped
<1>8. ScreensTrue'
  <2> SUFFICES ASSUME NEW v \in Windows
               PROVE  /\ listed'[v] \subseteq DOMAIN rows
                      /\ view'[v] # None => view'[v].id \in DOMAIN rows /\ rows[view'[v].id].n = view'[v].n
    BY <1>1 DEF ScreensTrue, None
  <2>1. listed'[v] \subseteq DOMAIN rows
    BY <1>0, <1>4 DEF ScreensTrue
  <2>2. view'[v] # None => view'[v].id \in DOMAIN rows /\ rows[view'[v].id].n = view'[v].n
    BY <1>0, <1>6 DEF ScreensTrue
  <2> QED
    BY <2>1, <2>2
<1> QED
  BY <1>2, <1>7, <1>8 DEF TitleInv

\* A step of a call shows only in the call itself, or in the list of titles.
LEMMA ScreensStay ==
    ASSUME TitleInv, RowsStay, DOMAIN rows' \subseteq Ids, NEW w \in Windows,
           listed' \in {listed, [listed EXCEPT ![w] = DOMAIN rows]}, UNCHANGED view
    PROVE  listed' \in [Windows -> SUBSET Ids] /\ view' \in [Windows -> [id : Ids \cup {"none"}, n : Nat]] /\ ScreensTrue'
<1>1. TitleTyped /\ ScreensTrue
  BY DEF TitleInv
<1>2. listed' \in [Windows -> SUBSET Ids] /\ \A v \in Windows : listed'[v] \subseteq DOMAIN rows
  BY <1>1 DEF TitleTyped, ScreensTrue
<1>3. view' \in [Windows -> [id : Ids \cup {"none"}, n : Nat]]
  BY <1>1 DEF TitleTyped
<1>4. ScreensTrue'
  <2> SUFFICES ASSUME NEW v \in Windows
               PROVE  /\ listed'[v] \subseteq DOMAIN rows'
                      /\ view'[v] # None => view'[v].id \in DOMAIN rows' /\ rows'[view'[v].id].n = view'[v].n
    BY DEF ScreensTrue, None
  <2> QED
    BY <1>1, <1>2 DEF ScreensTrue, RowsStay
<1> QED
  BY <1>2, <1>3, <1>4

LEMMA CreateStep ==
    ASSUME TitleInv, NEW w \in Windows, NEW id \in Ids, NEW kind \in Kinds, Create(w, id, kind)
    PROVE  TitleInv'
<1> DEFINE r == [id |-> id, n |-> tried + 1, kind |-> kind, todo |-> Steps(kind), filling |-> FALSE, rewrite |-> FALSE]
<1>0. TitleTyped /\ FilesOwned /\ op \in [Windows -> Op] /\ tried \in Nat
  BY DEF TitleInv, TitleTyped
<1>1. /\ op' = [op EXCEPT ![w] = r] /\ op[w] = Idle /\ tried' = tried + 1
      /\ UNCHANGED <<rows, files, listed, view, created, torn>>
  BY DEF Create
<1>2. Steps(kind) \in Seq(Names)
  <2>1. kind \in Names /\ "row" \in Names /\ "meta" \in Names /\ "settings" \in Names
    BY TitleAssumption DEF Names
  <2>2. CASE kind = "placeholder"
    <3>1. Steps(kind) = <<"row", "meta", "settings">>
      BY <2>2, StepsAre
    <3> QED
      BY <2>1, <3>1
  <2>3. CASE kind # "placeholder"
    <3>1. Steps(kind) = <<"row", kind, "meta", "settings">>
      BY <2>3, StepsAre
    <3> QED
      BY <2>1, <3>1
  <2> QED
    BY <2>2, <2>3
<1>3. /\ r \in Op /\ r.id = id /\ r.n = tried + 1 /\ r.kind = kind /\ r.todo = Steps(kind) /\ ~r.filling /\ ~r.rewrite
  BY <1>0, <1>2 DEF Op
<1> HIDE DEF r
<1>4. op' \in [Windows -> Op] /\ op'[w] = r /\ \A v \in Windows \ {w} : op'[v] = op[v]
  BY <1>0, <1>1, <1>3
<1>5. KeepsOthers(w) /\ RowsStay
  <2>1. \A u \in Windows : op'[u] = op[u] \/ ~op'[u].rewrite \/ op'[u].todo = Sidecars
    BY <1>3, <1>4
  <2> QED
    BY <1>1, <2>1, KeptStays DEF KeepsOthers, RowsStay
<1>6. CreatedKept'
  BY <1>1, <1>5, CreatedStay
<1>7. ASSUME NEW v \in Windows, v # w PROVE (op[v] = Idle \/ CallSound(v, op[v]))'
  BY <1>1, <1>3, <1>4, <1>5, <1>7, OthersStay
<1>8. CallSound(w, op[w])'
  <2>1. "row" \in ToSet(Steps(kind)) /\ Steps(kind) \in Remains(kind)
    BY RemainsAre DEF Remains
  <2>2. \A i \in DOMAIN rows' : rows'[i].n # tried + 1
    BY <1>0, <1>1 DEF TitleTyped
  <2>3. \A v \in Windows \ {w} : op'[v].rewrite \/ op'[v].n # tried + 1
    <3> SUFFICES ASSUME NEW v \in Windows \ {w} PROVE op[v].n # tried + 1
      BY <1>4
    <3>1. op[v].n \in 0 .. tried
      <4>1. op[v] = Idle \/ op[v].n \in 1 .. tried
        BY DEF TitleInv, CallsSound, CallSound
      <4> QED
        BY <1>0, <4>1, IdleTyped
    <3> QED
      BY <1>0, <3>1
  <2>4. tried + 1 \notin created' /\ tried + 1 \in 1 .. tried'
    BY <1>0, <1>1 DEF TitleTyped
  <2> QED
    BY <1>1, <1>3, <1>4, <2>1, <2>2, <2>3, <2>4 DEF CallSound
<1>9. TitleTyped'
  <2>1. \A i \in DOMAIN rows' : rows'[i] \in [n : 1 .. tried', kind : Kinds]
    <3> SUFFICES ASSUME NEW i \in DOMAIN rows PROVE rows[i] \in [n : 1 .. tried + 1, kind : Kinds]
      BY <1>1
    <3>1. rows[i] \in [n : 1 .. tried, kind : Kinds] /\ 1 .. tried \subseteq 1 .. tried + 1
      BY <1>0 DEF TitleTyped
    <3> QED
      BY <3>1
  <2>2. created' \subseteq 1 .. tried' /\ tried' \in Nat
    BY <1>0, <1>1 DEF TitleTyped
  <2> QED
    BY <1>0, <1>1, <1>4, <2>1, <2>2 DEF TitleTyped
<1>10. FilesOwned' /\ ScreensTrue'
  BY <1>1 DEF TitleInv, FilesOwned, ScreensTrue, None
<1> QED
  BY <1>4, <1>6, <1>7, <1>8, <1>9, <1>10 DEF TitleInv, CallsSound

LEMMA RewriteStep ==
    ASSUME TitleInv, NEW w \in Windows, NEW id \in Ids, RewriteSidecars(w, id)
    PROVE  TitleInv'
<1> DEFINE r == [id |-> id, n |-> rows[id].n, kind |-> rows[id].kind, todo |-> Sidecars, filling |-> FALSE, rewrite |-> TRUE]
<1>0. TitleTyped /\ FilesOwned /\ op \in [Windows -> Op] /\ tried \in Nat
  BY DEF TitleInv, TitleTyped
<1>1. /\ op' = [op EXCEPT ![w] = r] /\ op[w] = Idle /\ tried' = tried + 1 /\ id \in DOMAIN rows
      /\ torn' = torn \cup {<<w, id>>} /\ UNCHANGED <<rows, files, listed, view, created>>
  BY DEF RewriteSidecars
<1>2. rows[id].n \in 1 .. tried /\ rows[id].kind \in Kinds /\ Sidecars \in Seq(Names)
  <2>1. "meta" \in Names /\ "settings" \in Names
    BY DEF Names
  <2> QED
    BY <1>0, <1>1, <2>1 DEF TitleTyped, Sidecars
<1>3. /\ r \in Op /\ r.id = id /\ r.n = rows[id].n /\ r.kind = rows[id].kind /\ r.todo = Sidecars /\ ~r.filling /\ r.rewrite
  BY <1>0, <1>2 DEF Op
<1> HIDE DEF r
<1>4. op' \in [Windows -> Op] /\ op'[w] = r /\ \A v \in Windows \ {w} : op'[v] = op[v]
  BY <1>0, <1>1, <1>3
<1>5. KeepsOthers(w) /\ RowsStay
  <2>1. \A u \in Windows : op'[u] = op[u] \/ ~op'[u].rewrite \/ op'[u].todo = Sidecars
    BY <1>3, <1>4
  <2> QED
    BY <1>1, <2>1, KeptStays DEF KeepsOthers, RowsStay
<1>6. CreatedKept'
  BY <1>1, <1>5, CreatedStay
<1>7. ASSUME NEW v \in Windows, v # w PROVE (op[v] = Idle \/ CallSound(v, op[v]))'
  BY <1>1, <1>3, <1>4, <1>5, <1>7, OthersStay
<1>8. CallSound(w, op[w])'
  <2>1. "row" \notin ToSet(Sidecars)
    BY <1>2, RemainsAre
  <2>2. rows[id].n \in 1 .. tried'
    BY <1>0, <1>1, <1>2
  <2> QED
    BY <1>1, <1>2, <1>3, <1>4, <2>1, <2>2 DEF CallSound
<1>9. TitleTyped'
  <2>1. \A i \in DOMAIN rows' : rows'[i] \in [n : 1 .. tried', kind : Kinds]
    <3> SUFFICES ASSUME NEW i \in DOMAIN rows PROVE rows[i] \in [n : 1 .. tried + 1, kind : Kinds]
      BY <1>1
    <3>1. rows[i] \in [n : 1 .. tried, kind : Kinds] /\ 1 .. tried \subseteq 1 .. tried + 1
      BY <1>0 DEF TitleTyped
    <3> QED
      BY <3>1
  <2>2. created' \subseteq 1 .. tried' /\ tried' \in Nat
    BY <1>0, <1>1 DEF TitleTyped
  <2> QED
    BY <1>0, <1>1, <1>4, <2>1, <2>2 DEF TitleTyped
<1>10. FilesOwned' /\ ScreensTrue'
  BY <1>1 DEF TitleInv, FilesOwned, ScreensTrue, None
<1> QED
  BY <1>4, <1>6, <1>7, <1>8, <1>9, <1>10 DEF TitleInv, CallsSound

LEMMA InsertStep ==
    ASSUME TitleInv, NEW w \in Windows, InsertTitle(w)
    PROVE  TitleInv'
<1> DEFINE o == op[w]
           r == [o EXCEPT !.todo = Tail(o.todo)]
           row == [n |-> o.n, kind |-> o.kind]
<1>0. TitleTyped /\ FilesOwned /\ op \in [Windows -> Op] /\ o \in Op
  BY DEF TitleInv, TitleTyped
<1>1. /\ o.todo # <<>> /\ Head(o.todo) = "row" /\ o.id \notin DOMAIN rows
      /\ op' = [op EXCEPT ![w] = r] /\ rows' = Put(rows, o.id, row)
      /\ UNCHANGED <<files, listed, view, created, torn, tried>>
  BY <1>0 DEF InsertTitle
<1>2. CallSound(w, o)
  BY <1>1, IdleTyped DEF TitleInv, CallsSound
<1>3. ~o.rewrite /\ o.todo = Steps(o.kind) /\ o.kind \in Kinds /\ o.id \in Ids /\ o.n \in 1 .. tried
  <2>1. o.kind \in Kinds /\ "row" \notin ToSet(Sidecars) /\ "row" \notin ToSet(<<"settings">>)
    BY <1>2, RemainsAre DEF CallSound
  <2>2. o.todo \in {Sidecars, <<"settings">>, <<>>} \/ (~o.rewrite /\ o.todo \in Remains(o.kind))
    BY <1>2 DEF CallSound
  <2>3. o.todo \notin {Sidecars, <<"settings">>, <<>>}
    <3>1. CASE o.todo \in {Sidecars, <<"settings">>}
      BY <1>1, <2>1, <3>1, RemainsAre
    <3> QED
      BY <1>1, <3>1
  <2> QED
    BY <1>1, <1>2, <2>1, <2>2, <2>3, RemainsAre DEF CallSound
<1>4. /\ r \in Op /\ r.id = o.id /\ r.n = o.n /\ r.kind = o.kind /\ r.todo = Tail(o.todo) /\ r.filling = o.filling
      /\ r.rewrite = o.rewrite
  <2>1. o.todo \in Seq(Names) /\ Tail(o.todo) \in Seq(Names)
    BY <1>0, <1>1 DEF Op
  <2> QED
    BY <1>0, <2>1 DEF Op
<1>5. row = [n |-> o.n, kind |-> o.kind] /\ row.n = o.n /\ row.kind = o.kind
  OBVIOUS
<1> HIDE DEF r, row, o
<1>6. op' \in [Windows -> Op] /\ op'[w] = r /\ \A v \in Windows \ {w} : op'[v] = op[v]
  BY <1>0, <1>1, <1>4
<1>7. DOMAIN rows' = DOMAIN rows \cup {o.id} /\ rows'[o.id] = row /\ \A i \in DOMAIN rows : rows'[i] = rows[i]
  BY <1>1 DEF Put
<1>8. KeepsOthers(w) /\ RowsStay
  <2>1. \A u \in Windows : op'[u] = op[u] \/ ~op'[u].rewrite \/ op'[u].todo = Sidecars
    BY <1>3, <1>4, <1>6
  <2> QED
    BY <1>1, <1>7, <2>1, KeptStays DEF KeepsOthers, RowsStay
<1>9. CreatedKept'
  BY <1>1, <1>8, CreatedStay
<1>10. ASSUME NEW v \in Windows, v # w PROVE (op[v] = Idle \/ CallSound(v, op[v]))'
  <2>1. \A i \in DOMAIN rows' \ DOMAIN rows : ~op[w].rewrite /\ rows'[i].n = op[w].n
    BY <1>3, <1>5, <1>7 DEF o
  <2>2. op'[w].rewrite \/ op'[w].n \in {0, tried + 1} \/ (~op[w].rewrite /\ op'[w].n = op[w].n)
    BY <1>3, <1>4, <1>6 DEF o
  <2> QED
    BY <1>1, <1>6, <1>8, <1>10, <2>1, <2>2, OthersStay
<1>11. CallSound(w, op[w])'
  <2>1. ToSet(r.todo) = Content(o.kind) /\ "row" \notin ToSet(r.todo) /\ r.todo \in Remains(o.kind)
    <3>1. ToSet(Tail(Steps(o.kind))) = Content(o.kind) /\ "row" \notin Content(o.kind)
      BY <1>3, RemainsAre, ContentNames
    <3> QED
      BY <1>3, <1>4, <3>1 DEF Remains
  <2>2. o.id \in DOMAIN rows' /\ rows'[o.id].n = o.n /\ rows'[o.id].kind = o.kind
    BY <1>5, <1>7
  <2>3. r.filling => r.todo # <<>> /\ Head(r.todo) # "row"
    BY <1>1, <1>2, <1>4 DEF CallSound
  <2>4. o.n \notin created /\ \A v \in Windows \ {w} : op[v].rewrite \/ op[v].n # o.n
    BY <1>2, <1>3 DEF CallSound
  <2>5. \A v \in Windows \ {w} : op'[v].rewrite \/ op'[v].n # o.n
    BY <1>6, <2>4
  <2> QED
    BY <1>1, <1>3, <1>4, <1>6, <2>1, <2>2, <2>3, <2>4, <2>5 DEF CallSound
<1>12. DOMAIN rows' \subseteq Ids /\ \A i \in DOMAIN rows' : rows'[i] \in [n : 1 .. tried, kind : Kinds]
  <2>1. row \in [n : 1 .. tried, kind : Kinds]
    BY <1>3, <1>5
  <2> QED
    BY <1>0, <1>3, <1>7, <2>1 DEF TitleTyped
<1>13. TitleTyped' /\ ScreensTrue'
  <2>1. listed' \in [Windows -> SUBSET Ids] /\ view' \in [Windows -> [id : Ids \cup {"none"}, n : Nat]] /\ ScreensTrue'
    BY <1>1, <1>8, <1>12, ScreensStay
  <2> QED
    BY <1>0, <1>1, <1>6, <1>12, <2>1 DEF TitleTyped
<1>14. FilesOwned'
  BY <1>0, <1>1, <1>7 DEF FilesOwned
<1> QED
  BY <1>6, <1>9, <1>10, <1>11, <1>13, <1>14 DEF TitleInv, CallsSound

LEMMA RemainsPastRow ==
    ASSUME NEW kind \in Kinds, NEW rewrite \in BOOLEAN, NEW todo,
           todo \in (IF rewrite THEN {Sidecars, <<"settings">>, <<>>} ELSE Remains(kind)), todo # <<>>, Head(todo) # "row"
    PROVE  /\ Head(todo) \in ToSet(todo) /\ ToSet(Tail(todo)) = ToSet(todo) \ {Head(todo)} /\ "row" \notin ToSet(todo)
           /\ Tail(todo) \in (IF rewrite THEN {Sidecars, <<"settings">>, <<>>} ELSE Remains(kind))
           /\ ToSet(todo) \subseteq (IF rewrite THEN {"meta", "settings"} ELSE Content(kind))
<1>1. "row" \notin Content(kind) /\ {"meta", "settings"} \subseteq Content(kind)
  BY ContentNames, RemainsAre DEF Content
<1>2. CASE rewrite
  <2>1. ToSet(todo) \subseteq {"meta", "settings"}
    BY <1>2, RemainsAre
  <2> QED
    BY <1>2, <2>1, RemainsAre
<1>3. CASE ~rewrite
  <2>1. todo # Steps(kind) /\ todo \in Remains(kind)
    BY <1>3, RemainsAre
  <2>2. CASE todo = Tail(Steps(kind))
    BY <1>1, <1>3, <2>1, <2>2, RemainsAre
  <2>3. CASE todo \in {Sidecars, <<"settings">>}
    <3>1. ToSet(todo) \subseteq {"meta", "settings"}
      BY <2>3, RemainsAre
    <3> QED
      BY <1>1, <1>3, <2>1, <3>1, RemainsAre
  <2> QED
    BY <2>1, <2>2, <2>3 DEF Remains
<1> QED
  BY <1>2, <1>3

\* A file is written by the call that owns the row: emptied, then filled.
LEMMA WriteStep ==
    ASSUME TitleInv, NEW w \in Windows, Truncate(w) \/ Fill(w)
    PROVE  TitleInv'
<1> DEFINE o == op[w]
           name == Head(o.todo)
           r == [o EXCEPT !.todo = IF o.filling THEN Tail(o.todo) ELSE o.todo, !.filling = ~o.filling]
           file0 == [n |-> o.n, whole |-> o.filling]
<1>0. TitleTyped /\ FilesOwned /\ ScreensTrue /\ op \in [Windows -> Op] /\ o \in Op
  BY DEF TitleInv, TitleTyped
<1>a. o.filling \in BOOLEAN /\ o.todo # <<>>
  BY <1>0 DEF Op, Truncate, Fill
<1>b. CallSound(w, o)
  BY <1>a, IdleTyped DEF TitleInv, CallsSound
<1>1. /\ name # "row"
      /\ op' = [op EXCEPT ![w] = r] /\ files' = Put(files, <<o.id, name>>, file0)
      /\ UNCHANGED <<rows, listed, view, created, torn, tried>>
  <2>1. CASE Truncate(w)
    <3>1. ~o.filling /\ name # "row" /\ op' = [op EXCEPT ![w] = [o EXCEPT !.filling = TRUE]]
      BY <1>0, <2>1 DEF Truncate
    <3>2. r = [o EXCEPT !.filling = TRUE]
      BY <1>0, <3>1 DEF Op
    <3>3. file0 = [n |-> o.n, whole |-> FALSE]
      BY <1>a, <3>1
    <3> QED
      BY <2>1, <3>1, <3>2, <3>3 DEF Truncate
  <2>2. CASE Fill(w)
    <3>1. o.filling /\ op' = [op EXCEPT ![w] = [o EXCEPT !.todo = Tail(o.todo), !.filling = FALSE]]
      BY <1>0, <1>a, <2>2 DEF Fill
    <3>2. r = [o EXCEPT !.todo = Tail(o.todo), !.filling = FALSE]
      BY <1>0, <3>1 DEF Op
    <3>3. name # "row"
      BY <1>b, <3>1 DEF CallSound
    <3>4. file0 = [n |-> o.n, whole |-> TRUE]
      BY <1>a, <3>1
    <3> QED
      BY <2>2, <3>1, <3>2, <3>3, <3>4 DEF Fill
  <2> QED
    BY <2>1, <2>2
<1>2. /\ r \in Op /\ r.id = o.id /\ r.n = o.n /\ r.kind = o.kind /\ r.filling = ~o.filling /\ r.rewrite = o.rewrite
      /\ r.todo = IF o.filling THEN Tail(o.todo) ELSE o.todo
  <2>1. o.todo \in Seq(Names) /\ Tail(o.todo) \in Seq(Names)
    BY <1>0, <1>a DEF Op
  <2> QED
    BY <1>0, <1>a, <2>1 DEF Op
<1>3. file0 \in [n : Nat, whole : BOOLEAN] /\ file0.n = o.n /\ file0.whole = o.filling
  BY <1>0, <1>a DEF Op
<1>4. /\ o.kind \in Kinds /\ name \in ToSet(o.todo) /\ ToSet(Tail(o.todo)) = ToSet(o.todo) \ {name} /\ "row" \notin ToSet(o.todo)
      /\ Tail(o.todo) \in (IF o.rewrite THEN {Sidecars, <<"settings">>, <<>>} ELSE Remains(o.kind))
      /\ ToSet(o.todo) \subseteq (IF o.rewrite THEN {"meta", "settings"} ELSE Content(o.kind))
  <2>1. o.kind \in Kinds /\ o.rewrite \in BOOLEAN /\ o.todo \in (IF o.rewrite THEN {Sidecars, <<"settings">>, <<>>} ELSE Remains(o.kind))
    BY <1>0, <1>b DEF CallSound, Op
  <2> QED
    BY <1>1, <1>a, <2>1, RemainsPastRow
<1>5. o.id \in DOMAIN rows /\ rows[o.id].n = o.n /\ rows[o.id].kind = o.kind
  BY <1>4, <1>b DEF CallSound
<1> DEFINE own == <<o.id, name>>
<1>6. /\ DOMAIN files' = DOMAIN files \cup {own} /\ files'[own] = file0
      /\ \A f \in DOMAIN files : f # own => files'[f] = files[f]
  BY <1>1 DEF Put
<1> HIDE DEF r, file0
<1>7. op' \in [Windows -> Op] /\ op'[w] = r /\ \A v \in Windows \ {w} : op'[v] = op[v]
  BY <1>0, <1>1, <1>2
<1> HIDE DEF name, o
<1>8. ASSUME NEW id, NEW nm, Kept(id, nm), ~(id = o.id /\ nm = name)
      PROVE  Kept(id, nm)'
  <2>1. <<id, nm>> # own /\ <<id, nm>> \in DOMAIN files /\ files'[<<id, nm>>] = files[<<id, nm>>]
    BY <1>6, <1>8 DEF Kept
  <2>2. ASSUME TornBy(id, nm) PROVE TornBy(id, nm)'
    <3>1. PICK u \in Windows : <<u, id>> \in torn /\ (op[u].rewrite /\ op[u].id = id => nm \in ToSet(op[u].todo))
      BY <2>2 DEF TornBy
    <3>2. op'[u].rewrite /\ op'[u].id = id => nm \in ToSet(op'[u].todo)
      <4>1. CASE u # w
        BY <1>7, <3>1, <4>1
      <4>2. CASE u = w
        BY <1>2, <1>4, <1>7, <1>8, <3>1, <4>2 DEF o
      <4> QED
        BY <4>1, <4>2
    <3> QED
      BY <1>1, <3>1, <3>2 DEF TornBy
  <2> QED
    BY <1>6, <1>8, <2>1, <2>2 DEF Kept
<1>9. ASSUME NEW id, id = o.id, NEW nm, nm = name, o.filling \/ o.rewrite
      PROVE  Kept(id, nm)'
  <2>1. <<id, nm>> \in DOMAIN files' /\ files'[<<id, nm>>].whole = o.filling
    BY <1>3, <1>6, <1>9
  <2>2. CASE o.filling
    BY <2>1, <2>2 DEF Kept
  <2>3. CASE ~o.filling /\ o.rewrite
    <3>1. <<w, id>> \in torn' /\ nm \in {"meta", "settings"} /\ nm \in ToSet(op'[w].todo)
      BY <1>1, <1>2, <1>4, <1>7, <1>9, <1>b, <2>3 DEF CallSound
    <3> QED
      BY <2>1, <3>1 DEF Kept, TornBy
  <2> QED
    BY <1>9, <2>2, <2>3
<1>10. RowsStay /\ KeepsOthers(w)
  <2>1. RowsStay
    BY <1>1 DEF RowsStay
  <2>2. ASSUME NEW id \in DOMAIN rows, NEW nm \in Names, o.rewrite \/ rows[id].n # o.n, Kept(id, nm)
        PROVE  Kept(id, nm)'
    <3>1. CASE id = o.id /\ nm = name
      BY <1>5, <1>9, <2>2, <3>1
    <3> QED
      BY <1>8, <2>2, <3>1
  <2> QED
    BY <2>1, <2>2 DEF KeepsOthers, o
<1>11. CreatedKept'
  BY <1>1, <1>10, CreatedStay
<1>12. ASSUME NEW v \in Windows, v # w PROVE (op[v] = Idle \/ CallSound(v, op[v]))'
  <2>1. op'[w].rewrite \/ op'[w].n \in {0, tried + 1} \/ (~op[w].rewrite /\ op'[w].n = op[w].n)
    BY <1>2, <1>7 DEF o
  <2> QED
    BY <1>1, <1>7, <1>10, <1>12, <2>1, OthersStay
<1>13. CallSound(w, op[w])'
  <2>1. r.n \in 1 .. tried' /\ r.id \in Ids /\ r.kind \in Kinds
    BY <1>1, <1>2, <1>b DEF CallSound
  <2>2. r.todo \in (IF r.rewrite THEN {Sidecars, <<"settings">>, <<>>} ELSE Remains(r.kind))
    BY <1>2, <1>4, <1>b DEF CallSound
  <2>3. r.filling => r.todo # <<>> /\ Head(r.todo) # "row"
    BY <1>1, <1>2, <1>a DEF name
  <2>4. "row" \notin ToSet(r.todo) /\ (r.rewrite => <<w, r.id>> \in torn')
    BY <1>1, <1>2, <1>4, <1>b DEF CallSound
  <2>5. r.id \in DOMAIN rows' /\ rows'[r.id].n = r.n /\ rows'[r.id].kind = r.kind
    BY <1>1, <1>2, <1>5
  <2>6. ASSUME ~r.rewrite
        PROVE  r.n \notin created' /\ \A v \in Windows \ {w} : op'[v].rewrite \/ op'[v].n # r.n
    <3>1. o.n \notin created /\ \A v \in Windows \ {w} : op[v].rewrite \/ op[v].n # o.n
      BY <1>2, <1>b, <2>6 DEF CallSound
    <3> QED
      BY <1>1, <1>2, <1>7, <3>1
  <2>7. ASSUME ~r.rewrite, NEW id, id = r.id, NEW nm \in Content(r.kind) \ ToSet(r.todo)
        PROVE  Kept(id, nm)'
    <3>1. CASE nm \in ToSet(o.todo)
      <4>1. nm = name /\ o.filling
        BY <1>2, <1>4, <2>7, <3>1
      <4> QED
        BY <1>2, <1>9, <2>7, <4>1
    <3>2. CASE nm \notin ToSet(o.todo)
      <4>1. Kept(o.id, nm) /\ nm # name
        BY <1>2, <1>4, <1>b, <2>7, <3>2 DEF CallSound
      <4> QED
        BY <1>2, <1>8, <2>7, <4>1
    <3> QED
      BY <3>1, <3>2
  <2>8. ~r.rewrite => \A nm \in Content(r.kind) \ ToSet(r.todo) : Kept(op[w].id, nm)'
    BY <1>7, <2>7
  <2> QED
    BY <1>7, <2>1, <2>2, <2>3, <2>4, <2>5, <2>6, <2>8 DEF CallSound
<1>14. TitleTyped' /\ ScreensTrue'
  <2>1. \A f \in DOMAIN files' : files'[f] \in [n : Nat, whole : BOOLEAN]
    BY <1>0, <1>3, <1>6 DEF TitleTyped
  <2>2. TitleTyped'
    BY <1>0, <1>1, <1>7, <2>1 DEF TitleTyped
  <2>3. ScreensTrue'
    BY <1>0, <1>1 DEF ScreensTrue, None
  <2> QED
    BY <2>2, <2>3
<1>15. FilesOwned'
  <2>1. name \in {o.kind, "meta", "settings"}
    BY <1>4 DEF Content
  <2>2. own[1] = o.id /\ own[2] = name
    OBVIOUS
  <2> HIDE DEF own
  <2>3. own[1] \in DOMAIN rows /\ rows[own[1]].n = files'[own].n /\ own[2] \in {rows[own[1]].kind, "meta", "settings"}
    BY <1>3, <1>5, <1>6, <2>1, <2>2
  <2> QED
    BY <1>0, <1>1, <1>6, <2>3 DEF FilesOwned
<1> QED
  BY <1>7, <1>11, <1>12, <1>13, <1>14, <1>15 DEF TitleInv, CallsSound

\* Ok: what a creation wrote is complete, and a finished rewrite has left
\* nothing torn by itself.
LEMMA CreatedStep ==
    ASSUME TitleInv, NEW w \in Windows, Created(w)
    PROVE  TitleInv'
<1> DEFINE o == op[w]
<1>0. TitleTyped /\ FilesOwned /\ CreatedKept /\ op \in [Windows -> Op]
  BY DEF TitleInv, TitleTyped
<1>1. o # Idle /\ o.todo = <<>> /\ op' = [op EXCEPT ![w] = Idle] /\ UNCHANGED <<rows, files, view, tried>>
  BY DEF Created
<1>2. CallSound(w, o)
  BY <1>1 DEF TitleInv, CallsSound
<1>3. o.kind \in Kinds /\ ToSet(o.todo) = {} /\ o.id \in DOMAIN rows /\ rows[o.id].n = o.n /\ rows[o.id].kind = o.kind
  <2>1. o.kind \in Kinds
    BY <1>2 DEF CallSound
  <2>2. ToSet(o.todo) = {}
    BY <1>1, <2>1, RemainsAre
  <2> QED
    BY <1>2, <2>1, <2>2 DEF CallSound
<1>4. op' \in [Windows -> Op] /\ op'[w] = Idle /\ \A v \in Windows \ {w} : op'[v] = op[v]
  BY <1>0, <1>1, IdleTyped
<1>5. /\ \A v \in Windows \ {w}, id \in Ids : <<v, id>> \in torn => <<v, id>> \in torn'
      /\ ~o.rewrite => created' = created \cup {o.n} /\ UNCHANGED torn
      /\ o.rewrite => UNCHANGED created /\ torn' = torn \ {<<w, o.id>>}
      /\ listed' \in {listed, [listed EXCEPT ![w] = DOMAIN rows]}
  BY DEF Created
<1>6. ASSUME NEW id, NEW name, Kept(id, name)
      PROVE  Kept(id, name)'
  <2>1. ASSUME TornBy(id, name) PROVE TornBy(id, name)'
    <3>1. PICK u \in Windows : <<u, id>> \in torn /\ (op[u].rewrite /\ op[u].id = id => name \in ToSet(op[u].todo))
      BY <2>1 DEF TornBy
    <3>2. <<u, id>> \in torn'
      <4>1. CASE ~o.rewrite
        BY <1>5, <3>1, <4>1
      <4>2. CASE o.rewrite
        <5>1. ~(u = w /\ id = o.id)
          BY <1>3, <3>1, <4>2
        <5> QED
          BY <1>5, <3>1, <4>2, <5>1
      <4> QED
        BY <4>1, <4>2
    <3>3. op'[u].rewrite /\ op'[u].id = id => name \in ToSet(op'[u].todo)
      BY <1>4, <3>1, IdleTyped
    <3> QED
      BY <3>2, <3>3 DEF TornBy
  <2> QED
    BY <1>1, <1>6, <2>1 DEF Kept
<1>7. KeepsOthers(w) /\ RowsStay
  BY <1>1, <1>6 DEF KeepsOthers, RowsStay
<1>8. CreatedKept'
  <2>1. CASE o.rewrite
    BY <1>5, <1>7, <2>1, CreatedStay
  <2>2. CASE ~o.rewrite
    <3> SUFFICES ASSUME NEW n \in created \cup {o.n}
                 PROVE  \E id \in DOMAIN rows : rows[id].n = n /\ \A name \in Content(rows[id].kind) : Kept(id, name)'
      BY <1>1, <1>5, <2>2 DEF CreatedKept
    <3>1. CASE n \in created
      <4>1. PICK id \in DOMAIN rows : rows[id].n = n /\ \A name \in Content(rows[id].kind) : Kept(id, name)
        BY <1>0, <3>1 DEF CreatedKept
      <4> QED
        BY <1>6, <4>1
    <3>2. CASE n = o.n
      <4>1. \A name \in Content(o.kind) : Kept(o.id, name)
        BY <1>2, <1>3, <2>2 DEF CallSound
      <4>2. PICK id : id = o.id
        OBVIOUS
      <4>3. \A name \in Content(o.kind) : Kept(id, name)'
        BY <1>6, <4>1, <4>2
      <4> QED
        BY <1>3, <3>2, <4>2, <4>3
    <3> QED
      BY <3>1, <3>2
  <2> QED
    BY <2>1, <2>2
<1>9. ASSUME NEW v \in Windows, v # w PROVE (op[v] = Idle \/ CallSound(v, op[v]))'
  <2>1. UNCHANGED created \/ (~op[w].rewrite /\ created' = created \cup {op[w].n})
    BY <1>5
  <2> QED
    BY <1>1, <1>4, <1>5, <1>7, <1>9, <2>1, IdleTyped, OthersStay
<1>10. TitleTyped' /\ ScreensTrue'
  <2>1. DOMAIN rows' \subseteq Ids
    BY <1>0, <1>1 DEF TitleTyped
  <2>2. listed' \in [Windows -> SUBSET Ids] /\ view' \in [Windows -> [id : Ids \cup {"none"}, n : Nat]] /\ ScreensTrue'
    BY <1>1, <1>5, <1>7, <2>1, ScreensStay
  <2>3. created' \subseteq 1 .. tried'
    BY <1>0, <1>1, <1>2, <1>5 DEF TitleTyped, CallSound
  <2> QED
    BY <1>0, <1>1, <1>4, <2>2, <2>3 DEF TitleTyped
<1>11. FilesOwned'
  BY <1>0, <1>1 DEF FilesOwned
<1>12. CallsSound'
  BY <1>4, <1>9 DEF CallsSound
<1> QED
  BY <1>8, <1>10, <1>11, <1>12 DEF TitleInv

LEMMA TitleInitInv == TitleInit => TitleInv
<1> SUFFICES ASSUME TitleInit PROVE TitleInv
  OBVIOUS
<1>1. DOMAIN NoRows = {} /\ None \in [id : Ids \cup {"none"}, n : Nat]
  BY DEF NoRows, None
<1>2. TitleTyped
  BY <1>1, IdleTyped DEF TitleInit, TitleTyped
<1>3. FilesOwned /\ CreatedKept /\ CallsSound /\ ScreensTrue
  BY <1>1 DEF TitleInit, FilesOwned, CreatedKept, CallsSound, ScreensTrue
<1> QED
  BY <1>2, <1>3 DEF TitleInv

LEMMA TitleStep == TitleInv /\ [Next]_vars => TitleInv'
<1> SUFFICES ASSUME TitleInv, [Next]_vars PROVE TitleInv'
  OBVIOUS
<1>1. CASE UNCHANGED titleVars
  <2>1. op' \in [Windows -> Op] /\ FilesOwned' /\ CreatedKept' /\ CallsSound'
    BY <1>1, Released DEF titleVars
  <2>2. TitleTyped' /\ ScreensTrue'
    BY <1>1 DEF TitleInv, TitleTyped, ScreensTrue, titleVars, None
  <2> QED
    BY <2>1, <2>2 DEF TitleInv
<1>2. CASE TitleNext
  BY <1>2, ScreenStep, InsertStep, WriteStep, CreatedStep, RewriteStep, CreateStep DEF TitleNext
<1>3. ASSUME NEW w \in Users, Frame(w) \/ OpenServices(w) \/ CloseApp(w)
      PROVE  TitleInv'
  BY <1>1, <1>3, ScreenStep DEF Frame, OpenServices, CloseApp
<1> QED
  BY <1>1, <1>2, <1>3 DEF Next, vars

(* Whatever windows create, rewrite, inspect, fail and vanish in whatever  *)
(* order: no file belongs to a row other than the one whose creation wrote *)
(* it, a creation that returned Ok left its files whole (up to sidecars an *)
(* interrupted rewrite has torn), and no window lists or shows what the    *)
(* table does not hold (create_homebrew_title, create_synthetic_title,     *)
(* rewrite_sidecars, list_titles, inspect_title).                          *)
THEOREM TitlesAlwaysKept == Spec => []TitlesKept
<1>1. Init => TitleInv
  BY TitleInitInv DEF Init
<1>2. TitleInv => TitlesKept
  <2> SUFFICES ASSUME TitleInv PROVE CreatedWhole
    BY DEF TitleInv, TitlesKept
  <2> SUFFICES ASSUME NEW n \in created
               PROVE  \E id \in DOMAIN rows :
                         /\ rows[id].n = n
                         /\ \A name \in ToSet(Steps(rows[id].kind)) \ {"row"} :
                               /\ <<id, name>> \in DOMAIN files
                               /\ \/ files[<<id, name>>].whole
                                  \/ name \in ToSet(Sidecars) /\ \E w \in Windows : <<w, id>> \in torn
    BY DEF CreatedWhole
  <2>1. PICK id \in DOMAIN rows : rows[id].n = n /\ \A name \in Content(rows[id].kind) : Kept(id, name)
    BY DEF TitleInv, CreatedKept
  <2>2. rows[id].kind \in Kinds
    BY DEF TitleInv, TitleTyped
  <2>3. ToSet(Steps(rows[id].kind)) \ {"row"} \subseteq Content(rows[id].kind) /\ ToSet(Sidecars) = {"meta", "settings"}
    BY <2>2, RemainsAre
  <2> QED
    BY <2>1, <2>3 DEF Kept, TornBy
<1> QED
  BY <1>1, <1>2, TitleStep, PTL DEF Spec

-----------------------------------------------------------------------------
(* Settings.                                                               *)

Config == [pending : BOOLEAN, prefs : Prefs]
WindowState ==
    [phase : {"off", "start", "frame", "end", "save", "write"}, then : {"start", "frame", "end"},
     config : Config, saved : Config, store : BOOLEAN, failed : BOOLEAN, ready : BOOLEAN]
SettingsTyped ==
    /\ file \in [is : {"missing", "torn", "whole"}, config : Config]
    /\ win \in [Users -> WindowState]
    /\ sync \subseteq Users /\ overlap \in BOOLEAN

\* What a window knows by itself: services are open only after the wizard, and
\* its settings differ from the saved ones only where a save is due or failed.
WindowSound(w) ==
    /\ win[w].ready => ~win[w].config.pending
    /\ win[w].phase = "off" => w \notin sync
    /\ win[w].phase = "start" => win[w].then # "frame"
    /\ win[w].then = "start" /\ win[w].phase \in {"start", "save", "write"} => win[w].config = win[w].saved
    /\ win[w].phase = "frame" /\ ~win[w].failed => win[w].config = win[w].saved

\* What it knows of the file, if the last write had the file to itself: the
\* window that writes is the only one in step with it, and any other in step
\* finds what it saved last.
FileSound(w) ==
    /\ win[w].phase = "write" => sync = {w} /\ file.is = "torn"
    /\ w \in sync /\ win[w].phase # "write" /\ win[w].store /\ ~win[w].failed =>
           file.is = "whole" /\ file.config = win[w].saved
SettingsInv ==
    /\ SettingsTyped
    /\ \A w \in Users : WindowSound(w)
    /\ ~overlap => \A w \in Users : FileSound(w)

LEMMA DefaultTyped == Default \in Config /\ Off \in WindowState
BY SettingsAssumption DEF Default, Off, Config, WindowState

LEMMA SettingsInitInv == SettingsInit => SettingsInv
<1> SUFFICES ASSUME SettingsInit PROVE SettingsInv
  OBVIOUS
<1>1. SettingsTyped
  BY DefaultTyped DEF SettingsInit, SettingsTyped
<1>2. ASSUME NEW w \in Users
      PROVE  WindowSound(w) /\ FileSound(w)
  <2>1. win[w] = Off /\ sync = {}
    BY <1>2 DEF SettingsInit
  <2> QED
    BY <2>1 DEF WindowSound, FileSound, Off
<1> QED
  BY <1>1, <1>2 DEF SettingsInv

\* One window moves, may fall out of step with the file, and leaves it alone.
LEMMA WindowMoves ==
    ASSUME SettingsInv, NEW w \in Users, NEW r \in WindowState,
           win' = [win EXCEPT ![w] = r], UNCHANGED <<file, overlap>>, sync' \in {sync, sync \ {w}},
           r.ready => ~r.config.pending,
           r.phase # "write",
           r.phase = "off" => w \notin sync',
           r.phase = "start" => r.then # "frame",
           r.then = "start" /\ r.phase \in {"start", "save"} => r.config = r.saved,
           r.phase = "frame" /\ ~r.failed => r.config = r.saved,
           w \in sync' /\ r.store /\ ~r.failed =>
               win[w].phase # "write" /\ win[w].store /\ ~win[w].failed /\ r.saved = win[w].saved
    PROVE  SettingsInv'
<1>1. SettingsTyped'
  BY DEF SettingsInv, SettingsTyped
<1>2. win'[w] = r /\ \A v \in Users \ {w} : win'[v] = win[v]
  BY DEF SettingsInv, SettingsTyped
<1>3. ASSUME NEW v \in Users
      PROVE  WindowSound(v)'
  <2>1. CASE v = w
    BY <1>2, <2>1 DEF WindowSound
  <2>2. CASE v # w
    BY <1>2, <1>3, <2>2 DEF SettingsInv, WindowSound
  <2> QED
    BY <2>1, <2>2
<1>4. ASSUME ~overlap, NEW v \in Users
      PROVE  FileSound(v)'
  <2>1. CASE v = w
    BY <1>2, <1>4, <2>1 DEF SettingsInv, FileSound
  <2>2. CASE v # w
    BY <1>2, <1>4, <2>2 DEF SettingsInv, FileSound
  <2> QED
    BY <2>1, <2>2
<1> QED
  BY <1>1, <1>3, <1>4 DEF SettingsInv

\* The state a window starts in.
Opening(config, store, phase) ==
    [Off EXCEPT !.phase = phase, !.then = "start", !.config = config, !.saved = config, !.store = store]

LEMMA OpeningTyped ==
    ASSUME NEW config \in Config, NEW store \in BOOLEAN, NEW phase \in {"start", "save"}
    PROVE  LET r == Opening(config, store, phase)
           IN  /\ r \in WindowState /\ r.phase = phase /\ r.then = "start" /\ r.config = config /\ r.saved = config
               /\ r.store = store /\ ~r.failed /\ ~r.ready
BY DefaultTyped DEF Opening, Off, WindowState

LEMMA LoadsTyped == SettingsTyped => Loads \subseteq Config /\ (file.is = "whole" => Loads = {file.config})
BY DefaultTyped DEF SettingsTyped, Loads, Config

LEMMA StartStep ==
    ASSUME SettingsInv, NEW w \in Users, StartWithoutStore(w) \/ StartUnreadable(w) \/ Start(w)
    PROVE  SettingsInv'
<1>0. SettingsTyped /\ win[w].phase = "off" /\ w \notin sync /\ UNCHANGED <<file, overlap>>
  BY DEF SettingsInv, WindowSound, StartWithoutStore, StartUnreadable, Start
<1>1. CASE StartWithoutStore(w) \/ StartUnreadable(w)
  <2>1. PICK store \in BOOLEAN : win' = [win EXCEPT ![w] = Opening(Default, store, "start")]
    BY <1>1 DEF StartWithoutStore, StartUnreadable, Started, Opening
  <2>2. UNCHANGED <<file, overlap>> /\ sync' \in {sync, sync \ {w}} /\ w \notin sync'
    BY <1>0, <1>1 DEF StartWithoutStore, StartUnreadable
  <2> DEFINE r == Opening(Default, store, "start")
  <2>3. /\ r \in WindowState /\ r.phase = "start" /\ r.then = "start" /\ r.config = Default /\ r.saved = Default
        /\ r.store = store /\ ~r.failed /\ ~r.ready
    BY OpeningTyped, DefaultTyped
  <2> HIDE DEF r
  <2> QED
    BY <2>1, <2>2, <2>3, WindowMoves DEF r
<1>2. CASE Start(w)
  <2>1. PICK config \in Loads : win' = [win EXCEPT ![w] = Opening(config, TRUE, IF file.is = "missing" THEN "save" ELSE "start")]
    BY <1>2 DEF Start, Started, Opening
  <2> DEFINE phase == IF file.is = "missing" THEN "save" ELSE "start"
             r == Opening(config, TRUE, phase)
  <2>2. config \in Config /\ (file.is = "whole" => file.config = config)
    BY <1>0, <2>1, LoadsTyped
  <2>3. /\ r \in WindowState /\ r.phase = phase /\ r.then = "start" /\ r.config = config /\ r.saved = config
        /\ r.store /\ ~r.failed /\ ~r.ready
    BY <2>2, OpeningTyped
  <2>4. win' = [win EXCEPT ![w] = r] /\ phase \in {"save", "start"}
    BY <2>1
  <2> HIDE DEF r
  <2>5. CASE file.is # "whole"
    <3>1. sync' = sync
      BY <1>2, <2>5 DEF Start
    <3> QED
      BY <1>0, <2>3, <2>4, <3>1, WindowMoves
  <2>6. CASE file.is = "whole"
    <3>1. sync' = sync \cup {w} /\ phase = "start"
      BY <1>2, <2>6 DEF Start
    <3>2. SettingsTyped'
      BY <1>0, <2>3, <2>4, <3>1 DEF SettingsTyped
    <3>3. win'[w] = r /\ \A v \in Users \ {w} : win'[v] = win[v]
      BY <1>0, <2>4 DEF SettingsTyped
    <3>4. ASSUME NEW v \in Users
          PROVE  WindowSound(v)' /\ (~overlap => FileSound(v)')
      <4>1. CASE v = w
        BY <1>0, <2>2, <2>3, <2>6, <3>1, <3>3, <4>1 DEF WindowSound, FileSound
      <4>2. CASE v # w
        BY <1>0, <2>6, <3>1, <3>3, <4>2 DEF SettingsInv, WindowSound, FileSound
      <4> QED
        BY <4>1, <4>2
    <3> QED
      BY <1>0, <3>2, <3>4 DEF SettingsInv
  <2> QED
    BY <2>5, <2>6
<1> QED
  BY <1>1, <1>2

\* The window's own steps: the services, the user, the end of a frame, a save
\* without a store or one that fails, and the end of the window.
LEMMA OwnStep ==
    ASSUME SettingsInv, NEW w \in Users,
           \/ \E opened \in BOOLEAN : InitializeServices(w, opened)
           \/ \E prefs \in Prefs : EditSettings(w, prefs)
           \/ CompleteWizard(w) \/ EndOfFrame(w) \/ SaveNowhere(w) \/ SaveFails(w) \/ Close(w)
    PROVE  SettingsInv'
<1> DEFINE s == win[w]
<1>0. /\ s \in WindowState /\ WindowSound(w) /\ win \in [Users -> WindowState]
  BY DEF SettingsInv, SettingsTyped
<1>1. ASSUME NEW opened \in BOOLEAN, InitializeServices(w, opened)
      PROVE  SettingsInv'
  <2> DEFINE r == [s EXCEPT !.phase = IF s.then = "end" THEN "end" ELSE "frame", !.ready = opened]
  <2>1. win' = [win EXCEPT ![w] = r] /\ UNCHANGED <<file, sync, overlap>> /\ s.phase = "start" /\ (s.config.pending => ~opened)
    BY <1>0, <1>1 DEF InitializeServices
  <2>2. /\ r \in WindowState /\ r.phase = (IF s.then = "end" THEN "end" ELSE "frame") /\ r.ready = opened
        /\ r.then = s.then /\ r.config = s.config /\ r.saved = s.saved /\ r.store = s.store /\ r.failed = s.failed
    BY <1>0 DEF WindowState
  <2> HIDE DEF r
  <2>3. s.then \in {"start", "frame", "end"} /\ s.ready \in BOOLEAN
    BY <1>0 DEF WindowState
  <2> QED
    BY <1>0, <2>1, <2>2, <2>3, WindowMoves DEF WindowSound
<1>2. ASSUME NEW prefs \in Prefs, EditSettings(w, prefs)
      PROVE  SettingsInv'
  <2> DEFINE r == [s EXCEPT !.config = [s.config EXCEPT !.prefs = prefs], !.phase = "end"]
  <2>1. win' = [win EXCEPT ![w] = r] /\ UNCHANGED <<file, sync, overlap>> /\ s.phase = "frame"
    BY <1>0, <1>2 DEF EditSettings
  <2>2. /\ r \in WindowState /\ r.phase = "end" /\ r.ready = s.ready /\ r.config.pending = s.config.pending
        /\ r.then = s.then /\ r.saved = s.saved /\ r.store = s.store /\ r.failed = s.failed
    BY <1>0 DEF WindowState, Config
  <2> HIDE DEF r
  <2> QED
    BY <1>0, <2>1, <2>2, WindowMoves DEF WindowSound
<1>3. CASE CompleteWizard(w)
  <2> DEFINE r == [s EXCEPT !.config = [s.config EXCEPT !.pending = FALSE], !.phase = "save", !.then = "end"]
  <2>1. win' = [win EXCEPT ![w] = r] /\ UNCHANGED <<file, sync, overlap>> /\ s.phase = "frame"
    BY <1>0, <1>3 DEF CompleteWizard
  <2>2. /\ r \in WindowState /\ r.phase = "save" /\ r.ready = s.ready /\ r.config.pending = FALSE
        /\ r.then = "end" /\ r.saved = s.saved /\ r.store = s.store /\ r.failed = s.failed
    BY <1>0 DEF WindowState, Config
  <2> HIDE DEF r
  <2> QED
    BY <1>0, <2>1, <2>2, WindowMoves DEF WindowSound
<1>4. CASE EndOfFrame(w)
  <2> DEFINE r == [s EXCEPT !.phase = IF s.config # s.saved THEN "save" ELSE "frame", !.then = "frame"]
  <2>1. win' = [win EXCEPT ![w] = r] /\ UNCHANGED <<file, sync, overlap>> /\ s.phase = "end"
    BY <1>0, <1>4 DEF EndOfFrame
  <2>2. /\ r \in WindowState /\ r.phase = (IF s.config # s.saved THEN "save" ELSE "frame") /\ r.ready = s.ready
        /\ r.config = s.config /\ r.then = "frame" /\ r.saved = s.saved /\ r.store = s.store /\ r.failed = s.failed
    BY <1>0 DEF WindowState
  <2> HIDE DEF r
  <2> QED
    BY <1>0, <2>1, <2>2, WindowMoves DEF WindowSound
<1>5. CASE SaveNowhere(w)
  <2> DEFINE r == [s EXCEPT !.phase = After(w), !.saved = s.config]
  <2>1. win' = [win EXCEPT ![w] = r] /\ UNCHANGED <<file, sync, overlap>> /\ s.phase = "save" /\ ~s.store
    BY <1>0, <1>5 DEF SaveNowhere
  <2>2. /\ r \in WindowState /\ r.phase = (IF s.then = "frame" THEN "frame" ELSE "start") /\ r.ready = s.ready
        /\ r.config = s.config /\ r.then = s.then /\ r.saved = s.config /\ r.store = s.store
    BY <1>0 DEF WindowState, After
  <2> HIDE DEF r
  <2> QED
    BY <1>0, <2>1, <2>2, WindowMoves DEF WindowSound
<1>6. CASE SaveFails(w)
  <2> DEFINE r == [s EXCEPT !.phase = After(w), !.failed = (s.then # "start")]
  <2>1. /\ win' = [win EXCEPT ![w] = r] /\ UNCHANGED <<file, overlap>> /\ s.phase \in {"save", "write"}
        /\ sync' = IF s.then = "start" THEN sync \ {w} ELSE sync
    BY <1>0, <1>6 DEF SaveFails
  <2>2. /\ r \in WindowState /\ r.phase = (IF s.then = "frame" THEN "frame" ELSE "start") /\ r.ready = s.ready
        /\ r.config = s.config /\ r.then = s.then /\ r.saved = s.saved /\ r.failed = (s.then # "start")
    BY <1>0 DEF WindowState, After
  <2> HIDE DEF r
  <2> QED
    BY <1>0, <2>1, <2>2, WindowMoves DEF WindowSound
<1>7. CASE Close(w)
  <2>1. win' = [win EXCEPT ![w] = Off] /\ sync' = sync \ {w} /\ UNCHANGED <<file, overlap>>
    BY <1>7 DEF Close
  <2>2. Off \in WindowState /\ Off.phase = "off" /\ ~Off.ready /\ ~Off.failed
    BY DefaultTyped DEF Off
  <2> QED
    BY <2>1, <2>2, WindowMoves
<1> QED
  BY <1>1, <1>2, <1>3, <1>4, <1>5, <1>6, <1>7

LEMMA BeginSaveStep ==
    ASSUME SettingsInv, NEW w \in Users, BeginSave(w)
    PROVE  SettingsInv'
<1> DEFINE r == [win[w] EXCEPT !.phase = "write"]
<1>0. win \in [Users -> WindowState] /\ win[w] \in WindowState /\ WindowSound(w)
  BY DEF SettingsInv, SettingsTyped
<1>1. /\ win' = [win EXCEPT ![w] = r] /\ win[w].phase = "save" /\ sync' = {w}
      /\ file' = [is |-> "torn", config |-> win[w].config]
      /\ overlap' = \E v \in Users \ {w} : win[v].phase = "write"
  BY <1>0 DEF BeginSave
<1>2. /\ r \in WindowState /\ r.phase = "write" /\ r.then = win[w].then /\ r.config = win[w].config /\ r.saved = win[w].saved
      /\ r.ready = win[w].ready
  BY <1>0 DEF WindowState
<1> HIDE DEF r
<1>3. win' \in [Users -> WindowState] /\ win'[w] = r /\ \A v \in Users \ {w} : win'[v] = win[v]
  BY <1>0, <1>1, <1>2
<1>4. win[w].config \in Config
  BY <1>0 DEF WindowState
<1>5. SettingsTyped'
  <2>1. file' \in [is : {"missing", "torn", "whole"}, config : Config]
    BY <1>1, <1>4
  <2> QED
    BY <1>1, <1>3, <2>1 DEF SettingsTyped
<1>6. ASSUME NEW v \in Users
      PROVE  WindowSound(v)'
  <2>1. CASE v = w
    BY <1>0, <1>1, <1>2, <1>3, <2>1 DEF WindowSound
  <2>2. CASE v # w
    BY <1>1, <1>3, <2>2 DEF SettingsInv, WindowSound
  <2> QED
    BY <2>1, <2>2
<1>7. ASSUME ~overlap', NEW v \in Users
      PROVE  FileSound(v)'
  <2>1. CASE v = w
    BY <1>1, <1>2, <1>3, <2>1 DEF FileSound
  <2>2. CASE v # w
    BY <1>1, <1>3, <1>7, <2>2 DEF FileSound
  <2> QED
    BY <2>1, <2>2
<1> QED
  BY <1>5, <1>6, <1>7 DEF SettingsInv

LEMMA EndSaveStep ==
    ASSUME SettingsInv, NEW w \in Users, EndSave(w)
    PROVE  SettingsInv'
<1> DEFINE r == [win[w] EXCEPT !.phase = After(w), !.saved = win[w].config, !.failed = FALSE]
<1>0. win \in [Users -> WindowState] /\ win[w] \in WindowState /\ WindowSound(w)
  BY DEF SettingsInv, SettingsTyped
<1>1. /\ win' = [win EXCEPT ![w] = r] /\ win[w].phase = "write" /\ UNCHANGED <<sync, overlap>>
      /\ \/ file' = [is |-> "whole", config |-> win[w].config]
         \/ (overlap \/ sync # {w}) /\ file' = [is |-> "torn", config |-> win[w].config]
  BY <1>0 DEF EndSave
<1>2. /\ r \in WindowState /\ r.phase = (IF win[w].then = "frame" THEN "frame" ELSE "start") /\ r.then = win[w].then
      /\ r.config = win[w].config /\ r.saved = win[w].config /\ r.ready = win[w].ready
  BY <1>0 DEF WindowState, After
<1> HIDE DEF r
<1>3. win' \in [Users -> WindowState] /\ win'[w] = r /\ \A v \in Users \ {w} : win'[v] = win[v]
  BY <1>0, <1>1, <1>2
<1>4. win[w].config \in Config
  BY <1>0 DEF WindowState
<1>5. SettingsTyped'
  <2>1. file' \in [is : {"missing", "torn", "whole"}, config : Config]
    BY <1>1, <1>4
  <2> QED
    BY <1>1, <1>3, <2>1 DEF SettingsInv, SettingsTyped
<1>6. ASSUME NEW v \in Users
      PROVE  WindowSound(v)'
  <2>1. CASE v = w
    BY <1>0, <1>1, <1>2, <1>3, <2>1 DEF WindowSound
  <2>2. CASE v # w
    BY <1>1, <1>3, <2>2 DEF SettingsInv, WindowSound
  <2> QED
    BY <2>1, <2>2
<1>7. ASSUME ~overlap', NEW v \in Users
      PROVE  FileSound(v)'
  <2>1. sync = {w} /\ file'.is = "whole" /\ file'.config = win[w].config
    BY <1>1, <1>7 DEF SettingsInv, FileSound
  <2>2. CASE v = w
    BY <1>1, <1>2, <1>3, <2>1, <2>2 DEF FileSound
  <2>3. CASE v # w
    <3>1. win[v].phase # "write"
      BY <1>1, <1>7, <2>1, <2>3 DEF SettingsInv, FileSound
    <3> QED
      BY <1>1, <1>3, <2>1, <2>3, <3>1 DEF FileSound
  <2> QED
    BY <2>2, <2>3
<1> QED
  BY <1>5, <1>6, <1>7 DEF SettingsInv

LEMMA SettingsStep == SettingsInv /\ [Next]_vars => SettingsInv'
<1> SUFFICES ASSUME SettingsInv, [Next]_vars PROVE SettingsInv'
  OBVIOUS
<1>1. CASE UNCHANGED settingsVars
  BY <1>1 DEF SettingsInv, SettingsTyped, WindowSound, FileSound, settingsVars
<1>2. ASSUME NEW w \in Users, Frame(w) \/ OpenServices(w) \/ CloseApp(w)
      PROVE  SettingsInv'
  BY <1>2, StartStep, OwnStep, BeginSaveStep, EndSaveStep DEF Frame, OpenServices, CloseApp
<1> QED
  BY <1>1, <1>2 DEF Next, vars

(* Whatever windows start, save, fail and close in whatever order, a       *)
(* window that shows no save error, and whose file no other window has     *)
(* written since, has its settings in the file and the next start reads    *)
(* them (persist_now, ConfigStore::save, load_startup_config).             *)
THEOREM SettingsAlwaysSaved == Spec => []SettingsSaved
<1>1. Init => SettingsInv
  BY SettingsInitInv DEF Init
<1>2. SettingsInv => SettingsSaved
  <2> SUFFICES ASSUME SettingsInv, NEW w \in Users
               PROVE  /\ win[w].ready => ~win[w].config.pending
                      /\ win[w].phase = "frame" /\ win[w].store /\ ~win[w].failed /\ w \in sync /\ ~overlap =>
                             /\ win[w].config = win[w].saved
                             /\ file = [is |-> "whole", config |-> win[w].config] /\ Loads = {win[w].config}
    BY DEF SettingsSaved
  <2>1. SettingsTyped /\ WindowSound(w)
    BY DEF SettingsInv
  <2>2. ASSUME win[w].phase = "frame", win[w].store, ~win[w].failed, w \in sync, ~overlap
        PROVE  /\ win[w].config = win[w].saved
               /\ file = [is |-> "whole", config |-> win[w].config] /\ Loads = {win[w].config}
    <3>1. file.is = "whole" /\ file.config = win[w].config /\ win[w].config = win[w].saved
      BY <2>1, <2>2 DEF SettingsInv, FileSound, WindowSound
    <3>2. file = [is |-> "whole", config |-> win[w].config]
      BY <2>1, <3>1 DEF SettingsTyped
    <3>3. Loads = {win[w].config}
      BY <2>1, <3>1, LoadsTyped
    <3> QED
      BY <3>1, <3>2, <3>3
  <2> QED
    BY <2>1, <2>2 DEF WindowSound
<1> QED
  BY <1>1, <1>2, SettingsStep, PTL DEF Spec
=============================================================================
