----------------------------- MODULE HostInput -----------------------------
(***************************************************************************)
(* The controller the window presents (nx86-input/src/lib.rs, poll_input   *)
(* of nx86-gui/src/lib.rs): each frame joins the keys held down, through   *)
(* the configured mapping, with what the gamepad events so far add up to.  *)
(***************************************************************************)
EXTENDS Naturals, Sequences, FiniteSets

CONSTANTS Pads, Actions, Keys,
          ActionOf, \* action_for_gilrs_button: [pad button -> action], partial
          Unmapped, \* pad buttons without an action
          QueueCap  \* bound on the events between two frames
ASSUME InputAssumption ==
    /\ ActionOf \in [DOMAIN ActionOf -> Actions] /\ QueueCap \in Nat
    /\ \A b, c \in DOMAIN ActionOf : ActionOf[b] = ActionOf[c] => b = c

VARIABLES held,     \* <<pad, button>> pressed on the devices
          events,   \* what the pads reported since the last poll
          buttons,  \* GamepadRuntime.buttons
          gamepad,  \* config.input.gamepad_enabled
          keyFor,   \* config.input.keyboard: [action -> key]
          down,     \* keys held
          snapshot, \* input_snapshot
          ambiguous,\* history: two pads were used, or one vanished with a button held
          fresh     \* nothing changed since the last poll
inputVars == <<held, events, buttons, gamepad, keyFor, down, snapshot, ambiguous, fresh>>

PadButtons == DOMAIN ActionOf \cup Unmapped
InputInit ==
    /\ held = {} /\ events = <<>> /\ buttons = {} /\ gamepad = TRUE
    /\ keyFor \in [Actions -> Keys] /\ down = {} /\ snapshot = {} /\ ambiguous = FALSE /\ fresh = TRUE

\* ButtonPressed or ButtonReleased reaches the queue.
PadEvent(pad, button) ==
    /\ Len(events) < QueueCap
    /\ held' = IF <<pad, button>> \in held THEN held \ {<<pad, button>>} ELSE held \cup {<<pad, button>>}
    /\ events' = Append(events, [press |-> <<pad, button>> \notin held, button |-> button])
    /\ ambiguous' = (ambiguous \/ \E h \in held : h[1] # pad)
    /\ fresh' = FALSE
    /\ UNCHANGED <<buttons, gamepad, keyFor, down, snapshot>>
\* A pad is unplugged: poll ignores the event, whatever was held on it.
Unplug(pad) ==
    /\ \E h \in held : h[1] = pad
    /\ held' = {h \in held : h[1] # pad}
    /\ ambiguous' = TRUE /\ fresh' = FALSE
    /\ UNCHANGED <<events, buttons, gamepad, keyFor, down, snapshot>>

KeyEvent(key) ==
    /\ down' = (down \ {key}) \cup ({key} \ down) /\ fresh' = FALSE
    /\ UNCHANGED <<held, events, buttons, gamepad, keyFor, snapshot, ambiguous>>
\* The settings screen, drawn after the poll of its frame.
EditInput ==
    /\ \/ gamepad' = ~gamepad /\ UNCHANGED keyFor
       \/ \E a \in Actions, k \in Keys : keyFor' = [keyFor EXCEPT ![a] = k] /\ UNCHANGED gamepad
    /\ fresh' = FALSE
    /\ UNCHANGED <<held, events, buttons, down, snapshot, ambiguous>>

\* GamepadRuntime::poll: every event in turn, so the last one of an action
\* decides; buttons without an action pass.
Pressed(before, todo) ==
    {a \in Actions :
        LET of == {i \in DOMAIN todo : todo[i].button \in DOMAIN ActionOf /\ ActionOf[todo[i].button] = a}
        IN  IF of = {} THEN a \in before ELSE \E i \in of : todo[i].press /\ \A j \in of : j <= i}

Keyboard == {a \in Actions : keyFor[a] \in down}
\* Mutant: the pad's set replaces the keyboard's instead of joining it.
PollInputPadOnly ==
    /\ IF gamepad
       THEN buttons' = Pressed(buttons, events) /\ events' = <<>> /\ snapshot' = IF buttons' = {} THEN Keyboard ELSE buttons'
       ELSE snapshot' = Keyboard /\ UNCHANGED <<buttons, events>>
    /\ fresh' = TRUE
    /\ UNCHANGED <<held, gamepad, keyFor, down, ambiguous>>
\* poll_input: while the pad is disabled its events wait, unread.
PollInput ==
    /\ IF gamepad
       THEN buttons' = Pressed(buttons, events) /\ events' = <<>> /\ snapshot' = Keyboard \cup buttons'
       ELSE snapshot' = Keyboard /\ UNCHANGED <<buttons, events>>
    /\ fresh' = TRUE
    /\ UNCHANGED <<held, gamepad, keyFor, down, ambiguous>>

InputNext ==
    \/ (\E p \in Pads, b \in PadButtons : PadEvent(p, b)) \/ (\E p \in Pads : Unplug(p))
    \/ (\E k \in Keys : KeyEvent(k)) \/ EditInput \/ PollInput

-----------------------------------------------------------------------------
(* After a poll the snapshot is what is held now: the mapped keys, and the *)
(* pad's buttons if the pad is enabled; also after the pad was disabled    *)
(* and used for a while.  Two pads, or one unplugged with a button held,   *)
(* are outside: poll keeps one set for all pads and ignores disconnection. *)
InputMatches ==
    fresh /\ ~ambiguous =>
        snapshot = Keyboard \cup (IF gamepad THEN {ActionOf[h[2]] : h \in {x \in held : x[2] \in DOMAIN ActionOf}} ELSE {})
=============================================================================
