------------------------------ MODULE Settings ------------------------------
(***************************************************************************)
(* The settings file and the windows that read and write it                *)
(* (nx86-core/src/config.rs, nx86-gui/src/lib.rs): loaded once when a      *)
(* window starts, saved at the end of every frame that changed them.       *)
(***************************************************************************)
EXTENDS Naturals, FiniteSets

CONSTANTS Users,        \* windows
          Prefs,        \* what the user may choose
          DefaultPrefs,
          ValidPrefs    \* what validate_wizard accepts
ASSUME SettingsAssumption == DefaultPrefs \in Prefs /\ ValidPrefs \subseteq Prefs /\ IsFiniteSet(Users)

VARIABLES file, \* [is, config]: "missing", "torn" (emptied, cut short or garbled) or "whole"
          win,  \* [window -> [phase, then, config, saved, store, failed, ready]]
          sync, \* history: windows that have read or written the file since the last other write began
          overlap \* history: the last write began while another was going on
settingsVars == <<file, win, sync, overlap>>

Default == [pending |-> TRUE, prefs |-> DefaultPrefs]
Off == [phase |-> "off", then |-> "frame", config |-> Default, saved |-> Default, store |-> TRUE, failed |-> FALSE, ready |-> FALSE]
SettingsInit ==
    /\ file = [is |-> "missing", config |-> Default]
    /\ win = [w \in Users |-> Off] /\ sync = {} /\ overlap = FALSE

-----------------------------------------------------------------------------
(* ConfigStore::load and load_startup_config.                              *)

\* Every field of the file is optional, so a file cut short reads as a mix of
\* defaults and settings, or as an error.
Loads ==
    CASE file.is = "whole" -> {file.config}
      [] file.is = "missing" -> {Default}
      [] file.is = "torn" -> {Default} \cup [pending : {TRUE, file.config.pending}, prefs : Prefs]

Started(w, config, store, phase) ==
    win' = [win EXCEPT ![w] = [Off EXCEPT !.phase = phase, !.then = "start", !.config = config, !.saved = config, !.store = store]]

\* No configuration directory: defaults, and nothing is ever saved.  A file
\* that cannot be read: defaults, and the file stays as it is.
StartWithoutStore(w) ==
    /\ win[w].phase = "off" /\ Started(w, Default, FALSE, "start") /\ UNCHANGED <<file, sync, overlap>>
StartUnreadable(w) ==
    /\ win[w].phase = "off" /\ Started(w, Default, TRUE, "start") /\ UNCHANGED <<file, sync, overlap>>
\* No file: the defaults are saved, whatever comes of it.
Start(w) ==
    /\ win[w].phase = "off"
    /\ \E config \in Loads : Started(w, config, TRUE, IF file.is = "missing" THEN "save" ELSE "start")
    /\ sync' = IF file.is = "whole" THEN sync \cup {w} ELSE sync
    /\ UNCHANGED <<file, overlap>>

\* initialize_services_if_ready, from new and from complete_wizard: opening
\* the title database may fail; ready is that it did not.
InitializeServices(w, opened) ==
    /\ win[w].phase = "start"
    /\ win[w].config.pending => ~opened
    /\ win' = [win EXCEPT ![w].phase = IF win[w].then = "end" THEN "end" ELSE "frame", ![w].ready = opened]
    /\ UNCHANGED <<file, sync, overlap>>

-----------------------------------------------------------------------------
(* One frame: what the user does, then persist_if_changed.                 *)

EditSettings(w, prefs) ==
    /\ win[w].phase = "frame"
    /\ win' = [win EXCEPT ![w].config.prefs = prefs, ![w].phase = "end"]
    /\ UNCHANGED <<file, sync, overlap>>

\* complete_wizard: save at once, then open the services.
CompleteWizard(w) ==
    /\ win[w].phase = "frame" /\ win[w].config.pending /\ win[w].config.prefs \in ValidPrefs
    /\ win' = [win EXCEPT ![w].config.pending = FALSE, ![w].phase = "save", ![w].then = "end"]
    /\ UNCHANGED <<file, sync, overlap>>

EndOfFrame(w) ==
    /\ win[w].phase = "end"
    /\ win' = [win EXCEPT ![w].phase = IF win[w].config # win[w].saved THEN "save" ELSE "frame", ![w].then = "frame"]
    /\ UNCHANGED <<file, sync, overlap>>

\* Where a save returns to: the wizard and the start open the services.
After(w) == IF win[w].then = "frame" THEN "frame" ELSE "start"

\* persist_now without a store.
SaveNowhere(w) ==
    /\ win[w].phase = "save" /\ ~win[w].store
    /\ win' = [win EXCEPT ![w].phase = After(w), ![w].saved = win[w].config]
    /\ UNCHANGED <<file, sync, overlap>>
\* ConfigStore::save: fs::write empties the file, then fills it.
BeginSave(w) ==
    /\ win[w].phase = "save" /\ win[w].store
    /\ file' = [is |-> "torn", config |-> win[w].config]
    /\ win' = [win EXCEPT ![w].phase = "write"]
    /\ sync' = {w} /\ overlap' = \E v \in Users \ {w} : win[v].phase = "write"
\* Two writers from offset 0: the longer of the two leaves its tail behind.
EndSave(w) ==
    /\ win[w].phase = "write"
    /\ file' \in {[is |-> "whole", config |-> win[w].config]} \cup
                 (IF overlap \/ sync # {w} THEN {[is |-> "torn", config |-> win[w].config]} ELSE {})
    /\ win' = [win EXCEPT ![w].phase = After(w), ![w].saved = win[w].config, ![w].failed = FALSE]
    /\ UNCHANGED <<sync, overlap>>
\* Mutant: what was to be saved counts as saved.
SaveFailsQuietly(w) ==
    /\ win[w].phase \in {"save", "write"} /\ win[w].store
    /\ win' = [win EXCEPT ![w].phase = After(w), ![w].saved = win[w].config]
    /\ UNCHANGED <<file, sync, overlap>>
\* An error, before the file is opened or while it is filled.  At the start it
\* is only logged, and the defaults count as saved.
SaveFails(w) ==
    /\ win[w].phase \in {"save", "write"} /\ win[w].store
    /\ win' = [win EXCEPT ![w].phase = After(w), ![w].failed = (win[w].then # "start")]
    /\ sync' = IF win[w].then = "start" THEN sync \ {w} ELSE sync
    /\ UNCHANGED <<file, overlap>>

\* The window is closed or dies, possibly with the file half written.
Close(w) ==
    /\ win[w].phase # "off"
    /\ win' = [win EXCEPT ![w] = Off] /\ sync' = sync \ {w}
    /\ UNCHANGED <<file, overlap>>

-----------------------------------------------------------------------------
(* Between frames a window that does not show a save error believes its    *)
(* settings are saved, and so they are: if it has read or written the file *)
(* since any other window wrote it, the file is whole and holds them, and  *)
(* the next start reads them.  Services only open once the wizard is       *)
(* complete (persist_now, ConfigStore::save, load_startup_config).         *)
SettingsSaved ==
    \A w \in Users :
       /\ win[w].ready => ~win[w].config.pending
       /\ win[w].phase = "frame" /\ win[w].store /\ ~win[w].failed /\ w \in sync /\ ~overlap =>
              /\ win[w].config = win[w].saved
              /\ file = [is |-> "whole", config |-> win[w].config] /\ Loads = {win[w].config}
=============================================================================
