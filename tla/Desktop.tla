------------------------------ MODULE Desktop ------------------------------
(***************************************************************************)
(* The desktop application (nx86-gui/src/lib.rs): windows with their       *)
(* settings and the title database behind them, and in a window the        *)
(* worker panel and the controller.  Panel and controller share no state   *)
(* with the rest, so a behaviour is about one of the parts; settings and   *)
(* database meet where a window opens its services.                        *)
(***************************************************************************)
EXTENDS WorkerPanel, HostInput, TitleStore, Settings

VARIABLE part \* "worker", "input", "titles" or "settings"

Init ==
    /\ part \in {"worker", "input", "titles", "settings"}
    /\ PanelInit /\ TitleInit /\ SettingsInit /\ InputInit
    /\ part # "input" => keyFor = [a \in Actions |-> CHOOSE k \in Keys : TRUE]

\* initialize_services_if_ready
OpenServices(w) ==
    \/ InitializeServices(w, TRUE) /\ OpenDatabase(w)
    \/ InitializeServices(w, FALSE) /\ UNCHANGED titleVars

CloseApp(w) == Close(w) /\ (IF w \in open THEN CloseWindow(w) ELSE UNCHANGED titleVars)

\* draw_content and persist_if_changed, as far as they touch the settings.
Frame(w) ==
    /\ \/ StartWithoutStore(w) \/ StartUnreadable(w) \/ Start(w)
       \/ CompleteWizard(w) \/ EndOfFrame(w) \/ SaveNowhere(w) \/ BeginSave(w) \/ EndSave(w) \/ SaveFails(w)
       \/ \E p \in Prefs : EditSettings(w, p)
    /\ UNCHANGED titleVars

Next ==
    /\ \/ part = "worker" /\ PanelNext /\ UNCHANGED <<inputVars, titleVars, settingsVars>>
       \/ part = "input" /\ InputNext /\ UNCHANGED <<panelVars, titleVars, settingsVars>>
       \/ part = "titles" /\ TitleNext /\ UNCHANGED <<panelVars, inputVars, settingsVars>>
       \/ /\ part = "settings" /\ UNCHANGED <<panelVars, inputVars>>
          /\ \E w \in Users : Frame(w) \/ OpenServices(w) \/ CloseApp(w)
    /\ UNCHANGED part
vars == <<part, panelVars, inputVars, titleVars, settingsVars>>
Spec == Init /\ [][Next]_vars

-----------------------------------------------------------------------------
(* What a window shows is so: the compile panel says what its worker said  *)
(* and offers what can be done about it, and the controller state is what  *)
(* is held down (poll_worker, start_worker, cancel_worker, poll_input).    *)
WindowTruthful == WorkerMatchesPanel /\ InputMatches
=============================================================================
