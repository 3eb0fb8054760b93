------------------------------- MODULE Poller -------------------------------
(***************************************************************************)
(* The GUI's telemetry poller (gui/src/poller.rs) and who steers it: the   *)
(* tray, the window and the Tauri commands, which share AppState with it   *)
(* (gui/src/state.rs).  The daemon comes and goes, and may be up with an   *)
(* EC that does not answer.                                                *)
(***************************************************************************)
EXTENDS Naturals

VARIABLES
  \* The poller.
  pc,          \* where run() is
  link,        \* its connection leads to a daemon process that is alive
  status,      \* AppState.connection
  \* AppState, and the GUI's main thread.
  paused,      \* poll_paused
  permit,      \* reconnect_signal holds a permit
  ui,          \* the main thread: "idle", or "notify" inside a handler
  visible,     \* the main window is shown
  \* The daemon.
  up,          \* it accepts connections
  answers,     \* its EC reads succeed
  \* History, for the properties only.
  asked        \* the user asked for something since the last attempt

gui     == <<paused, permit, ui, visible>>
daemon  == <<up, answers>>
vars    == <<pc, link, status, gui, daemon, asked>>

Labels == {"top", "connect", "backoff", "check", "parked", "fetch", "waiting"}

(* The select! blocks: a sleep or a permit ends them.                      *)
Waits == {"backoff", "parked", "waiting"}

-----------------------------------------------------------------------------
Init ==
  /\ pc = "top" /\ link = FALSE
  /\ status = "Disconnected"
  /\ paused = FALSE /\ permit = FALSE /\ ui = "idle" /\ visible = TRUE
  /\ up \in BOOLEAN /\ answers \in BOOLEAN
  /\ asked = FALSE

-----------------------------------------------------------------------------
(* The poller: run().                                                      *)

(* Into the outer loop.                                                    *)
TryConnect ==
  /\ pc = "top"
  /\ status' = "Connecting"
  /\ pc' = "connect"
  /\ asked' = FALSE
  /\ UNCHANGED <<link, gui, daemon>>

Connected ==
  /\ pc = "connect" /\ up
  /\ link' = TRUE
  /\ status' = "Connected"
  /\ pc' = "check"
  /\ UNCHANGED <<gui, daemon, asked>>

(* Mutant of ConnectFails: the status is left as it was.                   *)
ConnectFailsSilently ==
  /\ pc = "connect" /\ ~up
  /\ pc' = "backoff"
  /\ UNCHANGED <<link, status, gui, daemon, asked>>

ConnectFails ==
  /\ pc = "connect" /\ ~up
  /\ status' = "Error"
  /\ pc' = "backoff"
  /\ UNCHANGED <<link, gui, daemon, asked>>

(* The sleep is over, or a permit was there to be taken.                   *)
WaitEnds ==
  /\ pc \in Waits
  /\ permit' \in {permit, FALSE}
  /\ pc' = IF pc = "backoff" THEN "top" ELSE "check"
  /\ UNCHANGED <<link, status, paused, ui, visible, daemon, asked>>

Park ==
  /\ pc = "check" /\ paused
  /\ pc' = "parked"
  /\ UNCHANGED <<link, status, gui, daemon, asked>>

Fetch ==
  /\ pc = "check" /\ ~paused
  /\ pc' = "fetch"
  /\ asked' = FALSE
  /\ UNCHANGED <<link, status, gui, daemon>>

(* fetch_telemetry(): temperatures and fans must answer; a battery that    *)
(* does not is shown as zeroes.                                            *)
Sample ==
  /\ pc = "fetch" /\ link /\ answers
  /\ pc' = "waiting"
  /\ UNCHANGED <<link, status, gui, daemon, asked>>

(* Mutant of PollFails: the poller keeps the connection it has.            *)
PollFailsKeepsLink ==
  /\ pc = "fetch" /\ ~(link /\ answers)
  /\ pc' = "waiting"
  /\ UNCHANGED <<link, status, gui, daemon, asked>>

(* The connection is dropped, and the outer loop starts over at once.      *)
PollFails ==
  /\ pc = "fetch" /\ ~(link /\ answers)
  /\ link' = FALSE
  /\ pc' = "top"
  /\ UNCHANGED <<status, gui, daemon, asked>>

-----------------------------------------------------------------------------
(* The GUI's main thread.                                                  *)

(* CloseRequested: hide, and park the poller.                              *)
Close ==
  /\ ui = "idle" /\ visible
  /\ visible' = FALSE
  /\ paused' = TRUE
  /\ asked' = FALSE
  /\ UNCHANGED <<pc, link, status, permit, ui, daemon>>

(* bring_window_to_front: first the flag ...                               *)
Show ==
  /\ ui = "idle"
  /\ visible' = TRUE
  /\ paused' = FALSE
  /\ ui' = "notify"
  /\ UNCHANGED <<pc, link, status, permit, daemon, asked>>

(* ... then notify_one, which wakes the waiting poller or leaves a permit. *)
Notify ==
  /\ ui = "notify"
  /\ permit' = TRUE
  /\ ui' = "idle"
  /\ asked' = TRUE
  /\ UNCHANGED <<pc, link, status, paused, visible, daemon>>

(* Mutant of Poke: a wake-up that reaches a waiting poller only.           *)
PokeWaiting ==
  /\ ui = "idle" /\ visible
  /\ permit' = (permit \/ pc \in Waits)
  /\ asked' = TRUE
  /\ UNCHANGED <<pc, link, status, paused, ui, visible, daemon>>

(* reconnect_now from the overlay, set_poll_interval from the settings.    *)
Poke ==
  /\ ui = "idle" /\ visible
  /\ permit' = TRUE
  /\ asked' = TRUE
  /\ UNCHANGED <<pc, link, status, paused, ui, visible, daemon>>

-----------------------------------------------------------------------------
(* The daemon.                                                             *)

DaemonStops ==
  /\ up
  /\ up' = FALSE /\ link' = FALSE
  /\ UNCHANGED <<pc, status, gui, answers, asked>>

DaemonStarts ==
  /\ ~up
  /\ up' = TRUE
  /\ UNCHANGED <<pc, link, status, gui, answers, asked>>

EcChanges ==
  /\ answers' = ~answers
  /\ UNCHANGED <<pc, link, status, gui, up, asked>>

Run ==
  \/ TryConnect \/ Connected \/ ConnectFails \/ WaitEnds
  \/ Park \/ Fetch \/ Sample \/ PollFails

Next ==
  \/ Run
  \/ Close \/ Show \/ Notify \/ Poke
  \/ DaemonStops \/ DaemonStarts \/ EcChanges

Spec == Init /\ [][Next]_vars

(* The async runtime runs the poller, and a handler that began ends.       *)
Fairness == WF_vars(Run) /\ WF_vars(Notify)

FairSpec == Spec /\ Fairness

-----------------------------------------------------------------------------
(* Every variable has its type, and what is shown is where the poller is.  *)
TypeOK ==
  /\ pc \in Labels /\ link \in BOOLEAN
  /\ status \in {"Disconnected", "Connecting", "Connected", "Error"}
  /\ paused \in BOOLEAN /\ permit \in BOOLEAN /\ ui \in {"idle", "notify"}
  /\ visible \in BOOLEAN /\ up \in BOOLEAN /\ answers \in BOOLEAN
  /\ asked \in BOOLEAN
  /\ pc \in {"check", "parked", "fetch", "waiting"} => status = "Connected"
  /\ pc = "connect" => status = "Connecting"
  /\ pc = "backoff" => status = "Error"

(* "Retry now", a new interval and a window brought back are acted upon at *)
(* once: while one of them is outstanding, a poller that waits has a       *)
(* permit to go on, and it does not park for a window that is shown        *)
(* (state.rs:38-45, poller.rs:46-85, tray.rs:96-102).                      *)
NoLostWakeUp ==
  asked /\ ui = "idle" /\ pc \in Waits => permit /\ (pc = "parked" => ~paused)

(* Once the daemon is up with an EC that answers, for good, and the window *)
(* is shown, the connection is shown to be up and samples keep coming,     *)
(* through whatever went before (poller.rs:32-87).                         *)
SamplesFlow ==
  <>[](up /\ answers /\ ~paused) =>
    <>[](status = "Connected" /\ link) /\ []<>(pc = "waiting")

(* A daemon that is gone for good is shown as an error, and tried again,   *)
(* while the window is shown (poller.rs:41-53, 73-78).                     *)
OutageIsShown == <>[](~up /\ ~paused) => []<>(status = "Error")
=============================================================================
