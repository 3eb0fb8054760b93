---------------------------------- MODULE Gui ----------------------------------
(***************************************************************************)
(* What else the GUI does beside its Poller: the check for updates         *)
(* (gui/src/updates.rs), and the bundle of diagnostics with today's log    *)
(* (gui/src/diagnostics.rs, logging.rs), as Tauri commands                 *)
(* (gui/src/tauri_cmds.rs).  Days are counted from 1970-01-01, in UTC.     *)
(***************************************************************************)
EXTENDS Poller, Sequences, FiniteSets

CONSTANTS
  Versions,  \* of a build or a release: its numbers, and whether it has a suffix
  Days       \* the GUI may be started on

ASSUME VersionsAssumption == Versions \subseteq [parts : Seq(Nat), pre : BOOLEAN]
ASSUME DaysAssumption == Days \subseteq Nat

VARIABLES
  current,  \* CARGO_PKG_VERSION
  offer,    \* what the last check found: the release, and update_available
  first,    \* the day of the start
  day,      \* today
  files,    \* dates in the names of the log files
  bundle    \* what the last bundle has for a log: "log" or "empty"

deskVars == <<current, offer, first, day, files, bundle>>
guiVars  == <<vars, deskVars>>

-----------------------------------------------------------------------------
(* compare_version: a part that is missing is 0.                           *)
Part(v, i) == IF i <= Len(v.parts) THEN v.parts[i] ELSE 0

(* Mutant of Compared: only the parts both have are compared.              *)
ComparedShort(a, b) == 1..(IF Len(a.parts) < Len(b.parts) THEN Len(a.parts) ELSE Len(b.parts))

Compared(a, b) == 1..(IF Len(a.parts) > Len(b.parts) THEN Len(a.parts) ELSE Len(b.parts))

Differ(a, b) == {i \in Compared(a, b) : Part(a, i) # Part(b, i)}

(* The first difference decides, and then the suffix.                      *)
IsNewer(a, b) ==
  \/ \E i \in Differ(a, b) :
       (\A j \in Differ(a, b) : i <= j) /\ Part(a, i) > Part(b, i)
  \/ Differ(a, b) = {} /\ ~a.pre /\ b.pre

(* Mutant of CivilFromDays: without the correction for centuries.          *)
CivilFromDaysJulian(n) ==
  LET z   == n + 719468
      era == z \div 146097
      doe == z % 146097
      yoe == (doe - doe \div 1460) \div 365
      doy == doe - (365 * yoe + yoe \div 4)
      mp  == (5 * doy + 2) \div 153
      m   == IF mp < 10 THEN mp + 3 ELSE mp - 9
  IN <<yoe + era * 400 + (IF m <= 2 THEN 1 ELSE 0), m, doy - (153 * mp + 2) \div 5 + 1>>

(* civil_from_days.                                                        *)
CivilFromDays(n) ==
  LET z   == n + 719468
      era == z \div 146097
      doe == z % 146097
      yoe == (doe - doe \div 1460 + doe \div 36524 - doe \div 146096) \div 365
      doy == doe - (365 * yoe + yoe \div 4 - yoe \div 100)
      mp  == (5 * doy + 2) \div 153
      m   == IF mp < 10 THEN mp + 3 ELSE mp - 9
  IN <<yoe + era * 400 + (IF m <= 2 THEN 1 ELSE 0), m, doy - (153 * mp + 2) \div 5 + 1>>

(* The calendar, as the library that writes the log files has it.          *)
Leap(y) == y % 4 = 0 /\ (y % 100 # 0 \/ y % 400 = 0)
YearStart(y) == 365 * (y - 1970) + Cardinality({k \in 1970..(y - 1) : Leap(k)})
MonthStart(y, m) ==
  <<0, 31, 59, 90, 120, 151, 181, 212, 243, 273, 304, 334>>[m]
    + (IF m > 2 /\ Leap(y) THEN 1 ELSE 0)
Calendar(n) ==
  LET y == CHOOSE k \in 1970..(1970 + n \div 365) : YearStart(k) <= n /\ n < YearStart(k + 1)
      r == n - YearStart(y)
      m == CHOOSE k \in 1..12 : MonthStart(y, k) <= r /\ (k = 12 \/ r < MonthStart(y, k + 1))
  IN <<y, m, r - MonthStart(y, m) + 1>>
Dates == [n \in Days \cup {k + 1 : k \in Days} |-> Calendar(n)]

-----------------------------------------------------------------------------
NoOffer == [release |-> [parts |-> <<>>, pre |-> FALSE], update |-> FALSE]

GuiInit ==
  /\ Init
  /\ current \in Versions /\ offer = NoOffer
  /\ first \in Days /\ day = first
  /\ files = {Dates[day]} /\ bundle = "none"

(* check_for_updates: the release that was published last.                 *)
CheckForUpdates ==
  /\ offer = NoOffer
  /\ \E r \in Versions : offer' = [release |-> r, update |-> IsNewer(r, current)]
  /\ UNCHANGED <<vars, current, first, day, files, bundle>>

(* get_diagnostics_bundle: current_log_file, read_tail.                    *)
GetDiagnosticsBundle ==
  /\ bundle = "none"
  /\ bundle' = IF CivilFromDays(day) \in files THEN "log" ELSE "empty"
  /\ UNCHANGED <<vars, current, offer, first, day, files>>

(* The page is left.                                                       *)
Dismiss ==
  /\ offer' = NoOffer /\ bundle' = "none"
  /\ UNCHANGED <<vars, current, first, day, files>>

(* The appender opens the file of the day when there is something to log.  *)
Logs ==
  /\ files' = files \cup {Dates[day]}
  /\ UNCHANGED <<vars, current, offer, first, day, bundle>>

Midnight ==
  /\ day = first /\ bundle = "none"
  /\ day' = day + 1
  /\ UNCHANGED <<vars, current, offer, first, files, bundle>>

Desk == CheckForUpdates \/ GetDiagnosticsBundle \/ Dismiss \/ Logs \/ Midnight

GuiNext == (Next /\ UNCHANGED deskVars) \/ Desk

GuiSpec ==
  /\ GuiInit /\ [][GuiNext]_guiVars
  /\ WF_guiVars(Run /\ UNCHANGED deskVars) /\ WF_guiVars(Notify /\ UNCHANGED deskVars)

-----------------------------------------------------------------------------
(* Versions in one number: parts below 100, and a suffix is worth a half.  *)
Rank(v) ==
  2 * (10000 * Part(v, 1) + 100 * Part(v, 2) + Part(v, 3)) + (IF v.pre THEN 0 ELSE 1)

(* A release is offered exactly if it comes after the build that runs, in  *)
(* the order of their numbers with a pre-release before its release,       *)
(* however many parts either of them spells out (updates.rs:76-111).       *)
OfferIsNewer ==
  offer # NoOffer => offer.update = (Rank(offer.release) > Rank(current))

(* The bundle has the log if there is one of this very day: the name that  *)
(* is looked for is the one the day's file was given, at the ends of       *)
(* months and years and on leap days (diagnostics.rs:63-66,                *)
(* logging.rs:25-29, 103-128).                                             *)
BundleIsOfToday ==
  /\ bundle = "log" => Dates[day] \in files
  /\ bundle = "empty" => day # first
=============================================================================
