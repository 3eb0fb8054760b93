---------------------------- MODULE TelemetryProofs ----------------------------
(***************************************************************************)
(* Proofs about TelemetryServer and Telemetry, for any requests, scenes    *)
(* and bounds: the server's rows and answers are true to what came, an     *)
(* opt-out stops the reports, the settings tell what the worker does,      *)
(* nothing is awaited under the database's mutex, and if the threads are   *)
(* scheduled it comes free and no slow sender keeps another from it.       *)
(***************************************************************************)
EXTENDS Telemetry, TLAPS

-----------------------------------------------------------------------------
(* The inductive invariant.                                                *)

(* No row, and no parsed row, is of the request r.                         *)
NotStored(r) == \A k \in DOMAIN raw : raw[k] # r
NotParsed(r) == \A p \in parsed : raw[p.raw_id] # r

(* The last row is of the thread that holds the database; a thread that    *)
(* did not get there has left nothing.                                     *)
Storing ==
  \A r \in Requests :
    /\ handler[r] = "parse" => lock = r /\ Len(raw) > 0 /\ raw[Len(raw)] = r
    /\ handler[r] # "done" => answer[r] = 0 /\ NotParsed(r)
    /\ handler[r] \notin {"parse", "done"} => NotStored(r)

(* StatusTells, in these terms.                                            *)
Truthful(r) ==
  /\ answer[r] = 201 => ~NotStored(r) /\ ~NotParsed(r)
  /\ answer[r] = 202 => ~NotStored(r) /\ NotParsed(r)
  /\ answer[r] = 500 => NotParsed(r)
  /\ answer[r] \in {200, 400, 404, 413} => NotStored(r)

AllTruthful == \A r \in Requests : Truthful(r)

StoreInv == ServerTypeOK /\ Storing /\ RowsMatch /\ AllTruthful

(* What a request is about is in STATE until it has been switched.         *)
Steering ==
  /\ ~up => cmd = "none"
  /\ cmd \in {"save on", "enable"} => state.enabled
  /\ cmd \in {"save off", "disable"} => ~state.enabled
  /\ cmd = "save" => "flag" \in apart
  /\ SettingsTell

(* A start from f does not switch telemetry on, or starts afresh.          *)
Off(f) == f = Torn \/ ~f.enabled

(* The report under way, which is past the check of the flag, is the only  *)
(* one that leaves.                                                        *)
OptedOut ==
  /\ stray \in {0, 1}
  /\ cmd = "disable" => Off(file)
  /\ told => /\ ~flag /\ Off(file) /\ cmd \notin {"save on", "save", "enable"}
             /\ worker \in {"read", "post"} => stray = 0

DaemonInv == DaemonTypeOK /\ Steering /\ OptedOut

IInv == StoreInv /\ DaemonInv

-----------------------------------------------------------------------------
(* The server: every step of every thread, while the rest stands still.    *)

LEMMA StatusAs == AllTruthful => StatusTells
<1> SUFFICES ASSUME AllTruthful, NEW r \in Requests
             PROVE  LET kept == \E k \in DOMAIN raw : raw[k] = r
                        rows == {p \in parsed : raw[p.raw_id] = r}
                    IN CASE answer[r] = 201 -> kept /\ rows # {}
                         [] answer[r] = 202 -> kept /\ rows = {}
                         [] answer[r] = 500 -> rows = {}
                         [] answer[r] \in {200, 400, 404, 413} -> ~kept
                         [] OTHER -> TRUE
  BY DEF StatusTells
<1>1. Truthful(r)
  BY DEF AllTruthful
<1>2. NotStored(r) <=> ~(\E k \in DOMAIN raw : raw[k] = r)
  BY DEF NotStored
<1>3. NotParsed(r) <=> {p \in parsed : raw[p.raw_id] = r} = {}
  BY DEF NotParsed
<1> QED
  BY <1>1, <1>2, <1>3 DEF Truthful

LEMMA StoreInit == ServerInit => StoreInv
  BY RequestsAssumption
     DEF ServerInit, StoreInv, ServerTypeOK, Storing, RowsMatch, AllTruthful, Truthful,
         NotStored, NotParsed, Unsent, Http, Kinds

LEMMA StoreStill ==
  ASSUME StoreInv, UNCHANGED serverVars
  PROVE  StoreInv'
  BY DEF StoreInv, serverVars, ServerTypeOK, Storing, RowsMatch, AllTruthful, Truthful,
         NotStored, NotParsed

(* What the threads change but for the rows.                               *)
ThreadTyped ==
  /\ handler \in [Requests -> {"none", "route", "read", "lock", "parse", "done"}]
  /\ answer \in [Requests -> {0, 200, 201, 202, 400, 404, 413, 500}]
  /\ lock \in Requests \cup {NoRequest}

LEMMA ServerTyped ==
  ASSUME ServerTypeOK
  PROVE  /\ handler \in [Requests -> {"none", "route", "read", "lock", "parse", "done"}]
         /\ answer \in [Requests -> {0, 200, 201, 202, 400, 404, 413, 500}]
         /\ raw \in Seq(Requests) /\ Len(raw) \in Nat /\ DOMAIN raw = 1..Len(raw)
  BY DEF ServerTypeOK

HttpSet ==
  [route : {"none", "telemetry", "health", "other"}, size : {"small", "long", "huge", "broken"},
   form : {"V1", "V2", "junk"}, kind : Kinds, id : Nat]

(* What comes from others is a request.                                    *)
LEMMA ForeignTyped == Foreign \subseteq HttpSet
  BY DEF Foreign, HttpSet, Http, Kinds, ForeignId

LEMMA ArriveStore ==
  ASSUME StoreInv, NEW r \in Requests, NEW b \in HttpSet, Arrive(r, b),
         UNCHANGED <<whole, lock, raw, parsed, answer>>
  PROVE  StoreInv'
<1>1. ServerTypeOK'
  BY DEF StoreInv, ServerTypeOK, Arrive, HttpSet
<1>2. Storing'
  BY ServerTyped DEF StoreInv, Storing, Arrive, NotStored, NotParsed
<1>3. RowsMatch'
  <2> SUFFICES ASSUME NEW p \in parsed
               PROVE  http'[raw[p.raw_id]] = http[raw[p.raw_id]]
    BY DEF StoreInv, RowsMatch
  <2>1. raw[p.raw_id] \in Requests /\ raw[p.raw_id] # r
    BY DEF StoreInv, ServerTypeOK, Storing, Arrive, NotParsed
  <2> QED
    BY <2>1 DEF StoreInv, ServerTypeOK, Arrive
<1>4. AllTruthful'
  BY DEF StoreInv, AllTruthful, Truthful, NotStored, NotParsed
<1> QED
  BY <1>1, <1>2, <1>3, <1>4 DEF StoreInv

LEMMA BodyComesStore ==
  ASSUME StoreInv, NEW r \in Requests, BodyComes(r)
  PROVE  StoreInv'
  BY DEF StoreInv, BodyComes, ServerTypeOK, Storing, RowsMatch, AllTruthful, Truthful,
         NotStored, NotParsed

(* A thread that goes on, or ends with an answer that tells what it left,  *)
(* and touches no row.                                                     *)
LEMMA ThreadStore ==
  ASSUME StoreInv, NEW r \in Requests, UNCHANGED <<http, whole, raw, parsed>>,
         \/ \E s \in {"read", "lock"} :
              /\ handler[r] \in {"route", "read"} /\ handler' = [handler EXCEPT ![r] = s]
              /\ UNCHANGED <<lock, answer>>
         \/ \E status \in {200, 202, 400, 404, 413, 500} :
              /\ Respond(r, status)
              /\ status = 202 => ~NotStored(r)
              /\ status \in {200, 400, 404, 413} => NotStored(r)
              /\ handler[r] # "done"
  PROVE  StoreInv'
<1>1. ServerTypeOK'
  <2>1. ThreadTyped'
    <3>1. ASSUME NEW s \in {"read", "lock"}, handler' = [handler EXCEPT ![r] = s],
                 UNCHANGED <<lock, answer>>
          PROVE  ThreadTyped'
      BY <3>1 DEF StoreInv, ServerTypeOK, ThreadTyped
    <3>2. ASSUME NEW status \in {200, 202, 400, 404, 413, 500}, Respond(r, status)
          PROVE  ThreadTyped'
      BY <3>2 DEF StoreInv, ServerTypeOK, Respond, ThreadTyped
    <3> QED
      BY <3>1, <3>2
  <2> QED
    BY <2>1 DEF StoreInv, ServerTypeOK, ThreadTyped
<1>2. Storing'
  <2>1. ASSUME NEW s \in {"read", "lock"}, handler[r] \in {"route", "read"},
               handler' = [handler EXCEPT ![r] = s], UNCHANGED <<lock, answer>>
        PROVE  Storing'
    BY <2>1, ServerTyped DEF StoreInv, Storing, NotStored, NotParsed
  <2>2. ASSUME NEW status \in {200, 202, 400, 404, 413, 500}, Respond(r, status)
        PROVE  Storing'
    BY <2>2, ServerTyped DEF StoreInv, Storing, Respond, NotStored, NotParsed
  <2> QED
    BY <2>1, <2>2
<1>3. RowsMatch'
  BY DEF StoreInv, RowsMatch
<1>4. AllTruthful'
  BY ServerTyped DEF StoreInv, Storing, AllTruthful, Truthful, Respond, NotStored, NotParsed
<1> QED
  BY <1>1, <1>2, <1>3, <1>4 DEF StoreInv

LEMMA RouteStore ==
  ASSUME StoreInv, NEW r \in Requests, Route(r)
  PROVE  StoreInv'
<1>1. NotStored(r) /\ handler[r] # "done"
  BY DEF StoreInv, Storing, Route
<1> QED
  BY <1>1, ThreadStore DEF Route

LEMMA ReadBodyStore ==
  ASSUME StoreInv, NEW r \in Requests, ReadBody(r)
  PROVE  StoreInv'
<1>1. NotStored(r) /\ handler[r] # "done"
  BY DEF StoreInv, Storing, ReadBody
<1> QED
  BY <1>1, ThreadStore DEF ReadBody

LEMMA InsertRawStore ==
  ASSUME StoreInv, NEW r \in Requests, InsertRaw(r)
  PROVE  StoreInv'
<1>1. CASE Respond(r, 500) /\ UNCHANGED <<http, whole, raw, parsed>>
  BY <1>1, ThreadStore DEF InsertRaw
<1>2. CASE /\ raw' = Append(raw, r) /\ handler' = [handler EXCEPT ![r] = "parse"]
           /\ lock' = r /\ UNCHANGED <<http, whole, parsed, answer>>
  <2>1. /\ raw' \in Seq(Requests) /\ Len(raw') = Len(raw) + 1 /\ Len(raw) \in Nat
        /\ raw'[Len(raw')] = r /\ DOMAIN raw' = 1..Len(raw')
        /\ \A k \in DOMAIN raw : k \in DOMAIN raw' /\ raw'[k] = raw[k]
        /\ \A k \in DOMAIN raw' : k \in DOMAIN raw \/ raw'[k] = r
    BY <1>2, ServerTyped DEF StoreInv
  <2>2. \A p \in parsed : p.raw_id \in DOMAIN raw /\ raw'[p.raw_id] = raw[p.raw_id]
    BY <2>1 DEF StoreInv, ServerTypeOK
  <2>3. ServerTypeOK'
    BY <1>2, <2>1 DEF StoreInv, ServerTypeOK
  <2>4. \A s \in Requests : NotParsed(s)' <=> NotParsed(s)
    BY <1>2, <2>2 DEF NotParsed
  <2>5. \A s \in Requests : s # r => (NotStored(s)' <=> NotStored(s))
    BY <2>1 DEF NotStored
  <2>6. \A s \in Requests : handler[s] = "parse" => s = r
    BY RequestsAssumption DEF StoreInv, Storing, InsertRaw
  <2>7. Storing'
    BY <1>2, <2>1, <2>4, <2>5, <2>6, ServerTyped DEF StoreInv, Storing, InsertRaw
  <2>8. RowsMatch'
    BY <1>2, <2>2 DEF StoreInv, RowsMatch
  <2>9. AllTruthful'
    <3>1. answer[r] = 0 /\ answer' = answer
      BY <1>2 DEF StoreInv, Storing, InsertRaw
    <3> QED
      BY <2>4, <2>5, <3>1 DEF StoreInv, AllTruthful, Truthful
  <2> QED
    BY <2>3, <2>7, <2>8, <2>9 DEF StoreInv
<1> QED
  BY <1>1, <1>2 DEF InsertRaw

(* What a body decodes to tells what the body tells.                       *)
LEMMA DecodedTells ==
  ASSUME NEW b \in HttpSet, NEW k \in Nat, NEW p \in Decoded(b, k)
  PROVE  /\ p.kind = b.kind /\ p.id = b.id /\ p.raw_id = k
         /\ p.board = (b.form = "V2" /\ b.kind = "Startup")
<1>1. PICK board \in BOOLEAN : /\ p = Row(b, k, board)
                               /\ board = (b.form = "V2" /\ b.kind = "Startup")
  <2>1. CASE DecodesV2(b)
    <3>1. p = Row(b, k, b.kind = "Startup")
      BY <2>1 DEF Decoded
    <3>2. (b.kind = "Startup") = (b.form = "V2" /\ b.kind = "Startup")
      BY Zenon, <2>1 DEF DecodesV2
    <3> QED
      BY Zenon, <3>1, <3>2
  <2>2. CASE ~DecodesV2(b)
    <3>1. p = Row(b, k, FALSE) /\ DecodesV1(b)
      BY <2>2 DEF Decoded
    <3>2. ~(b.form = "V2" /\ b.kind = "Startup")
      BY <2>2, <3>1 DEF DecodesV1, DecodesV2
    <3>3. FALSE = (b.form = "V2" /\ b.kind = "Startup")
      BY Zenon, <3>2
    <3> QED
      BY Zenon, <3>1, <3>3
  <2> QED
    BY Zenon, <2>1, <2>2
<1>2. /\ Row(b, k, board).kind = b.kind /\ Row(b, k, board).id = b.id
      /\ Row(b, k, board).raw_id = k /\ Row(b, k, board).board = board
  BY DEF Row
<1> QED
  BY Zenon, <1>1, <1>2

LEMMA InsertParsedStore ==
  ASSUME StoreInv, NEW r \in Requests, InsertParsed(r)
  PROVE  StoreInv'
<1> DEFINE rows == Decoded(http[r], Len(raw))
<1>1. /\ handler[r] = "parse" /\ Len(raw) \in Nat /\ Len(raw) \in DOMAIN raw /\ raw[Len(raw)] = r
      /\ ~NotStored(r) /\ NotParsed(r) /\ http[r] \in HttpSet
  BY ServerTyped DEF StoreInv, ServerTypeOK, Storing, InsertParsed, NotStored, HttpSet
<1>2. CASE UNCHANGED parsed
  <2>1. Respond(r, 202) \/ Respond(r, 500)
    <3>1. rows # {} /\ parsed' = parsed \cup rows => FALSE
      <4> SUFFICES ASSUME NEW p \in rows, p \in parsed
                   PROVE  FALSE
        BY <1>2
      <4>1. p.raw_id = Len(raw)
        BY <1>1, DecodedTells
      <4> QED
        BY <1>1, <4>1 DEF NotParsed
    <3> QED
      BY <3>1 DEF InsertParsed
  <2> QED
    BY <1>1, <1>2, <2>1, ThreadStore DEF InsertParsed
<1>3. CASE rows # {} /\ Respond(r, 201) /\ parsed' = parsed \cup rows
  <2> HIDE DEF rows
  <2>1. \A p \in rows : /\ p.kind = http[r].kind /\ p.id = http[r].id /\ p.raw_id = Len(raw)
                        /\ p.board = (http[r].form = "V2" /\ http[r].kind = "Startup")
    BY <1>1, DecodedTells DEF rows
  <2>2. http' = http /\ whole' = whole /\ raw' = raw
    BY DEF InsertParsed
  <2>3. ServerTypeOK'
    <3>1. \A p \in rows : p.kind \in Kinds /\ p.id \in Nat /\ p.raw_id \in DOMAIN raw
      BY <1>1, <2>1 DEF HttpSet
    <3> QED
      BY <1>3, <2>2, <3>1 DEF StoreInv, ServerTypeOK, Respond
  <2>4. \A s \in Requests : s # r => (NotParsed(s)' <=> NotParsed(s))
    BY <1>1, <1>3, <2>1, <2>2 DEF NotParsed
  <2>5. ~NotParsed(r)'
    BY <1>1, <1>3, <2>1, <2>2 DEF NotParsed
  <2>6. \A s \in Requests : NotStored(s)' <=> NotStored(s)
    BY <2>2 DEF NotStored
  <2>7. handler' = [handler EXCEPT ![r] = "done"] /\ answer' = [answer EXCEPT ![r] = 201]
    BY <1>3 DEF Respond
  <2>8. Storing'
    <3>1. \A s \in Requests : s # r /\ lock = s => lock' = s
      BY <1>3 DEF Respond
    <3> QED
      BY <2>2, <2>4, <2>6, <2>7, <3>1, ServerTyped DEF StoreInv, Storing
  <2>9. RowsMatch'
    BY <1>1, <1>3, <2>1, <2>2 DEF StoreInv, RowsMatch
  <2>10. AllTruthful'
    BY <1>1, <2>4, <2>5, <2>6, <2>7, ServerTyped DEF StoreInv, AllTruthful, Truthful
  <2> QED
    BY <2>3, <2>8, <2>9, <2>10 DEF StoreInv
<1> QED
  BY <1>2, <1>3 DEF InsertParsed

LEMMA ServerRestartsStore ==
  ASSUME StoreInv, ServerRestarts
  PROVE  StoreInv'
<1>1. ServerTypeOK'
  BY DEF StoreInv, ServerTypeOK, ServerRestarts
<1>2. Storing'
  BY ServerTyped DEF StoreInv, Storing, ServerRestarts, NotStored, NotParsed
<1>3. RowsMatch'
  BY DEF StoreInv, RowsMatch, ServerRestarts
<1>4. AllTruthful'
  BY DEF StoreInv, AllTruthful, Truthful, ServerRestarts, NotStored, NotParsed
<1> QED
  BY <1>1, <1>2, <1>3, <1>4 DEF StoreInv

-----------------------------------------------------------------------------
(* The daemon: its types, what steers the worker, and the opt-out.         *)

LEMMA DaemonInit == Init => DaemonInv
<1> SUFFICES ASSUME Init
             PROVE  DaemonInv
  OBVIOUS
<1>1. DaemonTypeOK
  <2>1. n \in [{"starts", "commands", "ids", "reports"} -> Nat]
    BY DEF Init
  <2>2. {state, file} \subseteq [enabled : BOOLEAN, id : Nat]
    BY DEF Init, Torn
  <2>3. up \in BOOLEAN /\ flag \in BOOLEAN /\ told \in BOOLEAN
    BY Zenon DEF Init
  <2>4. /\ clientId \in Nat /\ chan \in Seq(Kinds) /\ worker = "none" /\ report = "none"
        /\ cmd = "none" /\ stray \in Nat /\ apart \subseteq {"id", "flag"}
    BY DEF Init
  <2> QED
    BY ONLY <2>1, <2>2, <2>3, <2>4 DEF DaemonTypeOK
<1>2. Steering
  BY Zenon DEF Init, Steering, SettingsTell
<1>3. OptedOut
  BY DEF Init, OptedOut
<1> QED
  BY <1>1, <1>2, <1>3 DEF DaemonInv

LEMMA DaemonStill ==
  ASSUME DaemonInv, UNCHANGED <<daemonVars, history>>
  PROVE  DaemonInv'
<1>1. UNCHANGED <<up, state, file, flag, clientId, chan, worker, report, cmd, n, told, stray, apart>>
  BY Zenon DEF daemonVars, history
<1>2. DaemonTypeOK'
  BY Zenon, <1>1 DEF DaemonInv, DaemonTypeOK
<1>3. Steering'
  BY Zenon, <1>1 DEF DaemonInv, Steering, SettingsTell
<1>4. OptedOut'
  BY Zenon, <1>1 DEF DaemonInv, OptedOut, Off
<1> QED
  BY Zenon, <1>2, <1>3, <1>4 DEF DaemonInv

Settings == [enabled : BOOLEAN, id : Nat]
Workers  == {"none", "wait", "read", "post", "sent"}
Cmds     == {"none", "save on", "save off", "save", "enable", "disable"}
Counters == {"starts", "commands", "ids", "reports"}

(* The types one by one.                                                   *)
LEMMA Typed ==
  ASSUME DaemonTypeOK
  PROVE  /\ up \in BOOLEAN /\ flag \in BOOLEAN /\ clientId \in Nat
         /\ state \in Settings /\ file \in Settings
         /\ chan \in Seq(Kinds) /\ worker \in Workers
         /\ report \in Kinds \cup {"none"} /\ (worker = "post" => report # "none")
         /\ cmd \in Cmds /\ n \in [Counters -> Nat] /\ n.ids \in Nat /\ n.ids + 1 \in Nat
         /\ told \in BOOLEAN /\ stray \in Nat /\ apart \subseteq {"id", "flag"}
<1>1. n \in [Counters -> Nat]
  BY Zenon DEF DaemonTypeOK, Counters
<1>2. n.ids \in Nat /\ n.ids + 1 \in Nat
  BY ONLY <1>1 DEF Counters
<1> QED
  BY Zenon, <1>1, <1>2 DEF DaemonTypeOK, Settings, Workers, Cmds

LEMMA DefaultTyped ==
  ASSUME DaemonTypeOK
  PROVE  Torn \in Settings /\ Default \in Settings
<1>1. n.ids + 1 \in Nat
  BY Typed
<1> QED
  BY ONLY <1>1 DEF Torn, Default, Settings

(* And put together again.                                                 *)
LEMMA TypedThen ==
  ASSUME up' \in BOOLEAN, flag' \in BOOLEAN, clientId' \in Nat,
         state' \in Settings, file' \in Settings, chan' \in Seq(Kinds), worker' \in Workers,
         report' \in Kinds \cup {"none"}, worker' = "post" => report' # "none",
         cmd' \in Cmds, n' \in [Counters -> Nat],
         told' \in BOOLEAN, stray' \in Nat, apart' \subseteq {"id", "flag"}
  PROVE  DaemonTypeOK'
  BY DEF DaemonTypeOK, Settings, Workers, Cmds, Counters

(* What the counters become.                                               *)
One(c, x)       == [n EXCEPT ![c] = x]
Two(c, x, d, y) == [n EXCEPT ![c] = x, ![d] = y]

LEMMA CountedOne ==
  ASSUME n \in [Counters -> Nat], NEW c \in Counters
  PROVE  One(c, n[c] + 1) \in [Counters -> Nat]
<1>1. n[c] + 1 \in Nat
  OBVIOUS
<1> QED
  BY <1>1 DEF One

LEMMA CountedTwo ==
  ASSUME n \in [Counters -> Nat], NEW c \in Counters, NEW d \in Counters
  PROVE  /\ Two(c, n[c] + 1, d, n[d]) \in [Counters -> Nat]
         /\ Two(c, n[c] + 1, d, n[d] + 1) \in [Counters -> Nat]
<1>1. n[c] + 1 \in Nat /\ n[d] \in Nat /\ n[d] + 1 \in Nat
  OBVIOUS
<1> QED
  BY <1>1 DEF Two

LEMMA CountersNext ==
  ASSUME DaemonTypeOK, Daemon
  PROVE  n' \in [Counters -> Nat]
<1>0. n \in [Counters -> Nat]
  BY Zenon, Typed
<1>a. {"starts", "commands", "ids", "reports"} \subseteq Counters
  BY DEF Counters
<1>1. CASE Start
  <2>1. \/ n' = Two("starts", n.starts + 1, "ids", n.ids + 1)
        \/ n' = Two("starts", n.starts + 1, "ids", n.ids)
    <3> DEFINE s == IF file = Torn THEN Default ELSE file
    <3>1. CASE s = Default
      BY ONLY <1>1, <3>1 DEF Start, Two
    <3>2. CASE s # Default
      BY ONLY <1>1, <3>2 DEF Start, Two
    <3> QED
      BY ONLY <3>1, <3>2
  <2>2. /\ Two("starts", n.starts + 1, "ids", n.ids) \in [Counters -> Nat]
        /\ Two("starts", n.starts + 1, "ids", n.ids + 1) \in [Counters -> Nat]
    BY Zenon, <1>0, <1>a, CountedTwo
  <2> QED
    BY ONLY <2>1, <2>2
<1>2. CASE \E on \in BOOLEAN : ActivateTelemetry(on)
  <2>1. n' = One("commands", n.commands + 1)
    BY ONLY <1>2 DEF ActivateTelemetry, One
  <2> QED
    BY Zenon, <2>1, <1>0, <1>a, CountedOne
<1>3. CASE RestoreDefaults
  <2>1. n' = Two("commands", n.commands + 1, "ids", n.ids + 1)
    BY ONLY <1>3 DEF RestoreDefaults, Two
  <2> QED
    BY Zenon, <2>1, <1>0, <1>a, CountedTwo
<1>4. CASE Panics
  <2>1. n' = One("commands", n.commands + 1)
    BY ONLY <1>4 DEF Panics, One
  <2> QED
    BY Zenon, <2>1, <1>0, <1>a, CountedOne
<1>5. CASE Message \/ ReadSensors
  <2>1. n' = n \/ n' = One("reports", n.reports + 1)
    BY ONLY <1>5 DEF Message, ReadSensors, TakeUp, One
  <2> QED
    BY Zenon, <2>1, <1>0, <1>a, CountedOne
<1>6. CASE Stop \/ Save \/ Switch \/ Timeout \/ Posted
  BY Zenon, <1>0, <1>6 DEF Stop, Save, Switch, Timeout, Posted
<1> QED
  BY Zenon, <1>1, <1>2, <1>3, <1>4, <1>5, <1>6 DEF Daemon

(* A start goes by the settings it reads.                                  *)
LEMMA StartDaemon ==
  ASSUME DaemonInv, Start
  PROVE  DaemonInv'
<1>0. DaemonTypeOK /\ Steering /\ OptedOut
  BY DEF DaemonInv
<1>1. PICK s \in Settings :
        /\ up' = TRUE /\ worker' = "wait" /\ state' = s /\ flag' = s.enabled /\ clientId' = s.id
        /\ chan' = IF s.enabled THEN <<"Startup">> ELSE <<>>
        /\ (file # Torn => s = file)
  <2> DEFINE s == IF file = Torn THEN Default ELSE file
  <2>1. s \in Settings
    BY Zenon, <1>0, Typed, DefaultTyped
  <2> QED
    BY Zenon, <2>1 DEF Start, ClientIdAt
<1>2. /\ told' = (told /\ file # Torn) /\ apart' = {}
      /\ UNCHANGED <<file, report, cmd, stray>> /\ cmd = "none"
  BY Zenon, <1>0 DEF Start, Steering
<1>3. n' \in [Counters -> Nat]
  BY Zenon, <1>0, CountersNext DEF Daemon
<1>4. DaemonTypeOK'
  <2>1. chan' \in Seq(Kinds)
    BY ONLY <1>1 DEF Kinds
  <2>2. s.enabled \in BOOLEAN /\ s.id \in Nat
    BY ONLY <1>1 DEF Settings
  <2>3. /\ up' \in BOOLEAN /\ told' \in BOOLEAN /\ apart' \subseteq {"id", "flag"}
        /\ worker' # "post" /\ worker' \in Workers
    BY ONLY <1>1, <1>2 DEF Workers
  <2> QED
    BY Zenon, <1>0, <1>1, <1>2, <1>3, <2>1, <2>2, <2>3, TypedThen, Typed
<1>5. Steering'
  BY Zenon, <1>1, <1>2 DEF Steering, SettingsTell
<1>6. OptedOut'
  <2>1. told' => told /\ ~s.enabled
    BY Zenon, <1>0, <1>1, <1>2 DEF OptedOut, Off
  <2> QED
    BY <1>0, <1>1, <1>2, <2>1 DEF OptedOut, Off
<1> QED
  BY Zenon, <1>4, <1>5, <1>6 DEF DaemonInv

LEMMA StopDaemon ==
  ASSUME DaemonInv, Stop
  PROVE  DaemonInv'
<1>0. DaemonTypeOK /\ Steering /\ OptedOut
  BY DEF DaemonInv
<1>1. /\ up' = FALSE /\ worker' = "none" /\ chan' = <<>> /\ report' = "none" /\ cmd' = "none"
      /\ file' \in {file, Torn}
      /\ UNCHANGED <<state, flag, clientId, told, stray, apart>>
  BY DEF Stop, history
<1>2. n' \in [Counters -> Nat]
  BY Zenon, <1>0, CountersNext DEF Daemon
<1>3. DaemonTypeOK'
  <2>1. chan' \in Seq(Kinds)
    BY <1>1
  <2>2. file' \in Settings
    BY Zenon, <1>0, <1>1, Typed, DefaultTyped
  <2>3. /\ worker' \in Workers /\ report' \in Kinds \cup {"none"} /\ cmd' \in Cmds
        /\ worker' # "post" /\ up' \in BOOLEAN
    BY ONLY <1>1 DEF Workers, Cmds
  <2> QED
    BY Zenon, <1>0, <1>1, <1>2, <2>1, <2>2, <2>3, TypedThen, Typed
<1>4. Steering'
  BY Zenon, <1>1 DEF Steering, SettingsTell
<1>5. OptedOut'
  BY <1>0, <1>1 DEF OptedOut, Off
<1> QED
  BY Zenon, <1>3, <1>4, <1>5 DEF DaemonInv

(* A request writes STATE, and cmd says what it is about.                  *)
LEMMA CommandDaemon ==
  ASSUME DaemonInv, (\E on \in BOOLEAN : ActivateTelemetry(on)) \/ RestoreDefaults
  PROVE  DaemonInv'
<1>0. DaemonTypeOK /\ Steering /\ OptedOut
  BY DEF DaemonInv
<1>1. n' \in [Counters -> Nat]
  BY Zenon, <1>0, CountersNext DEF Daemon
<1>2. ASSUME NEW on \in BOOLEAN, ActivateTelemetry(on)
      PROVE  DaemonInv'
  <2>1. state' \in Settings /\ state'.enabled = on /\ state'.id = state.id
    <3>1. state \in Settings /\ state' = [state EXCEPT !.enabled = on]
      BY Zenon, <1>0, <1>2, Typed DEF ActivateTelemetry
    <3> QED
      BY ONLY <3>1 DEF Settings
  <2>2. /\ cmd' = IF on THEN "save on" ELSE "save off"
        /\ told' = (told /\ ~on) /\ up /\ cmd = "none"
        /\ UNCHANGED <<up, file, flag, clientId, chan, worker, report, stray, apart>>
    BY Zenon, <1>2 DEF ActivateTelemetry, Command
  <2>3. (on /\ cmd' = "save on") \/ (~on /\ cmd' = "save off")
    BY Zenon, <2>2
  <2>4. cmd' \in Cmds /\ cmd' \notin {"none", "save", "enable", "disable"}
    BY ONLY <2>3 DEF Cmds
  <2>5. DaemonTypeOK'
    <3>1. told' \in BOOLEAN
      BY ONLY <2>2
    <3> QED
      BY Zenon, <1>0, <1>1, <2>1, <2>2, <2>4, <3>1, TypedThen, Typed
  <2>6. Steering'
    <3>1. /\ cmd' \in {"save on", "enable"} => on
          /\ cmd' \in {"save off", "disable"} => ~on
      BY ONLY <2>3
    <3> QED
      BY Zenon, <1>0, <2>1, <2>2, <2>4, <3>1 DEF Steering, SettingsTell
  <2>7. OptedOut'
    <3>1. told' => told /\ cmd' = "save off"
      BY Zenon, <2>2, <2>3
    <3> QED
      BY ONLY <1>0, <2>2, <2>4, <3>1 DEF OptedOut, Off
  <2> QED
    BY Zenon, <2>5, <2>6, <2>7 DEF DaemonInv
<1>3. CASE RestoreDefaults
  <2>1. /\ state' = Default /\ cmd' = "save" /\ told' = FALSE /\ apart' = {"id", "flag"} /\ up
        /\ UNCHANGED <<up, file, flag, clientId, chan, worker, report, stray>>
    BY Zenon, <1>3 DEF RestoreDefaults, Command
  <2>2. DaemonTypeOK'
    <3>1. cmd' \in Cmds /\ told' \in BOOLEAN /\ apart' \subseteq {"id", "flag"}
      BY <2>1 DEF Cmds
    <3>2. state' \in Settings
      BY Zenon, <1>0, <2>1, DefaultTyped
    <3> QED
      BY Zenon, <1>0, <1>1, <2>1, <3>1, <3>2, TypedThen, Typed
  <2>3. Steering'
    BY ONLY <2>1 DEF Steering, SettingsTell
  <2>4. OptedOut'
    BY ONLY <1>0, <2>1 DEF OptedOut
  <2> QED
    BY Zenon, <2>2, <2>3, <2>4 DEF DaemonInv
<1> QED
  BY Zenon, <1>2, <1>3

LEMMA SaveDaemon ==
  ASSUME DaemonInv, Save
  PROVE  DaemonInv'
<1>0. DaemonTypeOK /\ Steering /\ OptedOut
  BY DEF DaemonInv
<1>1. n' \in [Counters -> Nat]
  BY Zenon, <1>0, CountersNext DEF Daemon
<1>2. UNCHANGED <<up, state, flag, clientId, chan, worker, report, told, stray>>
  BY Zenon DEF Save
<1>3. \/ /\ file' \in {state, Torn} /\ apart' = apart
         /\ \/ cmd = "save on" /\ cmd' = "enable"
            \/ cmd = "save off" /\ cmd' = "disable"
            \/ cmd = "save" /\ cmd' = "none"
      \/ file' = file /\ apart' = apart \cup {"flag"} /\ cmd' = "none"
  BY DEF Save
<1>4. DaemonTypeOK'
  <2>1. cmd' \in Cmds
    BY ONLY <1>3 DEF Cmds
  <2>2. file' \in Settings
    BY Zenon, <1>0, <1>3, Typed, DefaultTyped
  <2>3. apart' \subseteq {"id", "flag"}
    BY Zenon, <1>0, <1>3, Typed
  <2> QED
    BY Zenon, <1>0, <1>1, <1>2, <2>1, <2>2, <2>3, TypedThen, Typed
<1>5. Steering'
  BY ONLY <1>0, <1>2, <1>3 DEF Steering, SettingsTell
<1>6. OptedOut'
  BY ONLY <1>0, <1>2, <1>3 DEF Steering, OptedOut, Off
<1> QED
  BY Zenon, <1>4, <1>5, <1>6 DEF DaemonInv

LEMMA SwitchDaemon ==
  ASSUME DaemonInv, Switch
  PROVE  DaemonInv'
<1>0. DaemonTypeOK /\ Steering /\ OptedOut
  BY DEF DaemonInv
<1>1. n' \in [Counters -> Nat]
  BY Zenon, <1>0, CountersNext DEF Daemon
<1>2. /\ UNCHANGED <<up, state, file, clientId, chan, worker, report>>
      /\ stray' = IF told THEN stray ELSE 0
      /\ cmd' = "none" /\ apart' = apart \ {"flag"}
  BY Zenon DEF Switch
<1>3. \/ cmd = "enable" /\ flag' = TRUE /\ told' = FALSE
      \/ cmd = "disable" /\ flag' = FALSE /\ told' = TRUE
  BY DEF Switch
<1>4. stray' \in {0, 1} /\ (told => stray' = stray) /\ (~told => stray' = 0)
  <2>1. stray \in {0, 1}
    BY Zenon, <1>0 DEF OptedOut
  <2>2. CASE told
    BY Zenon, <1>2, <2>1, <2>2
  <2>3. CASE ~told
    BY Zenon, <1>2, <2>3
  <2> QED
    BY Zenon, <2>2, <2>3
<1>5. DaemonTypeOK'
  <2>1. cmd' \in Cmds /\ apart' \subseteq apart /\ stray' \in Nat
    BY ONLY <1>2, <1>4 DEF Cmds
  <2>2. apart' \subseteq {"id", "flag"}
    BY Zenon, <1>0, <2>1, Typed
  <2>3. flag' \in BOOLEAN /\ told' \in BOOLEAN
    BY ONLY <1>3
  <2> QED
    BY Zenon, <1>0, <1>1, <1>2, <2>1, <2>2, <2>3, TypedThen, Typed
<1>6. Steering'
  <2>1. flag' = state'.enabled
    <3>1. state.enabled \in BOOLEAN
      BY <1>0 DEF DaemonTypeOK
    <3>2. CASE cmd = "enable"
      BY ONLY <1>0, <1>2, <1>3, <3>1, <3>2 DEF Steering
    <3>3. CASE cmd = "disable"
      BY ONLY <1>0, <1>2, <1>3, <3>1, <3>3 DEF Steering
    <3> QED
      BY Zenon, <1>3, <3>2, <3>3
  <2> QED
    BY Zenon, <1>0, <1>2, <2>1 DEF Steering, SettingsTell
<1>7. OptedOut'
  <2>1. CASE cmd = "enable"
    BY ONLY <1>2, <1>3, <1>4, <2>1 DEF OptedOut
  <2>2. CASE cmd = "disable"
    BY ONLY <1>0, <1>2, <1>3, <1>4, <2>2 DEF OptedOut, Off
  <2> QED
    BY Zenon, <1>3, <2>1, <2>2
<1> QED
  BY Zenon, <1>5, <1>6, <1>7 DEF DaemonInv

(* The panic hook and the worker leave STATE, the flag and cmd as they are.*)
LEMMA WorkerDaemon ==
  ASSUME DaemonInv, Panics \/ Message \/ Timeout \/ ReadSensors \/ Posted
  PROVE  DaemonInv'
<1>0. DaemonTypeOK /\ Steering /\ OptedOut
  BY DEF DaemonInv
<1>1. UNCHANGED <<up, state, file, flag, clientId, cmd, told, stray, apart>>
  BY DEF Panics, Message, Timeout, ReadSensors, Posted, history
<1>2. n' \in [Counters -> Nat]
  BY Zenon, <1>0, CountersNext DEF Daemon
<1>3. DaemonTypeOK'
  <2>0. chan \in Seq(Kinds)
    BY Zenon, <1>0, Typed
  <2>1. chan' \in Seq(Kinds)
    <3>1. chan' = chan \/ chan' = Append(chan, "Panic") \/ (chan # <<>> /\ chan' = Tail(chan))
      BY ONLY Panics \/ Message \/ Timeout \/ ReadSensors \/ Posted
         DEF Panics, Message, Timeout, ReadSensors, Posted
    <3> QED
      <4>1. Append(chan, "Panic") \in Seq(Kinds)
        BY ONLY <2>0 DEF Kinds
      <4>2. chan # <<>> => Tail(chan) \in Seq(Kinds)
        BY ONLY <2>0
      <4> QED
        BY Zenon, <2>0, <3>1, <4>1, <4>2
  <2>2. /\ worker' \in Workers /\ report' \in Kinds \cup {"none"}
        /\ worker' = "post" => report' # "none"
    <3>1. \/ worker' = worker /\ report' = report
          \/ worker' = "post" /\ report' \in Kinds
          \/ worker' \in {"wait", "read"} /\ report' \in {report, "none"}
      <4>1. chan # <<>> => Head(chan) \in Kinds
        BY ONLY <2>0
      <4> QED
        BY ONLY <4>1, Panics \/ Message \/ Timeout \/ ReadSensors \/ Posted
           DEF Panics, Message, Timeout, ReadSensors, Posted, TakeUp, Kinds
    <3>2. "none" \notin Kinds
      BY DEF Kinds
    <3>3. /\ worker \in Workers /\ report \in Kinds \cup {"none"}
          /\ worker = "post" => report # "none"
      BY Zenon, <1>0, Typed
    <3> QED
      BY ONLY <3>1, <3>2, <3>3 DEF Workers
  <2> QED
    BY Zenon, <1>0, <1>1, <1>2, <2>1, <2>2, TypedThen, Typed
<1>4. Steering'
  BY Zenon, <1>0, <1>1 DEF Steering, SettingsTell
<1>5. OptedOut'
  <2>1. flag \/ (worker' \in {"read", "post"} => worker \in {"read", "post"})
    BY ONLY Panics \/ Message \/ Timeout \/ ReadSensors \/ Posted
       DEF Panics, Message, Timeout, ReadSensors, Posted, TakeUp
  <2> QED
    BY Zenon, <1>0, <1>1, <2>1 DEF OptedOut, Off
<1> QED
  BY Zenon, <1>3, <1>4, <1>5 DEF DaemonInv

(* The report that leaves after the opt-out is the one under way.          *)
LEMMA PostDaemon ==
  ASSUME DaemonInv, NEW r \in Requests, Post(r)
  PROVE  DaemonInv'
<1>0. DaemonTypeOK /\ Steering /\ OptedOut
  BY DEF DaemonInv
<1>1. /\ worker = "post" /\ worker' = "sent" /\ stray' = IF told THEN stray + 1 ELSE stray
      /\ UNCHANGED <<up, state, file, flag, clientId, chan, report, cmd, n, told, apart>>
  BY Zenon DEF Post
<1>2. stray' \in {0, 1}
  <2>1. stray \in {0, 1} /\ (told => stray = 0)
    BY <1>0, <1>1 DEF OptedOut
  <2>2. CASE told
    <3>1. stray' = stray + 1 /\ stray = 0
      BY Zenon, <1>1, <2>1, <2>2
    <3> QED
      BY ONLY <3>1
  <2>3. CASE ~told
    BY Zenon, <1>1, <2>1, <2>3
  <2> QED
    BY Zenon, <2>2, <2>3
<1>3. worker' \in Workers /\ worker' # "post" /\ worker' \notin {"read", "post"} /\ stray' \in Nat
  BY ONLY <1>1, <1>2 DEF Workers
<1>4. DaemonTypeOK'
  BY Zenon, <1>0, <1>1, <1>3, TypedThen, Typed
<1>5. Steering'
  BY Zenon, <1>0, <1>1 DEF Steering, SettingsTell
<1>6. OptedOut'
  BY Zenon, <1>0, <1>1, <1>2, <1>3 DEF OptedOut, Off
<1> QED
  BY Zenon, <1>4, <1>5, <1>6 DEF DaemonInv

-----------------------------------------------------------------------------
(* The two together.                                                       *)

LEMMA IInvInit == Init => IInv
  BY StoreInit, DaemonInit DEF Init, IInv, DaemonInv

LEMMA IInvNext == IInv /\ [Next]_vars => IInv'
<1> SUFFICES ASSUME IInv, [Next]_vars
             PROVE  IInv'
  OBVIOUS
<1>0. StoreInv /\ DaemonInv
  BY DEF IInv, DaemonInv
<1>1. CASE Daemon
  <2>1. UNCHANGED serverVars
    BY <1>1 DEF Daemon, Start, Stop, ActivateTelemetry, RestoreDefaults, Save, Switch, Panics,
                Message, Timeout, ReadSensors, Posted
  <2>2. DaemonInv'
    BY <1>0, <1>1, StartDaemon, StopDaemon, CommandDaemon, SaveDaemon, SwitchDaemon, WorkerDaemon
       DEF Daemon
  <2> QED
    BY <1>0, <2>1, <2>2, StoreStill DEF IInv, DaemonInv
<1>2. ASSUME NEW r \in Requests, Post(r)
      PROVE  IInv'
  <2>1. Http("telemetry", "small", "V2", report, clientId) \in HttpSet
    BY <1>0, <1>2 DEF DaemonInv, DaemonTypeOK, Post, Http, HttpSet, Kinds
  <2>2. StoreInv'
    BY <1>0, <1>2, <2>1, ArriveStore DEF Post
  <2> QED
    BY <1>0, <1>2, <2>2, PostDaemon DEF IInv, DaemonInv
<1>3. ASSUME NEW r \in Requests, OthersSend(r)
      PROVE  IInv'
  <2>1. StoreInv'
    BY <1>0, <1>3, ForeignTyped, ArriveStore DEF OthersSend
  <2>2. DaemonInv'
    BY <1>0, <1>3, DaemonStill DEF OthersSend
  <2> QED
    BY <2>1, <2>2 DEF IInv, DaemonInv
<1>4. ASSUME NEW r \in Requests, Server(r)
      PROVE  IInv'
  <2>1. StoreInv'
    BY <1>0, <1>4, RouteStore, ReadBodyStore, InsertRawStore, InsertParsedStore, BodyComesStore
       DEF Server, Handle
  <2>2. DaemonInv'
    BY <1>0, <1>4, DaemonStill DEF Server
  <2> QED
    BY <2>1, <2>2 DEF IInv, DaemonInv
<1>5. CASE ServerRestarts /\ UNCHANGED <<daemonVars, history>>
  BY <1>0, <1>5, ServerRestartsStore, DaemonStill DEF IInv, DaemonInv
<1>6. CASE UNCHANGED vars
  BY <1>0, <1>6, StoreStill, DaemonStill DEF vars, IInv, DaemonInv
<1> QED
  BY <1>1, <1>2, <1>3, <1>4, <1>5, <1>6 DEF Next

LEMMA IInvHolds == Spec => []IInv
  BY IInvInit, IInvNext, PTL DEF Spec

(* Every variable keeps its type (Telemetry!TypeOK).                       *)
THEOREM TypeCorrect == Spec => []TypeOK
<1>1. IInv => TypeOK
  BY DEF IInv, DaemonInv, StoreInv, TypeOK
<1> QED
  BY <1>1, IInvHolds, PTL

(* The parsed rows are true to what came, and the senders are told what    *)
(* became of their reports, whichever threads run at a time and whenever   *)
(* the server is restarted (TelemetryServer!StoreIsSound).                 *)
THEOREM TheStoreIsSound == Spec => []StoreIsSound
<1>1. IInv => StoreIsSound
  BY StatusAs DEF IInv, StoreInv, StoreIsSound
<1> QED
  BY <1>1, IInvHolds, PTL

(* At most one report leaves once telemetry is off                         *)
(* (Telemetry!OptOutStops).                                                *)
THEOREM ReportsStop == Spec => []OptOutStops
<1>1. IInv => OptOutStops
  <2>1. stray \in {0, 1} => stray <= 1
    OBVIOUS
  <2> QED
    BY Zenon, <2>1 DEF IInv, DaemonInv, OptedOut, OptOutStops
<1> QED
  BY <1>1, IInvHolds, PTL

(* The settings tell what the worker does, but for a reset and a save that *)
(* failed (Telemetry!SettingsTell).                                        *)
THEOREM TheSettingsTell == Spec => []SettingsTell
<1>1. IInv => SettingsTell
  BY DEF IInv, DaemonInv, Steering
<1> QED
  BY <1>1, IInvHolds, PTL

-----------------------------------------------------------------------------
(* The database's mutex.                                                   *)

(* A thread that asks for the database has all of its request, and the one *)
(* that holds it is at the second of the two inserts.                      *)
Under ==
  /\ lock # NoRequest => handler[lock] = "parse"
  /\ \A r \in Requests : handler[r] \in {"lock", "parse"} => r \in whole
  /\ \A r \in whole : handler[r] # "none"

(* Where the thread of r goes.                                             *)
MovesOn(r) ==
  /\ handler[r] = "route" => handler'[r] \in {"route", "read", "done"}
  /\ handler[r] = "read" => handler'[r] \in {"read", "lock", "done"}
  /\ handler[r] = "lock" => handler'[r] \in {"lock", "parse", "done"}
  /\ handler[r] = "parse" => handler'[r] \in {"parse", "done"}
  /\ handler[r] = "done" => handler'[r] = "done"
  /\ handler[r] = "read" /\ handler'[r] = "lock" => r \in whole

Handled(r) == Handle(r) /\ UNCHANGED <<daemonVars, history>>

(* The database goes from one thread to another only by way of nobody.     *)
StaysOrFree == lock # NoRequest => lock' \in {lock, NoRequest}

(* A step of one thread.                                                   *)
LEMMA ThreadMoves ==
  ASSUME ServerTypeOK, Storing, Under, NEW r \in Requests, Handle(r)
  PROVE  /\ whole' = whole
         /\ \A q \in Requests \ {r} : handler'[q] = handler[q]
         /\ MovesOn(r) /\ handler'[r] # handler[r]
         /\ lock' = lock \/ lock' \in {r, NoRequest}
         /\ StaysOrFree
         /\ lock' = r <=> handler'[r] = "parse"
         /\ lock = r <=> handler[r] = "parse"
<1> USE RequestsAssumption DEF ServerTypeOK
<1>0. lock = r <=> handler[r] = "parse"
  BY DEF Storing, Under
<1>1. CASE Route(r) \/ ReadBody(r)
  BY <1>0, <1>1 DEF Route, ReadBody, Respond, MovesOn, StaysOrFree
<1>2. CASE InsertRaw(r)
  BY <1>0, <1>2 DEF InsertRaw, Respond, MovesOn, StaysOrFree
<1>3. CASE InsertParsed(r)
  <2>1. handler[r] = "parse" /\ UNCHANGED whole /\ \E status : Respond(r, status)
    BY <1>3 DEF InsertParsed
  <2> QED BY <1>0, <2>1 DEF Respond, MovesOn, StaysOrFree
<1> QED BY <1>1, <1>2, <1>3 DEF Handle

LEMMA UnderNext ==
  ASSUME StoreInv, Under, [Next]_vars
  PROVE  /\ Under' /\ StaysOrFree
         /\ whole \subseteq whole'
         /\ \A r \in Requests : MovesOn(r)
<1> USE RequestsAssumption DEF StoreInv
<1>1. CASE Daemon \/ UNCHANGED vars
  <2>1. UNCHANGED serverVars
    BY <1>1 DEF vars, Daemon, Start, Stop, ActivateTelemetry, RestoreDefaults, Save, Switch, Panics,
                Message, Timeout, ReadSensors, Posted
  <2> QED BY <2>1 DEF serverVars, Under, MovesOn, StaysOrFree
<1>2. ASSUME NEW r \in Requests, Post(r) \/ OthersSend(r)
      PROVE  /\ UNCHANGED <<whole, lock>> /\ handler[r] = "none" /\ r \notin whole
             /\ handler' = [handler EXCEPT ![r] = "route"]
  BY <1>2 DEF Post, OthersSend, Arrive, Under
<1>3. ASSUME NEW r \in Requests, Post(r) \/ OthersSend(r)
      PROVE  Under' /\ StaysOrFree /\ whole \subseteq whole' /\ \A q \in Requests : MovesOn(q)
  BY <1>2, <1>3 DEF ServerTypeOK, Under, MovesOn, StaysOrFree
<1>4. ASSUME NEW r \in Requests, BodyComes(r)
      PROVE  Under' /\ StaysOrFree /\ whole \subseteq whole' /\ \A q \in Requests : MovesOn(q)
  BY <1>4 DEF BodyComes, ServerTypeOK, Under, MovesOn, StaysOrFree
<1>5. ASSUME NEW r \in Requests, Handle(r)
      PROVE  Under' /\ StaysOrFree /\ whole \subseteq whole' /\ \A q \in Requests : MovesOn(q)
  <2>1. /\ whole' = whole
        /\ \A q \in Requests \ {r} : handler'[q] = handler[q]
        /\ MovesOn(r) /\ handler'[r] # handler[r]
        /\ lock' = lock \/ lock' \in {r, NoRequest}
        /\ StaysOrFree
        /\ lock' = r <=> handler'[r] = "parse"
        /\ lock = r <=> handler[r] = "parse"
    BY <1>5, ThreadMoves
  <2>2. \A q \in Requests : MovesOn(q)
    BY <2>1 DEF MovesOn
  <2>3. lock' # NoRequest => handler'[lock'] = "parse"
    BY <2>1 DEF Under, ServerTypeOK
  <2>4. handler[r] \in {"route", "read", "lock", "parse"} /\ handler'[r] # "none"
    BY <1>5, <2>1 DEF MovesOn, Handle, Route, ReadBody, InsertRaw, InsertParsed
  <2>5. ASSUME handler'[r] \in {"lock", "parse"} PROVE r \in whole
    BY <2>1, <2>4, <2>5 DEF Under, MovesOn
  <2>6. Under'
    <3>1. \A q \in Requests : handler'[q] \in {"lock", "parse"} => q \in whole'
      BY <2>1, <2>5 DEF Under
    <3>2. \A q \in whole' : handler'[q] # "none"
      BY <2>1, <2>4 DEF Under, ServerTypeOK
    <3> QED BY <2>3, <3>1, <3>2 DEF Under
  <2> QED BY <2>1, <2>2, <2>6
<1>6. CASE ServerRestarts
  BY <1>6 DEF ServerRestarts, ServerTypeOK, Under, MovesOn, StaysOrFree
<1> QED
  BY <1>1, <1>3, <1>4, <1>5, <1>6 DEF Next, Server

LEMMA UnderHolds == Spec => []Under
<1>1. Init => Under
  BY RequestsAssumption DEF Init, ServerInit, Under
<1>2. IInv => StoreInv
  BY DEF IInv
<1> QED BY <1>1, <1>2, IInvHolds, UnderNext, PTL DEF Spec

(* Nothing is awaited under the database's mutex: whoever holds it has the *)
(* body of its request and is between its two inserts, and nobody else is, *)
(* for any number of requests (main.rs:99-130).                            *)
THEOREM NobodyWaitsUnderTheLock ==
  Spec => [](/\ lock # NoRequest => lock \in whole /\ handler[lock] = "parse"
             /\ \A r \in Requests : handler[r] = "parse" => lock = r)
<1>1. IInv /\ Under =>
        /\ lock # NoRequest => lock \in whole /\ handler[lock] = "parse"
        /\ \A r \in Requests : handler[r] = "parse" => lock = r
  BY DEF IInv, StoreInv, ServerTypeOK, Storing, Under
<1> QED BY <1>1, IInvHolds, UnderHolds, PTL

(* What the fairness of Spec is about: a thread that has its request, and  *)
(* does not wait for the database, can take a step.  ENABLED is beyond the *)
(* provers, so this is a hypothesis.                                       *)
HasWork(r)       == r \in whole /\ handler[r] \in {"route", "read", "parse"}
HandlerCanRun(r) == [](HasWork(r) => ENABLED <<Handled(r)>>_vars)
HandlersCanRun   == \A r \in Requests : HandlerCanRun(r)

LEMMA FairHandler ==
  ASSUME NEW r \in Requests
  PROVE  Spec => HandlerRuns(r)
<1>1. Spec => Fairness
  BY PTL DEF Spec
<1>2. Fairness => HandlerRuns(r)
  BY DEF Fairness
<1> QED BY <1>1, <1>2

(* A thread that has its body gets as far as the database, and what has    *)
(* the database lets go of it.                                             *)
ComesToTheLock(r) == r \in whole ~> handler[r] \in {"lock", "parse", "done"}
LetsGo(r)         == handler[r] = "parse" ~> handler[r] = "done"

LEMMA AHandlerRuns ==
  ASSUME NEW r \in Requests
  PROVE  Spec /\ HandlersCanRun => ComesToTheLock(r) /\ LetsGo(r)
<1> DEFINE Whole   == r \in whole
           Routing == Whole /\ handler[r] = "route"
           Reading == Whole /\ handler[r] = "read"
           There   == handler[r] \in {"lock", "parse", "done"}
           Parsing == handler[r] = "parse"
           Over    == handler[r] = "done"
<1>1. IInv /\ Under => /\ Whole => Routing \/ Reading \/ There
                       /\ Routing \/ Reading \/ Parsing => HasWork(r)
  BY DEF IInv, StoreInv, ServerTypeOK, Under, HasWork
<1>2. IInv /\ Under /\ [Next]_vars =>
        /\ Routing => Routing' \/ Reading' \/ There'
        /\ Reading => Reading' \/ There'
        /\ Parsing => Parsing' \/ Over'
  BY UnderNext DEF IInv, MovesOn
<1>3. IInv /\ Under /\ Handled(r) =>
        /\ Routing => ~Routing'
        /\ Reading => ~Reading'
        /\ Parsing => ~Parsing'
  BY ThreadMoves DEF IInv, StoreInv, Handled
<1>4. Spec /\ HandlersCanRun => HandlerRuns(r) /\ HandlerCanRun(r)
  BY FairHandler DEF HandlersCanRun
<1> HIDE DEF Whole, Routing, Reading, There, Parsing, Over
<1>5. Spec /\ HandlersCanRun => (Whole ~> There) /\ (Parsing ~> Over)
  BY <1>1, <1>2, <1>3, <1>4, IInvHolds, UnderHolds, PTL DEF Spec, HandlerRuns, HandlerCanRun, Handled
<1> QED BY <1>5 DEF Whole, There, Parsing, Over, ComesToTheLock, LetsGo

(* However slow the others are with their bodies, a request that came      *)
(* whole comes as far as the database, and whoever has the database is     *)
(* done with it, for any number of requests, if a thread with work can     *)
(* take a step: what remains of SlowBlockNobody is the turn at the mutex   *)
(* (main.rs:92-120).                                                       *)
THEOREM WholeRequestsComeToTheLock ==
  Spec /\ HandlersCanRun => \A r \in Requests : ComesToTheLock(r) /\ LetsGo(r)
<1>1. ASSUME NEW r \in Requests
      PROVE  Spec /\ HandlersCanRun => ComesToTheLock(r) /\ LetsGo(r)
  BY AHandlerRuns
<1> QED BY <1>1

Unlocked   == <>(lock = NoRequest)
Unlocks(r) == lock = r => Unlocked

(* The database is never held for good, for any number of requests, if a   *)
(* thread with work can take a step (main.rs:119-209).                     *)
THEOREM TheDatabaseComesFree ==
  Spec /\ HandlersCanRun => (lock # NoRequest ~> lock = NoRequest)
<1>1. ASSUME NEW r \in Requests
      PROVE  Spec /\ HandlersCanRun => []Unlocks(r)
  <2> DEFINE Has  == lock = r
             None == lock = NoRequest
             Parsing == handler[r] = "parse"
             Over    == handler[r] = "done"
  <2>1. Spec /\ HandlersCanRun => LetsGo(r)
    BY AHandlerRuns
  <2>2. IInv /\ Under => (Has => Parsing)
    BY RequestsAssumption DEF Under
  <2>3. IInv /\ Under /\ [Next]_vars /\ Has => Has' \/ None'
    BY UnderNext, RequestsAssumption DEF IInv, StaysOrFree
  <2>4. Parsing => ~Over
    OBVIOUS
  <2>5. LetsGo(r) => (Parsing ~> Over)
    BY DEF LetsGo
  <2> HIDE DEF Has, None, Parsing, Over
  <2>6. Spec /\ HandlersCanRun => [](Has => <>None)
    BY <2>1, <2>2, <2>3, <2>4, <2>5, IInvHolds, UnderHolds, PTL DEF Spec
  <2> QED BY <2>6 DEF Has, None, Unlocks, Unlocked
<1>2. Spec /\ HandlersCanRun => \A r \in Requests : []Unlocks(r)
  BY <1>1
<1>3. (\A r \in Requests : []Unlocks(r)) => [](\A r \in Requests : Unlocks(r))
  OBVIOUS
<1>4. (\A r \in Requests : Unlocks(r)) => (lock \in Requests => Unlocked)
  BY DEF Unlocks
<1>5. [](\A r \in Requests : Unlocks(r)) => [](lock \in Requests => Unlocked)
  BY <1>4, PTL
<1>6. IInv => (lock # NoRequest => lock \in Requests)
  BY DEF IInv, StoreInv, ServerTypeOK
<1>7. Spec /\ HandlersCanRun => [](lock \in Requests => Unlocked)
  BY <1>2, <1>3, <1>5
<1> QED BY <1>6, <1>7, IInvHolds, PTL DEF Unlocked
=============================================================================
