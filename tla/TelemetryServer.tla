---------------------------- MODULE TelemetryServer ----------------------------
(***************************************************************************)
(* The telemetry server (telemetry_server/src/main.rs): a thread for every *)
(* HTTP request, one mutex around the database, a raw row for every body   *)
(* and a parsed row for those that decode.  Several requests are handled   *)
(* at a time, bodies come as slowly as they like, and the server may stop  *)
(* between any two steps.                                                  *)
(***************************************************************************)
EXTENDS Naturals, Sequences

CONSTANTS Requests, NoRequest

ASSUME RequestsAssumption == NoRequest \notin Requests

VARIABLES
  http,    \* what every request is
  handler, \* where its thread is
  whole,   \* the requests whose body has come
  lock,    \* the request whose thread holds the database
  raw,     \* raw_telemetry: the request each row, by id, came from
  parsed,  \* rows of startup_events, status_events and panic_events
  answer   \* the status each request was answered with, 0: none

serverVars == <<http, handler, whole, lock, raw, parsed, answer>>

(* A request: its route, its size (small; long: more than the decoder's    *)
(* 64 KiB; huge: more than MAX_BODY_SIZE; broken: cannot be read), the     *)
(* format and the kind of its payload, and the client id in it.            *)
Http(route, size, form, kind, id) ==
  [route |-> route, size |-> size, form |-> form, kind |-> kind, id |-> id]

Kinds    == {"Startup", "Status", "Panic"}
Unsent   == Http("none", "small", "junk", "Status", 0)
ForeignId == 0

(* What reaches the server from elsewhere: other daemons, of this release  *)
(* or an older one, probes, junk.                                          *)
Foreign ==
  {Http(r, "small", "junk", "Status", ForeignId) : r \in {"health", "other", "telemetry"}}
    \cup {Http("telemetry", "small", v, k, ForeignId) : v \in {"V1", "V2"}, k \in Kinds}
    \cup {Http("telemetry", s, "V2", "Panic", ForeignId) : s \in {"long", "huge", "broken"}}

(* bincode reads the fields in order and does not mind bytes behind them:  *)
(* V1 has no motherboard at the end of Startup and is V2 but for that.     *)
DecodesV2(b) ==
  b.size = "small" /\ (b.form = "V2" \/ (b.form = "V1" /\ b.kind # "Startup"))
DecodesV1(b) == b.size = "small" /\ b.form \in {"V1", "V2"}

Row(b, n, board) == [kind |-> b.kind, id |-> b.id, raw_id |-> n, board |-> board]

-----------------------------------------------------------------------------
ServerInit ==
  /\ http = [r \in Requests |-> Unsent]
  /\ handler = [r \in Requests |-> "none"]
  /\ whole = {} /\ lock = NoRequest
  /\ raw = <<>> /\ parsed = {}
  /\ answer = [r \in Requests |-> 0]

(* A request comes in, without its body yet.                               *)
Arrive(r, b) ==
  /\ handler[r] = "none"
  /\ http' = [http EXCEPT ![r] = b]
  /\ handler' = [handler EXCEPT ![r] = "route"]

BodyComes(r) ==
  /\ handler[r] \in {"route", "read"} /\ r \notin whole
  /\ whole' = whole \cup {r}
  /\ UNCHANGED <<http, handler, lock, raw, parsed, answer>>

(* The thread answers and ends; its guard goes with it.                    *)
Respond(r, status) ==
  /\ handler' = [handler EXCEPT ![r] = "done"]
  /\ answer' = [answer EXCEPT ![r] = status]
  /\ lock' = IF lock = r THEN NoRequest ELSE lock

(* Mutant of Route: the database is locked for the whole of the request.   *)
RouteLocks(r) ==
  /\ handler[r] = "route" /\ lock = NoRequest
  /\ IF http[r].route = "telemetry" /\ http[r].size # "huge"
       THEN /\ handler' = [handler EXCEPT ![r] = "read"]
            /\ lock' = r
            /\ UNCHANGED answer
       ELSE Respond(r, 404)
  /\ UNCHANGED <<http, whole, raw, parsed>>

(* What the headers decide.                                                *)
Route(r) ==
  /\ handler[r] = "route"
  /\ \/ http[r].route = "health" /\ Respond(r, 200)
     \/ http[r].route = "other" /\ Respond(r, 404)
     \/ http[r].route = "telemetry" /\ http[r].size = "huge" /\ Respond(r, 413)
     \/ /\ http[r].route = "telemetry"
        /\ handler' = [handler EXCEPT ![r] = "read"]
        /\ UNCHANGED <<lock, answer>>
  /\ UNCHANGED <<http, whole, raw, parsed>>

(* read_to_end; a body may be huge without its header saying so.           *)
ReadBody(r) ==
  /\ handler[r] = "read" /\ r \in whole
  /\ IF http[r].size \in {"huge", "broken"}
       THEN Respond(r, 400)
       ELSE handler' = [handler EXCEPT ![r] = "lock"] /\ UNCHANGED <<lock, answer>>
  /\ UNCHANGED <<http, whole, raw, parsed>>

(* Mutant of InsertRaw: the guard is a temporary of the first statement.   *)
InsertRawAlone(r) ==
  /\ handler[r] = "lock" /\ lock = NoRequest
  /\ raw' = Append(raw, r)
  /\ handler' = [handler EXCEPT ![r] = "parse"]
  /\ UNCHANGED <<http, whole, lock, parsed, answer>>

(* The guard is kept to the end of the thread.                             *)
InsertRaw(r) ==
  /\ handler[r] = "lock" /\ lock \in {NoRequest, r}
  /\ \/ /\ raw' = Append(raw, r)
        /\ handler' = [handler EXCEPT ![r] = "parse"]
        /\ lock' = r
        /\ UNCHANGED answer
     \/ Respond(r, 500) /\ UNCHANGED raw
  /\ UNCHANGED <<http, whole, parsed>>

(* V2, else V1 without a motherboard, else none.                           *)
Decoded(b, n) ==
  IF DecodesV2(b) THEN {Row(b, n, b.kind = "Startup")}
  ELSE IF DecodesV1(b) THEN {Row(b, n, FALSE)} ELSE {}

(* last_insert_rowid() is that of the connection, which all threads share. *)
InsertParsed(r) ==
  /\ handler[r] = "parse"
  /\ LET rows == Decoded(http[r], Len(raw)) IN
     \/ rows = {} /\ Respond(r, 202) /\ UNCHANGED parsed
     \/ rows # {} /\ Respond(r, 201) /\ parsed' = parsed \cup rows
     \/ rows # {} /\ Respond(r, 500) /\ UNCHANGED parsed
  /\ UNCHANGED <<http, whole, raw>>

(* The server stops and is started again; its database stays.              *)
ServerRestarts ==
  /\ \E r \in Requests : handler[r] \notin {"none", "done"}
  /\ handler' = [r \in Requests |-> IF handler[r] = "none" THEN "none" ELSE "done"]
  /\ lock' = NoRequest
  /\ UNCHANGED <<http, whole, raw, parsed, answer>>

Handle(r) == Route(r) \/ ReadBody(r) \/ InsertRaw(r) \/ InsertParsed(r)

-----------------------------------------------------------------------------
ServerTypeOK ==
  /\ http \in [Requests -> [route : {"none", "telemetry", "health", "other"},
                            size : {"small", "long", "huge", "broken"},
                            form : {"V1", "V2", "junk"}, kind : Kinds, id : Nat]]
  /\ handler \in [Requests -> {"none", "route", "read", "lock", "parse", "done"}]
  /\ whole \subseteq Requests /\ lock \in Requests \cup {NoRequest}
  /\ raw \in Seq(Requests)
  /\ \A p \in parsed : p.kind \in Kinds /\ p.id \in Nat /\ p.raw_id \in DOMAIN raw
  /\ answer \in [Requests -> {0, 200, 201, 202, 400, 404, 413, 500}]

(* A parsed row tells what its raw row tells: it was decoded from that     *)
(* very body, whoever inserted at the same time, and a start-up has its    *)
(* motherboard if the sender gave one (main.rs:119-209).                   *)
RowsMatch ==
  \A p \in parsed :
    LET b == http[raw[p.raw_id]] IN
    /\ p.kind = b.kind /\ p.id = b.id
    /\ p.board = (b.form = "V2" /\ b.kind = "Startup")

(* The status a sender is given tells what was stored of its report: both  *)
(* rows (201), the raw one (202), at most the raw one (500), nothing       *)
(* (anything else) (main.rs:92-128, 162-207).                              *)
StatusTells ==
  \A r \in Requests :
    LET kept == \E n \in DOMAIN raw : raw[n] = r
        rows == {p \in parsed : raw[p.raw_id] = r}
    IN CASE answer[r] = 201 -> kept /\ rows # {}
         [] answer[r] = 202 -> kept /\ rows = {}
         [] answer[r] = 500 -> rows = {}
         [] answer[r] \in {200, 400, 404, 413} -> ~kept
         [] OTHER -> TRUE

(* The database can be relied on: its parsed rows are true to what came,   *)
(* and senders are told what became of their reports.                      *)
StoreIsSound == RowsMatch /\ StatusTells
=============================================================================
