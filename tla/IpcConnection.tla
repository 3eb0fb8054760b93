----------------------------- MODULE IpcConnection -----------------------------
(***************************************************************************)
(* One connection over the local socket "lecoo_ctl_daemon": the handshake  *)
(* and the frames of ipc/src, the client's calls, and the daemon's thread  *)
(* for the connection (daemon/src/main.rs, process_ipc_connection).        *)
(*                                                                         *)
(* The stream carries pieces: a greeting, or a part of a frame.  A frame   *)
(* is two halves of its length, the version and the payload; a side that   *)
(* goes away leaves any prefix of what it was writing.  Not modelled:      *)
(* peers that do not greet with LCC and payloads above 5 MiB, which none   *)
(* of the repository's programs sends.                                     *)
(***************************************************************************)
EXTENDS Naturals, Sequences

CONSTANTS
  Versions,     \* of the program: <<major, minor, patch>>
  Requests,     \* IpcRequest
  Answers,      \* IpcResponse
  AnswersTo(_), \* those do_work may give to a request
  MaxCalls      \* bound on the calls of one connection

ASSUME VersionsAssumption == Versions \subseteq Nat \X Nat \X Nat
ASSUME AnswersAssumption == \A r \in Requests : AnswersTo(r) \subseteq Answers
ASSUME MaxCallsAssumption == MaxCalls \in Nat

VARIABLES
  cv, dv,               \* IPC_PROTOCOL_VERSION of client and daemon
  client, thread,       \* where the two are
  toDaemon, toClient,   \* pieces in flight
  cOut, dOut,           \* what the two still have to write of a frame
  cGot, dGot,           \* how many pieces of a frame the two have read
  task,                 \* the request do_work has
  asks, works, reads,   \* calls made, handled, answered
  req, did, ans, got,   \* last request made / handled, answer made / read
  \* History, for the properties only.
  leftAt,               \* where the client was when it went
  died,                 \* the daemon's process is gone
  saved                 \* the thread came to its save

clientVars == <<client, cOut, cGot, leftAt>>
threadVars == <<thread, dOut, dGot, task, died, saved>>
calls      == <<asks, works, reads, req, did, ans, got>>
vars == <<cv, dv, clientVars, threadVars, toDaemon, toClient, calls>>

Messages == Requests \cup Answers \cup {"none"}

Piece(at, v, m) == [at |-> at, ver |-> v, msg |-> m]

(* IpcConnection::send: write_all of length, version and payload.          *)
Frame(v, m) ==
  << Piece("len", v, "none"), Piece("len", v, "none"),
     Piece("ver", v, "none"), Piece("body", v, m) >>

(* Mutant of Compatible: the minor version is not looked at.               *)
CompatibleMajor(v, w) == v[1] = w[1]

(* What both the handshake and every frame compare.                        *)
Compatible(v, w) == v[1] = w[1] /\ v[2] = w[2]

(* IpcConnection::recv of a program of version v: the pieces that bring it *)
(* nearer to a message, and those that make it fail.  A message of another *)
(* release may not decode.                                                 *)
Counted(p, v) == p.at = "len" \/ (p.at = "ver" /\ Compatible(p.ver, v))
Refused(p, v) == (p.at = "ver" /\ ~Compatible(p.ver, v)) \/ (p.at = "body" /\ cv # dv)

-----------------------------------------------------------------------------
Init ==
  /\ cv \in Versions /\ dv \in Versions
  /\ client = "start" /\ cOut = <<>> /\ cGot = 0 /\ leftAt = "none"
  /\ thread = "backlog" /\ dOut = <<>> /\ dGot = 0 /\ task = "none"
  /\ died = FALSE /\ saved = FALSE
  /\ toDaemon = <<>> /\ toClient = <<>>
  /\ asks = 0 /\ works = 0 /\ reads = 0
  /\ req = "none" /\ did = "none" /\ ans = "none" /\ got = "none"

(* The client drops its end: it is done, it gave up, or it was killed.     *)
ClientLeaves ==
  /\ client' = "gone"
  /\ leftAt' = client
  /\ UNCHANGED <<cOut, cGot>>

(* The thread ends, and with it the daemon's end of the stream.            *)
ThreadEnds(saves) ==
  /\ thread' = "ended"
  /\ saved' = saves
  /\ UNCHANGED <<dOut, dGot, task, died>>

-----------------------------------------------------------------------------
(* The client: IpcClient::connect.                                         *)

Connect ==
  /\ client = "start" /\ thread = "backlog"
  /\ client' = "greet"
  /\ toDaemon' = <<Piece("LCC", cv, "none")>>
  /\ UNCHANGED <<cv, dv, cOut, cGot, leftAt, threadVars, toClient, calls>>

(* No daemon listens.                                                      *)
ConnectFails ==
  /\ client = "start" /\ thread = "ended"
  /\ ClientLeaves
  /\ UNCHANGED <<cv, dv, threadVars, toDaemon, toClient, calls>>

(* OKK opens the connection, ERR is an error.                              *)
Greeted ==
  /\ client = "greet" /\ toClient # <<>>
  /\ IF Head(toClient).at = "OKK"
       THEN client' = "open" /\ UNCHANGED <<cOut, cGot, leftAt>>
       ELSE ClientLeaves
  /\ toClient' = Tail(toClient)
  /\ UNCHANGED <<cv, dv, threadVars, toDaemon, calls>>

-----------------------------------------------------------------------------
(* The client: IpcClient::request.                                         *)

Call(r) ==
  /\ client = "open" /\ asks < MaxCalls
  /\ client' = "send"
  /\ cOut' = Frame(cv, r)
  /\ asks' = asks + 1 /\ req' = r
  /\ UNCHANGED <<cv, dv, cGot, leftAt, threadVars, toDaemon, toClient>>
  /\ UNCHANGED <<works, reads, did, ans, got>>

ClientWrites ==
  /\ client = "send" /\ thread # "ended"
  /\ toDaemon' = Append(toDaemon, Head(cOut))
  /\ cOut' = Tail(cOut)
  /\ client' = IF Len(cOut) = 1 THEN "recv" ELSE "send"
  /\ UNCHANGED <<cv, dv, cGot, leftAt, threadVars, toClient, calls>>

ClientReads ==
  /\ client = "recv" /\ toClient # <<>>
  /\ toClient' = Tail(toClient)
  /\ LET p == Head(toClient) IN
     \/ /\ Counted(p, cv)
        /\ cGot' = cGot + 1
        /\ UNCHANGED <<client, cOut, leftAt, calls>>
     \/ /\ p.at = "body"
        /\ client' = "open" /\ cGot' = 0
        /\ reads' = reads + 1 /\ got' = p.msg
        /\ UNCHANGED <<cOut, leftAt, asks, works, req, did, ans>>
     \/ /\ Refused(p, cv)
        /\ ClientLeaves
        /\ UNCHANGED calls
  /\ UNCHANGED <<cv, dv, threadVars, toDaemon>>

(* A write to, or a read from, a daemon that closed its end.               *)
ClientBreaks ==
  /\ thread = "ended"
  /\ client = "send" \/ (client \in {"greet", "recv"} /\ toClient = <<>>)
  /\ ClientLeaves
  /\ UNCHANGED <<cv, dv, threadVars, toDaemon, toClient, calls>>

(* The program has what it wanted and drops the client.                    *)
Close ==
  /\ client = "open"
  /\ ClientLeaves
  /\ UNCHANGED <<cv, dv, threadVars, toDaemon, toClient, calls>>

Killed ==
  /\ client \in {"greet", "send", "recv"}
  /\ ClientLeaves
  /\ UNCHANGED <<cv, dv, threadVars, toDaemon, toClient, calls>>

-----------------------------------------------------------------------------
(* The daemon: the accept loop, and the thread it spawns.                  *)

Accept ==
  /\ thread = "backlog" /\ client # "start"
  /\ thread' = "hello"
  /\ UNCHANGED <<cv, dv, clientVars, dOut, dGot, task, died, saved>>
  /\ UNCHANGED <<toDaemon, toClient, calls>>

(* IpcConnection::accept_handshake.                                        *)
Greet ==
  /\ thread = "hello" /\ toDaemon # <<>>
  /\ toDaemon' = Tail(toDaemon)
  /\ IF Compatible(Head(toDaemon).ver, dv) /\ client # "gone"
       THEN /\ toClient' = Append(toClient, Piece("OKK", dv, "none"))
            /\ thread' = "recv"
            /\ UNCHANGED <<dOut, dGot, task, died, saved>>
       ELSE /\ toClient' = Append(toClient, Piece("ERR", dv, "none"))
            /\ ThreadEnds(saved)
  /\ UNCHANGED <<cv, dv, clientVars, calls>>

(* Mutant of DaemonReads: a request that does not decode is skipped, and   *)
(* the loop goes on.                                                       *)
DaemonReadsOn ==
  /\ thread = "recv" /\ toDaemon # <<>>
  /\ toDaemon' = Tail(toDaemon)
  /\ LET p == Head(toDaemon) IN
     \/ /\ p.at # "body"
        /\ dGot' = dGot + 1
        /\ UNCHANGED <<thread, dOut, task, died, saved>>
     \/ /\ p.at = "body"
        /\ thread' = "work" /\ task' = p.msg /\ dGot' = 0
        /\ UNCHANGED <<dOut, died, saved>>
     \/ /\ p.at = "body" /\ cv # dv
        /\ dGot' = 0
        /\ UNCHANGED <<thread, dOut, task, died, saved>>
  /\ UNCHANGED <<cv, dv, clientVars, toClient, calls>>

(* IpcConnection::recv, one piece.  A frame of another version, or one     *)
(* that does not decode, ends the thread without a save.                   *)
DaemonReads ==
  /\ thread = "recv" /\ toDaemon # <<>>
  /\ toDaemon' = Tail(toDaemon)
  /\ LET p == Head(toDaemon) IN
     \/ /\ Counted(p, dv)
        /\ dGot' = dGot + 1
        /\ UNCHANGED <<thread, dOut, task, died, saved>>
     \/ /\ p.at = "body"
        /\ thread' = "work" /\ task' = p.msg /\ dGot' = 0
        /\ UNCHANGED <<dOut, died, saved>>
     \/ /\ Refused(p, dv)
        /\ ThreadEnds(saved)
  /\ UNCHANGED <<cv, dv, clientVars, toClient, calls>>

(* Mutant of AtEof: every end of stream is an UnexpectedEof.               *)
AtEofAlwaysUnexpected == ThreadEnds(FALSE)

(* read() returned 0: on the boundary of two frames this is a              *)
(* ConnectionReset, on which the settings are saved; inside a frame it is  *)
(* an UnexpectedEof, on which they are not.                                *)
AtEof == ThreadEnds(dGot = 0)

DaemonSeesEof ==
  /\ client = "gone" /\ toDaemon = <<>>
  /\ \/ thread = "hello" /\ ThreadEnds(FALSE)
     \/ thread = "recv" /\ AtEof
  /\ UNCHANGED <<cv, dv, clientVars, toDaemon, toClient, calls>>

(* handlers::do_work.                                                      *)
DoWork ==
  /\ thread = "work"
  /\ works' = works + 1 /\ did' = task
  /\ \E a \in AnswersTo(task) : ans' = a /\ dOut' = Frame(dv, a)
  /\ thread' = "send"
  /\ UNCHANGED <<cv, dv, clientVars, dGot, task, died, saved>>
  /\ UNCHANGED <<toDaemon, toClient, asks, reads, req, got>>

(* Mutant of DaemonWrites: the loop starts over with the request it has.   *)
DaemonWritesAgain ==
  /\ thread = "send" /\ client # "gone"
  /\ toClient' = Append(toClient, Head(dOut))
  /\ dOut' = Tail(dOut)
  /\ thread' = IF Len(dOut) = 1 THEN "work" ELSE "send"
  /\ UNCHANGED <<cv, dv, clientVars, dGot, task, died, saved, toDaemon, calls>>

(* IpcConnection::send, one piece.  A client that is gone ends the thread  *)
(* without a save.                                                         *)
DaemonWrites ==
  /\ thread = "send"
  /\ IF client = "gone"
       THEN /\ ThreadEnds(saved)
            /\ UNCHANGED toClient
       ELSE /\ toClient' = Append(toClient, Head(dOut))
            /\ dOut' = Tail(dOut)
            /\ thread' = IF Len(dOut) = 1 THEN "recv" ELSE "send"
            /\ UNCHANGED <<dGot, task, died, saved>>
  /\ UNCHANGED <<cv, dv, clientVars, toDaemon, calls>>

(* The process exits, crashes, or is killed.                               *)
DaemonDies ==
  /\ thread # "ended"
  /\ thread' = "ended" /\ died' = TRUE
  /\ UNCHANGED <<cv, dv, clientVars, dOut, dGot, task, saved>>
  /\ UNCHANGED <<toDaemon, toClient, calls>>

-----------------------------------------------------------------------------
ClientStep ==
  Connect \/ ConnectFails \/ Greeted \/ ClientWrites \/ ClientReads \/ ClientBreaks

ThreadStep ==
  Accept \/ Greet \/ DaemonReads \/ DaemonSeesEof \/ DoWork \/ DaemonWrites

Next ==
  \/ ClientStep \/ (\E r \in Requests : Call(r)) \/ Close \/ Killed
  \/ ThreadStep \/ DaemonDies

Spec == Init /\ [][Next]_vars

(* Both sides are threads that run.  That do_work ends is an assumption on *)
(* the ports: a port operation that never came back would keep its thread, *)
(* and the watchdog of main.rs only logs it (EcDevice does not assume it). *)
Fairness == WF_vars(ClientStep) /\ WF_vars(ThreadStep)

-----------------------------------------------------------------------------
PieceSet == [at : {"LCC", "OKK", "ERR", "len", "ver", "body"},
             ver : Versions, msg : Messages]

(* Every variable has its type.                                            *)
TypeOK ==
  /\ cv \in Versions /\ dv \in Versions
  /\ client \in {"start", "greet", "open", "send", "recv", "gone"}
  /\ leftAt \in {"none", "start", "greet", "open", "send", "recv"}
  /\ thread \in {"backlog", "hello", "recv", "work", "send", "ended"}
  /\ toDaemon \in Seq(PieceSet) /\ toClient \in Seq(PieceSet)
  /\ cOut \in Seq(PieceSet) /\ dOut \in Seq(PieceSet)
  /\ cGot \in 0..3 /\ dGot \in 0..3 /\ task \in Messages
  /\ asks \in Nat /\ works \in Nat /\ reads \in Nat
  /\ {req, did, ans, got} \subseteq Messages
  /\ died \in BOOLEAN /\ saved \in BOOLEAN

(* Patches of one release are to work together.                            *)
Release(v) == <<v[1], v[2]>>

(* A client of another major or minor version is never opened and none of  *)
(* its requests is handled: it is told so (ERR), unless one side goes      *)
(* first; and a compatible one is never turned away in mid-connection for  *)
(* its version, for the greeting and the frames compare the same parts     *)
(* (lib.rs:112-122, 164-166, client.rs:27-37).                             *)
VersionsAgree ==
  /\ client \in {"open", "send", "recv"} \/ works > 0 => Release(cv) = Release(dv)
  /\ thread = "ended" /\ ~died /\ client # "gone" =>
       \/ Release(cv) # Release(dv)
       \/ cv # dv /\ client = "recv"

(* The settings of a client that closed between two calls come to their    *)
(* save, whatever was still on its way when it did: the thread sees the    *)
(* end of the stream on a boundary (lib.rs:149-151, main.rs:38-50).        *)
ClosedIsSaved ==
  leftAt = "open" /\ thread = "ended" /\ ~died => saved

(* The connection keeps the promise of the channel, whatever was written   *)
(* or left half-written: a call is handled at most once, as it was made,   *)
(* and answered with what its handler said.                                *)
Channel == INSTANCE IpcChannel WITH over <- client = "gone"
ImplementsChannel == Channel!Spec

(* Nobody waits for ever: a client that greets or calls gets its answer or *)
(* an error, and a connection that was closed ends at the daemon           *)
(* (main.rs:28-53).                                                        *)
NobodyWaits ==
  /\ client \in {"greet", "send", "recv"} ~> client \in {"open", "gone"}
  /\ client = "gone" ~> thread = "ended" \/ thread = "backlog"
=============================================================================
