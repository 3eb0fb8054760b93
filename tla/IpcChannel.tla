------------------------------ MODULE IpcChannel ------------------------------
(***************************************************************************)
(* What a connection between a client and the daemon promises, with the    *)
(* stream and its frames left out: one call at a time, handled at most     *)
(* once, answered by what the handler made of that very request.  Either   *)
(* side may be gone at any time; a call under way then may or may not have *)
(* been handled.  IpcConnection implements it.                             *)
(***************************************************************************)
EXTENDS Naturals

CONSTANTS Requests, Answers

VARIABLES
  asks, works, reads,  \* how many calls were made, handled, answered
  req, did,            \* the last request made, and the last handled
  ans, got,            \* the last answer of the handler, and the last read
  over                 \* the client is gone

vars == <<asks, works, reads, req, did, ans, got, over>>

Init ==
  /\ asks = 0 /\ works = 0 /\ reads = 0
  /\ req = "none" /\ did = "none" /\ ans = "none" /\ got = "none"
  /\ over = FALSE

Call ==
  /\ ~over /\ reads = asks
  /\ asks' = asks + 1
  /\ req' \in Requests
  /\ UNCHANGED <<works, reads, did, ans, got, over>>

(* It may run for a client that is gone.                                   *)
Handle ==
  /\ works < asks
  /\ works' = works + 1
  /\ did' = req
  /\ ans' \in Answers
  /\ UNCHANGED <<asks, reads, req, got, over>>

Return ==
  /\ ~over /\ reads < works
  /\ reads' = reads + 1
  /\ got' = ans
  /\ UNCHANGED <<asks, works, req, did, ans, over>>

End ==
  /\ over' = TRUE
  /\ UNCHANGED <<asks, works, reads, req, did, ans, got>>

Next == Call \/ Handle \/ Return \/ End

Spec == Init /\ [][Next]_vars
=============================================================================
