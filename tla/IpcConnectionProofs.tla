-------------------------- MODULE IpcConnectionProofs --------------------------
(***************************************************************************)
(* Proofs about IpcConnection, for any versions, requests and answers and  *)
(* any number of calls: its types, that versions are judged alike by the   *)
(* greeting and by every frame, that a client that closed is saved, and    *)
(* that it implements IpcChannel; and that the programs of IpcClients that *)
(* use it tell by their exit what became of their requests, and wait for   *)
(* no answer for ever.                                                     *)
(***************************************************************************)
EXTENDS IpcClients, TLAPS

-----------------------------------------------------------------------------
(* The inductive invariant.  One call is made at a time, so each direction *)
(* carries pieces of one frame at most.                                    *)

(* s is what follows k pieces of the frame of m, or a beginning of it.     *)
Rest(s, k, v, m) ==
  /\ k + Len(s) <= 4
  /\ \A j \in 1..Len(s) : s[j] = Frame(v, m)[k + j]

Match == Compatible(cv, dv)

(* What the thread of the daemon can count on, by where it is.             *)
AtGreeting ==
  /\ thread \in {"backlog", "hello"} =>
       /\ client \in {"start", "greet", "gone"} /\ toClient = <<>> /\ dGot = 0
       /\ asks = 0 /\ works = 0 /\ leftAt # "open"
       /\ client # "start" => toDaemon = <<Piece("LCC", cv, "none")>>
  /\ thread = "hello" => client # "start"
  /\ thread \in {"recv", "work", "send"} => Match /\ client # "start"

Receiving ==
  thread = "recv" =>
    \/ asks = works /\ toDaemon = <<>> /\ dGot = 0 /\ client # "send"
    \/ /\ asks = works + 1 /\ Rest(toDaemon, dGot, cv, req)
       /\ client \in {"send", "recv", "gone"} /\ leftAt # "open"
       /\ client = "send" => dGot + Len(toDaemon) + Len(cOut) = 4
       /\ client = "recv" => dGot + Len(toDaemon) = 4

Working ==
  thread \in {"work", "send"} =>
    /\ client \in {"recv", "gone"} /\ leftAt # "open"
    /\ toDaemon = <<>> /\ dGot = 0

Answering ==
  /\ asks > 0 => req \in Requests
  /\ thread = "work" => asks = works + 1 /\ task = req
  /\ thread = "send" =>
       /\ asks = works /\ dOut # <<>> /\ Len(dOut) <= 4
       /\ Rest(dOut, 4 - Len(dOut), dv, ans)
       /\ client = "recv" => cGot + Len(toClient) + Len(dOut) = 4

(* What the client can count on, by where it is.                           *)
Opening ==
  /\ client \in {"start", "greet"} => asks = 0 /\ works = 0 /\ reads = 0 /\ cGot = 0
  /\ client = "start" => toDaemon = <<>> /\ toClient = <<>>
  /\ client = "greet" => Len(toClient) <= 1
  /\ client = "greet" /\ toClient # <<>> /\ Head(toClient).at = "OKK" => Match
  /\ client \in {"open", "send", "recv"} \/ works > 0 => Match

Calling ==
  /\ client = "open" => toClient = <<>> /\ cGot = 0 /\ asks = works /\ works = reads
  /\ client = "send" =>
       /\ toClient = <<>> /\ cGot = 0 /\ asks = works + 1 /\ works = reads
       /\ cOut # <<>> /\ Len(cOut) <= 4 /\ Rest(cOut, 4 - Len(cOut), cv, req)
  /\ client = "recv" =>
       \/ toClient = <<>> /\ cGot = 0 /\ asks = works + 1 /\ works = reads
       \/ asks = works /\ works = reads + 1 /\ Rest(toClient, cGot, dv, ans)

(* How the two came to their ends.                                         *)
Leaving ==
  /\ client # "gone" => leftAt = "none"
  /\ leftAt = "open" => dGot = 0 \/ thread = "ended"
  /\ leftAt = "open" /\ thread = "ended" /\ ~died => saved
  /\ thread = "ended" /\ ~died /\ client # "gone" =>
       ~Match \/ (cv # dv /\ client = "recv" /\ asks = works + 1)

IInv ==
  /\ TypeOK /\ AtGreeting /\ Receiving /\ Working /\ Answering
  /\ Opening /\ Calling /\ Leaving

-----------------------------------------------------------------------------
(* Pieces and frames.                                                      *)

LEMMA FrameParts ==
  ASSUME NEW v, NEW m
  PROVE  /\ Frame(v, m)[1] = Piece("len", v, "none")
         /\ Frame(v, m)[2] = Piece("len", v, "none")
         /\ Frame(v, m)[3] = Piece("ver", v, "none")
         /\ Frame(v, m)[4] = Piece("body", v, m)
         /\ Len(Frame(v, m)) = 4
  BY DEF Frame

LEMMA PieceType ==
  ASSUME NEW v \in Versions, NEW m \in Messages,
         NEW a \in {"LCC", "OKK", "ERR", "len", "ver", "body"}
  PROVE  Piece(a, v, m) \in PieceSet
  BY DEF Piece, PieceSet

LEMMA FrameType ==
  ASSUME NEW v \in Versions, NEW m \in Messages
  PROVE  Frame(v, m) \in Seq(PieceSet)
  <1>1. "none" \in Messages
    BY DEF Messages
  <1>2. /\ Piece("len", v, "none") \in PieceSet
        /\ Piece("ver", v, "none") \in PieceSet
        /\ Piece("body", v, m) \in PieceSet
    BY <1>1, PieceType
  <1>. QED BY <1>2 DEF Frame

(* A whole frame, and an empty stream.                                     *)
LEMMA RestOfAll == ASSUME NEW v, NEW m PROVE Rest(Frame(v, m), 0, v, m)
  <1>1. Len(Frame(v, m)) = 4
    BY FrameParts
  <1>2. \A j \in 1..4 : 0 + j = j
    OBVIOUS
  <1>. QED BY <1>1, <1>2 DEF Rest

LEMMA RestOfNone == ASSUME NEW v, NEW m, NEW k \in 0..4 PROVE Rest(<<>>, k, v, m)
  BY DEF Rest

(* The first piece, and what is behind it.                                 *)
LEMMA RestHead ==
  ASSUME NEW v, NEW m, NEW k \in 0..4, NEW s \in Seq(PieceSet), Rest(s, k, v, m), s # <<>>
  PROVE  /\ k < 4 /\ Len(s) > 0 /\ Len(Tail(s)) = Len(s) - 1
         /\ Head(s) = Frame(v, m)[k + 1]
         /\ Head(s) \in PieceSet
         /\ Tail(s) \in Seq(PieceSet)
         /\ Rest(Tail(s), k + 1, v, m)
  <1>1. Len(s) \in Nat /\ Len(s) > 0
    OBVIOUS
  <1>2. Len(Tail(s)) = Len(s) - 1 /\ Tail(s) \in Seq(PieceSet)
    OBVIOUS
  <1>3. Head(s) = s[1] /\ Head(s) \in PieceSet
    OBVIOUS
  <1>4. k < 4 /\ s[1] = Frame(v, m)[k + 1]
    BY <1>1 DEF Rest
  <1>5. \A j \in 1..Len(Tail(s)) : Tail(s)[j] = s[j + 1]
    BY <1>1
  <1>6. \A j \in 1..Len(Tail(s)) : Tail(s)[j] = Frame(v, m)[k + 1 + j]
    <2> SUFFICES ASSUME NEW j \in 1..Len(Tail(s))
                 PROVE  Tail(s)[j] = Frame(v, m)[k + 1 + j]
      OBVIOUS
    <2>1. j + 1 \in 1..Len(s) /\ k + (j + 1) = k + 1 + j
      BY <1>1, <1>2
    <2>2. s[j + 1] = Frame(v, m)[k + (j + 1)]
      BY <2>1 DEF Rest
    <2>. QED BY <1>5, <2>1, <2>2
  <1>7. k + 1 + Len(Tail(s)) <= 4
    BY <1>1, <1>2 DEF Rest
  <1>. QED BY <1>1, <1>2, <1>3, <1>4, <1>6, <1>7 DEF Rest

LEMMA IsEmpty == ASSUME NEW s \in Seq(PieceSet) PROVE s = <<>> <=> Len(s) = 0
  OBVIOUS

(* What the next piece tells.                                              *)
LEMMA RestTells ==
  ASSUME NEW v, NEW m, NEW k \in 0..3, NEW s \in Seq(PieceSet), Rest(s, k, v, m), s # <<>>
  PROVE  /\ \/ k = 3 /\ Head(s) = Piece("body", v, m) /\ Tail(s) = <<>> /\ Len(s) = 1
            \/ /\ k + 1 \in 0..3
               /\ Head(s) = Piece("len", v, "none") \/ Head(s) = Piece("ver", v, "none")
         /\ Len(Tail(s)) = Len(s) - 1
         /\ Tail(s) \in Seq(PieceSet)
         /\ Rest(Tail(s), k + 1, v, m)
  <1>1. Head(s) = Frame(v, m)[k + 1]
    BY RestHead
  <1>2. Rest(Tail(s), k + 1, v, m)
    <2>1. k \in 0..4
      OBVIOUS
    <2>. QED BY <2>1, RestHead
  <1>3. Tail(s) \in Seq(PieceSet) /\ Len(Tail(s)) = Len(s) - 1
    OBVIOUS
  <1>4. CASE k = 3
    <2>1. Head(s) = Piece("body", v, m)
      BY <1>1, <1>4, FrameParts
    <2>3. PICK l \in Nat : l = Len(s)
      OBVIOUS
    <2>4. l # 0 /\ 3 + l <= 4
      BY <1>4, <2>3, IsEmpty DEF Rest
    <2>5. Len(Tail(s)) = l - 1 /\ l = 1
      BY <1>3, <2>3, <2>4
    <2>6. Len(Tail(s)) = 0
      BY <2>5
    <2>7. Tail(s) = <<>>
      BY <1>3, <2>6, IsEmpty
    <2>. QED BY <1>2, <1>3, <1>4, <2>1, <2>3, <2>5, <2>7
  <1>5. CASE k \in 0..2
    <2>1. \/ Head(s) = Piece("len", v, "none")
          \/ Head(s) = Piece("ver", v, "none")
      <3>1. CASE k = 0 BY <1>1, <3>1, FrameParts
      <3>2. CASE k = 1 BY <1>1, <3>2, FrameParts
      <3>3. CASE k = 2 BY <1>1, <3>3, FrameParts
      <3>. QED BY <1>5, <3>1, <3>2, <3>3
    <2>. QED BY <1>2, <1>3, <1>5, <2>1
  <1>. QED BY <1>4, <1>5

(* How much of a frame is left to write.                                   *)
LEMMA LeftToWrite ==
  ASSUME NEW s \in Seq(PieceSet), s # <<>>, Len(s) <= 4
  PROVE  /\ Len(s) \in 1..4 /\ 4 - Len(s) \in 0..3 /\ 4 - Len(s) \in 0..4
         /\ 4 - (Len(s) - 1) = 4 - Len(s) + 1
  <1>1. PICK n \in Nat : n = Len(s)
    OBVIOUS
  <1>2. n # 0 /\ n <= 4
    BY <1>1
  <1>3. n \in 1..4 /\ 4 - n \in 0..3 /\ 4 - n \in 0..4 /\ 4 - (n - 1) = 4 - n + 1
    BY <1>2
  <1>. QED BY <1>1, <1>3

(* Another piece is written.                                               *)
LEMMA RestAppend ==
  ASSUME NEW v, NEW m, NEW k \in 0..4, NEW s \in Seq(PieceSet), Rest(s, k, v, m),
         k + Len(s) < 4, NEW p \in PieceSet, p = Frame(v, m)[k + Len(s) + 1]
  PROVE  /\ Append(s, p) \in Seq(PieceSet) /\ Len(Append(s, p)) = Len(s) + 1
         /\ Rest(Append(s, p), k, v, m)
  <1>1. Len(s) \in Nat /\ Append(s, p) \in Seq(PieceSet) /\ Len(Append(s, p)) = Len(s) + 1
    OBVIOUS
  <1>2. ASSUME NEW j \in 1..(Len(s) + 1)
        PROVE  Append(s, p)[j] = Frame(v, m)[k + j]
    <2>1. CASE j \in 1..Len(s)
      <3>1. Append(s, p)[j] = s[j]
        BY <2>1
      <3>. QED BY <2>1, <3>1 DEF Rest
    <2>2. CASE j = Len(s) + 1
      <3>1. Append(s, p)[j] = p /\ k + j = k + Len(s) + 1
        BY <2>2, <1>1
      <3>. QED BY <3>1
    <2>. QED BY <1>1, <1>2, <2>1, <2>2
  <1>. QED BY <1>1, <1>2 DEF Rest

(* A piece goes from what a side still has to write into the stream.       *)
LEMMA WritePiece ==
  ASSUME NEW v, NEW m, NEW o \in Seq(PieceSet), o # <<>>, Len(o) <= 4,
         Rest(o, 4 - Len(o), v, m)
  PROVE  /\ Head(o) \in PieceSet /\ Tail(o) \in Seq(PieceSet) /\ Len(Tail(o)) <= 4
         /\ Len(Tail(o)) = Len(o) - 1 /\ Rest(Tail(o), 4 - Len(Tail(o)), v, m)
         /\ Len(o) # 1 => Tail(o) # <<>>
         /\ \A k \in 0..4, s \in Seq(PieceSet) :
              Rest(s, k, v, m) /\ k + Len(s) + Len(o) = 4 =>
                /\ Append(s, Head(o)) \in Seq(PieceSet)
                /\ k + Len(Append(s, Head(o))) + Len(Tail(o)) = 4
                /\ Len(o) = 1 => k + Len(Append(s, Head(o))) = 4
                /\ Rest(Append(s, Head(o)), k, v, m)
  <1>1. PICK h \in 0..4 : h = 4 - Len(o) /\ Rest(o, h, v, m)
    BY LeftToWrite
  <1>2. /\ Head(o) = Frame(v, m)[h + 1] /\ Head(o) \in PieceSet
        /\ Tail(o) \in Seq(PieceSet) /\ Len(Tail(o)) = Len(o) - 1
        /\ Rest(Tail(o), h + 1, v, m) /\ Len(o) > 0
    <2>1. h < 4 BY <1>1, RestHead
    <2>2. Len(o) > 0 BY <1>1, RestHead
    <2>3. Len(Tail(o)) = Len(o) - 1 BY <1>1, RestHead
    <2>4. Head(o) = Frame(v, m)[h + 1] BY <1>1, RestHead
    <2>5. Head(o) \in PieceSet BY <1>1, RestHead
    <2>6. Tail(o) \in Seq(PieceSet) BY <1>1, RestHead
    <2>7. Rest(Tail(o), h + 1, v, m) BY <1>1, RestHead
    <2>. QED BY <2>1, <2>2, <2>3, <2>4, <2>5, <2>6, <2>7
  <1>3. h + 1 = 4 - Len(Tail(o)) /\ Len(Tail(o)) <= 4
    BY <1>1, <1>2, LeftToWrite
  <1>4. Len(o) # 1 => Tail(o) # <<>>
    <2>1. PICK l \in 1..4 : l = Len(o)
      BY LeftToWrite
    <2>2. Len(Tail(o)) = l - 1
      BY <1>2, <2>1
    <2>. QED BY <1>2, <2>1, <2>2, IsEmpty
  <1>5. ASSUME NEW k \in 0..4, NEW s \in Seq(PieceSet),
               Rest(s, k, v, m), k + Len(s) + Len(o) = 4
        PROVE  /\ Append(s, Head(o)) \in Seq(PieceSet)
               /\ k + Len(Append(s, Head(o))) + Len(Tail(o)) = 4
               /\ Len(o) = 1 => k + Len(Append(s, Head(o))) = 4
               /\ Rest(Append(s, Head(o)), k, v, m)
    <2>1. /\ Len(s) \in Nat /\ Len(o) \in 1..4
      BY LeftToWrite
    <2>2. k + Len(s) = h /\ k + Len(s) < 4
      BY <1>1, <1>5, <2>1
    <2>3. Head(o) = Frame(v, m)[k + Len(s) + 1]
      BY <1>2, <2>2
    <2>4. Append(s, Head(o)) \in Seq(PieceSet) /\ Len(Append(s, Head(o))) = Len(s) + 1
      BY <1>2
    <2>5. Rest(Append(s, Head(o)), k, v, m)
      BY <1>2, <1>5, <2>2, <2>3, RestAppend
    <2>. QED BY <1>2, <1>5, <2>1, <2>4, <2>5
  <1>. QED BY <1>2, <1>3, <1>4, <1>5

-----------------------------------------------------------------------------
(* The steps.                                                              *)
USE DEF Match

LEMMA InitInv == Init => IInv
  <1> SUFFICES ASSUME Init PROVE IInv
    OBVIOUS
  <1>1. TypeOK
    <2>1. "none" \in Messages /\ <<>> \in Seq(PieceSet)
      BY DEF Messages
    <2>2. {req, did, ans, got} \subseteq Messages /\ task \in Messages
      BY <2>1 DEF Init
    <2>3. cv \in Versions /\ dv \in Versions BY DEF Init
    <2>4. /\ client \in {"start", "greet", "open", "send", "recv", "gone"}
          /\ leftAt \in {"none", "start", "greet", "open", "send", "recv"}
          /\ thread \in {"backlog", "hello", "recv", "work", "send", "ended"}
       BY DEF Init
    <2>5. /\ toDaemon \in Seq(PieceSet) /\ toClient \in Seq(PieceSet)
          /\ cOut \in Seq(PieceSet) /\ dOut \in Seq(PieceSet)
      BY <2>1 DEF Init
    <2>6. cGot \in 0..3 /\ dGot \in 0..3 /\ asks \in Nat /\ works \in Nat /\ reads \in Nat
      BY DEF Init
    <2>7. died \in BOOLEAN /\ saved \in BOOLEAN
      BY DEF Init
    <2>. QED BY <2>1, <2>2, <2>3, <2>4, <2>5, <2>6, <2>7 DEF TypeOK
  <1>2. AtGreeting /\ Receiving /\ Working /\ Answering
    BY DEF Init, AtGreeting, Receiving, Working, Answering
  <1>3. Opening /\ Calling /\ Leaving
    BY DEF Init, Opening, Calling, Leaving
  <1>. QED BY <1>1, <1>2, <1>3 DEF IInv

LEMMA ConnectInv == IInv /\ Connect => IInv'
  <1> SUFFICES ASSUME IInv, Connect PROVE IInv'
    OBVIOUS
  <1>1. Piece("LCC", cv, "none") \in PieceSet
    BY PieceType DEF IInv, TypeOK, Messages
  <1>2. TypeOK'
    BY <1>1 DEF IInv, TypeOK, Connect, threadVars, calls
  <1>3. AtGreeting'
    BY DEF IInv, AtGreeting, Connect, threadVars, calls
  <1>4. Receiving' /\ Working' /\ Answering'
    BY DEF IInv, Receiving, Working, Answering, Connect, threadVars, calls
  <1>5. Opening'
    BY DEF IInv, Opening, AtGreeting, Connect, threadVars, calls
  <1>6. Calling' /\ Leaving'
    BY DEF IInv, Calling, Leaving, Connect, threadVars, calls
  <1>. QED BY <1>2, <1>3, <1>4, <1>5, <1>6 DEF IInv

(* A client that goes, whatever for.                                       *)
LEMMA LeavesInv ==
  ASSUME IInv, client # "gone", ClientLeaves,
         client = "start" => thread = "ended",
         UNCHANGED <<cv, dv, threadVars, toDaemon, calls>>,
         toClient' \in Seq(PieceSet),
         thread \in {"backlog", "hello"} => toClient' = toClient
  PROVE  IInv'
  <1>1. TypeOK'
    BY DEF IInv, TypeOK, ClientLeaves, threadVars, calls
  <1>2. AtGreeting'
    BY DEF IInv, AtGreeting, ClientLeaves, threadVars, calls, TypeOK
  <1>3. Receiving'
    BY DEF IInv, Receiving, Calling, TypeOK, ClientLeaves, threadVars, calls, Rest
  <1>4. Working' /\ Answering'
    BY DEF IInv, Working, Answering, ClientLeaves, threadVars, calls, Rest
  <1>5. Opening' /\ Calling'
    BY DEF IInv, Opening, Calling, ClientLeaves, threadVars, calls
  <1>6. Leaving'
    BY DEF IInv, Leaving, Receiving, Working, Opening, AtGreeting, Calling, ClientLeaves, threadVars, calls, TypeOK
  <1>. QED BY <1>1, <1>2, <1>3, <1>4, <1>5, <1>6 DEF IInv

LEMMA GreetedInv == IInv /\ Greeted => IInv'
  <1> SUFFICES ASSUME IInv, Greeted PROVE IInv'
    OBVIOUS
  <1>1. toClient \in Seq(PieceSet) /\ toClient # <<>> /\ client = "greet" /\ Len(toClient) <= 1
    BY DEF IInv, TypeOK, Greeted, Opening
  <1>2. Tail(toClient) = <<>> /\ Tail(toClient) \in Seq(PieceSet)
    BY <1>1
  <1>3. thread \notin {"backlog", "hello"}
    BY <1>1 DEF IInv, AtGreeting
  <1>4. CASE Head(toClient).at # "OKK"
    BY <1>4, <1>1, <1>2, <1>3, LeavesInv DEF Greeted
  <1>5. CASE Head(toClient).at = "OKK"
    <2>1. client' = "open" /\ toClient' = <<>> /\ Match
      BY <1>5, <1>1, <1>2 DEF Greeted, IInv, Opening
    <2>2. TypeOK'
      BY <1>5, <2>1, <1>2 DEF Greeted, IInv, TypeOK, threadVars, calls
    <2>3. AtGreeting' /\ Receiving' /\ Working' /\ Answering'
      BY <1>1, <1>3, <1>5, <2>1
      DEF Greeted, IInv, AtGreeting, Receiving, Working, Answering, Opening, threadVars, calls
    <2>4. Opening' /\ Calling' /\ Leaving'
      BY <1>1, <1>5, <2>1
      DEF Greeted, IInv, Opening, Calling, Leaving, threadVars, calls
    <2>. QED BY <2>2, <2>3, <2>4 DEF IInv
  <1>. QED BY <1>4, <1>5

LEMMA CallInv == ASSUME IInv, NEW r \in Requests, Call(r) PROVE IInv'
  <1>1. cv \in Versions /\ r \in Messages
    BY DEF IInv, TypeOK, Messages
  <1>2. Frame(cv, r) \in Seq(PieceSet) /\ Len(Frame(cv, r)) = 4 /\ Rest(Frame(cv, r), 0, cv, r)
    BY <1>1, FrameType, FrameParts, RestOfAll
  <1>3. /\ client = "open" /\ client' = "send" /\ cOut' = Frame(cv, r)
        /\ asks' = asks + 1 /\ req' = r
        /\ toClient = <<>> /\ cGot = 0 /\ asks = works /\ works = reads
        /\ asks \in Nat /\ works \in Nat
    BY DEF Call, IInv, Calling, TypeOK
  <1>4. TypeOK'
    BY <1>1, <1>2, <1>3 DEF Call, IInv, TypeOK, threadVars
  <1>5. AtGreeting' /\ Working' /\ Answering'
    BY <1>3 DEF Call, IInv, AtGreeting, Working, Answering, threadVars
  <1>6. Receiving'
    <2> SUFFICES ASSUME thread = "recv" PROVE Receiving'
      BY DEF Receiving, Call, threadVars
    <2>1. toDaemon = <<>> /\ dGot = 0
      BY <1>3 DEF IInv, Receiving
    <2>2. Rest(<<>>, 0, cv, r)
      BY RestOfNone
    <2>. QED BY <1>2, <1>3, <2>1, <2>2 DEF Receiving, Call, threadVars, IInv, Leaving
  <1>7. Opening' /\ Leaving'
    BY <1>3 DEF Call, IInv, Opening, Leaving, threadVars
  <1>8. Calling'
    <2>1. Frame(cv, r) # <<>> /\ 4 - Len(Frame(cv, r)) = 0
      BY <1>2
    <2>. QED BY <1>2, <1>3, <2>1 DEF Call, Calling
  <1>. QED BY <1>4, <1>5, <1>6, <1>7, <1>8 DEF IInv

LEMMA ClientWritesInv == IInv /\ ClientWrites => IInv'
  <1> SUFFICES ASSUME IInv, ClientWrites PROVE IInv'
    OBVIOUS
  <1>1. /\ client = "send" /\ thread # "ended" /\ cOut # <<>> /\ cOut \in Seq(PieceSet)
        /\ Len(cOut) <= 4 /\ Rest(cOut, 4 - Len(cOut), cv, req)
        /\ toClient = <<>> /\ cGot = 0 /\ asks = works + 1 /\ works = reads
        /\ toDaemon \in Seq(PieceSet) /\ leftAt = "none"
        /\ asks \in Nat /\ works \in Nat /\ dGot \in 0..4
    BY DEF ClientWrites, IInv, Calling, TypeOK, Leaving
  <1>2. /\ thread = "recv" /\ Rest(toDaemon, dGot, cv, req)
        /\ dGot + Len(toDaemon) + Len(cOut) = 4
    BY <1>1 DEF IInv, Receiving, AtGreeting, Working, TypeOK
  <1>3. /\ Tail(cOut) \in Seq(PieceSet) /\ Len(Tail(cOut)) <= 4
        /\ Len(Tail(cOut)) = Len(cOut) - 1 /\ Rest(Tail(cOut), 4 - Len(Tail(cOut)), cv, req)
        /\ Len(cOut) # 1 => Tail(cOut) # <<>>
        /\ Append(toDaemon, Head(cOut)) \in Seq(PieceSet)
        /\ dGot + Len(Append(toDaemon, Head(cOut))) + Len(Tail(cOut)) = 4
        /\ Len(cOut) = 1 => dGot + Len(Append(toDaemon, Head(cOut))) = 4
        /\ Rest(Append(toDaemon, Head(cOut)), dGot, cv, req)
    BY <1>1, <1>2, WritePiece
  <1>4. TypeOK'
    BY <1>1, <1>3 DEF ClientWrites, IInv, TypeOK, threadVars, calls
  <1>5. AtGreeting' /\ Working' /\ Answering'
    BY <1>1, <1>2 DEF ClientWrites, IInv, AtGreeting, Working, Answering, threadVars, calls
  <1>6. Receiving'
    <2>1. client' = "recv" => Len(cOut) = 1
      BY DEF ClientWrites
    <2>. QED BY <1>1, <1>2, <1>3, <2>1 DEF Receiving, ClientWrites, threadVars, calls
  <1>7. Opening' /\ Leaving'
    BY <1>1, <1>2 DEF ClientWrites, IInv, Opening, Leaving, threadVars, calls
  <1>8. Calling'
    BY <1>1, <1>3 DEF Calling, ClientWrites, threadVars, calls
  <1>. QED BY <1>4, <1>5, <1>6, <1>7, <1>8 DEF IInv

LEMMA ClientReadsInv == IInv /\ ClientReads => IInv'
  <1> SUFFICES ASSUME IInv, ClientReads PROVE IInv'
    OBVIOUS
  <1> DEFINE p == Head(toClient)
  <1>1. /\ client = "recv" /\ toClient # <<>> /\ toClient \in Seq(PieceSet) /\ cGot \in 0..3
        /\ asks = works /\ works = reads + 1 /\ Rest(toClient, cGot, dv, ans)
        /\ reads \in Nat /\ Match /\ leftAt = "none"
        /\ ans \in Messages /\ thread \notin {"backlog", "hello", "work"}
    BY DEF ClientReads, IInv, Calling, TypeOK, Leaving, Opening, AtGreeting, Answering
  <1>2. /\ p.at = "body" => cGot = 3 /\ p.msg = ans /\ Tail(toClient) = <<>> /\ Len(toClient) = 1
        /\ p.at # "body" => cGot + 1 \in 0..3
        /\ Len(Tail(toClient)) = Len(toClient) - 1
        /\ Tail(toClient) \in Seq(PieceSet)
        /\ Rest(Tail(toClient), cGot + 1, dv, ans)
    <2>0. \/ cGot = 3 /\ p = Piece("body", dv, ans) /\ Tail(toClient) = <<>> /\ Len(toClient) = 1
          \/ /\ cGot + 1 \in 0..3
             /\ p = Piece("len", dv, "none") \/ p = Piece("ver", dv, "none")
      BY <1>1, RestTells
    <2>1. p.at = "body" => cGot = 3 /\ p.msg = ans /\ Tail(toClient) = <<>> /\ Len(toClient) = 1
      BY <2>0 DEF Piece
    <2>2. p.at # "body" => cGot + 1 \in 0..3
      BY <2>0 DEF Piece
    <2>3. Len(Tail(toClient)) = Len(toClient) - 1 /\ Tail(toClient) \in Seq(PieceSet)
      BY <1>1
    <2>4. Rest(Tail(toClient), cGot + 1, dv, ans)
      BY <1>1, RestTells
    <2>. QED BY <2>1, <2>2, <2>3, <2>4
  <1>3. toClient' = Tail(toClient) /\ UNCHANGED <<cv, dv, threadVars, toDaemon>>
    BY DEF ClientReads
  <1>4. CASE Counted(p, cv) /\ cGot' = cGot + 1 /\ UNCHANGED <<client, cOut, leftAt, calls>>
    <2>1. cGot + 1 \in 0..3
      BY <1>2, <1>4 DEF Counted
    <2>2. TypeOK'
      BY <1>2, <1>3, <1>4, <2>1 DEF IInv, TypeOK, threadVars, calls
    <2>3. AtGreeting' /\ Receiving' /\ Working'
      BY <1>1, <1>3, <1>4 DEF IInv, AtGreeting, Receiving, Working, threadVars, calls
    <2>4. Answering'
      <3> SUFFICES ASSUME thread = "send" PROVE cGot' + Len(toClient') + Len(dOut) = 4
        BY <1>3, <1>4 DEF IInv, Answering, threadVars, calls
      <3>1. cGot + Len(toClient) + Len(dOut) = 4 /\ Len(dOut) \in Nat /\ Len(toClient) \in Nat
        BY <1>1 DEF IInv, Answering, TypeOK
      <3>. QED BY <1>1, <1>2, <1>3, <1>4, <3>1
    <2>5. Opening' /\ Calling' /\ Leaving'
      BY <1>1, <1>2, <1>3, <1>4 DEF IInv, Opening, Calling, Leaving, threadVars, calls
    <2>. QED BY <2>2, <2>3, <2>4, <2>5 DEF IInv
  <1>5. CASE /\ p.at = "body" /\ client' = "open" /\ cGot' = 0
             /\ reads' = reads + 1 /\ got' = p.msg
             /\ UNCHANGED <<cOut, leftAt, asks, works, req, did, ans>>
    <2>1. toClient' = <<>> /\ got' = ans /\ cGot = 3 /\ Len(toClient) = 1
      BY <1>2, <1>3, <1>5
    <2>2. thread \in {"recv", "ended"}
      <3>1. ASSUME thread = "send" PROVE FALSE
        <4>1. 3 + 1 + Len(dOut) = 4 /\ dOut # <<>> /\ dOut \in Seq(PieceSet)
          BY <1>1, <2>1, <3>1 DEF IInv, Answering, TypeOK
        <4>2. PICK l \in Nat : l = Len(dOut)
          BY <4>1
        <4>. QED BY <4>1, <4>2, IsEmpty
      <3>. QED BY <1>1, <3>1 DEF IInv, TypeOK
    <2>3. TypeOK'
      BY <1>1, <1>2, <1>3, <1>5, <2>1 DEF IInv, TypeOK, threadVars
    <2>4. AtGreeting' /\ Receiving' /\ Working' /\ Answering'
      BY <1>1, <1>3, <1>5, <2>2
      DEF IInv, AtGreeting, Receiving, Working, Answering, threadVars
    <2>5. Opening' /\ Calling' /\ Leaving'
      BY <1>1, <1>3, <1>5, <2>1, <2>2 DEF IInv, Opening, Calling, Leaving, threadVars
    <2>. QED BY <2>3, <2>4, <2>5 DEF IInv
  <1>6. CASE Refused(p, cv) /\ ClientLeaves /\ UNCHANGED calls
    BY <1>1, <1>2, <1>3, <1>6, LeavesInv
  <1>. QED BY <1>4, <1>5, <1>6 DEF ClientReads

LEMMA GivesUpInv ==
  IInv /\ (ConnectFails \/ ClientBreaks \/ Close \/ Killed) => IInv'
  <1> SUFFICES ASSUME IInv, ConnectFails \/ ClientBreaks \/ Close \/ Killed PROVE IInv'
    OBVIOUS
  <1>1. toClient \in Seq(PieceSet)
    BY DEF IInv, TypeOK
  <1>. QED BY <1>1, LeavesInv DEF ConnectFails, ClientBreaks, Close, Killed

LEMMA AcceptInv == IInv /\ Accept => IInv'
  <1> SUFFICES ASSUME IInv, Accept PROVE IInv'
    OBVIOUS
  <1>1. TypeOK'
    BY DEF IInv, TypeOK, Accept, clientVars, calls
  <1>2. AtGreeting' /\ Receiving' /\ Working' /\ Answering'
    BY DEF IInv, AtGreeting, Receiving, Working, Answering, Accept, clientVars, calls
  <1>3. Opening' /\ Calling' /\ Leaving'
    BY DEF IInv, Opening, Calling, Leaving, AtGreeting, Accept, clientVars, calls
  <1>. QED BY <1>1, <1>2, <1>3 DEF IInv

LEMMA GreetInv == IInv /\ Greet => IInv'
  <1> SUFFICES ASSUME IInv, Greet PROVE IInv'
    OBVIOUS
  <1>1. /\ thread = "hello" /\ client \in {"greet", "gone"} /\ toClient = <<>> /\ dGot = 0
        /\ asks = 0 /\ works = 0 /\ leftAt # "open"
        /\ toDaemon = <<Piece("LCC", cv, "none")>>
        /\ cv \in Versions /\ dv \in Versions
    BY DEF Greet, IInv, AtGreeting, TypeOK
  <1>2. Head(toDaemon).ver = cv /\ toDaemon' = <<>> /\ toDaemon' \in Seq(PieceSet)
    BY <1>1 DEF Greet, Piece
  <1>3. CASE Match /\ client # "gone"
    <2>1. /\ toClient' = <<Piece("OKK", dv, "none")>> /\ thread' = "recv"
          /\ UNCHANGED <<dOut, dGot, task, died, saved, cv, dv, clientVars, calls>>
      BY <1>1, <1>2, <1>3 DEF Greet
    <2>2. Piece("OKK", dv, "none") \in PieceSet
      BY <1>1, PieceType DEF Messages
    <2>3. TypeOK'
      BY <1>2, <2>1, <2>2 DEF IInv, TypeOK, clientVars, calls
    <2>4. AtGreeting' /\ Receiving' /\ Working' /\ Answering'
      BY <1>1, <1>2, <1>3, <2>1
      DEF IInv, AtGreeting, Receiving, Working, Answering, clientVars, calls
    <2>5. Opening' /\ Calling' /\ Leaving'
      BY <1>1, <1>3, <2>1 DEF IInv, Opening, Calling, Leaving, clientVars, calls
    <2>. QED BY <2>3, <2>4, <2>5 DEF IInv
  <1>4. CASE ~(Match /\ client # "gone")
    <2>1. /\ toClient' = <<Piece("ERR", dv, "none")>> /\ ThreadEnds(saved)
          /\ UNCHANGED <<cv, dv, clientVars, calls>>
      BY <1>1, <1>2, <1>4 DEF Greet
    <2>2. Piece("ERR", dv, "none") \in PieceSet
      BY <1>1, PieceType DEF Messages
    <2>3. TypeOK'
      BY <1>2, <2>1, <2>2 DEF IInv, TypeOK, ThreadEnds, clientVars, calls
    <2>4. AtGreeting' /\ Receiving' /\ Working' /\ Answering'
      BY <1>1, <2>1
      DEF IInv, AtGreeting, Receiving, Working, Answering, ThreadEnds, clientVars, calls
    <2>5. Opening'
      <3>1. toClient'[1].at = "ERR" /\ Head(toClient') = toClient'[1] /\ Len(toClient') = 1
        BY <2>1 DEF Piece
      <3>. QED BY <1>1, <2>1, <3>1 DEF IInv, Opening, ThreadEnds, clientVars, calls
    <2>6. Calling' /\ Leaving'
      BY <1>1, <1>4, <2>1 DEF IInv, Calling, Leaving, ThreadEnds, clientVars, calls
    <2>. QED BY <2>3, <2>4, <2>5, <2>6 DEF IInv
  <1>. QED BY <1>3, <1>4

LEMMA DaemonReadsInv == IInv /\ DaemonReads => IInv'
  <1> SUFFICES ASSUME IInv, DaemonReads PROVE IInv'
    OBVIOUS
  <1> DEFINE p == Head(toDaemon)
  <1>1. /\ thread = "recv" /\ toDaemon # <<>> /\ toDaemon \in Seq(PieceSet) /\ dGot \in 0..3
        /\ asks = works + 1 /\ Rest(toDaemon, dGot, cv, req) /\ Match
        /\ client \in {"send", "recv", "gone"} /\ leftAt # "open"
        /\ client = "send" => dGot + Len(toDaemon) + Len(cOut) = 4
        /\ client = "recv" => dGot + Len(toDaemon) = 4
        /\ works \in Nat /\ req \in Messages /\ cOut \in Seq(PieceSet)
    BY DEF DaemonReads, IInv, Receiving, TypeOK, AtGreeting
  <1>2. /\ \/ dGot = 3 /\ p = Piece("body", cv, req) /\ Tail(toDaemon) = <<>> /\ Len(toDaemon) = 1
           \/ /\ dGot + 1 \in 0..3
              /\ p = Piece("len", cv, "none") \/ p = Piece("ver", cv, "none")
        /\ Len(Tail(toDaemon)) = Len(toDaemon) - 1
        /\ Tail(toDaemon) \in Seq(PieceSet)
        /\ Rest(Tail(toDaemon), dGot + 1, cv, req)
    <2>1. \/ dGot = 3 /\ p = Piece("body", cv, req) /\ Tail(toDaemon) = <<>> /\ Len(toDaemon) = 1
          \/ /\ dGot + 1 \in 0..3
             /\ p = Piece("len", cv, "none") \/ p = Piece("ver", cv, "none")
      BY <1>1, RestTells
    <2>2. Len(Tail(toDaemon)) = Len(toDaemon) - 1 /\ Tail(toDaemon) \in Seq(PieceSet)
      BY <1>1
    <2>3. Rest(Tail(toDaemon), dGot + 1, cv, req)
      BY <1>1, RestTells
    <2>. QED BY <2>1, <2>2, <2>3
  <1>3. toDaemon' = Tail(toDaemon) /\ UNCHANGED <<cv, dv, clientVars, toClient, calls>>
    BY DEF DaemonReads
  <1>4. ASSUME p.at = "body"
        PROVE  /\ dGot = 3 /\ p.msg = req /\ Tail(toDaemon) = <<>>
               /\ client # "send"
    <2>1. dGot = 3 /\ p = Piece("body", cv, req) /\ Tail(toDaemon) = <<>> /\ Len(toDaemon) = 1
      BY <1>2, <1>4 DEF Piece
    <2>2. ASSUME client = "send" PROVE FALSE
      <3>1. 3 + 1 + Len(cOut) = 4 /\ cOut # <<>>
        BY <1>1, <2>1, <2>2 DEF IInv, Calling
      <3>2. PICK l \in Nat : l = Len(cOut)
        BY <1>1
      <3>. QED BY <1>1, <3>1, <3>2, IsEmpty
    <2>. QED BY <2>1, <2>2 DEF Piece
  <1>5. CASE Counted(p, dv) /\ dGot' = dGot + 1 /\ UNCHANGED <<thread, dOut, task, died, saved>>
    <2>1. dGot + 1 \in 0..3
      BY <1>2, <1>5 DEF Counted, Piece
    <2>2. TypeOK'
      BY <1>2, <1>3, <1>5, <2>1 DEF IInv, TypeOK, clientVars, calls
    <2>3. AtGreeting' /\ Working' /\ Answering'
      BY <1>1, <1>3, <1>5 DEF IInv, AtGreeting, Working, Answering, clientVars, calls
    <2>4. Receiving'
      <3>1. PICK l \in Nat : l = Len(toDaemon)
        BY <1>1
      <3>2. PICK k \in Nat : k = Len(cOut)
        BY <1>1
      <3>3. client = "send" => dGot' + Len(toDaemon') + Len(cOut') = 4
        BY <1>1, <1>2, <1>3, <1>5, <3>1, <3>2 DEF clientVars
      <3>4. client = "recv" => dGot' + Len(toDaemon') = 4
        BY <1>1, <1>2, <1>3, <1>5, <3>1
      <3>. QED BY <1>1, <1>2, <1>3, <1>5, <3>3, <3>4 DEF Receiving, clientVars, calls
    <2>5. Opening' /\ Calling' /\ Leaving'
      BY <1>1, <1>3, <1>5 DEF IInv, Opening, Calling, Leaving, clientVars, calls
    <2>. QED BY <2>2, <2>3, <2>4, <2>5 DEF IInv
  <1>6. CASE /\ p.at = "body" /\ thread' = "work" /\ task' = p.msg /\ dGot' = 0
             /\ UNCHANGED <<dOut, died, saved>>
    <2>1. toDaemon' = <<>> /\ task' = req /\ client \in {"recv", "gone"}
      BY <1>1, <1>3, <1>4, <1>6
    <2>2. TypeOK'
      BY <1>1, <1>3, <1>6, <2>1 DEF IInv, TypeOK, clientVars, calls
    <2>3. AtGreeting' /\ Receiving' /\ Working' /\ Answering'
      BY <1>1, <1>3, <1>6, <2>1
      DEF IInv, AtGreeting, Receiving, Working, Answering, clientVars, calls
    <2>4. Opening' /\ Calling' /\ Leaving'
      BY <1>1, <1>3, <1>6, <2>1 DEF IInv, Opening, Calling, Leaving, clientVars, calls
    <2>. QED BY <2>2, <2>3, <2>4 DEF IInv
  <1>7. CASE Refused(p, dv) /\ ThreadEnds(saved)
    <2>1. p.ver = cv
      BY <1>2 DEF Piece
    <2>2. p.at = "body" /\ cv # dv
      BY <1>1, <1>7, <2>1 DEF Refused
    <2>3. client \in {"recv", "gone"} /\ toDaemon' = <<>>
      BY <1>1, <1>3, <1>4, <2>2
    <2>4. TypeOK'
      BY <1>1, <1>3, <1>7, <2>3 DEF IInv, TypeOK, ThreadEnds, clientVars, calls
    <2>5. AtGreeting' /\ Receiving' /\ Working' /\ Answering'
      BY <1>3, <1>7
      DEF IInv, AtGreeting, Receiving, Working, Answering, ThreadEnds, clientVars, calls
    <2>6. Opening' /\ Calling' /\ Leaving'
      BY <1>1, <1>3, <1>7, <2>2, <2>3
      DEF IInv, Opening, Calling, Leaving, ThreadEnds, clientVars, calls
    <2>. QED BY <2>4, <2>5, <2>6 DEF IInv
  <1>. QED BY <1>5, <1>6, <1>7 DEF DaemonReads

LEMMA DaemonSeesEofInv == IInv /\ DaemonSeesEof => IInv'
  <1> SUFFICES ASSUME IInv, DaemonSeesEof PROVE IInv'
    OBVIOUS
  <1>1. client = "gone" /\ toDaemon = <<>> /\ thread = "recv" /\ ThreadEnds(dGot = 0)
    BY DEF DaemonSeesEof, AtEof, IInv, AtGreeting
  <1>2. UNCHANGED <<cv, dv, clientVars, toDaemon, toClient, calls>>
    BY DEF DaemonSeesEof
  <1>3. saved' \in BOOLEAN
    BY <1>1 DEF ThreadEnds
  <1>4. TypeOK'
    BY <1>1, <1>2, <1>3 DEF IInv, TypeOK, ThreadEnds, clientVars, calls
  <1>5. AtGreeting' /\ Receiving' /\ Working' /\ Answering'
    BY <1>1, <1>2
    DEF IInv, AtGreeting, Receiving, Working, Answering, ThreadEnds, clientVars, calls
  <1>6. Opening' /\ Calling'
    BY <1>1, <1>2 DEF IInv, Opening, Calling, ThreadEnds, clientVars, calls
  <1>7. Leaving'
    <2>1. leftAt = "open" => saved'
      BY <1>1 DEF IInv, Leaving, ThreadEnds
    <2>. QED BY <1>1, <1>2, <2>1 DEF IInv, Leaving, ThreadEnds, clientVars, calls
  <1>. QED BY <1>4, <1>5, <1>6, <1>7 DEF IInv

LEMMA DoWorkInv == IInv /\ DoWork => IInv'
  <1> SUFFICES ASSUME IInv, DoWork PROVE IInv'
    OBVIOUS
  <1>1. /\ thread = "work" /\ asks = works + 1 /\ task = req /\ Match
        /\ client \in {"recv", "gone"} /\ leftAt # "open" /\ toDaemon = <<>> /\ dGot = 0
        /\ works \in Nat /\ task \in Messages /\ dv \in Versions
        /\ task \in Requests
    BY DEF DoWork, IInv, AtGreeting, Working, Answering, TypeOK
  <1>2. PICK a \in AnswersTo(task) : ans' = a /\ dOut' = Frame(dv, a)
    BY DEF DoWork
  <1>3. a \in Messages
    BY <1>1, <1>2, AnswersAssumption DEF Messages
  <1>4. Frame(dv, a) \in Seq(PieceSet) /\ Len(Frame(dv, a)) = 4 /\ Rest(Frame(dv, a), 0, dv, a)
    BY <1>1, <1>3, FrameType, FrameParts, RestOfAll
  <1>5. TypeOK'
    BY <1>1, <1>2, <1>3, <1>4 DEF DoWork, IInv, TypeOK, clientVars
  <1>6. AtGreeting' /\ Receiving' /\ Working'
    BY <1>1 DEF DoWork, IInv, AtGreeting, Receiving, Working, clientVars
  <1>7. Answering'
    <2>1. dOut' = Frame(dv, a) /\ dv' = dv /\ ans' = a
      BY <1>2 DEF DoWork
    <2>2. client = "recv" => cGot = 0 /\ toClient = <<>>
      BY <1>1 DEF IInv, Calling
    <2>3. Frame(dv, a) # <<>>
      BY <1>4, IsEmpty
    <2>4. 4 - Len(Frame(dv, a)) = 0
      BY <1>4
    <2>5. asks' > 0 => req' \in Requests
      BY DEF DoWork, IInv, Answering
    <2>6. asks' = works' /\ thread' = "send"
      BY <1>1 DEF DoWork
    <2>7. dOut' # <<>> /\ Len(dOut') <= 4
      <3>1. dOut' # <<>>
        BY <2>1, <2>3
      <3>2. Len(Frame(dv, a)) <= 4
        BY <1>4
      <3>3. Len(dOut') <= 4
        BY <2>1, <3>2
      <3>. QED BY <3>1, <3>3
    <2>8. Rest(dOut', 4 - Len(dOut'), dv', ans')
      BY <1>4, <2>1, <2>4
    <2>9. client' = "recv" => cGot' + Len(toClient') + Len(dOut') = 4
      <3>1. client' = client /\ cGot' = cGot /\ toClient' = toClient
        BY DEF DoWork, clientVars
      <3>. QED BY <1>4, <2>1, <2>2, <3>1
    <2>. QED BY <2>5, <2>6, <2>7, <2>8, <2>9 DEF Answering
  <1>8. Opening' /\ Leaving'
    BY <1>1 DEF DoWork, IInv, Opening, Leaving, clientVars
  <1>9. Calling'
    <2>1. client = "recv" => cGot = 0 /\ toClient = <<>> /\ works = reads
      BY <1>1 DEF IInv, Calling
    <2>2. Rest(<<>>, 0, dv, a)
      BY RestOfNone
    <2>. QED BY <1>1, <1>2, <2>1, <2>2 DEF DoWork, Calling, clientVars
  <1>. QED BY <1>5, <1>6, <1>7, <1>8, <1>9 DEF IInv

LEMMA DaemonWritesInv == IInv /\ DaemonWrites => IInv'
  <1> SUFFICES ASSUME IInv, DaemonWrites PROVE IInv'
    OBVIOUS
  <1>1. /\ thread = "send" /\ asks = works /\ dOut # <<>> /\ dOut \in Seq(PieceSet)
        /\ Len(dOut) <= 4 /\ Rest(dOut, 4 - Len(dOut), dv, ans) /\ Match
        /\ client \in {"recv", "gone"} /\ leftAt # "open" /\ toDaemon = <<>> /\ dGot = 0
        /\ client = "recv" => cGot + Len(toClient) + Len(dOut) = 4
        /\ toClient \in Seq(PieceSet) /\ cGot \in 0..4 /\ works \in Nat
    BY DEF DaemonWrites, IInv, AtGreeting, Working, Answering, TypeOK
  <1>2. CASE client = "gone"
    <2>1. ThreadEnds(saved) /\ UNCHANGED <<cv, dv, clientVars, toDaemon, toClient, calls>>
      BY <1>2 DEF DaemonWrites
    <2>2. TypeOK'
      BY <2>1 DEF IInv, TypeOK, ThreadEnds, clientVars, calls
    <2>3. AtGreeting' /\ Receiving' /\ Working' /\ Answering'
      BY <2>1
      DEF IInv, AtGreeting, Receiving, Working, Answering, ThreadEnds, clientVars, calls
    <2>4. Opening' /\ Calling' /\ Leaving'
      BY <1>1, <1>2, <2>1 DEF IInv, Opening, Calling, Leaving, ThreadEnds, clientVars, calls
    <2>. QED BY <2>2, <2>3, <2>4 DEF IInv
  <1>3. CASE client = "recv"
    <2>1. /\ toClient' = Append(toClient, Head(dOut)) /\ dOut' = Tail(dOut)
          /\ thread' = (IF Len(dOut) = 1 THEN "recv" ELSE "send")
          /\ UNCHANGED <<dGot, task, died, saved, cv, dv, clientVars, toDaemon, calls>>
      BY <1>3 DEF DaemonWrites
    <2>2. works = reads + 1 /\ Rest(toClient, cGot, dv, ans)
      BY <1>1, <1>3 DEF IInv, Calling
    <2>3. /\ Tail(dOut) \in Seq(PieceSet) /\ Len(Tail(dOut)) <= 4
          /\ Rest(Tail(dOut), 4 - Len(Tail(dOut)), dv, ans)
          /\ Len(dOut) # 1 => Tail(dOut) # <<>>
          /\ Append(toClient, Head(dOut)) \in Seq(PieceSet)
          /\ cGot + Len(Append(toClient, Head(dOut))) + Len(Tail(dOut)) = 4
          /\ Rest(Append(toClient, Head(dOut)), cGot, dv, ans)
      BY <1>1, <1>3, <2>2, WritePiece
    <2>4. TypeOK'
      BY <1>1, <2>1, <2>3 DEF IInv, TypeOK, clientVars, calls
    <2>5. AtGreeting' /\ Receiving' /\ Working'
      BY <1>1, <1>3, <2>1 DEF IInv, AtGreeting, Receiving, Working, clientVars, calls
    <2>6. Answering'
      BY <1>1, <1>3, <2>1, <2>3 DEF IInv, Answering, clientVars, calls
    <2>7. Opening' /\ Calling' /\ Leaving'
      BY <1>1, <1>3, <2>1, <2>2, <2>3 DEF IInv, Opening, Calling, Leaving, clientVars, calls
    <2>. QED BY <2>4, <2>5, <2>6, <2>7 DEF IInv
  <1>. QED BY <1>1, <1>2, <1>3

LEMMA DaemonDiesInv == IInv /\ DaemonDies => IInv'
  <1> SUFFICES ASSUME IInv, DaemonDies PROVE IInv'
    OBVIOUS
  <1>1. TypeOK'
    BY DEF IInv, TypeOK, DaemonDies, clientVars, calls
  <1>2. AtGreeting' /\ Receiving' /\ Working' /\ Answering'
    BY DEF IInv, AtGreeting, Receiving, Working, Answering, DaemonDies, clientVars, calls
  <1>3. Opening' /\ Calling' /\ Leaving'
    BY DEF IInv, Opening, Calling, Leaving, DaemonDies, clientVars, calls
  <1>. QED BY <1>1, <1>2, <1>3 DEF IInv

LEMMA StepInv == IInv /\ [Next]_vars => IInv'
  <1> SUFFICES ASSUME IInv, [Next]_vars PROVE IInv'
    OBVIOUS
  <1>1. CASE ClientStep
    BY <1>1, ConnectInv, GivesUpInv, GreetedInv, ClientWritesInv, ClientReadsInv DEF ClientStep
  <1>2. CASE \E r \in Requests : Call(r)
    BY <1>2, CallInv
  <1>3. CASE Close \/ Killed
    BY <1>3, GivesUpInv
  <1>4. CASE ThreadStep
    BY <1>4, AcceptInv, GreetInv, DaemonReadsInv, DaemonSeesEofInv, DoWorkInv,
       DaemonWritesInv DEF ThreadStep
  <1>5. CASE DaemonDies
    BY <1>5, DaemonDiesInv
  <1>6. CASE UNCHANGED vars
    <2>1. TypeOK'
      BY <1>6 DEF IInv, TypeOK, vars, clientVars, threadVars, calls
    <2>2. AtGreeting' /\ Receiving' /\ Working' /\ Answering'
      BY <1>6 DEF IInv, AtGreeting, Receiving, Working, Answering, vars, clientVars, threadVars, calls
    <2>3. Opening' /\ Calling' /\ Leaving'
      BY <1>6 DEF IInv, Opening, Calling, Leaving, vars, clientVars, threadVars, calls
    <2>. QED BY <2>1, <2>2, <2>3 DEF IInv
  <1>. QED BY <1>1, <1>2, <1>3, <1>4, <1>5, <1>6 DEF Next

LEMMA InvHolds == Spec => []IInv
  BY InitInv, StepInv, PTL DEF Spec

-----------------------------------------------------------------------------
(* Every variable has its type.                                            *)
THEOREM TypeCorrect == Spec => []TypeOK
  <1>1. IInv => TypeOK BY DEF IInv
  <1>. QED BY <1>1, InvHolds, PTL

(* A client of another release is not served, and one of the same release  *)
(* is not turned away for its version, neither by the greeting nor by a    *)
(* frame (lib.rs:112-122, 164-166).                                        *)
THEOREM VersionsAreJudgedAlike == Spec => []VersionsAgree
  <1>1. IInv => VersionsAgree
    <2> SUFFICES ASSUME IInv PROVE VersionsAgree
      OBVIOUS
    <2>1. Match <=> Release(cv) = Release(dv)
      BY DEF Compatible, Release
    <2>. QED BY <2>1 DEF IInv, Opening, Leaving, VersionsAgree
  <1>. QED BY <1>1, InvHolds, PTL

(* The settings of a client that closed between two calls are saved,       *)
(* unless the daemon's process dies (lib.rs:149-151, main.rs:38-50).       *)
THEOREM ClosedConnectionsAreSaved == Spec => []ClosedIsSaved
  <1>1. IInv => ClosedIsSaved
    BY DEF IInv, Leaving, ClosedIsSaved
  <1>. QED BY <1>1, InvHolds, PTL

-----------------------------------------------------------------------------
(* The refinement.                                                         *)

LEMMA ChannelStep == IInv /\ [Next]_vars => [Channel!Next]_Channel!vars
  <1> SUFFICES ASSUME IInv, [Next]_vars PROVE [Channel!Next]_Channel!vars
    OBVIOUS
  <1> USE DEF clientVars, threadVars, calls
  <1>1. ASSUME UNCHANGED calls, client' = "gone" PROVE Channel!Next
    BY <1>1 DEF Channel!Next, Channel!End
  <1>2. ASSUME UNCHANGED calls, client # "gone", client' # "gone" PROVE UNCHANGED Channel!vars
    BY <1>2 DEF Channel!vars
  <1>3. ASSUME UNCHANGED calls, client' = client PROVE UNCHANGED Channel!vars
    BY <1>3 DEF Channel!vars
  <1>4. CASE ClientStep
    <2>1. CASE Connect BY <2>1, <1>2 DEF Connect
    <2>2. CASE ConnectFails BY <2>2, <1>1 DEF ConnectFails, ClientLeaves
    <2>3. CASE Greeted
      <3>1. UNCHANGED calls /\ client = "greet" /\ client' \in {"open", "gone"}
        BY <2>3 DEF Greeted, ClientLeaves
      <3>. QED BY <3>1, <1>1, <1>2
    <2>4. CASE ClientWrites
      <3>1. UNCHANGED calls /\ client = "send" /\ client' \in {"recv", "send"}
        BY <2>4 DEF ClientWrites
      <3>. QED BY <3>1, <1>2
    <2>5. CASE ClientReads
      <3>1. CASE UNCHANGED calls /\ client' = "gone"
        BY <3>1, <1>1
      <3>2. CASE UNCHANGED calls /\ client' = client
        BY <3>2, <1>3
      <3>3. CASE /\ Head(toClient).at = "body" /\ client' = "open" /\ cGot' = 0
                 /\ reads' = reads + 1 /\ got' = Head(toClient).msg
                 /\ UNCHANGED <<cOut, leftAt, asks, works, req, did, ans>>
        <4>1. /\ toClient # <<>> /\ toClient \in Seq(PieceSet) /\ cGot \in 0..3
              /\ works = reads + 1 /\ Rest(toClient, cGot, dv, ans) /\ client = "recv"
              /\ reads \in Nat
          BY <2>5 DEF ClientReads, IInv, Calling, TypeOK
        <4>2. \/ Head(toClient) = Piece("body", dv, ans)
              \/ Head(toClient) = Piece("len", dv, "none")
              \/ Head(toClient) = Piece("ver", dv, "none")
          BY <4>1, RestTells
        <4>3. got' = ans
          BY <3>3, <4>2 DEF Piece
        <4>4. Channel!Return
          BY <3>3, <4>1, <4>3 DEF Channel!Return
        <4>. QED BY <4>4 DEF Channel!Next
      <3>. QED BY <2>5, <3>1, <3>2, <3>3 DEF ClientReads, ClientLeaves
    <2>6. CASE ClientBreaks BY <2>6, <1>1 DEF ClientBreaks, ClientLeaves
    <2>. QED BY <1>4, <2>1, <2>2, <2>3, <2>4, <2>5, <2>6 DEF ClientStep
  <1>5. ASSUME NEW r \in Requests, Call(r) PROVE Channel!Next
    <2>1. client = "open" /\ client' = "send" /\ reads = asks
      BY <1>5 DEF Call, IInv, Calling
    <2>2. Channel!Call
      BY <1>5, <2>1 DEF Call, Channel!Call
    <2>. QED BY <2>2 DEF Channel!Next
  <1>6. CASE Close \/ Killed
    BY <1>6, <1>1 DEF Close, Killed, ClientLeaves
  <1>7. CASE ThreadStep
    <2>1. CASE DoWork
      <3>1. asks = works + 1 /\ task = req /\ task \in Requests /\ works \in Nat
        BY <2>1 DEF DoWork, IInv, Answering, TypeOK
      <3>2. ans' \in Answers
        BY <2>1, <3>1, AnswersAssumption DEF DoWork
      <3>3. Channel!Handle
        BY <2>1, <3>1, <3>2 DEF DoWork, Channel!Handle
      <3>. QED BY <3>3 DEF Channel!Next
    <2>2. CASE Accept \/ Greet \/ DaemonReads \/ DaemonSeesEof \/ DaemonWrites
      <3>1. UNCHANGED calls /\ client' = client
        BY <2>2 DEF Accept, Greet, DaemonReads, DaemonSeesEof, DaemonWrites
      <3>. QED BY <3>1, <1>3
    <2>. QED BY <1>7, <2>1, <2>2 DEF ThreadStep
  <1>8. CASE DaemonDies
    BY <1>8, <1>3 DEF DaemonDies
  <1>9. CASE UNCHANGED vars
    BY <1>9, <1>3 DEF vars
  <1>. QED BY <1>4, <1>5, <1>6, <1>7, <1>8, <1>9 DEF Next

(* The connection implements the channel: a call is handled at most once,  *)
(* as it was made, and answered with what its handler said, for any        *)
(* interleaving of the two sides and whichever goes first (lib.rs:101-179, *)
(* client.rs:12-48, main.rs:21-56).                                        *)
THEOREM ImplementsIpcChannel == Spec => ImplementsChannel
  <1>1. Init => Channel!Init
    BY DEF Init, Channel!Init
  <1>. QED BY <1>1, ChannelStep, InvHolds, PTL DEF Spec, ImplementsChannel, Channel!Spec

-----------------------------------------------------------------------------
(* The programs.                                                           *)

(* How far calls, handlings and answers are apart, and what an answer may  *)
(* be.                                                                     *)
Counts ==
  /\ reads <= works /\ works <= asks
  /\ asks = works /\ asks > 0 => ans \in AnswersTo(req)
  /\ reads = asks /\ asks > 0 => got = ans

(* A program that runs has made no more calls than its script has, and has *)
(* counted the errors it read.                                             *)
Running ==
  /\ cmd \in Commands /\ errs \in Nat
  /\ client = "gone" <=> exit # "none"
  /\ cmd \notin Loops => asks <= Len(Asked(cmd))
  /\ errs <= reads
  /\ reads > 0 /\ got # "Error" => errs < reads
  /\ reads > 0 /\ got = "Error" => errs > 0

Exits == ExitTells /\ (exit = "ok" => asks = works)

Programs == Counts /\ Running /\ Exits

LEMMA Names ==
  /\ DOMAIN Script =
       {"info", "temps", "fans", "monitoring", "power", "power_set", "fan_cpu", "fan_gpu",
        "fan_both", "charge", "charge_set", "kbd", "kbd_set", "led", "telemetry_on",
        "telemetry_off", "telemetry_id", "reset", "read", "apply", "version"}
  /\ DOMAIN GuiScript = {"gui_power", "gui_fan", "gui_kbd", "gui_charge", "gui_led",
                         "gui_reset", "gui_poll"}
  /\ IpcRequest =
       {"GetSystemState", "GetFansRPM", "GetTemperatures", "GetChargeLimit",
        "GetPowerProfile", "GetKeyboardBacklight", "GetSettings", "GetTelemetryId",
        "DisableTelemetry"} \cup Setters
  BY DEF Script, GuiScript, IpcRequest, GetterAnswers

(* A command makes one request, but for four of them.                      *)
LEMMA Scripts ==
  ASSUME NEW c \in Commands
  PROVE  \/ c = "version" /\ Asked(c) = <<>>
         \/ c = "fan_both" /\ Asked(c) = <<"SetFanCpu", "SetFanGpu">>
         \/ c = "monitoring" /\ Asked(c) = <<"GetTemperatures", "GetFansRPM">>
         \/ c = "gui_poll" /\ Asked(c) = <<"GetTemperatures", "GetFansRPM", "GetChargeLimit">>
         \/ /\ c \notin Loops \cup {"fan_both"}
            /\ \E r \in IpcRequest : Asked(c) = <<r>>
  <1>1. CASE c \in DOMAIN Script
    <2>1. Asked(c) = Script[c]
      BY <1>1 DEF Asked
    <2>. QED BY <1>1, <2>1, Names DEF Script, Loops, Setters
  <1>2. CASE c \in DOMAIN GuiScript /\ c \notin DOMAIN Script
    <2>1. Asked(c) = GuiScript[c]
      BY <1>2 DEF Asked
    <2>. QED BY <1>2, <2>1, Names DEF GuiScript, Loops, Setters
  <1>. QED BY <1>1, <1>2 DEF Commands

LEMMA ScriptLength ==
  ASSUME NEW c \in Commands
  PROVE  /\ Len(Asked(c)) \in 0..3 /\ (Asked(c) = <<>> <=> Len(Asked(c)) = 0)
         /\ c \in Loops => Len(Asked(c)) > 0
         /\ c \notin Loops => Len(Asked(c)) <= 2
         /\ c \notin Loops /\ Len(Asked(c)) = 2 => c = "fan_both"
         /\ \A i \in 1..Len(Asked(c)) : Asked(c)[i] \in IpcRequest
  <1>1. {"SetFanCpu", "SetFanGpu", "GetTemperatures", "GetFansRPM", "GetChargeLimit"}
          \subseteq IpcRequest
    BY Names DEF Setters
  <1>2. CASE c = "version" /\ Asked(c) = <<>>
    BY <1>2 DEF Loops
  <1>3. CASE c = "fan_both" /\ Asked(c) = <<"SetFanCpu", "SetFanGpu">>
    BY <1>1, <1>3 DEF Loops
  <1>4. CASE c = "monitoring" /\ Asked(c) = <<"GetTemperatures", "GetFansRPM">>
    BY <1>1, <1>4 DEF Loops
  <1>5. CASE c = "gui_poll" /\ Asked(c) = <<"GetTemperatures", "GetFansRPM", "GetChargeLimit">>
    BY <1>1, <1>5 DEF Loops
  <1>6. ASSUME c \notin Loops \cup {"fan_both"}, NEW r \in IpcRequest, Asked(c) = <<r>>
        PROVE  /\ Len(Asked(c)) \in 0..3 /\ (Asked(c) = <<>> <=> Len(Asked(c)) = 0)
               /\ c \in Loops => Len(Asked(c)) > 0
               /\ c \notin Loops => Len(Asked(c)) <= 2
               /\ c \notin Loops /\ Len(Asked(c)) = 2 => c = "fan_both"
               /\ \A i \in 1..Len(Asked(c)) : Asked(c)[i] \in IpcRequest
    BY <1>6
  <1>. QED BY <1>2, <1>3, <1>4, <1>5, <1>6, Scripts

(* The program stands at its last request when it has made all of them.    *)
LEMMA LastOfScript ==
  ASSUME asks \in Nat, asks > 0, asks <= Len(Asked(cmd)), Len(Asked(cmd)) \in 0..2
  PROVE  Last = asks
  <1>1. CASE Len(Asked(cmd)) = 1
    BY <1>1 DEF Last
  <1>2. CASE Len(Asked(cmd)) = 2
    BY <1>2 DEF Last
  <1>. QED BY <1>1, <1>2

(* A program goes on only while its script does, and what it asks next is  *)
(* a request.                                                              *)
LEMMA GoesOn ==
  ASSUME IInv, Running, Verdict = "next"
  PROVE  /\ Asked(cmd)[Following] \in IpcRequest
         /\ cmd \notin Loops => asks + 1 <= Len(Asked(cmd))
  <1> DEFINE n == Len(Asked(cmd))
  <1>0. asks \in Nat /\ cmd \in Commands
    BY DEF IInv, TypeOK, Running
  <1>1. n \in 0..3 /\ (Asked(cmd) = <<>> <=> n = 0)
    BY <1>0, ScriptLength
  <1>2. cmd \notin Loops => n > 0 /\ asks + 1 <= n
    <2> SUFFICES ASSUME cmd \notin Loops PROVE n > 0 /\ asks + 1 <= n
      OBVIOUS
    <2>1. asks <= n /\ n \in 0..2
      <3>1. Len(Asked(cmd)) <= 2
        BY <1>0, ScriptLength
      <3>2. asks <= Len(Asked(cmd))
        BY DEF Running
      <3> HIDE DEF n
      <3>3. n <= 2 /\ asks <= n
        BY <3>1, <3>2 DEF n
      <3>. QED BY <1>1, <3>3
    <2>2. CASE asks = 0
      <3>1. Asked(cmd) # <<>>
        BY <2>2 DEF Verdict
      <3>. QED BY <1>1, <2>2, <3>1
    <2>3. CASE asks # 0
      <3>1. Last = asks
        BY <1>0, <2>1, <2>3, LastOfScript
      <3>2. Last < n
        BY <2>3 DEF Verdict, Loops
      <3>. QED BY <1>0, <2>1, <3>1, <3>2
    <2>. QED BY <2>2, <2>3
  <1>3. n \in 1..3
    BY <1>0, <1>1, <1>2, ScriptLength
  <1>4. Following \in 1..n
    <2>1. CASE n = 1 BY <1>0, <2>1 DEF Following
    <2>2. CASE n = 2 BY <1>0, <2>2 DEF Following
    <2>3. CASE n = 3 BY <1>0, <2>3 DEF Following
    <2>. QED BY <1>3, <2>1, <2>2, <2>3
  <1>. QED BY <1>0, <1>2, <1>4, ScriptLength

(* Every step of a program is one of its connection.                       *)
LEMMA ProgramStep ==
  ASSUME IInv, Running, [Steps]_allVars
  PROVE  [Next]_vars
  <1>1. CASE Protocol
    BY <1>1 DEF Protocol, Next
  <1>2. CASE AskNext
    <2>1. Asked(cmd)[Following] \in Requests
      BY <1>2, GoesOn, RequestsAssumption DEF AskNext
    <2>. QED BY <1>2, <2>1 DEF AskNext, Next
  <1>3. CASE Finish \/ Interrupt
    BY <1>3 DEF Finish, Interrupt, Next
  <1>4. CASE UNCHANGED allVars
    BY <1>4 DEF allVars
  <1>. QED BY <1>1, <1>2, <1>3, <1>4 DEF Steps

(* What a step does to the calls: it makes one, handles one, or reads an   *)
(* answer.                                                                 *)
LEMMA CallsMade ==
  ASSUME IInv, [Next]_vars
  PROVE  \/ UNCHANGED calls
         \/ /\ \E r \in Requests : Call(r)
            /\ client = "open" /\ client' # "gone" /\ asks = works /\ works = reads
            /\ asks' = asks + 1 /\ UNCHANGED <<works, reads, ans, got>>
         \/ /\ asks = works + 1 /\ asks' = works' /\ works' = works + 1
            /\ ans' \in AnswersTo(req) /\ UNCHANGED <<client, asks, reads, req, got>>
         \/ /\ client = "recv" /\ client' = "open" /\ asks = works /\ works = reads + 1
            /\ reads' = works /\ got' = ans
            /\ UNCHANGED <<asks, works, req, ans>>
  <1>1. CASE ClientReads /\ ~UNCHANGED calls
    <2>1. /\ Head(toClient).at = "body" /\ client' = "open" /\ client = "recv"
          /\ reads' = reads + 1 /\ got' = Head(toClient).msg /\ toClient # <<>>
          /\ UNCHANGED <<asks, works, req, ans>>
      BY <1>1 DEF ClientReads, calls
    <2>2. /\ toClient \in Seq(PieceSet) /\ cGot \in 0..3
          /\ asks = works /\ works = reads + 1 /\ Rest(toClient, cGot, dv, ans)
      BY <2>1 DEF IInv, Calling, TypeOK
    <2>3. \/ Head(toClient) = Piece("body", dv, ans)
          \/ Head(toClient) = Piece("len", dv, "none")
          \/ Head(toClient) = Piece("ver", dv, "none")
      BY <2>1, <2>2, RestTells
    <2>4. got' = ans
      BY <2>1, <2>3 DEF Piece
    <2>. QED BY <2>1, <2>2, <2>4
  <1>2. CASE \E r \in Requests : Call(r)
    BY <1>2 DEF Call, IInv, Calling
  <1>3. CASE DoWork
    <2>1. asks = works + 1 /\ task = req
      BY <1>3 DEF DoWork, IInv, Answering
    <2>. QED BY <1>3, <2>1 DEF DoWork, clientVars
  <1>4. CASE \/ Connect \/ ConnectFails \/ Greeted \/ ClientWrites \/ ClientBreaks
             \/ Close \/ Killed \/ Accept \/ Greet \/ DaemonReads \/ DaemonSeesEof
             \/ DaemonWrites \/ DaemonDies \/ UNCHANGED vars
    BY <1>4 DEF Connect, ConnectFails, Greeted, ClientWrites, ClientBreaks, Close, Killed,
                Accept, Greet, DaemonReads, DaemonSeesEof, DaemonWrites, DaemonDies, vars
  <1>. QED BY <1>1, <1>2, <1>3, <1>4 DEF Next, ClientStep, ThreadStep

LEMMA CountsKept ==
  ASSUME IInv, Counts, [Next]_vars
  PROVE  Counts'
  <1>0. asks \in Nat /\ works \in Nat /\ reads \in Nat
    BY DEF IInv, TypeOK
  <1>1. CASE UNCHANGED calls
    BY <1>1 DEF Counts, calls
  <1>2. CASE /\ asks = works /\ works = reads
             /\ asks' = asks + 1 /\ UNCHANGED <<works, reads, ans, got>>
    BY <1>0, <1>2 DEF Counts
  <1>3. CASE /\ asks = works + 1 /\ asks' = works' /\ works' = works + 1
             /\ ans' \in AnswersTo(req) /\ UNCHANGED <<asks, reads, req, got>>
    BY <1>0, <1>3 DEF Counts
  <1>4. CASE /\ asks = works /\ works = reads + 1 /\ reads' = works /\ got' = ans
             /\ UNCHANGED <<asks, works, req, ans>>
    BY <1>0, <1>4 DEF Counts
  <1>. QED BY <1>1, <1>2, <1>3, <1>4, CallsMade

(* A client that is gone stays away, and asks and reads nothing.           *)
LEMMA GoneStays ==
  ASSUME [Next]_vars, client = "gone"
  PROVE  client' = "gone"
  BY DEF Next, ClientStep, ThreadStep, Connect, ConnectFails, Greeted, ClientWrites,
         ClientReads, ClientBreaks, Call, Close, Killed, Accept, Greet, DaemonReads,
         DaemonSeesEof, DoWork, DaemonWrites, DaemonDies, vars, clientVars

LEMMA RunningKept ==
  ASSUME IInv, Counts, Running, [Steps]_allVars
  PROVE  Running'
  <1>0. asks \in Nat /\ works \in Nat /\ reads \in Nat /\ errs \in Nat
    BY DEF IInv, TypeOK, Running
  <1>1. [Next]_vars
    BY ProgramStep
  <1>2. cmd' = cmd
    BY DEF Steps, Protocol, AskNext, Finish, Interrupt, allVars
  <1>3. client' = "gone" <=> exit' # "none"
    <2>1. CASE Protocol
      BY <1>1, <2>1, GoneStays DEF Protocol, Running
    <2>2. CASE AskNext
      BY <2>2 DEF AskNext, Call, Running
    <2>3. CASE Finish
      BY <2>3 DEF Finish, Close, ClientLeaves, Verdict
    <2>4. CASE Interrupt
      BY <2>4 DEF Interrupt, Killed, Close, ClientLeaves
    <2>5. CASE UNCHANGED allVars
      BY <2>5 DEF allVars, vars, clientVars, Running
    <2>. QED BY <2>1, <2>2, <2>3, <2>4, <2>5 DEF Steps
  <1>4. cmd' \notin Loops => asks' <= Len(Asked(cmd'))
    <2>1. CASE AskNext
      <3>1. asks' = asks + 1
        BY <2>1 DEF AskNext, Call
      <3>. QED BY <1>2, <2>1, <3>1, GoesOn DEF AskNext
    <2>2. CASE ~AskNext
      <3>1. asks' = asks
        BY <2>2 DEF Steps, Protocol, Finish, Interrupt, allVars, vars, ClientStep, ThreadStep,
           Connect, ConnectFails, Greeted, ClientWrites, ClientReads, ClientBreaks, Close,
           Killed, Accept, Greet, DaemonReads, DaemonSeesEof, DoWork, DaemonWrites,
           DaemonDies, calls
      <3>. QED BY <1>2, <3>1 DEF Running
    <2>. QED BY <2>1, <2>2
  <1>5. \/ reads' = reads + 1 /\ errs' = IF got' = "Error" THEN errs + 1 ELSE errs
        \/ UNCHANGED <<reads, got, errs>>
    <2>1. CASE Protocol
      <3>1. \/ reads' = reads + 1
            \/ UNCHANGED <<reads, got>>
        BY <1>0, <1>1, CallsMade DEF calls
      <3>2. errs' = IF reads' > reads /\ got' = "Error" THEN errs + 1 ELSE errs
        BY <2>1 DEF Protocol
      <3>. QED BY <1>0, <3>1, <3>2
    <2>2. CASE AskNext \/ Finish \/ Interrupt \/ UNCHANGED allVars
      BY <2>2 DEF AskNext, Call, Finish, Close, Interrupt, Killed, allVars, vars, calls
    <2>. QED BY <2>1, <2>2 DEF Steps
  <1>6. /\ errs' \in Nat /\ errs' <= reads'
        /\ reads' > 0 /\ got' # "Error" => errs' < reads'
        /\ reads' > 0 /\ got' = "Error" => errs' > 0
    <2>1. CASE UNCHANGED <<reads, got, errs>>
      BY <2>1 DEF Running
    <2>2. CASE reads' = reads + 1 /\ got' = "Error" /\ errs' = errs + 1
      BY <1>0, <2>2 DEF Running
    <2>3. CASE reads' = reads + 1 /\ got' # "Error" /\ errs' = errs
      BY <1>0, <2>3 DEF Running
    <2>. QED BY <1>5, <2>1, <2>2, <2>3
  <1>. QED BY <1>2, <1>3, <1>4, <1>6 DEF Running

(* What the program makes of its last answer.                              *)
LEMMA FinishTells ==
  ASSUME IInv, Counts, Running, client = "open"
  PROVE  /\ Verdict = "ok" =>
              /\ asks = works /\ reads = works /\ works = Len(Asked(cmd))
              /\ errs > 0 => cmd = "fan_both" /\ errs = 1 /\ got # "Error"
         /\ Verdict = "panic" => cmd = "monitoring" /\ errs > 0
  <1>0. /\ asks \in Nat /\ errs \in Nat /\ cmd \in Commands
        /\ asks = works /\ works = reads
    BY DEF IInv, TypeOK, Running, Calling
  <1>1. ASSUME Verdict = "ok", asks = 0
        PROVE  errs = 0 /\ Len(Asked(cmd)) = 0
    <2>1. Asked(cmd) = <<>>
      BY <1>1 DEF Verdict
    <2>. QED BY <1>0, <1>1, <2>1 DEF Running
  <1>2. ASSUME Verdict = "ok", asks # 0
        PROVE  /\ asks = Len(Asked(cmd))
               /\ errs > 0 => cmd = "fan_both" /\ errs = 1 /\ got # "Error"
    <2>1. cmd \notin Loops /\ ~(Last < Len(Asked(cmd))) /\ got # "Error"
      BY <1>2 DEF Verdict, Loops
    <2>2. asks <= Len(Asked(cmd)) /\ Len(Asked(cmd)) \in 0..2
      BY <1>0, <2>1, ScriptLength DEF Running
    <2>3. Last = asks
      BY <1>0, <1>2, <2>2, LastOfScript
    <2>4. asks = Len(Asked(cmd))
      BY <1>0, <2>1, <2>2, <2>3
    <2>5. errs < asks
      BY <1>0, <1>2, <2>1 DEF Running
    <2>6. errs > 0 => Len(Asked(cmd)) = 2 /\ errs = 1
      BY <1>0, <2>2, <2>4, <2>5
    <2>. QED BY <1>0, <2>1, <2>4, <2>6, ScriptLength
  <1>3. ASSUME Verdict = "panic"
        PROVE  cmd = "monitoring" /\ errs > 0
    <2>1. asks # 0 /\ cmd = "monitoring" /\ got # Meant(req)
      BY <1>3 DEF Verdict
    <2>2. got \in AnswersTo(req) /\ req \in Requests
      BY <1>0, <2>1 DEF Counts, IInv, Answering
    <2>3. got = "Error"
      BY <2>1, <2>2, RequestsAssumption DEF AnswersOf
    <2>. QED BY <1>0, <2>1, <2>3 DEF Running
  <1>. QED BY <1>0, <1>1, <1>2, <1>3

LEMMA ExitsKept ==
  ASSUME IInv, Programs, [Steps]_allVars
  PROVE  Exits'
  <1>0. /\ [Next]_vars /\ Counts /\ Running /\ Exits
        /\ asks \in Nat /\ works \in Nat /\ reads \in Nat
    BY ProgramStep DEF Programs, IInv, TypeOK
  <1>1. CASE Finish
    <2>1. client = "open" /\ exit' = Verdict /\ UNCHANGED <<cmd, errs, calls>>
      BY <1>1 DEF Finish, Close
    <2>. QED BY <1>0, <2>1, FinishTells DEF Exits, ExitTells, calls
  <1>2. CASE exit' \notin {"ok", "panic"}
    BY <1>2 DEF Exits, ExitTells
  <1>3. CASE exit' = exit /\ exit \in {"ok", "panic"} /\ cmd' = cmd /\ ~Finish
    <2>1. client = "gone" /\ client' = "gone"
      BY <1>0, <1>3, GoneStays DEF Running
    <2>2. UNCHANGED errs \/ (reads' > reads)
      BY DEF Steps, Protocol, AskNext, Finish, Interrupt, allVars
    <2>3. UNCHANGED <<reads, got>>
      BY <1>0, <2>1, CallsMade DEF calls
    <2>4. UNCHANGED errs
      BY <1>0, <2>2, <2>3
    <2>5. asks = works => UNCHANGED <<asks, works>>
      BY <1>0, <2>1, CallsMade DEF calls
    <2>. QED BY <1>0, <1>3, <2>3, <2>4, <2>5 DEF Exits, ExitTells
  <1>4. Finish \/ exit' \notin {"ok", "panic"} \/ (exit' = exit /\ cmd' = cmd)
    BY DEF Steps, Protocol, AskNext, Interrupt, allVars
  <1>. QED BY <1>1, <1>2, <1>3, <1>4

LEMMA ProgramsHold == ClientsSpec => [](IInv /\ Programs)
  <1>1. Begin => IInv /\ Programs
    <2> SUFFICES ASSUME Begin PROVE IInv /\ Programs
      OBVIOUS
    <2>1. IInv
      BY InitInv DEF Begin
    <2>2. /\ asks = 0 /\ works = 0 /\ reads = 0 /\ errs = 0 /\ exit = "none"
          /\ client = "start" /\ cmd \in Commands
      BY DEF Begin, Init
    <2>3. Len(Asked(cmd)) \in 0..3
      BY <2>2, ScriptLength
    <2>. QED BY <2>1, <2>2, <2>3 DEF Programs, Counts, Running, Exits, ExitTells
  <1>2. IInv /\ Programs /\ [Steps]_allVars => IInv' /\ Programs'
    <2> SUFFICES ASSUME IInv, Programs, [Steps]_allVars PROVE IInv' /\ Programs'
      OBVIOUS
    <2>1. Counts /\ Running /\ [Next]_vars
      BY ProgramStep DEF Programs
    <2>. QED BY <2>1, StepInv, CountsKept, RunningKept, ExitsKept DEF Programs
  <1>. QED BY <1>1, <1>2, PTL DEF ClientsSpec

(* A command that exits with 0 has had every request of its handled and    *)
(* none refused, but for `fan both` and its first request, and the         *)
(* monitoring loop panics on an error of the daemon only, for any number   *)
(* of calls and whatever becomes of the connection (main.rs:218-257,       *)
(* 316-367).                                                               *)
THEOREM ExitsTell == ClientsSpec => []ExitTells
  <1>1. Programs => ExitTells
    BY DEF Programs, Exits
  <1>. QED BY <1>1, ProgramsHold, PTL

-----------------------------------------------------------------------------
(* The client's wait.                                                      *)

(* Every run of the programs is one of the connection.                     *)
LEMMA ProgramsRunTheConnection == ClientsSpec => Spec
  <1>1. Begin => Init
    BY DEF Begin
  <1>2. IInv /\ Programs /\ [Steps]_allVars => [Next]_vars
    BY ProgramStep DEF Programs
  <1>. QED BY <1>1, <1>2, ProgramsHold, PTL DEF ClientsSpec, Spec

(* What holds of the connection holds of the programs on it: versions are  *)
(* judged alike, a closed connection is saved, and a call is handled once  *)
(* and answered with what its handler said.                                *)
THEOREM ProgramsKeepThePromises ==
  ClientsSpec => [](TypeOK /\ VersionsAgree /\ ClosedIsSaved) /\ ImplementsChannel
  <1>. QED BY ProgramsRunTheConnection, TypeCorrect, VersionsAreJudgedAlike,
              ClosedConnectionsAreSaved, ImplementsIpcChannel, PTL

Waiting == client \in {"greet", "send", "recv"}
Left    == client = "gone" /\ thread \notin {"ended", "backlog"}

(* Where one of the two can go on.                                         *)
ClientTurn ==
  \/ client = "send"
  \/ client \in {"greet", "recv"} /\ (toClient # <<>> \/ thread = "ended")

ThreadTurn ==
  \/ thread = "backlog" /\ client # "start"
  \/ thread = "hello" /\ toDaemon # <<>>
  \/ thread = "recv" /\ (toDaemon # <<>> \/ client = "gone")
  \/ thread \in {"work", "send"}

(* What was written for the client has not been lost.                      *)
Flow ==
  /\ client = "greet" /\ thread = "recv" => toClient # <<>>
  /\ client = "recv" /\ thread = "recv" /\ asks = works => cGot + Len(toClient) = 4

LEMMA LenFacts ==
  ASSUME NEW s \in Seq(PieceSet)
  PROVE  /\ Len(s) \in Nat
         /\ s = <<>> <=> Len(s) = 0
         /\ s # <<>> => Len(s) > 0 /\ Len(Tail(s)) = Len(s) - 1
         /\ \A p : Len(Append(s, p)) = Len(s) + 1 /\ Append(s, p) # <<>>
  <1>1. ASSUME NEW p PROVE Len(Append(s, p)) = Len(s) + 1 /\ Append(s, p) # <<>>
    <2>1. s \in Seq(PieceSet \cup {p}) /\ p \in PieceSet \cup {p}
      OBVIOUS
    <2>. QED BY <2>1
  <1>2. Len(s) \in Nat /\ (s = <<>> <=> Len(s) = 0)
    OBVIOUS
  <1>3. s # <<>> => Len(s) > 0 /\ Len(Tail(s)) = Len(s) - 1
    OBVIOUS
  <1>. QED BY <1>1, <1>2, <1>3

LEMMA FlowKept ==
  ASSUME IInv, Flow, [Next]_vars
  PROVE  Flow'
  <1>0. /\ toClient \in Seq(PieceSet) /\ dOut \in Seq(PieceSet)
        /\ asks \in Nat /\ works \in Nat /\ cGot \in 0..3
    BY DEF IInv, TypeOK
  <1>1. CASE Greeted
    BY <1>1 DEF Greeted, ClientLeaves, Flow
  <1>2. CASE ClientReads
    <2>1. client = "recv" /\ toClient # <<>> /\ toClient' = Tail(toClient)
          /\ (client' = "recv" => cGot' = cGot + 1 /\ UNCHANGED <<thread, asks, works>>)
          /\ client' # "greet"
      BY <1>2 DEF ClientReads, ClientLeaves, calls, threadVars
    <2>2. Len(Tail(toClient)) = Len(toClient) - 1 /\ Len(toClient) \in Nat
      BY <1>0, <2>1, LenFacts
    <2>3. ASSUME client' = "recv", thread' = "recv", asks' = works'
          PROVE  cGot' + Len(toClient') = 4
      <3>1. cGot + Len(toClient) = 4
        BY <2>1, <2>3 DEF Flow
      <3>. QED BY <1>0, <2>1, <2>2, <2>3, <3>1
    <2>. QED BY <2>1, <2>3 DEF Flow
  <1>3. CASE ClientWrites
    <2>1. client' = "recv" => asks' = works + 1 /\ works' = works
      BY <1>3 DEF ClientWrites, calls, IInv, Calling
    <2>2. client' # "greet"
      BY <1>3 DEF ClientWrites
    <2>. QED BY <1>0, <2>1, <2>2 DEF Flow
  <1>4. CASE Greet
    <2>1. client \in {"start", "greet", "gone"} /\ client' = client /\ toClient' # <<>>
      BY <1>0, <1>4, LenFacts DEF Greet, clientVars, IInv, AtGreeting
    <2>. QED BY <2>1 DEF Flow
  <1>5. CASE DaemonReads
    <2>1. thread = "recv" /\ UNCHANGED <<client, toClient, asks, works, cGot>>
      BY <1>5 DEF DaemonReads, clientVars, calls
    <2>. QED BY <2>1 DEF Flow
  <1>6. CASE DaemonWrites
    <2>1. thread = "send" /\ UNCHANGED <<client, asks, works, cGot>>
      BY <1>6 DEF DaemonWrites, clientVars, calls
    <2>2. client \in {"recv", "gone"}
      BY <2>1 DEF IInv, Working
    <2>3. CASE client = "recv" /\ thread' = "recv"
      <3>1. Len(dOut) = 1 /\ toClient' = Append(toClient, Head(dOut))
        BY <1>6, <2>3 DEF DaemonWrites
      <3>2. cGot + Len(toClient) + Len(dOut) = 4
        BY <2>1, <2>3 DEF IInv, Answering
      <3>3. Len(toClient') = Len(toClient) + 1 /\ Len(toClient) \in Nat
        BY <1>0, <3>1, LenFacts
      <3>4. cGot + Len(toClient') = 4
        BY <1>0, <3>1, <3>2, <3>3
      <3>. QED BY <2>1, <2>3, <3>4 DEF Flow
    <2>. QED BY <2>1, <2>2, <2>3 DEF Flow
  <1>7. CASE \/ Connect \/ ConnectFails \/ ClientBreaks \/ Close \/ Killed
             \/ \E r \in Requests : Call(r)
    <2>1. client' \in {"send", "gone"} \/ thread' = "backlog"
      BY <1>7 DEF Connect, ConnectFails, ClientBreaks, Close, Killed, Call, ClientLeaves, threadVars
    <2>. QED BY <2>1 DEF Flow
  <1>8. CASE \/ Accept \/ DaemonSeesEof \/ DoWork \/ DaemonDies
    <2>1. thread' # "recv"
      BY <1>8 DEF Accept, DaemonSeesEof, AtEof, DoWork, DaemonDies, ThreadEnds
    <2>. QED BY <2>1 DEF Flow
  <1>9. CASE UNCHANGED vars
    BY <1>9 DEF vars, clientVars, threadVars, calls, Flow
  <1>. QED BY <1>1, <1>2, <1>3, <1>4, <1>5, <1>6, <1>7, <1>8, <1>9 DEF Next, ClientStep, ThreadStep

LEMMA FlowHolds == Spec => [](IInv /\ Flow)
  <1>1. Init => Flow
    BY DEF Init, Flow
  <1>. QED BY <1>1, FlowKept, InvHolds, PTL DEF Spec

LEMMA OneMoves ==
  ASSUME IInv, Flow, Waiting \/ Left
  PROVE  ClientTurn \/ ThreadTurn
  <1>1. ASSUME IInv, Flow, Waiting PROVE ClientTurn \/ ThreadTurn
    <2>0. /\ toClient \in Seq(PieceSet) /\ toDaemon \in Seq(PieceSet) /\ cGot \in 0..3
          /\ dGot \in 0..3 /\ client # "start"
          /\ thread \in {"backlog", "hello", "recv", "work", "send", "ended"}
      BY <1>1 DEF IInv, TypeOK, Waiting
    <2>1. CASE thread = "hello"
      BY <1>1, <2>1 DEF IInv, AtGreeting, ThreadTurn, Waiting
    <2>2. CASE thread = "recv" /\ client = "greet"
      BY <1>1, <2>2 DEF Flow, ClientTurn
    <2>3. CASE thread = "recv" /\ client = "recv" /\ asks = works
      <3>1. cGot + Len(toClient) = 4
        BY <1>1, <2>3 DEF Flow
      <3>2. Len(toClient) # 0
        BY <2>0, <3>1
      <3>. QED BY <2>0, <2>3, <3>2, LenFacts DEF ClientTurn
    <2>4. CASE thread = "recv" /\ client = "recv" /\ asks # works
      <3>1. dGot + Len(toDaemon) = 4
        BY <1>1, <2>4 DEF IInv, Receiving
      <3>2. Len(toDaemon) # 0
        BY <2>0, <3>1
      <3>. QED BY <2>0, <2>4, <3>2, LenFacts DEF ThreadTurn
    <2>. QED BY <1>1, <2>0, <2>1, <2>2, <2>3, <2>4 DEF Waiting, ClientTurn, ThreadTurn
  <1>2. ASSUME IInv, Left PROVE ThreadTurn
    <2>1. /\ thread \in {"hello", "recv", "work", "send"} /\ client = "gone"
          /\ thread = "hello" => toDaemon = <<Piece("LCC", cv, "none")>>
      BY <1>2 DEF IInv, TypeOK, AtGreeting, Left
    <2>2. \A p : <<p>> # <<>>
      OBVIOUS
    <2>. QED BY <2>1, <2>2 DEF ThreadTurn
  <1>. QED BY <1>1, <1>2

(* The two never wait for one another: while the client waits for a        *)
(* greeting or an answer, or is gone and its connection is still open, one *)
(* of them can go on, however the frames were cut and whichever of them    *)
(* stopped in between (lib.rs:130-181, main.rs:28-53).                     *)
THEOREM OneOfThemMoves == Spec => [](Waiting \/ Left => ClientTurn \/ ThreadTurn)
  <1>1. IInv /\ Flow /\ (Waiting \/ Left) => ClientTurn \/ ThreadTurn
    BY OneMoves
  <1>. QED BY <1>1, FlowHolds, PTL

(* What is left to be done before the wait is over.                        *)
ClientToDo ==
  IF client = "gone" THEN 0
  ELSE Len(toClient) + (IF client = "send" THEN 2 * Len(cOut) ELSE 0)

ThreadToDo ==
  CASE thread = "backlog" -> Len(toDaemon) + 13
    [] thread = "hello"   -> Len(toDaemon) + 12
    [] thread = "recv"    -> Len(toDaemon) + (IF asks = works THEN 1 ELSE 10)
    [] thread = "work"    -> Len(toDaemon) + 10
    [] thread = "send"    -> Len(toDaemon) + 2 * Len(dOut) + 1
    [] OTHER              -> 0

ToDo == ClientToDo + ThreadToDo
Bound == 25

LEMMA ToDoBounded ==
  ASSUME IInv, Waiting \/ Left
  PROVE  ToDo \in Nat /\ ToDo < Bound
  <1>0. /\ toClient \in Seq(PieceSet) /\ toDaemon \in Seq(PieceSet) /\ cGot \in 0..3
        /\ dGot \in 0..3 /\ cOut \in Seq(PieceSet) /\ dOut \in Seq(PieceSet)
        /\ thread \in {"backlog", "hello", "recv", "work", "send", "ended"}
    BY DEF IInv, TypeOK
  <1>1. PICK a \in Nat, b \in Nat, c \in Nat, d \in Nat :
          a = Len(toClient) /\ b = Len(toDaemon) /\ c = Len(cOut) /\ d = Len(dOut)
    BY <1>0
  <1>2. client = "greet" => a <= 1
    BY <1>1 DEF IInv, Opening
  <1>3. client = "send" => a = 0 /\ c <= 4
    BY <1>0, <1>1, LenFacts DEF IInv, Calling
  <1>4. client = "recv" => a <= 4
    BY <1>0, <1>1, LenFacts DEF IInv, Calling, Rest
  <1>5. thread \in {"backlog", "hello"} => b <= 1
    <2>1. \A p : Len(<<p>>) = 1
      OBVIOUS
    <2>2. client # "start"
      BY DEF Waiting, Left
    <2>. QED BY <1>1, <2>1, <2>2 DEF IInv, AtGreeting
  <1>6. thread = "recv" => b <= 4
    BY <1>0, <1>1, LenFacts DEF IInv, Receiving, Rest
  <1>7. thread \in {"work", "send"} => b = 0
    BY <1>0, <1>1, LenFacts DEF IInv, Working
  <1>8. thread = "send" => d <= 4
    BY <1>1 DEF IInv, Answering
  <1>9. ClientToDo \in 0..8
    <2>1. client \in {"greet", "send", "recv", "gone"}
      BY DEF Waiting, Left
    <2>2. CASE client = "send"
      <3>1. ClientToDo = a + 2 * c
        BY <1>1, <2>2 DEF ClientToDo
      <3>. QED BY <1>1, <1>3, <2>2, <3>1
    <2>3. CASE client \in {"greet", "recv"}
      <3>1. ClientToDo = a
        BY <1>1, <2>3 DEF ClientToDo
      <3>2. a \in 0..4
        BY <1>2, <1>4, <2>3
      <3>. QED BY <3>1, <3>2
    <2>4. CASE client = "gone"
      BY <2>4 DEF ClientToDo
    <2>. QED BY <2>1, <2>2, <2>3, <2>4
  <1>10. ThreadToDo \in 0..16
    <2>1. CASE thread = "backlog"
      <3>1. ThreadToDo = b + 13
        BY <1>1, <2>1 DEF ThreadToDo
      <3>. QED BY ONLY <1>5, <2>1, <3>1, b \in Nat
    <2>2. CASE thread = "hello"
      <3>1. ThreadToDo = b + 12
        BY <1>1, <2>2 DEF ThreadToDo
      <3>. QED BY ONLY <1>5, <2>2, <3>1, b \in Nat
    <2>3. CASE thread = "recv"
      <3>1. ThreadToDo \in {b + 1, b + 10}
        BY <1>1, <2>3 DEF ThreadToDo
      <3>. QED BY <1>1, <1>6, <2>3, <3>1
    <2>4. CASE thread = "work"
      <3>1. ThreadToDo = b + 10
        BY <1>1, <2>4 DEF ThreadToDo
      <3>. QED BY <1>1, <1>7, <2>4, <3>1
    <2>5. CASE thread = "send"
      <3>1. ThreadToDo = b + 2 * d + 1
        BY <1>1, <2>5 DEF ThreadToDo
      <3>. QED BY ONLY <1>7, <1>8, <2>5, <3>1, b \in Nat, d \in Nat
    <2>6. CASE thread = "ended" BY <2>6 DEF ThreadToDo
    <2>. QED BY <1>0, <2>1, <2>2, <2>3, <2>4, <2>5, <2>6
  <1>. QED BY <1>9, <1>10 DEF ToDo, Bound

LEMMA WorkIsNat ==
  ASSUME IInv, IInv'
  PROVE  /\ ClientToDo \in Nat /\ ThreadToDo \in Nat
         /\ ClientToDo' \in Nat /\ ThreadToDo' \in Nat
  <1>1. ASSUME TypeOK PROVE ClientToDo \in Nat /\ ThreadToDo \in Nat
    <2>1. /\ Len(toClient) \in Nat /\ Len(toDaemon) \in Nat
          /\ 2 * Len(cOut) \in Nat /\ 2 * Len(dOut) \in Nat
      BY <1>1 DEF TypeOK
    <2>. QED BY <2>1 DEF ClientToDo, ThreadToDo
  <1>2. ASSUME TypeOK' PROVE ClientToDo' \in Nat /\ ThreadToDo' \in Nat
    <2>1. /\ Len(toClient') \in Nat /\ Len(toDaemon') \in Nat
          /\ 2 * Len(cOut') \in Nat /\ 2 * Len(dOut') \in Nat
      BY <1>2 DEF TypeOK
    <2>. QED BY <2>1 DEF ClientToDo, ThreadToDo
  <1>. QED BY <1>1, <1>2 DEF IInv

(* No step of the two but brings the end of the wait nearer.               *)
LEMMA ClientDrops ==
  ASSUME IInv, IInv', Waiting \/ Left, ClientStep
  PROVE  \/ Waiting /\ client' \in {"open", "gone"}
         \/ ToDo' < ToDo /\ Waiting /\ Waiting'
  <1>0. /\ toClient \in Seq(PieceSet) /\ toDaemon \in Seq(PieceSet) /\ cOut \in Seq(PieceSet)
        /\ dOut \in Seq(PieceSet)
        /\ ClientToDo \in Nat /\ ThreadToDo \in Nat /\ ClientToDo' \in Nat /\ ThreadToDo' \in Nat
    BY WorkIsNat DEF IInv, TypeOK
  <1>1. CASE Greeted
    BY <1>1 DEF Greeted, ClientLeaves, Waiting
  <1>2. CASE ClientReads
    <2>1. CASE client' = "recv"
      <3>1. client = "recv" /\ toClient # <<>> /\ toClient' = Tail(toClient)
            /\ UNCHANGED <<thread, toDaemon, dOut, asks, works>>
        BY <1>2, <2>1 DEF ClientReads, ClientLeaves, calls, threadVars
      <3>2. ClientToDo = Len(toClient) /\ ClientToDo' = Len(toClient')
        BY <1>0, <2>1, <3>1 DEF ClientToDo
      <3>3. Len(toClient') = Len(toClient) - 1
        BY <1>0, <3>1, LenFacts
      <3>4. ThreadToDo' = ThreadToDo
        BY <3>1 DEF ThreadToDo
      <3>5. ToDo' < ToDo
        BY <1>0, <3>2, <3>3, <3>4 DEF ToDo
      <3>. QED BY <2>1, <3>1, <3>5 DEF Waiting
    <2>. QED BY <1>2, <2>1 DEF ClientReads, ClientLeaves, Waiting
  <1>3. CASE ClientWrites
    <2>1. /\ client = "send" /\ thread # "ended" /\ cOut # <<>>
          /\ toDaemon' = Append(toDaemon, Head(cOut)) /\ cOut' = Tail(cOut)
          /\ client' = IF Len(cOut) = 1 THEN "recv" ELSE "send"
          /\ UNCHANGED <<thread, toClient, dOut, asks, works>>
      BY <1>3 DEF ClientWrites, calls, threadVars, IInv, Calling
    <2>2. Len(toDaemon') = Len(toDaemon) + 1 /\ Len(cOut') = Len(cOut) - 1
      BY <1>0, <2>1, LenFacts
    <2>3. ThreadToDo' = ThreadToDo + 1
      <3>1. /\ Len(toDaemon) \in Nat /\ 2 * Len(dOut) \in Nat
            /\ thread \in {"backlog", "hello", "recv", "work", "send"}
        BY <1>0, <2>1 DEF IInv, TypeOK
      <3>. QED BY <2>1, <2>2, <3>1 DEF ThreadToDo
    <2>4. ClientToDo' = ClientToDo - 2
      <3>1. PICK a \in Nat, c \in Nat : a = Len(toClient) /\ c = Len(cOut)
        BY <1>0
      <3>2. ClientToDo = a + 2 * c
        BY <2>1, <3>1 DEF ClientToDo
      <3>3. CASE c = 1
        <4>1. ClientToDo' = a
          BY <2>1, <3>1, <3>3 DEF ClientToDo
        <4>. QED BY <3>1, <3>2, <3>3, <4>1
      <3>4. CASE c # 1
        <4>1. ClientToDo' = a + 2 * (c - 1)
          BY <2>1, <2>2, <3>1, <3>4 DEF ClientToDo
        <4>. QED BY <3>1, <3>2, <4>1
      <3>. QED BY <3>3, <3>4
    <2>5. ToDo' < ToDo
      BY <1>0, <2>3, <2>4 DEF ToDo
    <2>. QED BY <2>1, <2>5 DEF Waiting
  <1>4. CASE ClientBreaks
    BY <1>4 DEF ClientBreaks, ClientLeaves, Waiting
  <1>5. ~Connect /\ ~ConnectFails
    BY DEF Connect, ConnectFails, Waiting, Left
  <1>. QED BY <1>1, <1>2, <1>3, <1>4, <1>5 DEF ClientStep

LEMMA ThreadDrops ==
  ASSUME IInv, IInv', Waiting \/ Left, ThreadStep \/ DaemonDies
  PROVE  ToDo' < ToDo /\ client' = client
  <1>0. /\ toClient \in Seq(PieceSet) /\ toDaemon \in Seq(PieceSet) /\ cOut \in Seq(PieceSet)
        /\ dOut \in Seq(PieceSet)
        /\ Len(toDaemon) \in Nat /\ Len(dOut) \in Nat /\ Len(toClient) \in Nat
        /\ 2 * Len(cOut) \in Nat
    BY DEF IInv, TypeOK
  <1>n. /\ ClientToDo \in Nat /\ ThreadToDo \in Nat
        /\ ClientToDo' \in Nat /\ ThreadToDo' \in Nat
    BY WorkIsNat
  <1>t. ToDo = ClientToDo + ThreadToDo /\ ToDo' = ClientToDo' + ThreadToDo'
    BY DEF ToDo
  <1>s. ASSUME ThreadToDo' < ThreadToDo, ClientToDo' = ClientToDo
        PROVE  ToDo' < ToDo
    <2>. DEFINE c == ClientToDo   d == ThreadToDo   e == ThreadToDo'
    <2>1. c \in Nat /\ d \in Nat /\ e \in Nat /\ e < d /\ ToDo = c + d /\ ToDo' = c + e
      BY <1>n, <1>s, <1>t
    <2>. HIDE DEF c, d, e
    <2>. QED BY ONLY <2>1
  <1>1. CASE Accept
    <2>1. /\ thread = "backlog" /\ thread' = "hello"
          /\ UNCHANGED <<client, cOut, toClient, toDaemon>>
      BY <1>1 DEF Accept, clientVars
    <2>2. ThreadToDo' = ThreadToDo - 1
      BY <1>0, <2>1 DEF ThreadToDo
    <2>3. ClientToDo' = ClientToDo
      BY <2>1 DEF ClientToDo
    <2>. QED BY <1>n, <1>s, <2>1, <2>2, <2>3
  <1>2. CASE Greet
    <2>1. /\ thread = "hello" /\ thread' \in {"recv", "ended"} /\ toDaemon # <<>>
          /\ toDaemon' = Tail(toDaemon) /\ UNCHANGED <<client, cOut, asks, works>>
          /\ \E p : toClient' = Append(toClient, p)
      BY <1>2 DEF Greet, ThreadEnds, clientVars, calls
    <2>2. Len(toDaemon') = Len(toDaemon) - 1 /\ Len(toClient') = Len(toClient) + 1
      BY <1>0, <2>1, LenFacts
    <2>3. ClientToDo' <= ClientToDo + 1
      <3>1. CASE client = "gone"
        BY <2>1, <3>1 DEF ClientToDo
      <3>2. CASE client = "send"
        BY <1>0, <2>1, <2>2, <3>2 DEF ClientToDo
      <3>3. CASE client \notin {"gone", "send"}
        <4>1. ClientToDo = Len(toClient) /\ ClientToDo' = Len(toClient) + 1
          <5>1. client' = client /\ Len(toClient') = Len(toClient) + 1
            BY <2>1, <2>2
          <5>2. Len(toClient) + 0 = Len(toClient) /\ Len(toClient') + 0 = Len(toClient')
            BY <1>0, <5>1
          <5>. QED BY <3>3, <5>1, <5>2 DEF ClientToDo
        <4>. QED BY <1>0, <4>1
      <3>. QED BY <3>1, <3>2, <3>3
    <2>4. ThreadToDo' <= ThreadToDo - 3
      <3>1. ThreadToDo = Len(toDaemon) + 12
        BY <2>1 DEF ThreadToDo
      <3>2. ThreadToDo' \in {0, Len(toDaemon) - 1 + 1, Len(toDaemon) - 1 + 10}
        BY <2>1, <2>2 DEF ThreadToDo
      <3>. QED BY <1>0, <3>1, <3>2
    <2>5. ToDo' < ToDo
      <3>. DEFINE c == ClientToDo   d == ThreadToDo   e == ThreadToDo'   f == ClientToDo'
      <3>1. /\ c \in Nat /\ d \in Nat /\ e \in Nat /\ f \in Nat /\ f <= c + 1 /\ e <= d - 3
            /\ ToDo = c + d /\ ToDo' = f + e
        BY <1>n, <1>t, <2>3, <2>4
      <3>. HIDE DEF c, d, e, f
      <3>. QED BY ONLY <3>1
    <2>. QED BY <2>1, <2>5
  <1>3. CASE DaemonReads
    <2>1. /\ thread = "recv" /\ thread' \in {"recv", "work", "ended"} /\ toDaemon # <<>>
          /\ toDaemon' = Tail(toDaemon) /\ UNCHANGED <<client, cOut, toClient, asks, works>>
      BY <1>3 DEF DaemonReads, ThreadEnds, clientVars, calls
    <2>2. asks # works
      BY <2>1 DEF IInv, Receiving, TypeOK
    <2>3. Len(toDaemon') = Len(toDaemon) - 1 /\ Len(toDaemon) > 0
      BY <1>0, <2>1, LenFacts
    <2>4. ThreadToDo = Len(toDaemon) + 10
      BY <2>1, <2>2 DEF ThreadToDo
    <2>5. ThreadToDo' \in {0, Len(toDaemon) - 1 + 10}
      BY <2>1, <2>2, <2>3 DEF ThreadToDo
    <2>6. ClientToDo' = ClientToDo
      BY <2>1 DEF ClientToDo
    <2>7. ThreadToDo' < ThreadToDo
      BY <1>0, <2>4, <2>5
    <2>. QED BY <1>s, <2>1, <2>6, <2>7
  <1>4. CASE DoWork
    <2>1. /\ thread = "work" /\ thread' = "send" /\ \E a : dOut' = Frame(dv, a)
          /\ UNCHANGED <<client, cOut, toClient, toDaemon>>
      BY <1>4 DEF DoWork, clientVars
    <2>2. Len(dOut') = 4
      BY <2>1, FrameParts
    <2>3. ThreadToDo = Len(toDaemon) + 10 /\ ThreadToDo' = Len(toDaemon) + 2 * 4 + 1
      BY <2>1, <2>2 DEF ThreadToDo
    <2>4. ClientToDo' = ClientToDo
      BY <2>1 DEF ClientToDo
    <2>5. ThreadToDo' < ThreadToDo
      BY <1>0, <2>3
    <2>. QED BY <1>s, <2>1, <2>4, <2>5
  <1>5. CASE DaemonWrites /\ client # "gone"
    <2>1. /\ thread = "send" /\ thread' = IF Len(dOut) = 1 THEN "recv" ELSE "send"
          /\ dOut # <<>> /\ dOut' = Tail(dOut) /\ asks = works
          /\ toClient' = Append(toClient, Head(dOut))
          /\ UNCHANGED <<client, cOut, toDaemon, asks, works>>
      BY <1>5 DEF DaemonWrites, clientVars, calls, IInv, Answering
    <2>2. Len(dOut') = Len(dOut) - 1 /\ Len(dOut) > 0 /\ Len(toClient') = Len(toClient) + 1
      BY <1>0, <2>1, LenFacts
    <2>3. ThreadToDo = Len(toDaemon) + 2 * Len(dOut) + 1
      BY <2>1 DEF ThreadToDo
    <2>4. ThreadToDo' = ThreadToDo - 2
      <3>1. CASE Len(dOut) = 1
        <4>1. ThreadToDo' = Len(toDaemon) + 1
          BY <2>1, <3>1 DEF ThreadToDo
        <4>. QED BY <1>0, <2>3, <3>1, <4>1
      <3>2. CASE Len(dOut) # 1
        <4>1. ThreadToDo' = Len(toDaemon) + 2 * (Len(dOut) - 1) + 1
          BY <2>1, <2>2, <3>2 DEF ThreadToDo
        <4>. QED BY <1>0, <2>3, <4>1
      <3>. QED BY <3>1, <3>2
    <2>5. ClientToDo' = ClientToDo + 1
      <3>1. client = "recv"
        BY <1>5, <2>1 DEF IInv, Working
      <3>2. ClientToDo = Len(toClient) /\ ClientToDo' = Len(toClient) + 1
        BY <1>0, <2>1, <2>2, <3>1 DEF ClientToDo
      <3>. QED BY <1>0, <3>2
    <2>6. ToDo' < ToDo
      BY ONLY <1>n, <1>t, <2>4, <2>5
    <2>. QED BY <2>1, <2>6
  <1>6. CASE DaemonSeesEof \/ (DaemonWrites /\ client = "gone") \/ DaemonDies
    <2>1. /\ thread # "ended" /\ thread' = "ended"
          /\ UNCHANGED <<client, cOut, toClient>>
      BY <1>6 DEF DaemonSeesEof, AtEof, DaemonWrites, DaemonDies, ThreadEnds, clientVars
    <2>2. ThreadToDo > 0 /\ ThreadToDo' = 0
      <3>1. thread \in {"backlog", "hello", "recv", "work", "send"}
        BY <2>1 DEF IInv, TypeOK
      <3>. QED BY <1>0, <2>1, <3>1 DEF ThreadToDo
    <2>3. ClientToDo' = ClientToDo
      BY <2>1 DEF ClientToDo
    <2>4. ThreadToDo' < ThreadToDo
      BY <2>2
    <2>. QED BY <1>s, <2>1, <2>3, <2>4
  <1>. QED BY <1>1, <1>2, <1>3, <1>4, <1>5, <1>6 DEF ThreadStep

(* What the fairness of ClientsSpec is about: a side whose turn it is can  *)
(* take a step.  ENABLED is beyond the provers, so this is a hypothesis.   *)
BothCanRun ==
  /\ [](ClientTurn => ENABLED <<Protocol /\ ClientStep>>_allVars)
  /\ [](ThreadTurn => ENABLED <<Protocol /\ ThreadStep>>_allVars)

(* A wait with less than n to do.                                          *)
Asking(n)  == Waiting /\ ToDo < n
Closing(n) == Left /\ ToDo < n

Inv == IInv /\ Programs /\ Flow

LEMMA InvOfPrograms == ClientsSpec => []Inv
  BY ProgramsRunTheConnection, ProgramsHold, FlowHolds, PTL DEF Inv

(* A step of the programs during a wait.                                   *)
LEMMA AStep ==
  ASSUME Inv, Inv', [Steps]_allVars, NEW n \in Nat, NEW m \in Nat, m = n + 1
  PROVE  /\ Asking(m) =>
              \/ Asking(n)' \/ client' \in {"open", "gone"}
              \/ UNCHANGED allVars /\ Asking(m)'
         /\ Closing(m) =>
              \/ Closing(n)' \/ thread' = "ended"
              \/ UNCHANGED allVars /\ Closing(m)'
         /\ Protocol =>
              /\ Asking(m) => Asking(n)' \/ client' \in {"open", "gone"}
              /\ Closing(m) => Closing(n)' \/ thread' = "ended"
  <1>1. CASE Protocol /\ (Waiting \/ Left)
    <2>1. ClientStep \/ ThreadStep \/ DaemonDies
      BY <1>1 DEF Protocol
    <2>2. \/ Waiting /\ client' \in {"open", "gone"}
          \/ ToDo' < ToDo /\ (Waiting' \/ client' = client)
      BY <1>1, <2>1, ClientDrops, ThreadDrops DEF Inv
    <2>3. Left => client' = "gone" /\ thread' # "backlog"
      BY <2>1 DEF Left, ClientStep, ThreadStep, Connect, ConnectFails, Greeted, ClientWrites,
         ClientReads, ClientBreaks, Accept, Greet, DaemonReads, DaemonSeesEof, AtEof, DoWork,
         DaemonWrites, DaemonDies, ThreadEnds, clientVars
    <2>4. ToDo \in Nat /\ ToDo' \in Nat
      BY WorkIsNat DEF Inv, ToDo
    <2>5. ASSUME ToDo' < ToDo, ToDo < m PROVE ToDo' < n
      BY ONLY <2>4, <2>5, n \in Nat, m = n + 1
    <2>6. Waiting /\ client' = client => Waiting'
      BY DEF Waiting
    <2>7. Left /\ ~(thread' = "ended") => Left'
      BY <2>3 DEF Left
    <2>8. ~(Waiting /\ Left)
      BY DEF Waiting, Left
    <2>. QED BY <2>2, <2>3, <2>5, <2>6, <2>7, <2>8 DEF Asking, Closing
  <1>2. CASE AskNext \/ Finish
    <2>1. client = "open"
      BY <1>2 DEF AskNext, Finish
    <2>. QED BY <2>1 DEF Asking, Closing, Waiting, Left
  <1>3. CASE Interrupt
    <2>1. client # "gone" /\ client' = "gone"
      BY <1>3 DEF Interrupt, Killed, Close, ClientLeaves
    <2>. QED BY <2>1 DEF Closing, Left
  <1>4. CASE UNCHANGED allVars
    <2>1. UNCHANGED <<client, thread, toDaemon, toClient, cOut, dOut, asks, works>>
      BY <1>4 DEF allVars, vars, clientVars, threadVars, calls
    <2>2. ToDo' = ToDo /\ Waiting' = Waiting /\ Left' = Left
      BY <2>1 DEF ToDo, ClientToDo, ThreadToDo, Waiting, Left
    <2>3. ~Protocol \/ ClientStep \/ ThreadStep \/ DaemonDies
      BY DEF Protocol
    <2>4. Waiting \/ Left => ~Protocol
      <3>. SUFFICES ASSUME Waiting \/ Left, Protocol PROVE FALSE
        OBVIOUS
      <3>1. ToDo \in Nat
        BY WorkIsNat DEF Inv, ToDo
      <3>2. ~(ToDo < ToDo)
        BY <3>1
      <3>. QED BY <2>1, <2>2, <2>3, <3>2, ClientDrops, ThreadDrops DEF Inv, Waiting
    <2>. QED BY <1>4, <2>2, <2>4 DEF Asking, Closing
  <1>. QED BY <1>1, <1>2, <1>3, <1>4 DEF Steps, Asking, Closing

(* A wait with less than m to do comes to less than n, or to its end.      *)
LeadsOn(m, n) ==
  ClientsSpec /\ BothCanRun =>
    /\ Asking(m) ~> Asking(n) \/ client \in {"open", "gone"}
    /\ Closing(m) ~> Closing(n) \/ thread = "ended"

LEMMA AWaitLeadsOn ==
  ASSUME NEW n \in Nat, NEW m \in Nat, m = n + 1
  PROVE  LeadsOn(m, n)
  <1> DEFINE AC == Asking(m) /\ ClientTurn
             AT == Asking(m) /\ ThreadTurn
             CC == Closing(m) /\ ClientTurn
             CT == Closing(m) /\ ThreadTurn
             Heard == Asking(n) \/ client \in {"open", "gone"}
             Closed == Closing(n) \/ thread = "ended"
  <1>1. ASSUME Inv, Inv', [Steps]_allVars
        PROVE  /\ (AC => AC' \/ Heard') /\ (AT => AT' \/ Heard')
               /\ (CC => CC' \/ Closed') /\ (CT => CT' \/ Closed')
    <2>1. /\ Asking(m) => Asking(n)' \/ client' \in {"open", "gone"}
                           \/ (UNCHANGED allVars /\ Asking(m)')
          /\ Closing(m) => Closing(n)' \/ thread' = "ended"
                            \/ (UNCHANGED allVars /\ Closing(m)')
      BY <1>1, AStep
    <2>2. UNCHANGED allVars => (ClientTurn => ClientTurn') /\ (ThreadTurn => ThreadTurn')
      BY DEF allVars, vars, clientVars, threadVars, ClientTurn, ThreadTurn
    <2>. QED BY <2>1, <2>2
  <1>2. ASSUME Inv, Inv', Steps, Protocol
        PROVE  /\ Asking(m) => Heard'
               /\ Closing(m) => Closed'
    BY <1>2, AStep
  <1>3. ASSUME Inv
        PROVE  /\ Asking(m) => AC \/ AT
               /\ Closing(m) => CC \/ CT
    BY <1>3, OneMoves DEF Inv, Asking, Closing
  <1>4. /\ AC \/ CC => ClientTurn
        /\ AT \/ CT => ThreadTurn
        /\ AC \/ AT => Asking(m)
        /\ CC \/ CT => Closing(m)
    OBVIOUS
  <1>5. Protocol => Steps
    BY DEF Steps
  <1>. HIDE DEF AC, AT, CC, CT
  <1>. QED BY <1>1, <1>2, <1>3, <1>4, <1>5, InvOfPrograms, PTL
           DEF ClientsSpec, BothCanRun, LeadsOn

(* Nobody waits for ever, for any versions and any number of calls, if     *)
(* either side takes its turn whenever it has one: a client that greets or *)
(* calls comes to its answer or an error, and a closed connection ends at  *)
(* the daemon (client.rs:19-60, main.rs:28-53).                            *)
THEOREM NobodyWaitsForEver == ClientsSpec /\ BothCanRun => NobodyWaits
  <1>1. /\ 1 = 0 + 1 /\ 2 = 1 + 1 /\ 3 = 2 + 1 /\ 4 = 3 + 1 /\ 5 = 4 + 1 /\ 6 = 5 + 1
        /\ 7 = 6 + 1 /\ 8 = 7 + 1 /\ 9 = 8 + 1 /\ 10 = 9 + 1 /\ 11 = 10 + 1 /\ 12 = 11 + 1
        /\ 13 = 12 + 1 /\ 14 = 13 + 1 /\ 15 = 14 + 1 /\ 16 = 15 + 1 /\ 17 = 16 + 1 /\ 18 = 17 + 1
        /\ 19 = 18 + 1 /\ 20 = 19 + 1 /\ 21 = 20 + 1 /\ 22 = 21 + 1 /\ 23 = 22 + 1 /\ 24 = 23 + 1
        /\ 25 = 24 + 1
    OBVIOUS
  <1>2. /\ LeadsOn(1, 0) /\ LeadsOn(2, 1) /\ LeadsOn(3, 2) /\ LeadsOn(4, 3)
        /\ LeadsOn(5, 4) /\ LeadsOn(6, 5) /\ LeadsOn(7, 6) /\ LeadsOn(8, 7)
        /\ LeadsOn(9, 8) /\ LeadsOn(10, 9) /\ LeadsOn(11, 10) /\ LeadsOn(12, 11)
        /\ LeadsOn(13, 12) /\ LeadsOn(14, 13) /\ LeadsOn(15, 14) /\ LeadsOn(16, 15)
        /\ LeadsOn(17, 16) /\ LeadsOn(18, 17) /\ LeadsOn(19, 18) /\ LeadsOn(20, 19)
        /\ LeadsOn(21, 20) /\ LeadsOn(22, 21) /\ LeadsOn(23, 22) /\ LeadsOn(24, 23)
        /\ LeadsOn(25, 24)
    BY <1>1, AWaitLeadsOn
  <1>3. ASSUME Inv
        PROVE  /\ (Waiting => Asking(25)) /\ (Left => Closing(25))
               /\ ~Asking(0) /\ ~Closing(0)
    BY <1>3, ToDoBounded DEF Inv, Asking, Closing, Bound
  <1>4. /\ client = "gone" => Left \/ thread = "ended" \/ thread = "backlog"
        /\ Waiting <=> client \in {"greet", "send", "recv"}
    BY DEF Left, Waiting
  <1>. QED BY <1>2, <1>3, <1>4, InvOfPrograms, PTL DEF LeadsOn, NobodyWaits
=============================================================================
