-------------------------------- MODULE MyProofs -------------------------------
(***************************************************************************)
(* Theorems about the client of MY_TFTP and the daemon: the types, the     *)
(* inductive invariant of MyInv, what an upload promises, and the order of *)
(* what a download stores.                                                 *)
(***************************************************************************)
EXTENDS MyInv, NetProofs, SequenceTheorems

USE NetworkAssumption, TftpAssumption, TftpdAssumption, MyTftpAssumption, EarlyAssumption

--------------------------------------------------------------------------------
(* Datagrams.                                                                  *)

LEMMA CountSmall == \A k \in Nat : k < M => k % M = k
  OBVIOUS

LEMMA PieceSizeType == \A k : PieceSize(k) \in Nat
  BY DEF PieceSize

LEMMA AckType ==
    \A s, p \in Socket : \A b \in 0..(M - 1) : Ack(s, p, b) \in Datagram
  BY SocketSet DEF Ack, Control, Datagram, Op

LEMMA RequestType == op \in {"RRQ", "WRQ"} => Request \in Datagram
  BY SocketSet DEF Request, Control, Datagram, Op

LEMMA BlockType ==
    \A s, p \in Socket : \A b \in 0..(M - 1) : \A k, n \in Nat :
        Data(s, p, b, k, n) \in Datagram
  BY DEF Data, Datagram, Op

\* The port that the client has learned from a datagram is a socket.
LEMMA LearnType ==
    ASSUME MyTypeOK, NEW d \in Datagram
    PROVE  /\ Learned(d)[1] \in Socket \cup {NoTid} /\ Learned(d)[2] \in Socket
           /\ d.src \in Socket /\ d.blk \in 0..(M - 1)
           /\ d.piece \in Nat /\ d.size \in Nat
<1>1. d.src \in Socket /\ d.blk \in 0..(M - 1) /\ d.piece \in Nat /\ d.size \in Nat
  BY DEF Datagram
<1>2. "nobody" \in Socket
  BY SocketSet
<1> QED BY <1>1, <1>2 DEF Learned, MyTypeOK

\* What the client sends that is no block needs no more to be sound.
LEMMA ClientSends ==
    /\ \A p, b : Sound(Ack("client", p, b))'
    /\ \A p, d : \A c \in Complaint("client", p, d) : Sound(c)'
    /\ \A p : Sound(Error("client", p))'
    /\ op' = op => Sound(Request)'
  BY DEF Sound, Ack, Control, Error, Complaint, Request

\* The state of the children that Sound depends on only grows.
Grows ==
    \A k \in Kids : kid[k].pc # "off" =>
        kid'[k].pc # "off" /\ Len(kid[k].got) <= Len(kid'[k].got)

LEMMA KidType ==
    \A q \in Kid : Len(q.got) \in Nat /\ q.got \in Seq(1..Chunks)
<1> SUFFICES ASSUME NEW q \in Kid
             PROVE  Len(q.got) \in Nat /\ q.got \in Seq(1..Chunks)
  OBVIOUS
<1>1. q.got \in Seq(1..Chunks)
  BY DEF Kid
<1> QED BY <1>1, LenProperties

LEMMA NetMonotone ==
    ASSUME NetTypeOK, NetInv, TdTypeOK, TdTypeOK', next \in Nat, next' \in Nat,
           op' = op, Posting => next <= next', Grows,
           NEW S, InFlight' \subseteq InFlight \cup S, \A d \in S : Sound(d)'
    PROVE  NetInv'
<1> SUFFICES ASSUME NEW d \in InFlight', d \in InFlight PROVE Sound(d)'
  BY DEF NetInv
<1>0. d.blk \in Nat /\ d.piece \in Nat
  <2>1. d \in Datagram
    BY DEF NetTypeOK
  <2> QED BY <2>1 DEF Datagram
<1>1. Sound(d)
  BY DEF NetInv
<1>2. CASE d = Request \/ d \in Stray \/ (d.src = "client" /\ d.op \in {"ACK", "ERROR"})
  BY <1>2 DEF Sound, Request
<1>3. CASE d.src = "client" /\ Posting /\ Block(d) /\ d.piece \in 1..next
  <2>1. d.piece \in 1..next'
    BY <1>0, <1>3
  <2> QED BY <1>3, <2>1 DEF Sound, Posting, Block, PieceSize
<1>4. CASE d.src \in Kids /\ d.dst = "client" /\ kid[d.src].pc # "off"
            /\ Posting /\ d.op = "ACK" /\ d.blk <= Len(kid[d.src].got)
  <2>1. Len(kid[d.src].got) \in Nat
    BY <1>4, KidType DEF TdTypeOK
  <2>2. Len(kid'[d.src].got) \in Nat
    BY <1>4, KidType DEF TdTypeOK
  <2>3. kid'[d.src].pc # "off" /\ d.blk <= Len(kid'[d.src].got)
    BY <1>0, <1>4, <2>1, <2>2 DEF Grows
  <2> QED BY <1>4, <2>3 DEF Sound, Posting
<1>5. CASE d.src \in Kids /\ d.dst = "client" /\ kid[d.src].pc # "off"
            /\ (d.op = "ERROR" \/ (~Posting /\ Block(d) /\ d.piece \in 1..Chunks))
  BY <1>5 DEF Sound, Posting, Block, PieceSize, Grows
<1> QED BY <1>1, <1>2, <1>3, <1>4, <1>5 DEF Sound

--------------------------------------------------------------------------------
(* The initial state.                                                          *)

LEMMA NoKidType == NoKid \in Kid
  BY DEF NoKid, Kid

LEMMA FileType == File \in Seq(1..Chunks)
  BY DEF File

LEMMA InitInv == Setting /\ Init => TransferInv
<1> SUFFICES ASSUME Setting, Init PROVE TransferInv
  OBVIOUS
<1>1. op \in {"RRQ", "WRQ"} /\ pc = "wait" /\ next = 0 /\ i = 0
  BY DEF Init, MyInit
<1>2. PICK S \in {{}} \cup {{d} : d \in Stray} :
         NetInit({Request} \cup S) /\ meddled = (S # {})
  BY DEF Init
<1>3. {Request} \cup S \in SUBSET Datagram
  BY <1>1, <1>2, RequestType
<1>4. NetTypeOK /\ InFlight = {Request} \cup S
  BY <1>2, <1>3, NetInitType
<1>5. MyTypeOK
  BY SocketSet DEF Init, MyInit, MyTypeOK
<1>6. kid = [k \in Kids |-> NoKid]
  BY DEF Init, TdInit
<1>7. TdTypeOK
  <2>1. kid \in [Kids -> Kid]
    BY <1>6, NoKidType
  <2>2. <<>> \in Seq(1..Chunks)
    OBVIOUS
  <2>3. disk \in Seq(1..Chunks) /\ dErrno = ""
    BY <2>2, FileType DEF Init, TdInit
  <2>4. broken = {} /\ down = FALSE
    BY DEF Init, TdInit
  <2> QED BY <2>1, <2>3, <2>4 DEF TdTypeOK
<1>8. TypeInv
  BY <1>1, <1>2, <1>4, <1>5, <1>7 DEF TypeInv, TypeOK, Init
<1>9. NetInv
  BY <1>2, <1>4 DEF NetInv, Sound
<1>10. ClientInv /\ KidInv /\ DoneInv
  BY <1>1, <1>6 DEF ClientInv, KidInv, Serves, DoneInv, NoKid
<1>11. DiskInv
  BY <1>6 DEF DiskInv, Posting, NoKid, Init, TdInit, Kids
<1> QED BY <1>8, <1>9, <1>10, <1>11 DEF TransferInv

--------------------------------------------------------------------------------
(* The steps of the client.                                                    *)

\* What an exchange, complete or cut short, leaves in flight.
LEMMA ExchangeKeeps ==
    ASSUME NetTypeOK, NEW D, NEW S \in SUBSET Datagram,
           Exchange(D, S) \/ ExchangeFails(D, S)
    PROVE  NetTypeOK' /\ InFlight' \subseteq InFlight \cup S
<1>1. CASE Exchange(D, S)
  BY <1>1, ExchangeType, ExchangeInFlight
<1>2. CASE ExchangeFails(D, S)
  <2>1. PICK T \in SUBSET S : Exchange(D, T)
    BY <1>2 DEF ExchangeFails
  <2>2. InFlight' \subseteq InFlight \cup T
    BY <2>1, ExchangeInFlight
  <2> QED BY <1>2, <2>2, ExchangeFailsType
<1> QED BY <1>1, <1>2

LEMMA CountedType ==
    ASSUME MyTypeOK, i < MAX_RETRY, Counted
    PROVE  /\ i' \in 0..MAX_RETRY /\ pc' \in {pc, "gaveup"}
           /\ pc' \in {"wait", "data"} => i' < MAX_RETRY
  BY DEF MyTypeOK, Counted

\* A block or an ACK that the client accepts is a child's.
LEMMA AnswerOfKid ==
    ASSUME Setting, NetInv, NEW d \in InFlight, Accepted(d), d.op \in {"DATA", "ACK"}
    PROVE  /\ d.src \in Kids
           /\ Posting => d.op = "ACK" /\ d.blk <= Len(kid[d.src].got) /\ kid[d.src].pc # "off"
           /\ ~Posting => d.piece \in 1..Chunks
<1>1. Sound(d) /\ FromHost(d, "there") /\ d.src # "client"
  BY DEF NetInv, Accepted, FromHost, Host
<1>2. d # Request /\ d \notin Stray
  BY <1>1 DEF Setting, Request, Control, FromHost, Host
<1> QED BY <1>1, <1>2 DEF Sound, Block

\* What is left to show of a step of the client.
LEMMA ClientKeeps ==
    ASSUME TransferInv, UNCHANGED <<tdvars, meddled>>, early' \in 0..MaxEarly, op' = op,
           MyTypeOK', pc' \in {"wait", "data"} => i' < MAX_RETRY,
           ClientInv', DoneInv', Posting => next <= next', NetTypeOK',
           NEW S, InFlight' \subseteq InFlight \cup S, \A d \in S : Sound(d)'
    PROVE  TransferInv'
<1>1. TypeInv'
  BY DEF TransferInv, TypeInv, TypeOK, TdTypeOK, tdvars
<1>2. next \in Nat /\ next' \in Nat /\ TdTypeOK /\ TdTypeOK' /\ NetTypeOK
  BY <1>1 DEF TransferInv, TypeInv, TypeOK, MyTypeOK
<1>3. Grows
  <2> SUFFICES ASSUME NEW k \in Kids
               PROVE  kid'[k] = kid[k] /\ Len(kid[k].got) \in Nat
    BY DEF Grows
  <2> QED BY <1>2, KidType DEF TdTypeOK, tdvars
<1>4. NetInv'
  BY <1>2, <1>3, NetMonotone DEF TransferInv
<1>5. KidInv'
  <2> SUFFICES ASSUME NEW k \in Kids PROVE Serves(kid[k])'
    BY DEF KidInv
  <2>1. kid[k] \in Kid /\ kid'[k] = kid[k] /\ Len(kid[k].got) \in Nat
    BY <1>2, KidType DEF TdTypeOK, tdvars
  <2>2. Serves(kid[k])
    BY DEF TransferInv, KidInv
  <2> QED BY <1>2, <2>1, <2>2 DEF Serves, Posting
<1>6. DiskInv'
  BY DEF TransferInv, DiskInv, Posting, tdvars
<1> QED BY <1>1, <1>4, <1>5, <1>6 DEF TransferInv

\* A download promises nothing that the client counts.
LEMMA Downloading ==
    ASSUME op = "RRQ", op' = op
    PROVE  ClientInv' /\ DoneInv' /\ ~Posting /\ ~Posting'
  BY DEF ClientInv, DoneInv, Posting

\* The conditions under which a step of the client is taken.
ClientContext ==
    Setting /\ TransferInv /\ UNCHANGED <<tdvars, meddled>> /\ early' \in 0..MaxEarly

LEMMA ContextFacts ==
    ASSUME ClientContext
    PROVE  /\ MyTypeOK /\ NetTypeOK /\ NetInv /\ ClientInv /\ KidInv /\ DoneInv
           /\ pc \in {"wait", "data"} => i < MAX_RETRY
           /\ \A d \in InFlight : d \in Datagram
  BY DEF ClientContext, TransferInv, TypeInv, TypeOK, NetTypeOK

LEMMA ReceiveForeignInv ==
    ASSUME ClientContext, NEW d \in InFlight, ReceiveForeign(d)
    PROVE  TransferInv'
<1>1. PICK S : NetTypeOK' /\ InFlight' \subseteq InFlight \cup S /\ S = {}
  BY ContextFacts, ExchangeKeeps DEF ReceiveForeign
<1>2. MyTypeOK'
  BY ContextFacts, LearnType DEF ReceiveForeign, MyTypeOK, Learn
<1>3. UNCHANGED <<op, pc, i, next>>
  BY DEF ReceiveForeign
<1>4. ClientInv' /\ DoneInv'
  BY <1>3, ContextFacts DEF ClientInv, DoneInv, Posting, ClientContext, tdvars
<1>5. next <= next' /\ op' = op /\ (pc' \in {"wait", "data"} => i' < MAX_RETRY)
  BY <1>3, ContextFacts DEF MyTypeOK
<1>6. \A c \in S : Sound(c)'
  BY <1>1
<1> QED BY <1>1, <1>2, <1>4, <1>5, <1>6, ClientKeeps DEF ClientContext

LEMMA ReceiveOtherTidInv ==
    ASSUME ClientContext, NEW d \in InFlight, ReceiveOtherTid(d)
    PROVE  TransferInv'
<1>1. {Error("client", port)} \in SUBSET Datagram
  BY ContextFacts, ErrorType, SocketSet DEF MyTypeOK
<1>2. NetTypeOK' /\ InFlight' \subseteq InFlight \cup {Error("client", port)}
  BY <1>1, ContextFacts, ExchangeKeeps DEF ReceiveOtherTid
<1>3. UNCHANGED <<op, pc, i, next, received, tid, port, got>>
  BY DEF ReceiveOtherTid, myvars
<1>4. MyTypeOK' /\ ClientInv' /\ DoneInv' /\ next <= next'
  BY <1>3, ContextFacts
     DEF MyTypeOK, ClientInv, DoneInv, Posting, ClientContext, tdvars
<1>5. Sound(Error("client", port))'
  BY DEF Sound, Error
<1> HIDE DEF ClientContext
<1>6. \A c \in {Error("client", port)} : Sound(c)'
  BY <1>3, <1>5
<1> QED BY <1>2, <1>3, <1>4, <1>6, ContextFacts, ClientKeeps DEF ClientContext

--------------------------------------------------------------------------------
(* get_file().                                                                 *)

LEMMA GetTimeoutInv ==
    ASSUME ClientContext, GetTimeout
    PROVE  TransferInv'
<1>1. op = "RRQ" /\ op' = op /\ pc = "wait" /\ i < MAX_RETRY
  BY ContextFacts DEF GetTimeout
<1> DEFINE S == IF next > 0 THEN {AckNext(next)} ELSE {Request}
<1>2. S \in SUBSET Datagram
  <2>1. AckNext(next) \in Datagram
    BY ContextFacts, AckType, CountType, SocketSet DEF AckNext, MyTypeOK
  <2> QED BY <1>1, <2>1, RequestType
<1>3. Exchange({}, S)
  BY DEF GetTimeout, AskAgain
<1>4. NetTypeOK' /\ InFlight' \subseteq InFlight \cup S
  BY <1>2, <1>3, ContextFacts, ExchangeKeeps
<1>5. i' \in 0..MAX_RETRY /\ pc' \in {pc, "gaveup"} /\ (pc' \in {"wait", "data"} => i' < MAX_RETRY)
  BY <1>1, ContextFacts, CountedType DEF GetTimeout
<1>6. MyTypeOK'
  BY <1>1, <1>5, ContextFacts, SocketSet DEF GetTimeout, MyTypeOK, Ended
<1>7. \A c \in S : Sound(c)'
  BY <1>1 DEF Sound, AckNext, Ack, Control, Request
<1> HIDE DEF S
<1> QED BY <1>1, <1>4, <1>5, <1>6, <1>7, Downloading, ClientKeeps DEF ClientContext

LEMMA GetBlockInv ==
    ASSUME ClientContext, NEW d \in InFlight, GetBlock(d)
    PROVE  TransferInv'
<1>1. op = "RRQ" /\ op' = op /\ pc = "wait" /\ i' = 0
  BY DEF GetBlock
<1> DEFINE a == Ack("client", Learned(d)[2], (next + 1) % M)
<1>2. a \in Datagram
  <2>1. next + 1 \in Nat
    BY ContextFacts DEF MyTypeOK
  <2>2. (next + 1) % M \in 0..(M - 1)
    BY <2>1, CountType
  <2> QED BY <2>2, ContextFacts, LearnType, AckType, SocketSet
<1>3. NetTypeOK' /\ InFlight' \subseteq InFlight \cup {a}
  BY <1>2, ContextFacts, ExchangeKeeps DEF GetBlock
<1>4. d.piece \in 1..Chunks
  BY <1>1, ContextFacts, AnswerOfKid DEF GetBlock, ClientContext, Posting
<1>5. got' \in Seq(1..Chunks)
  BY <1>4, ContextFacts DEF GetBlock, MyTypeOK
<1>6. MyTypeOK'
  BY <1>1, <1>5, ContextFacts, LearnType DEF GetBlock, MyTypeOK, Learn
<1>7. \A c \in {a} : Sound(c)'
  BY DEF Sound, Ack, Control
<1> HIDE DEF a
<1> QED BY <1>1, <1>3, <1>6, <1>7, Downloading, ClientKeeps DEF ClientContext

LEMMA GetFailsInv ==
    ASSUME ClientContext, NEW d \in InFlight, GetFails(d)
    PROVE  TransferInv'
<1>1. op = "RRQ" /\ op' = op /\ pc' = "failed"
  BY DEF GetFails
<1> DEFINE a == Ack("client", Learned(d)[2], (next + 1) % M)
<1>2. a \in Datagram
  <2>1. next + 1 \in Nat
    BY ContextFacts DEF MyTypeOK
  <2>2. (next + 1) % M \in 0..(M - 1)
    BY <2>1, CountType
  <2> QED BY <2>2, ContextFacts, LearnType, AckType, SocketSet
<1>3. PICK S \in SUBSET {a} : Exchange({d}, S)
  BY DEF GetFails
<1>4. NetTypeOK' /\ InFlight' \subseteq InFlight \cup S
  BY <1>2, <1>3, ContextFacts, ExchangeKeeps
<1>5. next' \in Nat
  BY ContextFacts DEF GetFails, MyTypeOK
<1>6. MyTypeOK'
  BY <1>1, <1>5, ContextFacts, LearnType DEF GetFails, MyTypeOK, Learn, Ended
<1>7. \A c \in S : Sound(c)'
  BY DEF Sound, Ack, Control
<1> HIDE DEF a
<1> QED BY <1>1, <1>4, <1>6, <1>7, Downloading, ClientKeeps DEF ClientContext

\* A complaint, if there is one, is a datagram and asks nothing.
LEMMA Complains ==
    ASSUME ClientContext, NEW d \in InFlight, Exchange({d}, Complaint("client", Learned(d)[2], d))
    PROVE  /\ NetTypeOK'
           /\ InFlight' \subseteq InFlight \cup Complaint("client", Learned(d)[2], d)
           /\ \A c \in Complaint("client", Learned(d)[2], d) : Sound(c)'
<1>1. Complaint("client", Learned(d)[2], d) \in SUBSET Datagram
  BY ContextFacts, LearnType, ComplaintType, SocketSet
<1>2. \A c \in Complaint("client", Learned(d)[2], d) : Sound(c)'
  BY DEF Complaint, Error, Sound
<1> QED BY <1>1, <1>2, ContextFacts, ExchangeKeeps

LEMMA GetOtherInv ==
    ASSUME ClientContext, NEW d \in InFlight, GetOther(d)
    PROVE  TransferInv'
<1>1. op = "RRQ" /\ op' = op /\ pc = "wait" /\ i < MAX_RETRY
  BY ContextFacts DEF GetOther
<1>2. PICK S : /\ NetTypeOK' /\ InFlight' \subseteq InFlight \cup S
               /\ \A c \in S : Sound(c)'
  BY Complains DEF GetOther
<1>3. i' \in 0..MAX_RETRY /\ pc' \in {pc, "gaveup"} /\ (pc' \in {"wait", "data"} => i' < MAX_RETRY)
  BY <1>1, ContextFacts, CountedType DEF GetOther
<1>4. MyTypeOK'
  BY <1>1, <1>3, ContextFacts, LearnType DEF GetOther, MyTypeOK, Learn, Ended
<1> QED BY <1>1, <1>2, <1>3, <1>4, Downloading, ClientKeeps DEF ClientContext

LEMMA GetLastInv ==
    ASSUME ClientContext, GetLast
    PROVE  TransferInv'
<1>1. op = "RRQ" /\ op' = op /\ pc' \in {"done", "failed"}
  BY DEF GetLast
<1>2. AckNext(next) \in Datagram
  BY ContextFacts, AckType, CountType, SocketSet DEF AckNext, MyTypeOK
<1>3. Exchange({}, {AckNext(next)}) \/ ExchangeFails({}, {AckNext(next)})
  BY DEF GetLast
<1>4. NetTypeOK' /\ InFlight' \subseteq InFlight \cup {AckNext(next)}
  BY <1>2, <1>3, ContextFacts, ExchangeKeeps
<1>5. MyTypeOK'
  BY <1>1, ContextFacts DEF GetLast, MyTypeOK, Ended
<1>6. \A c \in {AckNext(next)} : Sound(c)'
  BY DEF Sound, AckNext, Ack, Control
<1> QED BY <1>1, <1>4, <1>5, <1>6, Downloading, ClientKeeps DEF ClientContext

--------------------------------------------------------------------------------
(* post_file().                                                                *)

\* An upload goes on without another piece.
LEMMA SamePiece ==
    ASSUME ClientContext, op = "WRQ", op' = op, next' = next, pc' # "done", pc' # "last",
           pc' = "wait" => pc = "wait", pc' = "send" => next < Chunks,
           pc' \in {"data", "flood"} => pc \in {"data", "flood"}
    PROVE  ClientInv' /\ DoneInv' /\ next <= next'
<1>1. next \in 0..Chunks
  BY ContextFacts DEF ClientInv, Posting
<1>2. ClientInv'
  BY <1>1, ContextFacts DEF ClientInv, Posting
<1> QED BY <1>1, <1>2 DEF DoneInv

LEMMA PostTimeoutInv ==
    ASSUME ClientContext, PostTimeout
    PROVE  TransferInv'
<1>1. op = "WRQ" /\ op' = op /\ pc = "wait" /\ i < MAX_RETRY /\ next' = next
  BY ContextFacts DEF PostTimeout
<1>2. PICK S \in SUBSET {Request} : Exchange({}, S)
  BY DEF PostTimeout, AskAgain
<1>3. S \in SUBSET Datagram
  BY <1>1, RequestType
<1>4. NetTypeOK' /\ InFlight' \subseteq InFlight \cup S
  BY <1>2, <1>3, ContextFacts, ExchangeKeeps
<1>5. i' \in 0..MAX_RETRY /\ pc' \in {pc, "gaveup"} /\ (pc' \in {"wait", "data"} => i' < MAX_RETRY)
  BY <1>1, ContextFacts, CountedType DEF PostTimeout
<1>6. MyTypeOK'
  BY <1>1, <1>5, ContextFacts, SocketSet DEF PostTimeout, MyTypeOK, Ended
<1>7. \A c \in S : Sound(c)'
  BY <1>1 DEF Sound, Request
<1>8. ClientInv' /\ DoneInv' /\ next <= next'
  BY <1>1, <1>5, SamePiece
<1> QED BY <1>1, <1>4, <1>5, <1>6, <1>7, <1>8, ClientKeeps DEF ClientContext

LEMMA PostGrantedInv ==
    ASSUME ClientContext, NEW d \in InFlight, PostGranted(d)
    PROVE  TransferInv'
<1>1. /\ op = "WRQ" /\ op' = op /\ pc = "wait" /\ pc' \in {"send", "failed"} /\ next' = next
      /\ next = 0
  BY ContextFacts DEF PostGranted, ClientInv, Posting
<1>2. PICK S : NetTypeOK' /\ InFlight' \subseteq InFlight \cup S /\ S = {}
  BY ContextFacts, ExchangeKeeps DEF PostGranted
<1>3. MyTypeOK'
  BY <1>1, ContextFacts, LearnType DEF PostGranted, MyTypeOK, Learn, Ended
<1>4. ClientInv' /\ DoneInv' /\ next <= next'
  BY <1>1, SamePiece
<1>5. \A c \in S : Sound(c)'
  BY <1>2
<1> QED BY <1>1, <1>2, <1>3, <1>4, <1>5, ClientKeeps DEF ClientContext

LEMMA PostOtherInv ==
    ASSUME ClientContext, NEW d \in InFlight, PostOther(d)
    PROVE  TransferInv'
<1>1. op = "WRQ" /\ op' = op /\ pc = "wait" /\ i < MAX_RETRY /\ next' = next
  BY ContextFacts DEF PostOther
<1>2. PICK S : /\ NetTypeOK' /\ InFlight' \subseteq InFlight \cup S
               /\ \A c \in S : Sound(c)'
  BY Complains DEF PostOther
<1>3. i' \in 0..MAX_RETRY /\ pc' \in {pc, "gaveup"} /\ (pc' \in {"wait", "data"} => i' < MAX_RETRY)
  BY <1>1, ContextFacts, CountedType DEF PostOther
<1>4. MyTypeOK'
  BY <1>1, <1>3, ContextFacts, LearnType DEF PostOther, MyTypeOK, Learn, Ended
<1>5. ClientInv' /\ DoneInv' /\ next <= next'
  BY <1>1, <1>3, SamePiece
<1> QED BY <1>1, <1>2, <1>3, <1>4, <1>5, ClientKeeps DEF ClientContext

\* A block of the file is a datagram that the invariant allows.
LEMMA PieceSound ==
    ASSUME NEW k \in 1..Chunks, op = "WRQ", op' = op, k <= next', NEW p \in Socket
    PROVE  /\ Data("client", p, k % M, k, PieceSize(k)) \in Datagram
           /\ Sound(Data("client", p, k % M, k, PieceSize(k)))'
<1>1. k \in Nat /\ k < M
  BY DEF TftpdAssumption
<1>2. k % M = k
  BY <1>1, CountSmall
<1>3. PieceSize(k) \in Nat /\ k \in 0..(M - 1)
  BY <1>1, PieceSizeType
<1>4. Data("client", p, k, k, PieceSize(k)) \in Datagram
  BY <1>1, <1>3, BlockType, SocketSet
<1>5. Sound(Data("client", p, k, k, PieceSize(k)))'
  BY <1>1 DEF Sound, Data, Block, PieceSize, Posting
<1> QED BY <1>2, <1>4, <1>5

LEMMA PostPieceInv ==
    ASSUME ClientContext, PostPiece
    PROVE  TransferInv'
<1>1. /\ op = "WRQ" /\ op' = op /\ pc' \in {"data", "failed"} /\ i' = 0
      /\ next \in 0..Chunks /\ next < Chunks /\ next' = next + 1
  BY ContextFacts DEF PostPiece, ClientInv, Posting
<1>2. PICK k \in 1..Chunks, p \in Socket : k = next + 1 /\ p = port
  BY <1>1, ContextFacts DEF MyTypeOK
<1> DEFINE packet == Data("client", p, k % M, k, PieceSize(k))
<1>3. packet \in Datagram /\ Sound(packet)'
  BY <1>1, <1>2, PieceSound
<1>4. Exchange({}, {packet}) \/ ExchangeFails({}, {packet})
  BY <1>2 DEF PostPiece
<1> HIDE DEF packet
<1>5. NetTypeOK' /\ InFlight' \subseteq InFlight \cup {packet}
  BY <1>3, <1>4, ContextFacts, ExchangeKeeps
<1>6. MyTypeOK'
  BY <1>1, ContextFacts DEF PostPiece, MyTypeOK, Ended
<1>7. ClientInv' /\ DoneInv' /\ next <= next'
  BY <1>1 DEF ClientInv, DoneInv, Posting
<1>8. PICK S : S = {packet}
  OBVIOUS
<1>9. \A c \in S : Sound(c)'
  BY <1>3, <1>8
<1> QED BY <1>1, <1>5, <1>6, <1>7, <1>8, <1>9, ClientKeeps DEF ClientContext

LEMMA PostAckedInv ==
    ASSUME ClientContext, NEW d \in InFlight, PostAcked(d)
    PROVE  TransferInv'
<1>1. /\ op = "WRQ" /\ op' = op /\ pc = "data" /\ i' = i /\ next' = next
      /\ i < MAX_RETRY /\ next \in 1..Chunks
      /\ pc' = IF PieceSize(next) < StdSize THEN "done" ELSE "send"
  BY ContextFacts DEF PostAcked, ClientInv, Posting
<1>2. PICK S : NetTypeOK' /\ InFlight' \subseteq InFlight \cup S /\ S = {}
  BY ContextFacts, ExchangeKeeps DEF PostAcked
<1>3. MyTypeOK'
  BY <1>1, ContextFacts, LearnType DEF PostAcked, MyTypeOK, Learn, Ended
<1>4. PieceSize(next) < StdSize <=> next = Chunks
  BY DEF PieceSize
<1>5. ClientInv' /\ next <= next'
  BY <1>1, <1>4 DEF ClientInv, Posting
<1>6. DoneInv'
  <2> SUFFICES ASSUME pc' = "done" PROVE \E k \in Kids : Len(kid'[k].got) = Chunks
    BY DEF DoneInv
  <2>1. next = Chunks
    BY <1>1, <1>4
  <2>2. d.src \in Kids /\ d.blk <= Len(kid[d.src].got) /\ kid[d.src].pc # "off" /\ d.blk = next
    BY <1>1, ContextFacts, AnswerOfKid DEF PostAcked, Acks, Posting, ClientContext
  <2>3. Len(kid[d.src].got) <= next /\ Len(kid[d.src].got) \in Nat
    <3>1. Serves(kid[d.src]) /\ kid[d.src] \in Kid
      BY <2>2, ContextFacts DEF KidInv, ClientContext, TransferInv, TypeInv, TypeOK, TdTypeOK
    <3> QED BY <1>1, <2>2, <3>1, KidType DEF Serves, Posting
  <2>4. Len(kid[d.src].got) = Chunks
    BY <1>1, <2>1, <2>2, <2>3
  <2> QED BY <2>2, <2>4 DEF ClientContext, tdvars
<1>7. \A c \in S : Sound(c)'
  BY <1>2
<1> QED BY <1>1, <1>2, <1>3, <1>5, <1>6, <1>7, ClientKeeps DEF ClientContext

LEMMA ResendsType ==
    ASSUME ClientContext, op = "WRQ", pc = "data", NEW r, Resends(r)
    PROVE  /\ i' \in 0..MAX_RETRY /\ pc' \in {"data", "gaveup", "flood"}
           /\ pc' \in {"wait", "data"} => i' < MAX_RETRY
  BY ContextFacts, CountedType DEF Resends, MyTypeOK

LEMMA PostMismatchInv ==
    ASSUME ClientContext, NEW d \in InFlight, PostMismatch(d)
    PROVE  TransferInv'
<1>1. op = "WRQ" /\ op' = op /\ pc = "data" /\ next' = next
  BY DEF PostMismatch
<1>2. PICK S : /\ NetTypeOK' /\ InFlight' \subseteq InFlight \cup S
               /\ \A c \in S : Sound(c)'
  BY Complains DEF PostMismatch
<1>3. /\ i' \in 0..MAX_RETRY /\ pc' \in {"data", "gaveup", "flood"}
      /\ pc' \in {"wait", "data"} => i' < MAX_RETRY
  BY <1>1, ResendsType DEF PostMismatch
<1>4. MyTypeOK'
  BY <1>1, <1>3, ContextFacts, LearnType DEF PostMismatch, MyTypeOK, Learn, Ended
<1>5. ClientInv' /\ DoneInv' /\ next <= next'
  BY <1>1, <1>3, SamePiece
<1> QED BY <1>1, <1>2, <1>3, <1>4, <1>5, ClientKeeps DEF ClientContext

LEMMA PostDataTimeoutInv ==
    ASSUME ClientContext, PostDataTimeout
    PROVE  TransferInv'
<1>1. op = "WRQ" /\ op' = op /\ pc = "data" /\ next' = next
  BY DEF PostDataTimeout
<1>2. PICK S : NetTypeOK' /\ InFlight' \subseteq InFlight \cup S /\ S = {}
  BY ContextFacts, QuietType DEF PostDataTimeout
<1>3. /\ i' \in 0..MAX_RETRY /\ pc' \in {"data", "gaveup", "flood"}
      /\ pc' \in {"wait", "data"} => i' < MAX_RETRY
  BY <1>1, ResendsType DEF PostDataTimeout
<1>4. MyTypeOK'
  BY <1>1, <1>3, ContextFacts DEF PostDataTimeout, MyTypeOK, Ended
<1>5. ClientInv' /\ DoneInv' /\ next <= next'
  BY <1>1, <1>3, SamePiece
<1>6. \A c \in S : Sound(c)'
  BY <1>2
<1> QED BY <1>1, <1>2, <1>3, <1>4, <1>5, <1>6, ClientKeeps DEF ClientContext

LEMMA PostFloodInv ==
    ASSUME ClientContext, PostFlood
    PROVE  TransferInv'
<1>1. /\ op = "WRQ" /\ op' = op /\ pc = "flood" /\ pc' \in {"flood", "failed"}
      /\ next \in 1..Chunks /\ next' = next
  BY ContextFacts DEF PostFlood, ClientInv, Posting
<1>2. PICK k \in 1..Chunks, p \in Socket : k = next /\ p = port
  BY <1>1, ContextFacts DEF MyTypeOK
<1> DEFINE packet == Data("client", p, k % M, k, PieceSize(k))
<1>3. packet \in Datagram /\ Sound(packet)'
  <2>1. k <= next'
    BY <1>1, <1>2
  <2> QED BY <1>1, <2>1, PieceSound
<1>4. Exchange({}, {packet}) \/ ExchangeFails({}, {packet})
  BY <1>2 DEF PostFlood
<1> HIDE DEF packet
<1>5. NetTypeOK' /\ InFlight' \subseteq InFlight \cup {packet}
  BY <1>3, <1>4, ContextFacts, ExchangeKeeps
<1>6. MyTypeOK'
  BY <1>1, ContextFacts DEF PostFlood, MyTypeOK, Ended
<1>7. ClientInv' /\ DoneInv' /\ next <= next'
  BY <1>1, SamePiece
<1>8. PICK S : S = {packet}
  OBVIOUS
<1>9. \A c \in S : Sound(c)'
  BY <1>3, <1>8
<1> QED BY <1>1, <1>5, <1>6, <1>7, <1>8, <1>9, ClientKeeps DEF ClientContext

LEMMA EarlyType ==
    ASSUME TypeOK, NEW order, InTime(order)
    PROVE  early' \in 0..MaxEarly
  BY DEF TypeOK, InTime

LEMMA ClientStepInv ==
    ASSUME Setting, TransferInv, ClientStep
    PROVE  TransferInv'
<1>1. TypeOK
  BY DEF TransferInv, TypeInv
<1>2. CASE ClientTimeout
  <2>1. early' \in 0..MaxEarly
    BY <1>1, <1>2, EarlyType DEF ClientTimeout
  <2>2. ClientContext
    BY <1>2, <2>1 DEF ClientContext, ClientTimeout
  <2> QED BY <1>2, <2>2, GetTimeoutInv, PostTimeoutInv, PostDataTimeoutInv
          DEF ClientTimeout, MyTimeout
<1>3. CASE MyStep /\ UNCHANGED <<tdvars, ambience>>
  <2>1. ClientContext
    BY <1>1, <1>3 DEF ClientContext, ambience, TypeOK
  <2>2. CASE GetLast \/ PostPiece \/ PostFlood
    BY <2>1, <2>2, GetLastInv, PostPieceInv, PostFloodInv
  <2>3. CASE \E d \in InFlight :
                \/ ReceiveForeign(d) \/ ReceiveOtherTid(d)
                \/ GetBlock(d) \/ GetFails(d) \/ GetOther(d)
    BY <2>1, <2>3, ReceiveForeignInv, ReceiveOtherTidInv, GetBlockInv, GetFailsInv, GetOtherInv
  <2>4. CASE \E d \in InFlight :
                PostGranted(d) \/ PostOther(d) \/ PostAcked(d) \/ PostMismatch(d)
    BY <2>1, <2>4, PostGrantedInv, PostOtherInv, PostAckedInv, PostMismatchInv
  <2> QED BY <1>3, <2>2, <2>3, <2>4 DEF MyStep
<1> QED BY <1>2, <1>3 DEF ClientStep

--------------------------------------------------------------------------------
(* The steps of the server.                                                    *)

\* The conditions under which a step of the server is taken.
ServerContext ==
    Setting /\ TransferInv /\ UNCHANGED <<myvars, meddled>> /\ early' \in 0..MaxEarly

LEMMA ServerFacts ==
    ASSUME ServerContext
    PROVE  /\ NetTypeOK /\ NetInv /\ MyTypeOK /\ ClientInv /\ KidInv /\ DiskInv /\ TdTypeOK
           /\ op' = op /\ next' = next /\ next \in Nat /\ pc' = pc
           /\ Posting => next <= Chunks
           /\ \A k \in Kids : kid[k] \in Kid /\ Serves(kid[k])
           /\ \A d \in InFlight : d \in Datagram
           /\ disk \in Seq(1..Chunks)
<1>1. NetTypeOK /\ MyTypeOK /\ TdTypeOK /\ ClientInv /\ KidInv /\ NetInv /\ DiskInv
  BY DEF ServerContext, TransferInv, TypeInv, TypeOK
<1>2. op' = op /\ next' = next /\ pc' = pc
  BY DEF ServerContext, myvars
<1>3. next \in Nat /\ (Posting => next <= Chunks)
  BY <1>1 DEF MyTypeOK, ClientInv
<1>4. \A k \in Kids : kid[k] \in Kid /\ Serves(kid[k])
  BY <1>1 DEF TdTypeOK, KidInv
<1>5. disk \in Seq(1..Chunks) /\ \A d \in InFlight : d \in Datagram
  BY <1>1 DEF TdTypeOK, NetTypeOK
<1> QED BY <1>1, <1>2, <1>3, <1>4, <1>5

\* What a step keeps of the history of failed calls.
Marks ==
    /\ broken \subseteq broken' /\ broken' \subseteq (Kids \cup {"tftpd"}) \X (Faults \cup {"fork"})
    /\ down' \in BOOLEAN

LEMMA BrokenGrows ==
    ASSUME ServerContext, NEW p \in Kids \cup {"tftpd"}, NEW f,
           \/ UNCHANGED broken \/ Breaks(p, f)
           \/ f = "fork" /\ broken' = broken \cup {<<p, f>>},
           down' \in BOOLEAN \/ UNCHANGED down
    PROVE  Marks
<1> DEFINE T == (Kids \cup {"tftpd"}) \X (Faults \cup {"fork"})
<1>1. broken \subseteq T /\ down \in BOOLEAN
  BY ServerFacts DEF TdTypeOK
<1>2. broken \subseteq broken' /\ broken' \subseteq T
  <2>1. CASE Breaks(p, f) \/ (f = "fork" /\ broken' = broken \cup {<<p, f>>})
    <3>1. broken' = broken \cup {<<p, f>>} /\ <<p, f>> \in T
      BY <2>1 DEF Breaks
    <3> QED BY <1>1, <3>1
  <2>2. CASE UNCHANGED broken
    BY <1>1, <2>2
  <2> QED BY <2>1, <2>2
<1> QED BY <1>1, <1>2 DEF Marks

\* What is left to show of a step of the server.
LEMMA ServerKeeps ==
    ASSUME ServerContext, TdTypeOK', KidInv', DiskInv', Grows, NetTypeOK',
           NEW S, InFlight' \subseteq InFlight \cup S, \A d \in S : Sound(d)'
    PROVE  TransferInv'
<1>1. TypeInv' /\ ClientInv'
  BY DEF ServerContext, TransferInv, TypeInv, TypeOK, MyTypeOK, ClientInv, Posting, myvars
<1>2. next <= next' /\ next' \in Nat
  BY ServerFacts
<1>3. NetInv'
  BY <1>2, ServerFacts, NetMonotone
<1>4. DoneInv'
  <2> SUFFICES ASSUME Posting, pc = "done" PROVE \E k \in Kids : Len(kid'[k].got) = Chunks
    BY ServerFacts DEF DoneInv, Posting
  <2>1. PICK k \in Kids : Len(kid[k].got) = Chunks
    BY DEF ServerContext, TransferInv, DoneInv
  <2>2. kid[k].pc # "off"
    <3> SUFFICES ASSUME kid[k].pc = "off" PROVE FALSE
      OBVIOUS
    <3>1. kid[k].got = <<>>
      BY ServerFacts DEF Serves, NoKid
    <3> QED BY <2>1, <3>1 DEF TftpdAssumption
  <2>3. kid'[k] \in Kid /\ Serves(kid[k])'
    BY DEF TdTypeOK, KidInv
  <2>4. kid'[k].pc # "off" /\ Chunks <= Len(kid'[k].got)
    BY <2>1, <2>2 DEF Grows
  <2>5. Len(kid'[k].got) <= Chunks
    BY <2>3, <2>4, ServerFacts, KidType DEF Serves, Posting
  <2>6. Len(kid'[k].got) \in Nat
    BY <2>3, KidType
  <2> QED BY <2>4, <2>5, <2>6
<1> QED BY <1>1, <1>3, <1>4 DEF TransferInv

LEMMA SameLength == \A s, t : s \in Seq(1..Chunks) /\ t = s => Len(s) <= Len(t)
  OBVIOUS

\* A child goes on, and still serves the request.
LEMMA OneKid ==
    ASSUME ServerContext, NEW k \in Kids, NEW q \in Kid, kid' = [kid EXCEPT ![k] = q],
           kid[k].pc # "off", q.pc # "off", Len(kid[k].got) <= Len(q.got), Serves(q)
    PROVE  kid' \in [Kids -> Kid] /\ KidInv' /\ Grows
<1>1. kid' \in [Kids -> Kid]
  BY ServerFacts DEF TdTypeOK
<1>2. KidInv'
  <2> SUFFICES ASSUME NEW l \in Kids PROVE Serves(kid[l])'
    BY DEF KidInv
  <2>1. CASE l = k
    <3>1. kid'[l] = q
      BY <2>1, ServerFacts DEF TdTypeOK
    <3> QED BY <3>1, ServerFacts DEF Serves, Posting
  <2>2. CASE l # k
    <3>1. kid'[l] = kid[l]
      BY <2>2, ServerFacts DEF TdTypeOK
    <3> QED BY <3>1, ServerFacts DEF Serves, Posting
  <2> QED BY <2>1, <2>2
<1>3. Grows
  <2> SUFFICES ASSUME NEW l \in Kids, kid[l].pc # "off"
               PROVE  kid'[l].pc # "off" /\ Len(kid[l].got) <= Len(kid'[l].got)
    BY DEF Grows
  <2>1. CASE l = k
    BY <2>1, ServerFacts DEF TdTypeOK
  <2>2. CASE l # k
    <3>1. kid'[l] = kid[l] /\ Len(kid[l].got) \in Nat
      BY <2>2, ServerFacts, KidType DEF TdTypeOK
    <3> QED BY <3>1
  <2> QED BY <2>1, <2>2
<1> QED BY <1>1, <1>2, <1>3

\* waitpid() changes at most that a child which has ended is reaped.
LEMMA ReapedKeeps ==
    ASSUME ServerContext, NEW after \in Reaped
    PROVE  /\ after \in [Kids -> Kid]
           /\ \A k \in Kids :
                 /\ Serves(after[k]) /\ after[k].got = kid[k].got
                 /\ after[k].pc = "off" <=> kid[k].pc = "off"
                 /\ \/ after[k].pc = kid[k].pc
                    \/ kid[k].pc = "zombie" /\ after[k].pc = "reaped"
<1>1. CASE after = kid
  BY <1>1, ServerFacts DEF TdTypeOK
<1>2. CASE \E z \in Kids : kid[z].pc = "zombie" /\ after = [kid EXCEPT ![z].pc = "reaped"]
  <2>1. PICK z \in Kids : kid[z].pc = "zombie" /\ after = [kid EXCEPT ![z].pc = "reaped"]
    BY <1>2
  <2>2. PICK q : q = [kid[z] EXCEPT !.pc = "reaped"]
    OBVIOUS
  <2>3. /\ q \in Kid /\ q.pc = "reaped" /\ q.op = kid[z].op /\ q.count = kid[z].count
        /\ q.j = kid[z].j /\ q.got = kid[z].got
    BY <2>2, ServerFacts DEF Kid
  <2>4. Serves(q)
    BY <2>1, <2>3, ServerFacts DEF Serves
  <2>5. after \in [Kids -> Kid] /\ \A k \in Kids : after[k] = IF k = z THEN q ELSE kid[k]
    BY <2>1, <2>2, <2>3, ServerFacts DEF TdTypeOK
  <2> SUFFICES ASSUME NEW k \in Kids
               PROVE  /\ Serves(after[k]) /\ after[k].got = kid[k].got
                      /\ after[k].pc = "off" <=> kid[k].pc = "off"
                      /\ \/ after[k].pc = kid[k].pc
                         \/ kid[k].pc = "zombie" /\ after[k].pc = "reaped"
    BY <2>5
  <2>6. CASE k = z
    BY <2>1, <2>3, <2>4, <2>5, <2>6
  <2>7. CASE k # z
    BY <2>5, <2>7, ServerFacts
  <2> QED BY <2>6, <2>7
<1> QED BY <1>1, <1>2 DEF Reaped

\* A round of the loop that serves nothing.
LEMMA LoopKeeps ==
    ASSUME ServerContext, kid' \in Reaped, disk' = disk, Marks,
           dErrno' \in {"", "EAGAIN", "ECHILD"}, NetTypeOK', InFlight' \subseteq InFlight
    PROVE  TransferInv'
<1>1. TdTypeOK'
  BY ReapedKeeps, ServerFacts DEF TdTypeOK, Marks
<1>2. KidInv'
  <2> SUFFICES ASSUME NEW k \in Kids PROVE Serves(kid[k])'
    BY DEF KidInv
  <2>1. Serves(kid'[k])
    BY ReapedKeeps
  <2> QED BY <2>1, ServerFacts DEF Serves, Posting
<1>3. Grows
  <2> SUFFICES ASSUME NEW k \in Kids, kid[k].pc # "off"
               PROVE  kid'[k].pc # "off" /\ Len(kid[k].got) <= Len(kid'[k].got)
    BY DEF Grows
  <2>1. kid'[k].got = kid[k].got /\ kid'[k].pc # "off"
    BY ReapedKeeps
  <2>2. kid[k].got \in Seq(1..Chunks)
    BY ServerFacts, KidType
  <2> QED BY <2>1, <2>2, SameLength
<1>4. DiskInv'
  <2>1. "child" \in Kids /\ "beside" \in Kids
    BY DEF Kids
  <2>2. /\ kid'["child"].got = kid["child"].got
        /\ kid'["beside"].pc = "off" <=> kid["beside"].pc = "off"
        /\ kid'["child"].pc \in {"zombie", "reaped"} <=> kid["child"].pc \in {"zombie", "reaped"}
    BY <2>1, ReapedKeeps
  <2> QED BY <2>2, ServerFacts DEF DiskInv, Posting, Marks
<1>5. PICK S : S = {}
  OBVIOUS
<1>6. InFlight' \subseteq InFlight \cup S /\ \A d \in S : Sound(d)'
  BY <1>5
<1> QED BY <1>1, <1>2, <1>3, <1>4, <1>6, ServerKeeps

LEMMA WaitpidType ==
    ASSUME ServerContext
    PROVE  AfterWaitpid \in {"", "EAGAIN", "ECHILD"} /\ dErrno \in {"", "EAGAIN", "ECHILD"}
  BY ServerFacts DEF AfterWaitpid, TdTypeOK

LEMMA PollNothingInv ==
    ASSUME ServerContext, PollNothing
    PROVE  TransferInv'
<1>1. NetTypeOK' /\ InFlight' \subseteq InFlight
  BY ServerFacts, QuietType DEF PollNothing
<1>2. Marks
  BY BrokenGrows DEF PollNothing
<1> QED BY <1>1, <1>2, LoopKeeps DEF PollNothing

LEMMA PollFailsInv ==
    ASSUME ServerContext, PollFails
    PROVE  TransferInv'
<1>1. NetTypeOK' /\ InFlight' \subseteq InFlight
  BY ServerFacts, QuietType DEF PollFails
<1>2. Marks
  BY BrokenGrows DEF PollFails
<1> QED BY <1>1, <1>2, WaitpidType, LoopKeeps DEF PollFails

LEMMA PollDropsInv ==
    ASSUME ServerContext, NEW d \in InFlight,
           PollOverwritten(d) \/ PollUnserved(d) \/ PollInvalid(d)
    PROVE  TransferInv'
<1>1. PICK S : Exchange({d}, S) /\ S = {} /\ S \in SUBSET Datagram
  BY DEF PollOverwritten, PollUnserved, PollInvalid
<1>2. NetTypeOK' /\ InFlight' \subseteq InFlight
  BY <1>1, ServerFacts, ExchangeKeeps
<1>3. Marks
  <2>1. CASE PollUnserved(d)
    BY <2>1, BrokenGrows DEF PollUnserved
  <2>2. CASE PollOverwritten(d) \/ PollInvalid(d)
    BY <2>2, BrokenGrows DEF PollOverwritten, PollInvalid
  <2> QED BY <2>1, <2>2
<1>4. kid' \in Reaped /\ disk' = disk /\ dErrno' \in {"", "EAGAIN", "ECHILD"}
  BY WaitpidType DEF PollOverwritten, PollUnserved, PollInvalid, Polled
<1> QED BY <1>2, <1>3, <1>4, LoopKeeps

\* A request in flight is the client's.
LEMMA OnlyRequest ==
    ASSUME ServerContext, NEW d \in InFlight, d.op \in {"RRQ", "WRQ"}
    PROVE  d.op = op
<1>1. Sound(d)
  BY ServerFacts DEF NetInv
<1>2. d \notin Stray
  BY DEF TftpAssumption
<1> QED BY <1>1, <1>2 DEF Sound, Block, Request, Control

\* What a request makes of the child, the disk and the network.
LEMMA Forked ==
    ASSUME ServerContext, NEW d \in InFlight, NEW k \in Kids, PollRequest(d, k)
    PROVE  \E after \in Reaped : \E pc1 \in {"send", "wait", "close", "zombie"} :
              /\ kid' = [after EXCEPT ![k] = [NoKid EXCEPT !.op = op, !.count = 1, !.pc = pc1]]
              /\ op = "RRQ" => disk' = disk /\ pc1 \in {"send", "zombie"}
              /\ op = "WRQ" => \/ disk' = <<>> /\ pc1 \in {"wait", "close"}
                               \/ disk' = disk /\ pc1 = "zombie"
  BY OnlyRequest DEF PollRequest, Polled

LEMMA ForkSends ==
    ASSUME NEW d, NEW k \in Kids, PollRequest(d, k)
    PROVE  \E S : /\ Exchange({d}, S) \/ ExchangeFails({d}, S)
                  /\ \/ S = {} \/ S = {Error(k, "client")}
                     \/ S = {Ack(k, "client", 0)} /\ d.op = "WRQ"
<1>1. CASE Exchange({d}, {})
  BY <1>1
<1>2. CASE Exchange({d}, {Error(k, "client")}) \/ ExchangeFails({d}, {Error(k, "client")})
  BY <1>2
<1>3. CASE d.op = "WRQ" /\ Exchange({d}, {Ack(k, "client", 0)})
  BY <1>3
<1> QED BY <1>1, <1>2, <1>3 DEF PollRequest

LEMMA PollRequestInv ==
    ASSUME ServerContext, NEW d \in InFlight, NEW k \in Kids, PollRequest(d, k)
    PROVE  TransferInv'
<1>1. d.op = op /\ kid[k].pc = "off" /\ (k = "beside" => kid["child"].pc # "off")
  BY OnlyRequest DEF PollRequest
<1>2. PICK after \in Reaped, pc1 \in {"send", "wait", "close", "zombie"} :
         /\ kid' = [after EXCEPT ![k] = [NoKid EXCEPT !.op = op, !.count = 1, !.pc = pc1]]
         /\ op = "RRQ" => disk' = disk /\ pc1 \in {"send", "zombie"}
         /\ op = "WRQ" => \/ disk' = <<>> /\ pc1 \in {"wait", "close"}
                          \/ disk' = disk /\ pc1 = "zombie"
  BY Forked
<1>3. PICK q : q = [NoKid EXCEPT !.op = op, !.count = 1, !.pc = pc1]
  OBVIOUS
<1>4. /\ q.op = op /\ q.count = 1 /\ q.j = 0 /\ q.got = <<>> /\ q.pc = pc1
      /\ op \in {"RRQ", "WRQ"} /\ pc1 # "off"
  BY <1>1, <1>3, ServerFacts DEF NoKid, MyTypeOK
<1>5. q \in Kid
  <2>1. 1 \in 0..(Chunks + 1) /\ 0 \in 0..RETRIES /\ <<>> \in Seq(1..Chunks)
    OBVIOUS
  <2>2. q = [pc |-> q.pc, op |-> q.op, count |-> 1, j |-> 0, got |-> <<>>]
    BY <1>3 DEF NoKid
  <2> QED BY <1>4, <2>1, <2>2 DEF Kid
<1>6. Serves(q) /\ Len(q.got) = 0
  <2>1. Len(q.got) = 0 /\ 0 <= next
    BY <1>4, ServerFacts
  <2> QED BY <1>2, <1>4, <2>1 DEF Serves, Posting
<1>7. kid' \in [Kids -> Kid] /\ \A l \in Kids : kid'[l] = IF l = k THEN q ELSE after[l]
  BY <1>2, <1>3, <1>5, ReapedKeeps
<1>8. KidInv'
  <2> SUFFICES ASSUME NEW l \in Kids PROVE Serves(kid[l])'
    BY DEF KidInv
  <2>1. Serves(kid'[l])
    BY <1>6, <1>7, ReapedKeeps
  <2> QED BY <2>1, ServerFacts DEF Serves, Posting
<1>9. Grows
  <2> SUFFICES ASSUME NEW l \in Kids, kid[l].pc # "off"
               PROVE  kid'[l].pc # "off" /\ Len(kid[l].got) <= Len(kid'[l].got)
    BY DEF Grows
  <2>1. kid'[l].got = kid[l].got /\ kid'[l].pc # "off"
    BY <1>1, <1>7, ReapedKeeps
  <2>2. kid[l].got \in Seq(1..Chunks)
    BY ServerFacts, KidType
  <2> QED BY <2>1, <2>2, SameLength
<1>10. Marks
  BY BrokenGrows DEF PollRequest
<1>11. TdTypeOK'
  <2>1. <<>> \in Seq(1..Chunks)
    OBVIOUS
  <2>2. disk' \in Seq(1..Chunks)
    BY <1>2, <1>4, <2>1, ServerFacts
  <2>3. dErrno' \in {"", "EAGAIN", "ECHILD"}
    BY WaitpidType DEF PollRequest, Polled
  <2> QED BY <1>7, <1>10, <2>2, <2>3 DEF TdTypeOK, Marks
<1>12. DiskInv'
  <2>1. CASE k = "beside"
    BY <1>4, <1>7, <2>1 DEF DiskInv
  <2>2. CASE k = "child"
    <3> SUFFICES ASSUME Posting', kid'["beside"].pc = "off", <<"child", "flush">> \notin broken'
                 PROVE  disk' = IF kid'["child"].pc \in {"zombie", "reaped"}
                                THEN kid'["child"].got ELSE <<>>
      BY DEF DiskInv
    <3>1. op = "WRQ" /\ kid'["child"] = q /\ kid["beside"].pc = "off"
      BY <1>7, <2>2, ReapedKeeps, ServerFacts DEF Posting, Kids
    <3>2. disk = <<>>
      BY <1>1, <1>10, <2>2, <3>1, ServerFacts DEF DiskInv, Posting, Marks
    <3> QED BY <1>2, <1>4, <3>1, <3>2
  <2> QED BY <2>1, <2>2 DEF Kids
<1>13. PICK S : /\ Exchange({d}, S) \/ ExchangeFails({d}, S)
                /\ \/ S = {} \/ S = {Error(k, "client")}
                   \/ S = {Ack(k, "client", 0)} /\ d.op = "WRQ"
  BY ForkSends
<1>14. S \in SUBSET Datagram
  <2>1. Ack(k, "client", 0) \in Datagram /\ Error(k, "client") \in Datagram
    BY AckType, ErrorType, SocketSet DEF Kids
  <2> QED BY <1>13, <2>1
<1>15. NetTypeOK' /\ InFlight' \subseteq InFlight \cup S
  BY <1>13, <1>14, ServerFacts, ExchangeKeeps
<1>16. \A c \in S : Sound(c)'
  <2>1. kid'[k].pc # "off" /\ 0 <= Len(kid'[k].got)
    BY <1>4, <1>6, <1>7
  <2>2. Sound(Error(k, "client"))'
    BY <2>1 DEF Sound, Error, Control
  <2>3. d.op = "WRQ" => Sound(Ack(k, "client", 0))'
    <3>1. d.op = "WRQ" => Posting'
      BY <1>1, ServerFacts DEF Posting
    <3> QED BY <2>1, <3>1 DEF Sound, Ack, Control
  <2> QED BY <1>13, <2>2, <2>3
<1> QED BY <1>8, <1>9, <1>11, <1>12, <1>15, <1>16, ServerKeeps

\* The disk is left alone by a child that goes on and does not end.
LEMMA DiskStays ==
    ASSUME ServerContext, NEW k \in Kids, NEW q \in Kid, kid' = [kid EXCEPT ![k] = q],
           disk' = disk, Marks, kid[k].pc \notin {"off", "zombie", "reaped"},
           q.pc \notin {"off", "zombie", "reaped"} \/ ~Posting
    PROVE  DiskInv'
<1>1. \A l \in Kids : kid'[l] = IF l = k THEN q ELSE kid[l]
  BY ServerFacts DEF TdTypeOK
<1>2. CASE ~Posting
  BY <1>2, ServerFacts DEF DiskInv, Posting
<1>3. CASE Posting /\ k = "child"
  BY <1>1, <1>3, ServerFacts DEF DiskInv, Posting, Kids, Marks
<1>4. CASE Posting /\ k = "beside"
  BY <1>1, <1>4, ServerFacts DEF DiskInv, Posting, Kids, Marks
<1> QED BY <1>2, <1>3, <1>4 DEF Kids

\* What is left to show of a step of a child that sends S and does not close.
LEMMA ChildKeeps ==
    ASSUME ServerContext, NEW k \in Kids, NEW q \in Kid, kid' = [kid EXCEPT ![k] = q],
           UNCHANGED <<dErrno, disk>>, Marks, kid[k].pc \notin {"off", "zombie", "reaped"},
           q.pc # "off", q.pc \notin {"zombie", "reaped"} \/ ~Posting,
           Len(kid[k].got) <= Len(q.got), Serves(q),
           NEW D, NEW S \in SUBSET Datagram, Exchange(D, S), \A d \in S : Sound(d)'
    PROVE  TransferInv'
<1>1. kid' \in [Kids -> Kid] /\ KidInv' /\ Grows
  BY OneKid
<1>2. TdTypeOK'
  BY <1>1, ServerFacts DEF TdTypeOK, Marks
<1>3. DiskInv'
  BY DiskStays
<1>4. NetTypeOK' /\ InFlight' \subseteq InFlight \cup S
  BY ServerFacts, ExchangeKeeps
<1> QED BY <1>1, <1>2, <1>3, <1>4, ServerKeeps

\* A child that has been forked serves the client's request.
LEMMA KidFacts ==
    ASSUME ServerContext, NEW k \in Kids, kid[k].pc # "off"
    PROVE  /\ kid[k].op = op /\ kid[k] \in Kid /\ k \in Socket
           /\ kid[k].pc \in {"send", "wait"} => kid[k].j < RETRIES
           /\ Posting => /\ kid[k].pc # "send" /\ kid[k].count = Len(kid[k].got) + 1
                         /\ Len(kid[k].got) <= next /\ next <= Chunks
                         /\ \A n \in 1..Len(kid[k].got) : kid[k].got[n] = n
           /\ ~Posting => kid[k].count \in 1..Chunks /\ kid[k].got = <<>>
           /\ Len(kid[k].got) \in Nat /\ kid[k].got \in Seq(1..Chunks)
           /\ kid[k].count \in 1..(Chunks + 1) /\ kid[k].j \in 0..RETRIES
           /\ (op = "WRQ") = Posting /\ op \in {"RRQ", "WRQ"}
<1>1. kid[k] \in Kid /\ Serves(kid[k])
  BY ServerFacts
<1>2. /\ Len(kid[k].got) \in Nat /\ kid[k].got \in Seq(1..Chunks)
      /\ kid[k].count \in 0..(Chunks + 1) /\ kid[k].j \in 0..RETRIES
  BY <1>1, KidType DEF Kid
<1>3. k \in Socket
  BY SocketSet DEF Kids
<1>4. (op = "WRQ") = Posting /\ op \in {"RRQ", "WRQ"}
  BY ServerFacts DEF Posting, MyTypeOK
<1> QED BY <1>1, <1>2, <1>3, <1>4, ServerFacts DEF Serves

\* The packet that a child of a download sends.
LEMMA KidPacketSound ==
    ASSUME ServerContext, NEW k \in Kids, kid[k].pc # "off", ~Posting, kid'[k].pc # "off"
    PROVE  /\ KidPacket(k) \in Datagram
           /\ \A c \in {KidPacket(k)} : Sound(c)'
<1>1. kid[k].count \in 1..Chunks /\ k \in Socket
  BY KidFacts
<1>2. PICK n \in 1..Chunks : n = kid[k].count
  BY <1>1
<1>3. n \in 0..(M - 1) /\ n \in Nat /\ PieceSize(n) \in Nat
  BY PieceSizeType
<1>4. KidPacket(k) = Data(k, "client", n, n, PieceSize(n))
  BY <1>2 DEF KidPacket
<1>5. KidPacket(k) \in Datagram
  BY <1>1, <1>3, <1>4, BlockType, SocketSet
<1>6. ~Posting'
  BY ServerFacts DEF Posting
<1>7. \A c : c = Data(k, "client", n, n, PieceSize(n)) => Sound(c)'
  BY <1>6 DEF Sound, Data, Block, PieceSize
<1> QED BY <1>4, <1>5, <1>7

\* A child one of whose calls has failed goes on to fclose().
LEMMA KidStopsInv ==
    ASSUME ServerContext, NEW k \in Kids, kid[k].pc \in {"send", "wait"}, KidTo(k, "close"),
           UNCHANGED <<dErrno, disk>>, Marks, NEW D, Exchange(D, {})
    PROVE  TransferInv'
<1>1. PICK q : q = [kid[k] EXCEPT !.pc = "close"]
  OBVIOUS
<1>2. /\ q \in Kid /\ q.pc = "close" /\ q.op = kid[k].op /\ q.count = kid[k].count
      /\ q.j = kid[k].j /\ q.got = kid[k].got
  BY <1>1, ServerFacts DEF Kid
<1>3. kid' = [kid EXCEPT ![k] = q]
  BY <1>1 DEF KidTo
<1>4. Serves(q) /\ Len(kid[k].got) <= Len(q.got)
  BY <1>2, KidFacts, SameLength DEF Serves
<1>5. {} \in SUBSET Datagram /\ \A c \in {} : Sound(c)'
  OBVIOUS
<1> QED BY <1>2, <1>3, <1>4, <1>5, ChildKeeps

LEMMA KidSendsInv ==
    ASSUME ServerContext, NEW k \in Kids, KidSends(k)
    PROVE  TransferInv'
<1>1. CASE KidTo(k, "close") /\ Exchange({}, {}) /\ Breaks(k, "send")
  <2>1. Marks
    BY <1>1, BrokenGrows DEF KidSends
  <2> QED BY <1>1, <2>1, KidStopsInv DEF KidSends
<1>2. CASE KidTo(k, "wait") /\ Exchange({}, {KidPacket(k)}) /\ UNCHANGED broken
  <2>1. kid[k].pc = "send" /\ ~Posting
    BY KidFacts DEF KidSends
  <2>2. PICK q : q = [kid[k] EXCEPT !.pc = "wait"]
    OBVIOUS
  <2>3. /\ q \in Kid /\ q.pc = "wait" /\ q.op = kid[k].op /\ q.count = kid[k].count
        /\ q.j = kid[k].j /\ q.got = kid[k].got
    BY <2>2, ServerFacts DEF Kid
  <2>4. kid' = [kid EXCEPT ![k] = q]
    BY <1>2, <2>2 DEF KidTo
  <2>5. kid'[k].pc # "off"
    BY <2>3, <2>4, ServerFacts DEF TdTypeOK
  <2>6. Serves(q) /\ Len(kid[k].got) <= Len(q.got)
    BY <2>1, <2>3, KidFacts, SameLength DEF Serves
  <2>7. {KidPacket(k)} \in SUBSET Datagram /\ \A c \in {KidPacket(k)} : Sound(c)'
    BY <2>1, <2>5, KidPacketSound
  <2>8. UNCHANGED <<dErrno, disk>> /\ Marks
    BY <1>2, BrokenGrows DEF KidSends
  <2> QED BY <1>2, <2>1, <2>3, <2>4, <2>6, <2>7, <2>8, ChildKeeps
<1> QED BY <1>1, <1>2 DEF KidSends

LEMMA KidAckedInv ==
    ASSUME ServerContext, NEW k \in Kids, NEW d \in InFlight, KidAcked(k, d)
    PROVE  TransferInv'
<1>1. kid[k].pc = "wait" /\ ~Posting
  BY KidFacts DEF KidAcked
<1>2. PICK q : q = IF kid[k].count = Chunks THEN [kid[k] EXCEPT !.pc = "zombie"]
                   ELSE [kid[k] EXCEPT !.pc = "send", !.count = @ + 1, !.j = 0]
  OBVIOUS
<1>3. kid' = [kid EXCEPT ![k] = q]
  BY <1>2, ServerFacts DEF KidAcked, TdTypeOK
<1>4. /\ q.op = kid[k].op /\ q.got = kid[k].got /\ q.pc \in {"zombie", "send"}
      /\ q.count \in 1..Chunks /\ q.j \in 0..RETRIES /\ (q.pc = "send" => q.j = 0)
  <2>1. kid[k] \in Kid /\ kid[k].count \in 1..Chunks /\ kid[k].j \in 0..RETRIES /\ 0 \in 0..RETRIES
    BY <1>1, KidFacts DEF Kid
  <2>2. CASE kid[k].count = Chunks
    BY <1>2, <2>1, <2>2 DEF Kid
  <2>3. CASE kid[k].count # Chunks
    <3>1. kid[k].count + 1 \in 1..Chunks
      BY <2>1, <2>3
    <3>2. q = [kid[k] EXCEPT !.pc = "send", !.count = kid[k].count + 1, !.j = 0]
      BY <1>2, <2>3
    <3> QED BY <2>1, <3>1, <3>2 DEF Kid
  <2> QED BY <2>2, <2>3
<1>5. q \in Kid
  <2>1. CASE kid[k].count = Chunks
    BY <1>2, <2>1, ServerFacts DEF Kid
  <2>2. CASE kid[k].count # Chunks
    <3>1. kid[k].count + 1 \in 0..(Chunks + 1) /\ 0 \in 0..RETRIES
      BY <1>1, <2>2, KidFacts
    <3>2. q = [kid[k] EXCEPT !.pc = "send", !.count = kid[k].count + 1, !.j = 0]
      BY <1>2, <2>2
    <3> QED BY <3>1, <3>2, ServerFacts DEF Kid
  <2> QED BY <2>1, <2>2
<1>6. Serves(q) /\ Len(kid[k].got) <= Len(q.got)
  BY <1>1, <1>4, KidFacts, SameLength DEF Serves
<1>7. Exchange({d}, {}) /\ UNCHANGED <<dErrno, disk>> /\ Marks
  BY BrokenGrows DEF KidAcked
<1>8. {} \in SUBSET Datagram /\ \A c \in {} : Sound(c)'
  OBVIOUS
<1> QED BY <1>1, <1>3, <1>4, <1>5, <1>6, <1>7, <1>8, ChildKeeps

\* A block that a child expects is a piece the client has sent, under its number.
LEMMA BlockOfClient ==
    ASSUME ServerContext, NEW k \in Kids, Posting, NEW d \in InFlight, d.dst = k, d.op = "DATA"
    PROVE  d.piece = d.blk /\ d.piece \in 1..next
<1>1. Sound(d) /\ k # "client" /\ k # "tftpd"
  BY ServerFacts DEF NetInv, Kids
<1>2. d \notin Stray /\ d.src \notin Kids
  <2>1. d \notin Stray
    BY <1>1 DEF ServerContext, Setting
  <2>2. CASE d.src \in Kids
    BY <1>1, <2>1, <2>2 DEF Sound, Request, Control, Kids, Block
  <2> QED BY <2>1, <2>2
<1> QED BY <1>1, <1>2 DEF Sound, Request, Control, Block

LEMMA KidStoresInv ==
    ASSUME ServerContext, NEW k \in Kids, NEW d \in InFlight, KidStores(k, d)
    PROVE  TransferInv'
<1>1. kid[k].pc = "wait" /\ Posting /\ d.op = "DATA" /\ d.blk = kid[k].count /\ d.dst = k
  BY KidFacts DEF KidStores, KidExpects
<1>2. d.piece = kid[k].count /\ d.piece \in 1..next
  BY <1>1, BlockOfClient
<1>3. PICK n \in Nat : n = Len(kid[k].got)
  BY <1>1, KidFacts
<1>4. n + 1 = kid[k].count /\ n + 1 <= next /\ next <= Chunks /\ next \in Nat
  <2>1. kid[k].count = Len(kid[k].got) + 1 /\ next <= Chunks
    BY <1>1, KidFacts
  <2>2. next \in Nat /\ kid[k].count \in 1..next
    BY <1>2, ServerFacts
  <2> QED BY <1>3, <2>1, <2>2
<1>5. PICK s : s = Append(kid[k].got, n + 1)
  OBVIOUS
<1>6. /\ s \in Seq(1..Chunks) /\ Len(s) = n + 1
      /\ \A m \in 1..(n + 1) : s[m] = m
  <2>0. n + 1 \in 1..Chunks
    BY <1>3, <1>4
  <2>1. kid[k].got \in Seq(1..Chunks) /\ \A m \in 1..n : kid[k].got[m] = m
    BY <1>1, <1>3, KidFacts
  <2>2. s \in Seq(1..Chunks) /\ Len(s) = n + 1
    BY <1>3, <1>5, <2>0, <2>1
  <2>3. \A m \in 1..(n + 1) : s[m] = m
    <3> SUFFICES ASSUME NEW m \in 1..(n + 1) PROVE s[m] = m
      OBVIOUS
    <3>1. CASE m \in 1..n
      BY <1>3, <1>5, <2>0, <2>1, <3>1
    <3>2. CASE m = n + 1
      BY <1>3, <1>5, <2>0, <2>1, <3>2
    <3> QED BY <3>1, <3>2
  <2> QED BY <2>2, <2>3
<1>7. PICK w \in {"close", "wait"}, S \in SUBSET {Ack(k, "client", d.blk)} :
         /\ kid' = [kid EXCEPT ![k].got = Append(@, d.piece), ![k].count = @ + 1,
                               ![k].j = 0, ![k].pc = w]
         /\ Exchange({d}, S)
  BY DEF KidStores
<1>8. PICK q : q = [kid[k] EXCEPT !.got = s, !.count = n + 2, !.j = 0, !.pc = w]
  OBVIOUS
<1>9. kid' = [kid EXCEPT ![k] = q]
  <2>1. s = Append(kid[k].got, d.piece) /\ n + 2 = kid[k].count + 1
    BY <1>2, <1>4, <1>5
  <2> QED BY <1>7, <1>8, <2>1, ServerFacts DEF TdTypeOK
<1>10. /\ q \in Kid /\ q.got = s /\ q.count = n + 2 /\ q.j = 0 /\ q.pc \in {"close", "wait"}
       /\ q.op = kid[k].op
  <2>1. n + 2 \in 0..(Chunks + 1) /\ 0 \in 0..RETRIES
    BY <1>4
  <2> QED BY <1>6, <1>8, <2>1, ServerFacts DEF Kid
<1>11. Serves(q) /\ Len(kid[k].got) <= Len(q.got)
  <2>1. q.op = op /\ 0 < RETRIES
    BY <1>1, <1>10, KidFacts
  <2>2. /\ q.pc # "off" /\ q.pc # "send" /\ q.j = 0
        /\ q.count = Len(q.got) + 1 /\ Len(q.got) <= next
        /\ Len(kid[k].got) <= Len(q.got)
    BY <1>3, <1>4, <1>6, <1>10
  <2>3. \A m \in 1..Len(q.got) : q.got[m] = m
    BY <1>4, <1>6, <1>10
  <2> QED BY <1>1, <2>1, <2>2, <2>3 DEF Serves
<1>12. S \in SUBSET Datagram
  <2>1. d.blk \in 0..(M - 1)
    BY ServerFacts DEF Datagram
  <2> QED BY <2>1, AckType, SocketSet DEF Kids
<1>13. \A c \in S : Sound(c)'
  <2>1. kid'[k] = q
    BY <1>9, <1>10, ServerFacts DEF TdTypeOK
  <2>2. Posting' /\ kid'[k].pc # "off" /\ d.blk <= Len(kid'[k].got)
    BY <1>1, <1>3, <1>4, <1>6, <1>10, <2>1, ServerFacts DEF Posting
  <2> QED BY <2>2 DEF Sound, Ack, Control
<1>14. Exchange({d}, S) /\ UNCHANGED <<dErrno, disk>> /\ Marks
  BY <1>7, BrokenGrows DEF KidStores
<1>15. kid[k].pc \notin {"off", "zombie", "reaped"} /\ q.pc # "off" /\ q.pc \notin {"zombie", "reaped"}
  BY <1>1, <1>10
<1> QED BY <1>9, <1>10, <1>11, <1>12, <1>13, <1>14, <1>15, ChildKeeps

LEMMA KidDiskFullInv ==
    ASSUME ServerContext, NEW k \in Kids, NEW d \in InFlight, KidDiskFull(k, d)
    PROVE  TransferInv'
<1>1. Marks
  BY BrokenGrows DEF KidDiskFull
<1> QED BY <1>1, KidStopsInv DEF KidDiskFull

\* A child that has a new file writes all that it has stored, and no more.
LEMMA WrittenOver ==
    \A s, t \in Seq(1..Chunks) : /\ Overwritten(t, s) \in Seq(1..Chunks)
                                 /\ t = <<>> => Overwritten(t, s) = s
<1> SUFFICES ASSUME NEW s \in Seq(1..Chunks), NEW t \in Seq(1..Chunks)
             PROVE  /\ Overwritten(t, s) \in Seq(1..Chunks)
                    /\ t = <<>> => Overwritten(t, s) = s
  OBVIOUS
<1>1. Len(s) \in Nat /\ Len(t) \in Nat
  OBVIOUS
<1>2. SubSeq(t, Len(s) + 1, Len(t)) \in Seq(1..Chunks)
  <2>1. Len(s) + 1 \in 1..(Len(t) + 1) \/ Len(s) + 1 > Len(t)
    BY <1>1
  <2> QED BY <1>1, <2>1, SubSeqProperties
<1>3. t = <<>> => SubSeq(t, Len(s) + 1, Len(t)) = <<>>
  BY <1>1, SubSeqProperties
<1> QED BY <1>2, <1>3, ConcatProperties DEF Overwritten

LEMMA KidClosesInv ==
    ASSUME ServerContext, NEW k \in Kids, KidCloses(k)
    PROVE  TransferInv'
<1>1. kid[k].pc = "close" /\ kid[k] \in Kid
  BY ServerFacts DEF KidCloses
<1>2. PICK q : q = [kid[k] EXCEPT !.pc = "zombie"]
  OBVIOUS
<1>3. /\ q \in Kid /\ q.pc = "zombie" /\ q.op = kid[k].op /\ q.count = kid[k].count
      /\ q.j = kid[k].j /\ q.got = kid[k].got
  BY <1>1, <1>2 DEF Kid
<1>4. kid' = [kid EXCEPT ![k] = q]
  BY <1>2 DEF KidCloses, KidTo
<1>5. Serves(q) /\ Len(kid[k].got) <= Len(q.got)
  BY <1>1, <1>3, KidFacts, SameLength DEF Serves
<1>6. kid' \in [Kids -> Kid] /\ KidInv' /\ Grows
  BY <1>1, <1>3, <1>4, <1>5, OneKid
<1>7. disk' \in Seq(1..Chunks)
  <2>1. CASE disk' = DiskAfter(k)
    BY <1>1, <2>1, ServerFacts, KidFacts, WrittenOver DEF DiskAfter
  <2>2. ASSUME NEW n \in 0..(Len(kid[k].got) - 1),
               disk' = Overwritten(disk, SubSeq(kid[k].got, 1, n))
        PROVE  disk' \in Seq(1..Chunks)
    <3>1. kid[k].got \in Seq(1..Chunks) /\ Len(kid[k].got) \in Nat
      BY <1>1, KidFacts
    <3>2. SubSeq(kid[k].got, 1, n) \in Seq(1..Chunks)
      <4>1. \A m \in 1..n : kid[k].got[m] \in 1..Chunks
        BY <3>1, ElementOfSeq
      <4> QED BY <3>1, <4>1, SubSeqProperties
    <3> QED BY <2>2, <3>2, ServerFacts, WrittenOver
  <2> QED BY <2>1, <2>2 DEF KidCloses
<1>8. TdTypeOK' /\ Marks
  <2>1. Marks
    BY BrokenGrows DEF KidCloses
  <2> QED BY <1>6, <1>7, <2>1, ServerFacts DEF KidCloses, TdTypeOK, Marks
<1>9. DiskInv'
  <2>1. \A l \in Kids : kid'[l] = IF l = k THEN q ELSE kid[l]
    BY <1>3, <1>4, ServerFacts DEF TdTypeOK
  <2>2. CASE k = "beside"
    BY <1>3, <2>1, <2>2 DEF DiskInv
  <2>3. CASE k = "child"
    <3> SUFFICES ASSUME Posting, kid["beside"].pc = "off", <<"child", "flush">> \notin broken'
                 PROVE  disk' = kid["child"].got
      BY <1>3, <2>1, <2>3, ServerFacts DEF DiskInv, Posting, Kids
    <3>1. disk = <<>>
      BY <1>1, <1>8, <2>3, ServerFacts DEF DiskInv, Marks
    <3>2. kid[k].op = "WRQ"
      BY <1>1, KidFacts
    <3>3. disk' = Overwritten(disk, kid[k].got)
      BY <2>3, <3>2 DEF KidCloses, DiskAfter, Breaks
    <3>4. kid[k].got \in Seq(1..Chunks) /\ disk \in Seq(1..Chunks)
      BY <1>1, KidFacts, ServerFacts
    <3> QED BY <2>3, <3>1, <3>3, <3>4, WrittenOver
  <2> QED BY <2>2, <2>3 DEF Kids
<1>10. PICK S : S = {}
  OBVIOUS
<1>11. NetTypeOK' /\ InFlight' \subseteq InFlight \cup S /\ \A c \in S : Sound(c)'
  BY <1>10, ServerFacts, QuietType DEF KidCloses
<1> QED BY <1>6, <1>8, <1>9, <1>11, ServerKeeps

\* A failed attempt: the child repeats what it sent last.
LEMMA KidRepeatsInv ==
    ASSUME ServerContext, NEW k \in Kids, kid[k].pc = "wait", NEW D,
           kid' = [kid EXCEPT ![k].j = @ + 1,
                              ![k].pc = IF kid[k].j + 1 = RETRIES THEN "close" ELSE @],
           Exchange(D, {IF kid[k].op = "WRQ" THEN Ack(k, "client", kid[k].count - 1)
                                             ELSE KidPacket(k)}),
           UNCHANGED <<dErrno, disk>>, Marks
    PROVE  TransferInv'
<1>1. kid[k].j + 1 \in 1..RETRIES
  <2>1. kid[k].j \in 0..RETRIES /\ kid[k].j < RETRIES
    BY KidFacts
  <2> QED BY <2>1
<1>2. PICK w \in {"close", "wait"} : w = IF kid[k].j + 1 = RETRIES THEN "close" ELSE "wait"
  OBVIOUS
<1>3. PICK q : q = [kid[k] EXCEPT !.j = kid[k].j + 1, !.pc = w]
  OBVIOUS
<1>4. kid' = [kid EXCEPT ![k] = q]
  BY <1>2, <1>3, ServerFacts DEF TdTypeOK
<1>5. /\ q \in Kid /\ q.pc = w /\ q.op = kid[k].op /\ q.count = kid[k].count
      /\ q.j = kid[k].j + 1 /\ q.got = kid[k].got
  <2>1. PICK m \in 0..RETRIES : m = kid[k].j + 1
    BY <1>1
  <2>2. kid[k] \in Kid /\ q = [kid[k] EXCEPT !.j = m, !.pc = w]
    BY <1>3, <2>1, ServerFacts
  <2> QED BY <2>1, <2>2 DEF Kid
<1>6. q.pc \in {"send", "wait"} => q.j < RETRIES
  BY <1>1, <1>2, <1>5
<1>7. Serves(q)
  BY <1>2, <1>5, <1>6, KidFacts DEF Serves
<1>8. Len(kid[k].got) <= Len(q.got)
  BY <1>5, KidFacts, SameLength
<1>9. kid'[k] = q
  BY <1>4, <1>5, ServerFacts DEF TdTypeOK
<1> DEFINE again == IF kid[k].op = "WRQ" THEN Ack(k, "client", kid[k].count - 1) ELSE KidPacket(k)
<1>10. again \in Datagram /\ \A c \in {again} : Sound(c)'
  <2>1. CASE kid[k].op = "WRQ"
    <3>1. Posting /\ kid[k].count = Len(kid[k].got) + 1 /\ k \in Socket
      BY <2>1, KidFacts
    <3>2. PICK n \in Nat : n = Len(kid[k].got) /\ n <= Chunks
      <4>1. Len(kid[k].got) \in Nat /\ Len(kid[k].got) <= next /\ next <= Chunks
        BY <3>1, KidFacts
      <4>2. next \in Nat /\ Chunks \in Nat
        BY ServerFacts
      <4>3. Len(kid[k].got) <= Chunks
        BY <4>1, <4>2
      <4> QED BY <4>1, <4>3
    <3>3. again = Ack(k, "client", n)
      BY <2>1, <3>1, <3>2
    <3>4. n \in 0..(M - 1)
      BY <3>2
    <3>5. again \in Datagram
      BY <3>1, <3>3, <3>4, AckType, SocketSet
    <3>6. Posting' /\ kid'[k].pc # "off" /\ n <= Len(kid'[k].got)
      BY <1>2, <1>5, <1>9, <3>1, <3>2, ServerFacts DEF Posting
    <3>7. \A c : c = Ack(k, "client", n) => Sound(c)'
      BY <3>6 DEF Sound, Ack, Control
    <3> QED BY <3>3, <3>5, <3>7
  <2>2. CASE kid[k].op # "WRQ"
    <3>1. ~Posting /\ kid'[k].pc # "off"
      BY <1>2, <1>5, <1>9, <2>2, KidFacts
    <3> QED BY <2>2, <3>1, KidPacketSound
  <2> QED BY <2>1, <2>2
<1>11. Exchange(D, {again})
  OBVIOUS
<1> HIDE DEF again
<1>12. /\ {again} \in SUBSET Datagram /\ kid[k].pc \notin {"off", "zombie", "reaped"}
       /\ q.pc # "off" /\ q.pc \notin {"zombie", "reaped"}
  BY <1>2, <1>5, <1>10
<1>13. PICK S \in SUBSET Datagram : S = {again}
  BY <1>12
<1>14. Exchange(D, S) /\ \A c \in S : Sound(c)'
  BY <1>10, <1>11, <1>13
<1> QED BY <1>4, <1>5, <1>7, <1>8, <1>11, <1>12, <1>14, ChildKeeps

LEMMA KidRetriesInv ==
    ASSUME ServerContext, NEW k \in Kids, kid[k].pc = "wait", NEW D, KidRetries(k, D)
    PROVE  TransferInv'
<1>1. Marks
  BY BrokenGrows DEF KidRetries
<1>2. CASE KidTo(k, "close") /\ Exchange(D, {}) /\ Breaks(k, "send")
  BY <1>1, <1>2, KidStopsInv DEF KidRetries
<1> QED BY <1>1, <1>2, KidRepeatsInv DEF KidRetries

LEMMA ServerStepInv ==
    ASSUME Setting, TransferInv, ServerStep \/ ServerFails
    PROVE  TransferInv'
<1>1. ServerContext
  BY DEF ServerStep, ServerFails, ServerContext, ambience, TransferInv, TypeInv, TypeOK
<1> QED BY <1>1, PollNothingInv, PollFailsInv, PollDropsInv, PollRequestInv
        DEF ServerStep, ServerFails, DaemonStep

LEMMA ChildStepInv ==
    ASSUME Setting, TransferInv, NEW k \in Kids, ChildStep(k)
    PROVE  TransferInv'
<1>1. TypeOK
  BY DEF TransferInv, TypeInv
<1>2. CASE ChildTimeout(k)
  <2>1. early' \in 0..MaxEarly
    BY <1>1, <1>2, EarlyType DEF ChildTimeout
  <2>2. ServerContext
    BY <1>2, <2>1 DEF ServerContext, ChildTimeout
  <2> QED BY <1>2, <2>2, KidRetriesInv DEF ChildTimeout, KidTimeout
<1>3. CASE KidStep(k) /\ UNCHANGED <<myvars, ambience>>
  <2>1. ServerContext
    BY <1>1, <1>3 DEF ServerContext, ambience, TypeOK
  <2>2. CASE \E d \in InFlight : KidMismatch(k, d)
    BY <2>1, <2>2, KidRetriesInv DEF KidMismatch
  <2> QED BY <1>3, <2>1, <2>2, KidSendsInv, KidClosesInv, KidAckedInv, KidStoresInv,
             KidDiskFullInv DEF KidStep
<1> QED BY <1>2, <1>3 DEF ChildStep

LEMMA NetStepInv ==
    ASSUME Setting, TransferInv, NetStep
    PROVE  TransferInv'
<1>1. PICK d \in InFlight : Lose(d) \/ Duplicate(d)
  BY DEF NetStep
<1>2. ClientContext
  BY DEF NetStep, ClientContext, ambience, TransferInv, TypeInv, TypeOK
<1>3. NetTypeOK' /\ InFlight' \subseteq InFlight
  BY <1>1, <1>2, ContextFacts, NetworkType
<1>4. UNCHANGED myvars
  BY DEF NetStep
<1>5. MyTypeOK' /\ ClientInv' /\ DoneInv' /\ next <= next'
  BY <1>2, <1>4, ContextFacts
     DEF myvars, MyTypeOK, ClientInv, DoneInv, Posting, ClientContext, tdvars
<1>6. op' = op /\ (pc' \in {"wait", "data"} => i' < MAX_RETRY)
  BY <1>2, <1>4, ContextFacts DEF myvars
<1>7. PICK S : S = {}
  OBVIOUS
<1>8. InFlight' \subseteq InFlight \cup S /\ \A c \in S : Sound(c)'
  BY <1>3, <1>7
<1> QED BY <1>2, <1>3, <1>5, <1>6, <1>8, ClientKeeps DEF ClientContext

LEMMA StutterInv ==
    ASSUME Setting, TransferInv, UNCHANGED vars
    PROVE  TransferInv'
<1>1. ClientContext
  BY DEF vars, ambience, ClientContext, TransferInv, TypeInv, TypeOK
<1>2. NetTypeOK' /\ InFlight' = InFlight
  BY <1>1, ContextFacts, QuietType DEF vars
<1>3. UNCHANGED myvars
  BY DEF vars
<1>4. MyTypeOK' /\ ClientInv' /\ DoneInv' /\ next <= next'
  BY <1>1, <1>3, ContextFacts
     DEF myvars, MyTypeOK, ClientInv, DoneInv, Posting, ClientContext, tdvars
<1>5. op' = op /\ (pc' \in {"wait", "data"} => i' < MAX_RETRY)
  BY <1>1, <1>3, ContextFacts DEF myvars
<1>6. PICK S : S = {}
  OBVIOUS
<1>7. InFlight' \subseteq InFlight \cup S /\ \A c \in S : Sound(c)'
  BY <1>2, <1>6
<1> QED BY <1>1, <1>2, <1>4, <1>5, <1>7, ClientKeeps DEF ClientContext

--------------------------------------------------------------------------------
(* The theorems.                                                               *)

\* What keeps the types and what an upload promises.
LEMMA TransferInvariant ==
    ASSUME Setting
    PROVE  Spec => []TransferInv
<1>1. Init => TransferInv
  BY InitInv
<1>2. TransferInv /\ [Next]_vars => TransferInv'
  <2> SUFFICES ASSUME TransferInv, [Next]_vars PROVE TransferInv'
    OBVIOUS
  <2> QED BY ClientStepInv, ServerStepInv, ChildStepInv, NetStepInv, StutterInv DEF Next
<1> QED BY <1>1, <1>2, PTL DEF Spec

\* Every variable keeps its type: no attempt is counted past MAX_RETRY or RETRIES,
\* and get_file() and the children store pieces of the file only.
THEOREM MyTypeCorrect ==
    ASSUME Setting
    PROVE  Spec => []TypeOK
<1>1. TransferInv => TypeOK
  BY DEF TransferInv, TypeInv
<1> QED BY <1>1, TransferInvariant, PTL

\* A child that has stored as many pieces as the file has, has the file.
LEMMA WholeFile ==
    ASSUME TransferInv, Posting, NEW k \in Kids, Len(kid[k].got) = Chunks
    PROVE  kid[k].got = File /\ kid[k].pc # "off"
<1>1. kid[k] \in Kid /\ Serves(kid[k])
  BY DEF TransferInv, TypeInv, TypeOK, TdTypeOK, KidInv
<1>2. kid[k].pc # "off"
  <2> SUFFICES ASSUME kid[k].pc = "off" PROVE FALSE
    OBVIOUS
  <2>1. kid[k].got = <<>>
    BY <1>1 DEF Serves, NoKid
  <2> QED BY <2>1 DEF TftpdAssumption
<1>3. \A n \in 1..Chunks : kid[k].got[n] = n
  BY <1>1, <1>2 DEF Serves
<1>4. kid[k].got \in Seq(1..Chunks) /\ File \in Seq(1..Chunks) /\ Len(File) = Chunks
  BY <1>1, KidType, FileType DEF File
<1> QED BY <1>2, <1>3, <1>4, SeqEqual DEF File

\* "All file has been uploaded": a child has stored every piece in order.
THEOREM MyUploadedWhole ==
    ASSUME Setting
    PROVE  Spec => []UploadedWhole
<1>1. TransferInv => UploadedWhole
  BY WholeFile DEF TransferInv, DoneInv, UploadedWhole, Posting
<1> QED BY <1>1, TransferInvariant, PTL

\* ... and the file on the server's disk is whole, unless the request was served
\* a second time or the child's fclose() has failed.
THEOREM MyUploadKept ==
    ASSUME Setting
    PROVE  Spec => []UploadKept
<1>1. TransferInv => UploadKept
  <2> SUFFICES ASSUME TransferInv, Posting, pc = "done", kid["beside"].pc = "off",
                      ~Running("child"), <<"child", "flush">> \notin broken
               PROVE  disk = File
    BY DEF UploadKept, Posting
  <2>1. PICK k \in Kids : Len(kid[k].got) = Chunks
    BY DEF TransferInv, DoneInv
  <2>2. kid[k].got = File /\ kid[k].pc # "off"
    BY <2>1, WholeFile
  <2>3. k = "child"
    BY <2>2 DEF Kids
  <2>4. kid[k].pc \in {"zombie", "reaped"}
    <3>1. kid[k] \in Kid /\ Serves(kid[k])
      BY DEF TransferInv, TypeInv, TypeOK, TdTypeOK, KidInv
    <3> QED BY <2>2, <2>3, <3>1 DEF Serves, Running, Kid
  <2> QED BY <2>2, <2>3, <2>4 DEF TransferInv, DiskInv
<1> QED BY <1>1, TransferInvariant, PTL

--------------------------------------------------------------------------------
(* A request that nobody serves.                                               *)

\* The copies of a datagram become fewer only when it is received or lost.
LEMMA CopiesOfOthers ==
    ASSUME IsABag(net), NEW D, NEW S, Exchange(D, S) \/ ExchangeFails(D, S)
    PROVE  /\ IsABag(net)' /\ lost' = lost
           /\ \A d : d \notin D => ~(Copies(d, net') < Copies(d, net))
<1> SUFFICES ASSUME NEW T, Exchange(D, T)
             PROVE  /\ IsABag(net)' /\ lost' = lost
                    /\ \A d : d \notin D => ~(Copies(d, net') < Copies(d, net))
  BY DEF ExchangeFails
<1>1. IsABag(net)'
  BY DEF Exchange, SetToBag, (+), (-), IsABag
<1>2. \A d : d \notin D => ~(Copies(d, net') < Copies(d, net))
  BY DEF Exchange, SetToBag, (+), (-), IsABag, Copies, BagToSet
<1> QED BY <1>1, <1>2 DEF Exchange

\* What every step keeps.
BagInv == IsABag(net) /\ op \in {"RRQ", "WRQ"} /\ DOMAIN kid = Kids

\* What excuses that a copy of the request is gone.
Excused ==
    \/ Unreaped # {} \/ lost' # lost \/ <<"tftpd", "fork">> \in broken'
    \/ ~ \A k \in Kids : kid'[k].pc = "off" <=> kid[k].pc = "off"

Harmless == BagInv' /\ (Copies(Request, net') < Copies(Request, net) => Excused)

LEMMA HarmlessExchange ==
    ASSUME BagInv, op' = op, DOMAIN kid' = Kids, NEW D, NEW S, Exchange(D, S) \/ ExchangeFails(D, S),
           Request \notin D \/ Excused
    PROVE  Harmless
<1>1. IsABag(net)
  BY DEF BagInv
<1>2. IsABag(net)' /\ (Request \notin D => ~(Copies(Request, net') < Copies(Request, net)))
  BY <1>1, CopiesOfOthers
<1> QED BY <1>2 DEF Harmless, BagInv

LEMMA HarmlessQuiet ==
    ASSUME BagInv, op' = op, DOMAIN kid' = Kids, net' = net
    PROVE  Harmless
<1>1. ~(Copies(Request, net) < Copies(Request, net))
  BY DEF BagInv, IsABag, Copies, BagToSet
<1> QED BY <1>1 DEF Harmless, BagInv

LEMMA RequestGoesTo == Request.dst = "tftpd" /\ Request.op = op
  BY DEF Request, Control

LEMMA HarmlessClient ==
    ASSUME BagInv, MyStep \/ MyTimeout, UNCHANGED tdvars
    PROVE  Harmless
<1>1. op' = op /\ DOMAIN kid' = Kids
  BY DEF BagInv, tdvars, MyStep, MyTimeout, GetTimeout, PostTimeout, PostDataTimeout, GetLast, PostPiece,
         PostFlood, ReceiveForeign, ReceiveOtherTid, GetBlock, GetFails, GetOther,
         PostGranted, PostOther, PostAcked, PostMismatch, myvars
<1>2. CASE PostDataTimeout
  BY <1>1, <1>2, HarmlessQuiet DEF PostDataTimeout, netvars
<1>3. CASE GetTimeout \/ PostTimeout \/ GetLast \/ PostPiece \/ PostFlood
  <2>1. PICK D, S : (Exchange(D, S) \/ ExchangeFails(D, S)) /\ D = {}
    BY <1>3 DEF GetTimeout, PostTimeout, GetLast, PostPiece, PostFlood
  <2> QED BY <1>1, <2>1, HarmlessExchange
<1>4. CASE \E d \in InFlight :
               \/ ReceiveForeign(d) \/ ReceiveOtherTid(d)
               \/ GetBlock(d) \/ GetFails(d) \/ GetOther(d)
               \/ PostGranted(d) \/ PostOther(d) \/ PostAcked(d) \/ PostMismatch(d)
  <2>1. PICK d : /\ d.dst = "client"
                 /\ \E S : Exchange({d}, S) \/ ExchangeFails({d}, S)
    BY <1>4 DEF ReceiveForeign, ReceiveOtherTid, GetBlock, GetFails, GetOther,
                PostGranted, PostOther, PostAcked, PostMismatch, Accepted
  <2>2. PICK S : Exchange({d}, S) \/ ExchangeFails({d}, S)
    BY <2>1
  <2>3. Request \notin {d}
    BY <2>1, RequestGoesTo
  <2> QED BY <1>1, <2>2, <2>3, HarmlessExchange
<1> QED BY <1>2, <1>3, <1>4 DEF MyStep, MyTimeout

LEMMA ReapedDomain ==
    ASSUME BagInv, NEW after \in Reaped
    PROVE  DOMAIN after = Kids
  BY DEF BagInv, Reaped

LEMMA HarmlessServer ==
    ASSUME BagInv, DaemonStep \/ PollFails, UNCHANGED myvars
    PROVE  Harmless
<1>1. op' = op
  BY DEF myvars
<1>2. CASE PollNothing \/ PollFails
  BY <1>1, <1>2, ReapedDomain, HarmlessQuiet DEF PollNothing, PollFails, netvars
<1>3. ASSUME NEW d, PollOverwritten(d) PROVE Harmless
  <2>1. Unreaped # {}
    BY <1>3 DEF PollOverwritten, AfterWaitpid
  <2> QED BY <1>1, <1>3, <2>1, ReapedDomain, HarmlessExchange DEF PollOverwritten, Excused
<1>6. ASSUME NEW d, PollUnserved(d) PROVE Harmless
  <2>1. <<"tftpd", "fork">> \in broken'
    BY <1>6 DEF PollUnserved, Breaks
  <2> QED BY <1>1, <1>6, <2>1, ReapedDomain, HarmlessExchange DEF PollUnserved, Excused
<1>4. ASSUME NEW d, PollInvalid(d) PROVE Harmless
  <2>1. Request \notin {d}
    BY <1>4, RequestGoesTo DEF PollInvalid, BagInv
  <2> QED BY <1>1, <1>4, <2>1, ReapedDomain, HarmlessExchange DEF PollInvalid
<1>5. ASSUME NEW d, NEW k \in Kids, PollRequest(d, k) PROVE Harmless
  <2>0. \A pc1 : [NoKid EXCEPT !.op = d.op, !.count = 1, !.pc = pc1].pc = pc1
    BY DEF NoKid
  <2>1. \E after \in Reaped : \E q : q.pc # "off" /\ kid' = [after EXCEPT ![k] = q]
    <3>1. \E after \in Reaped : \E pc1 \in {"send", "wait", "close", "zombie"} :
             kid' = [after EXCEPT ![k] = [NoKid EXCEPT !.op = d.op, !.count = 1, !.pc = pc1]]
      BY <1>5 DEF PollRequest
    <3>2. PICK after \in Reaped, pc1 \in {"send", "wait", "close", "zombie"} :
             kid' = [after EXCEPT ![k] = [NoKid EXCEPT !.op = d.op, !.count = 1, !.pc = pc1]]
      BY <3>1
    <3>3. pc1 # "off"
      OBVIOUS
    <3> QED BY <2>0, <3>2, <3>3
  <2>2. DOMAIN kid' = Kids /\ kid'[k].pc # "off"
    BY <2>1, ReapedDomain
  <2>3. Excused
    BY <1>5, <2>2 DEF PollRequest, Excused
  <2>4. PICK S : Exchange({d}, S) \/ ExchangeFails({d}, S)
    BY <1>5, ForkSends
  <2> QED BY <1>1, <2>2, <2>3, <2>4, HarmlessExchange
<1> QED BY <1>2, <1>3, <1>4, <1>5, <1>6 DEF DaemonStep

LEMMA HarmlessChild ==
    ASSUME BagInv, NEW k \in Kids, KidStep(k) \/ KidTimeout(k), UNCHANGED myvars
    PROVE  Harmless
<1>1. op' = op /\ DOMAIN kid' = Kids
  BY DEF BagInv, myvars, KidStep, KidTimeout, KidSends, KidTo, KidCloses, KidAcked, KidStores,
         KidDiskFull, KidMismatch, KidRetries
<1>2. CASE KidCloses(k)
  BY <1>1, <1>2, HarmlessQuiet DEF KidCloses, netvars
<1>3. CASE KidSends(k) \/ KidTimeout(k)
  <2>1. PICK D, S : Exchange(D, S) /\ D = {}
    BY <1>3 DEF KidSends, KidTimeout, KidRetries
  <2> QED BY <1>1, <2>1, HarmlessExchange
<1>4. CASE \E d \in InFlight :
               KidAcked(k, d) \/ KidStores(k, d) \/ KidDiskFull(k, d) \/ KidMismatch(k, d)
  <2>1. PICK d : d.dst = k /\ \E S : Exchange({d}, S)
    BY <1>4 DEF KidAcked, KidStores, KidDiskFull, KidMismatch, KidRetries
  <2>2. Request \notin {d}
    BY <2>1, RequestGoesTo DEF Kids
  <2> QED BY <1>1, <2>1, <2>2, HarmlessExchange
<1> QED BY <1>2, <1>3, <1>4 DEF KidStep

LEMMA HarmlessNetwork ==
    ASSUME BagInv, NetStep
    PROVE  Harmless
<1>1. op' = op /\ kid' = kid
  BY DEF NetStep, myvars, tdvars
<1>2. PICK d \in InFlight : Lose(d) \/ Duplicate(d)
  BY DEF NetStep
<1>3. IsABag(net)'
  <2>1. CASE Lose(d)
    BY <2>1 DEF BagInv, Lose, SetToBag, (-), IsABag
  <2>2. CASE Duplicate(d)
    BY <2>2 DEF BagInv, Duplicate, SetToBag, (+), IsABag
  <2> QED BY <1>2, <2>1, <2>2
<1>4. CASE Lose(d)
  <2>1. lost' # lost
    BY <1>4 DEF Lose
  <2> QED BY <1>1, <1>3, <2>1 DEF Harmless, Excused, BagInv
<1>5. CASE Duplicate(d)
  <2>1. ~(Copies(Request, net') < Copies(Request, net))
    BY <1>5 DEF BagInv, Duplicate, SetToBag, (+), IsABag, Copies, BagToSet
  <2> QED BY <1>1, <1>3, <2>1 DEF Harmless, BagInv
<1> QED BY <1>2, <1>4, <1>5

LEMMA HarmlessStep == BagInv /\ [Next]_vars => Harmless
<1> SUFFICES ASSUME BagInv, [Next]_vars PROVE Harmless
  OBVIOUS
<1>1. CASE ClientStep
  BY <1>1, HarmlessClient DEF ClientStep, ClientTimeout
<1>2. CASE ServerStep \/ ServerFails
  BY <1>2, HarmlessServer DEF ServerStep, ServerFails
<1>3. CASE NetStep
  BY <1>3, HarmlessNetwork
<1>4. ASSUME NEW k \in Kids, ChildStep(k) PROVE Harmless
  BY <1>4, HarmlessChild DEF ChildStep, ChildTimeout
<1>5. CASE UNCHANGED vars
  BY <1>5, HarmlessQuiet DEF BagInv, vars, netvars, tdvars, myvars
<1> QED BY <1>1, <1>2, <1>3, <1>4, <1>5 DEF Next

LEMMA InitBag == Init => BagInv
<1> SUFFICES ASSUME Init PROVE BagInv
  OBVIOUS
<1>1. PICK S : net = SetToBag(S)
  BY DEF Init, NetInit
<1>2. IsABag(net)
  BY <1>1 DEF SetToBag, IsABag
<1>3. op \in {"RRQ", "WRQ"} /\ DOMAIN kid = Kids
  BY DEF Init, MyInit, TdInit
<1> QED BY <1>2, <1>3 DEF BagInv

\* While fork() does not fail, the daemon overlooks a request only when it has a
\* child to wait for, whatever other programs send.
THEOREM MyOverlookedBesideChild == Spec => OverlookedBesideChild
<1>1. BagInv /\ [Next]_vars => BagInv'
  BY HarmlessStep DEF Harmless
<1>2. BagInv /\ [Next]_vars =>
         [(Copies(Request, net') < Copies(Request, net) /\ lost' = lost
             /\ <<"tftpd", "fork">> \notin broken'
             /\ \A k \in Kids : kid'[k].pc = "off" <=> kid[k].pc = "off")
           => Unreaped # {}]_vars
  BY HarmlessStep DEF Harmless, Excused
<1> QED BY <1>1, <1>2, InitBag, PTL DEF Spec, OverlookedBesideChild

--------------------------------------------------------------------------------
(* The order of a download: what is on its way.                                *)

\* When nothing but one datagram is on its way, one thing moves.
LEMMA OneNew ==
    ASSUME NEW S, Coming' \subseteq S, \A x \in Coming' : net'[x] = 1,
           \A x, y \in S : x = y,
           \A x \in S : Expected(x)',
           \A k \in Kids : kid'[k].pc = "send" => S = {},
           \A k, l \in Kids : kid'[k].pc = "send" /\ kid'[l].pc = "send" => k = l
    PROVE  OneMoving'
<1>1. \A x \in Coming' : net'[x] = 1 /\ Expected(x)'
  OBVIOUS
<1>2. \A x, y \in Coming' : x = y
  OBVIOUS
<1>3. \A k \in Kids : kid'[k].pc = "send" => Coming' = {}
  OBVIOUS
<1> QED BY <1>1, <1>2, <1>3 DEF OneMoving

\* The conditions under which a step is taken while get_file() waits.
Waiting ==
    /\ Setting /\ TransferInv /\ RETRIES > 1 /\ Steady /\ Steady'
    /\ ~Posting /\ pc = "wait" /\ WaitInv /\ StoredInv

\* No call of the server fails, and the daemon runs.
LEMMA NothingFails ==
    ASSUME Waiting
    PROVE  /\ ~down /\ broken = {} /\ broken' = {} /\ ~down'
           /\ \A p, f : ~Breaks(p, f)
  BY DEF Waiting, Steady, Breaks

LEMMA WaitFacts ==
    ASSUME Waiting
    PROVE  /\ MyTypeOK /\ NetTypeOK /\ NetInv /\ KidInv /\ TdTypeOK
           /\ IsABag(net) /\ OneMoving /\ op = "RRQ"
           /\ next \in Nat /\ next < Chunks /\ next + 1 < M
           /\ next % M = next /\ (next + 1) % M = next + 1
           /\ i \in Nat /\ Len(lost) \in Nat /\ RETRIES \in Nat /\ 1 < RETRIES
           /\ next = 0 => OpeningInv
           /\ next > 0 => ServedInv /\ OtherInv
<1>1. MyTypeOK /\ NetTypeOK /\ NetInv /\ KidInv /\ TdTypeOK
  BY DEF Waiting, TransferInv, TypeInv, TypeOK
<1>2. next \in Nat /\ next < Chunks /\ i \in Nat /\ op = "RRQ"
  BY <1>1 DEF MyTypeOK, Waiting, WaitInv, Posting
<1>3. next + 1 < M
  BY <1>2
<1>4. next % M = next /\ (next + 1) % M = next + 1
  BY <1>2, <1>3, CountSmall
<1>5. Len(lost) \in Nat /\ IsABag(net)
  BY <1>1 DEF NetTypeOK
<1>6. OneMoving /\ (next = 0 => OpeningInv) /\ (next > 0 => ServedInv /\ OtherInv) /\ RETRIES > 1
  BY <1>2 DEF Waiting, WaitInv
<1> QED BY <1>1, <1>2, <1>3, <1>4, <1>5, <1>6

\* When all that is on its way is taken, only what is sent is on its way, once.
LEMMA NewComing ==
    ASSUME Waiting, \A x : Live(x)' => Live(x),
           NEW D, NEW S, Coming \subseteq D, Exchange(D, S)
    PROVE  /\ Coming' \subseteq S /\ \A x \in Coming' : net'[x] = 1
           /\ S \subseteq InFlight'
<1>0. IsABag(net) /\ \A x \in Coming : net[x] = 1
  BY WaitFacts DEF OneMoving
<1>1. \A x \in InFlight' : x \in S \/ (x \in InFlight /\ net[x] > (IF x \in D THEN 1 ELSE 0))
  BY <1>0 DEF Exchange, InFlight, BagToSet, SetToBag, (+), (-), IsABag
<1>2. S \subseteq InFlight'
  BY <1>0 DEF Exchange, InFlight, BagToSet, SetToBag, (+), (-), IsABag
<1>3. \A x \in S : (x \in InFlight => x \in D /\ net[x] = 1) => net'[x] = 1
  BY <1>0 DEF Exchange, InFlight, BagToSet, SetToBag, (+), (-), IsABag
<1>4. \A x \in Coming' : x \in InFlight' /\ Live(x)
  BY DEF Coming
<1>5. \A x : x \in InFlight /\ Live(x) => x \in D /\ net[x] = 1
  BY <1>0 DEF Coming
<1>6. Coming' \subseteq S
  BY <1>1, <1>4, <1>5
<1> QED BY <1>2, <1>3, <1>4, <1>5, <1>6

\* What is known of a child that has been forked.
LEMMA WaitKid ==
    ASSUME Waiting, NEW k \in Kids
    PROVE  /\ kid[k] \in Kid /\ kid[k].j \in Nat /\ kid[k].count \in Nat
           /\ kid[k].pc \in {"off", "send", "wait"} \cup Gone
           /\ kid[k].pc # "off" => /\ kid[k].op = "RRQ" /\ kid[k].count \in 1..Chunks
                                   /\ kid[k].pc \in {"send", "wait"} => kid[k].j < RETRIES
           /\ kid[k].pc = "off" => kid[k].j = 0
           /\ kid[k].pc = "send" => kid[k].j = 0
<1>1. kid[k] \in Kid /\ Serves(kid[k])
  BY WaitFacts DEF TdTypeOK, KidInv
<1>2. kid[k].pc = "send" => kid[k].j = 0
  BY DEF Waiting, WaitInv
<1>3. kid[k].j \in Nat /\ kid[k].count \in Nat /\ kid[k].pc \in {"off", "send", "wait"} \cup Gone
  BY <1>1 DEF Kid, Gone
<1>4. kid[k].pc = "off" => kid[k].j = 0
  BY <1>1 DEF Serves, NoKid
<1>5. kid[k].pc # "off" => /\ kid[k].op = "RRQ" /\ kid[k].count \in 1..Chunks
                           /\ kid[k].pc \in {"send", "wait"} => kid[k].j < RETRIES
  BY <1>1, WaitFacts DEF Serves, Waiting
<1> QED BY <1>1, <1>2, <1>3, <1>4, <1>5

\* What is on its way goes where the transfer is.
LEMMA ComingKind ==
    ASSUME Waiting, NEW d \in Coming
    PROVE  /\ d \in InFlight /\ net[d] = 1 /\ Coming = {d}
           /\ \A k \in Kids : kid[k].pc # "send"
           /\ \/ d = Request /\ next = 0 /\ d.dst = "tftpd" /\ d.op = "RRQ"
              \/ /\ d = LastAck /\ next > 0 /\ d.dst = tid /\ d.op = "ACK" /\ d.blk = next
                 /\ tid \in Kids /\ kid[tid].pc = "wait" /\ d.dst # "client"
              \/ /\ d.dst = "client" /\ d.op = "DATA" /\ d.src \in Kids
                 /\ d.blk = next + 1 /\ kid[d.src].count = next + 1
                 /\ next > 0 => d.src = tid
<1>1. d \in InFlight /\ net[d] = 1 /\ Coming = {d} /\ Expected(d) /\ \A k \in Kids : kid[k].pc # "send"
  BY WaitFacts DEF OneMoving, Coming
<1>2. CASE d = Request /\ next = 0
  BY <1>1, <1>2, WaitFacts DEF Request, Control
<1>3. CASE d = LastAck /\ next > 0
  <2>1. tid \in Kids /\ kid[tid].pc # "off"
    BY <1>3, WaitFacts DEF ServedInv
  <2>2. d.dst = tid /\ d.op = "ACK" /\ d.blk = next
    BY <1>3 DEF LastAck, Ack, Control
  <2>3. kid[tid].pc = "wait"
    BY <1>1, <2>1, <2>2, WaitKid DEF Coming, Live
  <2> QED BY <1>1, <1>3, <2>1, <2>2, <2>3 DEF Kids
<1> QED BY <1>1, <1>2, <1>3 DEF Expected

\* When everything is quiet, nothing is on its way.
LEMMA QuietWait ==
    ASSUME Waiting, Quiet
    PROVE  Coming = {} /\ \A k \in Kids : kid[k].pc # "send" /\ kid[k].pc # "close"
<1>1. \A k \in Kids : kid[k].pc # "send" /\ kid[k].pc # "close"
  BY DEF Quiet
<1>2. ASSUME NEW d \in Coming PROVE FALSE
  <2>1. ~Awaited(d)
    BY ComingKind DEF Quiet
  <2>2. d.dst # "client" /\ d.dst # "tftpd"
    BY <2>1, NothingFails DEF Awaited, Waiting
  <2>3. d.dst \in Kids /\ kid[d.dst].pc = "wait"
    BY <2>2, ComingKind
  <2> QED BY <2>1, <2>3 DEF Awaited
<1> QED BY <1>1, <1>2

\* The ACK of the last block is on its way whenever it is in flight.
LEMMA LastAckLive ==
    \A k : /\ LastAck \in InFlight /\ k = tid /\ kid[k].pc \notin Gone => LastAck \in Coming
           /\ (LastAck \in InFlight)' /\ k = tid' /\ kid'[k].pc \notin Gone => (LastAck \in Coming)'
  BY DEF LastAck, Ack, Control, Coming, Live

\* A timeout that comes in order.
LEMMA InOrderTimeout ==
    ASSUME Steady, Steady', NEW order, InTime(order)
    PROVE  Quiet /\ order
  BY DEF Steady, InTime

--------------------------------------------------------------------------------
(* The order of a download: the steps of the client.                           *)

\* Nothing has moved before the client repeats its request or its last ACK.
LEMMA GetTimeoutOrder ==
    ASSUME Waiting, InTime(\A k \in Kids : kid[k].pc = "wait" => i <= kid[k].j),
           GetTimeout, UNCHANGED tdvars, pc' = "wait"
    PROVE  WaitInv'
<1>1. Coming = {} /\ (\A k \in Kids : kid[k].pc # "send" /\ kid[k].pc # "close") /\ ~Moving
  BY InOrderTimeout, QuietWait DEF Waiting, Moving
<1>2. kid' = kid /\ lost' = lost /\ next' = next /\ got' = got /\ tid' = tid
  BY DEF tdvars, GetTimeout, Exchange
<1>3. \A x : Live(x)' => Live(x)
  BY <1>2 DEF Live
<1>4. \A k \in Kids : kid'[k].pc # "send"
  BY <1>1, <1>2
<1>5. CASE next = 0
  <2>1. Exchange({}, {Request})
    BY <1>5, WaitFacts DEF GetTimeout, AskAgain
  <2>2. Coming' \subseteq {Request} /\ \A x \in Coming' : net'[x] = 1
    BY <1>1, <1>3, <2>1, NewComing
  <2>3. Request' = Request
    BY DEF GetTimeout, Request
  <2>4. \A x \in {Request} : Expected(x)'
    BY <1>2, <1>5, <2>3 DEF Expected
  <2>5. OneMoving'
    BY <1>4, <2>2, <2>4, OneNew
  <2>6. OpeningInv'
    BY <1>1, <1>2, <1>5, WaitFacts DEF OpeningInv, Sent
  <2> QED BY <1>2, <1>4, <1>5, <2>5, <2>6 DEF Waiting, WaitInv
<1>6. CASE next > 0
  <2>1. ServedInv /\ OtherInv /\ tid \in Kids /\ port = tid /\ kid[tid].pc # "off"
    BY <1>6, WaitFacts DEF ServedInv
  <2>2. AckNext(next) = LastAck
    BY <2>1, WaitFacts DEF AckNext, LastAck
  <2>3. Exchange({}, {LastAck}) /\ port' = port
    BY <1>6, <2>2 DEF GetTimeout
  <2>4. Coming' \subseteq {LastAck} /\ (\A x \in Coming' : net'[x] = 1) /\ LastAck \in InFlight'
    BY <1>1, <1>3, <2>3, NewComing
  <2>5. LastAck' = LastAck
    BY <1>2 DEF LastAck
  <2>6. \A x \in {LastAck} : Expected(x)'
    BY <1>2, <1>6, <2>5 DEF Expected
  <2>7. OneMoving'
    BY <1>4, <2>4, <2>6, OneNew
  <2>8. kid[tid].pc \notin Gone => LastAck \notin InFlight /\ Moving'
    BY <1>1, <1>2, <2>4, <2>5, LastAckLive DEF Moving
  <2>9. ServedInv'
    <3>1. kid[tid].pc = "wait" /\ kid[tid].count = next => AckLost
      BY <2>1, <2>8 DEF ServedInv, Gone
    <3>2. AckLost' = AckLost
      BY <1>2 DEF AckLost
    <3> QED BY <1>2, <2>1, <2>3, <2>4, <2>5, <3>1, <3>2 DEF ServedInv
  <2>10. OtherInv'
    <3> SUFFICES ASSUME NEW k \in Kids \ {tid}, kid[k].pc = "wait"
                 PROVE  /\ kid[tid].pc \in {"send", "wait"} /\ Moving'
                        /\ Len(lost) = 2 /\ kid[tid].j = 0
      BY <1>2, <1>4 DEF OtherInv
    <3>1. kid[tid].pc \in {"send", "wait"} /\ Len(lost) = 2 /\ kid[tid].j = 0
      BY <1>1, <2>1 DEF OtherInv
    <3> QED BY <2>8, <3>1 DEF Gone
  <2> QED BY <1>2, <1>4, <1>6, <2>7, <2>9, <2>10 DEF Waiting, WaitInv
<1> QED BY <1>5, <1>6, WaitFacts

\* The block that comes is the next one of the file.
LEMMA BlockInOrder ==
    ASSUME Waiting, NEW d \in InFlight, d.dst = "client"
    PROVE  /\ Coming = {d} /\ Accepted(d) /\ FromHost(d, "there") /\ d.op = "DATA"
           /\ \A k \in Kids : kid[k].pc # "send"
           /\ d.src \in Kids /\ kid[d.src].pc # "off" /\ kid[d.src].count = next + 1
           /\ next > 0 => d.src = tid
           /\ d.piece = next + 1 /\ d.size = PieceSize(next + 1)
           /\ Learned(d) = <<d.src, d.src>>
<1>1. d \in Coming
  BY DEF Coming, Live, Kids
<1>2. /\ Coming = {d} /\ d.op = "DATA" /\ d.src \in Kids /\ d.blk = next + 1
      /\ kid[d.src].count = next + 1 /\ (next > 0 => d.src = tid)
      /\ \A k \in Kids : kid[k].pc # "send"
  BY <1>1, ComingKind
<1>3. FromHost(d, "there")
  BY <1>2 DEF FromHost, Host, Kids
<1>4. Sound(d) /\ d # Request /\ d \notin Stray /\ d.src # "client"
  <2>1. Sound(d) /\ d.src # "client"
    BY <1>2, WaitFacts DEF NetInv, Kids
  <2>2. d \notin Stray
    BY <1>2, <1>3 DEF Waiting, Setting
  <2> QED BY <2>1, <2>2 DEF Request, Control
<1>5. Block(d) /\ kid[d.src].pc # "off"
  BY <1>2, <1>4 DEF Sound, Waiting
<1>6. Learned(d) = <<d.src, d.src>>
  <2>1. CASE next = 0
    <3>1. tid = NoTid
      BY <2>1, WaitFacts DEF OpeningInv
    <3> QED BY <1>3, <3>1 DEF Learned
  <2>2. CASE next > 0
    <3>1. tid = d.src /\ port = d.src /\ tid # NoTid
      BY <1>2, <2>2, WaitFacts DEF ServedInv, Kids, NoTid
    <3> QED BY <3>1 DEF Learned
  <2> QED BY <2>1, <2>2, WaitFacts
<1>7. Accepted(d)
  BY <1>3, <1>6 DEF Accepted
<1> QED BY <1>2, <1>3, <1>5, <1>6, <1>7 DEF Block

LEMMA SentFacts ==
    ASSUME Waiting, NEW k \in Kids, NEW l \in Kids, k # l
    PROVE  /\ Kids = {k, l} /\ (k = "beside" \/ l = "beside")
           /\ Sent(k) \in Nat /\ Sent(l) \in Nat
           /\ Sent("child") + Sent("beside") = Sent(k) + Sent(l)
<1>1. Sent(k) \in Nat /\ Sent(l) \in Nat
  BY WaitKid DEF Sent
<1>2. (k = "child" /\ l = "beside") \/ (k = "beside" /\ l = "child")
  BY DEF Kids
<1>3. Sent("child") + Sent("beside") = Sent(k) + Sent(l)
  BY <1>1, <1>2
<1> QED BY <1>1, <1>2, <1>3 DEF Kids

\* When a block comes, the child that has sent it waits for its ACK, and a second
\* child has not used up what may be lost.
LEMMA BlockAlone ==
    ASSUME Waiting, NEW s \in Kids, NEW k \in Kids, k # s,
           next > 0 => s = tid,
           kid[s].pc \notin {"off", "send"}, kid[s].count = next + 1, kid[k].pc = "wait"
    PROVE  /\ kid[s].pc = "wait"
           /\ Len(lost) \in {1, 2} /\ (Len(lost) = 1 => kid[s].j = 0)
           /\ kid[s].j \in {0, 1}
<1>0. /\ Len(lost) \in Nat /\ RETRIES \in Nat /\ 1 < RETRIES
      /\ kid[s].j \in Nat /\ kid[k].j \in Nat
  BY WaitKid, WaitFacts
<1>1. Len(lost) <= 2
  BY SentFacts DEF Waiting, Steady, ServedTwice
<1>2. CASE next = 0
  <2>1. OpeningInv
    BY <1>2, WaitFacts
  <2>2. Sent(s) + Sent(k) <= Len(lost) + 1
    <3>1. \/ Sent("child") + Sent("beside") <= Len(lost)
          \/ Sent("child") + Sent("beside") = Len(lost) + 1
      BY <2>1 DEF OpeningInv
    <3>2. \/ Sent(s) + Sent(k) <= Len(lost)
          \/ Sent(s) + Sent(k) = Len(lost) + 1
      BY <3>1, SentFacts
    <3>3. Sent(s) \in Nat /\ Sent(k) \in Nat
      BY SentFacts
    <3> QED BY <1>0, <3>2, <3>3
  <2>3. Sent(s) = kid[s].j + 1 /\ Sent(k) = kid[k].j + 1
    BY DEF Sent
  <2>5. kid[s].j + 1 <= Len(lost)
    BY <1>0, <2>2, <2>3
  <2>6. kid[s].j # RETRIES
    BY <1>0, <1>1, <2>5
  <2>7. kid[s].pc = "wait"
    <3>1. kid[s].pc \notin Gone
      BY <2>1, <2>6 DEF OpeningInv
    <3> QED BY <3>1, WaitKid
  <2>8. \A m, n \in Nat : m + 1 <= n /\ n <= 2 => n \in {1, 2} /\ (n = 1 => m = 0) /\ m \in {0, 1}
    OBVIOUS
  <2> QED BY <1>0, <1>1, <2>5, <2>7, <2>8
<1>3. CASE next > 0
  <2>1. s = tid /\ k \in Kids \ {tid}
    BY <1>3
  <2> QED BY <1>1, <1>3, <2>1, WaitFacts, WaitKid DEF OtherInv
<1> QED BY <1>2, <1>3, WaitFacts

LEMMA StoreNext ==
    ASSUME NEW f \in Seq(1..Chunks), NEW e \in 1..Chunks
    PROVE  /\ Len(Append(f, e)) = Len(f) + 1
           /\ \A n \in 1..(Len(f) + 1) : Append(f, e)[n] = IF n <= Len(f) THEN f[n] ELSE e
  BY AppendProperties, LenProperties

\* The next block is stored under the next number.
LEMMA GetBlockOrder ==
    ASSUME Waiting, NEW d \in InFlight, GetBlock(d), UNCHANGED tdvars
    PROVE  StoredInv' /\ WholeInv' /\ (pc' = "wait" => WaitInv')
<1> DEFINE s == d.src
<1>1. /\ Coming = {d} /\ (\A k \in Kids : kid[k].pc # "send")
      /\ s \in Kids /\ kid[s].pc # "off" /\ kid[s].count = next + 1
      /\ next > 0 => s = tid
      /\ d.piece = next + 1 /\ d.size = PieceSize(next + 1)
      /\ Learned(d) = <<s, s>>
  BY BlockInOrder DEF GetBlock, Accepted
<1>2. /\ kid' = kid /\ lost' = lost /\ next' = next + 1 /\ tid' = s /\ port' = s /\ i' = 0
      /\ got' = Append(got, next + 1)
      /\ pc' = IF PieceSize(next + 1) = StdSize THEN "wait" ELSE "last"
      /\ Exchange({d}, {Ack("client", s, (next + 1) % M)})
  BY <1>1 DEF tdvars, GetBlock, Learn, Exchange
<1> HIDE DEF s
<1>3. got \in Seq(1..Chunks) /\ Len(got) = next
  BY WaitFacts DEF MyTypeOK, Waiting, WaitInv
<1>4. Len(got') = next + 1 /\ StoredInv'
  <2>1. next + 1 \in 1..Chunks /\ next \in Nat
    <3>1. next \in Nat /\ next < Chunks
      BY WaitFacts
    <3> QED BY <3>1
  <2>2. Len(got') = next + 1 /\ \A n \in 1..(next + 1) : got'[n] = IF n <= next THEN got[n] ELSE next + 1
    BY <1>2, <1>3, <2>1, StoreNext
  <2>3. \A n \in 1..next : got[n] = n
    BY <1>3 DEF Waiting, StoredInv
  <2>4. \A n \in 1..(next + 1) : got'[n] = n
    BY <2>1, <2>2, <2>3
  <2> QED BY <2>1, <2>2, <2>4 DEF StoredInv
<1>14. WholeInv'
  <2> SUFFICES ASSUME pc' = "last" PROVE Len(got') = Chunks
    BY <1>2 DEF WholeInv
  <2>1. next + 1 = Chunks
    BY <1>2 DEF PieceSize
  <2> QED BY <1>4, <2>1
<1> SUFFICES ASSUME pc' = "wait" PROVE WaitInv'
  BY <1>4, <1>14
<1>5. next' < Chunks
  <2>1. next + 1 # Chunks
    BY <1>2 DEF PieceSize
  <2> QED BY <1>2, <2>1, WaitFacts
<1>6. LastAck' = Ack("client", s, (next + 1) % M)
  BY <1>2, WaitFacts DEF LastAck
<1>7. \A x : Live(x)' => Live(x)
  BY <1>2 DEF Live
<1>8. /\ Coming' \subseteq {LastAck'} /\ (\A x \in Coming' : net'[x] = 1)
      /\ LastAck' \in InFlight'
  <2>1. Exchange({d}, {LastAck'})
    BY <1>2, <1>6
  <2> QED BY <1>1, <1>7, <2>1, NewComing
<1>9. \A k \in Kids : kid'[k].pc # "send"
  BY <1>1, <1>2
<1>10. OneMoving'
  <2>1. \A x \in {LastAck'} : Expected(x)'
    BY <1>2, WaitFacts DEF Expected
  <2> QED BY <1>8, <1>9, <2>1, OneNew
<1>11. ServedInv'
  BY <1>1, <1>2, <1>8, WaitFacts DEF ServedInv
<1>12. OtherInv'
  <2> SUFFICES ASSUME NEW k \in Kids \ {s}, kid[k].pc = "wait"
               PROVE  /\ kid[s].pc = "wait" /\ Moving'
                      /\ Len(lost) \in {1, 2} /\ (Len(lost) = 1 => kid[s].j = 0)
                      /\ kid[s].j \in {0, 1} /\ kid[s].count # next' + 1
    BY <1>2, <1>9 DEF OtherInv
  <2>1. /\ kid[s].pc = "wait"
        /\ Len(lost) \in {1, 2} /\ (Len(lost) = 1 => kid[s].j = 0)
        /\ kid[s].j \in {0, 1}
    BY <1>1, BlockAlone
  <2>2. Moving'
    BY <1>2, <1>8, <2>1, LastAckLive DEF Moving, Gone
  <2> QED BY <1>1, <1>2, <2>1, <2>2, WaitFacts
<1>13. next' # 0
  BY <1>2, WaitFacts
<1> QED BY <1>2, <1>4, <1>5, <1>9, <1>10, <1>11, <1>12, <1>13 DEF WaitInv

\* The steps of the client while get_file() waits.
LEMMA ClientOrder ==
    ASSUME Waiting, ClientStep
    PROVE  StoredInv' /\ WholeInv' /\ (pc' = "wait" => WaitInv')
<1>1. CASE ClientTimeout
  <2>1. GetTimeout /\ UNCHANGED tdvars /\ InTime(\A k \in Kids : kid[k].pc = "wait" => i <= kid[k].j)
    BY <1>1, WaitFacts DEF ClientTimeout, MyTimeout, PostTimeout, PostDataTimeout
  <2>2. StoredInv' /\ WholeInv'
    BY <2>1 DEF GetTimeout, Counted, Waiting, StoredInv, WholeInv
  <2> QED BY <2>1, <2>2, GetTimeoutOrder
<1>2. CASE MyStep /\ UNCHANGED <<tdvars, ambience>>
  <2>1. PICK d \in InFlight :
           \/ ReceiveForeign(d) \/ ReceiveOtherTid(d)
           \/ GetBlock(d) \/ GetFails(d) \/ GetOther(d)
    BY <1>2, WaitFacts DEF MyStep, Waiting, GetLast, PostPiece, PostFlood, PostGranted, PostOther,
                           PostAcked, PostMismatch
  <2>2. d.dst = "client"
    BY <2>1 DEF ReceiveForeign, ReceiveOtherTid, GetBlock, GetFails, GetOther, Accepted
  <2>3. Accepted(d) /\ FromHost(d, "there") /\ d.op = "DATA"
    BY <2>2, BlockInOrder
  <2>4. GetBlock(d) \/ GetFails(d)
    BY <2>1, <2>3 DEF ReceiveForeign, ReceiveOtherTid, GetOther
  <2>5. CASE GetFails(d)
    BY <2>5 DEF GetFails, Waiting, StoredInv, WholeInv
  <2> QED BY <1>2, <2>4, <2>5, GetBlockOrder
<1> QED BY <1>1, <1>2 DEF ClientStep

--------------------------------------------------------------------------------
(* The order of a download: the steps of the server and its children.          *)

\* Two states of the children that differ in which of those that ended are reaped.
SameTo(after) ==
    \A k \in Kids : /\ after[k].count = kid[k].count /\ after[k].j = kid[k].j
                    /\ after[k].pc = kid[k].pc \/ {after[k].pc, kid[k].pc} \subseteq Gone

LEMMA ReapedSame ==
    ASSUME Waiting, NEW after \in Reaped
    PROVE  after \in [Kids -> Kid] /\ SameTo(after)
<1>1. kid \in [Kids -> Kid]
  BY WaitFacts DEF TdTypeOK
<1>2. CASE after = kid
  BY <1>1, <1>2 DEF SameTo
<1>3. CASE \E z \in Kids : kid[z].pc = "zombie" /\ after = [kid EXCEPT ![z].pc = "reaped"]
  <2>1. PICK z \in Kids : kid[z].pc = "zombie" /\ after = [kid EXCEPT ![z].pc = "reaped"]
    BY <1>3
  <2>2. PICK q : q = [kid[z] EXCEPT !.pc = "reaped"]
    OBVIOUS
  <2>3. q \in Kid /\ q.pc = "reaped" /\ q.count = kid[z].count /\ q.j = kid[z].j
    BY <1>1, <2>2 DEF Kid
  <2>4. after \in [Kids -> Kid] /\ \A k \in Kids : after[k] = IF k = z THEN q ELSE kid[k]
    BY <1>1, <2>1, <2>2, <2>3
  <2> QED BY <2>1, <2>3, <2>4 DEF SameTo, Gone
<1> QED BY <1>2, <1>3 DEF Reaped

LEMMA SameLive ==
    ASSUME SameTo(kid')
    PROVE  (\A x : Live(x)' = Live(x)) /\ \A k \in Kids : kid'[k].pc = "send" <=> kid[k].pc = "send"
<1>1. \A k \in Kids : /\ kid'[k].pc \in Gone <=> kid[k].pc \in Gone
                      /\ kid'[k].pc = "send" <=> kid[k].pc = "send"
  BY DEF SameTo, Gone
<1> QED BY <1>1 DEF Live

\* Before the first block, a step that takes what was on its way to the daemon.
LEMMA SameOpening ==
    ASSUME Waiting, next = 0, UNCHANGED <<myvars, lost>>, SameTo(kid'),
           ~ \E d \in Coming : d.dst = "client"
    PROVE  OpeningInv'
<1>1. OpeningInv /\ tid' = tid /\ lost' = lost
  BY WaitFacts DEF myvars
<1>2. \A k \in Kids : Sent(k)' = Sent(k)
  BY DEF SameTo, Sent, Gone
<1>3. Sent("child")' = Sent("child") /\ Sent("beside")' = Sent("beside")
  BY <1>2 DEF Kids
<1>4. Sent("child") + Sent("beside") <= Len(lost)
  BY <1>1 DEF OpeningInv
<1>5. \A k \in Kids : /\ kid'[k].pc # "off" => kid'[k].count = 1
                      /\ kid'[k].pc \in Gone => kid'[k].j = RETRIES
  BY <1>1 DEF OpeningInv, SameTo, Gone
<1> QED BY <1>1, <1>3, <1>4, <1>5 DEF OpeningInv

LEMMA StoredStays ==
    ASSUME Waiting, UNCHANGED myvars
    PROVE  StoredInv' /\ Len(got') = next' /\ next' < Chunks
  BY DEF Waiting, WaitInv, StoredInv, myvars

\* Nothing moves, or a child that has ended goes on ending.
LEMMA SameOrder ==
    ASSUME Waiting, UNCHANGED <<myvars, netvars>>, SameTo(kid')
    PROVE  WaitInv'
<1>1. /\ Coming' = Coming /\ (\A k \in Kids : kid'[k].pc = "send" <=> kid[k].pc = "send")
      /\ InFlight' = InFlight /\ lost' = lost /\ net' = net /\ Moving' = Moving
  BY SameLive DEF Coming, Moving, netvars, InFlight
<1>2. next' = next /\ tid' = tid /\ i' = i /\ port' = port /\ got' = got /\ op' = op
  BY DEF myvars
<1>3. LastAck' = LastAck /\ Request' = Request /\ AckLost' = AckLost
  BY <1>1, <1>2 DEF LastAck, Request, AckLost
<1>4. \A x : Expected(x) => Expected(x)'
  BY <1>2, <1>3 DEF Expected, SameTo
<1>5. OneMoving'
  BY <1>1, <1>4, WaitFacts DEF OneMoving
<1>6. next = 0 => OpeningInv'
  <2> SUFFICES ASSUME next = 0 PROVE OpeningInv'
    OBVIOUS
  <2>1. OpeningInv
    BY WaitFacts
  <2>2. \A k \in Kids : Sent(k)' = Sent(k)
    BY DEF SameTo, Sent, Gone
  <2>3. Sent("child")' = Sent("child") /\ Sent("beside")' = Sent("beside")
    BY <2>2 DEF Kids
  <2>4. \A k \in Kids : /\ kid'[k].pc # "off" => kid'[k].count = 1
                        /\ kid'[k].pc \in Gone => kid'[k].j = RETRIES
    BY <2>1 DEF OpeningInv, SameTo, Gone
  <2> QED BY <1>1, <1>2, <2>1, <2>3, <2>4 DEF OpeningInv
<1>7. next > 0 => ServedInv'
  BY <1>1, <1>2, <1>3, WaitFacts DEF ServedInv, SameTo, Gone
<1>8. next > 0 => OtherInv'
  <2> SUFFICES ASSUME next > 0, NEW k \in Kids \ {tid}
               PROVE  /\ kid'[k].count = kid[k].count /\ kid'[k].pc # "send"
                      /\ kid'[k].pc = "wait" <=> kid[k].pc = "wait"
                      /\ kid'[tid].count = kid[tid].count /\ kid'[tid].j = kid[tid].j
                      /\ kid'[tid].pc \in {"send", "wait"} <=> kid[tid].pc \in {"send", "wait"}
    BY <1>1, <1>2, <1>3, WaitFacts DEF OtherInv
  <2> QED BY <1>1, WaitFacts DEF OtherInv, ServedInv, SameTo, Gone
<1>9. \A k \in Kids : kid'[k].pc = "send" => kid'[k].j = 0
  BY <1>1 DEF Waiting, WaitInv, SameTo
<1>10. next = 0 \/ next > 0
  BY WaitFacts
<1> QED BY <1>2, <1>5, <1>6, <1>7, <1>8, <1>9, <1>10, StoredStays DEF WaitInv

\* A request comes before the first block only.
LEMMA RequestOnly ==
    ASSUME Waiting, NEW d \in InFlight, d.dst = "tftpd"
    PROVE  Coming = {d} /\ d = Request /\ d.op = "RRQ" /\ next = 0 /\ \A k \in Kids : kid[k].pc # "send"
<1>1. d \in Coming
  BY DEF Coming, Live, Kids
<1> QED BY <1>1, ComingKind DEF Kids

LEMMA ServerOrder ==
    ASSUME Waiting, ServerStep
    PROVE  WaitInv'
<1>0. UNCHANGED myvars /\ lost' = lost
  BY DEF ServerStep, DaemonStep, PollNothing, PollOverwritten, PollUnserved, PollInvalid, PollRequest,
         Exchange, ExchangeFails, netvars
<1>1. next' = next /\ tid' = tid /\ Len(got') = next' /\ next' < Chunks /\ op' = op
  BY <1>0, StoredStays DEF myvars
<1>2. CASE PollNothing
  BY <1>0, <1>2, ReapedSame, SameOrder DEF PollNothing
<1>3. ASSUME NEW d \in InFlight, PollOverwritten(d) PROVE WaitInv'
  <2>1. Coming = {d} /\ d.dst = "tftpd" /\ next = 0 /\ \A k \in Kids : kid[k].pc # "send"
    BY <1>3, RequestOnly DEF PollOverwritten
  <2>2. SameTo(kid') /\ Exchange({d}, {})
    BY <1>3, ReapedSame DEF PollOverwritten
  <2>3. (\A x : Live(x)' => Live(x)) /\ \A k \in Kids : kid'[k].pc # "send"
    BY <2>1, <2>2, SameLive
  <2>4. Coming' \subseteq {}
    BY <2>1, <2>2, <2>3, NewComing
  <2>5. OneMoving'
    BY <2>3, <2>4, OneNew
  <2>6. OpeningInv'
    BY <1>0, <2>1, <2>2, SameOpening
  <2> QED BY <1>1, <2>1, <2>3, <2>5, <2>6 DEF WaitInv
<1>4. ASSUME NEW d \in InFlight, PollInvalid(d) PROVE WaitInv'
  BY <1>4, RequestOnly DEF PollInvalid, Polled
<1>6. ASSUME NEW d \in InFlight, PollUnserved(d) PROVE FALSE
  BY <1>6, NothingFails DEF PollUnserved
<1>5. ASSUME NEW d \in InFlight, NEW k \in Kids, PollRequest(d, k) PROVE WaitInv'
  <2>1. Coming = {d} /\ d.op = "RRQ" /\ next = 0 /\ \A l \in Kids : kid[l].pc # "send"
    BY <1>5, RequestOnly DEF PollRequest, Polled
  <2>2. PICK q : q = [NoKid EXCEPT !.op = d.op, !.count = 1, !.pc = "send"]
    OBVIOUS
  <2>3. q.pc = "send" /\ q.count = 1 /\ q.j = 0
    BY <2>2 DEF NoKid
  <2>4. PICK after \in Reaped : kid' = [after EXCEPT ![k] = q]
    BY <1>5, <2>1, <2>2, NothingFails DEF PollRequest
  <2>5. SameTo(after) /\ \A l \in Kids : kid'[l] = IF l = k THEN q ELSE after[l]
    BY <2>4, ReapedSame
  <2>6. kid[k].pc = "off" /\ Exchange({d}, {})
    BY <1>5, <2>1, NothingFails DEF PollRequest
  <2>7. \A x : Live(x)' => Live(x)
    BY <2>5, <2>6 DEF Live, SameTo, Gone
  <2>8. Coming' \subseteq {}
    BY <2>1, <2>6, <2>7, NewComing
  <2>9. \A l \in Kids : kid'[l].pc = "send" => l = k
    BY <2>1, <2>5 DEF SameTo, Gone
  <2>10. OneMoving'
    BY <2>8, <2>9, OneNew
  <2>11. OpeningInv'
    <3>1. OpeningInv
      BY <2>1, WaitFacts
    <3>2. Sent(k)' = Sent(k) /\ \A l \in Kids : Sent(l)' = Sent(l)
      BY <2>3, <2>5, <2>6 DEF SameTo, Sent, Gone
    <3>3. Sent("child")' = Sent("child") /\ Sent("beside")' = Sent("beside")
      BY <3>2 DEF Kids
    <3>4. ~ \E x \in Coming : x.dst = "client"
      BY <1>5, <2>1 DEF PollRequest, Polled
    <3>5. Sent("child") + Sent("beside") <= Len(lost)
      BY <3>1, <3>4 DEF OpeningInv
    <3>6. \A l \in Kids : /\ kid'[l].pc # "off" => kid'[l].count = 1
                          /\ kid'[l].pc \in Gone => kid'[l].j = RETRIES
      BY <2>3, <2>5, <3>1 DEF OpeningInv, SameTo, Gone
    <3> QED BY <1>0, <1>1, <3>1, <3>3, <3>5, <3>6 DEF OpeningInv
  <2>12. \A l \in Kids : kid'[l].pc = "send" => kid'[l].j = 0
    BY <2>3, <2>5, <2>9
  <2> QED BY <1>1, <2>1, <2>10, <2>11, <2>12 DEF WaitInv
<1> QED BY <1>2, <1>3, <1>4, <1>5, <1>6 DEF ServerStep, DaemonStep

\* A child that sends its block has taken what was on its way.
LEMMA PacketSent ==
    ASSUME Waiting, UNCHANGED myvars, NEW k \in Kids, NEW q, kid' = [kid EXCEPT ![k] = q],
           kid[k].pc \in {"send", "wait"}, kid[k].count = next + 1,
           q.pc \in {"wait", "close"}, q.count = next + 1,
           next > 0 => k = tid,
           \A l \in Kids : kid[l].pc = "send" => l = k,
           NEW D, Coming \subseteq D, Exchange(D, {KidPacket(k)})
    PROVE  /\ \A l \in Kids : kid'[l] = (IF l = k THEN q ELSE kid[l]) /\ kid'[l].pc # "send"
           /\ OneMoving' /\ Moving' /\ LastAck' \notin Coming'
           /\ \E x \in Coming' : x.dst = "client"
<1> DEFINE e == KidPacket(k)
<1>1. e.dst = "client" /\ e.op = "DATA" /\ e.src = k /\ e.blk = next + 1
  BY DEF KidPacket, Data
<1>2. \A l \in Kids : kid'[l] = (IF l = k THEN q ELSE kid[l])
  BY WaitFacts DEF TdTypeOK
<1>3. \A l \in Kids : kid'[l].pc # "send"
  BY <1>2
<1>4. \A x : Live(x)' => Live(x)
  BY <1>2 DEF Live, Gone
<1> HIDE DEF e
<1>5. Exchange(D, {e})
  BY DEF e
<1>6. Coming' \subseteq {e} /\ (\A x \in Coming' : net'[x] = 1) /\ e \in InFlight'
  BY <1>4, <1>5, NewComing
<1>7. e \in Coming'
  BY <1>1, <1>6 DEF Coming, Live, Kids
<1>8. \A x \in {e} : Expected(x)'
  <2>1. next' = next /\ tid' = tid /\ kid'[k].count = next + 1
    BY <1>2 DEF myvars
  <2> QED BY <1>1, <2>1 DEF Expected
<1>9. OneMoving'
  BY <1>3, <1>6, <1>8, OneNew
<1>10. LastAck' # e
  BY <1>1 DEF LastAck, Ack, Control
<1> QED BY <1>1, <1>2, <1>3, <1>6, <1>7, <1>9, <1>10 DEF Moving

\* Before the first block: one copy more has been sent, and is on its way.
LEMMA OpeningSent ==
    ASSUME Waiting, UNCHANGED <<myvars, lost>>, next = 0, NEW k \in Kids, NEW q,
           \A l \in Kids : kid'[l] = IF l = k THEN q ELSE kid[l],
           ~ \E x \in Coming : x.dst = "client",
           \E x \in Coming' : x.dst = "client",
           kid[k].pc \in {"send", "wait"},
           q.count = 1, q.pc \in {"wait", "close"}, q.pc = "close" => q.j = RETRIES,
           q.j = IF kid[k].pc = "send" THEN 0 ELSE kid[k].j + 1
    PROVE  OpeningInv'
<1>1. OpeningInv /\ Len(lost) \in Nat /\ lost' = lost /\ tid' = tid
  BY WaitFacts DEF myvars
<1>2. PICK l \in Kids : l # k
  BY DEF Kids
<1>3. Sent(l)' = Sent(l)
  BY <1>2 DEF Sent
<1>4. Sent(k)' = Sent(k) + 1
  BY WaitKid DEF Sent
<1>5. Sent(k) \in Nat /\ Sent(l) \in Nat /\ Sent("child") + Sent("beside") = Sent(k) + Sent(l)
  BY <1>2, SentFacts
<1>6. (k = "child" /\ l = "beside") \/ (k = "beside" /\ l = "child")
  BY <1>2 DEF Kids
<1>7. Sent("child")' + Sent("beside")' = Sent(k) + Sent(l) + 1
  BY <1>3, <1>4, <1>5, <1>6
<1>8. Sent("child") + Sent("beside") <= Len(lost)
  BY <1>1 DEF OpeningInv
<1>9. \/ Sent("child")' + Sent("beside")' <= Len(lost)
      \/ Sent("child")' + Sent("beside")' = Len(lost) + 1
  BY <1>1, <1>5, <1>7, <1>8
<1>10. \A m \in Kids : /\ kid'[m].pc # "off" => kid'[m].count = 1
                       /\ kid'[m].pc \in Gone => kid'[m].j = RETRIES
  BY <1>1 DEF OpeningInv, Gone
<1> QED BY <1>1, <1>9, <1>10 DEF OpeningInv

LEMMA KidSendsOrder ==
    ASSUME Waiting, UNCHANGED myvars, NEW k \in Kids, KidSends(k)
    PROVE  WaitInv'
<1>1. /\ kid[k].pc = "send" /\ kid[k].j = 0 /\ Coming = {} /\ (\A l \in Kids : kid[l].pc = "send" => l = k)
      /\ lost' = lost /\ Exchange({}, {KidPacket(k)})
  BY WaitFacts, WaitKid, NothingFails DEF KidSends, OneMoving, Exchange
<1>2. next' = next /\ tid' = tid /\ i' = i /\ port' = port /\ Len(got') = next' /\ next' < Chunks
  BY StoredStays DEF myvars
<1>3. PICK q : q = [kid[k] EXCEPT !.pc = "wait"]
  OBVIOUS
<1>4. q.pc = "wait" /\ q.count = kid[k].count /\ q.j = 0
  BY <1>1, <1>3, WaitKid DEF Kid
<1>5. kid' = [kid EXCEPT ![k] = q]
  BY <1>3, NothingFails DEF KidSends, KidTo
<1>6. kid[k].count = next + 1 /\ (next > 0 => k = tid)
  <2>1. CASE next = 0
    BY <1>1, <2>1, WaitFacts DEF OpeningInv
  <2>2. CASE next > 0
    BY <1>1, <2>2, WaitFacts DEF ServedInv, OtherInv
  <2> QED BY <2>1, <2>2, WaitFacts
<1>7. /\ \A l \in Kids : kid'[l] = (IF l = k THEN q ELSE kid[l]) /\ kid'[l].pc # "send"
      /\ OneMoving' /\ Moving' /\ LastAck' \notin Coming'
      /\ \E x \in Coming' : x.dst = "client"
  BY <1>1, <1>4, <1>5, <1>6, PacketSent
<1>8. CASE next = 0
  <2>1. OpeningInv'
    BY <1>1, <1>4, <1>6, <1>7, <1>8, OpeningSent
  <2> QED BY <1>2, <1>7, <1>8, <2>1 DEF WaitInv
<1>9. CASE next > 0
  <2>1. k = tid /\ ServedInv /\ OtherInv /\ next + 1 # next
    BY <1>6, <1>9, WaitFacts
  <2>2. ServedInv'
    BY <1>2, <1>4, <1>6, <1>7, <2>1 DEF ServedInv
  <2>3. LastAck' \notin InFlight'
    BY <1>2, <1>4, <1>7, <2>1, LastAckLive DEF Gone
  <2>4. OtherInv'
    BY <1>1, <1>2, <1>4, <1>7, <2>1, <2>3 DEF OtherInv
  <2> QED BY <1>2, <1>7, <1>9, <2>2, <2>4 DEF WaitInv
<1> QED BY <1>8, <1>9, WaitFacts

LEMMA KidAckedOrder ==
    ASSUME Waiting, UNCHANGED myvars, NEW k \in Kids, NEW d \in InFlight, KidAcked(k, d)
    PROVE  WaitInv'
<1>1. d \in Coming /\ kid[k].pc = "wait" /\ d.dst = k /\ d.blk = kid[k].count /\ lost' = lost
  BY DEF KidAcked, Coming, Live, Gone, Exchange
<1>2. /\ next > 0 /\ k = tid /\ kid[k].count = next /\ Coming = {d}
      /\ \A l \in Kids : kid[l].pc # "send"
  BY <1>1, ComingKind DEF Kids
<1>3. next' = next /\ tid' = tid /\ i' = i /\ port' = port /\ Len(got') = next' /\ next' < Chunks
  BY StoredStays DEF myvars
<1>4. PICK q : q = [kid[k] EXCEPT !.pc = "send", !.count = kid[k].count + 1, !.j = 0]
  OBVIOUS
<1>5. q.pc = "send" /\ q.count = next + 1 /\ q.j = 0
  BY <1>2, <1>4, WaitKid DEF Kid
<1>6. kid[k].count # Chunks
  BY <1>2, WaitFacts
<1>7. kid' = [kid EXCEPT ![k] = q] /\ Exchange({d}, {})
  BY <1>4, <1>6, WaitFacts DEF KidAcked, TdTypeOK
<1>8. \A l \in Kids : kid'[l] = (IF l = k THEN q ELSE kid[l])
  BY <1>7, WaitFacts DEF TdTypeOK
<1>9. \A x : Live(x)' => Live(x)
  BY <1>1, <1>8 DEF Live, Gone
<1>10. Coming' \subseteq {}
  BY <1>2, <1>7, <1>9, NewComing
<1>11. OneMoving' /\ Moving'
  BY <1>2, <1>5, <1>8, <1>10, OneNew DEF Moving
<1>12. ServedInv /\ OtherInv /\ next + 1 # next
  BY <1>2, WaitFacts
<1>13. ServedInv'
  BY <1>2, <1>3, <1>5, <1>8, <1>12 DEF ServedInv
<1>14. LastAck' \notin InFlight'
  BY <1>2, <1>3, <1>5, <1>8, <1>10, LastAckLive DEF Gone
<1>15. OtherInv'
  BY <1>1, <1>2, <1>3, <1>5, <1>8, <1>11, <1>12, <1>14 DEF OtherInv
<1>16. \A l \in Kids : kid'[l].pc = "send" => kid'[l].j = 0
  BY <1>2, <1>5, <1>8
<1> QED BY <1>2, <1>3, <1>11, <1>13, <1>15, <1>16 DEF WaitInv

\* A failed attempt of a child repeats its block.
LEMMA RetriesKid ==
    ASSUME Waiting, NEW k \in Kids, kid[k].pc = "wait", NEW D, KidRetries(k, D)
    PROVE  \E q : /\ kid' = [kid EXCEPT ![k] = q]
                  /\ q.count = kid[k].count /\ q.j = kid[k].j + 1
                  /\ q.pc = IF kid[k].j + 1 = RETRIES THEN "close" ELSE "wait"
                  /\ Exchange(D, {KidPacket(k)}) /\ lost' = lost
<1>1. PICK w \in {"close", "wait"} : w = IF kid[k].j + 1 = RETRIES THEN "close" ELSE "wait"
  OBVIOUS
<1>2. PICK q : q = [kid[k] EXCEPT !.j = kid[k].j + 1, !.pc = w]
  OBVIOUS
<1>3. kid' = [kid EXCEPT ![k] = q]
  BY <1>1, <1>2, WaitFacts, NothingFails DEF KidRetries, TdTypeOK
<1>4. q.count = kid[k].count /\ q.j = kid[k].j + 1 /\ q.pc = w
  BY <1>2, WaitKid DEF Kid
<1>5. Exchange(D, {KidPacket(k)}) /\ lost' = lost
  BY WaitKid, NothingFails DEF KidRetries, Exchange
<1> QED BY <1>1, <1>3, <1>4, <1>5

\* The last ACK reaches a child that has sent the next block already.
LEMMA KidMismatchOrder ==
    ASSUME Waiting, UNCHANGED myvars, NEW k \in Kids, NEW d \in InFlight, KidMismatch(k, d)
    PROVE  WaitInv'
<1>1. d \in Coming /\ kid[k].pc = "wait" /\ d.dst = k
  BY DEF KidMismatch, Coming, Live, Gone
<1>2. /\ next > 0 /\ k = tid /\ Coming = {d} /\ d = LastAck /\ d.op = "ACK" /\ d.blk = next
      /\ \A l \in Kids : kid[l].pc # "send"
  BY <1>1, ComingKind DEF Kids
<1>3. next' = next /\ tid' = tid /\ i' = i /\ port' = port /\ Len(got') = next' /\ next' < Chunks
  BY StoredStays DEF myvars
<1>4. ServedInv /\ OtherInv /\ next + 1 # next
  BY <1>2, WaitFacts
<1>5. kid[k].count # next
  BY <1>1, <1>2, WaitKid DEF KidMismatch
<1>6. kid[k].count = next + 1
  BY <1>2, <1>4, <1>5 DEF ServedInv
<1>7. PICK q : /\ kid' = [kid EXCEPT ![k] = q]
               /\ q.count = kid[k].count /\ q.j = kid[k].j + 1
               /\ q.pc = IF kid[k].j + 1 = RETRIES THEN "close" ELSE "wait"
               /\ Exchange({d}, {KidPacket(k)}) /\ lost' = lost
  BY <1>1, RetriesKid DEF KidMismatch
<1>8. /\ \A l \in Kids : kid'[l] = (IF l = k THEN q ELSE kid[l]) /\ kid'[l].pc # "send"
      /\ OneMoving' /\ Moving' /\ LastAck' \notin Coming'
      /\ \E x \in Coming' : x.dst = "client"
  BY <1>1, <1>2, <1>6, <1>7, PacketSent
<1>9. ServedInv'
  BY <1>2, <1>3, <1>4, <1>6, <1>7, <1>8 DEF ServedInv
<1>10. OtherInv'
  <2>0. kid'[tid] = q /\ tid \in Kids /\ \A l \in Kids \ {tid} : kid'[l] = kid[l]
    BY <1>2, <1>8
  <2> SUFFICES ASSUME NEW l \in Kids \ {tid}, kid[l].pc = "wait"
               PROVE  q.pc = "wait" /\ Len(lost) = 2 /\ q.j = 1 /\ LastAck' \notin InFlight'
    BY <1>3, <1>7, <1>8, <2>0 DEF OtherInv
  <2>1. kid[k].j = 0 /\ Len(lost) = 2
    BY <1>2, <1>4, <1>6 DEF OtherInv
  <2>2. q.pc = "wait" /\ q.j = 1
    BY <1>7, <2>1, WaitFacts
  <2>3. LastAck' \notin InFlight'
    BY <1>2, <1>3, <1>8, <2>2, LastAckLive DEF Gone
  <2> QED BY <2>1, <2>2, <2>3
<1> QED BY <1>2, <1>3, <1>8, <1>9, <1>10 DEF WaitInv

\* A child whose timeout comes in order repeats the block that the client lacks.
LEMMA KidTimeoutOrder ==
    ASSUME Waiting, UNCHANGED myvars, NEW k \in Kids,
           InTime(pc \in {"wait", "data"} => kid[k].j < i), KidTimeout(k)
    PROVE  WaitInv'
<1>1. /\ Coming = {} /\ ~Moving /\ kid[k].pc = "wait" /\ kid[k].j < i /\ i # 0
      /\ \A l \in Kids : kid[l].pc # "send"
  <2>1. Quiet /\ kid[k].j < i
    BY InOrderTimeout DEF Waiting
  <2>2. kid[k].j \in Nat /\ i \in Nat
    BY WaitKid, WaitFacts
  <2> QED BY <2>1, <2>2, QuietWait DEF KidTimeout, Moving
<1>2. next' = next /\ tid' = tid /\ i' = i /\ port' = port /\ Len(got') = next' /\ next' < Chunks
  BY StoredStays DEF myvars
<1>3. next > 0 => k = tid
  BY <1>1, WaitFacts DEF OtherInv
<1>4. next > 0 => LastAck \notin InFlight
  BY <1>1, <1>3, LastAckLive DEF Gone
<1>5. kid[k].count = next + 1
  <2>1. CASE next = 0
    BY <1>1, <2>1, WaitFacts DEF OpeningInv
  <2>2. CASE next > 0
    BY <1>1, <1>3, <1>4, <2>2, WaitFacts DEF ServedInv
  <2> QED BY <2>1, <2>2, WaitFacts
<1>6. PICK q : /\ kid' = [kid EXCEPT ![k] = q]
               /\ q.count = kid[k].count /\ q.j = kid[k].j + 1
               /\ q.pc = IF kid[k].j + 1 = RETRIES THEN "close" ELSE "wait"
               /\ Exchange({}, {KidPacket(k)}) /\ lost' = lost
  BY <1>1, RetriesKid DEF KidTimeout
<1>7. /\ \A l \in Kids : kid'[l] = (IF l = k THEN q ELSE kid[l]) /\ kid'[l].pc # "send"
      /\ OneMoving' /\ Moving' /\ LastAck' \notin Coming'
      /\ \E x \in Coming' : x.dst = "client"
  BY <1>1, <1>3, <1>5, <1>6, PacketSent
<1>8. CASE next = 0
  <2>1. OpeningInv'
    BY <1>1, <1>5, <1>6, <1>7, <1>8, OpeningSent
  <2> QED BY <1>2, <1>7, <1>8, <2>1 DEF WaitInv
<1>9. CASE next > 0
  <2>1. ServedInv /\ OtherInv /\ next + 1 # next
    BY <1>9, WaitFacts
  <2>2. ServedInv'
    BY <1>2, <1>3, <1>5, <1>6, <1>7, <1>9, <2>1 DEF ServedInv
  <2>3. OtherInv'
    BY <1>1, <1>2, <1>3, <1>7, <1>9, <2>1 DEF OtherInv
  <2> QED BY <1>2, <1>7, <1>9, <2>2, <2>3 DEF WaitInv
<1> QED BY <1>8, <1>9, WaitFacts

LEMMA ChildOrder ==
    ASSUME Waiting, NEW k \in Kids, ChildStep(k)
    PROVE  WaitInv'
<1>1. UNCHANGED myvars
  BY DEF ChildStep, ChildTimeout
<1>2. CASE ChildTimeout(k)
  BY <1>1, <1>2, KidTimeoutOrder DEF ChildTimeout
<1>3. CASE KidStep(k)
  <2>1. CASE KidCloses(k)
    <3>1. kid[k].pc = "close" /\ kid' = [kid EXCEPT ![k].pc = "zombie"] /\ UNCHANGED netvars
      BY <2>1 DEF KidCloses, KidTo
    <3>2. PICK q : q = [kid[k] EXCEPT !.pc = "zombie"]
      OBVIOUS
    <3>3. q.pc = "zombie" /\ q.count = kid[k].count /\ q.j = kid[k].j
      BY <3>2, WaitKid DEF Kid
    <3>4. \A l \in Kids : kid'[l] = IF l = k THEN q ELSE kid[l]
      BY <3>1, <3>2, WaitFacts DEF TdTypeOK
    <3>5. SameTo(kid')
      BY <3>1, <3>3, <3>4 DEF SameTo, Gone
    <3> QED BY <1>1, <3>1, <3>5, SameOrder
  <2>2. ASSUME NEW d \in InFlight PROVE ~KidStores(k, d) /\ ~KidDiskFull(k, d)
    BY WaitKid DEF KidStores, KidDiskFull
  <2> QED BY <1>1, <1>3, <2>1, <2>2, KidSendsOrder, KidAckedOrder, KidMismatchOrder DEF KidStep
<1> QED BY <1>2, <1>3 DEF ChildStep

--------------------------------------------------------------------------------
(* The order of a download: losses.                                            *)

LEMMA LostOne ==
    ASSUME NetTypeOK, NEW d \in InFlight, Lose(d)
    PROVE  /\ \A x \in InFlight' : x \in InFlight
           /\ \A x \in InFlight : x # d => x \in InFlight' /\ net'[x] = net[x]
           /\ net[d] = 1 => d \notin InFlight'
           /\ Len(lost') = Len(lost) + 1 /\ Len(lost) \in Nat
           /\ \A m \in DOMAIN lost : m \in DOMAIN lost' /\ lost'[m] = lost[m] /\ m <= Len(lost)
           /\ Len(lost') \in DOMAIN lost' /\ lost'[Len(lost')] = d
<1>1. IsABag(net)
  BY DEF NetTypeOK
<1>2. /\ \A x \in InFlight' : x \in InFlight
      /\ \A x \in InFlight : x # d => x \in InFlight' /\ net'[x] = net[x]
      /\ net[d] = 1 => d \notin InFlight'
  BY <1>1 DEF Lose, InFlight, BagToSet, SetToBag, (-), IsABag
<1>3. lost \in Seq(Datagram) /\ d \in Datagram /\ lost' = Append(lost, d)
  BY DEF NetTypeOK, Lose
<1>4. Len(lost) \in Nat /\ DOMAIN lost = 1..Len(lost)
  BY <1>3
<1>5. /\ Len(lost') = Len(lost) + 1 /\ DOMAIN lost' = 1..(Len(lost) + 1)
      /\ \A m \in 1..Len(lost) : lost'[m] = lost[m]
      /\ lost'[Len(lost) + 1] = d
  BY <1>3, <1>4, AppendProperties
<1> QED BY <1>2, <1>4, <1>5

\* What was lost stays lost; the same ACK is not lost twice.
LEMMA LostAcks ==
    ASSUME NetTypeOK, NEW d \in InFlight, Lose(d), UNCHANGED <<next, tid>>
    PROVE  /\ AckLost => AckLost'
           /\ AckLostTwice => AckLostTwice'
           /\ d = LastAck => AckLost' /\ (AckLost => AckLostTwice')
<1>1. AckLost => AckLost'
  BY LostOne DEF AckLost
<1>2. AckLostTwice => AckLostTwice'
  <2> SUFFICES ASSUME AckLostTwice PROVE AckLostTwice'
    OBVIOUS
  <2>1. PICK m, n \in DOMAIN lost : m # n /\ lost[m].op = "ACK" /\ lost[m].blk = lost[n].blk
    BY DEF AckLostTwice
  <2>2. /\ m \in DOMAIN lost' /\ n \in DOMAIN lost'
        /\ lost'[m] = lost[m] /\ lost'[n] = lost[n]
    BY <2>1, LostOne
  <2> QED BY <2>1, <2>2 DEF AckLostTwice
<1>3. ASSUME d = LastAck PROVE AckLost' /\ (AckLost => AckLostTwice')
  <2>1. d.op = "ACK" /\ d.blk = next
    BY <1>3 DEF LastAck, Ack, Control
  <2>2. AckLost'
    BY <2>1, LostOne DEF AckLost
  <2>3. ASSUME AckLost PROVE AckLostTwice'
    <3>1. PICK m \in DOMAIN lost : lost[m].op = "ACK" /\ lost[m].blk = next
      BY <2>3 DEF AckLost
    <3>2. /\ m \in DOMAIN lost' /\ lost'[m] = lost[m] /\ m # Len(lost')
          /\ Len(lost') \in DOMAIN lost' /\ lost'[Len(lost')] = d
      BY <3>1, LostOne
    <3> QED BY <2>1, <3>1, <3>2 DEF AckLostTwice
  <2> QED BY <2>2, <2>3
<1> QED BY <1>1, <1>2, <1>3

LEMMA LoseOrder ==
    ASSUME Waiting, NEW d \in InFlight, Lose(d), UNCHANGED <<tdvars, myvars>>
    PROVE  WaitInv'
<1>1. /\ next' = next /\ tid' = tid /\ i' = i /\ port' = port /\ op' = op
      /\ Len(got') = next' /\ next' < Chunks /\ kid' = kid
  BY StoredStays DEF myvars, tdvars
<1>2. Len(lost') = Len(lost) + 1 /\ Len(lost) \in Nat
  BY WaitFacts, LostOne
<1>3. \A x : Live(x)' = Live(x)
  BY <1>1 DEF Live
<1>4. /\ \A x \in Coming' : x \in Coming /\ x # d /\ net'[x] = 1
      /\ \A x \in Coming : x # d => x \in Coming'
  BY <1>3, WaitFacts, LostOne DEF Coming, OneMoving
<1>5. LastAck' = LastAck /\ Request' = Request
  BY <1>1 DEF LastAck, Request
<1>6. OneMoving'
  <2>1. \A x \in Coming' : net'[x] = 1 /\ Expected(x)'
    BY <1>1, <1>4, <1>5, WaitFacts DEF OneMoving, Expected
  <2>2. \A x, y \in Coming' : x = y
    BY <1>4, WaitFacts DEF OneMoving
  <2>3. \A k \in Kids : kid'[k].pc = "send" => Coming' = {}
    BY <1>1, <1>4, WaitFacts DEF OneMoving
  <2>4. \A k, l \in Kids : kid'[k].pc = "send" /\ kid'[l].pc = "send" => k = l
    BY <1>1, WaitFacts DEF OneMoving
  <2> QED BY <2>1, <2>2, <2>3, <2>4 DEF OneMoving
<1>7. \A k \in Kids : kid'[k].pc = "send" => kid'[k].j = 0
  BY <1>1, WaitKid
<1>8. CASE next = 0
  <2>1. OpeningInv
    BY <1>8, WaitFacts
  <2>2. Sent("child")' = Sent("child") /\ Sent("beside")' = Sent("beside")
    BY <1>1 DEF Sent
  <2>3. "child" \in Kids /\ "beside" \in Kids /\ "child" # "beside"
    BY DEF Kids
  <2>4. Sent("child") + Sent("beside") \in Nat
    BY <2>3, SentFacts
  <2>5. Sent("child") + Sent("beside") <= Len(lost')
    BY <1>2, <2>1, <2>4 DEF OpeningInv
  <2>6. OpeningInv'
    BY <1>1, <2>1, <2>2, <2>5 DEF OpeningInv
  <2> QED BY <1>1, <1>6, <1>7, <1>8, <2>6 DEF WaitInv
<1>9. CASE next > 0
  <2>1. ServedInv /\ OtherInv /\ next # 0
    BY <1>9, WaitFacts
  <2>2. /\ AckLost => AckLost'
        /\ d = LastAck => AckLost' /\ ~AckLost
    BY <1>1, WaitFacts, LostAcks DEF Waiting, Steady
  <2>3. /\ LastAck \in InFlight /\ d # LastAck => LastAck \in InFlight'
        /\ LastAck \in InFlight' => LastAck \in InFlight
    BY WaitFacts, LostOne
  <2>4. ServedInv'
    <3> SUFFICES ASSUME kid[tid].pc = "wait", kid[tid].count = next
                 PROVE  \/ i = 0 /\ LastAck \in InFlight'
                        \/ AckLost' /\ (i = 0 \/ LastAck \in InFlight')
      BY <1>1, <1>5, <2>1 DEF ServedInv
    <3>1. \/ i = 0 /\ LastAck \in InFlight
          \/ AckLost /\ (i = 0 \/ LastAck \in InFlight)
      BY <2>1 DEF ServedInv
    <3> QED BY <2>2, <2>3, <3>1
  <2>5. OtherInv'
    <3> SUFFICES ASSUME NEW k \in Kids \ {tid}, kid[k].pc = "wait"
                 PROVE  /\ kid[tid].pc \in {"send", "wait"}
                        /\ Len(lost') = 2 /\ i = 0 /\ kid[tid].j = 0
      BY <1>1, <2>1 DEF OtherInv
    <3>1. tid \in Kids
      BY <2>1 DEF ServedInv
    <3>2. k = "beside" \/ tid = "beside"
      BY <3>1, SentFacts
    <3>3. kid["beside"].pc # "off"
      BY <2>1, <3>2 DEF ServedInv
    <3>4. Len(lost') <= 2
      BY <1>1, <3>3 DEF Waiting, Steady, ServedTwice
    <3>5. Len(lost) = 1
      BY <1>2, <2>1, <3>4 DEF OtherInv
    <3> QED BY <1>2, <2>1, <3>5 DEF OtherInv
  <2> QED BY <1>1, <1>6, <1>7, <2>1, <2>4, <2>5 DEF WaitInv
<1> QED BY <1>8, <1>9, WaitFacts

LEMMA NetOrder ==
    ASSUME Waiting, NetStep
    PROVE  WaitInv'
<1>1. PICK d \in InFlight : Lose(d) \/ Duplicate(d)
  BY DEF NetStep
<1>2. UNCHANGED <<tdvars, myvars>>
  BY DEF NetStep
<1>3. ~Duplicate(d)
  BY DEF Duplicate, Waiting, Steady
<1> QED BY <1>1, <1>2, <1>3, LoseOrder

--------------------------------------------------------------------------------
(* The order of a download: all steps.                                         *)

\* A child that has been forked stays forked.
LEMMA StaysForked ==
    ASSUME TransferInv, [Next]_vars, kid["beside"].pc # "off"
    PROVE  kid'["beside"].pc # "off"
<1>1. kid \in [Kids -> Kid] /\ "beside" \in Kids
  BY DEF TransferInv, TypeInv, TypeOK, TdTypeOK, Kids
<1>2. CASE kid' = kid
  BY <1>2
<1>3. ASSUME NEW after \in Reaped PROVE after["beside"].pc # "off" /\ DOMAIN after = Kids
  <2>1. CASE after = kid
    BY <1>1, <2>1
  <2>2. CASE \E z \in Kids : kid[z].pc = "zombie" /\ after = [kid EXCEPT ![z].pc = "reaped"]
    <3>1. PICK z \in Kids : kid[z].pc = "zombie" /\ after = [kid EXCEPT ![z].pc = "reaped"]
      BY <2>2
    <3>2. PICK q : q = [kid[z] EXCEPT !.pc = "reaped"]
      OBVIOUS
    <3>3. q.pc = "reaped"
      BY <1>1, <3>2 DEF Kid
    <3>4. DOMAIN after = Kids /\ \A k \in Kids : after[k] = IF k = z THEN q ELSE kid[k]
      BY <1>1, <3>1, <3>2
    <3> QED BY <1>1, <3>3, <3>4
  <2> QED BY <2>1, <2>2 DEF Reaped
<1>4. CASE kid' \in Reaped
  BY <1>3, <1>4
<1>5. ASSUME NEW d, NEW k \in Kids, PollRequest(d, k) PROVE kid'["beside"].pc # "off"
  <2>2. \E after \in Reaped : \E q : kid' = [after EXCEPT ![k] = q]
    BY <1>5 DEF PollRequest
  <2>3. k # "beside"
    BY <1>5 DEF PollRequest
  <2> QED BY <1>1, <1>3, <2>2, <2>3
<1>6. ASSUME NEW k \in Kids, KidStep(k) \/ KidTimeout(k) PROVE kid'["beside"].pc # "off"
  <2>1. \E q : q.pc # "off" /\ kid' = [kid EXCEPT ![k] = q]
    <3>1. kid[k] \in Kid /\ kid[k] = [pc |-> kid[k].pc, op |-> kid[k].op, count |-> kid[k].count,
                                      j |-> kid[k].j, got |-> kid[k].got]
      BY <1>1 DEF Kid
    <3>7. ASSUME KidTo(k, "close")
          PROVE  \E q : q.pc # "off" /\ kid' = [kid EXCEPT ![k] = q]
      <4> WITNESS [kid[k] EXCEPT !.pc = "close"]
      <4> QED BY <3>1, <3>7 DEF KidTo
    <3>2. CASE KidSends(k)
      <4>1. CASE KidTo(k, "wait")
        <5> WITNESS [kid[k] EXCEPT !.pc = "wait"]
        <5> QED BY <3>1, <4>1 DEF KidTo
      <4>2. CASE KidTo(k, "close")
        BY <4>2, <3>7
      <4> QED BY <3>2, <4>1, <4>2 DEF KidSends
    <3>3. CASE KidCloses(k)
      <4> WITNESS [kid[k] EXCEPT !.pc = "zombie"]
      <4> QED BY <3>1, <3>3 DEF KidCloses, KidTo
    <3>4. ASSUME NEW d, KidAcked(k, d)
          PROVE  \E q : q.pc # "off" /\ kid' = [kid EXCEPT ![k] = q]
      <4>1. CASE kid[k].count = Chunks
        <5> WITNESS [kid[k] EXCEPT !.pc = "zombie"]
        <5> QED BY <3>1, <3>4, <4>1 DEF KidAcked
      <4>2. CASE kid[k].count # Chunks
        <5> WITNESS [kid[k] EXCEPT !.pc = "send", !.count = @ + 1, !.j = 0]
        <5> QED BY <1>1, <3>1, <3>4, <4>2 DEF KidAcked
      <4> QED BY <4>1, <4>2
    <3>5. ASSUME NEW d, KidStores(k, d)
          PROVE  \E q : q.pc # "off" /\ kid' = [kid EXCEPT ![k] = q]
      <4>1. PICK w \in {"close", "wait"} :
               kid' = [kid EXCEPT ![k].got = Append(@, d.piece), ![k].count = @ + 1,
                                  ![k].j = 0, ![k].pc = w]
        BY <3>5 DEF KidStores
      <4> WITNESS [kid[k] EXCEPT !.got = Append(@, d.piece), !.count = @ + 1, !.j = 0, !.pc = w]
      <4> QED BY <1>1, <3>1, <4>1
    <3>6. ASSUME NEW D, kid[k].pc = "wait", KidRetries(k, D)
          PROVE  \E q : q.pc # "off" /\ kid' = [kid EXCEPT ![k] = q]
      <4>1. CASE KidTo(k, "close")
        BY <3>7, <4>1
      <4>2. CASE ~KidTo(k, "close")
        <5> WITNESS [kid[k] EXCEPT !.j = @ + 1,
                                   !.pc = IF kid[k].j + 1 = RETRIES THEN "close" ELSE @]
        <5> QED BY <1>1, <3>1, <3>6, <4>2 DEF KidRetries
      <4> QED BY <4>1, <4>2
    <3> QED BY <1>6, <3>2, <3>3, <3>4, <3>5, <3>6, <3>7
            DEF KidStep, KidTimeout, KidMismatch, KidDiskFull
  <2> QED BY <1>1, <2>1
<1>7. CASE ClientStep \/ NetStep \/ UNCHANGED vars
  BY <1>2, <1>7 DEF ClientStep, ClientTimeout, NetStep, vars, tdvars
<1>8. CASE ServerStep \/ ServerFails
  BY <1>4, <1>5, <1>8 DEF ServerStep, ServerFails, DaemonStep, PollNothing, PollFails,
                          PollOverwritten, PollUnserved, PollInvalid
<1> QED BY <1>6, <1>7, <1>8 DEF Next, ChildStep, ChildTimeout

\* A step leaves the losses alone, or it is one.
LEMMA LosesOrNot ==
    ASSUME [Next]_vars
    PROVE  \/ lost' = lost /\ dups' = dups
           \/ \E d \in InFlight : Lose(d) /\ UNCHANGED <<tdvars, myvars, ambience>>
           \/ \E d \in InFlight : Duplicate(d)
<1>1. CASE NetStep
  BY <1>1 DEF NetStep
<1>2. CASE ClientStep
  BY <1>2 DEF ClientStep, ClientTimeout, MyStep, MyTimeout, GetTimeout, PostTimeout, PostDataTimeout,
         GetLast, PostPiece, PostFlood, ReceiveForeign, ReceiveOtherTid, GetBlock, GetFails,
         GetOther, PostGranted, PostOther, PostAcked, PostMismatch, Exchange, ExchangeFails, netvars
<1>3. CASE ServerStep \/ ServerFails
  BY <1>3 DEF ServerStep, ServerFails, DaemonStep, PollNothing, PollFails, PollOverwritten,
         PollUnserved, PollInvalid, PollRequest, Exchange, ExchangeFails, netvars
<1>4. ASSUME NEW k \in Kids, ChildStep(k) PROVE lost' = lost /\ dups' = dups
  BY <1>4 DEF ChildStep, ChildTimeout, KidStep, KidTimeout, KidSends, KidAcked, KidStores, KidDiskFull,
         KidCloses, KidMismatch, KidRetries, Exchange, netvars
<1>5. CASE UNCHANGED vars
  BY <1>5 DEF vars, netvars
<1> QED BY <1>1, <1>2, <1>3, <1>4, <1>5 DEF Next

\* Whether other programs meddle is settled in the initial state.
LEMMA AmbienceSteps ==
    ASSUME TypeOK, [Next]_vars
    PROVE  meddled' = meddled /\ (early' = early \/ early' = early + 1)
  BY DEF Next, ClientStep, ClientTimeout, ServerStep, ServerFails, NetStep, ChildStep, ChildTimeout,
         InTime, ambience, vars

\* What has failed has failed, and the daemon does not come back.
LEMMA FailedStays ==
    ASSUME [Next]_vars
    PROVE  broken \subseteq broken' /\ (down => down')
<1>1. CASE ClientStep \/ NetStep \/ UNCHANGED vars
  <2>1. UNCHANGED tdvars
    BY <1>1 DEF ClientStep, ClientTimeout, NetStep, vars
  <2> QED BY <2>1, Zenon DEF tdvars
<1>2. CASE ServerStep \/ ServerFails
  BY <1>2 DEF ServerStep, ServerFails, DaemonStep, PollNothing, PollFails, PollOverwritten,
         PollUnserved, PollInvalid, PollRequest, Polled, Breaks
<1>3. ASSUME NEW k \in Kids, ChildStep(k) PROVE broken \subseteq broken' /\ down' = down
  BY <1>3 DEF ChildStep, ChildTimeout, KidStep, KidTimeout, KidSends, KidAcked, KidStores,
         KidDiskFull, KidCloses, KidMismatch, KidRetries, Breaks
<1> QED BY <1>1, <1>2, <1>3 DEF Next

\* What breaks the order once has broken it for good.
LEMMA SteadyBefore ==
    ASSUME TransferInv, [Next]_vars, Steady'
    PROVE  Steady
<1>1. TypeOK /\ NetTypeOK /\ early \in Nat /\ dups \in Nat /\ Len(lost) \in Nat
  BY DEF TransferInv, TypeInv, TypeOK, NetTypeOK
<1>2. ~meddled /\ early = 0 /\ ~down /\ broken = {}
  BY <1>1, AmbienceSteps, FailedStays DEF Steady
<1>3. ServedTwice => ServedTwice'
  BY StaysForked DEF ServedTwice
<1>4. CASE lost' = lost /\ dups' = dups
  BY <1>2, <1>3, <1>4 DEF Steady, AckLostTwice
<1>5. ASSUME NEW d \in InFlight, Lose(d) PROVE Steady
  <2>1. Len(lost') = Len(lost) + 1 /\ dups' = dups
    BY <1>1, <1>5, LostOne DEF Lose
  <2>2. AckLostTwice => AckLostTwice'
    <3> SUFFICES ASSUME AckLostTwice PROVE AckLostTwice'
      OBVIOUS
    <3>1. PICK m, n \in DOMAIN lost : m # n /\ lost[m].op = "ACK" /\ lost[m].blk = lost[n].blk
      BY DEF AckLostTwice
    <3>2. /\ m \in DOMAIN lost' /\ n \in DOMAIN lost'
          /\ lost'[m] = lost[m] /\ lost'[n] = lost[n]
      BY <1>1, <1>5, <3>1, LostOne
    <3> QED BY <3>1, <3>2 DEF AckLostTwice
  <2> QED BY <1>1, <1>2, <1>3, <2>1, <2>2 DEF Steady
<1>6. ASSUME NEW d \in InFlight, Duplicate(d) PROVE Steady
  <2>1. dups' = dups + 1
    BY <1>6 DEF Duplicate
  <2> QED BY <1>1, <2>1 DEF Steady
<1> QED BY <1>4, <1>5, <1>6, LosesOrNot

\* get_file() stores nothing when it does not wait, and does not wait again.
LEMMA StoresWhenWaiting ==
    ASSUME [Next]_vars, Posting \/ pc # "wait"
    PROVE  /\ got' = got /\ op' = op /\ (~Posting => pc' # "wait")
           /\ ~Posting /\ pc' \in {"last", "done"} => pc \in {"last", "done"}
<1>1. CASE ClientStep
  BY <1>1 DEF ClientStep, ClientTimeout, MyStep, MyTimeout, GetTimeout, PostTimeout, PostDataTimeout,
         GetLast, PostPiece, PostFlood, ReceiveForeign, ReceiveOtherTid, GetBlock, GetFails,
         GetOther, PostGranted, PostOther, PostAcked, PostMismatch, Posting, myvars
<1>2. CASE UNCHANGED myvars
  BY <1>2 DEF myvars, Posting
<1> QED BY <1>1, <1>2 DEF Next, ServerStep, ServerFails, NetStep, ChildStep, ChildTimeout, vars

LEMMA SameOperation ==
    ASSUME [Next]_vars
    PROVE  op' = op
<1>1. CASE ClientStep
  BY <1>1 DEF ClientStep, ClientTimeout, MyStep, MyTimeout, GetTimeout, PostTimeout, PostDataTimeout,
         GetLast, PostPiece, PostFlood, ReceiveForeign, ReceiveOtherTid, GetBlock, GetFails,
         GetOther, PostGranted, PostOther, PostAcked, PostMismatch, myvars
<1> QED BY <1>1 DEF Next, ServerStep, ServerFails, NetStep, ChildStep, ChildTimeout, vars, myvars

LEMMA OrderStep ==
    ASSUME Setting, TransferInv, OrderInv, [Next]_vars
    PROVE  OrderInv'
<1>1. op' = op
  BY SameOperation
<1>2. Posting' => got' = <<>>
  BY <1>1, StoresWhenWaiting DEF OrderInv, Posting
<1> SUFFICES ASSUME RETRIES > 1, Steady'
             PROVE  StoredInv' /\ WholeInv' /\ (~Posting' /\ pc' = "wait" => WaitInv')
  BY <1>2 DEF OrderInv
<1>3. Steady /\ StoredInv /\ WholeInv /\ (~Posting /\ pc = "wait" => WaitInv)
  BY SteadyBefore DEF OrderInv
<1>4. CASE Posting \/ pc # "wait"
  BY <1>1, <1>3, <1>4, StoresWhenWaiting DEF StoredInv, WholeInv, Posting
<1>5. CASE ~Posting /\ pc = "wait"
  <2>1. Waiting
    BY <1>3, <1>5 DEF Waiting
  <2>2. CASE ClientStep
    BY <2>1, <2>2, ClientOrder
  <2>3. CASE UNCHANGED myvars
    <3>1. StoredInv' /\ WholeInv'
      BY <1>5, <2>1, <2>3, StoredStays DEF myvars, WholeInv
    <3>2. CASE ServerStep \/ NetStep \/ \E k \in Kids : ChildStep(k)
      BY <2>1, <3>1, <3>2, ServerOrder, NetOrder, ChildOrder
    <3>3. CASE UNCHANGED vars
      BY <2>1, <3>1, <3>3, SameOrder DEF vars, tdvars, SameTo
    <3>4. ~ServerFails
      BY <2>1, NothingFails DEF ServerFails, PollFails
    <3> QED BY <2>2, <3>2, <3>3, <3>4 DEF Next
  <2> QED BY <2>2, <2>3 DEF Next, ServerStep, ServerFails, NetStep, ChildStep, ChildTimeout, vars
<1> QED BY <1>4, <1>5

\* The request is the first thing on its way.
LEMMA InitOrder == Setting /\ Init => OrderInv
<1> SUFFICES ASSUME Setting, Init PROVE OrderInv
  OBVIOUS
<1>1. got = <<>> /\ next = 0 /\ pc = "wait" /\ tid = NoTid /\ op \in {"RRQ", "WRQ"}
  BY DEF Init, MyInit
<1>2. StoredInv /\ WholeInv
  BY <1>1 DEF StoredInv, WholeInv
<1>3. ASSUME ~meddled PROVE WaitInv
  <2>1. NetInit({Request})
    <3>1. PICK S \in {{}} \cup {{d} : d \in Stray} : NetInit({Request} \cup S) /\ meddled = (S # {})
      BY DEF Init
    <3>2. {Request} \cup S = {Request}
      BY <1>3, <3>1
    <3> QED BY <3>1, <3>2
  <2>2. InFlight = {Request} /\ net[Request] = 1 /\ lost = <<>>
    BY <2>1 DEF NetInit, InFlight, BagToSet, SetToBag
  <2>3. Coming \subseteq {Request}
    BY <2>2 DEF Coming
  <2>4. \A k \in Kids : kid[k] = NoKid
    BY DEF Init, TdInit
  <2>5. OneMoving
    BY <1>1, <2>2, <2>3, <2>4 DEF OneMoving, Expected, NoKid
  <2>6. Sent("child") = 0 /\ Sent("beside") = 0 /\ Len(lost) = 0
    BY <2>2, <2>4 DEF Sent, NoKid, Kids
  <2>7. OpeningInv
    BY <1>1, <2>4, <2>6 DEF OpeningInv, NoKid, Gone
  <2> QED BY <1>1, <2>4, <2>5, <2>7 DEF WaitInv, NoKid
<1> QED BY <1>1, <1>2, <1>3 DEF OrderInv, Steady

\* The invariant of MyInv holds of every transfer between the client of MY_TFTP
\* and the daemon, whatever is lost, duplicated, late or refused locally, unless
\* another program sends blocks or ACKs from the server's host.
THEOREM MyInvariant ==
    ASSUME Setting
    PROVE  Spec => []IInv
<1>1. Init => OrderInv
  BY InitOrder
<1>2. TransferInv /\ OrderInv /\ [Next]_vars => OrderInv'
  BY OrderStep
<1>3. IInv <=> TransferInv /\ OrderInv
  BY DEF IInv
<1> QED BY <1>1, <1>2, <1>3, TransferInvariant, PTL DEF Spec

\* What get_file() stores is the beginning of the server's file, and all of it when
\* it reports success, though it looks at no block number, while nothing meddles, timeouts come in order, no ACK is lost
\* twice, and no more than two datagrams are lost when the request is served twice;
\* a child must not end at its first failed attempt.
THEOREM MyInOrder ==
    ASSUME Setting, RETRIES > 1
    PROVE  Spec => []InOrder
<1>1. IInv => InOrder
  <2> SUFFICES ASSUME IInv, Steady
               PROVE  IsPrefix(got, File) /\ (op = "RRQ" /\ pc = "done" => got = File)
    BY DEF InOrder
  <2>1. got \in Seq(1..Chunks) /\ StoredInv /\ WholeInv
    BY DEF IInv, TransferInv, TypeInv, TypeOK, MyTypeOK, OrderInv
  <2>2. Len(got) <= Len(File) /\ File \in Seq(1..Chunks) /\ Len(File) = Chunks
    BY <2>1, FileType DEF StoredInv, File
  <2>3. \A n \in 1..Len(got) : got[n] = File[n]
    BY <2>1 DEF StoredInv, File
  <2>4. \A n \in 1..Len(got) : got[n] \in 1..Chunks /\ File[n] \in 1..Chunks
    BY <2>1, <2>2
  <2>5. /\ Len(SubSeq(got, 1, Len(got))) = Len(got)
        /\ \A n \in 1..Len(got) : SubSeq(got, 1, Len(got))[n] = got[n]
    BY <2>1, <2>4, SubSeqProperties
  <2>6. /\ Len(SubSeq(File, 1, Len(got))) = Len(got)
        /\ \A n \in 1..Len(got) : SubSeq(File, 1, Len(got))[n] = File[n]
    BY <2>1, <2>4, SubSeqProperties
  <2>7. SubSeq(got, 1, Len(got)) \in Seq(1..Chunks) /\ SubSeq(File, 1, Len(got)) \in Seq(1..Chunks)
    BY <2>1, <2>4, SubSeqProperties
  <2>8. SubSeq(got, 1, Len(got)) = SubSeq(File, 1, Len(got))
    BY <2>3, <2>5, <2>6, <2>7
  <2>9. IsPrefix(got, File)
    BY <2>2, <2>8 DEF IsPrefix
  <2>10. ASSUME op = "RRQ", pc = "done" PROVE got = File
    <3>1. Len(got) = Len(File)
      BY <2>1, <2>2, <2>10 DEF WholeInv, Posting
    <3> QED BY <2>1, <2>2, <2>3, <3>1
  <2> QED BY <2>9, <2>10
<1> QED BY <1>1, MyInvariant, PTL
================================================================================
