----------------------------- MODULE DownloadProofs ----------------------------
(***************************************************************************)
(* Theorems about the download: its types for every value of the           *)
(* constants, and what the child sends again.                              *)
(***************************************************************************)
EXTENDS DownloadInv, NetProofs, SequenceTheorems

USE NetworkAssumption, TftpAssumption, TftpdSendAssumption, TftpcGetAssumption,
    SlowAssumption

--------------------------------------------------------------------------------
(* Slots, packets and pieces.                                                  *)

\* A count below the modulus is its own block number.
LEMMA CountSmall == \A k \in Nat : k < M => k % M = k
  OBVIOUS

\* The remainder by the ack frequency is a slot.
LEMMA SlotRemainder == \A c \in Int : c % SrvAck \in 0..(SrvAck - 1)
  OBVIOUS

\* Every block number has a slot.
LEMMA SlotType == \A c \in Nat : DsSlot(c) \in 0..(SrvAck - 1)
  BY SlotRemainder DEF DsSlot

LEMMA BlockSlotType == \A k \in Nat : DsSlot(Count(k)) \in 0..(SrvAck - 1)
  BY SlotType, CountType DEF Count

LEMMA PieceSizeType == \A k : PieceSize(k) \in Nat
  BY DEF PieceSize

LEMMA PacketType == \A k, n \in Nat : DsPacket(k, n) \in Datagram
  BY SocketSet, CountType DEF DsPacket, Data, Datagram, Op, Count

LEMMA ResentType ==
    ASSUME DsTypeOK, NEW n \in Nat
    PROVE  DsResent(n) \in SUBSET Datagram
<1>1. SUFFICES ASSUME NEW s \in DsSlots PROVE DsPacket(dsBuf[s], n) \in Datagram
  BY DEF DsResent
<1>2. dsSent \in Nat
  BY DEF DsTypeOK
<1>3. DsSlot(Count(dsSent)) \in 0..(SrvAck - 1)
  BY <1>2, BlockSlotType
<1>4. dsBuf[s] \in Nat
  BY <1>3 DEF DsTypeOK, DsSlots
<1> QED BY <1>4, PacketType

LEMMA AcksType ==
    ASSUME TypeOK, NEW d \in Datagram
    PROVE  /\ Peer(d) \in Socket
           /\ CgAcks(d) \in SUBSET Datagram
           /\ {Ack("client", cgPeer, cgCount)} \in SUBSET Datagram
<1>1. Peer(d) \in Socket
  BY SocketSet DEF Peer, TypeOK, CgTypeOK, Datagram
<1>2. \A p \in Socket : Ack("client", p, cgCount) \in Datagram
  BY SocketSet DEF Ack, Control, Datagram, Op, TypeOK, CgTypeOK
<1> QED BY <1>1, <1>2 DEF CgAcks, TypeOK, CgTypeOK

--------------------------------------------------------------------------------
(* Type correctness.                                                           *)

LEMMA InitType == Init => TypeInv
<1> SUFFICES ASSUME Init PROVE TypeInv
  OBVIOUS
<1>1. Rrq \in Datagram
  BY SocketSet DEF Rrq, Control, Datagram, Op
<1>2. NetTypeOK
  BY <1>1, NetInitType DEF Init
<1>3. CgTypeOK
  BY SocketSet DEF Init, CgInit, CgTypeOK
<1>4. DsTypeOK
  BY DEF Init, DsInit, DsTypeOK
<1> QED BY <1>2, <1>3, <1>4 DEF Init, CgInit, DsInit, TypeInv, TypeOK

\* What a send of either side leaves.
LEMMA CgAnswerType ==
    ASSUME NetTypeOK, NEW D, NEW S \in SUBSET Datagram, NEW pc, CgAnswer(D, S, pc)
    PROVE  NetTypeOK' /\ cgPc' \in {pc, "returned"}
  BY ExchangeType, ExchangeFailsType DEF CgAnswer

LEMMA DsAnswerType ==
    ASSUME NetTypeOK, NEW D, NEW S \in SUBSET Datagram, NEW pc, DsAnswer(D, S, pc)
    PROVE  NetTypeOK' /\ dsPc' \in {pc, "returned"}
  BY ExchangeType, ExchangeFailsType DEF DsAnswer

\* A prefix of a sequence of pieces is one too.
LEMMA PrefixType ==
    ASSUME got \in Seq([piece : Nat, size : Nat])
    PROVE  \A n \in 0..(Len(got) - 1) :
              SubSeq(got, 1, n) \in Seq([piece : Nat, size : Nat])
<1> DEFINE P == [piece : Nat, size : Nat]
<1> SUFFICES ASSUME NEW n \in 0..(Len(got) - 1)
             PROVE  SubSeq(got, 1, n) \in Seq(P)
  OBVIOUS
<1>1. got \in Seq(P) /\ Len(got) \in Nat
  OBVIOUS
<1> HIDE DEF P
<1>2. \A i \in 1..n : got[i] \in P
  BY <1>1, ElementOfSeq
<1> QED BY <1>2, SubSeqProperties

LEMMA ClientType == TypeInv /\ ClientStep => TypeInv'
<1> SUFFICES ASSUME TypeInv, ClientStep PROVE TypeInv'
  OBVIOUS
<1> DEFINE Goal == /\ NetTypeOK' /\ CgTypeOK'
                   /\ cgPc' \in {"open", "wait"} => cgJ' < RETRIES
<1> USE DEF TypeInv, TypeOK, CgTypeOK
<1>1. SUFFICES Goal
  BY DEF ClientStep, dsvars, DsTypeOK
<1>2. CASE CgOpen
  BY <1>2, QuietType DEF CgOpen, CgEnded
<1>3. CASE CgLast
  <2>1. Rrq \in Datagram
    BY SocketSet DEF Rrq, Control, Datagram, Op
  <2>2. NetTypeOK' /\ cgPc' \in {"done", "returned"}
    BY <1>3, <2>1, AcksType, CgAnswerType DEF CgLast
  <2>3. got' \in Seq([piece : Nat, size : Nat])
    BY <1>3, PrefixType DEF CgLast
  <2> QED BY <1>3, <2>2, <2>3 DEF CgLast, CgEnded
<1>4. CASE CgTimeout
  <2>1. cgPeer' \in Socket
    BY <1>4, SocketSet DEF CgTimeout
  <2> QED BY <1>4, <2>1, QuietType DEF CgTimeout, CgRetry, CgEnded
<1>5. ASSUME NEW d \in InFlight,
             CgAccept(d) \/ CgDiskFull(d) \/ CgMismatch(d) \/ CgForeign(d)
      PROVE  Goal
  <2>1. d \in Datagram /\ d.piece \in Nat /\ d.size \in Nat
    BY DEF NetTypeOK, Datagram
  <2>2. Peer(d) \in Socket /\ CgAcks(d) \in SUBSET Datagram
    BY <2>1, AcksType
  <2>3. Fitted(d) \in Nat
    BY <2>1 DEF Fitted
  <2>4. \A n \in Nat : CgStore(d, n) => got' \in Seq([piece : Nat, size : Nat])
    BY <2>1 DEF CgStore
  <2>5. CASE CgAccept(d)
    <3>1. cgPeer' \in Socket /\ cgSize' \in Nat /\ cgFlag' \in BOOLEAN
      BY <2>2, <2>3, <2>5 DEF CgAccept, CgAdapt
    <3>2. NetTypeOK'
      BY <2>2, <2>5, ExchangeType, ExchangeFailsType DEF CgAccept
    <3>3. (cgCount + 1) % M \in 0..(M - 1)
      <4>1. cgCount + 1 \in Nat
        OBVIOUS
      <4> QED BY <4>1, CountType
    <3>4. got' \in Seq([piece : Nat, size : Nat])
      BY <2>1, <2>4, <2>5 DEF CgAccept
    <3> QED BY <2>5, <3>1, <3>2, <3>3, <3>4 DEF CgAccept, CgReceives, CgEnded
  <2>6. CASE CgDiskFull(d)
    <3>1. got' \in Seq([piece : Nat, size : Nat])
      BY <2>1, <2>4, <2>6 DEF CgDiskFull
    <3>2. NetTypeOK'
      BY <2>2, <2>6, ExchangeType DEF CgDiskFull
    <3> QED BY <2>2, <2>3, <2>6, <3>1, <3>2 DEF CgDiskFull, CgAdapt, CgEnded
  <2>7. CASE CgMismatch(d)
    <3>1. Complaint("client", Peer(d), d) \in SUBSET Datagram
      BY <2>2, SocketSet, ComplaintType
    <3>2. NetTypeOK'
      BY <2>7, <3>1, ExchangeType DEF CgMismatch
    <3>3. cgPeer' \in Socket /\ cgSize' \in Nat /\ cgFlag' \in BOOLEAN
      BY <2>2, <2>3, <2>7 DEF CgMismatch, CgAdapt
    <3> QED BY <2>7, <3>2, <3>3 DEF CgMismatch, CgRetry, CgReceives, CgEnded
  <2>8. CASE CgForeign(d)
    BY <2>2, <2>8, ExchangeType DEF CgForeign
  <2> QED BY <1>5, <2>5, <2>6, <2>7, <2>8
<1> QED BY <1>2, <1>3, <1>4, <1>5 DEF ClientStep

LEMMA DsRetryType ==
    ASSUME TypeInv, dsPc = "ack", NEW D, NEW S \in SUBSET Datagram, NEW n \in Nat,
           DsRetry(D, S, n)
    PROVE  /\ NetTypeOK' /\ DsTypeOK'
           /\ dsPc' \in {"ack", "aborted", "returned"}
           /\ dsPc' = "ack" => dsJ' < RETRIES
<1>1. S \cup DsResent(n) \in SUBSET Datagram
  BY ResentType DEF TypeInv, TypeOK
<1>2. NetTypeOK' /\ dsPc' \in {IF dsJ + 1 = RETRIES THEN "aborted" ELSE "ack", "returned"}
  BY <1>1, DsAnswerType DEF DsRetry, TypeInv, TypeOK
<1> QED BY <1>2 DEF DsRetry, TypeInv, TypeOK, DsTypeOK, DsEnded

LEMMA ServerType == TypeInv /\ ServerStep => TypeInv'
<1> SUFFICES ASSUME TypeInv, ServerStep PROVE TypeInv'
  OBVIOUS
<1> DEFINE Goal == /\ NetTypeOK' /\ DsTypeOK'
                   /\ dsPc' \in {"listen", "send"} => dsSent' < Chunks
                   /\ dsPc' = "ack" => dsJ' < RETRIES
<1> USE DEF TypeInv, TypeOK, DsTypeOK
<1>1. SUFFICES Goal
  BY DEF ServerStep, cgvars, CgTypeOK
<1>2. CASE DsSendPiece
  <2> DEFINE k == dsSent + 1
  <2>1. dsSent \in 0..Chunks /\ dsSent < Chunks /\ k \in 1..Chunks
    BY <1>2 DEF DsSendPiece
  <2>2. {DsPacket(k, PieceSize(k))} \in SUBSET Datagram
    BY <2>1, PacketType, PieceSizeType
  <2>3. DsSlot(Count(k)) \in 0..(SrvAck - 1)
    <3>1. k \in Nat
      BY <2>1
    <3> HIDE DEF k
    <3> QED BY <3>1, BlockSlotType
  <2>4. dsBuf' \in [0..(SrvAck - 1) -> 0..Chunks] /\ dsLen' \in Nat /\ dsSent' = k
    BY <1>2, <2>1, <2>3, PieceSizeType DEF DsSendPiece
  <2>5. CASE DsWaitsForAck(k)
    <3>1. NetTypeOK' /\ dsPc' \in {"ack", "returned"} /\ dsJ' = 0
      BY <1>2, <2>2, <2>5, DsAnswerType DEF DsSendPiece
    <3> QED BY <2>1, <2>4, <3>1 DEF DsEnded
  <2>6. CASE ~DsWaitsForAck(k)
    <3>1. NetTypeOK' /\ dsPc' \in {"send", "returned"} /\ dsJ' = dsJ
      BY <1>2, <2>2, <2>6, DsAnswerType DEF DsSendPiece
    <3>2. k # Chunks
      BY <2>6 DEF DsWaitsForAck, PieceSize
    <3> QED BY <2>1, <2>4, <3>1, <3>2 DEF DsEnded
  <2> QED BY <2>5, <2>6
<1>3. CASE DsTimeout
  <2>1. {} \in SUBSET Datagram
    OBVIOUS
  <2> QED BY <1>3, <2>1, DsRetryType DEF DsTimeout
<1>4. ASSUME NEW d \in InFlight,
             DsStart(d) \/ DsRefuse(d) \/ DsAcked(d) \/ DsMismatch(d) \/ DsForeign(d)
      PROVE  Goal
  <2>1. CASE DsStart(d)
    BY <2>1, ExchangeType DEF DsStart
  <2>2. CASE DsRefuse(d)
    <3>1. {Error("child", "client")} \in SUBSET Datagram
      BY SocketSet, ErrorType
    <3>2. NetTypeOK'
      BY <2>2, <3>1, ExchangeType, ExchangeFailsType DEF DsRefuse
    <3> QED BY <2>2, <3>2 DEF DsRefuse, DsEnded
  <2>3. CASE DsAcked(d)
    <3>1. NetTypeOK'
      BY <2>3, ExchangeType DEF DsAcked
    <3>2. dsPc' = "send" => dsSent < Chunks
      BY <2>3 DEF DsAcked, PieceSize
    <3> QED BY <2>3, <3>1, <3>2 DEF DsAcked, DsEnded
  <2>4. CASE DsMismatch(d)
    <3>1. Complaint("child", "client", d) \in SUBSET Datagram
      BY SocketSet, ComplaintType
    <3> QED BY <2>4, <3>1, DsRetryType DEF DsMismatch, DsReceives
  <2>5. CASE DsForeign(d)
    BY <2>5, ExchangeType DEF DsForeign, dsvars
  <2> QED BY <1>4, <2>1, <2>2, <2>3, <2>4, <2>5
<1> QED BY <1>2, <1>3, <1>4 DEF ServerStep

LEMMA NetStepType == TypeInv /\ NetStep => TypeInv'
<1> SUFFICES ASSUME TypeInv, NetStep PROVE TypeInv'
  OBVIOUS
<1>1. NetTypeOK'
  BY NetworkType DEF NetStep, TypeInv, TypeOK
<1> QED BY <1>1 DEF NetStep, cgvars, dsvars, TypeInv, TypeOK, CgTypeOK, DsTypeOK

LEMMA TypeInvariant == Spec => []TypeInv
<1>1. TypeInv /\ UNCHANGED vars => TypeInv'
  BY QuietType DEF vars, cgvars, dsvars, TypeInv, TypeOK, CgTypeOK, DsTypeOK
<1>2. TypeInv /\ [Next]_vars => TypeInv'
  BY <1>1, ClientType, ServerType, NetStepType DEF Next
<1> QED BY <1>2, InitType, PTL DEF Spec

\* Type correctness of the download (declared types of tget() in tftpc.c and of
\* tsend() in tftpd.c): counts stay in 16 bits, slots in packetbuf[], pieces in
\* the file, and no retry loop counts past RETRIES.
THEOREM DownloadTypes == Spec => []TypeOK
<1>1. TypeInv => TypeOK
  BY DEF TypeInv
<1> QED BY <1>1, TypeInvariant, PTL

--------------------------------------------------------------------------------
(* What the child sends again.                                                 *)

\* From the third block on, the slots go round.
LEMMA SlotOf ==
    \A c \in Nat : c >= 2 => DsSlot(c) = (c - 2) % SrvAck
<1> SUFFICES ASSUME NEW c \in Nat, c >= 2 PROVE DsSlot(c) = (c - 2) % SrvAck
  OBVIOUS
<1>1. 0 % SrvAck = 0
  BY DivMod
<1> QED BY <1>1 DEF DsSlot

\* A block goes to slot 0, or to the slot after that of the block before it.
LEMMA NextSlot ==
    \A k \in Nat : k > 0 /\ DsSlot(k + 1) # 0 => DsSlot(k + 1) = DsSlot(k) + 1
<1> SUFFICES ASSUME NEW k \in Nat, k > 0, DsSlot(k + 1) # 0
             PROVE  DsSlot(k + 1) = DsSlot(k) + 1
  OBVIOUS
<1>1. k >= 2
  BY DEF DsSlot
<1> DEFINE m == k - 2
<1>2. m \in Nat /\ DsSlot(k) = m % SrvAck /\ DsSlot(k + 1) = (m + 1) % SrvAck
  <2>1. DsSlot(k) = (k - 2) % SrvAck
    BY <1>1, SlotOf
  <2>2. DsSlot(k + 1) = ((k + 1) - 2) % SrvAck
    <3>1. k + 1 \in Nat /\ k + 1 >= 2
      BY <1>1
    <3> QED BY <3>1, SlotOf
  <2>3. (k + 1) - 2 = m + 1
    OBVIOUS
  <2> QED BY <1>1, <2>1, <2>2, <2>3
<1> HIDE DEF m
<1>3. SrvAck > 0 /\ SrvAck \in Nat /\ (m + 1) % SrvAck # 0
  BY <1>2
<1> QED BY <1>2, <1>3, RemainderNext

\* The slots in use after the next piece.
LEMMA SendWindow ==
    ASSUME Chunks < M, TypeInv, WindowInv, DsSendPiece
    PROVE  WindowInv'
<1> DEFINE k == dsSent + 1
<1>1. dsSent \in 0..Chunks /\ dsSent < Chunks /\ k \in 1..Chunks /\ dsSent' = k
  BY DEF TypeInv, TypeOK, DsTypeOK, DsSendPiece
<1>2. Count(dsSent) = dsSent /\ Count(k) = k
  BY <1>1, CountSmall DEF Count
<1>3. dsBuf \in [0..(SrvAck - 1) -> 0..Chunks] /\ dsBuf' = [dsBuf EXCEPT ![DsSlot(k)] = k]
  BY <1>2 DEF TypeInv, TypeOK, DsTypeOK, DsSendPiece
<1>4. DsSlot(k) \in 0..(SrvAck - 1) /\ DsSlot(dsSent) \in 0..(SrvAck - 1)
  BY <1>1, SlotType
<1>5. SUFFICES ASSUME NEW s \in 0..DsSlot(k) PROVE dsBuf'[s] = k - DsSlot(k) + s
  BY <1>1, <1>2 DEF WindowInv, DsSlots, Count
<1>6. CASE s = DsSlot(k)
  BY <1>1, <1>3, <1>4, <1>6
<1>7. CASE s # DsSlot(k)
  <2>1. DsSlot(k) # 0 /\ dsSent > 0
    BY <1>1, <1>4, <1>7 DEF DsSlot
  <2>2. DsSlot(k) = DsSlot(dsSent) + 1
    BY <1>1, <2>1, NextSlot
  <2>3. dsBuf[s] = dsSent - DsSlot(dsSent) + s
    BY <1>1, <1>2, <1>4, <1>7, <2>1, <2>2 DEF WindowInv, DsSlots
  <2>4. dsBuf'[s] = dsBuf[s]
    BY <1>3, <1>4, <1>7
  <2> QED BY <1>1, <1>4, <2>2, <2>3, <2>4
<1> QED BY <1>6, <1>7

LEMMA WindowInvariant ==
    ASSUME Chunks < M
    PROVE  Spec => []WindowInv
<1>1. Init => WindowInv
  BY DEF Init, DsInit, WindowInv
<1>2. TypeInv /\ WindowInv /\ [Next]_vars => WindowInv'
  <2> SUFFICES ASSUME TypeInv, WindowInv, [Next]_vars PROVE WindowInv'
    OBVIOUS
  <2>1. ASSUME UNCHANGED <<dsSent, dsBuf>>, dsPc' = "ack" => dsPc = "ack"
        PROVE  WindowInv'
    BY <2>1 DEF WindowInv, DsSlots
  <2>2. CASE ServerStep
    <3>1. CASE DsSendPiece
      BY <3>1, SendWindow
    <3>2. CASE DsTimeout
      BY <2>1, <3>2 DEF DsTimeout, DsRetry
    <3>3. ASSUME NEW d \in InFlight,
                 DsStart(d) \/ DsRefuse(d) \/ DsAcked(d) \/ DsMismatch(d) \/ DsForeign(d)
          PROVE  WindowInv'
      BY <2>1, <3>3 DEF DsStart, DsRefuse, DsAcked, DsMismatch, DsReceives, DsRetry,
                        DsForeign, dsvars
    <3> QED BY <2>2, <3>1, <3>2, <3>3 DEF ServerStep
  <2>3. CASE ClientStep \/ NetStep \/ UNCHANGED vars
    BY <2>1, <2>3 DEF ClientStep, NetStep, vars, dsvars
  <2> QED BY <2>2, <2>3 DEF Next
<1> QED BY <1>1, <1>2, TypeInvariant, PTL DEF Spec

\* What the programs put in flight.
LEMMA AnswerFlight ==
    ASSUME NEW D, NEW S, Exchange(D, S) \/ ExchangeFails(D, S)
    PROVE  InFlight' \subseteq InFlight \cup S
  BY ExchangeInFlight DEF ExchangeFails

\* The client complains about nothing but operation codes, and with no such code.
LEMMA ClientSendsNoBad ==
    ASSUME TypeInv, ClientStep
    PROVE  \E S : /\ InFlight' \subseteq InFlight \cup S
                  /\ \A d \in S : d.op # "BAD"
<1>1. CASE CgOpen \/ (Expired /\ Paced /\ CgTimeout)
  <2> DEFINE S == {}
  <2>1. InFlight' \subseteq InFlight \cup S /\ \A d \in S : d.op # "BAD"
    BY <1>1 DEF CgOpen, CgTimeout, netvars, InFlight
  <2> HIDE DEF S
  <2> QED BY <2>1
<1>2. CASE CgLast
  <2> DEFINE S == {Ack("client", cgPeer, cgCount)}
  <2>1. InFlight' \subseteq InFlight \cup S
    BY <1>2, AnswerFlight DEF CgLast, CgAnswer
  <2>2. \A d \in S : d.op # "BAD"
    BY DEF Ack, Control
  <2> QED BY <2>1, <2>2
<1>3. ASSUME NEW d \in InFlight, CgAccept(d) \/ CgDiskFull(d)
      PROVE  \E S : /\ InFlight' \subseteq InFlight \cup S
                    /\ \A x \in S : x.op # "BAD"
  <2>1. InFlight' \subseteq InFlight \cup CgAcks(d)
    BY <1>3, AnswerFlight DEF CgAccept, CgDiskFull
  <2>2. \A x \in CgAcks(d) : x.op # "BAD"
    BY DEF CgAcks, Ack, Control
  <2> QED BY <2>1, <2>2
<1>4. ASSUME NEW d \in InFlight, CgMismatch(d) \/ CgForeign(d)
      PROVE  \E S : /\ InFlight' \subseteq InFlight \cup S
                    /\ \A x \in S : x.op # "BAD"
  <2> DEFINE S == {Error("client", Peer(d))}
  <2>1. InFlight' \subseteq InFlight \cup S
    <3>1. PICK E \in SUBSET S : Exchange({d}, E)
      BY <1>4 DEF CgMismatch, CgForeign, Complaint
    <3> QED BY <3>1, AnswerFlight
  <2>2. \A x \in S : x.op # "BAD"
    BY DEF Error
  <2> QED BY <2>1, <2>2
<1> QED BY <1>1, <1>2, <1>3, <1>4 DEF ClientStep

\* The child sends from its own host.
LEMMA ChildSendsFromThere ==
    ASSUME TypeInv, ServerStep
    PROVE  \E S : /\ InFlight' \subseteq InFlight \cup S
                  /\ \A d \in S : ~FromHost(d, "here")
<1> DEFINE Own(S) == \A d \in S : d.src = "child"
<1>0. SUFFICES \E S : InFlight' \subseteq InFlight \cup S /\ Own(S)
  BY DEF FromHost, Host
<1>1. CASE DsSendPiece
  <2> DEFINE S == {DsPacket(dsSent + 1, PieceSize(dsSent + 1))}
  <2>1. InFlight' \subseteq InFlight \cup S
    BY <1>1, AnswerFlight DEF DsSendPiece, DsAnswer
  <2>2. Own(S)
    BY DEF DsPacket, Data
  <2> QED BY <2>1, <2>2
<1>2. ASSUME NEW D, NEW n, NEW E, E \subseteq {Error("child", "client")}, DsRetry(D, E, n)
      PROVE  \E S : InFlight' \subseteq InFlight \cup S /\ Own(S)
  <2>1. InFlight' \subseteq InFlight \cup (E \cup DsResent(n))
    BY <1>2, AnswerFlight DEF DsRetry, DsAnswer
  <2>2. Own(E \cup DsResent(n))
    BY <1>2 DEF DsResent, DsPacket, Data, Error
  <2> QED BY <2>1, <2>2
<1>3. CASE Expired /\ DsTimeout
  BY <1>2, <1>3 DEF DsTimeout
<1>4. ASSUME NEW d \in InFlight, DsMismatch(d)
      PROVE  \E S : InFlight' \subseteq InFlight \cup S /\ Own(S)
  BY <1>2, <1>4 DEF DsMismatch, Complaint
<1>5. ASSUME NEW d \in InFlight, DsStart(d) \/ DsRefuse(d) \/ DsAcked(d) \/ DsForeign(d)
      PROVE  \E S : InFlight' \subseteq InFlight \cup S /\ Own(S)
  <2> DEFINE S == {Error("child", "client")}
  <2>1. InFlight' \subseteq InFlight \cup S
    <3>1. InFlight' \subseteq InFlight \cup {} \/ InFlight' \subseteq InFlight \cup S
      BY <1>5, AnswerFlight DEF DsStart, DsRefuse, DsAcked, DsForeign
    <3> QED BY <3>1
  <2>2. Own(S)
    BY DEF Error
  <2> QED BY <2>1, <2>2
<1> QED BY <1>1, <1>3, <1>4, <1>5 DEF ServerStep

\* While the child waits, the next resend loop uses the length of the last piece.
LEMMA LengthStays ==
    ASSUME TypeInv, LengthInv, [Next]_vars
    PROVE  dsPc' = "ack" => dsLen' = PieceSize(dsSent')
<1>1. CASE UNCHANGED dsvars
  BY <1>1 DEF LengthInv, dsvars
<1>2. CASE ServerStep
  <2>1. CASE DsSendPiece
    BY <2>1 DEF DsSendPiece
  <2>2. CASE Expired /\ DsTimeout
    BY <2>2 DEF DsTimeout, DsRetry, LengthInv
  <2>3. ASSUME NEW d \in InFlight, DsMismatch(d)
        PROVE  dsPc' = "ack" => dsLen' = PieceSize(dsSent')
    BY <2>3 DEF DsMismatch, DsReceives, DsRetry, LengthInv
  <2>4. ASSUME NEW d \in InFlight, DsStart(d) \/ DsRefuse(d) \/ DsAcked(d) \/ DsForeign(d)
        PROVE  dsPc' = "ack" => dsLen' = PieceSize(dsSent')
    BY <1>1, <2>4 DEF DsStart, DsRefuse, DsAcked, DsForeign
  <2> QED BY <1>2, <2>1, <2>2, <2>3, <2>4 DEF ServerStep
<1> QED BY <1>1, <1>2 DEF Next, ClientStep, NetStep, vars

LEMMA LengthInvariant ==
    ASSUME \A d \in Stray : ~FromHost(d, "here")
    PROVE  Spec => []LengthInv
<1>1. Init => LengthInv
  <2> SUFFICES ASSUME Init PROVE LengthInv
    OBVIOUS
  <2>1. InFlight = {Rrq} \cup Stray /\ dsPc = "listen"
    BY DEF Init, NetInit, InFlight, BagToSet, SetToBag, DsInit
  <2> QED BY <2>1 DEF LengthInv, Rrq, Control
<1>2. TypeInv /\ LengthInv /\ [Next]_vars => LengthInv'
  <2> SUFFICES ASSUME TypeInv, LengthInv, [Next]_vars PROVE LengthInv'
    OBVIOUS
  <2>1. \A d \in InFlight' : FromHost(d, "here") => d.op # "BAD"
    <3>1. CASE ClientStep
      BY <3>1, ClientSendsNoBad DEF LengthInv
    <3>2. CASE ServerStep
      BY <3>2, ChildSendsFromThere DEF LengthInv
    <3>3. CASE NetStep \/ UNCHANGED vars
      <4>1. InFlight' \subseteq InFlight
        BY <3>3, NetworkType DEF NetStep, TypeInv, TypeOK, vars, netvars, InFlight
      <4> QED BY <4>1 DEF LengthInv
    <3> QED BY <3>1, <3>2, <3>3 DEF Next
  <2> QED BY <2>1, LengthStays DEF LengthInv, FromHost
<1> QED BY <1>1, <1>2, TypeInvariant, PTL DEF Spec

\* The resend loop of tsend() in tftpd.c sends the pieces read since the last
\* stop, every one of them and no other, all with the length of the last one
\* (tftpd.c:631, 751), for files with fewer pieces than block numbers, when the
\* datagrams of programs outside the transfer come from other hosts than the
\* client's.
THEOREM DownloadWindowResent ==
    ASSUME Chunks < M, \A d \in Stray : ~FromHost(d, "here")
    PROVE  Spec => []WindowResent
<1>1. TypeInv /\ WindowInv /\ LengthInv => WindowResent
  <2> DEFINE slot == DsSlot(Count(dsSent))
             first == dsSent - slot
  <2> SUFFICES ASSUME TypeInv, WindowInv, LengthInv, dsPc = "ack"
               PROVE  /\ first = 1 \/ DsWaitsForAck(first - 1)
                      /\ DsResent(dsLen) = {DsPacket(k, PieceSize(dsSent)) : k \in first..dsSent}
    BY DEF WindowResent
  <2>0. SUFFICES /\ {dsBuf[s] : s \in DsSlots} = first..dsSent
                 /\ first = 1 \/ DsWaitsForAck(first - 1)
    <3>1. DsResent(dsLen) = {DsPacket(k, dsLen) : k \in {dsBuf[s] : s \in DsSlots}}
      BY DEF DsResent
    <3> QED BY <3>1 DEF LengthInv
  <2>1. dsSent \in 1..Chunks /\ Count(dsSent) = dsSent
    <3>1. dsSent \in 0..Chunks /\ dsSent > 0
      BY DEF TypeInv, TypeOK, DsTypeOK, WindowInv
    <3>2. dsSent % M = dsSent
      BY <3>1, CountSmall
    <3> QED BY <3>1, <3>2 DEF Count
  <2>2. slot \in Nat
    BY <2>1, SlotType
  <2>3. \A s \in 0..slot : dsBuf[s] = first + s
    BY <2>1, <2>2 DEF WindowInv, DsSlots
  <2>4. {dsBuf[s] : s \in DsSlots} = first..dsSent
    <3> HIDE DEF slot
    <3>1. ASSUME NEW p \in first..dsSent PROVE \E s \in 0..slot : dsBuf[s] = p
      <4>1. p - first \in 0..slot
        BY <2>1, <2>2
      <4>2. dsBuf[p - first] = p
        BY <2>1, <2>2, <2>3, <4>1
      <4> QED BY <4>1, <4>2
    <3>2. ASSUME NEW s \in 0..slot PROVE dsBuf[s] \in first..dsSent
      BY <2>1, <2>2, <2>3, <3>2
    <3> QED BY <3>1, <3>2 DEF DsSlots, slot
  <2>5. CASE dsSent = 1
    <3>1. slot = 0
      BY <2>1, <2>5 DEF DsSlot
    <3>2. first = 1
      BY <2>5, <3>1
    <3> HIDE DEF first
    <3> QED BY <2>4, <3>2
  <2>6. CASE dsSent >= 2
    <3> DEFINE m == dsSent - 2
    <3>1. m \in Nat /\ slot = m % SrvAck
      BY <2>1, <2>6, SlotOf
    <3>2. m - (m % SrvAck) \in Nat /\ (m - (m % SrvAck)) % SrvAck = 0
      <4> HIDE DEF m
      <4> QED BY <3>1, LastMultiple
    <3>3. first - 1 \in Nat /\ first - 1 < M /\ (first - 1) - 1 = m - (m % SrvAck)
      BY <2>1, <2>2, <3>1, <3>2
    <3>4. Count(first - 1) = first - 1
      <4> HIDE DEF first
      <4> QED BY <3>3, CountSmall DEF Count
    <3>5. (Count(first - 1) - 1) % SrvAck = 0
      BY <3>2, <3>3, <3>4
    <3> HIDE DEF first
    <3>6. DsWaitsForAck(first - 1)
      BY <3>5 DEF DsWaitsForAck
    <3> QED BY <2>4, <3>6
  <2> QED BY <2>1, <2>4, <2>5, <2>6
<1> QED BY <1>1, TypeInvariant, WindowInvariant, LengthInvariant, PTL
================================================================================
