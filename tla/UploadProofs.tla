------------------------------ MODULE UploadProofs -----------------------------
(***************************************************************************)
(* Theorems about the upload, for every value of the constants: the types, *)
(* the inductive invariant of UploadInv, and the properties it implies.    *)
(***************************************************************************)
EXTENDS UploadInv, NetProofs, SequenceTheorems

USE NetworkAssumption, TftpAssumption, TftpdGetAssumption,
    TftpcSendAssumption, SlowAssumption

-----------------------------------------------------------------------------
(* Arithmetic of the block numbers and of the slots of packetbuf[].        *)

\* A count below the modulus is its own block number.
LEMMA CountSmall == \A k \in Nat : k < M => k % M = k
  OBVIOUS

\* The remainder by the ack frequency is a slot, and is not above the dividend.
LEMMA SlotRemainder ==
    \A c \in Int : /\ c % CAck \in 0..(CAck - 1)
                   /\ c >= 0 => c % CAck <= c
                   /\ c \in 0..(CAck - 1) => c % CAck = c
  OBVIOUS

\* Every block number has a slot.
LEMMA SlotType == \A c \in Nat : Slot(c) \in 0..(CAck - 1)
  BY SlotRemainder DEF Slot

-----------------------------------------------------------------------------
(* What the programs send are datagrams.                                   *)

LEMMA PacketType ==
    ASSUME TsTypeOK, NEW k \in Nat, NEW n \in Nat
    PROVE  Packet(k, n) \in Datagram
  BY SocketSet, CountType DEF Packet, Data, Datagram, Op, Count, TsTypeOK

LEMMA ReplyType == \A b \in 0..M : TgReply(b) \in Datagram
  BY SocketSet DEF TgReply, Ack, Control, Datagram, Op, NoAck

-----------------------------------------------------------------------------
(* Type correctness.                                                       *)

\* The pieces of the file have the sizes they were given.
LEMMA PieceSizeType == \A k \in Nat : PieceSize(k) \in Nat
  BY DEF PieceSize

LEMMA ResentType ==
    ASSUME TsTypeOK, NEW n \in Nat
    PROVE  Resent(n) \in SUBSET Datagram
<1>1. SUFFICES ASSUME NEW s \in 0..Slot(Count(tsSent))
               PROVE  Packet(tsBuf[s], n) \in Datagram
  BY DEF Resent
<1>2. Slot(Count(tsSent)) \in 0..(CAck - 1)
  BY SlotType, CountType DEF Count, TsTypeOK
<1>3. tsBuf[s] \in Nat
  BY <1>2 DEF TsTypeOK
<1> QED BY <1>3, PacketType

\* The initial state is well typed.
LEMMA InitType == Init => TypeInv
<1> SUFFICES ASSUME Init PROVE TypeInv
  OBVIOUS
<1>1. Wrq \in Datagram
  BY SocketSet DEF Wrq, Control, Datagram, Op
<1>2. NetTypeOK
  BY <1>1, NetInitType DEF Init
<1>3. TsTypeOK
  BY SocketSet DEF Init, TsInit, TsTypeOK
<1>4. TgTypeOK
  BY DEF Init, TgInit, TgTypeOK, NoAck
<1>5. tsSent < Chunks /\ tsPc = "first" /\ tgPc = "listen"
  BY DEF Init, TsInit, TgInit
<1> QED BY <1>2, <1>3, <1>4, <1>5 DEF TypeInv, TypeOK

\* What a send of the client leaves: a typed network, and the control state the
\* caller asked for or "returned".
LEMMA TsAnswerType ==
    ASSUME NetTypeOK, NEW D, NEW S \in SUBSET Datagram, NEW pc, TsAnswer(D, S, pc)
    PROVE  NetTypeOK' /\ tsPc' \in {pc, "returned"}
  BY ExchangeType, ExchangeFailsType DEF TsAnswer

LEMMA TsSendPieceType ==
    ASSUME TypeInv, TsSendPiece
    PROVE  /\ NetTypeOK' /\ TsTypeOK'
           /\ tsPc' = "send" => tsSent' < Chunks
           /\ tsPc' = "ack" => tsJ' < RETRIES
<1> DEFINE k == tsSent + 1
           S == {Packet(k, PieceSize(k))}
<1>1. tsSent \in 0..Chunks /\ tsSent < Chunks /\ k \in 1..Chunks
  BY DEF TypeInv, TypeOK, TsTypeOK, TsSendPiece
<1>2. S \in SUBSET Datagram
  BY <1>1, PacketType, PieceSizeType DEF TypeInv, TypeOK
<1>3. Slot(Count(k)) \in 0..(CAck - 1)
  BY <1>1, SlotType, CountType DEF Count
<1>4. tsBuf' \in [0..(CAck - 1) -> 0..Chunks] /\ tsLen' \in Nat
  BY <1>1, <1>3, PieceSizeType DEF TsSendPiece, TypeInv, TypeOK, TsTypeOK
<1>5. CASE WaitsForAck(k)
  <2>1. NetTypeOK' /\ tsPc' \in {"ack", "returned"} /\ tsJ' = 0
    BY <1>2, <1>5, TsAnswerType DEF TsSendPiece, TypeInv, TypeOK
  <2> QED BY <1>1, <1>4, <2>1 DEF TsSendPiece, TypeInv, TypeOK, TsTypeOK, TsEnded
<1>6. CASE ~WaitsForAck(k)
  <2>1. NetTypeOK' /\ tsPc' \in {"send", "returned"} /\ tsJ' = tsJ
    BY <1>2, <1>6, TsAnswerType DEF TsSendPiece, TypeInv, TypeOK
  <2>2. k # Chunks
    BY <1>6 DEF WaitsForAck, PieceSize
  <2> QED BY <1>1, <1>4, <2>1, <2>2 DEF TsSendPiece, TypeInv, TypeOK, TsTypeOK, TsEnded
<1> QED BY <1>5, <1>6

LEMMA TsRetryType ==
    ASSUME TypeInv, tsPc = "ack", NEW D, NEW S \in SUBSET Datagram, NEW n \in Nat,
           TsRetry(D, S, n)
    PROVE  /\ NetTypeOK' /\ TsTypeOK'
           /\ tsPc' # "send"
           /\ tsPc' = "ack" => tsJ' < RETRIES
<1>1. S \cup Resent(n) \in SUBSET Datagram
  BY ResentType DEF TypeInv, TypeOK
<1>2. NetTypeOK' /\ tsPc' \in {IF tsJ + 1 = RETRIES THEN "aborted" ELSE "ack", "returned"}
  BY <1>1, TsAnswerType DEF TsRetry, TypeInv, TypeOK
<1> QED BY <1>2 DEF TsRetry, TypeInv, TypeOK, TsTypeOK, TsEnded

\* Every step of the client preserves the types.
LEMMA ClientType == TypeInv /\ ClientStep => TypeInv'
<1> SUFFICES ASSUME TypeInv, ClientStep PROVE TypeInv'
  OBVIOUS
<1> DEFINE Goal == /\ NetTypeOK' /\ TsTypeOK'
                   /\ tsPc' \in {"first", "send"} => tsSent' < Chunks
                   /\ tsPc' = "ack" => tsJ' < RETRIES
<1> USE DEF TypeInv, TypeOK, TsTypeOK
<1>1. SUFFICES Goal
  BY DEF ClientStep, tgvars, TgTypeOK
<1>2. CASE TsSendPiece
  BY <1>2, TsSendPieceType DEF TsSendPiece, TsAnswer, TsEnded
<1>3. CASE TsFirstTimeout
  BY <1>3, SocketSet DEF TsFirstTimeout, netvars, NetTypeOK, InFlight
<1>4. CASE TsTimeout
  BY <1>4, TsRetryType DEF TsTimeout, TsRetry, TsAnswer
<1>5. ASSUME NEW d \in InFlight,
             TsFirst(d) \/ TsFirstForeign(d) \/ TsAcked(d) \/ TsMismatch(d) \/ TsForeign(d)
      PROVE  Goal
  <2>1. d \in Datagram /\ d.src \in Socket
    BY DEF NetTypeOK, Datagram
  <2>2. Complaint("client", d.src, d) \in SUBSET Datagram
    BY <2>1, SocketSet, ComplaintType
  <2>3. Complaint("client", tsPeer, d) \in SUBSET Datagram
    BY SocketSet, ComplaintType
  <2>4. CASE TsFirst(d)
    BY <2>1, <2>2, <2>4, ExchangeType DEF TsFirst
  <2>5. CASE TsFirstForeign(d)
    BY <2>5, ExchangeType, SocketSet DEF TsFirstForeign
  <2>6. CASE TsAcked(d)
    <3>1. NetTypeOK'
      BY <2>6, ExchangeType DEF TsAcked
    <3>2. tsPc' = "send" => tsSent < Chunks
      BY <2>6 DEF TsAcked, PieceSize
    <3> QED BY <2>6, <3>1, <3>2 DEF TsAcked, TsEnded
  <2>7. CASE TsMismatch(d)
    BY <2>3, <2>7, TsRetryType DEF TsMismatch, TsRetry, TsAnswer
  <2>8. CASE TsForeign(d)
    BY <2>8, ExchangeType DEF TsForeign, tsvars
  <2> QED BY <1>5, <2>4, <2>5, <2>6, <2>7, <2>8
<1> QED BY <1>2, <1>3, <1>4, <1>5 DEF ClientStep

\* What a reply of the child leaves.
LEMMA TgAnswerType ==
    ASSUME NetTypeOK, NEW D, NEW S \in SUBSET Datagram, NEW pc, TgAnswer(D, S, pc)
    PROVE  NetTypeOK' /\ tgPc' \in {pc, "returned"}
  BY ExchangeType, ExchangeFailsType DEF TgAnswer

LEMMA TgNextBlockType ==
    ASSUME TypeInv, NEW D, NEW c \in 0..(M - 1), TgNextBlock(D, c)
    PROVE  /\ NetTypeOK' /\ tgPc' \in {"wait", "returned"}
           /\ tgCount' \in 0..(M - 1) /\ tgAck' \in 0..M /\ tgJ' = 0
<1>1. {TgReply(c)} \in SUBSET Datagram
  BY ReplyType
<1>2. NetTypeOK' /\ tgPc' \in {"wait", "returned"}
  BY <1>1, TgAnswerType DEF TgNextBlock, TypeInv, TypeOK
<1>3. (c + 1) % M \in 0..(M - 1)
  BY CountType
<1> QED BY <1>2, <1>3 DEF TgNextBlock, NoAck

LEMMA TgRetryType ==
    ASSUME TypeInv, tgPc = "wait", NEW D, NEW S \in SUBSET Datagram, TgRetry(D, S)
    PROVE  /\ NetTypeOK'
           /\ tgPc' \in {"wait", "aborted", "returned"}
           /\ tgJ' \in 0..RETRIES
           /\ tgPc' = "wait" => tgJ' < RETRIES
<1>1. S \cup {TgReply(tgAck)} \in SUBSET Datagram
  BY ReplyType DEF TypeInv, TypeOK, TgTypeOK
<1>2. NetTypeOK' /\ tgPc' \in {IF tgJ + 1 = RETRIES THEN "aborted" ELSE "wait", "returned"}
  BY <1>1, TgAnswerType DEF TgRetry, TypeInv, TypeOK
<1> QED BY <1>2 DEF TgRetry, TypeInv, TypeOK, TgTypeOK

\* A prefix of a sequence of pieces is one too.
LEMMA PrefixType ==
    ASSUME written \in Seq([piece : Nat, size : Nat])
    PROVE  \A n \in 0..(Len(written) - 1) :
              SubSeq(written, 1, n) \in Seq([piece : Nat, size : Nat])
<1> DEFINE P == [piece : Nat, size : Nat]
<1> SUFFICES ASSUME NEW n \in 0..(Len(written) - 1)
             PROVE  SubSeq(written, 1, n) \in Seq(P)
  OBVIOUS
<1>1. written \in Seq(P) /\ Len(written) \in Nat
  OBVIOUS
<1> HIDE DEF P
<1>2. \A i \in 1..n : written[i] \in P
  BY <1>1, ElementOfSeq
<1> QED BY <1>2, SubSeqProperties

\* Every step of the child preserves the types.
LEMMA ServerType == TypeInv /\ ServerStep => TypeInv'
<1> SUFFICES ASSUME TypeInv, ServerStep PROVE TypeInv'
  OBVIOUS
<1> DEFINE Goal == /\ NetTypeOK' /\ TgTypeOK'
                   /\ tgPc' = "wait" => tgJ' < RETRIES
<1> USE DEF TypeInv, TypeOK, TgTypeOK
<1>1. SUFFICES Goal
  BY DEF ServerStep, tsvars, TsTypeOK
<1>2. CASE TgClose
  <2>1. \A n \in 0..(Len(written) - 1) :
           SubSeq(written, 1, n) \in Seq([piece : Nat, size : Nat])
    BY PrefixType
  <2>2. written' \in Seq([piece : Nat, size : Nat])
    BY <1>2, <2>1 DEF TgClose
  <2>3. NetTypeOK'
    BY <1>2 DEF TgClose, netvars, NetTypeOK, InFlight
  <2> QED BY <1>2, <2>2, <2>3 DEF TgClose, TgEnded
<1>3. CASE TgTimeout
  <2>1. TgRetry({}, {}) /\ tgPc = "wait" /\ UNCHANGED <<tgSize, tgFlag>>
    BY <1>3 DEF TgTimeout
  <2>2. {} \in SUBSET Datagram
    OBVIOUS
  <2> QED BY <2>1, <2>2, TgRetryType DEF TgRetry, TgEnded
<1>4. ASSUME NEW d \in InFlight,
             TgStart(d) \/ TgRefuse(d) \/ TgAccept(d) \/ TgDiskFull(d)
                \/ TgMismatch(d) \/ TgForeign(d)
      PROVE  Goal
  <2>1. d \in Datagram /\ d.piece \in Nat /\ d.size \in Nat
    BY DEF NetTypeOK, Datagram
  <2>2. Adapted(d) \in Nat
    BY <2>1 DEF Adapted
  <2>3. CASE TgStart(d)
    BY <2>3, TgNextBlockType DEF TgStart, TgEnded
  <2>4. CASE TgRefuse(d)
    <3>1. {Error("child", "client")} \in SUBSET Datagram
      BY SocketSet, ErrorType
    <3>2. NetTypeOK'
      BY <2>4, <3>1, ExchangeType, ExchangeFailsType DEF TgRefuse
    <3> QED BY <2>4, <3>2 DEF TgRefuse, TgEnded
  <2>5. CASE TgAccept(d)
    <3>1. written' \in Seq([piece : Nat, size : Nat])
      BY <2>1, <2>5 DEF TgAccept, TgStore
    <3>2. tgSize' \in Nat /\ tgFlag' \in BOOLEAN
      BY <2>2, <2>5 DEF TgAccept, TgAdapt
    <3>3. CASE d.size = Adapted(d)
      BY <2>5, <3>1, <3>2, <3>3, TgNextBlockType DEF TgAccept, TgEnded
    <3>4. CASE d.size # Adapted(d)
      <4>1. {TgReply(tgCount)} \in SUBSET Datagram
        BY ReplyType
      <4>2. NetTypeOK' /\ tgPc' \in {"closing", "returned"}
        BY <2>5, <3>4, <4>1, TgAnswerType DEF TgAccept
      <4> QED BY <2>5, <3>1, <3>2, <3>4, <4>2 DEF TgAccept, TgEnded
    <3> QED BY <3>3, <3>4
  <2>6. CASE TgDiskFull(d)
    <3>1. written' \in Seq([piece : Nat, size : Nat])
      BY <2>1, <2>6 DEF TgDiskFull, TgStore
    <3>2. NetTypeOK'
      BY <2>6, ExchangeType DEF TgDiskFull
    <3> QED BY <2>2, <2>6, <3>1, <3>2 DEF TgDiskFull, TgAdapt, TgEnded
  <2>7. CASE TgMismatch(d)
    <3>1. Complaint("child", "client", d) \in SUBSET Datagram
      BY SocketSet, ComplaintType
    <3> QED BY <2>2, <2>7, <3>1, TgRetryType
            DEF TgMismatch, TgRetry, TgAdapt, TgReceives, TgEnded
  <2>8. CASE TgForeign(d)
    BY <2>8, ExchangeType DEF TgForeign, tgvars
  <2> QED BY <1>4, <2>3, <2>4, <2>5, <2>6, <2>7, <2>8
<1> QED BY <1>2, <1>3, <1>4 DEF ServerStep

\* The network changes only what is in flight and its own bookkeeping.
LEMMA NetStepType == TypeInv /\ NetStep => TypeInv'
<1> SUFFICES ASSUME TypeInv, NetStep PROVE TypeInv'
  OBVIOUS
<1>1. NetTypeOK'
  BY NetworkType DEF NetStep, TypeInv, TypeOK
<1> QED BY <1>1 DEF NetStep, tsvars, tgvars, TypeInv, TypeOK, TsTypeOK, TgTypeOK

LEMMA TypeStays == TypeInv /\ [Next]_vars => TypeInv'
<1>1. TypeInv /\ UNCHANGED vars => TypeInv'
  BY DEF vars, netvars, tsvars, tgvars, TypeInv, TypeOK, NetTypeOK, TsTypeOK,
         TgTypeOK, InFlight
<1> QED BY <1>1, ClientType, ServerType, NetStepType DEF Next

\* Type correctness of the upload (declared types of tsend() in tftpc.c and of
\* tget() in tftpd.c): counts stay in 16 bits, slots in packetbuf[], pieces in
\* the file, and no retry loop counts past RETRIES.
THEOREM UploadTypes == Spec => []TypeOK
<1>1. TypeInv => TypeOK
  BY DEF TypeInv
<1> QED BY <1>1, TypeStays, InitType, PTL DEF Spec

-----------------------------------------------------------------------------
(* The inductive invariant.                                                *)

\* While pieces are only added to the file, what was sound stays sound, and a
\* step has to vouch only for what it sends.
LEMMA NetMonotone ==
    ASSUME TypeInv, TypeInv', NetInv, NEW S, InFlight' \subseteq InFlight \cup S,
           tsSent <= tsSent', N <= N',
           tgPc' = "failed" => tgPc = "failed" \/ N < N',
           \A d \in S : Sound(d)'
    PROVE  NetInv'
<1> SUFFICES ASSUME NEW d \in InFlight', d \in InFlight PROVE Sound(d)'
  BY DEF NetInv
<1>1. Sound(d) /\ d \in Datagram
  BY DEF NetInv, TypeInv, TypeOK, NetTypeOK
<1>2. d.blk \in Nat /\ N \in Nat /\ N' \in Nat /\ tsSent \in Nat /\ tsSent' \in Nat
  <2>1. d.blk \in Nat
    BY <1>1 DEF Datagram
  <2>2. N \in Nat /\ N' \in Nat
    BY DEF N, TypeInv, TypeOK, TgTypeOK
  <2>3. tsSent \in Nat /\ tsSent' \in Nat
    BY DEF TypeInv, TypeOK, TsTypeOK
  <2> QED BY <2>1, <2>2, <2>3
<1>3. PieceInFlight(d) => PieceInFlight(d)'
  BY <1>2 DEF PieceInFlight
<1>4. d.blk <= N /\ (tgPc = "failed" => d.blk < N)
        => d.blk <= N' /\ (tgPc' = "failed" => d.blk < N')
  BY <1>2
<1> QED BY <1>1, <1>3, <1>4 DEF Sound

\* What a host of the transfer receives: the server's host sends the client no
\* operation code above 5, and the client's host sends pieces and the WRQ.
LEMMA FromServer ==
    ASSUME NetInv, NEW d \in InFlight, FromHost(d, "there")
    PROVE  /\ d.src = "child" /\ d.op # "BAD"
           /\ d.op = "ACK" => d.blk <= N /\ (tgPc = "failed" => d.blk < N)
  BY DEF NetInv, Sound, FromHost, Host, Wrq, Control

LEMMA FromClient ==
    ASSUME NetInv, NEW d \in InFlight, FromHost(d, "here")
    PROVE  /\ d.op \in {"DATA", "WRQ"}
           /\ d.op = "DATA" => PieceInFlight(d)
  BY DEF NetInv, Sound, FromHost, Host, Wrq, Control

\* The client's sends: what goes out is among S, complete or not.
LEMMA TsAnswerFlight ==
    ASSUME NEW D, NEW S, NEW pc, TsAnswer(D, S, pc)
    PROVE  InFlight' \subseteq InFlight \cup S /\ tsPc' \in {pc, "returned"}
<1>1. CASE Exchange(D, S) /\ tsPc' = pc
  BY <1>1, ExchangeInFlight
<1>2. CASE ExchangeFails(D, S) /\ tsPc' = "returned"
  <2>1. PICK T \in SUBSET S : Exchange(D, T)
    BY <1>2 DEF ExchangeFails
  <2> QED BY <1>2, <2>1, ExchangeInFlight
<1> QED BY <1>1, <1>2 DEF TsAnswer

LEMMA TgAnswerFlight ==
    ASSUME NEW D, NEW S, NEW pc, TgAnswer(D, S, pc)
    PROVE  InFlight' \subseteq InFlight \cup S /\ tgPc' \in {pc, "returned"}
<1>1. CASE Exchange(D, S) /\ tgPc' = pc
  BY <1>1, ExchangeInFlight
<1>2. CASE ExchangeFails(D, S) /\ tgPc' = "returned"
  <2>1. PICK T \in SUBSET S : Exchange(D, T)
    BY <1>2 DEF ExchangeFails
  <2> QED BY <1>2, <2>1, ExchangeInFlight
<1> QED BY <1>1, <1>2 DEF TgAnswer

\* The initial state satisfies the invariant.
LEMMA InitInv == Setting /\ Init => IInv
<1> SUFFICES ASSUME Setting, Init PROVE IInv
  OBVIOUS
<1>1. TypeInv
  BY InitType
<1>2. N = 0 /\ tsSent = 0 /\ tsPc = "first" /\ tgPc = "listen" /\ tgAck = NoAck
  BY DEF Init, TsInit, TgInit, N
<1>3. ClientInv /\ BufferInv /\ NoFalseSuccess
  BY <1>2 DEF Init, TsInit, ClientInv, BufferInv, NoFalseSuccess
<1>4. NetInv
  BY DEF Init, NetInit, NetInv, Sound, Setting, InFlight, BagToSet, SetToBag
<1>5. ServerInv /\ FileInv
  BY <1>2 DEF ServerInv, FileInv
<1> QED BY <1>1, <1>3, <1>4, <1>5 DEF IInv

\* A step of the client that sends S and reads no piece of the file leaves the
\* parts of the invariant about the child alone.
LEMMA ClientLeavesServer ==
    ASSUME IInv, UNCHANGED tgvars, tsSent <= tsSent', tsSent \in Nat, tsSent' \in Nat
    PROVE  ServerInv' /\ FileInv'
<1>1. N \in Nat /\ N' = N
  BY DEF IInv, TypeInv, TypeOK, TgTypeOK, tgvars, N
<1> QED BY <1>1 DEF IInv, ServerInv, FileInv, tgvars, N

\* Reading and sending the next piece.
LEMMA SendPieceInv ==
    ASSUME Setting, IInv, TypeInv', UNCHANGED tgvars, TsSendPiece
    PROVE  IInv'
<1> DEFINE k == tsSent + 1
           S == {Packet(k, PieceSize(k))}
<1>0. TypeInv /\ TsTypeOK /\ TgTypeOK
  BY DEF IInv, TypeInv, TypeOK
<1>1. /\ tsSent \in Nat /\ k \in 1..Chunks /\ Count(k) = k
      /\ tsSent' = k /\ tsBuf' = [tsBuf EXCEPT ![Slot(k)] = k]
      /\ tsLen' = PieceSize(k)
  <2>1. tsSent \in Nat /\ k \in 1..Chunks
    BY <1>0 DEF TypeInv, TsTypeOK, TsSendPiece
  <2>2. Count(k) = k
    BY <2>1, CountSmall DEF Count, Setting
  <2> QED BY <2>1, <2>2 DEF TsSendPiece
<1>2. InFlight' \subseteq InFlight \cup S /\ tsPc' \in {"ack", "send", "returned"}
  <2>1. PICK D : TsAnswer(D, S, "ack") \/ TsAnswer(D, S, "send")
    BY DEF TsSendPiece
  <2> QED BY <2>1, TsAnswerFlight
<1>3. ClientInv'
  BY <1>1, <1>2 DEF ClientInv, PieceSize
<1>4. BufferInv'
  <2>1. Slot(k) = IF k = 1 THEN 0 ELSE (k - 2) % CAck
    BY <1>1 DEF Slot
  <2>2. Slot(k) \in 0..(CAck - 1)
    BY <1>1, SlotType
  <2>3. ASSUME NEW s \in 0..(CAck - 1)
        PROVE  tsBuf'[s] <= k /\ (s + 2 <= k => tsBuf'[s] > 1)
    <3>1. CASE s = Slot(k)
      BY <1>0, <1>1, <2>1, <2>2, <3>1 DEF TsTypeOK
    <3>2. CASE s # Slot(k)
      <4>1. tsBuf'[s] = tsBuf[s]
        BY <1>0, <1>1, <3>2 DEF TsTypeOK
      <4>2. s + 2 # k
        BY <1>1, <2>1, <3>2, SlotRemainder
      <4>3. s + 2 <= k => s + 2 <= tsSent
        BY <1>1, <4>2
      <4> QED BY <1>0, <1>1, <4>1, <4>3 DEF IInv, BufferInv, TsTypeOK
    <3> QED BY <3>1, <3>2
  <2>4. k = 1 => tsBuf'[0] = 1
    BY <1>0, <1>1, <2>1, <2>2 DEF TsTypeOK
  <2> QED BY <1>1, <2>3, <2>4 DEF BufferInv
<1>5. Packet(k, PieceSize(k)).piece = k
  BY DEF Packet, Data
<1>6. NetInv'
  <2>1. \A d \in S : Sound(d)'
    BY <1>1 DEF Sound, PieceInFlight, Packet, Data
  <2>2. N \in Nat /\ N' = N /\ tgPc' = tgPc
    BY <1>0 DEF TgTypeOK, tgvars, N
  <2>3. tsSent <= tsSent' /\ N <= N'
    BY <1>1, <2>2
  <2> QED BY <1>0, <1>2, <2>1, <2>2, <2>3, NetMonotone DEF IInv
<1>7. ServerInv' /\ FileInv'
  BY <1>1, ClientLeavesServer
<1>8. NoFalseSuccess'
  BY <1>2 DEF NoFalseSuccess
<1> QED BY <1>3, <1>4, <1>6, <1>7, <1>8 DEF IInv

\* Sending the slots again: each holds a piece that has been read, and a piece
\* other than the first may carry the length of the last piece read.
LEMMA ResentSound ==
    ASSUME Setting, IInv, tsPc = "ack", UNCHANGED tsSent, NEW d \in Resent(tsLen)
    PROVE  Sound(d)'
<1>0. TypeInv /\ TsTypeOK /\ TgTypeOK
  BY DEF IInv, TypeInv, TypeOK
<1>1. tsSent \in 1..Chunks /\ Count(tsSent) = tsSent /\ tsLen = PieceSize(tsSent)
  BY <1>0, CountSmall DEF IInv, ClientInv, Setting, Count, TsTypeOK
<1>2. PICK s \in 0..Slot(tsSent) : d = Packet(tsBuf[s], tsLen)
  BY <1>1 DEF Resent
<1>3. Slot(tsSent) \in 0..(CAck - 1)
  BY <1>1, SlotType
<1>4. tsBuf[s] \in 1..tsSent /\ (tsBuf[s] = 1 => tsSent = 1)
  <2>1. CASE tsSent = 1
    <3>1. s = 0 /\ tsBuf[0] = 1
      BY <1>2, <2>1 DEF Slot, IInv, BufferInv
    <3> QED BY <2>1, <3>1
  <2>2. CASE tsSent # 1
    <3>1. s + 2 <= tsSent
      BY <1>1, <1>2, <1>3, <2>2, SlotRemainder DEF Slot
    <3> QED BY <1>0, <1>2, <1>3, <3>1 DEF IInv, BufferInv, TsTypeOK
  <2> QED BY <2>1, <2>2
<1>5. Count(tsBuf[s]) = tsBuf[s]
  BY <1>1, <1>4, CountSmall DEF Count, Setting
<1>6. tsLen = PieceSize(tsBuf[s]) \/ (tsBuf[s] # 1 /\ tsLen = LastSize)
  BY <1>1, <1>4 DEF PieceSize
<1> QED BY <1>2, <1>4, <1>5, <1>6 DEF Sound, PieceInFlight, Packet, Data

\* A failed attempt to receive the ACK.
LEMMA ClientRetryInv ==
    ASSUME Setting, IInv, TypeInv', UNCHANGED tgvars, tsPc = "ack",
           NEW D, TsRetry(D, {}, tsLen)
    PROVE  IInv'
<1>0. TypeInv /\ TsTypeOK /\ TgTypeOK
  BY DEF IInv, TypeInv, TypeOK
<1>1. /\ InFlight' \subseteq InFlight \cup Resent(tsLen)
      /\ tsPc' \in {"aborted", "ack", "returned"}
  BY TsAnswerFlight DEF TsRetry
<1>2. tsSent' = tsSent /\ tsBuf' = tsBuf /\ tsLen' = tsLen /\ tsSent \in Nat
  BY <1>0 DEF TsRetry, TsTypeOK
<1>3. ClientInv' /\ BufferInv'
  BY <1>1, <1>2 DEF IInv, ClientInv, BufferInv, PieceSize
<1>4. NetInv'
  <2>1. N \in Nat /\ N' = N /\ tgPc' = tgPc
    BY <1>0 DEF TgTypeOK, tgvars, N
  <2>2. tsSent <= tsSent' /\ N <= N'
    BY <1>2, <2>1
  <2>3. \A d \in Resent(tsLen) : Sound(d)'
    BY <1>2, ResentSound
  <2> QED BY <1>0, <1>1, <2>1, <2>2, <2>3, NetMonotone DEF IInv
<1>5. ServerInv' /\ FileInv'
  BY <1>2, ClientLeavesServer
<1>6. NoFalseSuccess'
  BY <1>1 DEF NoFalseSuccess
<1> QED BY <1>3, <1>4, <1>5, <1>6 DEF IInv

\* The steps of the client that send nothing: the first wait, an ACK, a foreign
\* datagram.
LEMMA ClientQuietInv ==
    ASSUME Setting, IInv, TypeInv', UNCHANGED <<tgvars, tsSent, tsBuf, tsLen>>,
           InFlight' \subseteq InFlight,
           tsPc' = "first" => tsPc = "first",
           tsPc' = "ack" => tsPc = "ack",
           tsPc' = "done" => NoFalseSuccess'
    PROVE  IInv'
<1>0. TypeInv /\ TsTypeOK /\ TgTypeOK
  BY DEF IInv, TypeInv, TypeOK
<1>1. ClientInv' /\ BufferInv'
  BY DEF IInv, ClientInv, BufferInv, PieceSize
<1>2. NetInv'
  <2>1. N \in Nat /\ N' = N /\ tgPc' = tgPc /\ tsSent \in Nat
    BY <1>0 DEF TgTypeOK, TsTypeOK, tgvars, N
  <2>2. tsSent <= tsSent' /\ N <= N'
    BY <2>1
  <2> DEFINE S == {}
  <2>3. InFlight' \subseteq InFlight \cup S /\ \A d \in S : Sound(d)'
    OBVIOUS
  <2>4. TypeInv /\ NetInv
    BY DEF IInv
  <2> HIDE DEF S
  <2> QED BY <2>1, <2>2, <2>3, <2>4, NetMonotone
<1>3. ServerInv' /\ FileInv'
  BY <1>0, ClientLeavesServer DEF TsTypeOK
<1>4. NoFalseSuccess'
  BY DEF NoFalseSuccess
<1> QED BY <1>1, <1>2, <1>3, <1>4 DEF IInv

\* The ACK of the last piece: the child has stored it, and all before it.
LEMMA LastAck ==
    ASSUME Setting, IInv, NEW d \in InFlight, TsAcked(d),
           PieceSize(tsSent) # DataSize
    PROVE  written = SourceFile
<1>0. TsTypeOK /\ TgTypeOK
  BY DEF IInv, TypeInv, TypeOK
<1>1. tsSent = Chunks
  BY DEF PieceSize
<1>2. d.blk = Chunks
  BY <1>1, CountSmall DEF TsAcked, Acks, Count, Setting
<1>3. Chunks <= N /\ (tgPc = "failed" => Chunks < N)
  BY <1>2, FromServer DEF IInv, TsAcked, TsReceives, Acks
<1>4. N \in Nat /\ N <= Chunks
  BY <1>0, <1>1 DEF IInv, ServerInv, TgTypeOK, N
<1>5. N = Chunks /\ tgPc # "failed" /\ N > 0
  BY <1>3, <1>4
<1>6. ASSUME NEW i \in 1..Chunks
      PROVE  written[i] = [piece |-> i, size |-> PieceSize(i)]
  <2>1. written[i] \in [piece : Nat, size : Nat]
    BY <1>0, <1>5, ElementOfSeq DEF TgTypeOK, N
  <2>2. written[i].piece = i
    BY <1>5 DEF IInv, FileInv
  <2>3. written[i].size = PieceSize(i)
    BY <1>5 DEF IInv, FileInv, PieceSize
  <2> QED BY <2>1, <2>2, <2>3
<1>7. written = [i \in 1..Chunks |-> written[i]]
  BY <1>0, <1>5 DEF TgTypeOK, N
<1> QED BY <1>6, <1>7 DEF SourceFile

\* Every step of the client preserves the invariant.
LEMMA ClientInvStep == Setting /\ IInv /\ ClientStep => IInv'
<1> SUFFICES ASSUME Setting, IInv, ClientStep PROVE IInv'
  OBVIOUS
<1>1. TypeInv' /\ UNCHANGED tgvars
  BY ClientType DEF IInv, ClientStep
<1>2. CASE TsSendPiece
  BY <1>1, <1>2, SendPieceInv
<1>3. CASE TsFirstTimeout
  <2>1. /\ UNCHANGED <<tsSent, tsBuf, tsLen>> /\ tsPc' = "send"
        /\ InFlight' \subseteq InFlight
    BY <1>3 DEF TsFirstTimeout, netvars, InFlight
  <2> QED BY <1>1, <2>1, ClientQuietInv
<1>4. CASE TsTimeout
  BY <1>1, <1>4, ClientRetryInv DEF TsTimeout
<1>5. ASSUME NEW d \in InFlight,
             TsFirst(d) \/ TsFirstForeign(d) \/ TsAcked(d) \/ TsMismatch(d) \/ TsForeign(d)
      PROVE  IInv'
  <2>1. CASE TsFirst(d)
    <3>1. Exchange({d}, {})
      BY <2>1, FromServer DEF IInv, TsFirst, TsReceives, Complaint
    <3>2. InFlight' \subseteq InFlight
      BY <3>1, ExchangeInFlight
    <3> QED BY <1>1, <2>1, <3>2, ClientQuietInv DEF TsFirst
  <2>2. CASE TsFirstForeign(d)
    <3>1. InFlight' \subseteq InFlight
      BY <2>2, ExchangeInFlight DEF TsFirstForeign
    <3> QED BY <1>1, <2>2, <3>1, ClientQuietInv DEF TsFirstForeign
  <2>3. CASE TsAcked(d)
    <3>1. InFlight' \subseteq InFlight
      BY <2>3, ExchangeInFlight DEF TsAcked
    <3>2. tsPc' = "done" => NoFalseSuccess'
      <4>1. tsPc' = "done" => written = SourceFile
        BY <2>3, LastAck DEF TsAcked
      <4> QED BY <1>1, <4>1 DEF NoFalseSuccess, tgvars, SourceFile, PieceSize
    <3> QED BY <1>1, <2>3, <3>1, <3>2, ClientQuietInv DEF TsAcked
  <2>4. CASE TsMismatch(d)
    <3>1. TsRetry({d}, {}, tsLen) /\ tsPc = "ack"
      BY <2>4, FromServer DEF IInv, TsMismatch, TsReceives, Complaint
    <3> QED BY <1>1, <3>1, ClientRetryInv
  <2>5. CASE TsForeign(d)
    <3>1. InFlight' \subseteq InFlight
      BY <2>5, ExchangeInFlight DEF TsForeign
    <3> QED BY <1>1, <2>5, <3>1, ClientQuietInv DEF TsForeign, tsvars
  <2> QED BY <1>5, <2>1, <2>2, <2>3, <2>4, <2>5
<1> QED BY <1>2, <1>3, <1>4, <1>5 DEF ClientStep

\* A step of the child that stores nothing: what it sends must be sound, its
\* ackbuf must name a stored block, and its datasize is settled with the first.
LEMMA ServerKeepsFile ==
    ASSUME IInv, TypeInv', UNCHANGED <<tsvars, written>>,
           NEW S, InFlight' \subseteq InFlight \cup S, \A d \in S : Sound(d)',
           tgPc' \notin {"listen", "failed"}, tgPc # "failed",
           tgPc' = "wait" => tgCount' = (N + 1) % M,
           tgAck' \in {tgAck, NoAck, 0},
           tgPc' = "wait" /\ N > 0 => tgPc = "wait" /\ ~tgFlag' /\ tgSize' = tgSize
    PROVE  IInv'
<1>1. /\ N \in Nat /\ N' = N
      /\ tsSent \in Nat /\ tsSent' = tsSent /\ tsPc' = tsPc
  BY DEF IInv, TypeInv, TypeOK, TgTypeOK, TsTypeOK, tsvars, N
<1>2. ClientInv' /\ BufferInv'
  BY DEF IInv, ClientInv, BufferInv, PieceSize, tsvars
<1>3. NetInv'
  <2>1. tsSent <= tsSent' /\ N <= N'
    BY <1>1
  <2>2. TypeInv /\ NetInv
    BY DEF IInv
  <2> QED BY <2>1, <2>2, NetMonotone
<1>4. ServerInv'
  BY <1>1 DEF IInv, ServerInv
<1>5. FileInv'
  BY <1>1 DEF IInv, FileInv, PieceSize, N
<1>6. NoFalseSuccess'
  BY <1>1 DEF IInv, NoFalseSuccess, SourceFile, PieceSize
<1> QED BY <1>2, <1>3, <1>4, <1>5, <1>6 DEF IInv

\* The top of the loop of tget() for block c.
LEMMA TgNextBlockFlight ==
    ASSUME NEW D, NEW c \in 0..(M - 1), TgNextBlock(D, c)
    PROVE  /\ InFlight' \subseteq InFlight \cup {Ack("child", "client", c)}
           /\ tgPc' \in {"wait", "returned"}
           /\ tgCount' = (c + 1) % M
           /\ tgAck' \in {c, NoAck}
<1>1. CASE AckDue(c)
  <2>1. TgReply(c) = Ack("child", "client", c)
    BY DEF TgReply, NoAck
  <2>2. TgAnswer(D, {TgReply(c)}, "wait")
    BY <1>1 DEF TgNextBlock
  <2> QED BY <1>1, <2>1, <2>2, TgAnswerFlight DEF TgNextBlock
<1>2. CASE ~AckDue(c)
  <2>1. TgAnswer(D, {}, "wait")
    BY <1>2 DEF TgNextBlock
  <2> QED BY <1>2, <2>1, TgAnswerFlight DEF TgNextBlock
<1> QED BY <1>1, <1>2

\* A failed attempt to receive the next block.
LEMMA ServerRetryInv ==
    ASSUME IInv, TypeInv', UNCHANGED tsvars, tgPc = "wait", NEW D, TgRetry(D, {}),
           N > 0 => ~tgFlag' /\ tgSize' = tgSize
    PROVE  IInv'
<1>1. /\ InFlight' \subseteq InFlight \cup {TgReply(tgAck)}
      /\ tgPc' \in {"wait", "aborted", "returned"}
      /\ UNCHANGED <<tgCount, tgAck, written>>
  BY TgAnswerFlight DEF TgRetry
<1>2. Sound(TgReply(tgAck))'
  BY <1>1 DEF IInv, ServerInv, Sound, TgReply, Ack, Control, N
<1>3. tgCount = (N + 1) % M
  BY DEF IInv, ServerInv
<1> QED BY <1>1, <1>2, <1>3, ServerKeepsFile

\* The block the child accepts is the next piece of the client's file.
LEMMA NextPiece ==
    ASSUME Setting, IInv, NEW d \in InFlight, TgReceives(d), Expected(d)
    PROVE  /\ d.piece = N + 1 /\ d.blk = N + 1 /\ tgCount = N + 1
           /\ N + 1 <= tsSent /\ N \in Nat /\ tsSent \in 1..Chunks
           /\ d.size = PieceSize(N + 1) \/ (N > 0 /\ d.size = LastSize)
<1>1. TsTypeOK /\ TgTypeOK
  BY DEF IInv, TypeInv, TypeOK
<1>2. N \in Nat /\ N <= tsSent /\ tsSent \in 0..Chunks /\ tgCount = (N + 1) % M
  BY <1>1 DEF IInv, ServerInv, TgReceives, TgTypeOK, TsTypeOK, N
<1>3. PieceInFlight(d) /\ d.blk = tgCount
  BY FromClient DEF IInv, TgReceives, Expected
<1>4. N + 1 # M
  <2>1. M % M = 0
    OBVIOUS
  <2> QED BY <1>2, <1>3, <2>1 DEF PieceInFlight
<1>5. tgCount = N + 1
  BY <1>2, <1>4, CountSmall DEF Setting
<1> QED BY <1>2, <1>3, <1>5 DEF PieceInFlight

\* A step of the child that adds piece N + 1 of n bytes to the file.
LEMMA ServerStores ==
    ASSUME Setting, IInv, TypeInv', UNCHANGED tsvars, tgPc = "wait",
           NEW n \in Nat, N \in Nat, N + 1 <= tsSent, tsSent \in 1..Chunks,
           written' = Append(written, [piece |-> N + 1, size |-> n]),
           NEW S, InFlight' \subseteq InFlight \cup S,
           \A d \in S : d \in {Ack("child", "client", N + 1)} /\ tgPc' # "failed",
           tgPc' # "failed" => n \in {PieceSize(N + 1), LastSize},
           tgPc' # "listen",
           tgPc' = "wait" => /\ tgCount' = (N + 2) % M
                             /\ ~tgFlag' /\ tgSize' = PieceSize(1)
                             /\ n = PieceSize(N + 1),
           tgAck' = NoAck \/ tgAck' = tgAck \/ (tgAck' = N + 1 /\ tgPc' # "failed")
    PROVE  IInv'
<1>1. /\ TsTypeOK /\ TgTypeOK /\ tsSent' = tsSent /\ tsPc' = tsPc
      /\ written \in Seq([piece : Nat, size : Nat]) /\ Len(written) = N
  BY DEF IInv, TypeInv, TypeOK, TgTypeOK, tsvars, N
<1>2. /\ N' = N + 1
      /\ \A i \in 1..N : written'[i] = written[i]
      /\ written'[N + 1] = [piece |-> N + 1, size |-> n]
  BY <1>1 DEF N
<1>3. ClientInv' /\ BufferInv'
  BY DEF IInv, ClientInv, BufferInv, PieceSize, tsvars
<1>4. NetInv'
  <2>1. \A d \in S : Sound(d)'
    BY <1>2 DEF Sound, Ack, Control
  <2>2. tsSent <= tsSent' /\ N <= N' /\ N < N'
    BY <1>1, <1>2
  <2>3. TypeInv /\ NetInv
    BY DEF IInv
  <2> QED BY <2>1, <2>2, <2>3, NetMonotone
<1>5. ServerInv'
  <2>1. tgAck # NoAck => tgAck \in Nat /\ tgAck <= N
    BY <1>1 DEF IInv, ServerInv, TgTypeOK
  <2>2. (N' + 1) % M = (N + 2) % M
    BY <1>2
  <2> QED BY <1>1, <1>2, <2>1, <2>2 DEF ServerInv
<1>6. FileInv'
  <2>1. \A i \in 1..N : written[i].piece = i /\ written[i].size = PieceSize(i)
    BY DEF IInv, FileInv
  <2>2. \A i \in 1..N' : written'[i].piece = i
    BY <1>2, <2>1
  <2>3. \A i \in 1..(N' - 1) : written'[i].size = PieceSize(i)
    BY <1>2, <2>1
  <2>4. N' = N + 1 /\ N \in Nat
    BY <1>2
  <2>5. written'[N + 1].size = n
    BY <1>1, <1>2
  <2> HIDE DEF N
  <2> QED BY <2>2, <2>3, <2>4, <2>5 DEF FileInv, PieceSize
<1>7. NoFalseSuccess'
  <2>1. DOMAIN written = 1..N /\ DOMAIN SourceFile = 1..Chunks
    BY <1>1 DEF SourceFile
  <2>2. 1..N # 1..Chunks
    BY <1>1
  <2> QED BY <1>1, <2>1, <2>2 DEF IInv, NoFalseSuccess
<1> QED BY <1>3, <1>4, <1>5, <1>6, <1>7 DEF IInv

\* Accepting a block, the last one or not.
LEMMA AcceptInv ==
    ASSUME Setting, IInv, TypeInv', UNCHANGED tsvars, NEW d \in InFlight, TgAccept(d)
    PROVE  IInv'
<1>0. TgTypeOK /\ tgPc = "wait"
  BY DEF IInv, TypeInv, TypeOK, TgAccept, TgReceives
<1>1. /\ d.piece = N + 1 /\ tgCount = N + 1
      /\ N + 1 <= tsSent /\ N \in Nat /\ tsSent \in 1..Chunks
      /\ d.size = PieceSize(N + 1) \/ (N > 0 /\ d.size = LastSize)
  BY NextPiece DEF TgAccept
<1>2. d.size \in Nat
  BY DEF IInv, TypeInv, TypeOK, NetTypeOK, Datagram
<1>3. /\ written' = Append(written, [piece |-> N + 1, size |-> d.size])
      /\ ~tgFlag' /\ tgSize' = Adapted(d)
  BY <1>1 DEF TgAccept, TgStore, TgAdapt
<1>4. CASE d.size = Adapted(d)
  <2>1. tgSize' = PieceSize(1) /\ d.size = PieceSize(N + 1)
    <3>1. CASE N = 0
      BY <1>1, <1>3, <1>4, <3>1
    <3>2. CASE N > 0
      <4>1. Adapted(d) = PieceSize(1)
        BY <1>0, <3>2 DEF IInv, FileInv, Adapted
      <4> QED BY <1>1, <1>3, <1>4, <3>2, <4>1 DEF PieceSize
    <3> QED BY <1>1, <3>1, <3>2
  <2>2. tgCount \in 0..(M - 1) /\ TgNextBlock({d}, tgCount)
    BY <1>0, <1>4 DEF TgAccept, TgTypeOK
  <2>3. /\ InFlight' \subseteq InFlight \cup {Ack("child", "client", N + 1)}
        /\ tgPc' \in {"wait", "returned"}
        /\ tgCount' = (N + 1 + 1) % M
        /\ tgAck' \in {N + 1, NoAck}
    BY <1>1, <2>2, TgNextBlockFlight
  <2>4. N + 1 + 1 = N + 2
    BY <1>1
  <2> QED BY <1>0, <1>1, <1>2, <1>3, <2>1, <2>3, <2>4, ServerStores
<1>5. CASE d.size # Adapted(d)
  <2>1. TgReply(tgCount) = Ack("child", "client", N + 1) /\ tgAck' = N + 1
    BY <1>0, <1>1, <1>5 DEF TgAccept, TgReply, NoAck, TgTypeOK
  <2>2. /\ InFlight' \subseteq InFlight \cup {Ack("child", "client", N + 1)}
        /\ tgPc' \in {"closing", "returned"}
    BY <1>5, <2>1, TgAnswerFlight DEF TgAccept
  <2> QED BY <1>0, <1>1, <1>2, <1>3, <2>1, <2>2, ServerStores
<1> QED BY <1>4, <1>5

\* A full disk cuts the piece, and the child ends without acknowledging it.
LEMMA DiskFullInv ==
    ASSUME Setting, IInv, TypeInv', UNCHANGED tsvars, NEW d \in InFlight, TgDiskFull(d)
    PROVE  IInv'
<1>1. /\ d.piece = N + 1
      /\ N + 1 <= tsSent /\ N \in Nat /\ tsSent \in 1..Chunks
  BY NextPiece DEF TgDiskFull
<1>2. d.size \in Nat
  BY DEF IInv, TypeInv, TypeOK, NetTypeOK, Datagram
<1>3. PICK n \in 0..(d.size - 1) :
         written' = Append(written, [piece |-> N + 1, size |-> n])
  BY <1>1 DEF TgDiskFull, TgStore
<1>4. /\ tgPc = "wait" /\ tgPc' = "failed" /\ tgAck' = tgAck
      /\ InFlight' \subseteq InFlight \cup {}
  BY ExchangeInFlight DEF TgDiskFull, TgReceives
<1> DEFINE S == {}
<1>5. InFlight' \subseteq InFlight \cup S /\ \A m \in S : FALSE
  BY <1>4
<1>6. n \in Nat
  BY <1>2, <1>3
<1> HIDE DEF S
<1> QED BY <1>1, <1>3, <1>4, <1>5, <1>6, ServerStores

\* Every step of the child preserves the invariant.
LEMMA ServerInvStep == Setting /\ IInv /\ ServerStep => IInv'
<1> SUFFICES ASSUME Setting, IInv, ServerStep PROVE IInv'
  OBVIOUS
<1>1. TypeInv' /\ UNCHANGED tsvars /\ TgTypeOK /\ N \in Nat
  BY ServerType DEF IInv, TypeInv, TypeOK, TgTypeOK, ServerStep, N
<1> DEFINE Nothing == {}
<1>2. \A d \in Nothing : Sound(d)'
  OBVIOUS
<1>3. CASE TgClose
  <2>1. /\ UNCHANGED written /\ tgPc = "closing" /\ tgPc' = "done"
        /\ tgAck' = tgAck /\ InFlight' \subseteq InFlight \cup Nothing
    BY <1>3 DEF TgClose, Setting, netvars, InFlight
  <2> HIDE DEF Nothing
  <2> QED BY <1>1, <1>2, <2>1, ServerKeepsFile
<1>4. CASE TgTimeout
  <2>1. tgPc = "wait" /\ TgRetry({}, {}) /\ UNCHANGED <<tgSize, tgFlag>>
    BY <1>4 DEF TgTimeout
  <2>2. N > 0 => ~tgFlag'
    BY <2>1 DEF IInv, FileInv
  <2> QED BY <1>1, <2>1, <2>2, ServerRetryInv
<1>5. ASSUME NEW d \in InFlight,
             TgStart(d) \/ TgRefuse(d) \/ TgAccept(d) \/ TgDiskFull(d)
                \/ TgMismatch(d) \/ TgForeign(d)
      PROVE  IInv'
  <2>1. CASE TgStart(d)
    <3>1. TgNextBlock({d}, 0) /\ tgPc = "listen" /\ UNCHANGED written /\ N = 0
      BY <2>1 DEF TgStart, IInv, ServerInv
    <3> DEFINE S == {Ack("child", "client", 0)}
    <3>2. /\ InFlight' \subseteq InFlight \cup S
          /\ tgPc' \in {"wait", "returned"} /\ tgCount' = (0 + 1) % M
          /\ tgAck' \in {0, NoAck}
      BY <3>1, TgNextBlockFlight
    <3>3. \A m \in S : Sound(m)'
      BY <3>1, <3>2 DEF Sound, Ack, Control, N
    <3>4. tgCount' = (N + 1) % M /\ ~(N > 0)
      BY <3>1, <3>2
    <3> HIDE DEF S
    <3> QED BY <1>1, <3>1, <3>2, <3>3, <3>4, ServerKeepsFile
  <2>2. CASE TgRefuse(d)
    <3> DEFINE S == {Error("child", "client")}
    <3>1. InFlight' \subseteq InFlight \cup S
      <4>1. CASE Exchange({d}, S)
        BY <4>1, ExchangeInFlight
      <4>2. CASE ExchangeFails({d}, S)
        <5>1. PICK T \in SUBSET S : Exchange({d}, T)
          BY <4>2 DEF ExchangeFails
        <5> QED BY <5>1, ExchangeInFlight
      <4> QED BY <2>2, <4>1, <4>2 DEF TgRefuse
    <3>2. \A m \in S : Sound(m)'
      BY DEF Sound, Error
    <3>3. /\ UNCHANGED written /\ tgPc = "listen" /\ tgPc' = "refused"
          /\ tgAck' = tgAck
      BY <2>2 DEF TgRefuse
    <3> HIDE DEF S
    <3> QED BY <1>1, <3>1, <3>2, <3>3, ServerKeepsFile
  <2>3. CASE TgAccept(d)
    BY <1>1, <2>3, AcceptInv
  <2>4. CASE TgDiskFull(d)
    BY <1>1, <2>4, DiskFullInv
  <2>5. CASE TgMismatch(d)
    <3>1. tgPc = "wait" /\ TgRetry({d}, {})
      BY <2>5, FromClient DEF IInv, TgMismatch, TgReceives, Complaint
    <3>2. N > 0 => ~tgFlag' /\ tgSize' = tgSize
      BY <2>5, <3>1 DEF TgMismatch, TgAdapt, Adapted, IInv, FileInv
    <3> QED BY <1>1, <3>1, <3>2, ServerRetryInv
  <2>6. CASE TgForeign(d)
    <3>1. InFlight' \subseteq InFlight \cup Nothing
      BY <2>6, ExchangeInFlight DEF TgForeign
    <3>2. UNCHANGED tgvars /\ tgPc = "wait"
      BY <2>6 DEF TgForeign
    <3>3. tgCount = (N + 1) % M /\ (N > 0 => ~tgFlag)
      BY <3>2 DEF IInv, ServerInv, FileInv
    <3> HIDE DEF Nothing
    <3> QED BY <1>1, <1>2, <3>1, <3>2, <3>3, ServerKeepsFile DEF tgvars
  <2> QED BY <1>5, <2>1, <2>2, <2>3, <2>4, <2>5, <2>6
<1> QED BY <1>3, <1>4, <1>5 DEF ServerStep

\* The network forges nothing.
LEMMA NetInvStep == Setting /\ IInv /\ NetStep => IInv'
<1> SUFFICES ASSUME IInv, NetStep PROVE IInv'
  OBVIOUS
<1>1. TypeInv' /\ UNCHANGED <<tsvars, tgvars>>
  BY NetStepType DEF IInv, NetStep
<1>2. InFlight' \subseteq InFlight
  BY NetworkType DEF NetStep, IInv, TypeInv, TypeOK
<1>3. NetInv'
  BY <1>1, <1>2 DEF IInv, NetInv, Sound, PieceInFlight, PieceSize, N, tsvars, tgvars
<1> QED BY <1>1, <1>3 DEF IInv, ClientInv, BufferInv, ServerInv, FileInv, NoFalseSuccess,
                          SourceFile, PieceSize, N, tsvars, tgvars

\* The invariant of the upload holds in every reachable state.
THEOREM UploadInvariant ==
    ASSUME Setting
    PROVE  Spec => []IInv
<1>1. Init => IInv
  BY InitInv
<1>2. IInv /\ [Next]_vars => IInv'
  <2>1. IInv /\ UNCHANGED vars => IInv'
    <3> SUFFICES ASSUME IInv, UNCHANGED vars PROVE IInv'
      OBVIOUS
    <3>1. TypeInv'
      BY TypeStays DEF IInv
    <3>2. NetInv'
      BY DEF vars, netvars, tsvars, tgvars, IInv, NetInv, Sound, PieceInFlight,
             PieceSize, N, InFlight
    <3> QED BY <3>1, <3>2 DEF vars, tsvars, tgvars, IInv, ClientInv, BufferInv,
                 ServerInv, FileInv, NoFalseSuccess, SourceFile, PieceSize, N
  <2> QED BY <2>1, ClientInvStep, ServerInvStep, NetInvStep DEF Next
<1> QED BY <1>1, <1>2, PTL DEF Spec

\* tget() of tftpd.c stores each piece once, in order, on any network
\* (tftpd.c:463).
THEOREM UploadInOrder ==
    ASSUME Setting
    PROVE  Spec => []InOrder
<1>1. IInv => InOrder
  <2> SUFFICES ASSUME IInv PROVE InOrder
    OBVIOUS
  <2>1. DOMAIN written = 1..N
    BY DEF IInv, TypeInv, TypeOK, TgTypeOK, N
  <2> QED BY <2>1 DEF IInv, FileInv, InOrder
<1> QED BY <1>1, UploadInvariant, PTL

\* tsend() of tftpc.c reports success only for a file that the server has
\* stored whole, on any network and for any two ack frequencies (tftpc.c:565).
THEOREM UploadNoFalseSuccess ==
    ASSUME Setting
    PROVE  Spec => []NoFalseSuccess
<1>1. IInv => NoFalseSuccess
  BY DEF IInv
<1> QED BY <1>1, UploadInvariant, PTL

\* An ACK of the child never runs ahead of fwrite() (tftpd.c:348).
THEOREM UploadAckedIsStored ==
    ASSUME Setting
    PROVE  Spec => []AckedIsStored
<1>1. IInv => AckedIsStored
  BY DEF IInv, NetInv, Sound, AckedIsStored, N, Wrq, Control
<1> QED BY <1>1, UploadInvariant, PTL
================================================================================
