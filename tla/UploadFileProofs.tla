---------------------------- MODULE UploadFileProofs ---------------------------
(***************************************************************************)
(* More theorems about the upload: what the client keeps to send again,    *)
(* and, when it sends one piece at a time, that the server has the whole   *)
(* file when it says so and that the upload implements FileTransfer; on a  *)
(* network in time, also for files whose block numbers wrap.               *)
(***************************************************************************)
EXTENDS UploadProofs

USE TftpAssumption, TftpcSendAssumption

--------------------------------------------------------------------------------
(* The window.                                                                 *)

LEMMA Remainder == \A n \in Nat : n % CAck \in 0..(CAck - 1)
  BY DivMod

\* The file on the server never shrinks.
LEMMA FileGrows ==
    ASSUME Setting, IInv, [Next]_vars
    PROVE  N <= N' /\ N \in Nat /\ N' \in Nat
<1>1. written \in Seq([piece : Nat, size : Nat]) /\ N \in Nat
  BY DEF IInv, TypeInv, TypeOK, TgTypeOK, N
<1>2. CASE UNCHANGED written
  BY <1>1, <1>2 DEF N
<1>3. CASE ServerStep
  <2>1. CASE TgClose
    BY <1>1, <1>2, <2>1 DEF TgClose, Setting
  <2>2. CASE Expired /\ TgTimeout
    BY <1>2, <2>2 DEF TgTimeout, TgRetry
  <2>3. ASSUME NEW d \in InFlight,
               TgStart(d) \/ TgRefuse(d) \/ TgMismatch(d) \/ TgForeign(d)
        PROVE  N <= N' /\ N \in Nat /\ N' \in Nat
    BY <1>2, <2>3 DEF TgStart, TgRefuse, TgMismatch, TgRetry, TgForeign, tgvars
  <2>4. ASSUME NEW d \in InFlight, TgAccept(d) \/ TgDiskFull(d)
        PROVE  N <= N' /\ N \in Nat /\ N' \in Nat
    <3>1. \E x : written' = Append(written, x)
      BY <2>4 DEF TgAccept, TgDiskFull, TgStore
    <3> QED BY <1>1, <3>1 DEF N
  <2> QED BY <1>3, <2>1, <2>2, <2>3, <2>4 DEF ServerStep
<1>4. CASE ClientStep \/ NetStep \/ UNCHANGED vars
  BY <1>2, <1>4 DEF ClientStep, NetStep, vars, tgvars
<1> QED BY <1>3, <1>4 DEF Next

\* Two pieces of one window go to different slots, but for the first two of the
\* file.
LEMMA SlotsDiffer ==
    ASSUME NEW j \in Nat, NEW k \in Nat, 2 <= j, j < k, k < j + CAck,
           Slot(j) = Slot(k)
    PROVE  FALSE
<1>1. PICK p \in Nat : /\ (j - 2) % CAck \in 0..(CAck - 1)
                         /\ j - 2 = CAck * p + ((j - 2) % CAck)
  <2>1. PICK n \in Nat : n = j - 2
    OBVIOUS
  <2>2. n \div CAck \in Nat /\ n % CAck \in 0..(CAck - 1) /\ n = CAck * (n \div CAck) + (n % CAck)
    BY DivMod
  <2> QED BY <2>1, <2>2
<1>2. PICK q \in Nat : /\ (k - 2) % CAck \in 0..(CAck - 1)
                         /\ k - 2 = CAck * q + ((k - 2) % CAck)
  <2>1. PICK n \in Nat : n = k - 2
    OBVIOUS
  <2>2. n \div CAck \in Nat /\ n % CAck \in 0..(CAck - 1) /\ n = CAck * (n \div CAck) + (n % CAck)
    BY DivMod
  <2> QED BY <2>1, <2>2
<1>3. CASE j = 2
  <2>1. (k - 2) % CAck = k - 2
    BY <1>3, SlotRemainder
  <2>2. Slot(j) = 0 /\ Slot(k) = k - 2
    BY <1>3, <2>1 DEF Slot
  <2> QED BY <1>3, <2>2
<1>4. CASE j > 2
  <2>1. (j - 2) % CAck = (k - 2) % CAck
    BY <1>4 DEF Slot
  <2>2. CAck * (q - p) = k - j
    BY <1>1, <1>2, <2>1
  <2>3. q - p < 1
    <3>1. q - p >= 1 => CAck * (q - p) >= CAck
      BY <1>1, <1>2
    <3> QED BY <1>1, <1>2, <2>2, <3>1
  <2>4. CAck * (q - p) <= 0
    BY <1>1, <1>2, <2>3
  <2> QED BY <2>2, <2>4
<1> QED BY <1>3, <1>4

\* A step of the client moves its window only over what it sends, and only after
\* the ACK of everything before; the piece it sends takes the slot of one that has
\* left the window, or of the first piece of the file.
LEMMA ClientWindow ==
    ASSUME Setting, IInv, WindowInv, ClientStep
    PROVE  WindowInv'
<1>0. TsTypeOK /\ N \in Nat /\ N' = N /\ tsSent \in Nat
  BY DEF IInv, TypeInv, TypeOK, TsTypeOK, TgTypeOK, ClientStep, tgvars, N
<1> DEFINE Bound == /\ tsPc = "send" => tsSent - (tsSent % CAck) <= N
                    /\ tsSent <= N + CAck
           Kept == \A k \in 1..tsSent :
                      k + CAck > tsSent => tsBuf[Slot(Count(k))] = k \/ (k = 1 /\ tsSent > 1)
<1>a. Bound /\ Kept
  BY DEF WindowInv
<1>b. SUFFICES Bound' /\ Kept'
  BY DEF WindowInv
<1> USE DEF N
<1>1. CASE TsSendPiece
  <2> DEFINE k == tsSent + 1
  <2>1. /\ tsPc = "send" /\ tsSent' = k /\ k \in 1..Chunks /\ Count(k) = k
        /\ tsBuf' = [tsBuf EXCEPT ![Slot(k)] = k]
    <3>1. tsPc = "send" /\ tsSent' = k /\ tsBuf' = [tsBuf EXCEPT ![Slot(Count(k))] = k]
      BY <1>1 DEF TsSendPiece
    <3>2. k \in 1..Chunks /\ Count(k) = k
      BY <1>0, <3>1, CountSmall DEF Setting, Count, TsTypeOK, IInv, TypeInv
    <3> QED BY <3>1, <3>2
  <2>2. tsSent % CAck \in 0..(CAck - 1)
    BY <1>0, Remainder
  <2>3. k <= N + CAck
    BY <1>0, <1>a, <2>1, <2>2
  <2>4. Bound'
    <3>1. CASE WaitsForAck(k)
      <4>1. tsPc' \in {"ack", "returned"}
        BY <1>1, <3>1, TsAnswerFlight DEF TsSendPiece
      <4> QED BY <1>0, <2>1, <2>3, <4>1
    <3>2. CASE ~WaitsForAck(k)
      <4>1. k % CAck = (tsSent % CAck) + 1
        BY <1>0, <2>1, <3>2, RemainderNext DEF WaitsForAck
      <4>2. k - (k % CAck) <= N
        BY <1>0, <1>a, <2>1, <2>2, <4>1
      <4> QED BY <1>0, <2>1, <2>3, <4>2
    <3> QED BY <3>1, <3>2
  <2>5. Kept'
    <3>1. SUFFICES ASSUME NEW j \in 1..k, j + CAck > k
                   PROVE  tsBuf'[Slot(j)] = j \/ (j = 1 /\ k > 1)
      <4>1. \A j \in 1..k : Count(j) = j
        BY <2>1, CountSmall DEF Count, Setting
      <4>2. tsSent' = k
        BY <2>1
      <4> HIDE DEF k
      <4> QED BY <3>1, <4>1, <4>2 DEF Count
    <3>2. Slot(j) \in 0..(CAck - 1) /\ DOMAIN tsBuf = 0..(CAck - 1)
      <4>1. j \in Nat
        BY <1>0
      <4>2. tsBuf \in [0..(CAck - 1) -> 0..Chunks]
        BY <1>0 DEF TsTypeOK
      <4> QED BY <4>1, <4>2, SlotType
    <3>3. CASE j = k
      BY <2>1, <3>2, <3>3
    <3>4. CASE 2 <= j /\ j < k
      <4>1. tsBuf[Slot(j)] = j
        <5>1. Count(j) = j
          BY <2>1, CountSmall DEF Count, Setting
        <5> QED BY <1>0, <1>a, <3>1, <3>4, <5>1
      <4>2. Slot(j) # Slot(k)
        BY <1>0, <3>1, <3>4, SlotsDiffer
      <4> QED BY <2>1, <3>2, <4>1, <4>2
    <3> QED BY <1>0, <3>3, <3>4
  <2> QED BY <2>4, <2>5
<1>2. ASSUME NEW d \in InFlight, TsAcked(d) PROVE Bound' /\ Kept'
  <2>1. d.blk <= N /\ d.blk = Count(tsSent) /\ UNCHANGED <<tsSent, tsBuf>> /\ tsSent \in 1..Chunks
    BY <1>0, <1>2, FromServer
       DEF TsAcked, TsReceives, Acks, IInv, ClientInv, TsTypeOK, N
  <2>2. tsSent <= N
    BY <1>0, <2>1, CountSmall DEF Count, Setting
  <2>3. tsSent % CAck \in 0..(CAck - 1)
    BY <1>0, Remainder
  <2> QED BY <1>0, <1>a, <2>1, <2>2, <2>3
<1>3. CASE UNCHANGED <<tsSent, tsBuf>> /\ (tsPc' = "send" => tsPc = "send" \/ tsSent = 0)
  <2>1. tsSent % CAck \in 0..(CAck - 1) /\ 0 % CAck \in 0..(CAck - 1)
    BY <1>0, Remainder
  <2> QED BY <1>0, <1>3, <1>a, <2>1
<1>4. ASSUME NEW D, NEW S, NEW n, TsRetry(D, S, n) PROVE Bound' /\ Kept'
  <2>1. tsPc' \in {"ack", "aborted", "returned"} /\ UNCHANGED <<tsSent, tsBuf>>
    BY <1>4, TsAnswerFlight DEF TsRetry
  <2> QED BY <1>3, <2>1
<1>5. CASE Expired /\ (TsFirstTimeout \/ TsTimeout)
  BY <1>3, <1>4, <1>5 DEF TsFirstTimeout, TsTimeout, IInv, ClientInv
<1>6. ASSUME NEW d \in InFlight,
             TsFirst(d) \/ TsFirstForeign(d) \/ TsMismatch(d) \/ TsForeign(d)
      PROVE  Bound' /\ Kept'
  BY <1>3, <1>4, <1>6
     DEF TsFirst, TsFirstForeign, TsMismatch, TsForeign, tsvars, IInv, ClientInv
<1> QED BY <1>1, <1>2, <1>5, <1>6 DEF ClientStep

LEMMA WindowInvariant ==
    ASSUME Setting
    PROVE  Spec => []WindowInv
<1>1. Init => WindowInv
  BY Remainder DEF Init, TsInit, TgInit, WindowInv, N
<1>2. IInv /\ WindowInv /\ [Next]_vars => WindowInv'
  <2> SUFFICES ASSUME IInv, WindowInv, [Next]_vars PROVE WindowInv'
    OBVIOUS
  <2>1. CASE ClientStep
    BY <2>1, ClientWindow
  <2>2. CASE UNCHANGED tsvars
    <3>1. N <= N' /\ N \in Nat /\ N' \in Nat /\ tsSent \in Nat
      BY FileGrows DEF IInv, TypeInv, TypeOK, TsTypeOK
    <3>2. (tsSent % CAck) \in 0..(CAck - 1)
      BY <3>1, Remainder
    <3>3. UNCHANGED <<tsPc, tsSent, tsBuf>>
      BY <2>2 DEF tsvars
    <3>4. /\ tsPc = "send" => tsSent - (tsSent % CAck) <= N
          /\ tsSent <= N + CAck
      BY DEF WindowInv
    <3>5. tsSent' <= N' + CAck
      <4> DEFINE m == N
                 n == N'
      <4>1. m <= n /\ m \in Nat /\ n \in Nat /\ tsSent <= m + CAck
        BY <3>1, <3>4
      <4> HIDE DEF m, n
      <4>2. tsSent <= n + CAck
        BY <3>1, <4>1
      <4> QED BY <3>3, <4>2 DEF n
    <3>6. tsPc' = "send" => tsSent' - (tsSent' % CAck) <= N'
      BY <3>1, <3>2, <3>3, <3>4
    <3> QED BY <3>3, <3>5, <3>6 DEF WindowInv, Count, Slot
  <2> QED BY <2>1, <2>2 DEF Next, ServerStep, NetStep, vars
<1> QED BY <1>1, <1>2, UploadInvariant, PTL DEF Spec

\* A piece sent and not yet stored by the server is in packetbuf[], for any ack
\* frequencies and networks, but for the first piece of the file once the second
\* has taken its slot (tftpc.c:428).
THEOREM UploadMissingIsKept ==
    ASSUME Setting
    PROVE  Spec => []MissingIsKept
<1>1. IInv /\ WindowInv => MissingIsKept
  BY DEF IInv, TypeInv, TypeOK, TsTypeOK, TgTypeOK, WindowInv, MissingIsKept, N
<1> QED BY <1>1, UploadInvariant, WindowInvariant, PTL

--------------------------------------------------------------------------------
(* One piece at a time.                                                        *)

\* The next piece is stored whole, and the transfer is over only with the last.
LEMMA AcceptsNextPiece ==
    ASSUME Setting, OneAtATime, IInv, WholeInv, NEW d \in InFlight, TgAccept(d)
    PROVE  /\ N \in Nat /\ N < Chunks
           /\ written' = Append(written, SourceFile[N + 1])
           /\ tgPc = "wait" /\ tgPc' \in {"wait", "closing", "returned"}
           /\ tgPc' = "closing" => N + 1 = Chunks
<1>1. /\ d.piece = N + 1 /\ d.blk = N + 1 /\ tgCount = N + 1
      /\ N + 1 <= tsSent /\ N \in Nat /\ tsSent \in 1..Chunks
  BY NextPiece DEF TgAccept
<1>2. d.src = "client" /\ d.op = "DATA" /\ tgPc = "wait"
  BY DEF TgAccept, TgReceives, Expected, FromHost, Host, IInv, NetInv, Sound, Wrq, Control
<1>3. d.size = PieceSize(N + 1)
  BY <1>1, <1>2 DEF WholeInv
<1>4. written' = Append(written, SourceFile[N + 1])
  BY <1>1, <1>3 DEF TgAccept, TgStore, SourceFile
<1>5. CASE d.size = Adapted(d)
  <2>1. TgNextBlock({d}, tgCount) /\ tgCount \in 0..(M - 1)
    BY <1>5 DEF TgAccept, IInv, TypeInv, TypeOK, TgTypeOK
  <2>2. tgPc' \in {"wait", "returned"}
    BY <2>1, TgNextBlockFlight
  <2> QED BY <1>1, <1>2, <1>4, <2>2
<1>6. CASE d.size # Adapted(d)
  <2>1. tgPc' \in {"closing", "returned"}
    BY <1>6, TgAnswerFlight DEF TgAccept
  <2>2. N + 1 = Chunks
    <3>1. CASE N = 0
      BY <1>1, <1>2, <1>3, <1>6, <3>1 DEF WholeInv, OneAtATime, Adapted, PieceSize
    <3>2. CASE N > 0
      BY <1>1, <1>2, <1>3, <1>6, <3>2 DEF IInv, FileInv, Adapted, PieceSize
    <3> QED BY <1>1, <3>1, <3>2
  <2> QED BY <1>1, <1>2, <1>4, <2>1, <2>2
<1> QED BY <1>5, <1>6

\* What has been stored when the last piece comes is the file.
LEMMA LastPieceMakesFile ==
    ASSUME IInv, tgPc = "wait", N \in Nat, N + 1 = Chunks,
           written' = Append(written, SourceFile[N + 1])
    PROVE  written' = SourceFile
<1>1. written \in Seq([piece : Nat, size : Nat])
  BY DEF IInv, TypeInv, TypeOK, TgTypeOK
<1>2. \A i \in 1..N : written[i] = SourceFile[i]
  <2> SUFFICES ASSUME NEW i \in 1..N PROVE written[i] = SourceFile[i]
    OBVIOUS
  <2>1. written[i] \in [piece : Nat, size : Nat]
    BY <1>1, ElementOfSeq DEF N
  <2>2. written[i].piece = i /\ written[i].size = PieceSize(i)
    BY DEF IInv, FileInv
  <2> QED BY <2>1, <2>2 DEF SourceFile
<1>3. DOMAIN SourceFile = 1..Chunks /\ DOMAIN written' = 1..Chunks
  BY <1>1 DEF SourceFile, N
<1>4. \A i \in 1..Chunks : written'[i] = SourceFile[i]
  BY <1>1, <1>2 DEF N
<1>5. SourceFile = [i \in 1..Chunks |-> SourceFile[i]]
  BY DEF SourceFile
<1>6. written' = [i \in 1..Chunks |-> written'[i]]
  BY <1>1, <1>3
<1> QED BY <1>4, <1>5, <1>6

\* What the client puts in flight has its own length.
LEMMA OwnLengths ==
    ASSUME NEW S, InFlight' \subseteq InFlight \cup S, WholeInv,
           \A d \in S : d.src = "client" /\ d.op = "DATA" => d.size = PieceSize(d.piece)
    PROVE  \A d \in InFlight' :
              d.src = "client" /\ d.op = "DATA" => d.size = PieceSize(d.piece)
  BY DEF WholeInv

LEMMA ClientWhole ==
    ASSUME Setting, OneAtATime, IInv, WholeInv, ClientStep
    PROVE  WholeInv'
<1>0. TsTypeOK /\ UNCHANGED tgvars /\ tsBuf \in [{0} -> 0..Chunks]
  <2>1. 0..(CAck - 1) = {0}
    BY DEF OneAtATime
  <2> QED BY <2>1 DEF IInv, TypeInv, TypeOK, TsTypeOK, ClientStep
<1>1. SUFFICES /\ tsBuf'[0] = tsSent'
               /\ \A d \in InFlight' :
                     d.src = "client" /\ d.op = "DATA" => d.size = PieceSize(d.piece)
  BY <1>0 DEF WholeInv, tgvars, SourceFile, PieceSize, N
<1> DEFINE Own(S) == /\ InFlight' \subseteq InFlight \cup S
                     /\ \A d \in S : d.src = "client" /\ d.op = "DATA"
                                        => d.size = PieceSize(d.piece)
<1>2. SUFFICES tsBuf'[0] = tsSent' /\ \E S : Own(S)
  BY OwnLengths
<1>3. Slot(Count(tsSent)) = 0 /\ Slot(Count(tsSent + 1)) = 0
  <2>1. tsSent \in Nat /\ tsSent + 1 \in Nat
    BY <1>0 DEF TsTypeOK
  <2>2. Count(tsSent) \in Nat /\ Count(tsSent + 1) \in Nat
    BY <2>1, CountType DEF Count
  <2> QED BY <2>2, SlotType DEF OneAtATime
<1>4. CASE TsSendPiece
  <2> DEFINE k == tsSent + 1
             S == {Packet(k, PieceSize(k))}
  <2>1. InFlight' \subseteq InFlight \cup S
    BY <1>4, TsAnswerFlight DEF TsSendPiece
  <2>2. \A d \in S : d.size = PieceSize(d.piece)
    BY DEF Packet, Data
  <2>3. tsBuf'[0] = k /\ tsSent' = k
    BY <1>0, <1>3, <1>4 DEF TsSendPiece
  <2> QED BY <2>1, <2>2, <2>3
<1>5. ASSUME NEW D, TsRetry(D, {}, tsLen), tsPc = "ack"
      PROVE  tsBuf'[0] = tsSent' /\ \E S : Own(S)
  <2>1. InFlight' \subseteq InFlight \cup Resent(tsLen)
    BY <1>5, TsAnswerFlight DEF TsRetry
  <2>2. UNCHANGED <<tsBuf, tsSent>> /\ tsLen = PieceSize(tsSent)
    BY <1>5 DEF TsRetry, IInv, ClientInv
  <2>3. Resent(tsLen) = {Packet(tsSent, tsLen)}
    BY <1>3 DEF Resent, WholeInv
  <2>4. \A d \in Resent(tsLen) : d.size = PieceSize(d.piece)
    BY <2>2, <2>3 DEF Packet, Data
  <2> QED BY <2>1, <2>2, <2>4 DEF WholeInv
<1>6. ASSUME InFlight' \subseteq InFlight, UNCHANGED <<tsBuf, tsSent>>
      PROVE  tsBuf'[0] = tsSent' /\ \E S : Own(S)
  <2>1. Own({})
    BY <1>6
  <2> QED BY <1>6, <2>1 DEF WholeInv
<1>7. CASE TsFirstTimeout
  BY <1>6, <1>7 DEF TsFirstTimeout, netvars, InFlight
<1>8. CASE TsTimeout
  BY <1>5, <1>8 DEF TsTimeout
<1>9. ASSUME NEW d \in InFlight,
             TsFirst(d) \/ TsFirstForeign(d) \/ TsAcked(d) \/ TsForeign(d)
      PROVE  tsBuf'[0] = tsSent' /\ \E S : Own(S)
  <2>1. Exchange({d}, {}) /\ UNCHANGED <<tsBuf, tsSent>>
    BY <1>9, FromServer
       DEF TsFirst, TsFirstForeign, TsAcked, TsForeign, TsReceives, Complaint, IInv, tsvars
  <2>2. InFlight' \subseteq InFlight
    BY <2>1, ExchangeInFlight
  <2> QED BY <1>6, <2>1, <2>2
<1>10. ASSUME NEW d \in InFlight, TsMismatch(d)
       PROVE  tsBuf'[0] = tsSent' /\ \E S : Own(S)
  <2>1. d.op # "BAD" /\ tsPc = "ack"
    BY <1>10, FromServer DEF TsMismatch, TsReceives, IInv
  <2>2. TsRetry({d}, {}, tsLen)
    BY <1>10, <2>1 DEF TsMismatch, Complaint
  <2> QED BY <1>5, <2>1, <2>2
<1> QED BY <1>4, <1>7, <1>8, <1>9, <1>10 DEF ClientStep

\* What the server puts in flight is not the client's.
LEMMA ReplyIsOwn ==
    /\ \A b : TgReply(b).src = "child"
    /\ Error("child", "client").src = "child"
  BY DEF TgReply, Ack, Control, Error

\* A step of the server sends nothing under the client's name.
LEMMA ServerSends ==
    ASSUME IInv, ServerStep
    PROVE  \A d \in InFlight' : d.src = "client" => d \in InFlight
<1> DEFINE Goal == \A d \in InFlight' : d.src = "client" => d \in InFlight
<1>1. ASSUME NEW D, NEW S, Exchange(D, S) \/ ExchangeFails(D, S),
             \A d \in S : d.src = "child"
      PROVE  Goal
  <2>1. InFlight' \subseteq InFlight \cup S
    BY <1>1, ExchangeInFlight DEF ExchangeFails
  <2> QED BY <1>1, <2>1
<1>2. ASSUME NEW D, NEW S, NEW pc, TgAnswer(D, S, pc), \A d \in S : d.src = "child"
      PROVE  Goal
  BY <1>1, <1>2 DEF TgAnswer
<1>3. ASSUME NEW D, NEW c, TgNextBlock(D, c) PROVE Goal
  BY <1>2, <1>3, ReplyIsOwn DEF TgNextBlock
<1>4. ASSUME NEW D, TgRetry(D, {}) PROVE Goal
  BY <1>2, <1>4, ReplyIsOwn DEF TgRetry
<1>5. CASE TgClose
  BY <1>5 DEF TgClose, netvars, InFlight
<1>6. CASE TgTimeout
  BY <1>4, <1>6 DEF TgTimeout
<1>7. ASSUME NEW d \in InFlight, TgStart(d) \/ TgRefuse(d) PROVE Goal
  BY <1>1, <1>3, <1>7, ReplyIsOwn DEF TgStart, TgRefuse
<1>8. ASSUME NEW d \in InFlight, TgAccept(d) \/ TgDiskFull(d) \/ TgForeign(d) PROVE Goal
  BY <1>1, <1>2, <1>3, <1>8, ReplyIsOwn DEF TgAccept, TgDiskFull, TgForeign
<1>9. ASSUME NEW d \in InFlight, TgMismatch(d) PROVE Goal
  <2>1. Complaint("child", "client", d) = {}
    BY <1>9, FromClient DEF TgMismatch, TgReceives, Complaint, IInv
  <2> QED BY <1>4, <1>9, <2>1 DEF TgMismatch
<1> QED BY <1>5, <1>6, <1>7, <1>8, <1>9 DEF ServerStep

\* The first packet that the server gets is the first piece: the client sends no
\* other before the server has stored it.
LEMMA FirstPacketFits ==
    ASSUME Setting, OneAtATime, IInv, WindowInv, NEW d \in InFlight, TgMismatch(d)
    PROVE  N > 0
<1>1. N \in Nat /\ tsSent \in Nat /\ tgPc = "wait" /\ tgCount = (N + 1) % M
  BY DEF TgMismatch, TgReceives, IInv, TypeInv, TypeOK, TsTypeOK, TgTypeOK, ServerInv, N
<1>2. d.op = "DATA" /\ PieceInFlight(d)
  BY FromClient DEF TgMismatch, TgReceives, FromHost, Host, IInv, NetInv, Sound,
                    Wrq, Control
<1>3. CASE N = 0
  <2>1. tsSent <= 1
    BY <1>3 DEF WindowInv, OneAtATime, N
  <2>2. d.blk = 1
    BY <1>1, <1>2, <2>1 DEF PieceInFlight
  <2>3. tgCount = 1
    BY <1>1, <1>3, CountSmall
  <2> QED BY <1>2, <2>2, <2>3 DEF TgMismatch, Expected
<1> QED BY <1>1, <1>3

LEMMA ServerWhole ==
    ASSUME Setting, OneAtATime, IInv, WindowInv, WholeInv, ServerStep
    PROVE  WholeInv'
<1>0. UNCHANGED tsvars /\ SourceFile' = SourceFile
  BY DEF ServerStep, SourceFile, PieceSize
<1> DEFINE First == tgPc \in {"listen", "wait"} /\ N = 0 => tgFlag /\ tgSize = SrvSize
           Last == tgPc \in {"closing", "done"} => written = SourceFile
<1>1. SUFFICES First' /\ Last'
  BY <1>0, ServerSends DEF WholeInv, tsvars, PieceSize
<1>2. CASE TgClose
  BY <1>0, <1>2 DEF TgClose, Setting, WholeInv
<1>3. CASE TgTimeout
  <2>1. tgPc = "wait" /\ UNCHANGED <<written, tgFlag, tgSize>>
    BY <1>3 DEF TgTimeout, TgRetry
  <2>2. tgPc' \in {"wait", "aborted", "returned"}
    BY <1>3, TgAnswerFlight DEF TgTimeout, TgRetry
  <2> QED BY <2>1, <2>2 DEF WholeInv, N
<1>4. ASSUME NEW d \in InFlight, TgStart(d) PROVE First' /\ Last'
  <2>1. tgPc = "listen" /\ UNCHANGED <<written, tgFlag, tgSize>> /\ TgNextBlock({d}, 0)
    BY <1>4 DEF TgStart
  <2>2. tgPc' \in {"wait", "returned"}
    BY <2>1, TgNextBlockFlight
  <2> QED BY <2>1, <2>2 DEF WholeInv, N
<1>5. ASSUME NEW d \in InFlight, TgAccept(d) PROVE First' /\ Last'
  <2>1. /\ N \in Nat /\ written' = Append(written, SourceFile[N + 1]) /\ tgPc = "wait"
        /\ tgPc' \in {"wait", "closing", "returned"}
        /\ tgPc' = "closing" => N + 1 = Chunks
    BY <1>5, AcceptsNextPiece
  <2>2. N' # 0
    BY <2>1 DEF IInv, TypeInv, TypeOK, TgTypeOK, N
  <2>3. tgPc' = "closing" => written' = SourceFile
    BY <2>1, LastPieceMakesFile
  <2> QED BY <1>0, <2>1, <2>2, <2>3
<1>6. ASSUME NEW d \in InFlight, TgMismatch(d) PROVE First' /\ Last'
  <2>1. N > 0 /\ UNCHANGED written
    BY <1>6, FirstPacketFits DEF TgMismatch, TgRetry
  <2>2. tgPc' \in {"wait", "aborted", "returned"}
    BY <1>6, TgAnswerFlight DEF TgMismatch, TgRetry
  <2> QED BY <2>1, <2>2 DEF N
<1>7. ASSUME NEW d \in InFlight, TgRefuse(d) \/ TgDiskFull(d) PROVE First' /\ Last'
  BY <1>7 DEF TgRefuse, TgDiskFull
<1>8. ASSUME NEW d \in InFlight, TgForeign(d) PROVE First' /\ Last'
  BY <1>0, <1>8 DEF TgForeign, tgvars, WholeInv, N
<1> QED BY <1>2, <1>3, <1>4, <1>5, <1>6, <1>7, <1>8 DEF ServerStep

LEMMA NetWhole ==
    ASSUME IInv, WholeInv, NetStep \/ UNCHANGED vars
    PROVE  WholeInv'
<1>1. UNCHANGED <<tsvars, tgvars>> /\ InFlight' \subseteq InFlight
  BY NetworkType DEF NetStep, vars, netvars, InFlight, IInv, TypeInv, TypeOK
<1> QED BY <1>1 DEF WholeInv, tsvars, tgvars, SourceFile, PieceSize, N

\* All three invariants together hold in every reachable state.
LEMMA WholeInvariant ==
    ASSUME Setting, OneAtATime
    PROVE  Spec => [](IInv /\ WindowInv /\ WholeInv)
<1> DEFINE All == IInv /\ WindowInv /\ WholeInv
<1>1. Init => WholeInv
  <2> SUFFICES ASSUME Init PROVE WholeInv
    OBVIOUS
  <2>1. InFlight = {Wrq} \cup Stray
    BY DEF Init, NetInit, InFlight, BagToSet, SetToBag
  <2>2. \A d \in InFlight : d.src = "client" => d.op # "DATA"
    BY <2>1 DEF Wrq, Control, Setting
  <2>3. tsBuf[0] = tsSent
    BY DEF Init, TsInit
  <2> QED BY <2>2, <2>3 DEF Init, TgInit, WholeInv
<1>2. IInv /\ WindowInv /\ WholeInv /\ [Next]_vars => WholeInv'
  BY ClientWhole, ServerWhole, NetWhole DEF Next
<1> QED BY <1>1, <1>2, UploadInvariant, WindowInvariant, PTL DEF Spec

\* With one piece at a time, and datasizes the server can tell the last block by,
\* "File received successfully" (tftpd.c:523) is true: the file that has been
\* closed is the client's file.
THEOREM UploadServerHasFile ==
    ASSUME Setting, OneAtATime
    PROVE  Spec => []ServerHasFile
<1>1. IInv /\ WindowInv /\ WholeInv => ServerHasFile
  BY DEF WholeInv, ServerHasFile
<1> QED BY <1>1, WholeInvariant, PTL

--------------------------------------------------------------------------------
(* The upload implements FileTransfer.                                         *)

\* The client ends once, and with success only when the server has the file.
LEMMA ClientTransfers ==
    ASSUME NoFalseSuccess', ClientStep
    PROVE  [Transfer!SenderEnds]_(Transfer!ftvars)
<1>1. UNCHANGED tgvars /\ tsPc \notin TsEnded
  BY DEF ClientStep, TsSendPiece, TsFirstTimeout, TsTimeout, TsFirst, TsFirstForeign,
         TsAcked, TsMismatch, TsForeign, TsEnded
<1>2. UNCHANGED <<written, tgPc>>
  BY <1>1 DEF tgvars
<1>3. tsPc' = "done" => written = SourceFile
  BY <1>2 DEF NoFalseSuccess, SourceFile, PieceSize
<1>4. CASE tsPc' \in TsEnded
  BY <1>1, <1>2, <1>3, <1>4 DEF Transfer!SenderEnds, TsEnded
<1>5. CASE tsPc' \notin TsEnded
  BY <1>1, <1>2, <1>5 DEF Transfer!ftvars, TsEnded
<1> QED BY <1>4, <1>5

\* A block that the server takes is the next piece of the file.
NextTaken ==
    \A d \in InFlight : TgAccept(d) =>
       N \in Nat /\ N < Chunks /\ written' = Append(written, SourceFile[N + 1])

LEMMA AcceptTransfers ==
    ASSUME Faults \subseteq {"open"}, NextTaken,
           NEW d \in InFlight, TgAccept(d), UNCHANGED tsvars
    PROVE  Transfer!Store
<1>1. /\ N \in Nat /\ N < Chunks
      /\ written' = Append(written, SourceFile[N + 1])
      /\ tgPc = "wait"
  BY DEF NextTaken, TgAccept, TgReceives
<1>2. \A D, S, pc : TgAnswer(D, S, pc) => tgPc' = pc
  BY DEF TgAnswer, ExchangeFails
<1>3. tgPc' \in {"wait", "closing"}
  BY <1>2 DEF TgAccept, TgNextBlock
<1>4. Len(SourceFile) = Chunks
  BY DEF SourceFile
<1> QED BY <1>1, <1>3, <1>4 DEF Transfer!Store, TgEnded, tsvars, N

\* The server ends once, and with success only when it has the file.
LEMMA ServerTransfers ==
    ASSUME Faults \subseteq {"open"}, ServerStep, NextTaken,
           tgPc = "closing" => written = SourceFile
    PROVE  [Transfer!Store \/ Transfer!ReceiverEnds]_(Transfer!ftvars)
<1>1. UNCHANGED tsPc /\ tgPc \notin TgEnded
  BY DEF ServerStep, tsvars, TgClose, TgTimeout, TgStart, TgRefuse, TgAccept, TgDiskFull,
         TgMismatch, TgForeign, TgReceives, TgEnded
<1>2. ASSUME NEW d \in InFlight, TgAccept(d)
      PROVE  Transfer!Store
  BY <1>2, AcceptTransfers DEF ServerStep
<1>3. ASSUME UNCHANGED written,
             tgPc' \in {"listen", "wait", "closing"} \cup (TgEnded \ {"done"})
      PROVE  [Transfer!ReceiverEnds]_(Transfer!ftvars)
  BY <1>1, <1>3 DEF Transfer!ReceiverEnds, Transfer!ftvars, TgEnded
<1>4. CASE TgClose
  <2>1. written = SourceFile /\ UNCHANGED written /\ tgPc' = "done"
    BY <1>4 DEF TgClose
  <2> QED BY <1>1, <2>1 DEF Transfer!ReceiverEnds, TgEnded
<1>5. CASE TgTimeout
  <2>1. tgPc' \in {"wait", "aborted", "returned"} /\ UNCHANGED written
    BY <1>5, TgAnswerFlight DEF TgTimeout, TgRetry
  <2> QED BY <1>3, <2>1 DEF TgEnded
<1>6. ASSUME NEW d \in InFlight, TgStart(d)
      PROVE  [Transfer!ReceiverEnds]_(Transfer!ftvars)
  <2>1. tgPc' \in {"wait", "returned"} /\ UNCHANGED written
    BY <1>6, TgNextBlockFlight DEF TgStart
  <2> QED BY <1>3, <2>1 DEF TgEnded
<1>7. ASSUME NEW d \in InFlight, TgMismatch(d)
      PROVE  [Transfer!ReceiverEnds]_(Transfer!ftvars)
  <2>1. tgPc' \in {"wait", "aborted", "returned"} /\ UNCHANGED written
    BY <1>7, TgAnswerFlight DEF TgMismatch, TgRetry
  <2> QED BY <1>3, <2>1 DEF TgEnded
<1>8. ASSUME NEW d \in InFlight, TgRefuse(d) \/ TgForeign(d)
      PROVE  [Transfer!ReceiverEnds]_(Transfer!ftvars)
  BY <1>3, <1>8 DEF TgRefuse, TgForeign, tgvars, TgEnded
<1>9. \A d : ~TgDiskFull(d)
  BY DEF TgDiskFull
<1> QED BY <1>2, <1>4, <1>5, <1>6, <1>7, <1>8, <1>9 DEF ServerStep

\* With one piece at a time, and unless the server fails to send or to store, the
\* upload is a file transfer: the pieces are stored one after the other, and each
\* side reports success only when the server has the whole file.
THEOREM UploadIsTransfer ==
    ASSUME Setting, OneAtATime, Faults \subseteq {"open"}
    PROVE  Spec => IsTransfer
<1> DEFINE All == IInv /\ WindowInv /\ WholeInv
<1>1. Init => Transfer!FtInit
  BY DEF Init, TsInit, TgInit, Transfer!FtInit, TsEnded, TgEnded
<1>2. All /\ All' /\ [Next]_vars
        => [Transfer!Store \/ Transfer!ReceiverEnds \/ Transfer!SenderEnds]_(Transfer!ftvars)
  <2>1. NetStep \/ UNCHANGED vars => UNCHANGED Transfer!ftvars
    BY DEF NetStep, vars, tsvars, tgvars, Transfer!ftvars
  <2>2. All => NextTaken /\ (tgPc = "closing" => written = SourceFile)
    BY AcceptsNextPiece DEF NextTaken, WholeInv
  <2>3. All' => NoFalseSuccess'
    BY DEF IInv
  <2> QED BY <2>1, <2>2, <2>3, ClientTransfers, ServerTransfers DEF Next
<1> QED BY <1>1, <1>2, WholeInvariant, PTL DEF Spec, IsTransfer, Transfer!FtSpec
--------------------------------------------------------------------------------
(* One piece at a time, in time: block numbers may wrap.                       *)

USE NetworkAssumption, TftpdGetAssumption, SlowAssumption

\* Two counts that follow each other have different block numbers, also where
\* count wraps, and count++ takes one to the other.
LEMMA NextNumber ==
    \A k \in Nat : /\ Count(k) \in 0..(M - 1) /\ Count(k + 1) # Count(k)
                   /\ (Count(k) + 1) % M = Count(k + 1)
<1> SUFFICES ASSUME NEW k \in Nat
             PROVE  /\ k % M \in 0..(M - 1) /\ (k + 1) % M # k % M
                    /\ ((k % M) + 1) % M = (k + 1) % M
  BY DEF Count
<1> DEFINE r == k % M
           s == (k + 1) % M
           q == k \div M
           p == (k + 1) \div M
<1>1. r \in 0..(M - 1) /\ q \in Nat /\ k = M * q + r
  BY DivMod
<1>2. s \in 0..(M - 1) /\ p \in Nat /\ k + 1 = M * p + s
  <2>1. k + 1 \in Nat
    OBVIOUS
  <2> QED BY <2>1, DivMod
<1> HIDE DEF r, s, p, q
<1>3. CASE r + 1 < M
  <2>1. M * q + (r + 1) = M * p + s /\ r + 1 \in Nat
    BY <1>1, <1>2
  <2>2. s = r + 1
    BY <1>1, <1>2, <1>3, <2>1, RemainderUnique
  <2>3. (r + 1) % M = r + 1
    BY <1>1, <1>3, CountSmall
  <2> QED BY <1>1, <2>2, <2>3 DEF r, s
<1>4. CASE r + 1 = M
  <2>1. PICK t \in Nat : t = q + 1
    BY <1>1
  <2>2. M * t = M * p + s
    BY <1>1, <1>2, <1>4, <2>1
  <2>3. s = 0
    BY <1>2, <2>1, <2>2, MultipleRemainder
  <2>4. M % M = 0
    OBVIOUS
  <2> QED BY <1>1, <1>4, <2>3, <2>4 DEF r, s
<1> QED BY <1>1, <1>3, <1>4

\* The invariant before a step, and what it says in every state.
TimelyContext == Timely /\ Intact /\ TypeInv /\ TypeInv' /\ TimelyInv

LEMMA TimelyFacts ==
    ASSUME TimelyContext
    PROVE  /\ Timely /\ TypeInv /\ TsTypeOK /\ TgTypeOK /\ NetTypeOK /\ InOrder
           /\ TurnInv /\ CountInv /\ StoreInv /\ (OneAtATime => EndInv)
           /\ IsABag(net) /\ N \in Nat /\ tsSent \in 0..Chunks
           /\ written \in Seq([piece : Nat, size : Nat])
<1>1. /\ Timely /\ TypeInv /\ TsTypeOK /\ TgTypeOK /\ NetTypeOK /\ InOrder
      /\ TurnInv /\ CountInv /\ StoreInv /\ (OneAtATime => EndInv)
  BY DEF TimelyContext, TimelyInv, TypeInv, TypeOK
<1>2. IsABag(net) /\ tsSent \in 0..Chunks /\ written \in Seq([piece : Nat, size : Nat])
  BY <1>1 DEF TgTypeOK, TsTypeOK, NetTypeOK
<1>3. N \in Nat
  BY <1>2 DEF N
<1> QED BY <1>1, <1>2, <1>3

\* A timeout proves that nothing is on its way.
LEMMA NothingComes ==
    ASSUME TimelyContext, Expired
    PROVE  Coming = {} /\ tsPc # "send"
  BY TimelyFacts DEF Expired, Timely, Coming

\* What somebody of the transfer receives while the client runs was alone on its way.
LEMMA ReceivedAlone ==
    ASSUME TimelyContext, tsPc \notin TsEnded, NEW d \in InFlight, Awaited(d), d.src # "stranger"
    PROVE  d \in Coming /\ Coming = {d} /\ tsPc # "send"
  BY TimelyFacts DEF TurnInv, Coming

\* One thing is on its way, once, or nothing is.
Alone == (\A d \in Coming : net[d] = 1) /\ \A d, e \in Coming : d = e

LEMMA AloneIn ==
    ASSUME TimelyContext, tsPc \notin TsEnded
    PROVE  Alone
  BY TimelyFacts DEF TurnInv, Alone

\* When all that was on its way is taken, what is sent is alone.
LEMMA AloneSends ==
    ASSUME TimelyContext, tsPc \notin TsEnded, NEW D, NEW S, Exchange(D, S), Coming \subseteq D,
           \A s, t \in S : s = t,
           \A x \in InFlight : Awaited(x)' /\ x.src # "stranger" => x \in Coming
    PROVE  Alone' /\ Coming' \subseteq S
<1>0. IsABag(net) /\ \A x \in Coming : net[x] = 1
  BY TimelyFacts, AloneIn DEF Alone
<1>1. \A x \in InFlight' : x \in S \/ (x \in InFlight /\ net[x] > (IF x \in D THEN 1 ELSE 0))
  BY <1>0 DEF Exchange, InFlight, BagToSet, SetToBag, (+), (-), IsABag
<1>2. \A x \in S : (x \in InFlight => x \in D /\ net[x] = 1) => net'[x] = 1
  BY <1>0 DEF Exchange, InFlight, BagToSet, SetToBag, (+), (-), IsABag
<1>3. \A x \in Coming' : x \in InFlight' /\ Awaited(x)' /\ x.src # "stranger"
  BY DEF Coming
<1>4. \A x \in Coming' : x \in InFlight => x \in D /\ net[x] = 1
  BY <1>0, <1>3
<1>5. Coming' \subseteq S
  BY <1>1, <1>3, <1>4
<1> QED BY <1>2, <1>4, <1>5 DEF Alone

\* When nothing is sent, nothing more is on its way.
LEMMA AloneStays ==
    ASSUME Alone, \A x \in InFlight' : x \in InFlight /\ (net[x] = 1 => net'[x] = 1),
           \A x : Awaited(x)' => Awaited(x)
    PROVE  Alone' /\ Coming' \subseteq Coming
  BY DEF Alone, Coming

\* Taking what is not sent again.
LEMMA Taken ==
    ASSUME IsABag(net), NEW D, Exchange(D, {})
    PROVE  \A x \in InFlight' : x \in InFlight /\ (net[x] = 1 => net'[x] = 1)
  BY DEF Exchange, InFlight, BagToSet, SetToBag, (+), (-), IsABag

\* A failing sendto() of one datagram sends nothing.
LEMMA FailsAlone ==
    ASSUME NEW D, NEW s, ExchangeFails(D, {s})
    PROVE  Exchange(D, {})
<1>1. PICK T \in SUBSET {s} : T # {s} /\ Exchange(D, T)
  BY DEF ExchangeFails
<1>2. T = {}
  BY <1>1
<1> QED BY <1>1, <1>2

--------------------------------------------------------------------------------
(* ... the steps of the client.                                                *)

\* The piece the client sends and sends again.
LastPacket(k) == Packet(k, PieceSize(k))

\* A step of the client, which leaves the file alone.
LEMMA ClientTurn ==
    ASSUME TimelyContext, UNCHANGED tgvars, tsPc \notin TsEnded,
           InFlight' \subseteq InFlight \cup {LastPacket(tsSent')},
           tsSent' > 0 \/ InFlight' \subseteq InFlight,
           tsSent' = tsSent \/ (Coming = {} /\ tsSent' = tsSent + 1),
           CountInv', tsPc' \notin TsEnded => Alone',
           tsPc' = "send" => Coming' = {}, Wrq \in Coming' => tsPc' = "first"
    PROVE  TimelyInv'
<1>1. N' = N /\ written' = written /\ tgPc' = tgPc /\ (StoreInv <=> StoreInv') /\ EndInv' = EndInv
      /\ SourceFile' = SourceFile /\ tsSent' \in 0..Chunks
  BY DEF tgvars, N, StoreInv, EndInv, SourceFile, PieceSize, TimelyContext, TypeInv, TypeOK,
         TsTypeOK
<1>2. LET p == LastPacket(tsSent') IN p.src = "client" /\ p.op = "DATA" /\ p.piece = tsSent'
                             /\ p.blk = Count(tsSent') /\ p.size = PieceSize(tsSent')
  BY DEF LastPacket, Packet, Data
<1>3. ASSUME NEW d \in InFlight' PROVE Known(d)'
  <2>1. CASE d \in InFlight
    <3>1. Known(d) /\ tsSent <= tsSent' /\ tsSent \in Nat /\ tsSent' \in Nat
      BY <1>1, <2>1, TimelyFacts DEF TurnInv
    <3>2. d.piece \in 1..tsSent => d.piece \in 1..tsSent'
      BY <3>1
    <3> QED BY <3>1, <3>2 DEF Known, Count, PieceSize
  <2>2. CASE d = LastPacket(tsSent') /\ tsSent' > 0
    <3>1. tsSent' \in 1..tsSent'
      BY <1>1, <2>2
    <3> QED BY <1>2, <2>2, <3>1 DEF Known, Count, PieceSize
  <2> QED BY <2>1, <2>2
<1>4. ASSUME tgPc = "wait", NEW d \in InFlight', d.src = "client", d.dst = "child"
      PROVE  d.piece = tsSent'
  <2>1. CASE d \in InFlight
    <3>1. d.piece = tsSent
      BY <1>4, <2>1, TimelyFacts DEF TurnInv
    <3>2. d \in Coming
      BY <1>4, <2>1 DEF Coming, Awaited
    <3> QED BY <3>1, <3>2
  <2> QED BY <1>2, <2>1
<1>5. ASSUME tsPc' \notin TsEnded, NEW d \in InFlight', d.src = "child", d.op = "ACK"
      PROVE  d.blk = Count(N) /\ tgPc # "failed"
  BY <1>2, <1>5, TimelyFacts DEF TurnInv
<1>6. TurnInv'
  BY <1>1, <1>3, <1>4, <1>5 DEF TurnInv, Alone, Count
<1>7. InOrder'
  BY <1>1, TimelyFacts DEF InOrder
<1> QED BY <1>1, <1>6, <1>7, TimelyFacts DEF TimelyInv, OneAtATime

\* What comes to the client from the server's host comes from the child.
LEMMA FromChild ==
    ASSUME TimelyContext, NEW d \in InFlight, d.dst = "client", FromHost(d, "there")
    PROVE  /\ d.src = "child" /\ d.op \in {"ACK", "NUL", "ERROR"}
           /\ tsPc \notin TsEnded => Coming = {d} /\ tsPc # "send"
<1>1. d.src = "child" /\ d.op \in {"ACK", "NUL", "ERROR"}
  BY TimelyFacts DEF TurnInv, Known, FromHost, Host, Wrq, Control
<1> QED BY <1>1, ReceivedAlone DEF Awaited

LEMMA AwaitsAsBefore ==
    ASSUME UNCHANGED tgvars, tsPc \notin TsEnded
    PROVE  \A x : Awaited(x)' => Awaited(x)
  BY DEF Awaited, tgvars

\* The client receives, and sends nothing.
LEMMA ClientReceives ==
    ASSUME TimelyContext, UNCHANGED tgvars, tsPc \notin TsEnded, NEW D, Exchange(D, {}),
           tsSent' = tsSent, CountInv', tsPc' = tsPc \/ Coming \subseteq D,
           tsPc' # "first" => tsPc # "first" \/ Coming \subseteq D
    PROVE  TimelyInv'
<1>1. /\ \A x \in InFlight' : x \in InFlight /\ (net[x] = 1 => net'[x] = 1)
  BY Taken, TimelyFacts
<1>2. Alone' /\ Coming' \subseteq Coming
  BY <1>1, AloneIn, AloneStays, AwaitsAsBefore
<1>3. Coming \subseteq D => Coming' = {}
  BY AloneSends, AwaitsAsBefore DEF Coming
<1>4. tsPc' = "send" => Coming' = {}
  BY <1>2, <1>3, TimelyFacts DEF TurnInv
<1>5. Wrq \in Coming' => tsPc' = "first"
  BY <1>2, <1>3, TimelyFacts DEF TurnInv
<1> QED BY <1>1, <1>2, <1>4, <1>5, ClientTurn

LEMMA FirstReceived ==
    ASSUME TimelyContext, UNCHANGED tgvars, NEW d \in InFlight, TsFirst(d)
    PROVE  TimelyInv'
<1>1. tsPc = "first" /\ tsPc' = "send" /\ UNCHANGED <<tsSent, tsBuf, tsLen, tsJ>>
      /\ d.dst = "client" /\ FromHost(d, "there")
  BY DEF TsFirst, TsReceives
<1>2. Coming = {d} /\ d.op # "BAD"
  BY <1>1, FromChild DEF TsEnded
<1>3. Exchange({d}, {})
  BY <1>2 DEF TsFirst, Complaint
<1>4. CountInv'
  BY <1>1, TimelyFacts DEF CountInv, tgvars, N, Count
<1> QED BY <1>1, <1>2, <1>3, <1>4, ClientReceives DEF TsEnded

LEMMA ForeignReceived ==
    ASSUME TimelyContext, UNCHANGED tgvars, NEW d \in InFlight, TsFirstForeign(d) \/ TsForeign(d)
    PROVE  TimelyInv'
<1>1. /\ Exchange({d}, {}) /\ UNCHANGED <<tsPc, tsSent, tsBuf, tsLen, tsJ>>
      /\ tsPc \in {"first", "ack"}
  BY DEF TsFirstForeign, TsForeign, tsvars
<1>2. CountInv'
  BY <1>1, TimelyFacts DEF CountInv, tgvars, N, Count, PieceSize
<1> QED BY <1>1, <1>2, ClientReceives DEF TsEnded

\* The ACK that is taken names the piece read last: the server has it.
LEMMA AckReceived ==
    ASSUME TimelyContext, UNCHANGED tgvars, NEW d \in InFlight, TsAcked(d)
    PROVE  TimelyInv'
<1>1. /\ tsPc = "ack" /\ UNCHANGED <<tsSent, tsBuf, tsLen, tsJ>> /\ d.dst = "client"
      /\ FromHost(d, "there") /\ d.op = "ACK" /\ d.blk = Count(tsSent) /\ Exchange({d}, {})
      /\ tsPc' = IF PieceSize(tsSent) # DataSize THEN "done" ELSE "send"
  BY DEF TsAcked, TsReceives, Acks
<1>2. Coming = {d} /\ d.src = "child"
  BY <1>1, FromChild DEF TsEnded
<1>3. d.blk = Count(N) /\ tgPc # "failed"
  BY <1>1, <1>2, TimelyFacts DEF TurnInv, TsEnded
<1>4. tsSent = N
  BY <1>1, <1>3, NextNumber, TimelyFacts DEF CountInv
<1>5. tsPc' = "done" => N = Chunks
  BY <1>1, <1>4 DEF PieceSize
<1>6. CountInv'
  BY <1>1, <1>3, <1>4, <1>5, TimelyFacts DEF CountInv, tgvars, N, Count
<1> QED BY <1>1, <1>2, <1>6, ClientReceives DEF TsEnded

\* The client sends its last piece, or fails to, when nothing else is on its way.
LEMMA ClientSendsLast ==
    ASSUME TimelyContext, UNCHANGED tgvars, tsPc \in {"send", "ack"}, NEW D, Coming \subseteq D,
           tsSent' = tsSent \/ (Coming = {} /\ tsSent' = tsSent + 1), tsSent' > 0,
           CountInv', NEW pc \in {"ack", "aborted"}, TsAnswer(D, {LastPacket(tsSent')}, pc)
    PROVE  TimelyInv'
<1>1. PICK S \in {{}, {LastPacket(tsSent')}} : Exchange(D, S) /\ tsPc' \in {pc, "returned"}
  BY FailsAlone DEF TsAnswer
<1>2. InFlight' \subseteq InFlight \cup {LastPacket(tsSent')}
  BY <1>1, ExchangeInFlight
<1>3. \A x \in InFlight : Awaited(x)' /\ x.src # "stranger" => x \in Coming
  BY AwaitsAsBefore DEF Coming, TsEnded
<1>4. Alone' /\ Coming' \subseteq {LastPacket(tsSent')}
  BY <1>1, <1>3, AloneSends DEF TsEnded
<1>5. LastPacket(tsSent') # Wrq
  BY DEF LastPacket, Packet, Data, Wrq, Control
<1> QED BY <1>1, <1>2, <1>4, <1>5, ClientTurn DEF TsEnded

\* With an ack frequency of 1 the client waits after each piece, which is in slot 0.
LEMMA OneSlot ==
    ASSUME TimelyContext
    PROVE  /\ \A c \in Nat : Slot(c) = 0
           /\ \A k \in Nat : WaitsForAck(k)
           /\ \A n : Resent(n) = {Packet(tsBuf[0], n)}
<1>1. CAck = 1
  BY DEF TimelyContext, Timely
<1>2. \A c \in Int : c % 1 = 0
  OBVIOUS
<1>3. \A c \in Nat : Slot(c) = 0
  BY <1>1, <1>2 DEF Slot
<1>4. \A k \in Nat : Count(k) \in Nat
  BY CountType DEF Count
<1>5. \A k \in Nat : WaitsForAck(k)
  BY <1>1, <1>2, <1>4 DEF WaitsForAck
<1>6. 0..Slot(Count(tsSent)) = {0}
  <2>1. tsSent \in Nat
    BY TimelyFacts
  <2>2. Slot(Count(tsSent)) = 0
    BY <1>3, <1>4, <2>1
  <2> QED BY <2>2
<1>7. \A n : Resent(n) = {Packet(tsBuf[0], n)}
  BY <1>6 DEF Resent
<1> QED BY <1>3, <1>5, <1>7

LEMMA PieceSent ==
    ASSUME TimelyContext, UNCHANGED tgvars, TsSendPiece
    PROVE  TimelyInv'
<1> DEFINE k == tsSent + 1
<1>1. tsPc = "send" /\ tsSent = N /\ Coming = {} /\ k \in Nat /\ k > 0
  BY TimelyFacts DEF TsSendPiece, TurnInv, CountInv
<1>2. WaitsForAck(k) /\ Slot(Count(k)) = 0
  BY <1>1, OneSlot, CountType DEF Count
<1>3. /\ tsSent' = k /\ tsBuf' = [tsBuf EXCEPT ![0] = k] /\ tsLen' = PieceSize(k)
      /\ TsAnswer({}, {LastPacket(k)}, "ack")
  BY <1>2 DEF TsSendPiece, LastPacket
<1>4. tsPc' \in {"ack", "returned"}
  BY <1>3 DEF TsAnswer
<1>5. tsBuf'[0] = k
  BY <1>3, TimelyFacts DEF TsTypeOK, Timely
<1> HIDE DEF k
<1>6. LastPacket(k) = LastPacket(tsSent') /\ tsSent' = N + 1 /\ tsSent' > 0
  BY <1>1, <1>3 DEF k, LastPacket, Packet, Data, PieceSize, Count
<1>7. CountInv'
  BY <1>1, <1>3, <1>4, <1>5, <1>6, TimelyFacts DEF CountInv, tgvars, N, Count, PieceSize
<1>8. TsAnswer({}, {LastPacket(tsSent')}, "ack")
  BY <1>3, <1>6
<1> QED BY <1>1, <1>6, <1>7, <1>8, ClientSendsLast DEF k

LEMMA PieceSentAgain ==
    ASSUME TimelyContext, UNCHANGED tgvars, tsPc = "ack", NEW D, Coming \subseteq D,
           TsRetry(D, {}, tsLen)
    PROVE  TimelyInv'
<1>1. tsSent > 0 /\ tsBuf[0] = tsSent /\ tsLen = PieceSize(tsSent)
  BY TimelyFacts DEF CountInv
<1>2. {} \cup Resent(tsLen) = {LastPacket(tsSent)}
  BY <1>1, OneSlot DEF LastPacket
<1>3. PICK pc \in {"ack", "aborted"} : TsAnswer(D, {LastPacket(tsSent)}, pc)
  BY <1>2 DEF TsRetry
<1>4. /\ UNCHANGED <<tsSent, tsBuf>> /\ tsLen' = tsLen /\ tsPc' \in {"ack", "aborted", "returned"}
  BY <1>3 DEF TsRetry, TsAnswer
<1>5. CountInv'
  BY <1>1, <1>4, TimelyFacts DEF CountInv, tgvars, N, Count, PieceSize
<1> QED BY <1>1, <1>3, <1>4, <1>5, ClientSendsLast

LEMMA ClientTimely ==
    ASSUME TimelyContext, ClientStep
    PROVE  TimelyInv'
<1>0. UNCHANGED tgvars
  BY DEF ClientStep
<1>1. CASE TsSendPiece
  BY <1>0, <1>1, PieceSent
<1>2. CASE Expired /\ TsFirstTimeout
  <2>1. /\ Coming = {} /\ tsPc = "first" /\ tsPc' = "send"
        /\ UNCHANGED <<tsSent, tsBuf, tsLen, tsJ, net>>
    BY <1>2, NothingComes DEF TsFirstTimeout, netvars
  <2>2. CountInv'
    BY <1>0, <2>1, TimelyFacts DEF CountInv, tgvars, N, Count, PieceSize
  <2>3. Coming' = {}
    BY <1>0, <2>1, AwaitsAsBefore DEF Coming, InFlight, TsEnded
  <2>4. Alone'
    BY <2>3 DEF Alone
  <2> QED BY <1>0, <2>1, <2>2, <2>3, <2>4, ClientTurn DEF InFlight, TsEnded
<1>3. CASE Expired /\ TsTimeout
  BY <1>0, <1>3, NothingComes, PieceSentAgain DEF TsTimeout
<1>4. ASSUME NEW d \in InFlight, TsFirst(d) \/ TsFirstForeign(d) \/ TsAcked(d) \/ TsForeign(d)
      PROVE  TimelyInv'
  BY <1>0, <1>4, FirstReceived, ForeignReceived, AckReceived
<1>5. ASSUME NEW d \in InFlight, TsMismatch(d) PROVE TimelyInv'
  <2>1. tsPc = "ack" /\ d.dst = "client" /\ FromHost(d, "there")
    BY <1>5 DEF TsMismatch, TsReceives
  <2>2. Coming = {d} /\ d.op # "BAD"
    BY <2>1, FromChild DEF TsEnded
  <2>3. TsRetry({d}, {}, tsLen)
    BY <1>5, <2>2 DEF TsMismatch, Complaint
  <2> QED BY <1>0, <2>1, <2>2, <2>3, PieceSentAgain
<1> QED BY <1>1, <1>2, <1>3, <1>4, <1>5 DEF ClientStep

--------------------------------------------------------------------------------
(* ... the steps of the server.                                                *)

\* What the child sends.
Reply(s) == s.src = "child" /\ s.dst = "client" /\ s.op \in {"ACK", "NUL", "ERROR"}

\* A step of the server that takes all that was on its way and sends at most one
\* answer, which names the block stored last.
LEMMA ServerTurn ==
    ASSUME TimelyContext, UNCHANGED tsvars, NEW D, NEW S, Exchange(D, S),
           \A s, t \in S : s = t,
           \A s \in S : Reply(s) /\ (s.op = "ACK" => s.blk = Count(N') /\ tgPc' # "failed"),
           tsPc \notin TsEnded => Coming \subseteq D /\ (tsPc # "send" \/ S = {}),
           tgPc' = "wait" => tgPc = "wait" \/ tsSent = 0,
           tgPc' # "listen"
    PROVE  TurnInv'
<1>0. UNCHANGED <<tsPc, tsSent>>
  BY DEF tsvars
<1>1. InFlight' \subseteq InFlight \cup S
  BY ExchangeInFlight
<1>2. ASSUME NEW d \in InFlight' PROVE Known(d)'
  <2>1. CASE d \in InFlight
    <3>1. Known(d)
      BY <2>1, TimelyFacts DEF TurnInv
    <3> QED BY <1>0, <3>1 DEF Known, Count, PieceSize
  <2>2. CASE d \in S
    BY <2>2 DEF Known, Reply
  <2> QED BY <1>1, <2>1, <2>2
<1>3. ASSUME tgPc' = "wait", NEW d \in InFlight', d.src = "client", d.dst = "child"
      PROVE  d.piece = tsSent
  <2>1. d \in InFlight
    BY <1>1, <1>3 DEF Reply
  <2>2. CASE tgPc = "wait"
    BY <1>3, <2>1, <2>2, TimelyFacts DEF TurnInv
  <2>3. CASE tsSent = 0
    <3>1. Known(d) /\ d # Wrq
      BY <1>3, <2>1, TimelyFacts DEF TurnInv, Wrq, Control
    <3> QED BY <1>3, <2>3, <3>1 DEF Known
  <2> QED BY <1>3, <2>2, <2>3
<1>4. ASSUME tsPc \notin TsEnded
      PROVE  /\ Alone' /\ Coming' \subseteq S
             /\ \A d \in InFlight' : d.src = "child" /\ d.op = "ACK"
                                       => d.blk = Count(N') /\ tgPc' # "failed"
  <2>1. ASSUME NEW x \in InFlight, Awaited(x)', x.src # "stranger" PROVE x \in Coming
    <3>1. Known(x)
      BY TimelyFacts DEF TurnInv
    <3>2. x.dst = "client" \/ (x.dst = "child" /\ tgPc' = "wait")
      BY <2>1 DEF Awaited
    <3>3. CASE x.dst = "client"
      BY <1>4, <2>1, <3>3 DEF Coming, Awaited
    <3>4. CASE x.dst = "child" /\ tgPc' = "wait"
      <4>1. tgPc = "wait" \/ ~(x.piece \in 1..tsSent)
        BY <3>4
      <4>2. x.src # "child" /\ x # Wrq
        BY <3>1, <3>4 DEF Known, Wrq, Control
      <4> QED BY <2>1, <3>1, <3>4, <4>1, <4>2 DEF Known, Coming, Awaited
    <3> QED BY <3>2, <3>3, <3>4
  <2>2. Alone' /\ Coming' \subseteq S
    BY <1>4, <2>1, AloneSends
  <2>3. ASSUME NEW d \in InFlight', d.src = "child", d.op = "ACK"
        PROVE  d.blk = Count(N') /\ tgPc' # "failed"
    <3>1. CASE d \in S
      BY <2>3, <3>1
    <3>2. CASE d \notin S
      <4>1. d \in InFlight /\ Known(d)
        BY <1>1, <3>2, TimelyFacts DEF TurnInv
      <4>2. d.dst = "client"
        BY <2>3, <4>1 DEF Known, Wrq, Control
      <4>3. d \in Coming'
        BY <1>0, <1>4, <2>3, <4>2 DEF Coming, Awaited
      <4> QED BY <2>2, <3>2, <4>3
    <3> QED BY <3>1, <3>2
  <2> QED BY <2>2, <2>3
<1>5. tsPc = "send" => Coming' = {}
  BY <1>4 DEF TsEnded
<1>6. Wrq \notin Coming'
  BY DEF Coming, Awaited, Wrq, Control
<1> QED BY <1>0, <1>2, <1>3, <1>4, <1>5, <1>6 DEF TurnInv, Alone, Count

LEMMA ReplyKind ==
    /\ \A b \in 0..M : Reply(TgReply(b))
    /\ \A b \in 0..(M - 1) : TgReply(b).op = "ACK" /\ TgReply(b).blk = b
    /\ TgReply(NoAck).op = "NUL"
    /\ Reply(Error("child", "client")) /\ Error("child", "client").op = "ERROR"
  BY DEF Reply, TgReply, NoAck, Ack, Control, Error

\* One answer, sent or not.
LEMMA ServerAnswers ==
    ASSUME TimelyContext, UNCHANGED tsvars, NEW D, NEW s, NEW S \in {{}, {s}}, NEW pc,
           pc # "listen", TgAnswer(D, S, pc),
           Reply(s) /\ (s.op = "ACK" => s.blk = Count(N')), pc # "failed",
           tsPc \notin TsEnded => Coming \subseteq D /\ tsPc # "send",
           pc = "wait" => tgPc = "wait" \/ tsSent = 0
    PROVE  TurnInv' /\ tgPc' \in {pc, "returned"}
<1>1. tgPc' \in {pc, "returned"}
  BY DEF TgAnswer
<1>2. PICK T \in {{}, {s}} : Exchange(D, T)
  <2>1. CASE Exchange(D, S)
    BY <2>1
  <2>2. CASE ExchangeFails(D, S)
    <3>1. PICK T \in SUBSET S : Exchange(D, T)
      BY <2>2 DEF ExchangeFails
    <3>2. T \in {{}, {s}}
      BY <3>1
    <3> QED BY <3>1, <3>2
  <2> QED BY <2>1, <2>2 DEF TgAnswer
<1> QED BY <1>1, <1>2, ServerTurn

\* A step of the server that stores nothing.
LEMMA FileStays ==
    ASSUME TimelyContext, UNCHANGED tsvars, written' = written, TurnInv',
           tgPc # "failed", tgPc' \notin {"listen", "failed"},
           tgPc' = "wait" => tgCount' = Count(N + 1) /\ tgAck' \in {NoAck, Count(N)},
           OneAtATime => EndInv'
    PROVE  TimelyInv'
<1>1. N' = N /\ SourceFile' = SourceFile
  BY DEF N, SourceFile, PieceSize
<1>2. InOrder' /\ StoreInv'
  BY <1>1, TimelyFacts DEF InOrder, StoreInv
<1>3. CountInv'
  BY <1>1, TimelyFacts DEF CountInv, tsvars, Count, PieceSize
<1> QED BY <1>2, <1>3 DEF TimelyInv, OneAtATime

LEMMA StartTimely ==
    ASSUME TimelyContext, UNCHANGED tsvars, NEW d \in InFlight, TgStart(d) \/ TgRefuse(d)
    PROVE  TimelyInv'
<1>1. tgPc = "listen" /\ d.dst = "tftpd" /\ d.op = "WRQ" /\ UNCHANGED <<tgSize, tgFlag, written>>
  BY DEF TgStart, TgRefuse
<1>2. d = Wrq
  BY <1>1, TimelyFacts DEF TurnInv, Known
<1>3. d.src # "stranger"
  BY <1>2 DEF Wrq, Control
<1>4. d \in Coming
  BY <1>1, <1>3 DEF Coming, Awaited
<1>5. tsPc = "first" /\ Coming = {d} /\ tsSent = 0 /\ N = 0
  <2>1. tsPc = "first"
    BY <1>2, <1>4, TimelyFacts DEF TurnInv
  <2> QED BY <1>4, <2>1, TimelyFacts DEF TurnInv, CountInv, TsEnded
<1>6. N' = 0 /\ Count(0) = 0 /\ Count(1) = 1 /\ 1 % M = 1
  BY <1>1, <1>5, CountSmall DEF N, Count
<1>7. EndInv' \/ ~OneAtATime \/ tgPc' \in {"listen", "closing", "done"}
  BY <1>1, <1>5, <1>6, TimelyFacts DEF EndInv
<1>8. CASE TgStart(d)
  <2>1. TgAnswer({d}, {TgReply(0)}, "wait") /\ tgCount' = 1 /\ tgAck' = 0
    BY <1>6, <1>8 DEF TgStart, TgNextBlock, AckDue
  <2>2. Reply(TgReply(0)) /\ TgReply(0).blk = 0
    BY ReplyKind
  <2>3. TurnInv' /\ tgPc' \in {"wait", "returned"}
    BY <1>5, <1>6, <2>1, <2>2, ServerAnswers
  <2> QED BY <1>1, <1>5, <1>6, <1>7, <2>1, <2>3, FileStays
<1>9. CASE TgRefuse(d)
  <2> DEFINE e == Error("child", "client")
  <2>1. tgPc' = "refused" /\ (Exchange({d}, {e}) \/ ExchangeFails({d}, {e}))
    BY <1>9 DEF TgRefuse
  <2>2. Reply(e) /\ e.op = "ERROR"
    BY ReplyKind
  <2> HIDE DEF e
  <2>3. PICK S \in {{}, {e}} : Exchange({d}, S)
    BY <2>1, FailsAlone
  <2>4. TurnInv'
    BY <1>5, <2>1, <2>2, <2>3, ServerTurn
  <2> QED BY <1>1, <1>7, <2>1, <2>4, FileStays
<1> QED BY <1>8, <1>9

\* A failed attempt: ackbuf names the block stored last, or nothing.
LEMMA RetryTimely ==
    ASSUME TimelyContext, UNCHANGED tsvars, tgPc = "wait", NEW D, TgRetry(D, {}),
           tsPc \notin TsEnded => Coming \subseteq D /\ tsPc # "send",
           OneAtATime => UNCHANGED <<tgSize, tgFlag>>
    PROVE  TimelyInv'
<1>1. UNCHANGED <<tgCount, tgAck, written>> /\ N' = N /\ tgAck \in {NoAck, Count(N)}
      /\ tgCount = Count(N + 1)
  BY TimelyFacts DEF TgRetry, N, CountInv
<1>2. PICK pc \in {"aborted", "wait"} : TgAnswer(D, {TgReply(tgAck)}, pc)
  BY DEF TgRetry
<1>3. Reply(TgReply(tgAck)) /\ (TgReply(tgAck).op = "ACK" => TgReply(tgAck).blk = Count(N'))
  <2>1. Count(N) \in 0..(M - 1) /\ NoAck \in 0..M
    BY NextNumber, TimelyFacts DEF NoAck
  <2>2. CASE tgAck = NoAck
    BY <2>1, <2>2, ReplyKind
  <2>3. CASE tgAck = Count(N)
    BY <1>1, <2>1, <2>3, ReplyKind
  <2> QED BY <1>1, <2>2, <2>3
<1>4. TurnInv' /\ tgPc' \in {"aborted", "wait", "returned"}
  BY <1>2, <1>3, ServerAnswers
<1>5. OneAtATime => EndInv'
  BY <1>1, <1>4, TimelyFacts DEF EndInv, PieceSize
<1> QED BY <1>1, <1>4, <1>5, FileStays

\* What comes to the child from the client's host is the piece read last.
LEMMA FromTheClient ==
    ASSUME TimelyContext, NEW d \in InFlight, TgReceives(d)
    PROVE  /\ tgPc = "wait" /\ d.op = "DATA" /\ d.piece = tsSent /\ tsSent \in 1..Chunks
           /\ d.blk = Count(tsSent) /\ d.size = PieceSize(tsSent)
           /\ tsPc \notin TsEnded => Coming = {d} /\ tsPc # "send"
<1>1. tgPc = "wait" /\ d.dst = "child" /\ FromHost(d, "here")
  BY DEF TgReceives
<1>2. Known(d) /\ d.src \notin {"stranger", "child"} /\ d # Wrq
  BY <1>1, TimelyFacts DEF TurnInv, FromHost, Host, Wrq, Control
<1>3. d.src = "client" /\ d.op = "DATA" /\ d.piece \in 1..tsSent /\ d.blk = Count(d.piece)
      /\ d.size = PieceSize(d.piece)
  BY <1>2 DEF Known
<1>4. d.piece = tsSent
  BY <1>1, <1>3, TimelyFacts DEF TurnInv
<1>5. tsSent \in 1..Chunks
  BY <1>3, <1>4, TimelyFacts
<1>6. tsPc \notin TsEnded => Coming = {d} /\ tsPc # "send"
  BY <1>1, <1>2, ReceivedAlone DEF Awaited
<1> QED BY <1>1, <1>3, <1>4, <1>5, <1>6

\* A block that is not the expected one is the one stored last.
LEMMA MismatchTimely ==
    ASSUME TimelyContext, UNCHANGED tsvars, NEW d \in InFlight, TgMismatch(d)
    PROVE  TimelyInv'
<1>1. TgReceives(d) /\ d.op = "DATA" /\ d.blk # tgCount /\ TgAdapt(d)
  BY FromTheClient DEF TgMismatch, Expected
<1>2. TgRetry({d}, {})
  BY <1>1 DEF TgMismatch, Complaint
<1>3. N > 0
  <2>1. tgCount = Count(N + 1) /\ tsSent \in {N, N + 1} /\ tsSent > 0
    BY <1>1, FromTheClient, TimelyFacts DEF CountInv
  <2>2. tsSent # N + 1
    BY <1>1, <2>1, FromTheClient
  <2> QED BY <2>1, <2>2
<1>4. ASSUME OneAtATime PROVE UNCHANGED <<tgSize, tgFlag>>
  <2>1. tgPc = "wait" /\ EndInv /\ N # 0 /\ tgFlag \in BOOLEAN
    BY <1>1, <1>3, <1>4, FromTheClient, TimelyFacts DEF TgTypeOK
  <2>2. tgFlag = FALSE
    BY <2>1 DEF EndInv
  <2> QED BY <1>1, <2>2 DEF TgAdapt, Adapted
<1> QED BY <1>1, <1>2, <1>4, FromTheClient, RetryTimely

\* The block that is accepted is the next piece, whole.
LEMMA ExpectedIsNext ==
    ASSUME TimelyContext, NEW d \in InFlight, TgReceives(d), Expected(d)
    PROVE  /\ tsSent = N + 1 /\ N + 1 \in 1..Chunks /\ tgCount = Count(N + 1)
           /\ d.piece = N + 1 /\ d.size = PieceSize(N + 1)
           /\ tsPc \notin {"first", "send", "done"}
<1>1. tsSent \in {N, N + 1} /\ tgCount = Count(N + 1) /\ d.blk = tgCount
  BY FromTheClient, TimelyFacts DEF CountInv, Expected
<1>2. tsSent = N + 1
  BY <1>1, FromTheClient, NextNumber, TimelyFacts
<1>3. N + 1 \in 1..Chunks /\ d.piece = N + 1 /\ d.size = PieceSize(N + 1)
  BY <1>2, FromTheClient
<1>4. tsPc \notin {"first", "send", "done"}
  BY <1>2, <1>3, TimelyFacts DEF CountInv
<1> QED BY <1>1, <1>2, <1>3, <1>4

\* A step of the server that stores the next piece, of n bytes.
LEMMA PieceStored ==
    ASSUME TimelyContext, UNCHANGED tsvars, NEW d \in InFlight, TgReceives(d), Expected(d),
           NEW n, written' = Append(written, [piece |-> d.piece, size |-> n]),
           tgPc' = "failed" \/ n = d.size,
           TurnInv', tgPc' \in {"wait", "closing", "returned", "failed"},
           tgPc' = "wait" => tgCount' = Count(N + 2) /\ tgAck' \in {NoAck, Count(N + 1)},
           OneAtATime => EndInv'
    PROVE  TimelyInv'
<1>1. /\ tsSent = N + 1 /\ N + 1 \in 1..Chunks /\ d.piece = N + 1 /\ d.size = PieceSize(N + 1)
      /\ tsPc \notin {"first", "send", "done"} /\ tgPc = "wait"
  BY ExpectedIsNext, FromTheClient
<1>2. N' = N + 1 /\ written'[N + 1] = [piece |-> N + 1, size |-> n]
      /\ \A k \in 1..N : written'[k] = written[k]
  BY <1>1, TimelyFacts DEF N
<1>3. DOMAIN written = 1..N /\ DOMAIN written' = 1..(N + 1)
  BY <1>2, TimelyFacts DEF N
<1>4. SourceFile' = SourceFile /\ SourceFile[N + 1] = [piece |-> N + 1, size |-> PieceSize(N + 1)]
  BY <1>1 DEF SourceFile, PieceSize
<1>5. InOrder'
  BY <1>2, <1>3, TimelyFacts DEF InOrder
<1>6. StoreInv'
  <2>0. N \in Nat /\ \A k \in 1..(N + 1) : k \in 1..N \/ k = N + 1
    BY TimelyFacts
  <2>1. \A k \in 1..N : written'[k] = SourceFile[k]
    BY <1>1, <1>2, TimelyFacts DEF StoreInv
  <2>2. tgPc' # "failed" => written'[N + 1] = SourceFile[N + 1]
    BY <1>1, <1>2, <1>4
  <2>3. ~(N + 1 < N + 1)
    BY <2>0
  <2> QED BY <1>2, <1>4, <2>0, <2>1, <2>2, <2>3 DEF StoreInv
<1>7. CountInv'
  <2>1. UNCHANGED <<tsSent, tsPc, tsBuf, tsLen>> /\ N \in Nat
    BY TimelyFacts DEF tsvars
  <2>2. N' + 1 = N + 2 /\ N' > 0 /\ tsSent = N' /\ tsSent > 0
    BY <1>1, <1>2, <2>1
  <2>3. tsPc = "ack" => tsBuf[0] = tsSent /\ tsLen = PieceSize(tsSent)
    BY TimelyFacts DEF CountInv
  <2> QED BY <1>1, <1>2, <2>1, <2>2, <2>3 DEF CountInv, Count, PieceSize
<1> QED BY <1>5, <1>6, <1>7 DEF TimelyInv, OneAtATime

\* The next block is stored, and the top of the loop or the end of it reached.
LEMMA AcceptTimely ==
    ASSUME TimelyContext, UNCHANGED tsvars, NEW d \in InFlight, TgAccept(d)
    PROVE  TimelyInv'
<1>1. /\ tsSent = N + 1 /\ N + 1 \in 1..Chunks /\ tgCount = Count(N + 1)
      /\ d.piece = N + 1 /\ d.size = PieceSize(N + 1) /\ tgPc = "wait"
      /\ tsPc \notin TsEnded => Coming = {d} /\ tsPc # "send"
  BY ExpectedIsNext, FromTheClient DEF TgAccept
<1>2. /\ written' = Append(written, [piece |-> d.piece, size |-> d.size])
      /\ tgSize' = Adapted(d) /\ tgFlag' = FALSE
  BY DEF TgAccept, TgStore, TgAdapt
<1>3. N \in Nat /\ N' = N + 1 /\ N' # 0 /\ N' > 0
  BY <1>2, TimelyFacts DEF N
<1>4. Count(N + 1) \in 0..(M - 1) /\ (Count(N + 1) + 1) % M = Count(N + 2)
  BY <1>1, <1>3, NextNumber
<1> DEFINE r == TgReply(Count(N + 1))
<1>5. Reply(r) /\ r.op = "ACK" /\ r.blk = Count(N')
  BY <1>3, <1>4, ReplyKind DEF Count
<1> HIDE DEF r
<1>6. ASSUME OneAtATime
      PROVE  /\ N = 0 => tgFlag = TRUE /\ tgSize = SrvSize
             /\ N # 0 => Adapted(d) = PieceSize(1)
  <2>1. EndInv
    BY <1>6, TimelyFacts
  <2>2. tgFlag = (N = 0) /\ (N = 0 => tgSize = SrvSize) /\ (N > 0 => tgSize = PieceSize(1))
    BY <1>1, <2>1 DEF EndInv
  <2>3. CASE N = 0
    <3>1. tgFlag = TRUE
      BY <2>2, <2>3
    <3> QED BY <2>2, <2>3, <3>1
  <2>4. CASE N # 0
    <3>1. (N = 0) = FALSE /\ N > 0
      BY <1>3, <2>4
    <3>2. tgFlag = FALSE
      BY <2>2, <3>1
    <3> QED BY <2>2, <2>4, <3>1, <3>2 DEF Adapted
  <2> QED BY <2>3, <2>4
<1>7. CASE d.size = Adapted(d)
  <2>1. TgNextBlock({d}, Count(N + 1))
    BY <1>1, <1>7 DEF TgAccept
  <2>2. PICK S \in {{}, {r}} : TgAnswer({d}, S, "wait")
    BY <2>1 DEF TgNextBlock, r
  <2>3. tgCount' = Count(N + 2) /\ tgAck' \in {NoAck, Count(N + 1)}
    BY <1>4, <2>1 DEF TgNextBlock
  <2>4. TurnInv' /\ tgPc' \in {"wait", "returned"}
    <3>1. tsPc \notin TsEnded => Coming \subseteq {d} /\ tsPc # "send"
      BY <1>1
    <3>2. Reply(r) /\ (r.op = "ACK" => r.blk = Count(N'))
      BY <1>5
    <3>3. CASE TgAnswer({d}, {}, "wait")
      BY <1>1, <3>1, <3>2, <3>3, ServerAnswers
    <3>4. CASE TgAnswer({d}, {r}, "wait")
      BY <1>1, <3>1, <3>2, <3>4, ServerAnswers
    <3> QED BY <2>2, <3>3, <3>4
  <2>5. ASSUME OneAtATime PROVE EndInv'
    <3>1. tgSize' = PieceSize(1)
      BY <1>1, <1>2, <1>6, <1>7, <2>5
    <3> QED BY <1>2, <1>3, <2>4, <3>1 DEF EndInv, PieceSize
  <2> QED BY <1>2, <2>3, <2>4, <2>5, PieceStored DEF TgAccept
<1>8. CASE d.size # Adapted(d)
  <2>1. TgAnswer({d}, {r}, "closing")
    BY <1>1, <1>8 DEF TgAccept, r
  <2>2. TurnInv' /\ tgPc' \in {"closing", "returned"}
    BY <1>1, <1>5, <2>1, ServerAnswers
  <2>3. ASSUME OneAtATime PROVE N + 1 = Chunks
    <3>1. CASE N = 0
      BY <1>1, <1>6, <1>8, <2>3, <3>1 DEF OneAtATime, Adapted, PieceSize
    <3>2. CASE N # 0
      BY <1>1, <1>3, <1>6, <1>8, <2>3, <3>2 DEF PieceSize
    <3> QED BY <3>1, <3>2
  <2>4. OneAtATime => EndInv'
    BY <1>3, <2>2, <2>3 DEF EndInv
  <2> QED BY <1>2, <2>2, <2>4, PieceStored DEF TgAccept
<1> QED BY <1>7, <1>8

LEMMA DiskFullTimely ==
    ASSUME TimelyContext, UNCHANGED tsvars, NEW d \in InFlight, TgDiskFull(d)
    PROVE  TimelyInv'
<1>1. /\ TgReceives(d) /\ Expected(d) /\ Exchange({d}, {}) /\ tgPc' = "failed"
      /\ tsPc \notin TsEnded => Coming = {d}
  BY FromTheClient DEF TgDiskFull
<1>2. PICK n \in 0..(d.size - 1) : written' = Append(written, [piece |-> d.piece, size |-> n])
  BY DEF TgDiskFull, TgStore
<1>3. TurnInv'
  BY <1>1, ServerTurn
<1>4. EndInv'
  BY <1>1 DEF EndInv
<1> QED BY <1>1, <1>2, <1>3, <1>4, PieceStored

\* A step that leaves both programs alone, and sends nothing.
LEMMA QuietTimely ==
    ASSUME TimelyContext, UNCHANGED <<tsvars, tgvars>>,
           \A x \in InFlight' : x \in InFlight /\ (net[x] = 1 => net'[x] = 1)
    PROVE  TimelyInv'
<1>1. /\ \A x : Awaited(x)' <=> Awaited(x)
      /\ N' = N /\ (StoreInv' <=> StoreInv) /\ (EndInv' <=> EndInv) /\ (InOrder' <=> InOrder)
  BY DEF Awaited, tsvars, tgvars, N, StoreInv, EndInv, InOrder, SourceFile, PieceSize
<1>2. CountInv'
  BY TimelyFacts DEF CountInv, tsvars, tgvars, N, Count, PieceSize
<1>3. tsPc \notin TsEnded => Alone'
  BY <1>1, AloneIn, AloneStays
<1>4. Coming' \subseteq Coming
  BY <1>1 DEF Coming
<1>5. \A x \in InFlight' : Known(x)'
  BY TimelyFacts DEF TurnInv, Known, tsvars, Count, PieceSize
<1>6. UNCHANGED <<tsPc, tsSent, tgPc>>
  BY DEF tsvars, tgvars
<1>7. TurnInv'
  BY <1>1, <1>3, <1>4, <1>5, <1>6, TimelyFacts DEF TurnInv, Alone, Count
<1> QED BY <1>1, <1>2, <1>7, TimelyFacts DEF TimelyInv, OneAtATime

LEMMA CloseTimely ==
    ASSUME TimelyContext, UNCHANGED tsvars, TgClose
    PROVE  TimelyInv'
<1>1. /\ tgPc = "closing" /\ tgPc' = "done"
      /\ UNCHANGED <<tgCount, tgAck, tgJ, tgSize, tgFlag, netvars>>
  BY DEF TgClose
<1>2. CASE UNCHANGED written
  <2>1. \A x : Awaited(x)' <=> Awaited(x)
    BY <1>1 DEF Awaited, tsvars
  <2>2. Coming' = Coming /\ InFlight' = InFlight /\ net' = net
    BY <1>1, <2>1 DEF Coming, InFlight, netvars
  <2>3. N' = N
    BY <1>2 DEF N
  <2>4. TurnInv'
    <3>1. \A x \in InFlight' : Known(x)'
      BY <2>2, TimelyFacts DEF TurnInv, Known, tsvars, Count, PieceSize
    <3>2. UNCHANGED <<tsPc, tsSent>>
      BY DEF tsvars
    <3>3. tsPc \notin TsEnded => Alone'
      BY <2>2, AloneIn DEF Alone
    <3>4. ASSUME NEW x \in InFlight', tsPc \notin TsEnded, x.src = "child", x.op = "ACK"
          PROVE  x.blk = Count(N)
      BY <2>2, <3>4, TimelyFacts DEF TurnInv
    <3>5. /\ tsPc = "send" => Coming' = {}
          /\ Wrq \in Coming' => tsPc = "first"
      BY <2>2, TimelyFacts DEF TurnInv
    <3> QED BY <1>1, <2>3, <3>1, <3>2, <3>3, <3>4, <3>5 DEF TurnInv, Alone, Count
  <2>5. OneAtATime => EndInv'
    BY <1>1, <2>3, TimelyFacts DEF EndInv
  <2> QED BY <1>1, <1>2, <2>4, <2>5, FileStays
<1>3. CASE "flush" \in Faults /\ \E n \in 0..(N - 1) : written' = SubSeq(written, 1, n)
  <2>1. PICK n \in 0..(N - 1) : written' = SubSeq(written, 1, n)
    BY <1>3
  <2> DEFINE P == [piece : Nat, size : Nat]
  <2>2. N \in Nat /\ n \in Int /\ 0 <= n /\ n < N /\ written \in Seq(P) /\ DOMAIN written = 1..N
    BY TimelyFacts DEF N
  <2>3. /\ DOMAIN written' \subseteq DOMAIN written
        /\ \A k \in DOMAIN written' : written'[k] = written[k]
    <3> HIDE DEF P
    <3>1. \A k \in 1..n : written[k] \in P /\ k \in 1..N
      BY <2>2, ElementOfSeq DEF N
    <3>2. /\ written' \in Seq(P) /\ Len(written') = n
          /\ \A k \in 1..n : written'[k] = written[k]
      BY <2>1, <2>2, <3>1, SubSeqProperties
    <3>3. DOMAIN written' = 1..n
      BY <3>2
    <3> QED BY <2>2, <3>1, <3>2, <3>3
  <2>4. InOrder'
    BY <2>3, TimelyFacts DEF InOrder
  <2>5. ~Intact'
    BY <1>1, <1>3 DEF Intact
  <2> QED BY <2>4, <2>5 DEF TimelyInv
<1> QED BY <1>2, <1>3 DEF TgClose, N

LEMMA ServerTimely ==
    ASSUME TimelyContext, ServerStep
    PROVE  TimelyInv'
<1>0. UNCHANGED tsvars
  BY DEF ServerStep
<1>1. CASE TgClose
  BY <1>0, <1>1, CloseTimely
<1>2. CASE Expired /\ TgTimeout
  <2>1. Coming = {} /\ tsPc # "send"
    BY <1>2, NothingComes
  <2> QED BY <1>0, <1>2, <2>1, RetryTimely DEF TgTimeout
<1>3. ASSUME NEW d \in InFlight, TgForeign(d) PROVE TimelyInv'
  <2>1. Exchange({d}, {}) /\ UNCHANGED tgvars
    BY <1>3 DEF TgForeign
  <2>2. \A x \in InFlight' : x \in InFlight /\ (net[x] = 1 => net'[x] = 1)
    BY <2>1, Taken, TimelyFacts
  <2> QED BY <1>0, <2>1, <2>2, QuietTimely
<1>4. ASSUME NEW d \in InFlight,
             TgStart(d) \/ TgRefuse(d) \/ TgAccept(d) \/ TgDiskFull(d) \/ TgMismatch(d)
      PROVE  TimelyInv'
  BY <1>0, <1>4, StartTimely, AcceptTimely, DiskFullTimely, MismatchTimely
<1> QED BY <1>1, <1>2, <1>3, <1>4 DEF ServerStep

--------------------------------------------------------------------------------
(* ... and the network, which makes no duplicate.                              *)

LEMMA NetTimely ==
    ASSUME TimelyContext, NetStep
    PROVE  TimelyInv'
<1>1. PICK d \in InFlight : Lose(d)
  <2>1. ~(dups < 0)
    BY TimelyFacts DEF NetTypeOK
  <2> QED BY <2>1, TimelyFacts DEF NetStep, Duplicate, Timely
<1>2. net' = net (-) SetToBag({d})
  BY <1>1 DEF Lose
<1>3. \A x \in InFlight' : x \in InFlight /\ (net[x] = 1 => net'[x] = 1)
  BY <1>2, TimelyFacts DEF InFlight, BagToSet, SetToBag, (-), IsABag
<1> QED BY <1>3, QuietTimely DEF NetStep

\* fclose() has lost something, and the child has gone: the file stays as it is.
LEMMA ClosedStays ==
    ASSUME ~Intact, TimelyInv, [Next]_vars
    PROVE  TimelyInv'
<1>1. tgPc = "done" /\ "flush" \in Faults
  BY DEF Intact
<1>2. UNCHANGED tgvars
  BY <1>1 DEF Next, ClientStep, ServerStep, NetStep, vars, TgClose, TgTimeout, TgStart, TgRefuse,
              TgAccept, TgDiskFull, TgMismatch, TgForeign, TgReceives
<1> QED BY <1>1, <1>2 DEF TimelyInv, InOrder, Intact, tgvars

LEMMA InitTimely ==
    ASSUME Timely, Init
    PROVE  TimelyInv
<1>1. InFlight = {Wrq} \cup Stray /\ net[Wrq] = 1
  BY DEF Init, NetInit, InFlight, BagToSet, SetToBag
<1>2. Wrq.src = "client" /\ Wrq.dst = "tftpd" /\ Wrq.op = "WRQ"
  BY DEF Wrq, Control
<1>3. \A d \in Stray : d.src = "stranger" /\ d.op # "WRQ"
  BY DEF Timely
<1>4. Coming \subseteq {Wrq}
  BY <1>1, <1>3 DEF Coming
<1>5. tgPc = "listen" /\ tsPc = "first" /\ tsSent = 0 /\ written = <<>> /\ tgFlag = TRUE
      /\ tgSize = SrvSize
  BY DEF Init, TsInit, TgInit
<1>6. N = 0
  BY <1>5 DEF N
<1>7. TurnInv
  <2>1. \A d \in InFlight : d.src # "child" /\ Known(d)
    BY <1>1, <1>2, <1>3 DEF Known
  <2>2. /\ \A d \in Coming : net[d] = 1
        /\ \A d, e \in Coming : d = e
    BY <1>1, <1>4
  <2> QED BY <1>5, <2>1, <2>2 DEF TurnInv
<1>8. CountInv /\ StoreInv /\ EndInv /\ InOrder
  <2>1. tgFlag = (N = 0)
    BY <1>5, <1>6
  <2> QED BY <1>5, <1>6, <2>1 DEF CountInv, StoreInv, EndInv, InOrder
<1> QED BY <1>7, <1>8 DEF TimelyInv

LEMMA TimelyInvariant ==
    ASSUME Timely
    PROVE  Spec => [](TypeInv /\ TimelyInv)
<1>1. TypeInv /\ TimelyInv /\ [Next]_vars => TimelyInv'
  <2> SUFFICES ASSUME TypeInv, TimelyInv, [Next]_vars, Intact PROVE TimelyInv'
    BY ClosedStays
  <2>1. TimelyContext
    BY TypeStays DEF TimelyContext
  <2>2. CASE UNCHANGED vars
    <3>1. UNCHANGED <<tsvars, tgvars>> /\ net' = net /\ InFlight' = InFlight
      BY <2>2 DEF vars, netvars, InFlight
    <3> QED BY <2>1, <3>1, QuietTimely
  <2> QED BY <2>1, <2>2, ClientTimely, ServerTimely, NetTimely DEF Next
<1> QED BY <1>1, TypeStays, InitType, InitTimely, PTL DEF Spec

\* One piece at a time and in time, the file on the server is a prefix of the
\* client's file, in order, also when the file has more pieces than there are block
\* numbers (count is 16 bits wide, tftpd.c:463; tftpc.c:427), whatever is lost,
\* fails or comes from other hosts, and whatever the server's ack frequency.
THEOREM UploadWrappedInOrder ==
    ASSUME Timely
    PROVE  Spec => []InOrder
<1>1. TimelyInv => InOrder
  BY DEF TimelyInv
<1> QED BY <1>1, TimelyInvariant, PTL

\* When all N = Chunks pieces are stored whole, the file is the client's.
LEMMA AllStored ==
    ASSUME TypeInv, StoreInv, N = Chunks, tgPc # "failed"
    PROVE  written = SourceFile
<1>1. DOMAIN written = 1..Chunks /\ DOMAIN SourceFile = 1..Chunks
  BY DEF TypeInv, TypeOK, TgTypeOK, N, SourceFile
<1>2. \A k \in 1..Chunks : written[k] = SourceFile[k]
  BY DEF StoreInv
<1>3. written = [k \in 1..Chunks |-> written[k]]
  BY <1>1 DEF TypeInv, TypeOK, TgTypeOK
<1>4. SourceFile = [k \in 1..Chunks |-> SourceFile[k]]
  BY DEF SourceFile
<1> QED BY <1>2, <1>3, <1>4

\* ... and "File sent successfully" (tftpc.c:565) means that the server has stored
\* the whole file, unless fclose() loses some of it.
THEOREM UploadWrappedSuccess ==
    ASSUME Timely, "flush" \notin Faults
    PROVE  Spec => []NoFalseSuccess
<1>1. TypeInv /\ TimelyInv => NoFalseSuccess
  BY AllStored DEF TimelyInv, Intact, CountInv, NoFalseSuccess
<1> QED BY <1>1, TimelyInvariant, PTL

\* ... and so does "File received successfully" (tftpd.c:523), with datasizes the
\* server can tell the last block by.
THEOREM UploadWrappedHasFile ==
    ASSUME Timely, OneAtATime, "flush" \notin Faults
    PROVE  Spec => []ServerHasFile
<1>1. TypeInv /\ TimelyInv => ServerHasFile
  BY AllStored DEF TimelyInv, Intact, EndInv, ServerHasFile
<1> QED BY <1>1, TimelyInvariant, PTL

\* The block that is accepted is the next piece of the file, while it is open.
LEMMA TimelyTaken ==
    ASSUME TypeInv, TypeInv', Timely, TimelyInv
    PROVE  NextTaken
<1> SUFFICES ASSUME NEW d \in InFlight, TgAccept(d)
             PROVE  N \in Nat /\ N < Chunks /\ written' = Append(written, SourceFile[N + 1])
  BY DEF NextTaken
<1>1. /\ TgReceives(d) /\ Expected(d)
      /\ written' = Append(written, [piece |-> d.piece, size |-> d.size])
  BY DEF TgAccept, TgStore
<1>2. TimelyContext
  BY <1>1 DEF TimelyContext, Intact, TgReceives
<1>3. N \in Nat /\ N + 1 \in 1..Chunks /\ d.piece = N + 1 /\ d.size = PieceSize(N + 1)
  BY <1>1, <1>2, ExpectedIsNext, TimelyFacts
<1> QED BY <1>1, <1>3 DEF SourceFile

\* ... and the upload is a file transfer, as in UploadIsTransfer.
THEOREM UploadWrappedIsTransfer ==
    ASSUME Timely, OneAtATime, Faults \subseteq {"open"}
    PROVE  Spec => IsTransfer
<1> DEFINE All == TypeInv /\ TimelyInv
<1>1. Init => Transfer!FtInit
  BY DEF Init, TsInit, TgInit, Transfer!FtInit, TsEnded, TgEnded
<1>2. All => NoFalseSuccess /\ (tgPc = "closing" => written = SourceFile)
  BY AllStored DEF TimelyInv, Intact, CountInv, EndInv, NoFalseSuccess
<1>3. All /\ All' /\ [Next]_vars
        => [Transfer!Store \/ Transfer!ReceiverEnds \/ Transfer!SenderEnds]_(Transfer!ftvars)
  <2>1. NetStep \/ UNCHANGED vars => UNCHANGED Transfer!ftvars
    BY DEF NetStep, vars, tsvars, tgvars, Transfer!ftvars
  <2>2. All' => NoFalseSuccess'
    BY <1>2, PTL
  <2>3. All /\ All' => NextTaken
    BY TimelyTaken
  <2> QED BY <1>2, <2>1, <2>2, <2>3, ClientTransfers, ServerTransfers DEF Next
<1> QED BY <1>1, <1>3, TimelyInvariant, PTL DEF Spec, IsTransfer, Transfer!FtSpec
================================================================================
