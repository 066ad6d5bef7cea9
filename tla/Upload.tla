--------------------------------- MODULE Upload --------------------------------
(***************************************************************************)
(* One upload: tsend() of tftpc.c, the network, and the child of tftpd.c   *)
(* that runs tget().  The WRQ is duplicated by nobody here: one child.     *)
(***************************************************************************)
EXTENDS TftpcSend, TftpdGet

CONSTANT Slow       \* may a 2-second timeout expire while an answer is coming?

ASSUME SlowAssumption == Slow \in BOOLEAN

VARIABLE vital      \* history: has a vital datagram been lost?

vars == <<netvars, tsvars, tgvars, vital>>

TypeOK == NetTypeOK /\ TsTypeOK /\ TgTypeOK

Init == NetInit({Wrq} \cup Stray) /\ TsInit /\ TgInit /\ vital = FALSE

\* A datagram that somebody is going to receive.
Awaited(d) ==
    \/ d.dst = "client" /\ tsPc \notin TsEnded
    \/ d.dst = "child" /\ tgPc = "wait"
    \/ d.dst = "tftpd" /\ tgPc = "listen"

\* When a timeout can expire.  Delays are far below 2 seconds unless Slow, so
\* an unslow timeout means that nothing is coming and nobody is about to send.
Expired ==
    \/ Slow
    \/ tsPc # "send" /\ \A d \in InFlight : ~Awaited(d)

ClientStep ==
    /\ UNCHANGED <<tgvars, vital>>
    /\ \/ TsSendPiece
       \/ Expired /\ (TsFirstTimeout \/ TsTimeout)
       \/ \E d \in InFlight :
             TsFirst(d) \/ TsFirstForeign(d) \/ TsAcked(d) \/ TsMismatch(d) \/ TsForeign(d)

ServerStep ==
    /\ UNCHANGED <<tsvars, vital>>
    /\ \/ TgClose
       \/ Expired /\ TgTimeout
       \/ \E d \in InFlight :
             TgStart(d) \/ TgRefuse(d) \/ TgAccept(d) \/ TgDiskFull(d)
                \/ TgMismatch(d) \/ TgForeign(d)

\* The datagrams whose loss no retry repairs: the WRQ; the ACK of the WRQ, while the
\* client makes its single attempt to receive it (tftpc.c:344); and the last ACK of
\* the child, which has gone when the client asks for it again.  A block number does
\* not tell them: others can have the same one.
Vital(d) ==
    \/ d = Wrq
    \/ d = Ack("child", "client", 0) /\ tsPc = "first"
    \/ d = Ack("child", "client", Count(Chunks)) /\ tgPc \in {"closing", "done"}

NetStep ==
    /\ UNCHANGED <<tsvars, tgvars>>
    /\ \E d \in InFlight :
          \/ Lose(d) /\ vital' = (vital \/ Vital(d))
          \/ d.op # "WRQ" /\ d \notin Stray /\ Duplicate(d) /\ UNCHANGED vital

Next == ClientStep \/ ServerStep \/ NetStep

Spec == Init /\ [][Next]_vars

\* Each program runs its receive loop forever: it receives or it times out.
FairSpec == Spec /\ WF_vars(ClientStep) /\ WF_vars(ServerStep)

--------------------------------------------------------------------------------

\* The pieces of the client's file, whole.
SourceFile == [k \in 1..Chunks |-> [piece |-> k, size |-> PieceSize(k)]]

\* The file on the server is a prefix of the client's file in the order of its
\* pieces: no piece is stored twice, skipped or out of place, however the
\* datagrams were lost, duplicated, delayed or overtaken (tftpd.c:463, the test
\* on the block number; count is 16 bits wide).
InOrder == \A i \in DOMAIN written : written[i].piece = i

\* If the client prints "File sent successfully" (tftpc.c:565), every piece of
\* the file has been stored whole by the server, whatever the two ack
\* frequencies and data sizes.
NoFalseSuccess == tsPc = "done" => written = SourceFile

\* If the server prints "File received successfully" (tftpd.c:523), the file it
\* has closed is the client's file.
ServerHasFile == tgPc = "done" => written = SourceFile

\* An ACK in flight names a block that the server has stored: the block number
\* of the reply is never ahead of fwrite().
AckedIsStored ==
    \A d \in InFlight : d.op = "ACK" /\ d.src = "child" => d.blk <= Len(written)

\* Every piece the client has sent and the server has not stored is still in its
\* slot of packetbuf[], but for the first piece of the file: block 2 takes the slot
\* of block 1 (tftpc.c:428), which is lost to the client from then on.
MissingIsKept ==
    \A k \in (Len(written) + 1)..tsSent :
        tsBuf[Slot(Count(k))] = k \/ (k = 1 /\ tsSent > 1)

\* What an upload with ack frequency 1 promises.
Transfer ==
    INSTANCE FileTransfer WITH
        File <- SourceFile,
        stored <- written,
        receiver <- IF tgPc = "done" THEN "succeeded"
                    ELSE IF tgPc \in TgEnded THEN "failed" ELSE "open",
        sender <- IF tsPc = "done" THEN "succeeded"
                  ELSE IF tsPc \in TsEnded THEN "failed" ELSE "open"

\* The upload implements the promise of a file transfer.
IsTransfer == Transfer!FtSpec

\* The client ends, whatever the network and the server do: every wait is
\* bounded by RETRIES (tftpc.c:458).
ClientTerminates == <>(tsPc \in TsEnded)

\* A child that has started ends too, if its client has died or not (tftpd.c:380).
ChildTerminates == tgPc = "wait" ~> tgPc \in TgEnded

\* Any loss but that of a vital datagram is repaired: both sides end with success
\* (the purpose of the retry loops; RETRIES is "Number of times to resend ...
\* before giving up").
LossRepaired == <>(vital \/ (tsPc = "done" /\ tgPc = "done"))
================================================================================
