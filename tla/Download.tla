-------------------------------- MODULE Download -------------------------------
(***************************************************************************)
(* One download: tget() of tftpc.c, the network, and the child of tftpd.c  *)
(* that runs tsend().  The RRQ is duplicated by nobody here: one child.    *)
(***************************************************************************)
EXTENDS TftpdSend, TftpcGet

CONSTANT Slow       \* may a 2-second timeout expire while an answer is coming?

ASSUME SlowAssumption == Slow \in BOOLEAN

vars == <<netvars, cgvars, dsvars>>

TypeOK == NetTypeOK /\ CgTypeOK /\ DsTypeOK

Init == NetInit({Rrq} \cup Stray) /\ CgInit /\ DsInit

\* A datagram that somebody is going to receive.
Awaited(d) ==
    \/ d.dst = "client" /\ cgPc \in {"open", "wait"}
    \/ d.dst = "child" /\ dsPc = "ack"
    \/ d.dst = "tftpd" /\ dsPc = "listen"

\* When a timeout can expire.  Delays are far below 2 seconds unless Slow, so
\* an unslow timeout means that nothing is coming and nobody is about to send.
Expired ==
    \/ Slow
    \/ /\ dsPc # "send" /\ cgPc \notin {"open", "last"}
       /\ \A d \in InFlight : ~Awaited(d)

\* Both programs poll 2001 times at intervals of a millisecond: unless Slow, the
\* client's n-th timeout does not come before the server's timeout n - 1.
Paced == Slow \/ (dsPc = "ack" => cgJ <= dsJ)

ClientStep ==
    /\ UNCHANGED dsvars
    /\ \/ CgOpen
       \/ CgLast
       \/ Expired /\ Paced /\ CgTimeout
       \/ \E d \in InFlight :
             CgAccept(d) \/ CgDiskFull(d) \/ CgMismatch(d) \/ CgForeign(d)

ServerStep ==
    /\ UNCHANGED cgvars
    /\ \/ DsSendPiece
       \/ Expired /\ DsTimeout
       \/ \E d \in InFlight :
             DsStart(d) \/ DsRefuse(d) \/ DsAcked(d) \/ DsMismatch(d) \/ DsForeign(d)

NetStep ==
    /\ UNCHANGED <<cgvars, dsvars>>
    /\ \E d \in InFlight : Lose(d) \/ (d.op # "RRQ" /\ d \notin Stray /\ Duplicate(d))

Next == ClientStep \/ ServerStep \/ NetStep

Spec == Init /\ [][Next]_vars

\* Each program runs its receive loop forever: it receives or it times out.
FairSpec == Spec /\ WF_vars(ClientStep) /\ WF_vars(ServerStep)

--------------------------------------------------------------------------------

\* The pieces of the server's file, whole.
SourceFile == [k \in 1..Chunks |-> [piece |-> k, size |-> PieceSize(k)]]

AckLost == \E i \in DOMAIN lost : lost[i].op = "ACK"

\* The client sends its ACKs to the child once it knows a port at all: the port is
\* "the tid of the server" (the comment at tftpc.c:630).
PeerIsServer == PortKnown => cgPeer = "child"

\* As long as no ACK has been lost or sent to a port that is not the server's,
\* what the client has written is the beginning of the server's file: with ack
\* frequency 1 and answers in time, the client needs no look at the block number
\* (tftpc.c:679), because the server sends again only what was lost.
InOrderUnlessAckLost ==
    \/ AckLost \/ ~PeerIsServer
    \/ \A i \in DOMAIN got : got[i] = SourceFile[i]

\* If the client prints "File received successfully" (tftpc.c:738), what it has
\* stored is the server's file.  After a lost ACK the client stores the same
\* piece twice, but then the server's and the client's counts never agree again
\* and the client does not reach the last block.
NoFalseSuccess == cgPc = "done" => got = SourceFile

\* If the server prints "File sent successfully" (tftpd.c:794), the client has
\* stored the server's file.
ServerKnows == dsPc = "done" => got = SourceFile

\* What the server would send again now is every piece it has sent since its last
\* stop and no other (unlike the windows of tftpc.c, those of tsend() in tftpd.c
\* begin in slot 0), and all of them have one length, that of the last piece sent
\* (tftpd.c:753).  That is their own length, unless the window ends the file: then
\* the pieces before the last one are cut to its length.
WindowResent ==
    dsPc = "ack" =>
        LET first == dsSent - DsSlot(Count(dsSent)) IN
        /\ first = 1 \/ DsWaitsForAck(first - 1)
        /\ DsResent(dsLen) = {DsPacket(k, PieceSize(dsSent)) : k \in first..dsSent}

\* The client ends, whatever the network and the server do (tftpc.c:720).
ClientTerminates == <>(cgPc \in CgEnded)

\* A child that has started ends too, whether or not the client has died
\* (tftpd.c:654, 778).
ChildTerminates == dsPc = "send" ~> dsPc \in DsEnded

\* The datagrams whose loss no retry repairs: the RRQ, which is sent once, the
\* first block, because the client's first timeout spoils the port it sends to,
\* and the ACK of any block but the last, after which the client stores the
\* resent block as the next one.  The ACK of the last block is sent twice.
Vital == {Rrq, DsPacket(1, PieceSize(1))}
            \cup {Ack("client", "child", c) : c \in 1..(Chunks - 1)}

\* Any other loss is repaired, two in a row included: both sides succeed.
LossRepaired ==
    <>(\/ cgPc = "done" /\ dsPc = "done"
       \/ \E i \in DOMAIN lost : lost[i] \in Vital
       \/ Len(lost) = 2 /\ lost[1] = lost[2] /\ lost[1].op = "ACK")
================================================================================
