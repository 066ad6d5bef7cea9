------------------------------- MODULE TftpdSend -------------------------------
(***************************************************************************)
(* tsend() of tftpd.c: the child process that serves one read request.     *)
(* It sends the file of Chunks pieces of SrvSize bytes, the last one       *)
(* shorter, and waits for an ACK after block 1, after every SrvAck blocks  *)
(* that follow, and after the last one.                                    *)
(***************************************************************************)
EXTENDS Tftp

CONSTANTS
    SrvAck,     \* -a: the server's ackfreq
    SrvSize,    \* -s: the server's datasize
    Chunks,     \* how many pieces the file has
    LastSize,   \* the size of the last one
    Debug       \* -d: debug mode, which also receives in one more place

ASSUME TftpdSendAssumption ==
    /\ SrvAck \in Nat /\ SrvAck > 0
    /\ SrvSize \in Nat /\ SrvSize > 0
    /\ Chunks \in Nat /\ Chunks > 0
    /\ LastSize \in 0..(SrvSize - 1)
    /\ Debug \in BOOLEAN

\* (0 - 2) % ackfreq is negative in C: see SlotAssumption of TftpcSend.
ASSUME DsSlotAssumption == SrvAck <= 2 \/ Chunks < M

VARIABLES
    dsPc,       \* where the child is, or how it ended
    dsSent,     \* how many pieces it has read and sent
    dsBuf,      \* packetbuf[]: the piece each slot holds, 0 when unused
    dsLen,      \* len - 4: the payload of the next sendto() of a slot
    dsJ         \* j: attempts made for this ACK

dsvars == <<dsPc, dsSent, dsBuf, dsLen, dsJ>>

DsEnded == {"refused", "done", "aborted", "returned"}

DsTypeOK ==
    /\ dsPc \in {"listen", "send", "ack"} \cup DsEnded
    /\ dsSent \in 0..Chunks
    /\ dsBuf \in [0..(SrvAck - 1) -> 0..Chunks]
    /\ dsLen \in Nat
    /\ dsJ \in 0..RETRIES

DsInit ==
    /\ dsPc = "listen"
    /\ dsSent = 0
    /\ dsBuf = [s \in 0..(SrvAck - 1) |-> 0]
    /\ dsLen = 0
    /\ dsJ = 0

PieceSize(k) == IF k = Chunks THEN LastSize ELSE SrvSize

Count(k) == k % M

\* Mutant: the windows are those of the client, one piece earlier.
DsWaitsAtMultiples(k) == Count(k) % SrvAck = 0 \/ PieceSize(k) # SrvSize

\* The server stops for an ACK after piece k.
DsWaitsForAck(k) == (Count(k) - 1) % SrvAck = 0 \/ PieceSize(k) # SrvSize

\* bcount: the slot of packetbuf[] that block c goes to.
DsSlot(c) == IF c \in {1, 2} THEN 0 ELSE (c - 2) % SrvAck

DsPacket(k, n) == Data("child", "client", Count(k), k, n)

DsAnswer(D, S, pc) ==
    \/ Exchange(D, S) /\ dsPc' = pc
    \/ ExchangeFails(D, S) /\ dsPc' = "returned"

\* main() forks a child for an RRQ, which opens the file.
DsStart(d) ==
    /\ dsPc = "listen" /\ d.dst = "tftpd" /\ d.op = "RRQ"
    /\ dsPc' = "send"
    /\ Exchange({d}, {})
    /\ UNCHANGED <<dsSent, dsBuf, dsLen, dsJ>>

\* A forbidden name, or a file that cannot be opened: ERROR and no transfer.
DsRefuse(d) ==
    /\ dsPc = "listen" /\ d.dst = "tftpd" /\ d.op = "RRQ"
    /\ "open" \in Faults
    /\ \/ Exchange({d}, {Error("child", "client")})
       \/ ExchangeFails({d}, {Error("child", "client")})
    /\ dsPc' = "refused"
    /\ UNCHANGED <<dsSent, dsBuf, dsLen, dsJ>>

\* In debug mode a piece that needs no ACK is followed by one recvfrom() whose
\* result is dropped.
DsDropped == {{}} \cup {{d} : d \in {m \in InFlight : m.dst = "child"}}

DsSendPiece ==
    LET k == dsSent + 1 IN
    /\ dsPc = "send"
    /\ dsSent' = k
    /\ dsBuf' = [dsBuf EXCEPT ![DsSlot(Count(k))] = k]
    /\ dsLen' = PieceSize(k)
    /\ \/ /\ DsWaitsForAck(k)
          /\ dsJ' = 0
          /\ DsAnswer({}, {DsPacket(k, PieceSize(k))}, "ack")
       \/ /\ ~DsWaitsForAck(k)
          /\ UNCHANGED dsJ
          /\ \E D \in IF Debug THEN DsDropped ELSE {{}} :
                DsAnswer(D, {DsPacket(k, PieceSize(k))}, "send")

DsReceives(d) == dsPc = "ack" /\ d.dst = "child" /\ FromHost(d, "here")

DsAcks(d) == d.op = "ACK" /\ d.blk = Count(dsSent)

\* Mutant: no break after the right ACK, so the resend loop follows.
DsAckedResends(d) ==
    /\ DsReceives(d) /\ DsAcks(d)
    /\ dsPc' = IF PieceSize(dsSent) # SrvSize THEN "done" ELSE "send"
    /\ Exchange({d}, {DsPacket(dsSent, dsLen)})
    /\ UNCHANGED <<dsSent, dsBuf, dsLen, dsJ>>

DsAcked(d) ==
    /\ DsReceives(d) /\ DsAcks(d)
    /\ dsPc' = IF PieceSize(dsSent) # SrvSize THEN "done" ELSE "send"
    /\ Exchange({d}, {})
    /\ UNCHANGED <<dsSent, dsBuf, dsLen, dsJ>>

\* The resend loop: slots 0..bcount, every one of them with n bytes.
DsSlots == 0..DsSlot(Count(dsSent))

\* Mutant: the loop over the slots ends too early (i < bcount).
DsResentButLast(n) == {DsPacket(dsBuf[s], n) : s \in DsSlots \ {DsSlot(Count(dsSent))}}

DsResent(n) == {DsPacket(dsBuf[s], n) : s \in DsSlots}

\* Mutant: j == RETRIES is not tested after the loop.
DsRetryUnchecked(D, S, n) ==
    /\ dsJ' = dsJ + 1
    /\ dsLen' = n
    /\ DsAnswer(D, S \cup DsResent(n),
                IF dsJ + 1 < RETRIES THEN "ack"
                ELSE IF PieceSize(dsSent) # SrvSize THEN "done" ELSE "send")
    /\ UNCHANGED <<dsSent, dsBuf>>

DsRetry(D, S, n) ==
    /\ dsJ' = dsJ + 1
    /\ dsLen' = n
    /\ DsAnswer(D, S \cup DsResent(n),
                IF dsJ + 1 = RETRIES THEN "aborted" ELSE "ack")
    /\ UNCHANGED <<dsSent, dsBuf>>

\* Any other datagram of the client's host.  The complaint about an operation
\* code above 5 is built with the same `len` the resend loop uses.
DsMismatch(d) ==
    /\ DsReceives(d) /\ ~DsAcks(d)
    /\ DsRetry({d}, Complaint("child", "client", d),
               IF d.op = "BAD" THEN ErrSize ELSE dsLen)

\* Mutant: a blocking recvfrom(), no timeout.
DsTimeoutNever == dsPc = "ack" /\ UNCHANGED <<dsvars, netvars>>

DsTimeout == dsPc = "ack" /\ DsRetry({}, {}, dsLen)

\* A datagram of another host is dropped and is not counted.
DsForeign(d) ==
    /\ dsPc = "ack" /\ d.dst = "child" /\ ~FromHost(d, "here")
    /\ Exchange({d}, {})
    /\ UNCHANGED dsvars
================================================================================
