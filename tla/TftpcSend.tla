------------------------------- MODULE TftpcSend -------------------------------
(***************************************************************************)
(* tsend() of tftpc.c, and the part of main() that calls it: the client    *)
(* that uploads one file.  The file has Chunks pieces of DataSize bytes,   *)
(* the last one shorter (fread() returned less than datasize).  The client *)
(* sends CAck pieces, then waits for the ACK of the last of them, keeping  *)
(* the pieces in packetbuf[] to send them again.                           *)
(***************************************************************************)
EXTENDS Tftp

CONSTANTS
    CAck,       \* -w: the client's ackfreq
    DataSize,   \* -l: the client's datasize
    Chunks,     \* how many pieces the file has
    LastSize,   \* the size of the last one
    Debug       \* -d: debug mode, which also receives in one more place

ASSUME TftpcSendAssumption ==
    /\ CAck \in Nat /\ CAck > 0
    /\ DataSize \in Nat /\ DataSize > 0
    /\ Chunks \in Nat /\ Chunks > 0
    /\ LastSize \in 0..(DataSize - 1)
    /\ Debug \in BOOLEAN

\* Block number 0 of a file that wraps count would go to the slot
\* (0 - 2) % ackfreq, which C takes from the negative side: for ackfreq > 2 it
\* lies outside of packetbuf[], and nothing more can be said of the program.
ASSUME SlotAssumption == CAck <= 2 \/ Chunks < M

VARIABLES
    tsPc,       \* where the client is, or how it ended
    tsSent,     \* how many pieces it has read and sent
    tsBuf,      \* packetbuf[]: the piece each slot holds, 0 when unused
    tsLen,      \* len - 4: the payload of the next sendto() of a slot
    tsJ,        \* j: attempts made for this ACK
    tsPeer      \* server.sin_port: the socket it sends to

tsvars == <<tsPc, tsSent, tsBuf, tsLen, tsJ, tsPeer>>

TsEnded == {"done", "aborted", "returned"}

TsTypeOK ==
    /\ tsPc \in {"first", "send", "ack"} \cup TsEnded
    /\ tsSent \in 0..Chunks
    /\ tsBuf \in [0..(CAck - 1) -> 0..Chunks]
    /\ tsLen \in Nat
    /\ tsJ \in 0..RETRIES
    /\ tsPeer \in Socket

\* main() has sent the WRQ: the composition puts Wrq in flight.
Wrq == Control("client", "tftpd", "WRQ", 0)

TsInit ==
    /\ tsPc = "first"
    /\ tsSent = 0
    /\ tsBuf = [s \in 0..(CAck - 1) |-> 0]
    /\ tsLen = 0
    /\ tsJ = 0
    /\ tsPeer = "tftpd"

PieceSize(k) == IF k = Chunks THEN LastSize ELSE DataSize

Count(k) == k % M

\* Mutant: slots counted from the first piece of the file.
SlotFromFirst(c) == (c - 1) % CAck

\* bcount: the slot of packetbuf[] that block c goes to.
Slot(c) == IF c \in {1, 2} THEN 0 ELSE (c - 2) % CAck

\* Mutant: the client stops only after the last piece.
WaitsForAckAtEnd(k) == PieceSize(k) # DataSize

\* The client stops for an ACK after piece k.
WaitsForAck(k) == Count(k) % CAck = 0 \/ PieceSize(k) # DataSize

Packet(k, n) == Data("client", tsPeer, Count(k), k, n)

TsReceives(d) == d.dst = "client" /\ FromHost(d, "there")

\* The single attempt to receive ACK 0.  Whatever comes, or nothing, the client
\* goes on to send; it sends to the port the datagram came from.
TsFirst(d) ==
    /\ tsPc = "first" /\ TsReceives(d)
    /\ tsPc' = "send"
    /\ tsPeer' = d.src
    /\ Exchange({d}, Complaint("client", d.src, d))
    /\ UNCHANGED <<tsSent, tsBuf, tsLen, tsJ>>

\* A datagram of another host is not counted, but its port is kept.
TsFirstForeign(d) ==
    /\ tsPc = "first" /\ d.dst = "client" /\ ~FromHost(d, "there")
    /\ tsPeer' = "nobody"
    /\ Exchange({d}, {})
    /\ UNCHANGED <<tsPc, tsSent, tsBuf, tsLen, tsJ>>

\* Mutant: the first wait is repeated until ACK 0 comes.
TsFirstTimeoutAgain ==
    /\ tsPc = "first"
    /\ tsPeer' \in IF tsPeer = "tftpd" THEN {"child", "nobody"} ELSE {tsPeer}
    /\ UNCHANGED <<tsPc, tsSent, tsBuf, tsLen, tsJ, netvars>>

\* Nothing came: the port is read from `ack`, which no recvfrom() has filled
\* (any port) or which still holds the port of the other host.
TsFirstTimeout ==
    /\ tsPc = "first"
    /\ tsPc' = "send"
    /\ tsPeer' \in IF tsPeer = "tftpd" THEN {"child", "nobody"} ELSE {tsPeer}
    /\ UNCHANGED <<tsSent, tsBuf, tsLen, tsJ, netvars>>

\* A failing sendto() returns from the function.
TsAnswer(D, S, pc) ==
    \/ Exchange(D, S) /\ tsPc' = pc
    \/ ExchangeFails(D, S) /\ tsPc' = "returned"

\* In debug mode a piece that needs no ACK is followed by one recvfrom() whose
\* result is dropped.
Dropped == {{}} \cup {{d} : d \in {m \in InFlight : m.dst = "client"}}

TsSendPiece ==
    LET k == tsSent + 1 IN
    /\ tsPc = "send"
    /\ tsSent' = k
    /\ tsBuf' = [tsBuf EXCEPT ![Slot(Count(k))] = k]
    /\ tsLen' = PieceSize(k)
    /\ \/ /\ WaitsForAck(k)
          /\ tsJ' = 0
          /\ TsAnswer({}, {Packet(k, PieceSize(k))}, "ack")
       \/ /\ ~WaitsForAck(k)
          /\ UNCHANGED tsJ
          /\ \E D \in IF Debug THEN Dropped ELSE {{}} :
                TsAnswer(D, {Packet(k, PieceSize(k))}, "send")
    /\ UNCHANGED tsPeer

\* Mutant: any ACK will do.
AcksAny(d) == d.op = "ACK"

Acks(d) == d.op = "ACK" /\ d.blk = Count(tsSent)

TsAcked(d) ==
    /\ tsPc = "ack" /\ TsReceives(d) /\ Acks(d)
    /\ tsPc' = IF PieceSize(tsSent) # DataSize THEN "done" ELSE "send"
    /\ Exchange({d}, {})
    /\ UNCHANGED <<tsSent, tsBuf, tsLen, tsJ, tsPeer>>

\* The resend loop: slots 0..bcount, every one of them with n bytes.
Resent(n) == {Packet(tsBuf[s], n) : s \in 0..Slot(Count(tsSent))}

TsRetry(D, S, n) ==
    /\ tsJ' = tsJ + 1
    /\ tsLen' = n
    /\ TsAnswer(D, S \cup Resent(n),
                IF tsJ + 1 = RETRIES THEN "aborted" ELSE "ack")
    /\ UNCHANGED <<tsSent, tsBuf, tsPeer>>

\* Any other datagram of the server's host.  The complaint about an operation
\* code above 5 is built with the same `len` the resend loop uses.
TsMismatch(d) ==
    /\ tsPc = "ack" /\ TsReceives(d) /\ ~Acks(d)
    /\ TsRetry({d}, Complaint("client", tsPeer, d),
               IF d.op = "BAD" THEN ErrSize ELSE tsLen)

TsTimeout ==
    /\ tsPc = "ack"
    /\ TsRetry({}, {}, tsLen)

TsForeign(d) ==
    /\ tsPc = "ack" /\ d.dst = "client" /\ ~FromHost(d, "there")
    /\ Exchange({d}, {})
    /\ UNCHANGED tsvars
================================================================================
