--------------------------------- MODULE MyTftp --------------------------------
(***************************************************************************)
(* MY_TFTP/tftp_client.cpp: get_file() and post_file().  The client learns *)
(* the server's port (TID) from an answer, repeats its request on port 69  *)
(* and, on an upload, resends without end.  Its pieces are the daemon's.   *)
(***************************************************************************)
EXTENDS Tftpd

CONSTANT MAX_RETRY      \* my_tftp.h: attempts for one answer (10)

ASSUME MyTftpAssumption == MAX_RETRY \in Nat /\ MAX_RETRY > 0

VARIABLES
    op,         \* "RRQ" runs get_file(), "WRQ" post_file()
    pc,         \* where the function is, or how it ended
    i,          \* attempts made for this answer
    next,       \* next_packet of get_file(), sent_packet of post_file()
    received,   \* received_packet of post_file()
    tid,        \* TID: the socket of the port, or NoTid
    port,       \* server_addr: the socket the client sends to
    got         \* the file of get_file(): the pieces stored, in order

myvars == <<op, pc, i, next, received, tid, port, got>>

NoTid == "none"

Ended == {"done", "gaveup", "failed"}

MyTypeOK ==
    /\ op \in {"RRQ", "WRQ"}
    /\ pc \in {"wait", "last", "send", "data", "flood"} \cup Ended
    /\ i \in 0..MAX_RETRY
    /\ next \in Nat /\ received \in 0..(M - 1)
    /\ tid \in Socket \cup {NoTid} /\ port \in Socket
    /\ got \in Seq(1..Chunks)

Request == Control("client", "tftpd", op, 0)

MyInit ==
    /\ op \in {"RRQ", "WRQ"}
    /\ pc = "wait" /\ i = 0
    /\ next = 0 /\ received = 0
    /\ tid = NoTid /\ port = "tftpd"
    /\ got = <<>>

\* Mutant: one attempt more than MAX_RETRY.
CountedOnceMore == i' = i + 1 /\ pc' = IF i = MAX_RETRY THEN "gaveup" ELSE pc

\* The last attempt ends the function.
Counted == i' = i + 1 /\ pc' = IF i + 1 = MAX_RETRY THEN "gaveup" ELSE pc

\* The port of any first answer is taken, and used with the server's address.
Learned(d) ==
    IF tid # NoTid THEN <<tid, port>>
    ELSE IF FromHost(d, "there") THEN <<d.src, d.src>> ELSE <<"nobody", "nobody">>

Learn(d) == tid' = Learned(d)[1] /\ port' = Learned(d)[2]

\* An answer that passes both address tests; the second one compares the port
\* that is sent to, and not the sender's.
Accepted(d) == d.dst = "client" /\ FromHost(d, "there") /\ Learned(d)[1] = Learned(d)[2]

\* A packet of another host is not counted.
ReceiveForeign(d) ==
    /\ pc \in {"wait", "data"} /\ d.dst = "client" /\ ~FromHost(d, "there")
    /\ Learn(d)
    /\ Exchange({d}, {})
    /\ UNCHANGED <<op, pc, i, next, received, got>>

\* The port has been set back to 69 since the TID was learned: an ERROR packet
\* goes there, and the answer is not counted.  (While data is acknowledged the
\* TID has just been taken from the answer, so the same test cannot fail.)
ReceiveOtherTid(d) ==
    /\ pc = "wait" /\ d.dst = "client" /\ FromHost(d, "there") /\ ~Accepted(d)
    /\ Exchange({d}, {Error("client", port)})
    /\ UNCHANGED myvars

--------------------------------------------------------------------------------
(* get_file()                                                              *)

AckNext(n) == Ack("client", port, n % M)

\* Mutant: the request is not repeated.
AskOnce == {}

\* What a timeout sends: the request again, on port 69, until a block has come.
AskAgain == {Request}

\* Mutant: a blocking recvfrom(), no timeout.
GetTimeoutNever == op = "RRQ" /\ pc = "wait" /\ UNCHANGED <<myvars, netvars>>

GetTimeout ==
    /\ op = "RRQ" /\ pc = "wait"
    /\ Counted
    /\ IF next > 0
       THEN Exchange({}, {AckNext(next)}) /\ UNCHANGED port
       ELSE Exchange({}, AskAgain) /\ port' = "tftpd"
    /\ UNCHANGED <<op, next, received, tid, got>>

\* Mutant: the last block is acknowledged as the one before it.
GetBlockLate(d) ==
    /\ op = "RRQ" /\ pc = "wait" /\ Accepted(d) /\ d.op = "DATA"
    /\ Learn(d)
    /\ next' = next + 1 /\ i' = 0
    /\ Exchange({d}, {Ack("client", Learned(d)[2], next % M)})
    /\ got' = Append(got, d.piece)
    /\ pc' = IF d.size = StdSize THEN "wait" ELSE "last"
    /\ UNCHANGED <<op, received>>

\* Any DATA packet is the next block: it is acknowledged by the own count, and stored.
GetBlock(d) ==
    /\ op = "RRQ" /\ pc = "wait" /\ Accepted(d) /\ d.op = "DATA"
    /\ Learn(d)
    /\ next' = next + 1 /\ i' = 0
    /\ Exchange({d}, {Ack("client", Learned(d)[2], (next + 1) % M)})
    /\ got' = Append(got, d.piece)
    /\ pc' = IF d.size = StdSize THEN "wait" ELSE "last"
    /\ UNCHANGED <<op, received>>

\* fopen() or fwrite() fails: the first before the ACK, the second after it.
GetFails(d) ==
    /\ op = "RRQ" /\ pc = "wait" /\ Accepted(d) /\ d.op = "DATA"
    /\ Learn(d)
    /\ \/ /\ "open" \in Faults /\ next = 0
          /\ Exchange({d}, {}) /\ UNCHANGED next
       \/ /\ "disk" \in Faults
          /\ next' = next + 1
          /\ Exchange({d}, {Ack("client", Learned(d)[2], (next + 1) % M)})
    /\ pc' = "failed"
    /\ UNCHANGED <<op, i, received, got>>

\* Anything but DATA is an attempt.
GetOther(d) ==
    /\ op = "RRQ" /\ pc = "wait" /\ Accepted(d) /\ d.op # "DATA"
    /\ Learn(d)
    /\ Counted
    /\ Exchange({d}, Complaint("client", Learned(d)[2], d))
    /\ UNCHANGED <<op, next, received, got>>

\* The last block is acknowledged once more, and success reported if that is sent.
GetLast ==
    /\ op = "RRQ" /\ pc = "last"
    /\ \/ Exchange({}, {AckNext(next)}) /\ pc' = "done"
       \/ ExchangeFails({}, {AckNext(next)}) /\ pc' = "failed"
    /\ UNCHANGED <<op, i, next, received, tid, port, got>>

--------------------------------------------------------------------------------
(* post_file()                                                             *)

\* While the answer to the request is due.
PostTimeout ==
    /\ op = "WRQ" /\ pc = "wait"
    /\ Counted
    /\ IF received = 0 THEN Exchange({}, AskAgain) /\ port' = "tftpd"
                       ELSE Exchange({}, {}) /\ UNCHANGED port
    /\ UNCHANGED <<op, next, received, tid, got>>

\* Mutant: the block number is not compared.
AcksAny(d) == d.op = "ACK"

Acks(d) == d.op = "ACK" /\ d.blk = next

\* ACK 0; then the file is opened.
PostGranted(d) ==
    /\ op = "WRQ" /\ pc = "wait" /\ Accepted(d) /\ Acks(d)
    /\ Learn(d)
    /\ Exchange({d}, {})
    /\ received' = d.blk
    /\ \/ pc' = "send"
       \/ "open" \in Faults /\ pc' = "failed"
    /\ UNCHANGED <<op, i, next, got>>

PostOther(d) ==
    /\ op = "WRQ" /\ pc = "wait" /\ Accepted(d) /\ ~Acks(d)
    /\ Learn(d)
    /\ received' = d.blk
    /\ Counted
    /\ Exchange({d}, Complaint("client", Learned(d)[2], d))
    /\ UNCHANGED <<op, next, got>>

\* The top of the loop: the next piece; the TID is forgotten.
PostPiece ==
    /\ op = "WRQ" /\ pc = "send"
    /\ next' = next + 1 /\ received' = 0 /\ tid' = NoTid /\ i' = 0
    /\ LET packet == Data("client", port, (next + 1) % M, next + 1, PieceSize(next + 1)) IN
       \/ Exchange({}, {packet}) /\ pc' = "data"
       \/ ExchangeFails({}, {packet}) /\ pc' = "failed"
    /\ UNCHANGED <<op, port, got>>

PostAcked(d) ==
    /\ op = "WRQ" /\ pc = "data" /\ Accepted(d) /\ Acks(d)
    /\ Learn(d)
    /\ Exchange({d}, {})
    /\ received' = d.blk
    /\ pc' = IF PieceSize(next) < StdSize THEN "done" ELSE "send"
    /\ UNCHANGED <<op, i, next, got>>

\* for (k = 0; i <= received_packet; k++): nothing in the loop changes its
\* condition, which holds in the first attempt whatever was received.
Resends(r) == IF i <= r THEN pc' = "flood" /\ UNCHANGED i ELSE Counted

PostMismatch(d) ==
    /\ op = "WRQ" /\ pc = "data" /\ Accepted(d) /\ ~Acks(d)
    /\ Learn(d)
    /\ received' = d.blk
    /\ Resends(d.blk)
    /\ Exchange({d}, Complaint("client", Learned(d)[2], d))
    /\ UNCHANGED <<op, next, got>>

PostDataTimeout ==
    /\ op = "WRQ" /\ pc = "data"
    /\ Resends(received)
    /\ UNCHANGED <<op, next, received, tid, port, got, netvars>>

\* One turn of the resend loop.  A copy is in flight already: the others are
\* not added (bound).
PostFlood ==
    LET packet == Data("client", port, next % M, next, PieceSize(next)) IN
    /\ op = "WRQ" /\ pc = "flood"
    /\ \/ packet \notin InFlight /\ Exchange({}, {packet}) /\ UNCHANGED pc
       \/ ExchangeFails({}, {packet}) /\ pc' = "failed"
    /\ UNCHANGED <<op, i, next, received, tid, port, got>>

MyTimeout == GetTimeout \/ PostTimeout \/ PostDataTimeout

MyStep ==
    \/ GetLast \/ PostPiece \/ PostFlood
    \/ \E d \in InFlight :
          \/ ReceiveForeign(d) \/ ReceiveOtherTid(d)
          \/ GetBlock(d) \/ GetFails(d) \/ GetOther(d)
          \/ PostGranted(d) \/ PostOther(d) \/ PostAcked(d) \/ PostMismatch(d)
================================================================================
