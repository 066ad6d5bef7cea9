------------------------------- MODULE TftpdGet --------------------------------
(***************************************************************************)
(* tget() of tftpd.c: the child process that serves one write request and  *)
(* stores the client's file.  It acknowledges every SrvAck-th block,       *)
(* accepts the block it expects and no other, and takes the first block    *)
(* whose size is not its datasize for the last one.                        *)
(***************************************************************************)
EXTENDS Tftp

CONSTANTS
    SrvAck,     \* -a: the server's ackfreq
    SrvSize     \* -s: the server's datasize

ASSUME TftpdGetAssumption ==
    /\ SrvAck \in Nat /\ SrvAck > 0
    /\ SrvSize \in Nat /\ SrvSize > 0

VARIABLES
    tgPc,       \* where the child is, or how it ended
    tgCount,    \* count: the block it expects
    tgAck,      \* ackbuf: the block number it holds, or NoAck (all zeros)
    tgJ,        \* j: attempts made for this block
    tgSize,     \* datasize
    tgFlag,     \* flag: no packet received yet
    written     \* the file: the pieces passed to fwrite, in order

tgvars == <<tgPc, tgCount, tgAck, tgJ, tgSize, tgFlag, written>>

NoAck == M

TgEnded == {"refused", "done", "failed", "aborted", "returned"}

TgTypeOK ==
    /\ tgPc \in {"listen", "wait", "closing"} \cup TgEnded
    /\ tgCount \in 0..(M - 1)
    /\ tgAck \in 0..M
    /\ tgJ \in 0..RETRIES
    /\ tgSize \in Nat
    /\ tgFlag \in BOOLEAN
    /\ written \in Seq([piece : Nat, size : Nat])

TgInit ==
    /\ tgPc = "listen"
    /\ tgCount = 0 /\ tgAck = NoAck /\ tgJ = 0
    /\ tgSize = SrvSize /\ tgFlag = TRUE
    /\ written = <<>>

AckDue(c) == c = 0 \/ c % SrvAck = 0

TgReply(b) ==
    IF b = NoAck THEN Control("child", "client", "NUL", 0)
                 ELSE Ack("child", "client", b)

\* Every reply of the loop: a failing sendto() returns from the function.
TgAnswer(D, S, pc) ==
    \/ Exchange(D, S) /\ tgPc' = pc
    \/ ExchangeFails(D, S) /\ tgPc' = "returned"

\* Mutant: count++ before the ACK is built.
TgNextBlockCountsFirst(D, c) ==
    /\ tgCount' = (c + 1) % M
    /\ tgJ' = 0
    /\ tgAck' = (c + 1) % M
    /\ TgAnswer(D, {TgReply((c + 1) % M)}, "wait")

\* The top of the do-while loop for the block just counted: its ACK if one is
\* due, then count++ and a fresh retry loop.
TgNextBlock(D, c) ==
    /\ tgCount' = (c + 1) % M
    /\ tgJ' = 0
    /\ \/ AckDue(c) /\ tgAck' = c /\ TgAnswer(D, {TgReply(c)}, "wait")
       \/ ~AckDue(c) /\ tgAck' = NoAck /\ TgAnswer(D, {}, "wait")

\* main() forks a child for a WRQ; the child opens (and so truncates) the file.
TgStart(d) ==
    /\ tgPc = "listen"
    /\ d.dst = "tftpd" /\ d.op = "WRQ"
    /\ TgNextBlock({d}, 0)
    /\ UNCHANGED <<tgSize, tgFlag, written>>

\* A forbidden name, or a file that cannot be opened: ERROR and no transfer.
TgRefuse(d) ==
    /\ tgPc = "listen"
    /\ d.dst = "tftpd" /\ d.op = "WRQ"
    /\ "open" \in Faults
    /\ \/ Exchange({d}, {Error("child", "client")})
       \/ ExchangeFails({d}, {Error("child", "client")})
    /\ tgPc' = "refused"
    /\ UNCHANGED <<tgCount, tgAck, tgJ, tgSize, tgFlag, written>>

TgReceives(d) == tgPc = "wait" /\ d.dst = "child" /\ FromHost(d, "here")

\* Mutant: the block number is not compared with count.
ExpectedAnyBlock(d) == d.op = "DATA"

Expected(d) == d.op = "DATA" /\ d.blk = tgCount

\* The first packet of the client, whatever it is, can enlarge datasize.
Adapted(d) == IF tgFlag /\ d.size > StdSize THEN d.size ELSE tgSize

TgAdapt(d) == tgSize' = Adapted(d) /\ tgFlag' = FALSE

TgStore(d, n) == written' = Append(written, [piece |-> d.piece, size |-> n])

TgAccept(d) ==
    /\ TgReceives(d) /\ Expected(d)
    /\ TgAdapt(d)
    /\ TgStore(d, d.size)
    /\ \/ /\ d.size = Adapted(d)
          /\ TgNextBlock({d}, tgCount)
       \/ /\ d.size # Adapted(d)            \* the last block: goto done
          /\ tgAck' = tgCount
          /\ TgAnswer({d}, {TgReply(tgCount)}, "closing")
          /\ UNCHANGED <<tgCount, tgJ>>

\* fwrite() stores less than the block: no ACK, and the child ends.
TgDiskFull(d) ==
    /\ TgReceives(d) /\ Expected(d)
    /\ "disk" \in Faults
    /\ TgAdapt(d)
    /\ \E n \in 0..(d.size - 1) : TgStore(d, n)
    /\ Exchange({d}, {}) /\ tgPc' = "failed"
    /\ UNCHANGED <<tgCount, tgAck, tgJ>>

\* Mutant: one attempt more than RETRIES (j <= RETRIES).
TgRetryOnceMore(D, S) ==
    /\ tgJ' = tgJ + 1
    /\ TgAnswer(D, S \cup {TgReply(tgAck)},
                IF tgJ = RETRIES THEN "aborted" ELSE "wait")
    /\ UNCHANGED <<tgCount, tgAck, written>>

\* Mutant: a failed attempt sends nothing.
TgRetrySilent(D, S) ==
    /\ tgJ' = tgJ + 1
    /\ TgAnswer(D, S, IF tgJ + 1 = RETRIES THEN "aborted" ELSE "wait")
    /\ UNCHANGED <<tgCount, tgAck, written>>

\* The end of a failed attempt: ackbuf is sent again, and after RETRIES
\* attempts the transfer is aborted.
TgRetry(D, S) ==
    /\ tgJ' = tgJ + 1
    /\ TgAnswer(D, S \cup {TgReply(tgAck)},
                IF tgJ + 1 = RETRIES THEN "aborted" ELSE "wait")
    /\ UNCHANGED <<tgCount, tgAck, written>>

TgMismatch(d) ==
    /\ TgReceives(d) /\ ~Expected(d)
    /\ TgAdapt(d)
    /\ TgRetry({d}, Complaint("child", "client", d))

\* Mutant: a blocking recvfrom(), no timeout.
TgTimeoutNever ==
    /\ tgPc = "wait"
    /\ UNCHANGED <<tgvars, netvars>>

TgTimeout ==
    /\ tgPc = "wait"
    /\ TgRetry({}, {})
    /\ UNCHANGED <<tgSize, tgFlag>>

\* A packet of another host is dropped and does not count as an attempt.
TgForeign(d) ==
    /\ tgPc = "wait" /\ d.dst = "child" /\ ~FromHost(d, "here")
    /\ Exchange({d}, {})
    /\ UNCHANGED tgvars

\* fclose(), after the last ACK has left.  Its result is not looked at: what
\* stdio still held of the last pieces may not reach the disk.
TgClose ==
    /\ tgPc = "closing"
    /\ tgPc' = "done"
    /\ \/ UNCHANGED written
       \/ /\ "flush" \in Faults
          /\ \E n \in 0..(Len(written) - 1) : written' = SubSeq(written, 1, n)
    /\ UNCHANGED <<tgCount, tgAck, tgJ, tgSize, tgFlag, netvars>>
================================================================================
