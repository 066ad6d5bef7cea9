-------------------------------- MODULE TftpcGet -------------------------------
(***************************************************************************)
(* tget() of tftpc.c, and the part of main() that calls it: the client     *)
(* that downloads one file.  It takes every DATA packet for the block it   *)
(* counts, without a look at the block number, acknowledges block 1 and    *)
(* every CAck-th block after it before the block is written, sends nothing *)
(* when it times out, and takes the first block whose size is not its      *)
(* datasize for the last one.                                              *)
(***************************************************************************)
EXTENDS Tftp

CONSTANTS
    CAck,       \* -w: the client's ackfreq
    CSize       \* -l: the client's datasize

ASSUME TftpcGetAssumption ==
    /\ CAck \in Nat /\ CAck > 0
    /\ CSize \in Nat /\ CSize > 0

VARIABLES
    cgPc,       \* where the client is, or how it ended
    cgCount,    \* count: the block it waits for, or has just stored
    cgJ,        \* j: attempts made for this block
    cgSize,     \* datasize
    cgFlag,     \* flag: no packet received yet
    cgPeer,     \* server.sin_port: the socket it sends to
    got         \* the file: the pieces passed to fwrite, in order

cgvars == <<cgPc, cgCount, cgJ, cgSize, cgFlag, cgPeer, got>>

CgEnded == {"refused", "done", "failed", "aborted", "returned"}

CgTypeOK ==
    /\ cgPc \in {"open", "wait", "last"} \cup CgEnded
    /\ cgCount \in 0..(M - 1)
    /\ cgJ \in 0..RETRIES
    /\ cgSize \in Nat
    /\ cgFlag \in BOOLEAN
    /\ cgPeer \in Socket
    /\ got \in Seq([piece : Nat, size : Nat])

\* main() has sent the RRQ: the composition puts Rrq in flight.
Rrq == Control("client", "tftpd", "RRQ", 0)

CgInit ==
    /\ cgPc = "open"
    /\ cgCount = 0 /\ cgJ = 0
    /\ cgSize = CSize /\ cgFlag = TRUE
    /\ cgPeer = "tftpd"
    /\ got = <<>>

\* fopen() for writing; the server is not told when it fails.
CgOpen ==
    /\ cgPc = "open"
    /\ \/ cgPc' = "wait" /\ cgCount' = 1
       \/ "open" \in Faults /\ cgPc' = "refused" /\ UNCHANGED cgCount
    /\ UNCHANGED <<cgJ, cgSize, cgFlag, cgPeer, got, netvars>>

\* The port of the server is fixed by the first attempt that reads one which is
\* not 0 from `data`: the sender's, and after a timeout whatever the variable,
\* which nothing has written, holds.
PortKnown == cgPeer # "tftpd"

Peer(d) ==
    IF PortKnown THEN cgPeer
    ELSE IF FromHost(d, "there") THEN d.src ELSE "nobody"

CgReceives(d) == cgPc = "wait" /\ d.dst = "client" /\ FromHost(d, "there")

\* The first packet of the server, whatever it is, fixes datasize.
Fitted(d) ==
    IF ~cgFlag \/ d.size = StdSize THEN cgSize
    ELSE IF d.size > StdSize THEN d.size ELSE StdSize

CgAdapt(d) ==
    /\ cgPeer' = Peer(d)
    /\ cgSize' = Fitted(d)
    /\ cgFlag' = FALSE

\* The block is counted, acknowledged if it is one of the CAck-th and written.
CgAckDue == (cgCount - 1) % CAck = 0 \/ cgCount = 1

CgAcks(d) == IF CgAckDue THEN {Ack("client", Peer(d), cgCount)} ELSE {}

CgStore(d, n) == got' = Append(got, [piece |-> d.piece, size |-> n])

CgAnswer(D, S, pc) ==
    \/ Exchange(D, S) /\ cgPc' = pc
    \/ ExchangeFails(D, S) /\ cgPc' = "returned"

\* A DATA packet of the server's host.  After the last block the top of the
\* loop sends its ACK (again): pc "last".
CgAccept(d) ==
    /\ CgReceives(d) /\ d.op = "DATA"
    /\ CgAdapt(d)
    /\ \/ /\ Exchange({d}, CgAcks(d))
          /\ CgStore(d, d.size)
          /\ IF d.size = Fitted(d)
             THEN cgPc' = "wait" /\ cgCount' = (cgCount + 1) % M /\ cgJ' = 0
             ELSE cgPc' = "last" /\ UNCHANGED <<cgCount, cgJ>>
       \/ /\ ExchangeFails({d}, CgAcks(d))
          /\ cgPc' = "returned"
          /\ UNCHANGED <<cgCount, cgJ, got>>

\* fwrite() stores less than the block, whose ACK has left: the client ends.
CgDiskFull(d) ==
    /\ CgReceives(d) /\ d.op = "DATA"
    /\ "disk" \in Faults
    /\ CgAdapt(d)
    /\ Exchange({d}, CgAcks(d))
    /\ \E n \in 0..(d.size - 1) : CgStore(d, n)
    /\ cgPc' = "failed"
    /\ UNCHANGED <<cgCount, cgJ>>

\* The ACK of the last block, then fclose(), whose result is not looked at.
CgLast ==
    /\ cgPc = "last"
    /\ CgAnswer({}, {Ack("client", cgPeer, cgCount)}, "done")
    /\ \/ UNCHANGED got
       \/ /\ "flush" \in Faults
          /\ \E n \in 0..(Len(got) - 1) : got' = SubSeq(got, 1, n)
    /\ UNCHANGED <<cgCount, cgJ, cgSize, cgFlag, cgPeer>>

\* Mutant: one attempt more than RETRIES.
CgRetryOnceMore ==
    /\ cgJ' = cgJ + 1
    /\ cgPc' = IF cgJ = RETRIES THEN "aborted" ELSE "wait"
    /\ UNCHANGED <<cgCount, got>>

\* Mutant: a failed attempt is not counted.
CgRetryUncounted ==
    /\ UNCHANGED <<cgPc, cgJ, cgCount, got>>

\* The end of a failed attempt: nothing is sent.
CgRetry ==
    /\ cgJ' = cgJ + 1
    /\ cgPc' = IF cgJ + 1 = RETRIES THEN "aborted" ELSE "wait"
    /\ UNCHANGED <<cgCount, got>>

\* Anything but DATA from the server's host, an ERROR included.
CgMismatch(d) ==
    /\ CgReceives(d) /\ d.op # "DATA"
    /\ CgAdapt(d)
    /\ CgRetry
    /\ Exchange({d}, Complaint("client", Peer(d), d))

CgTimeout ==
    /\ cgPc = "wait"
    /\ CgRetry
    /\ cgPeer' \in IF PortKnown THEN {cgPeer} ELSE {"child", "nobody", "tftpd"}
    /\ UNCHANGED <<cgSize, cgFlag, netvars>>

\* A datagram of another host is not counted, but its port is kept.
CgForeign(d) ==
    /\ cgPc = "wait" /\ d.dst = "client" /\ ~FromHost(d, "there")
    /\ cgPeer' = Peer(d)
    /\ Exchange({d}, {})
    /\ UNCHANGED <<cgPc, cgCount, cgJ, cgSize, cgFlag, got>>
================================================================================
