--------------------------------- MODULE Tftpd ---------------------------------
(***************************************************************************)
(* The daemon of tftpd.c, not in debug mode, with its default options: the *)
(* loop that polls port 69 and a child process for each request it serves, *)
(* several at a time.  A child runs tget() or tsend() with ack frequency 1 *)
(* and the standard size; TftpdGet and TftpdSend have these functions with *)
(* every option.  The file fits into the buffer of stdio: a child writes   *)
(* it at fclose(), or at the exit(1) that follows a return without one.    *)
(***************************************************************************)
EXTENDS Tftp, SequencesExt

CONSTANTS
    Chunks,     \* how many pieces the file has
    LastSize,   \* the size of the last one
    MaxBroken   \* how many calls of the server fail (bound)

ASSUME TftpdAssumption ==
    /\ Chunks \in Nat /\ Chunks > 0 /\ Chunks < M
    /\ LastSize \in 0..(StdSize - 1)
    /\ MaxBroken \in Nat

\* The sockets of the children: this bounds how many are ever forked.
Kids == {"child", "beside"}

VARIABLES
    dErrno,     \* errno after the last call of the loop
    down,       \* has the daemon ended?
    kid,        \* the children
    broken,     \* history: which calls have failed, and in which process
    disk        \* the pieces in the server's file

tdvars == <<dErrno, down, kid, broken, disk>>

Kid == [pc : {"off", "send", "wait", "close", "zombie", "reaped"}, op : {"RRQ", "WRQ"},
        count : 0..(Chunks + 1), j : 0..RETRIES, got : Seq(1..Chunks)]

NoKid == [pc |-> "off", op |-> "RRQ", count |-> 0, j |-> 0, got |-> <<>>]

TdTypeOK ==
    /\ dErrno \in {"", "EAGAIN", "ECHILD"} /\ down \in BOOLEAN
    /\ broken \subseteq (Kids \cup {"tftpd"}) \X (Faults \cup {"fork"})
    /\ kid \in [Kids -> Kid]
    /\ disk \in Seq(1..Chunks)

\* A download finds the file, an upload makes it.
File == [k \in 1..Chunks |-> k]

TdInit(content) ==
    /\ dErrno = "" /\ down = FALSE
    /\ kid = [k \in Kids |-> NoKid] /\ broken = {} /\ disk = content

\* A call of process p fails.
Breaks(p, fault) ==
    /\ fault \in Faults /\ Cardinality(broken) < MaxBroken
    /\ broken' = broken \cup {<<p, fault>>}

PieceSize(k) == IF k = Chunks THEN LastSize ELSE StdSize

Unreaped == {k \in Kids : kid[k].pc \notin {"off", "reaped"}}

KidTo(k, pc) == kid' = [kid EXCEPT ![k].pc = pc]

\* Mutant: no waitpid() before recvfrom().
NeverWaits == dErrno

\* waitpid() without children sets errno; a child that runs or is reaped does not.
AfterWaitpid == IF Unreaped = {} THEN "ECHILD" ELSE dErrno

\* waitpid() reaps one child that has ended.
Reaped ==
    LET zombies == {k \in Kids : kid[k].pc = "zombie"} IN
    IF zombies = {} THEN {kid}
    ELSE {[kid EXCEPT ![k].pc = "reaped"] : k \in zombies}

\* A round of the loop in which recvfrom() has nothing.
PollNothing ==
    /\ ~down
    /\ kid' \in Reaped /\ dErrno' = "EAGAIN"
    /\ UNCHANGED <<down, broken, disk, netvars>>

\* recvfrom() reports another error: main() returns.
PollFails ==
    /\ ~down
    /\ kid' \in Reaped /\ down' = TRUE
    /\ Breaks("tftpd", "recv")
    /\ UNCHANGED <<dErrno, disk, netvars>>

\* A round that receives something while errno is still EAGAIN: the loop goes
\* on, and the next round overwrites what was received.
PollOverwritten(d) ==
    /\ ~down /\ d.dst = "tftpd" /\ AfterWaitpid = "EAGAIN"
    /\ kid' \in Reaped
    /\ Exchange({d}, {})
    /\ UNCHANGED <<dErrno, down, broken, disk>>

\* The loop ends with datagram d.
Polled(d) ==
    /\ ~down /\ d.dst = "tftpd" /\ AfterWaitpid # "EAGAIN"
    /\ dErrno' = AfterWaitpid

\* The child opens the file, or sends an ERROR packet and ends: a WRQ truncates the
\* file and is acknowledged.
PollRequest(d, k) ==
    /\ Polled(d) /\ d.op \in {"RRQ", "WRQ"}
    /\ kid[k].pc = "off" /\ (k = "beside" => kid["child"].pc # "off")
    /\ \E after \in Reaped :
        LET forked(at) == [after EXCEPT ![k] = [NoKid EXCEPT !.op = d.op, !.count = 1, !.pc = at]]
        IN  \/ /\ d.op = "RRQ" /\ kid' = forked("send")
               /\ Exchange({d}, {}) /\ UNCHANGED <<broken, disk>>
            \/ /\ d.op = "WRQ" /\ disk' = <<>>
               /\ \/ kid' = forked("wait") /\ Exchange({d}, {Ack(k, "client", 0)}) /\ UNCHANGED broken
                  \/ kid' = forked("close") /\ Exchange({d}, {}) /\ Breaks(k, "send")
            \/ /\ kid' = forked("zombie") /\ Breaks(k, "open") /\ UNCHANGED disk
               /\ \/ Exchange({d}, {Error(k, "client")})
                  \/ ExchangeFails({d}, {Error(k, "client")})
    /\ UNCHANGED down

\* fork() fails, as it does when no child is left (bound): nobody answers.
PollUnserved(d) ==
    /\ Polled(d) /\ d.op \in {"RRQ", "WRQ"}
    /\ kid' \in Reaped
    /\ \/ Breaks("tftpd", "fork")
       \/ /\ \A k \in Kids : kid[k].pc # "off"
          /\ broken' = broken \cup {<<"tftpd", "fork">>}
    /\ Exchange({d}, {})
    /\ UNCHANGED <<down, disk>>

\* The other operation codes are not valid on this port; a first byte that is not 0
\* ends the daemon.
PollInvalid(d) ==
    /\ Polled(d) /\ d.op \notin {"RRQ", "WRQ"}
    /\ kid' \in Reaped
    /\ down' = (d.op = "JUNK")
    /\ Exchange({d}, {})
    /\ UNCHANGED <<broken, disk>>

--------------------------------------------------------------------------------
(* tsend(): piece by piece, each one acknowledged.                         *)

KidPacket(k) == Data(k, "client", kid[k].count, kid[k].count, PieceSize(kid[k].count))

KidSends(k) ==
    /\ kid[k].pc = "send"
    /\ \/ KidTo(k, "wait") /\ Exchange({}, {KidPacket(k)}) /\ UNCHANGED broken
       \/ KidTo(k, "close") /\ Exchange({}, {}) /\ Breaks(k, "send")
    /\ UNCHANGED <<dErrno, down, disk>>

KidAcked(k, d) ==
    /\ kid[k].pc = "wait" /\ kid[k].op = "RRQ" /\ d.dst = k
    /\ d.op = "ACK" /\ d.blk = kid[k].count
    /\ kid' = IF kid[k].count = Chunks THEN [kid EXCEPT ![k].pc = "zombie"]
              ELSE [kid EXCEPT ![k].pc = "send", ![k].count = @ + 1, ![k].j = 0]
    /\ Exchange({d}, {})
    /\ UNCHANGED <<dErrno, down, broken, disk>>

(* tget(): the block it expects and no other.                              *)

KidExpects(k, d) == d.op = "DATA" /\ d.blk = kid[k].count

\* fwrite(), then the ACK; a sendto() that fails ends the function.
KidStores(k, d) ==
    LET stored(at) == [kid EXCEPT ![k].got = Append(@, d.piece), ![k].count = @ + 1,
                                  ![k].j = 0, ![k].pc = at]
    IN
    /\ kid[k].pc = "wait" /\ kid[k].op = "WRQ" /\ d.dst = k /\ KidExpects(k, d)
    /\ \/ /\ kid' = stored(IF d.size # StdSize THEN "close" ELSE "wait")
          /\ Exchange({d}, {Ack(k, "client", d.blk)}) /\ UNCHANGED broken
       \/ kid' = stored("close") /\ Exchange({d}, {}) /\ Breaks(k, "send")
    /\ UNCHANGED <<dErrno, down, disk>>

\* fwrite() stores less than the block: no ACK, and fclose().
KidDiskFull(k, d) ==
    /\ kid[k].pc = "wait" /\ kid[k].op = "WRQ" /\ d.dst = k /\ KidExpects(k, d)
    /\ KidTo(k, "close") /\ Breaks(k, "disk")
    /\ Exchange({d}, {})
    /\ UNCHANGED <<dErrno, down, disk>>

\* What a child that stores has written replaces the beginning of the file.
Overwritten(old, new) == new \o SubSeq(old, Len(new) + 1, Len(old))

\* Mutant: the file is not closed.
DiskNotClosed(k) == disk

DiskAfter(k) == IF kid[k].op = "WRQ" THEN Overwritten(disk, kid[k].got) ELSE disk

\* The result of fclose() is not looked at: some of it may not reach the disk.
KidCloses(k) ==
    /\ kid[k].pc = "close"
    /\ \/ disk' = DiskAfter(k) /\ UNCHANGED broken
       \/ /\ kid[k].op = "WRQ" /\ Breaks(k, "flush")
          /\ \E n \in 0..(Len(kid[k].got) - 1) :
                disk' = Overwritten(disk, SubSeq(kid[k].got, 1, n))
    /\ KidTo(k, "zombie")
    /\ UNCHANGED <<dErrno, down, netvars>>

\* The end of a failed attempt of either function: send again, and after
\* RETRIES attempts close the file and end.
KidRetries(k, D) ==
    LET again == IF kid[k].op = "WRQ" THEN Ack(k, "client", kid[k].count - 1)
                                      ELSE KidPacket(k)
        last == kid[k].j + 1 = RETRIES
    IN  /\ \/ /\ kid' = [kid EXCEPT ![k].j = @ + 1, ![k].pc = IF last THEN "close" ELSE @]
              /\ Exchange(D, {again}) /\ UNCHANGED broken
           \/ KidTo(k, "close") /\ Exchange(D, {}) /\ Breaks(k, "send")
        /\ UNCHANGED <<dErrno, down, disk>>

KidMismatch(k, d) ==
    /\ kid[k].pc = "wait" /\ d.dst = k
    /\ ~ IF kid[k].op = "WRQ" THEN KidExpects(k, d) ELSE d.op = "ACK" /\ d.blk = kid[k].count
    /\ KidRetries(k, {d})

KidTimeout(k) == kid[k].pc = "wait" /\ KidRetries(k, {})

KidStep(k) ==
    \/ KidSends(k) \/ KidCloses(k)
    \/ \E d \in InFlight : KidAcked(k, d) \/ KidStores(k, d) \/ KidDiskFull(k, d) \/ KidMismatch(k, d)

DaemonStep ==
    \/ PollNothing
    \/ \E d \in InFlight :
          PollOverwritten(d) \/ PollUnserved(d) \/ PollInvalid(d) \/ \E k \in Kids : PollRequest(d, k)
================================================================================
