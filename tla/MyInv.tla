---------------------------------- MODULE MyInv --------------------------------
(***************************************************************************)
(* The inductive invariant of MyTransfer behind its types and behind what  *)
(* an upload promises.  It needs that no other program answers the client  *)
(* from the server's host with a block or an ACK, and that none writes to  *)
(* the children.                                                           *)
(***************************************************************************)
EXTENDS MyTransfer

Setting ==
    \A d \in Stray :
        d.dst \in {"client", "tftpd"} /\ (d.op \in {"DATA", "ACK"} => ~FromHost(d, "there"))

Posting == op = "WRQ"

\* The types need that no attempt is counted past its limit.
TypeInv == TypeOK /\ (pc \in {"wait", "data"} => i < MAX_RETRY)

\* post_file() counts the pieces it has sent.
ClientInv ==
    Posting =>
        /\ next \in 0..Chunks
        /\ pc = "wait" => next = 0
        /\ pc = "send" => next < Chunks
        /\ pc \in {"data", "flood"} => next > 0
        /\ pc # "last"

\* A child serves the client's request; when it stores, it has stored pieces
\* that the client has sent, in order.
Serves(q) ==
    IF q.pc = "off" THEN q = NoKid
    ELSE /\ q.op = op
         /\ q.pc \in {"send", "wait"} => q.j < RETRIES
         /\ IF Posting
            THEN /\ q.pc # "send"
                 /\ q.count = Len(q.got) + 1
                 /\ Len(q.got) <= next
                 /\ \A n \in 1..Len(q.got) : q.got[n] = n
            ELSE q.count \in 1..Chunks /\ q.got = <<>>

KidInv == \A k \in Kids : Serves(kid[k])

\* A block of the file under its own number.
Block(d) == d.op = "DATA" /\ d.piece = d.blk /\ d.size = PieceSize(d.piece)

\* What can be in flight: the request, datagrams of other programs, what the
\* client sends, and the answers of the children, whose ACKs name stored blocks.
Sound(d) ==
    \/ d = Request
    \/ d \in Stray
    \/ d.src = "client" /\ d.op \in {"ACK", "ERROR"}
    \/ d.src = "client" /\ Posting /\ Block(d) /\ d.piece \in 1..next
    \/ /\ d.src \in Kids /\ d.dst = "client" /\ kid[d.src].pc # "off"
       /\ \/ Posting /\ d.op = "ACK" /\ d.blk <= Len(kid[d.src].got)
          \/ ~Posting /\ Block(d) /\ d.piece \in 1..Chunks
          \/ d.op = "ERROR"

NetInv == \A d \in InFlight : Sound(d)

\* While there is one child, the disk has nothing before the child's fclose()
\* and all it has stored afterwards, unless that fclose() has failed.
DiskInv ==
    Posting /\ kid["beside"].pc = "off" /\ <<"child", "flush">> \notin broken =>
        disk = IF kid["child"].pc \in {"zombie", "reaped"} THEN kid["child"].got ELSE <<>>

DoneInv == Posting /\ pc = "done" => \E k \in Kids : Len(kid[k].got) = Chunks

TransferInv == TypeInv /\ ClientInv /\ KidInv /\ NetInv /\ DiskInv /\ DoneInv

--------------------------------------------------------------------------------
(* What get_file() stores, in the order of the file.                       *)

Gone == {"close", "zombie", "reaped"}

\* A datagram whose receiver has not ended.
Live(d) == d.dst \in Kids => kid[d.dst].pc \notin Gone

Coming == {d \in InFlight : Live(d)}

\* Something is on its way: a datagram, or a child about to send.
Moving == Coming # {} \/ \E k \in Kids : kid[k].pc = "send"

LastAck == Ack("client", tid, next)

AckLost == \E m \in DOMAIN lost : lost[m].op = "ACK" /\ lost[m].blk = next

\* The request until a block has come; then the ACK of the last block; the next block.
Expected(d) ==
    \/ d = Request /\ next = 0
    \/ d = LastAck /\ next > 0
    \/ /\ d.dst = "client" /\ d.op = "DATA" /\ d.src \in Kids
       /\ d.blk = next + 1 /\ kid[d.src].count = next + 1
       /\ next > 0 => d.src = tid

\* One thing moves at a time.
OneMoving ==
    /\ \A d \in Coming : net[d] = 1 /\ Expected(d)
    /\ \A d, e \in Coming : d = e
    /\ \A k \in Kids : kid[k].pc = "send" => Coming = {}
    /\ \A k, l \in Kids : kid[k].pc = "send" /\ kid[l].pc = "send" => k = l

\* How often a child that is at its first block has sent it.
Sent(k) == IF kid[k].pc \in {"off", "send"} THEN 0 ELSE kid[k].j + 1

\* Before the first block has come, all of its copies but one in flight are lost.
OpeningInv ==
    /\ tid = NoTid
    /\ \A k \in Kids :
        /\ kid[k].pc # "off" => kid[k].count = 1
        /\ kid[k].pc \in Gone => kid[k].j = RETRIES
    /\ \/ Sent("child") + Sent("beside") <= Len(lost)
       \/ /\ Sent("child") + Sent("beside") = Len(lost) + 1
          /\ \E d \in Coming : d.dst = "client"

\* The child that answers the client is at the block that is due or at the last
\* one; at the last one it will get an ACK before its own timeout.
ServedInv ==
    LET q == kid[tid] IN
    /\ tid \in Kids /\ port = tid
    /\ q.pc # "off" /\ q.count \in {next, next + 1}
    /\ q.count = next => q.pc # "send"
    /\ q.pc = "wait" /\ q.count = next =>
        \/ i = 0 /\ LastAck \in InFlight
        \/ AckLost /\ (i = 0 \/ LastAck \in InFlight)

\* A second child still waits for the ACK of its first block: with one loss left,
\* its timeout does not come before the client has the whole file.
OtherInv ==
    \A k \in Kids \ {tid} :
        LET q == kid[tid] IN
        /\ kid[k].pc # "send"
        /\ kid[k].pc = "wait" =>
            /\ q.pc \in {"send", "wait"}
            /\ Len(lost) = 1 => i = 0 /\ q.j = 0
            /\ Len(lost) = 2 \/ (Len(lost) = 1 /\ Moving)
            /\ i = 0 \/ Moving
            /\ q.j = 0 \/ (q.j = 1 /\ Moving)
            /\ LastAck \in InFlight /\ q.count = next + 1 => q.j = 0 /\ Len(lost) = 2

WaitInv ==
    /\ Len(got) = next /\ next < Chunks
    /\ OneMoving
    /\ \A k \in Kids : kid[k].pc = "send" => kid[k].j = 0
    /\ IF next = 0 THEN OpeningInv ELSE ServedInv /\ OtherInv

StoredInv == Len(got) <= Chunks /\ \A n \in 1..Len(got) : got[n] = n

\* A download that has its short block is whole.
WholeInv == ~Posting /\ pc \in {"last", "done"} => Len(got) = Chunks

\* A child that ends at its first failed attempt would let an ACK go unanswered.
OrderInv ==
    /\ Posting => got = <<>>
    /\ RETRIES > 1 /\ Steady =>
        StoredInv /\ WholeInv /\ (~Posting /\ pc = "wait" => WaitInv)

IInv == TransferInv /\ OrderInv
================================================================================
