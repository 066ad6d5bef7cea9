------------------------------- MODULE DownloadInv -----------------------------
(***************************************************************************)
(* Inductive invariants of Download: its types, and the contents of the    *)
(* child's packetbuf[] for files with fewer pieces than block numbers.     *)
(***************************************************************************)
EXTENDS Download

\* Type correctness needs the control state: the child reads no piece after the
\* last one, and no retry loop runs past RETRIES.
TypeInv ==
    /\ TypeOK
    /\ dsPc \in {"listen", "send"} => dsSent < Chunks
    /\ dsPc = "ack" => dsJ < RETRIES
    /\ cgPc \in {"open", "wait"} => cgJ < RETRIES

\* Slots 0..bcount hold the pieces read since the last stop, in order.
WindowInv ==
    /\ dsPc = "ack" => dsSent > 0
    /\ dsSent > 0 => \A s \in DsSlots : dsBuf[s] = dsSent - DsSlot(Count(dsSent)) + s

\* No datagram of the client's host has an operation code above 5, whose complaint
\* would change the length that the resend loop uses (tftpd.c:725, 753).
LengthInv ==
    /\ \A d \in InFlight : FromHost(d, "here") => d.op # "BAD"
    /\ dsPc = "ack" => dsLen = PieceSize(dsSent)

--------------------------------------------------------------------------------
(* One piece at a time, answers in time: then the order of the datagrams is    *)
(* the order of the file, and only a lost or misdirected ACK spoils it.        *)

\* The assumptions: `tftpd -a 1` and `tftpc -w 1` with blocks of 512 bytes, delays
\* below the timeout, no duplicates, other hosts only, a disk that takes what it
\* is given, and a file short enough that no retry reaches a wrapped number.
Timely ==
    /\ ~Slow /\ MaxDups = 0 /\ Faults \subseteq {"send", "open"}
    /\ \A d \in Stray : FromHost(d, "elsewhere")
    /\ SrvAck = 1 /\ CAck = 1 /\ SrvSize = StdSize /\ CSize = StdSize
    /\ Chunks + RETRIES < M

N == Len(got)

Piece(k) == DsPacket(k, PieceSize(k))

\* The ACK of the piece stored last.
Answer == Ack("client", "child", N)

ForChild(d) == d.src = "client" /\ d.dst = "child"

Alive == cgPc \in {"open", "wait"}

Excused == AckLost \/ ~PeerIsServer

CtlInv ==
    /\ dsPc \in {"listen", "refused"} => dsSent = 0
    /\ dsPc \notin {"listen", "refused", "send"} => dsSent > 0
    /\ dsSent > 0 => dsBuf[0] = dsSent /\ dsLen = PieceSize(dsSent)
    /\ dsPc # "refused" => cgSize = StdSize
    /\ cgPc = "open" => N = 0
    /\ cgPc = "wait" => cgCount = N + 1
    /\ cgPc = "last" => cgCount = N

\* What is stored: the file's beginning, unless the client has taken a piece that
\* was sent again for the next one.  Then it has one more for each retry, and
\* the server, which waits for an older ACK, never gets to the last piece.
StoreInv ==
    /\ dsSent = 0 => N = 0
    /\ N <= dsSent => \A k \in 1..N : got[k] = SourceFile[k]
    /\ N > dsSent => dsSent < Chunks /\ Excused
    /\ dsPc = "done" \/ cgPc \in {"last", "done"} => dsSent = Chunks /\ N = Chunks
    /\ dsPc = "send" => N = dsSent
    /\ Alive => N + 1 >= dsSent /\ N <= dsSent + dsJ
    /\ Alive /\ N >= dsSent => dsSent < Chunks

Known(d) ==
    \/ d \in Stray \/ d = Rrq
    \/ d = Error("child", "client") /\ dsPc = "refused"
    \/ d.src = "client" /\ d.op = "ACK" /\ (d.dst = "child" /\ dsPc = "ack" => d = Answer)
    \/ \E k \in 1..dsSent : d = Piece(k)

\* The two take turns: either the piece is on its way, once, or its ACK is, once.
TurnInv ==
    /\ \A d \in InFlight : Known(d)
    /\ \A k \in 1..dsSent : Alive /\ Piece(k) \in InFlight =>
          /\ k = dsSent /\ net[Piece(k)] = 1 /\ dsPc # "send"
          /\ N >= dsSent => N < dsSent + dsJ /\ Excused
    /\ dsPc \in {"listen", "send"} => \A d \in InFlight : ~ForChild(d)
    /\ dsPc = "ack" /\ Answer \in InFlight =>
          /\ N >= dsSent
          /\ dsSent < Chunks => net[Answer] = 1
          /\ Alive => Piece(dsSent) \notin InFlight
    /\ dsPc = "ack" /\ Alive /\ N = dsSent /\ Answer \notin InFlight => Excused

TimelyInv == CtlInv /\ StoreInv /\ TurnInv

IInv == TypeInv /\ WindowInv /\ TimelyInv
================================================================================
