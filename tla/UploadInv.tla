-------------------------------- MODULE UploadInv ------------------------------
(***************************************************************************)
(* The inductive invariant of Upload behind its safety properties.  It     *)
(* holds for any ack frequencies and sizes, for files with fewer pieces    *)
(* than there are block numbers, when the datagrams of programs outside    *)
(* the transfer come from other hosts and fclose() loses nothing.          *)
(* TimelyInv, at the end, holds for longer files too, when one piece at a  *)
(* time is sent and nothing is late or duplicated.                         *)
(***************************************************************************)
EXTENDS Upload

\* The conditions under which IInv is inductive.
Setting ==
    /\ Chunks < M
    /\ \A d \in Stray : d.src = "stranger"
    /\ "flush" \notin Faults

\* Type correctness needs the control state: the client reads no piece after
\* the last one, and no retry loop runs past RETRIES.
TypeInv ==
    /\ TypeOK
    /\ tsPc \in {"first", "send"} => tsSent < Chunks
    /\ tsPc = "ack" => tsJ < RETRIES
    /\ tgPc = "wait" => tgJ < RETRIES

N == Len(written)

\* The client's control state against its counters.
ClientInv ==
    /\ tsPc = "first" => tsSent = 0
    /\ tsPc = "ack" => tsSent > 0 /\ tsLen = PieceSize(tsSent)

\* Each slot up to bcount holds a piece; the first piece of the file is resent
\* only while it is the only one, so it is never resent with a wrong length.
BufferInv ==
    /\ \A s \in 0..(CAck - 1) :
          /\ tsBuf[s] <= tsSent
          /\ s + 2 <= tsSent => tsBuf[s] > 1
    /\ tsSent = 1 => tsBuf[0] = 1

\* A piece in flight is a piece the client has read, under its own number; its
\* length is its own or, but for the first piece, that of the last piece.
PieceInFlight(d) ==
    /\ d.piece \in 1..tsSent
    /\ d.blk = d.piece
    /\ \/ d.size = PieceSize(d.piece)
       \/ d.piece # 1 /\ d.size = LastSize

\* What can be in flight: foreign datagrams, the request, pieces from the
\* client, answers of the child, whose ACKs name stored blocks.
Sound(d) ==
    \/ d.src = "stranger" /\ d.op # "WRQ"
    \/ d = Wrq
    \/ d.src = "client" /\ d.op = "DATA" /\ PieceInFlight(d)
    \/ d.src = "child" /\ d.op \in {"NUL", "ERROR"}
    \/ d.src = "child" /\ d.op = "ACK" /\ d.blk <= N /\ (tgPc = "failed" => d.blk < N)

NetInv == \A d \in InFlight : Sound(d)

\* The child's counters against the file.
ServerInv ==
    /\ N <= tsSent
    /\ tgPc = "listen" => N = 0
    /\ tgPc = "failed" => N > 0
    /\ tgPc = "wait" => tgCount = (N + 1) % M
    /\ tgAck # NoAck => tgAck <= N /\ (tgPc = "failed" => tgAck < N)

\* While the child waits, all it has stored is whole, and from the second block
\* on its datasize is that of the first block: a block of any other size ends
\* the transfer.  Only the last stored block of an ended child can be damaged.
FileInv ==
    /\ \A i \in 1..N : written[i].piece = i
    /\ \A i \in 1..(N - 1) : written[i].size = PieceSize(i)
    /\ N > 0 /\ tgPc # "failed" => written[N].size \in {PieceSize(N), LastSize}
    /\ N > 0 /\ tgPc = "wait" =>
          /\ ~tgFlag
          /\ tgSize = PieceSize(1)
          /\ written[N].size = PieceSize(N)

IInv ==
    /\ TypeInv
    /\ ClientInv /\ BufferInv /\ NetInv /\ ServerInv /\ FileInv
    /\ NoFalseSuccess

--------------------------------------------------------------------------------
(* What MissingIsKept needs besides: while the client sends, the last stop for *)
(* an ACK is behind it, and the server has stored everything up to there; so   *)
(* what may be missing is the window, and each slot holds its last piece.      *)

WindowInv ==
    /\ tsPc = "send" => tsSent - (tsSent % CAck) <= N
    /\ tsSent <= N + CAck
    /\ \A k \in 1..tsSent :
          k + CAck > tsSent => tsBuf[Slot(Count(k))] = k \/ (k = 1 /\ tsSent > 1)

--------------------------------------------------------------------------------
(* With one piece at a time, and datasizes the server can tell the last block  *)
(* by, the server is never mistaken about the end of the file.                 *)

OneAtATime == CAck = 1 /\ (SrvSize = DataSize \/ DataSize > StdSize)

\* The only slot holds the last piece read, so every piece in flight has its own
\* length; the first packet that sets the server's datasize is the first piece.
WholeInv ==
    /\ \A d \in InFlight :
          d.src = "client" /\ d.op = "DATA" => d.size = PieceSize(d.piece)
    /\ tsBuf[0] = tsSent
    /\ tgPc \in {"listen", "wait"} /\ N = 0 => tgFlag /\ tgSize = SrvSize
    /\ tgPc \in {"closing", "done"} => written = SourceFile

--------------------------------------------------------------------------------
(* Stop-and-wait on a network in time: whatever is on its way is there alone,  *)
(* so that block numbers may wrap.                                             *)

\* Delays below the timeout, no duplicates, foreign datagrams from other hosts.
Timely ==
    /\ ~Slow /\ MaxDups = 0 /\ CAck = 1
    /\ \A d \in Stray : d.src = "stranger"

\* Unless fclose() has lost some of it without notice.
Intact == tgPc # "done" \/ "flush" \notin Faults

Coming == {d \in InFlight : Awaited(d) /\ d.src # "stranger"}

\* What can be in flight, each piece under its number and with its own length.
Known(d) ==
    \/ d.src = "stranger" /\ d.op # "WRQ"
    \/ d = Wrq
    \/ /\ d.src = "client" /\ d.op = "DATA" /\ d.piece \in 1..tsSent
       /\ d.blk = Count(d.piece) /\ d.size = PieceSize(d.piece)
    \/ d.src = "child" /\ d.dst = "client" /\ d.op \in {"ACK", "NUL", "ERROR"}

\* While the client runs, the request, the last piece read or the answer to it is
\* on its way, once, or nothing is.
TurnInv ==
    /\ \A d \in InFlight : Known(d)
    /\ tgPc = "wait" => \A d \in InFlight : d.src = "client" /\ d.dst = "child" => d.piece = tsSent
    /\ tsPc \notin TsEnded =>
        /\ \A d \in Coming : net[d] = 1
        /\ \A d, e \in Coming : d = e
        /\ \A d \in InFlight : d.src = "child" /\ d.op = "ACK" => d.blk = Count(N) /\ tgPc # "failed"
    /\ tsPc = "send" => Coming = {}
    /\ Wrq \in Coming => tsPc = "first"

\* The two sides are at most one piece apart.
CountInv ==
    /\ tsSent \in {N, N + 1}
    /\ tsPc \in {"first", "send"} => tsSent = N
    /\ tsPc = "first" => tsSent = 0
    /\ tsPc = "ack" => tsSent > 0 /\ tsBuf[0] = tsSent /\ tsLen = PieceSize(tsSent)
    /\ tsPc = "done" => N = Chunks /\ tgPc # "failed"
    /\ tgPc = "listen" => N = 0
    /\ tgPc = "failed" => N > 0
    /\ tgPc = "wait" => tgCount = Count(N + 1) /\ tgAck \in {NoAck, Count(N)}

\* All that is stored is whole, but for what fwrite() has cut.
StoreInv == \A i \in 1..N : tgPc # "failed" \/ i < N => written[i] = SourceFile[i]

\* The server recognises the last block, as with WholeInv.
EndInv ==
    /\ tgPc \in {"listen", "wait"} => tgFlag = (N = 0) /\ (N = 0 => tgSize = SrvSize)
    /\ tgPc = "wait" /\ N > 0 => tgSize = PieceSize(1)
    /\ tgPc \in {"closing", "done"} => N = Chunks

TimelyInv ==
    /\ InOrder
    /\ Intact => TurnInv /\ CountInv /\ StoreInv /\ (OneAtATime => EndInv)
================================================================================
