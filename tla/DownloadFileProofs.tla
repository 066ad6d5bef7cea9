--------------------------- MODULE DownloadFileProofs --------------------------
(***************************************************************************)
(* Theorems about the download with one piece at a time and answers in     *)
(* time: what is stored, and what a reported success means.                *)
(***************************************************************************)
EXTENDS DownloadProofs

USE NetworkAssumption, TftpAssumption, TftpdSendAssumption, TftpcGetAssumption,
    SlowAssumption

--------------------------------------------------------------------------------
(* What the hypothesis makes of the operators.                                 *)

LEMMA ByOne == \A x \in Int : x % 1 = 0
  OBVIOUS

LEMMA OnePiece ==
    ASSUME Timely
    PROVE  /\ \A k \in 0..Chunks : Count(k) = k
           /\ \A k \in 0..Chunks : DsWaitsForAck(k)
           /\ \A k \in 0..Chunks : DsSlot(k) = 0
           /\ \A k \in 0..Chunks : k # Chunks => PieceSize(k) = StdSize
           /\ PieceSize(Chunks) < StdSize
           /\ SrvSize = StdSize
<1>1. \A k \in 0..Chunks : Count(k) = k
  BY CountSmall DEF Count, Timely
<1>2. \A k \in 0..Chunks : DsWaitsForAck(k)
  BY <1>1, ByOne DEF DsWaitsForAck, Timely
<1>3. \A k \in 0..Chunks : DsSlot(k) = 0
  BY ByOne DEF DsSlot, Timely
<1> QED BY <1>1, <1>2, <1>3 DEF PieceSize, Timely

LEMMA AckAlways ==
    ASSUME Timely, TypeInv
    PROVE  CgAckDue
<1>1. cgCount - 1 \in Int
  BY DEF TypeInv, TypeOK, CgTypeOK
<1> QED BY <1>1, ByOne DEF CgAckDue, Timely

LEMMA PieceFields ==
    \A k : /\ Piece(k).src = "child" /\ Piece(k).dst = "client" /\ Piece(k).op = "DATA"
           /\ Piece(k).piece = k /\ Piece(k).size = PieceSize(k)
  BY DEF Piece, DsPacket, Data

LEMMA AnswerFields ==
    /\ Answer.src = "client" /\ Answer.dst = "child" /\ Answer.op = "ACK" /\ Answer.blk = N
    /\ Answer'.src = "client" /\ Answer'.dst = "child" /\ Answer'.op = "ACK"
  BY DEF Answer, Ack, Control

\* What the step of a program does to the copies of a datagram.
LEMMA Copied ==
    ASSUME IsABag(net), NEW D, NEW S, Exchange(D, S), NEW x
    PROVE  /\ x \in InFlight' => x \in S \/ (x \in InFlight /\ (net[x] = 1 => x \notin D))
           /\ x \in InFlight' /\ x \notin S /\ net[x] = 1 => net'[x] = 1
           /\ x \in S => x \in InFlight'
           /\ x \in S /\ x \notin InFlight => net'[x] = 1
           /\ x \in InFlight /\ x \notin D => x \in InFlight'
  BY DEF Exchange, IsABag, InFlight, BagToSet, SetToBag, (+), (-)

LEMMA FailsToSend ==
    ASSUME NEW D, NEW x, ExchangeFails(D, {x})
    PROVE  Exchange(D, {})
  BY DEF ExchangeFails

\* The types, in the form in which they are used.
LEMMA Facts ==
    ASSUME Timely, TypeInv
    PROVE  /\ dsSent \in 0..Chunks /\ dsJ \in 0..RETRIES /\ N \in Nat /\ IsABag(net)
           /\ Chunks + RETRIES < M /\ Chunks \in Nat /\ RETRIES \in Nat
           /\ got \in Seq([piece : Nat, size : Nat])
<1>1. got \in Seq([piece : Nat, size : Nat])
  BY DEF TypeInv, TypeOK, CgTypeOK
<1>2. N \in Nat
  BY <1>1 DEF N
<1> QED BY <1>1, <1>2 DEF TypeInv, TypeOK, CgTypeOK, DsTypeOK, NetTypeOK, Timely

\* Other programs are on other hosts.
LEMMA NotStray ==
    ASSUME Timely
    PROVE  \A d \in Stray : d.src \notin {"client", "child"} /\ ~FromHost(d, "here")
                            /\ ~FromHost(d, "there")
  BY SocketSet DEF Timely, FromHost, Host

\* What has gone wrong stays so.
LEMMA ExcuseStays ==
    ASSUME Excused, lost' = lost \/ (\E d : lost' = Append(lost, d)), lost \in Seq(Datagram),
           PortKnown => cgPeer' = cgPeer
    PROVE  Excused'
<1>1. CASE AckLost
  <2>1. PICK n \in DOMAIN lost : lost[n].op = "ACK"
    BY <1>1 DEF AckLost
  <2>2. n \in DOMAIN lost' /\ lost'[n] = lost[n]
    BY <2>1
  <2> QED BY <2>1, <2>2 DEF Excused, AckLost
<1>2. CASE ~PeerIsServer
  BY <1>2 DEF Excused, PeerIsServer, PortKnown
<1> QED BY <1>1, <1>2 DEF Excused

--------------------------------------------------------------------------------
(* Steps that store nothing and send nothing.                                  *)

Context == Timely /\ TypeInv /\ TypeInv' /\ TimelyInv

LEMMA Shrinks ==
    ASSUME Context, got' = got, UNCHANGED <<dsSent, dsBuf, dsLen, dsJ>>, CtlInv',
           dsPc' = dsPc \/ (dsPc = "listen" /\ dsPc' = "send"),
           Alive' => Alive, cgPc' \in {"last", "done"} => cgPc \in {"last", "done"},
           Excused => Excused',
           \A x \in InFlight' : x \in InFlight /\ (net[x] = 1 => net'[x] = 1),
           Answer \in InFlight => Answer \in InFlight' \/ Excused'
    PROVE  TimelyInv'
<1>1. N' = N /\ Answer' = Answer
  BY DEF N, Answer
<1>2. dsPc = "listen" => dsSent = 0 /\ N = 0
  BY DEF Context, TimelyInv, CtlInv, StoreInv
<1>3. StoreInv'
  BY <1>1, <1>2 DEF Context, TimelyInv, StoreInv
<1>4. TurnInv'
  <2>1. ASSUME NEW d \in InFlight' PROVE Known(d)'
    <3>1. Known(d)
      BY DEF Context, TimelyInv, TurnInv
    <3> QED BY <1>1, <3>1 DEF Known
  <2>2. ASSUME NEW k \in 1..dsSent, Alive', Piece(k) \in InFlight'
        PROVE  /\ k = dsSent /\ net'[Piece(k)] = 1 /\ dsPc' # "send"
               /\ N >= dsSent => N < dsSent + dsJ /\ Excused'
    <3>1. Alive /\ Piece(k) \in InFlight /\ dsPc # "listen"
      BY <1>2, <2>2 DEF Context
    <3> QED BY <2>2, <3>1 DEF Context, TimelyInv, TurnInv
  <2>3. dsPc' \in {"listen", "send"} => \A d \in InFlight' : ~ForChild(d)
    BY DEF Context, TimelyInv, TurnInv, ForChild
  <2>4. dsPc' = "ack" /\ Answer \in InFlight' =>
          /\ N >= dsSent
          /\ dsSent < Chunks => net'[Answer] = 1
          /\ Alive' => Piece(dsSent) \notin InFlight'
    BY DEF Context, TimelyInv, TurnInv
  <2>5. dsPc' = "ack" /\ Alive' /\ N = dsSent /\ Answer \notin InFlight' => Excused'
    BY DEF Context, TimelyInv, TurnInv
  <2> QED BY <1>1, <2>1, <2>2, <2>3, <2>4, <2>5 DEF TurnInv
<1> QED BY <1>3, <1>4 DEF TimelyInv

\* A datagram is received that is neither a piece nor the ACK of one, or none.
LEMMA Drops ==
    ASSUME Context, NEW D, Exchange(D, {}), Answer \notin D \/ Excused \/ dsPc # "ack"
    PROVE  /\ \A x \in InFlight' : x \in InFlight /\ (net[x] = 1 => net'[x] = 1)
           /\ Answer \in InFlight => Answer \in InFlight' \/ Answer \in D
           /\ lost' = lost
<1>1. IsABag(net)
  BY Facts DEF Context
<1> QED BY <1>1, Copied DEF Exchange

LEMMA CgOpenKeeps == Context /\ CgOpen /\ UNCHANGED dsvars => TimelyInv'
<1> SUFFICES ASSUME Context, CgOpen, UNCHANGED dsvars PROVE TimelyInv'
  OBVIOUS
<1>1. UNCHANGED <<got, dsPc, dsSent, dsBuf, dsLen, dsJ, net, lost, cgPeer, cgSize>>
  BY DEF CgOpen, dsvars, netvars
<1>2. CtlInv'
  BY <1>1 DEF CgOpen, Context, TimelyInv, CtlInv, N
<1>3. Excused => Excused'
  BY <1>1 DEF Excused, AckLost, PeerIsServer, PortKnown
<1>4. (Alive' => Alive) /\ cgPc' \notin {"last", "done"}
  BY DEF Alive, CgOpen
<1> QED BY <1>1, <1>2, <1>3, <1>4, Shrinks DEF InFlight

LEMMA CgTimeoutKeeps == Context /\ CgTimeout /\ UNCHANGED dsvars => TimelyInv'
<1> SUFFICES ASSUME Context, CgTimeout, UNCHANGED dsvars PROVE TimelyInv'
  OBVIOUS
<1>1. /\ UNCHANGED <<got, dsPc, dsSent, dsBuf, dsLen, dsJ, net, lost, cgSize, cgCount>>
      /\ cgPc = "wait" /\ cgPc' \in {"wait", "aborted"}
      /\ PortKnown => cgPeer' = cgPeer
  BY DEF CgTimeout, CgRetry, dsvars, netvars
<1>2. CtlInv'
  BY <1>1 DEF Context, TimelyInv, CtlInv, N
<1>3. Excused => Excused'
  BY <1>1 DEF Excused, AckLost, PeerIsServer, PortKnown
<1>4. (Alive' => Alive) /\ cgPc' \notin {"last", "done"}
  BY <1>1 DEF Alive
<1> QED BY <1>1, <1>2, <1>3, <1>4, Shrinks DEF InFlight

LEMMA CgMismatchKeeps ==
    ASSUME Context, NEW d \in InFlight, CgMismatch(d), UNCHANGED dsvars
    PROVE  TimelyInv'
<1>1. d = Error("child", "client") /\ dsPc = "refused"
  <2>1. Known(d) /\ FromHost(d, "there") /\ d.dst = "client" /\ d.op # "DATA"
    BY DEF Context, TimelyInv, TurnInv, CgMismatch, CgReceives
  <2>2. d \notin Stray /\ d # Rrq /\ d.src # "client"
    BY <2>1, NotStray DEF Context, Rrq, Control, FromHost, Host
  <2> QED BY <2>1, <2>2, PieceFields DEF Known
<1>2. Exchange({d}, {})
  <2>1. d.op # "BAD"
    BY <1>1 DEF Error
  <2> QED BY <2>1 DEF CgMismatch, Complaint
<1>3. /\ UNCHANGED <<got, dsPc, dsSent, dsBuf, dsLen, dsJ, cgCount>>
      /\ cgPc = "wait" /\ cgPc' \in {"wait", "aborted"}
  BY DEF CgMismatch, CgRetry, CgReceives, dsvars
<1>4. CtlInv'
  BY <1>1, <1>3 DEF Context, TimelyInv, CtlInv, N
<1>5. /\ \A x \in InFlight' : x \in InFlight /\ (net[x] = 1 => net'[x] = 1)
      /\ Answer \in InFlight => Answer \in InFlight'
      /\ lost' = lost
  <2>1. Answer \notin {d}
    BY <1>1, AnswerFields DEF Error
  <2> QED BY <1>1, <1>2, <2>1, Drops
<1>6. Excused => Excused'
  BY <1>5 DEF Excused, AckLost, PeerIsServer, PortKnown, CgMismatch, CgAdapt, Peer
<1>7. (Alive' => Alive) /\ cgPc' \notin {"last", "done"}
  BY <1>3 DEF Alive
<1> QED BY <1>3, <1>4, <1>5, <1>6, <1>7, Shrinks

LEMMA CgForeignKeeps ==
    ASSUME Context, NEW d \in InFlight, CgForeign(d), UNCHANGED dsvars
    PROVE  TimelyInv'
<1>1. /\ UNCHANGED <<got, dsPc, dsSent, dsBuf, dsLen, dsJ, cgCount, cgPc, cgSize>>
      /\ Exchange({d}, {}) /\ d.dst = "client"
  BY DEF CgForeign, dsvars
<1>2. CtlInv'
  BY <1>1 DEF Context, TimelyInv, CtlInv, N
<1>3. /\ \A x \in InFlight' : x \in InFlight /\ (net[x] = 1 => net'[x] = 1)
      /\ Answer \in InFlight => Answer \in InFlight'
      /\ lost' = lost
  <2>1. Answer \notin {d}
    BY <1>1, AnswerFields
  <2> QED BY <1>1, <2>1, Drops
<1>4. Excused => Excused'
  BY <1>3 DEF Excused, AckLost, PeerIsServer, PortKnown, CgForeign, Peer
<1>5. Alive' => Alive
  BY <1>1 DEF Alive
<1> QED BY <1>1, <1>2, <1>3, <1>4, <1>5, Shrinks

LEMMA DsStartKeeps ==
    ASSUME Context, NEW d \in InFlight, DsStart(d), UNCHANGED cgvars
    PROVE  TimelyInv'
<1>1. /\ UNCHANGED <<got, dsSent, dsBuf, dsLen, dsJ, cgCount, cgPc, cgSize, cgPeer>>
      /\ Exchange({d}, {}) /\ dsPc = "listen" /\ dsPc' = "send"
  BY DEF DsStart, cgvars
<1>2. CtlInv'
  BY <1>1 DEF Context, TimelyInv, CtlInv, N
<1>3. /\ \A x \in InFlight' : x \in InFlight /\ (net[x] = 1 => net'[x] = 1)
      /\ Answer \notin InFlight
      /\ lost' = lost
  <2>1. Answer \notin InFlight
    BY <1>1, AnswerFields DEF Context, TimelyInv, TurnInv, ForChild
  <2> QED BY <1>1, <2>1, Drops
<1>4. Excused => Excused'
  BY <1>1, <1>3 DEF Excused, AckLost, PeerIsServer, PortKnown
<1>5. Alive' => Alive
  BY <1>1 DEF Alive
<1> QED BY <1>1, <1>2, <1>3, <1>4, <1>5, Shrinks

LEMMA DsForeignKeeps ==
    ASSUME Context, NEW d \in InFlight, DsForeign(d), UNCHANGED cgvars
    PROVE  TimelyInv'
<1>1. /\ UNCHANGED <<got, dsPc, dsSent, dsBuf, dsLen, dsJ, cgCount, cgPc, cgSize, cgPeer>>
      /\ Exchange({d}, {}) /\ ~FromHost(d, "here")
  BY DEF DsForeign, dsvars, cgvars
<1>2. CtlInv'
  BY <1>1 DEF Context, TimelyInv, CtlInv, N
<1>3. /\ \A x \in InFlight' : x \in InFlight /\ (net[x] = 1 => net'[x] = 1)
      /\ Answer \in InFlight => Answer \in InFlight'
      /\ lost' = lost
  <2>1. Answer \notin {d}
    BY <1>1, AnswerFields DEF FromHost, Host
  <2> QED BY <1>1, <2>1, Drops
<1>4. Excused => Excused'
  BY <1>1, <1>3 DEF Excused, AckLost, PeerIsServer, PortKnown
<1>5. Alive' => Alive
  BY <1>1 DEF Alive
<1> QED BY <1>1, <1>2, <1>3, <1>4, <1>5, Shrinks

LEMMA NetKeeps == Context /\ NetStep => TimelyInv'
<1> SUFFICES ASSUME Context, NetStep PROVE TimelyInv'
  OBVIOUS
<1>1. UNCHANGED <<got, dsPc, dsSent, dsBuf, dsLen, dsJ, cgCount, cgPc, cgSize, cgPeer>>
  BY DEF NetStep, cgvars, dsvars
<1>2. PICK d \in InFlight : Lose(d) \/ Duplicate(d)
  BY DEF NetStep
<1>3. Lose(d)
  BY <1>2 DEF Context, TypeInv, TypeOK, NetTypeOK, Timely, Duplicate
<1>4. CtlInv'
  BY <1>1 DEF Context, TimelyInv, CtlInv, N
<1>5. /\ \A x \in InFlight' : x \in InFlight /\ (net[x] = 1 => net'[x] = 1)
      /\ Answer \in InFlight => Answer \in InFlight' \/ Answer = d
  <2>1. IsABag(net)
    BY Facts DEF Context
  <2> QED BY <1>3, <2>1 DEF Lose, InFlight, BagToSet, SetToBag, (-), IsABag
<1>6. lost \in Seq(Datagram) /\ lost' = Append(lost, d)
  BY <1>3 DEF Lose, Context, TypeInv, TypeOK, NetTypeOK
<1>7. Excused => Excused'
  BY <1>1, <1>6, ExcuseStays
<1>8. Answer = d => Excused'
  <2> SUFFICES ASSUME Answer = d PROVE AckLost'
    BY DEF Excused
  <2>1. d \in Datagram
    BY DEF Context, TypeInv, TypeOK, NetTypeOK
  <2>2. Len(lost) + 1 \in DOMAIN lost' /\ lost'[Len(lost) + 1] = d
    BY <1>6, <2>1
  <2> QED BY <2>2, AnswerFields DEF AckLost
<1>9. Alive' => Alive
  BY <1>1 DEF Alive
<1> QED BY <1>1, <1>4, <1>5, <1>7, <1>8, <1>9, Shrinks

--------------------------------------------------------------------------------
(* The client takes a piece.                                                   *)

\* What it takes is the piece on its way, in a datasize that fits; the port it
\* keeps is not the daemon's.
LEMMA Accepted ==
    ASSUME Context, NEW d \in InFlight, CgReceives(d), d.op = "DATA"
    PROVE  /\ d = Piece(dsSent) /\ dsSent \in 1..Chunks /\ net[d] = 1
           /\ N >= dsSent => N < dsSent + dsJ /\ Excused
           /\ dsPc \notin {"listen", "send", "refused", "done"}
           /\ Fitted(d) = StdSize /\ Peer(d) # "tftpd"
           /\ CgAcks(d) = {Ack("client", Peer(d), N + 1)}
           /\ cgCount = N + 1 /\ Alive
<1>1. dsSent \in 0..Chunks /\ N \in Nat
  BY Facts DEF Context
<1>2. PICK k \in 1..dsSent : d = Piece(k)
  <2>1. Known(d) /\ FromHost(d, "there") /\ d.op = "DATA"
    BY DEF Context, TimelyInv, TurnInv, CgReceives
  <2>2. d \notin Stray /\ d # Rrq /\ d.src # "client" /\ d # Error("child", "client")
    BY <2>1, NotStray DEF Context, Rrq, Control, FromHost, Host, Error
  <2> QED BY <2>1, <2>2 DEF Known
<1>3. Alive /\ cgPc = "wait"
  BY DEF CgReceives, Alive
<1>4. /\ k = dsSent /\ net[Piece(k)] = 1 /\ dsPc # "send"
      /\ N >= dsSent => N < dsSent + dsJ /\ Excused
  BY <1>2, <1>3 DEF Context, TimelyInv, TurnInv
<1>5. dsPc \notin {"listen", "refused", "done"}
  <2>1. dsPc # "done"
    BY <1>1, <1>3 DEF Context, TimelyInv, StoreInv
  <2> QED BY <1>1, <1>2, <2>1 DEF Context, TimelyInv, CtlInv
<1>6. Fitted(d) = StdSize
  <2>1. d.size = PieceSize(dsSent) /\ cgSize = StdSize
    BY <1>2, <1>4, <1>5, PieceFields DEF Context, TimelyInv, CtlInv
  <2>2. d.size = StdSize \/ ~(d.size > StdSize)
    <3>1. CASE dsSent = Chunks
      BY <2>1, <3>1, OnePiece, PieceSizeType DEF Context
    <3>2. CASE dsSent # Chunks
      BY <1>1, <2>1, <3>2, OnePiece DEF Context
    <3> QED BY <3>1, <3>2
  <2> QED BY <2>1, <2>2 DEF Fitted
<1>7. Peer(d) # "tftpd"
  BY <1>2, PieceFields DEF Peer, PortKnown
<1>8. cgCount = N + 1
  BY <1>3 DEF Context, TimelyInv, CtlInv
<1>9. CgAcks(d) = {Ack("client", Peer(d), N + 1)}
  BY <1>8, AckAlways DEF CgAcks, Context
<1> QED BY <1>1, <1>2, <1>3, <1>4, <1>5, <1>6, <1>7, <1>8, <1>9

\* While a piece is on its way, no ACK is.
LEMMA NoAnswer ==
    ASSUME Context, Alive, dsSent > 0, Piece(dsSent) \in InFlight, dsPc = "ack",
           NEW x \in InFlight, ForChild(x)
    PROVE  FALSE
<1>1. Known(x)
  BY DEF Context, TimelyInv, TurnInv
<1>2. x = Answer
  BY <1>1, NotStray, PieceFields DEF Known, ForChild, Context, Rrq, Control, Error
<1> QED BY <1>2 DEF Context, TimelyInv, TurnInv

\* It stores the piece and sends an ACK to the port it has kept.
LEMMA Stores ==
    ASSUME Context, NEW d \in InFlight, CgAccept(d), UNCHANGED dsvars, cgPc' # "returned"
    PROVE  TimelyInv'
<1> DEFINE A == Ack("client", Peer(d), N + 1)
<1>1. /\ d = Piece(dsSent) /\ dsSent \in 1..Chunks /\ net[d] = 1
      /\ N >= dsSent => N < dsSent + dsJ /\ Excused
      /\ dsPc \notin {"listen", "send", "refused", "done"}
      /\ Fitted(d) = StdSize /\ Peer(d) # "tftpd"
      /\ CgAcks(d) = {A} /\ cgCount = N + 1 /\ Alive
  BY Accepted DEF CgAccept
<1>2. /\ UNCHANGED <<dsPc, dsSent, dsBuf, dsLen, dsJ>>
      /\ cgPeer' = Peer(d) /\ cgSize' = StdSize /\ Exchange({d}, {A}) /\ lost' = lost
      /\ got' = Append(got, [piece |-> d.piece, size |-> d.size])
      /\ IF d.size = StdSize THEN cgPc' = "wait" /\ cgCount' = (cgCount + 1) % M
                             ELSE cgPc' = "last" /\ cgCount' = cgCount
  BY <1>1 DEF CgAccept, CgAdapt, CgStore, dsvars, Exchange
<1>3. /\ d.size = PieceSize(dsSent) /\ d.piece = dsSent /\ d.src = "child"
      /\ d.size = StdSize <=> dsSent # Chunks
  <2>1. d.size = PieceSize(dsSent) /\ d.piece = dsSent /\ d.src = "child"
    BY <1>1, PieceFields
  <2>2. PieceSize(Chunks) # StdSize
    BY OnePiece, PieceSizeType DEF Context
  <2> QED BY <1>1, <2>1, <2>2, OnePiece DEF Context
<1>4. /\ dsSent \in 0..Chunks /\ dsJ \in 0..RETRIES /\ N \in Nat /\ IsABag(net)
      /\ Chunks + RETRIES < M /\ Chunks \in Nat /\ RETRIES \in Nat /\ M \in Nat
      /\ RETRIES > 0
  BY Facts DEF Context
<1>5. N' = N + 1 /\ (\A k \in 1..N : got'[k] = got[k])
      /\ got'[N + 1] = [piece |-> dsSent, size |-> PieceSize(dsSent)]
  <2>1. got \in Seq([piece : Nat, size : Nat])
    BY Facts DEF Context
  <2> QED BY <1>2, <1>3, <2>1 DEF N
<1>6. /\ N <= dsSent => \A k \in 1..N : got[k] = SourceFile[k]
      /\ N > dsSent => dsSent < Chunks
      /\ N + 1 >= dsSent /\ N <= dsSent + dsJ /\ (N >= dsSent => dsSent < Chunks)
  BY <1>1 DEF Context, TimelyInv, StoreInv
<1>7. Excused => Excused'
  <2>1. lost \in Seq(Datagram)
    BY DEF Context, TypeInv, TypeOK, NetTypeOK
  <2> QED BY <1>2, <2>1, ExcuseStays DEF Peer
<1>8. Peer(d) = "child" \/ Excused'
  BY <1>1, <1>2 DEF Excused, PeerIsServer, PortKnown
<1>9. CtlInv'
  <2>1. cgPc' = "wait" => cgCount' = N' + 1
    <3>1. N + 2 < M
      BY <1>1, <1>4, <1>6
    <3>2. (N + 2) % M = N + 2
      BY <1>4, <3>1, CountSmall
    <3>3. cgCount + 1 = N + 2
      BY <1>1, <1>4
    <3> QED BY <1>2, <1>4, <1>5, <3>2, <3>3
  <2>2. cgPc' = "last" => cgCount' = N'
    BY <1>1, <1>2, <1>5
  <2>3. cgPc' # "open"
    BY <1>2
  <2> QED BY <1>1, <1>2, <2>1, <2>2, <2>3 DEF Context, TimelyInv, CtlInv
<1>10. StoreInv'
  <2>1. N' <= dsSent => \A k \in 1..N' : got'[k] = SourceFile[k]
    <3> SUFFICES ASSUME N' <= dsSent, NEW k \in 1..N' PROVE got'[k] = SourceFile[k]
      OBVIOUS
    <3>1. N' = dsSent /\ N <= dsSent
      BY <1>4, <1>5, <1>6
    <3>2. CASE k = N'
      BY <1>1, <1>5, <3>1, <3>2 DEF SourceFile
    <3>3. CASE k # N'
      <4>1. k \in 1..N
        BY <1>4, <1>5, <3>3
      <4> QED BY <1>5, <1>6, <3>1, <4>1
    <3> QED BY <3>2, <3>3
  <2>2. N' > dsSent => dsSent < Chunks /\ Excused'
    BY <1>1, <1>4, <1>5, <1>6, <1>7
  <2>3. cgPc' \in {"last", "done"} => dsSent = Chunks /\ N' = Chunks
    <3> SUFFICES ASSUME cgPc' \in {"last", "done"} PROVE dsSent = Chunks /\ N' = Chunks
      OBVIOUS
    <3>1. dsSent = Chunks
      BY <1>2, <1>3
    <3> QED BY <1>4, <1>5, <1>6, <3>1
  <2>4. Alive' => dsSent < Chunks
    BY <1>1, <1>2, <1>3, <1>4 DEF Alive
  <2>5. N' + 1 >= dsSent /\ N' <= dsSent + dsJ
    BY <1>1, <1>4, <1>5, <1>6
  <2>6. dsSent' = dsSent /\ dsJ' = dsJ /\ dsPc' \notin {"send", "done"} /\ dsSent # 0
    BY <1>1, <1>2
  <2>7. SourceFile' = SourceFile
    BY DEF SourceFile, PieceSize
  <2> QED BY <2>1, <2>2, <2>3, <2>4, <2>5, <2>6, <2>7 DEF StoreInv
<1>11. /\ \A x \in InFlight' : x = A \/ (x \in InFlight /\ x # d)
       /\ A \in InFlight' /\ (A \notin InFlight => net'[A] = 1)
  <2>1. \A x : x \in InFlight' => x \in {A} \/ (x \in InFlight /\ (net[x] = 1 => x \notin {d}))
    BY <1>2, <1>4, Copied
  <2>2. A \in InFlight' /\ (A \notin InFlight => net'[A] = 1)
    BY <1>2, <1>4, Copied
  <2> QED BY <1>1, <2>1, <2>2
<1>12. A.src = "client" /\ A.op = "ACK" /\ A.dst = Peer(d)
       /\ (Peer(d) = "child" => A = Answer')
  BY <1>5 DEF Answer, Ack, Control
<1>13. dsPc = "ack" => \A x \in InFlight : ~ForChild(x)
  BY <1>1, NoAnswer
<1>14. TurnInv'
  <2>1. ASSUME NEW x \in InFlight' PROVE Known(x)'
    <3>1. CASE x = A
      BY <1>12, <3>1 DEF Known
    <3>2. CASE x # A
      <4>1. x \in InFlight
        BY <1>11, <3>2
      <4>2. Known(x)
        BY <4>1 DEF Context, TimelyInv, TurnInv
      <4>3. dsPc = "ack" => ~(x.src = "client" /\ x.dst = "child")
        BY <1>13, <4>1 DEF ForChild
      <4> QED BY <1>2, <4>2, <4>3 DEF Known
    <3> QED BY <3>1, <3>2
  <2>2. ASSUME NEW k \in 1..dsSent, Piece(k) \in InFlight' PROVE FALSE
    <3>1. Piece(k) # A
      BY <1>12, PieceFields
    <3>2. Piece(k) \in InFlight /\ Piece(k) # d
      BY <1>11, <2>2, <3>1
    <3>3. k = dsSent
      BY <1>1, <3>2 DEF Context, TimelyInv, TurnInv
    <3> QED BY <1>1, <3>2, <3>3
  <2>3. \A k \in 1..dsSent : Piece(k)' = Piece(k)
    BY DEF Piece
  <2>4. ASSUME dsPc = "ack", Answer' \in InFlight'
        PROVE  net'[Answer'] = 1
    <3>1. Answer' \notin InFlight
      BY <1>13, <2>4, AnswerFields DEF ForChild
    <3>2. Answer' = A
      BY <1>11, <2>4, <3>1
    <3> QED BY <1>11, <3>1, <3>2
  <2>5. N' >= dsSent
    BY <1>4, <1>5, <1>6
  <2>6. Answer' \notin InFlight' => Excused'
    BY <1>8, <1>11, <1>12
  <2> QED BY <1>1, <1>2, <2>1, <2>2, <2>3, <2>4, <2>5, <2>6 DEF TurnInv
<1> QED BY <1>9, <1>10, <1>14 DEF TimelyInv

LEMMA CgAcceptKeeps ==
    ASSUME Context, NEW d \in InFlight, CgAccept(d), UNCHANGED dsvars
    PROVE  TimelyInv'
<1>1. CASE cgPc' # "returned"
  BY <1>1, Stores
<1>2. CASE cgPc' = "returned"
  <2>1. /\ d = Piece(dsSent) /\ Fitted(d) = StdSize /\ Peer(d) # "tftpd"
        /\ CgAcks(d) = {Ack("client", Peer(d), N + 1)}
    BY Accepted DEF CgAccept
  <2>2. /\ UNCHANGED <<got, dsPc, dsSent, dsBuf, dsLen, dsJ, cgCount>>
        /\ cgSize' = StdSize /\ cgPeer' = Peer(d)
        /\ ExchangeFails({d}, {Ack("client", Peer(d), N + 1)})
    BY <1>2, <2>1 DEF CgAccept, CgAdapt, dsvars
  <2>3. Exchange({d}, {})
    BY <2>2, FailsToSend
  <2>4. CtlInv'
    BY <1>2, <2>2 DEF Context, TimelyInv, CtlInv, N
  <2>5. /\ \A x \in InFlight' : x \in InFlight /\ (net[x] = 1 => net'[x] = 1)
        /\ Answer \in InFlight => Answer \in InFlight'
        /\ lost' = lost
    <3>1. Answer \notin {d}
      BY <2>1, AnswerFields, PieceFields
    <3> QED BY <2>3, <3>1, Drops
  <2>6. Excused => Excused'
    BY <2>2, <2>5 DEF Excused, AckLost, PeerIsServer, PortKnown, Peer
  <2>7. ~Alive'
    BY <1>2 DEF Alive
  <2> QED BY <1>2, <2>2, <2>4, <2>5, <2>6, <2>7, Shrinks
<1> QED BY <1>1, <1>2

\* fwrite() stores the block: the disk takes what it is given.
LEMMA DiskTakes == Timely => \A d : ~CgDiskFull(d)
  BY DEF Timely, CgDiskFull

\* The last ACK: the server, if it still waits, waits for this one.
LEMMA CgLastKeeps == Context /\ CgLast /\ UNCHANGED dsvars => TimelyInv'
<1> SUFFICES ASSUME Context, CgLast, UNCHANGED dsvars PROVE TimelyInv'
  OBVIOUS
<1> DEFINE A == Ack("client", cgPeer, N)
<1>1. /\ UNCHANGED <<got, dsPc, dsSent, dsBuf, dsLen, dsJ, cgCount, cgSize, cgPeer>>
      /\ CgAnswer({}, {A}, "done") /\ cgPc = "last"
  BY DEF CgLast, Context, TimelyInv, CtlInv, Timely, dsvars
<1>2. dsSent = Chunks /\ N = Chunks
  BY <1>1 DEF Context, TimelyInv, StoreInv
<1>3. N' = N /\ Answer' = Answer
  BY <1>1 DEF N, Answer
<1>4. cgPc' \in {"done", "returned"} /\ ~Alive'
  BY <1>1 DEF CgAnswer, Alive
<1>5. CtlInv'
  BY <1>1, <1>4 DEF Context, TimelyInv, CtlInv
<1>6. StoreInv'
  <2>1. SourceFile' = SourceFile
    BY DEF SourceFile, PieceSize
  <2> QED BY <1>1, <1>2, <1>3, <1>4, <2>1 DEF Context, TimelyInv, StoreInv
<1>7. \A x \in InFlight' : x = A \/ x \in InFlight
  <2>1. CASE Exchange({}, {A})
    BY <2>1, ExchangeInFlight
  <2>2. CASE ExchangeFails({}, {A})
    <3> HIDE DEF A
    <3>1. Exchange({}, {})
      BY <2>2, FailsToSend
    <3> QED BY <3>1, ExchangeInFlight
  <2> QED BY <1>1, <2>1, <2>2 DEF CgAnswer
<1>8. dsPc \notin {"listen", "send"} /\ ~(dsSent < Chunks)
  <2>1. Chunks \in Nat /\ Chunks # 0
    OBVIOUS
  <2> QED BY <1>2, <2>1 DEF Context, TypeInv
<1>9. TurnInv'
  <2>1. ASSUME NEW x \in InFlight' PROVE Known(x)'
    <3>1. CASE x = A
      <4>1. A.src = "client" /\ A.op = "ACK" /\ A.dst = cgPeer
            /\ (cgPeer = "child" => A = Answer)
        BY DEF Answer, Ack, Control
      <4> QED BY <1>3, <3>1, <4>1 DEF Known
    <3>2. CASE x \in InFlight
      <4>1. Known(x)
        BY <3>2 DEF Context, TimelyInv, TurnInv
      <4> QED BY <1>1, <1>3, <4>1 DEF Known
    <3> QED BY <1>7, <3>1, <3>2
  <2>2. N' >= dsSent'
    BY <1>1, <1>2, <1>3
  <2> QED BY <1>1, <1>4, <1>8, <2>1, <2>2 DEF TurnInv
<1> QED BY <1>5, <1>6, <1>9 DEF TimelyInv

--------------------------------------------------------------------------------
(* The server sends a piece, and sends it again.                               *)

LEMMA DsRefuseKeeps ==
    ASSUME Context, NEW d \in InFlight, DsRefuse(d), UNCHANGED cgvars
    PROVE  TimelyInv'
<1> DEFINE E == Error("child", "client")
<1>1. /\ UNCHANGED <<got, dsSent, dsBuf, dsLen, dsJ, cgCount, cgPc, cgSize, cgPeer>>
      /\ Exchange({d}, {E}) \/ ExchangeFails({d}, {E})
      /\ dsPc = "listen" /\ dsPc' = "refused"
  BY DEF DsRefuse, cgvars
<1>2. N' = N /\ Answer' = Answer /\ (Alive' <=> Alive)
  BY <1>1 DEF N, Answer, Alive
<1>3. dsSent = 0
  BY <1>1 DEF Context, TimelyInv, CtlInv
<1>4. Exchange({d}, {E}) \/ Exchange({d}, {})
  BY <1>1, FailsToSend
<1>5. \A x \in InFlight' : x = E \/ x \in InFlight
  BY <1>4, ExchangeInFlight
<1>6. Excused' = Excused
  BY <1>1, <1>4 DEF Excused, AckLost, PeerIsServer, PortKnown, Exchange
<1>7. CtlInv'
  BY <1>1, <1>2, <1>3 DEF Context, TimelyInv, CtlInv
<1>8. StoreInv'
  <2>1. SourceFile' = SourceFile
    BY DEF SourceFile, PieceSize
  <2> QED BY <1>1, <1>2, <1>6, <2>1 DEF Context, TimelyInv, StoreInv
<1>9. TurnInv'
  <2>1. ASSUME NEW x \in InFlight' PROVE Known(x)'
    <3>1. CASE x = E
      BY <1>1, <3>1 DEF Known
    <3>2. CASE x \in InFlight
      <4>1. Known(x)
        BY <3>2 DEF Context, TimelyInv, TurnInv
      <4> QED BY <1>1, <1>2, <4>1 DEF Known
    <3> QED BY <1>5, <3>1, <3>2
  <2>2. 1..dsSent' = {}
    BY <1>1, <1>3
  <2> QED BY <1>1, <2>1, <2>2 DEF TurnInv
<1> QED BY <1>7, <1>8, <1>9 DEF TimelyInv

LEMMA DsAckedKeeps ==
    ASSUME Context, NEW d \in InFlight, DsAcked(d), UNCHANGED cgvars
    PROVE  TimelyInv'
<1>1. /\ UNCHANGED <<got, dsSent, dsBuf, dsLen, dsJ, cgCount, cgPc, cgSize, cgPeer>>
      /\ Exchange({d}, {}) /\ dsPc = "ack"
      /\ dsPc' = IF PieceSize(dsSent) # SrvSize THEN "done" ELSE "send"
      /\ d.dst = "child" /\ FromHost(d, "here") /\ d.op = "ACK" /\ d.blk = Count(dsSent)
  BY DEF DsAcked, DsReceives, DsAcks, cgvars
<1>2. dsSent \in 1..Chunks /\ IsABag(net) /\ N \in Nat
  BY <1>1, Facts DEF Context, TimelyInv, CtlInv
<1>3. d = Answer /\ N = dsSent
  <2>1. Known(d)
    BY DEF Context, TimelyInv, TurnInv
  <2>2. d = Answer
    BY <1>1, <2>1, NotStray, PieceFields DEF Known, Context, Rrq, Control, Error
  <2> QED BY <1>1, <1>2, <2>2, AnswerFields, OnePiece DEF Context
<1>4. N' = N /\ Answer' = Answer /\ (Alive' <=> Alive)
  BY <1>1 DEF N, Answer, Alive
<1>5. dsPc' = IF dsSent = Chunks THEN "done" ELSE "send"
  <2>1. PieceSize(Chunks) # SrvSize /\ (dsSent # Chunks => PieceSize(dsSent) = SrvSize)
    BY <1>2, OnePiece, PieceSizeType DEF Context
  <2> QED BY <1>1, <2>1
<1>6. /\ \A x \in InFlight' : x \in InFlight
      /\ dsSent < Chunks => Answer \notin InFlight'
      /\ lost' = lost
  <2>1. dsSent < Chunks => net[Answer] = 1
    BY <1>1, <1>3 DEF Context, TimelyInv, TurnInv
  <2> QED BY <1>1, <1>2, <1>3, <2>1, Copied DEF Exchange
<1>7. Excused' = Excused
  BY <1>1, <1>6 DEF Excused, AckLost, PeerIsServer, PortKnown
<1>8. CtlInv'
  BY <1>1, <1>2, <1>4, <1>5 DEF Context, TimelyInv, CtlInv
<1>9. StoreInv'
  <2>1. SourceFile' = SourceFile
    BY DEF SourceFile, PieceSize
  <2> QED BY <1>1, <1>2, <1>3, <1>4, <1>5, <1>7, <2>1 DEF Context, TimelyInv, StoreInv
<1>10. TurnInv'
  <2>1. ASSUME NEW x \in InFlight' PROVE Known(x)'
    <3>1. Known(x)
      BY <1>6 DEF Context, TimelyInv, TurnInv
    <3> QED BY <1>1, <1>4, <1>5, <3>1 DEF Known
  <2>2. ASSUME NEW k \in 1..dsSent, Alive, Piece(k) \in InFlight' PROVE FALSE
    <3>1. k = dsSent
      BY <1>6, <2>2 DEF Context, TimelyInv, TurnInv
    <3> QED BY <1>1, <1>3, <1>6, <2>2, <3>1 DEF Context, TimelyInv, TurnInv
  <2>3. \A k \in 1..dsSent : Piece(k)' = Piece(k)
    BY DEF Piece
  <2>4. ASSUME dsPc' = "send", NEW x \in InFlight', ForChild(x) PROVE FALSE
    <3>1. x \in InFlight /\ Known(x)
      BY <1>6 DEF Context, TimelyInv, TurnInv
    <3>2. x = Answer
      BY <1>1, <2>4, <3>1, NotStray, PieceFields
         DEF Known, ForChild, Context, Rrq, Control, Error
    <3>3. dsSent < Chunks
      BY <1>2, <1>5, <2>4
    <3> QED BY <1>6, <3>2, <3>3
  <2> QED BY <1>1, <1>4, <1>5, <2>1, <2>2, <2>3, <2>4 DEF TurnInv, ForChild
<1> QED BY <1>8, <1>9, <1>10 DEF TimelyInv

LEMMA DsSendPieceKeeps == Context /\ DsSendPiece /\ UNCHANGED cgvars => TimelyInv'
<1> SUFFICES ASSUME Context, DsSendPiece, UNCHANGED cgvars PROVE TimelyInv'
  OBVIOUS
<1>0. dsSent \in 0..Chunks /\ dsSent < Chunks /\ dsPc = "send" /\ IsABag(net) /\ N \in Nat
  BY Facts DEF Context, TypeInv, DsSendPiece
<1>k. PICK k \in Nat : k = dsSent + 1
  BY <1>0
<1>1. dsSent \in 0..Chunks /\ dsSent < Chunks /\ k \in 1..Chunks /\ dsPc = "send"
      /\ IsABag(net) /\ N \in Nat
  BY <1>0, <1>k
<1>2. /\ UNCHANGED <<got, cgCount, cgPc, cgSize, cgPeer>>
      /\ dsSent' = k /\ dsLen' = PieceSize(k) /\ dsJ' = 0
      /\ dsBuf' = [dsBuf EXCEPT ![0] = k]
      /\ DsAnswer({}, {Piece(k)}, "ack")
  <2>1. k \in 0..Chunks
    BY <1>1
  <2>2. DsSlot(Count(k)) = 0 /\ DsWaitsForAck(k)
    BY <2>1, OnePiece DEF Context
  <2> QED BY <1>k, <2>2 DEF DsSendPiece, Piece, cgvars
<1>3. \/ Exchange({}, {Piece(k)}) /\ dsPc' = "ack"
      \/ Exchange({}, {}) /\ dsPc' = "returned"
  BY <1>2, FailsToSend DEF DsAnswer
<1>4. N' = N /\ Answer' = Answer /\ (Alive' <=> Alive)
  BY <1>2 DEF N, Answer, Alive
<1>5. N = dsSent /\ cgPc \notin {"last", "done"}
  BY <1>1 DEF Context, TimelyInv, StoreInv
<1>6. k = dsSent + 1 /\ k > dsSent /\ k \in Nat /\ N < k /\ N + 1 >= k /\ N <= k + 0
  BY <1>1, <1>5, <1>k
<1>7. \A x \in InFlight' : x = Piece(k) \/ x \in InFlight
  BY <1>3, ExchangeInFlight
<1>8. Piece(k) \notin InFlight
  <2> SUFFICES ASSUME Known(Piece(k)) PROVE FALSE
    BY DEF Context, TimelyInv, TurnInv
  <2>1. \A i \in 1..dsSent : Piece(i).piece = i /\ i # k
    BY <1>1, <1>6, PieceFields
  <2>2. Piece(k).piece = k /\ Piece(k).src = "child" /\ Piece(k).op = "DATA"
    BY PieceFields
  <2>3. Piece(k) \notin Stray /\ Piece(k) # Rrq /\ Piece(k) # Error("child", "client")
    BY <2>2, NotStray DEF Context, Rrq, Control, Error
  <2> QED BY <2>1, <2>2, <2>3 DEF Known
<1>9. Piece(k) \in InFlight' => net'[Piece(k)] = 1
  BY <1>1, <1>3, <1>8, Copied, ExchangeInFlight
<1>10. CtlInv'
  <2>1. dsBuf'[0] = k
    BY <1>1, <1>2 DEF Context, TypeInv, TypeOK, DsTypeOK, Timely
  <2> QED BY <1>1, <1>2, <1>3, <1>4, <1>6, <2>1 DEF Context, TimelyInv, CtlInv
<1>11. StoreInv'
  <2>1. \A i \in 1..N : got[i] = SourceFile[i]
    BY <1>1, <1>5 DEF Context, TimelyInv, StoreInv
  <2>2. SourceFile' = SourceFile
    BY DEF SourceFile, PieceSize
  <2>3. dsSent' # 0 /\ ~(N > k) /\ ~(N >= k)
    BY <1>1, <1>2, <1>6
  <2> QED BY <1>2, <1>3, <1>4, <1>5, <1>6, <2>1, <2>2, <2>3 DEF StoreInv
<1>12. TurnInv'
  <2>1. ASSUME NEW x \in InFlight' PROVE Known(x)'
    <3>1. Piece(k)' = Piece(k)
      BY DEF Piece
    <3>2. CASE x = Piece(k)
      <4>1. k \in 1..k /\ dsSent' = k
        BY <1>1, <1>2
      <4> QED BY <3>1, <3>2, <4>1 DEF Known
    <3>3. CASE x \in InFlight
      <4>1. Known(x) /\ ~ForChild(x)
        BY <1>1, <3>3 DEF Context, TimelyInv, TurnInv
      <4>2. (\E i \in 1..dsSent : x = Piece(i)) => \E i \in 1..dsSent' : x = Piece(i)'
        BY <1>1, <1>2, <1>6 DEF Piece
      <4> QED BY <1>1, <1>3, <4>1, <4>2 DEF Known, ForChild
    <3> QED BY <1>7, <3>2, <3>3
  <2>2. ASSUME NEW i \in 1..k, Alive, Piece(i) \in InFlight' PROVE i = k
    <3> SUFFICES ASSUME i # k PROVE FALSE
      OBVIOUS
    <3>1. i \in 1..dsSent /\ Piece(i) # Piece(k)
      BY <1>1, <1>6, PieceFields
    <3>2. Piece(i) \in InFlight
      BY <1>7, <2>2, <3>1
    <3> QED BY <1>1, <2>2, <3>1, <3>2 DEF Context, TimelyInv, TurnInv
  <2>3. \A i \in 1..k : Piece(i)' = Piece(i)
    BY DEF Piece
  <2>4. Answer \notin InFlight'
    <3>1. Answer # Piece(k) /\ ForChild(Answer)
      BY AnswerFields, PieceFields DEF ForChild
    <3> QED BY <1>1, <1>7, <3>1 DEF Context, TimelyInv, TurnInv
  <2>5. ~(N >= k) /\ N # k /\ k \in Nat
    BY <1>1, <1>6
  <2> QED BY <1>2, <1>3, <1>4, <1>9, <2>1, <2>2, <2>3, <2>4, <2>5 DEF TurnInv
<1> QED BY <1>10, <1>11, <1>12 DEF TimelyInv

\* The piece is sent again when neither it nor its ACK is on its way.
LEMMA Resends ==
    ASSUME Context, dsPc = "ack", NEW D, DsRetry(D, {}, dsLen), UNCHANGED cgvars,
           Alive => Piece(dsSent) \notin InFlight,
           Alive /\ N >= dsSent => Excused,
           Answer \notin InFlight \/ (Answer \in D /\ net[Answer] = 1)
    PROVE  TimelyInv'
<1>1. /\ dsSent \in 1..Chunks /\ dsJ \in Nat /\ N \in Nat /\ IsABag(net)
      /\ dsBuf[0] = dsSent /\ dsLen = PieceSize(dsSent)
  BY Facts DEF Context, TimelyInv, CtlInv
<1>2. /\ UNCHANGED <<got, cgCount, cgPc, cgSize, cgPeer, dsSent, dsBuf, dsLen>>
      /\ dsJ' = dsJ + 1
  BY DEF DsRetry, cgvars
<1>3. \/ Exchange(D, {Piece(dsSent)}) /\ dsPc' \in {"ack", "aborted"}
      \/ Exchange(D, {}) /\ dsPc' = "returned"
  <2>1. DsSlots = {0}
    BY <1>1, OnePiece DEF DsSlots, Context
  <2>2. {} \cup DsResent(dsLen) = {Piece(dsSent)}
    BY <1>1, <2>1 DEF DsResent, Piece
  <2> QED BY <2>2, FailsToSend DEF DsRetry, DsAnswer
<1>4. N' = N /\ Answer' = Answer /\ (Alive' <=> Alive)
  BY <1>2 DEF N, Answer, Alive
<1>5. Excused' = Excused
  BY <1>2, <1>3 DEF Excused, AckLost, PeerIsServer, PortKnown, Exchange
<1>6. \A x \in InFlight' : x = Piece(dsSent) \/ x \in InFlight
  BY <1>3, ExchangeInFlight
<1>7. Answer \notin InFlight'
  <2>1. Answer # Piece(dsSent)
    BY AnswerFields, PieceFields
  <2> QED BY <1>1, <1>3, <2>1, Copied
<1>8. Piece(dsSent) \in InFlight' /\ Piece(dsSent) \notin InFlight => net'[Piece(dsSent)] = 1
  BY <1>1, <1>3, Copied, ExchangeInFlight
<1>9. CtlInv'
  BY <1>1, <1>2, <1>3, <1>4 DEF Context, TimelyInv, CtlInv
<1>10. StoreInv'
  <2>1. Alive => N <= dsSent + dsJ /\ N <= dsSent + (dsJ + 1)
    BY <1>1 DEF Context, TimelyInv, StoreInv
  <2>2. SourceFile' = SourceFile
    BY DEF SourceFile, PieceSize
  <2> QED BY <1>2, <1>3, <1>4, <1>5, <2>1, <2>2 DEF Context, TimelyInv, StoreInv
<1>11. TurnInv'
  <2>1. \A i \in 1..dsSent : Piece(i)' = Piece(i)
    BY DEF Piece
  <2>2. ASSUME NEW x \in InFlight' PROVE Known(x)'
    <3>1. CASE x = Piece(dsSent)
      BY <1>1, <1>2, <2>1, <3>1 DEF Known
    <3>2. CASE x \in InFlight
      <4>1. Known(x)
        BY <3>2 DEF Context, TimelyInv, TurnInv
      <4> QED BY <1>2, <1>4, <2>1, <4>1 DEF Known
    <3> QED BY <1>6, <3>1, <3>2
  <2>3. ASSUME NEW i \in 1..dsSent, Alive, Piece(i) \in InFlight' PROVE i = dsSent
    <3> SUFFICES ASSUME i # dsSent PROVE FALSE
      OBVIOUS
    <3>1. Piece(i) # Piece(dsSent)
      BY PieceFields
    <3>2. Piece(i) \in InFlight
      BY <1>6, <2>3, <3>1
    <3> QED BY <2>3, <3>2 DEF Context, TimelyInv, TurnInv
  <2>4. Alive => N < dsSent + (dsJ + 1)
    BY <1>1 DEF Context, TimelyInv, StoreInv
  <2> QED BY <1>1, <1>2, <1>3, <1>4, <1>5, <1>7, <1>8, <2>1, <2>2, <2>3, <2>4 DEF TurnInv
<1> QED BY <1>9, <1>10, <1>11 DEF TimelyInv

LEMMA DsMismatchKeeps ==
    ASSUME Context, NEW d \in InFlight, DsMismatch(d), UNCHANGED cgvars
    PROVE  TimelyInv'
<1>1. dsPc = "ack" /\ d.dst = "child" /\ FromHost(d, "here") /\ ~DsAcks(d)
  BY DEF DsMismatch, DsReceives
<1>2. d = Answer
  <2>1. Known(d)
    BY DEF Context, TimelyInv, TurnInv
  <2> QED BY <1>1, <2>1, NotStray, PieceFields DEF Known, Context, Rrq, Control, Error
<1>3. dsSent \in 1..Chunks /\ N \in Nat /\ N > dsSent
  <2>1. dsSent \in 1..Chunks /\ N \in Nat
    BY <1>1, Facts DEF Context, TimelyInv, CtlInv
  <2>2. N # dsSent
    BY <1>1, <1>2, <2>1, AnswerFields, OnePiece DEF Context, DsAcks
  <2> QED BY <1>1, <1>2, <2>1, <2>2 DEF Context, TimelyInv, TurnInv
<1>4. DsRetry({d}, {}, dsLen)
  BY <1>2, AnswerFields DEF DsMismatch, Complaint
<1>5. Excused /\ dsSent < Chunks
  BY <1>3 DEF Context, TimelyInv, StoreInv
<1>6. net[Answer] = 1 /\ (Alive => Piece(dsSent) \notin InFlight)
  BY <1>1, <1>2, <1>5 DEF Context, TimelyInv, TurnInv
<1>7. Answer \in {d}
  BY <1>2
<1> QED BY <1>1, <1>4, <1>5, <1>6, <1>7, Resends

\* An unslow timeout: nothing is coming, so the ACK has been lost or was never sent.
LEMMA DsTimeoutKeeps == Context /\ Expired /\ DsTimeout /\ UNCHANGED cgvars => TimelyInv'
<1> SUFFICES ASSUME Context, Expired, DsTimeout, UNCHANGED cgvars PROVE TimelyInv'
  OBVIOUS
<1>1. /\ dsPc = "ack" /\ DsRetry({}, {}, dsLen) /\ cgPc # "open"
      /\ \A d \in InFlight : ~Awaited(d)
  BY DEF DsTimeout, Expired, Context, Timely
<1>2. Answer \notin InFlight
  BY <1>1, AnswerFields DEF Awaited
<1>3. Alive => Piece(dsSent) \notin InFlight
  BY <1>1, PieceFields DEF Awaited, Alive
<1>4. Alive /\ N >= dsSent => Excused
  <2>1. dsSent \in Nat /\ N \in Nat
    BY Facts DEF Context
  <2>2. Alive /\ N > dsSent => Excused
    BY DEF Context, TimelyInv, StoreInv
  <2>3. Alive /\ N = dsSent => Excused
    BY <1>1, <1>2 DEF Context, TimelyInv, TurnInv
  <2> QED BY <2>1, <2>2, <2>3
<1> QED BY <1>1, <1>2, <1>3, <1>4, Resends

--------------------------------------------------------------------------------
(* The invariant, and what it means for the file.                              *)

LEMMA InitTimely == Timely /\ Init => TimelyInv
<1> SUFFICES ASSUME Timely, Init PROVE TimelyInv
  OBVIOUS
<1>1. /\ dsPc = "listen" /\ dsSent = 0 /\ dsJ = 0 /\ N = 0
      /\ cgPc = "open" /\ cgSize = StdSize
  BY DEF Init, DsInit, CgInit, Timely, N
<1>2. InFlight = {Rrq} \cup Stray
  BY DEF Init, NetInit, InFlight, SetToBag, BagToSet
<1>3. CtlInv /\ StoreInv
  BY <1>1 DEF CtlInv, StoreInv
<1>4. \A d \in InFlight : Known(d) /\ ~ForChild(d)
  BY <1>2, NotStray DEF Known, ForChild, Rrq, Control
<1>5. TurnInv
  BY <1>1, <1>4 DEF TurnInv
<1> QED BY <1>3, <1>5 DEF TimelyInv

LEMMA StepTimely == Timely /\ TypeInv /\ TypeInv' /\ TimelyInv /\ [Next]_vars => TimelyInv'
<1> SUFFICES ASSUME Context, [Next]_vars PROVE TimelyInv'
  BY DEF Context
<1>1. CASE ClientStep
  <2>1. UNCHANGED dsvars
    BY <1>1 DEF ClientStep
  <2>2. CASE CgOpen
    BY <2>1, <2>2, CgOpenKeeps
  <2>3. CASE CgLast
    BY <2>1, <2>3, CgLastKeeps
  <2>4. CASE CgTimeout
    BY <2>1, <2>4, CgTimeoutKeeps
  <2>5. ASSUME NEW d \in InFlight,
               CgAccept(d) \/ CgDiskFull(d) \/ CgMismatch(d) \/ CgForeign(d)
        PROVE  TimelyInv'
    <3>1. ~CgDiskFull(d)
      BY DiskTakes DEF Context
    <3> QED BY <2>1, <2>5, <3>1, CgAcceptKeeps, CgMismatchKeeps, CgForeignKeeps
  <2> QED BY <1>1, <2>2, <2>3, <2>4, <2>5 DEF ClientStep
<1>2. CASE ServerStep
  <2>1. UNCHANGED cgvars
    BY <1>2 DEF ServerStep
  <2>2. CASE DsSendPiece
    BY <2>1, <2>2, DsSendPieceKeeps
  <2>3. CASE Expired /\ DsTimeout
    BY <2>1, <2>3, DsTimeoutKeeps
  <2>4. ASSUME NEW d \in InFlight,
               DsStart(d) \/ DsRefuse(d) \/ DsAcked(d) \/ DsMismatch(d) \/ DsForeign(d)
        PROVE  TimelyInv'
    BY <2>1, <2>4, DsStartKeeps, DsRefuseKeeps, DsAckedKeeps, DsMismatchKeeps, DsForeignKeeps
  <2> QED BY <1>2, <2>2, <2>3, <2>4 DEF ServerStep
<1>3. CASE NetStep
  BY <1>3, NetKeeps
<1>4. CASE UNCHANGED vars
  <2>1. UNCHANGED <<got, dsPc, dsSent, dsBuf, dsLen, dsJ, net, lost, cgPc, cgPeer, cgSize,
                    cgCount>>
    BY <1>4 DEF vars, netvars, cgvars, dsvars
  <2>2. CtlInv' /\ (Excused => Excused') /\ (Alive' => Alive)
    BY <2>1 DEF Context, TimelyInv, CtlInv, N, Excused, AckLost, PeerIsServer, PortKnown, Alive
  <2> QED BY <2>1, <2>2, Shrinks DEF InFlight
<1> QED BY <1>1, <1>2, <1>3, <1>4 DEF Next

LEMMA TimelyInvariant ==
    ASSUME Timely
    PROVE  Spec => []TimelyInv
<1>1. Init => TimelyInv
  BY InitTimely
<1>2. TypeInv /\ TypeInv' /\ TimelyInv /\ [Next]_vars => TimelyInv'
  BY StepTimely
<1> QED BY <1>1, <1>2, TypeInvariant, PTL DEF Spec

\* The inductive invariant of the download with `tftpd -a 1` and `tftpc -w 1` and
\* answers in time: the piece and its ACK take turns on the network, and only a
\* lost or misdirected ACK makes the client store more than the server has sent.
THEOREM DownloadInvariant ==
    ASSUME Timely
    PROVE  Spec => []IInv
<1>1. Chunks < M
  BY DEF Timely
<1> QED BY <1>1, TypeInvariant, WindowInvariant, TimelyInvariant, PTL DEF IInv

\* What the invariant says of the stored file.
LEMMA Prefix ==
    ASSUME Timely, TypeInv, TimelyInv
    PROVE  /\ Excused \/ \A i \in DOMAIN got : got[i] = SourceFile[i]
           /\ N = dsSent /\ dsSent = Chunks => got = SourceFile
<1>1. /\ got \in Seq([piece : Nat, size : Nat]) /\ N = Len(got) /\ N \in Nat
      /\ dsSent \in 0..Chunks /\ Chunks \in Nat
  BY Facts DEF N
<1>2. DOMAIN got = 1..N
  BY <1>1
<1>3. N <= dsSent => \A k \in 1..N : got[k] = SourceFile[k]
  BY DEF TimelyInv, StoreInv
<1>4. N > dsSent => Excused
  BY DEF TimelyInv, StoreInv
<1>5. ASSUME N = dsSent, dsSent = Chunks PROVE got = SourceFile
  <2>1. DOMAIN SourceFile = 1..N /\ SourceFile = [k \in DOMAIN SourceFile |-> SourceFile[k]]
    BY <1>5 DEF SourceFile
  <2>2. got = [k \in DOMAIN got |-> got[k]]
    BY <1>1
  <2>3. \A k \in 1..N : got[k] = SourceFile[k]
    BY <1>1, <1>3, <1>5
  <2> QED BY <1>2, <2>1, <2>2, <2>3
<1> QED BY <1>1, <1>2, <1>3, <1>4, <1>5

\* As long as no ACK has been lost or has gone to a port that is not the server's,
\* what tget() of tftpc.c has written is the beginning of the server's file,
\* although it looks at no block number (tftpc.c:679).
THEOREM DownloadInOrder ==
    ASSUME Timely
    PROVE  Spec => []InOrderUnlessAckLost
<1>1. TypeInv /\ TimelyInv => InOrderUnlessAckLost
  BY Prefix DEF Excused, InOrderUnlessAckLost
<1> QED BY <1>1, TypeInvariant, TimelyInvariant, PTL

\* "File received successfully" (tftpc.c:738) means that the client has stored the
\* server's file, whatever was lost.
THEOREM DownloadNoFalseSuccess ==
    ASSUME Timely
    PROVE  Spec => []NoFalseSuccess
<1>1. TypeInv /\ TimelyInv => NoFalseSuccess
  <2> SUFFICES ASSUME TypeInv, TimelyInv, cgPc = "done" PROVE got = SourceFile
    BY DEF NoFalseSuccess
  <2>1. N = dsSent /\ dsSent = Chunks
    BY DEF TimelyInv, StoreInv
  <2> QED BY <2>1, Prefix
<1> QED BY <1>1, TypeInvariant, TimelyInvariant, PTL

\* "File sent successfully" (tftpd.c:794) means that too.
THEOREM DownloadServerKnows ==
    ASSUME Timely
    PROVE  Spec => []ServerKnows
<1>1. TypeInv /\ TimelyInv => ServerKnows
  <2> SUFFICES ASSUME TypeInv, TimelyInv, dsPc = "done" PROVE got = SourceFile
    BY DEF ServerKnows
  <2>1. N = dsSent /\ dsSent = Chunks
    BY DEF TimelyInv, StoreInv
  <2> QED BY <2>1, Prefix
<1> QED BY <1>1, TypeInvariant, TimelyInvariant, PTL
================================================================================
