------------------------------- MODULE LabProofs -------------------------------
(***************************************************************************)
(* The safety properties of Lab, for any choice of stations, whatever is   *)
(* typed, whenever they come and go and whatever the drivers refuse.       *)
(***************************************************************************)
EXTENDS LabInv, SequenceTheorems, TLAPS

HostNames == {"1.1", "1.3", "2.1", "2.3"}

--------------------------------------------------------------------------------
\* The tables.
LEMMA CardMacs ==
    /\ DOMAIN CardMac = {"1.1", "1.2", "1.3", "2.1", "2.2", "2.3", "dostalk", "receiver", "sender"}
    /\ CardMac["1.1"] = <<214, 244, 74>> /\ CardMac["1.2"] = <<147, 214, 52>>
    /\ CardMac["1.3"] = <<230, 37, 235>> /\ CardMac["2.1"] = <<0, 43, 179>>
    /\ CardMac["2.2"] = <<230, 46, 239>> /\ CardMac["2.3"] = <<163, 187, 157>>
    /\ CardMac["dostalk"] = <<58, 175, 158>> /\ CardMac["receiver"] = <<58, 175, 158>>
    /\ CardMac["sender"] = <<198, 143, 78>>
  BY DEF CardMac

LEMMA Iips ==
    /\ DOMAIN Iip = {"1.1", "1.2", "1.3", "2.1", "2.2", "2.3"}
    /\ Iip["1.1"] = <<1, 1>> /\ Iip["1.2"] = <<1, 2>> /\ Iip["1.3"] = <<1, 3>>
    /\ Iip["2.1"] = <<2, 1>> /\ Iip["2.2"] = <<2, 2>> /\ Iip["2.3"] = <<2, 3>>
  BY DEF Iip

\* The kinds of cards are apart.
LEMMA Kinds ==
    /\ Hosts \subseteq HostNames /\ HostNames = DOMAIN HostArp
    /\ Talkers \subseteq {"dostalk", "sender", "receiver"}
    /\ Stations = Hosts \cup Talkers /\ Cards = Stations \cup RouterCards
    /\ HostNames \cap Talkers = {} /\ Stations \cap RouterCards = {}
    /\ Stations \subseteq DOMAIN CardMac /\ "router" \notin Stations
  BY CardMacs, LabAssumption DEF Stations, Cards, RouterCards, HostArp, HostNames

LEMMA AllCards ==
    /\ \A c \in RouterCards : c \in Cards
    /\ \A m \in Stations : m \in Cards
    /\ \A m \in Talkers : m \in Stations /\ m \in Cards /\ m \notin Hosts
    /\ \A m \in Hosts : m \in Stations /\ m \in Cards /\ m \notin Talkers /\ m \in HostNames
  BY Kinds

\* The network of each card.
LEMMA Nets ==
    /\ \A c \in Cards : Net(c) \in {1, 2}
    /\ \A c \in Talkers : Net(c) = 1
    /\ \A h \in HostNames : Net(h) = Iip[h][1] /\ Net(h) \in {1, 2}
    /\ Net("1.2") = 1 /\ Net("2.2") = 2
  BY Iips, LabAssumption DEF Net, Stations, Cards, RouterCards, HostNames

\* A card of the router is the one of its network.
LEMMA RouterCard ==
    /\ \A c \in RouterCards : CardNo(Net(c)) = c /\ NoOf(c) = Net(c) /\ NoOf(c) \in {1, 2}
    /\ \A i \in {1, 2} : CardNo(i) \in RouterCards /\ Net(CardNo(i)) = i /\ NoOf(CardNo(i)) = i
  BY Nets DEF RouterCards, CardNo, NoOf

\* No two cards of hosts have one address, nor a host and the router.
LEMMA MacsDiffer ==
    /\ \A g, h \in HostNames : CardMac[g] = CardMac[h] => g = h
    /\ \A h \in Stations, i \in {1, 2} : CardMac[h] # RouterMac(i) /\ CardMac[h] # NoMac
    /\ \A i \in {1, 2} : RouterMac(i) # NoMac
  <1>1. /\ RouterMac(1) = <<147, 214, 52>> /\ RouterMac(2) = <<230, 46, 239>>
        /\ NoMac = <<0, 0, 0>>
    BY CardMacs DEF RouterMac, CardNo, NoMac
  <1>2. \A g, h \in HostNames : CardMac[g] = CardMac[h] => g = h
    BY CardMacs DEF HostNames
  <1>3. Stations \subseteq HostNames \cup {"dostalk", "sender", "receiver"}
    BY Kinds
  <1>4. \A h \in HostNames \cup {"dostalk", "sender", "receiver"} :
            CardMac[h] # <<147, 214, 52>> /\ CardMac[h] # <<230, 46, 239>> /\ CardMac[h] # <<0, 0, 0>>
    BY CardMacs DEF HostNames
  <1> QED BY <1>1, <1>2, <1>3, <1>4

\* create_table(): the first row is the other host of the network, the second the router.
LEMMA HostTable ==
    ASSUME NEW g \in HostNames
    PROVE  /\ Iip[g] \in Bytes /\ Iip[g][2] # 2
           /\ HostArp[g][2].mac = RouterMac(Net(g))
           /\ \E h \in HostNames : /\ HostArp[g][1].mac = CardMac[h]
                                   /\ h # g /\ Net(h) = Net(g)
                                   /\ \A k \in HostNames : k # g /\ Net(k) = Net(g) => k = h
  <1>1. Iip[g] \in Bytes /\ Iip[g][2] # 2
    BY Iips DEF HostNames, Bytes
  <1>2. HostArp[g][2].mac = RouterMac(Net(g))
    BY CardMacs, Iips, Nets DEF HostNames, HostArp, Arp11, Arp13, Arp21, Arp23, Row, RouterMac, CardNo
  <1>3. \E h \in HostNames : /\ HostArp[g][1].mac = CardMac[h]
                             /\ h # g /\ Net(h) = Net(g)
                             /\ \A k \in HostNames : k # g /\ Net(k) = Net(g) => k = h
    <2>1. CASE g = "1.1"
      BY <2>1, CardMacs, Iips, Nets DEF HostNames, HostArp, Arp11, Row
    <2>2. CASE g = "1.3"
      BY <2>2, CardMacs, Iips, Nets DEF HostNames, HostArp, Arp13, Row
    <2>3. CASE g = "2.1"
      BY <2>3, CardMacs, Iips, Nets DEF HostNames, HostArp, Arp21, Row
    <2>4. CASE g = "2.3"
      BY <2>4, CardMacs, Iips, Nets DEF HostNames, HostArp, Arp23, Row
    <2> QED BY <2>1, <2>2, <2>3, <2>4 DEF HostNames
  <1> QED BY <1>1, <1>2, <1>3

\* Iips are different.
LEMMA IipsDiffer ==
    ASSUME NEW g \in HostNames, NEW h \in HostNames, Iip[g] = Iip[h]
    PROVE  g = h
  BY Iips DEF HostNames

\* No address has a byte 255, and every one has three.
LEMMA MacBytes ==
    ASSUME NEW a \in Mac
    PROVE  DOMAIN a = 1..3 /\ \A k \in 1..3 : a[k] # 255
  BY CardMacs DEF Mac, NoMac

\* The router takes no frame for the card of a host, whatever it has for its own
\* addresses.
LEMMA NotForTheRouter ==
    ASSUME NEW h \in HostNames, NEW a, NEW b,
           a \in Garbage \cup {NoMac, RouterMac(1), RouterMac(2)},
           b \in Garbage \cup {NoMac, RouterMac(1), RouterMac(2)}
    PROVE  ~MadeOf(CardMac[h], a, b)
  BY GarbageAssumption DEF HostNames, RouterMac, CardNo

\* No address of a card is what malloc() left.
LEMMA NoCardIsGarbage ==
    /\ \A h \in HostNames : CardMac[h] \notin Garbage
    /\ \A i \in {1, 2} : RouterMac(i) \notin Garbage
  BY GarbageAssumption, CardMacs DEF HostNames, RouterMac, CardNo

\* The row routing() finds is the one of a host.
LEMMA RowOfHost ==
    ASSUME NEW f \in FrameType, RowsFor(f) # {}
    PROVE  \E h \in HostNames : f.to = Iip[h] /\ Rewritten(f).dst = CardMac[h]
  <1>1. RoutingTxt \in Seq(UNION {{RoutingTxt[k]} : k \in 1..7}) /\ Len(RoutingTxt) = 7
    BY DEF RoutingTxt
  <1>2. DOMAIN MyArp = 1..6 /\ \A k \in 1..6 : MyArp[k] = RoutingTxt[k]
    <2>1. \A k \in 1..6 : RoutingTxt[k] \in {RoutingTxt[n] : n \in 1..6}
      OBVIOUS
    <2>2. /\ MyArp \in Seq({RoutingTxt[n] : n \in 1..6}) /\ Len(MyArp) = 6
          /\ \A k \in 1..6 : MyArp[k] = RoutingTxt[k]
      BY <2>1, SubSeqProperties DEF MyArp
    <2> QED BY <2>2
  <1>3. /\ RoutingTxt[1] = Row(Iip["1.1"], CardMac["1.1"])
        /\ RoutingTxt[2].iip = <<1, 2>>
        /\ RoutingTxt[3] = Row(Iip["2.1"], CardMac["2.1"])
        /\ RoutingTxt[4].iip = <<2, 2>>
        /\ RoutingTxt[5] = Row(Iip["1.3"], CardMac["1.3"])
        /\ RoutingTxt[6] = Row(Iip["2.3"], CardMac["2.3"])
    BY CardMacs, Iips DEF RoutingTxt, Row
  <1>4. RowsFor(f) \subseteq 1..6
    BY <1>2 DEF RowsFor
  <1>5. \A k \in RowsFor(f) : \E h \in HostNames : f.to = Iip[h] /\ MyArp[k].mac = CardMac[h]
    <2> SUFFICES ASSUME NEW k \in RowsFor(f)
                 PROVE  \E h \in HostNames : f.to = Iip[h] /\ MyArp[k].mac = CardMac[h]
      OBVIOUS
    <2>1. k \in {1, 3, 5, 6} /\ f.to = RoutingTxt[k].iip /\ MyArp[k].mac = RoutingTxt[k].mac
      BY <1>2, <1>3, <1>4 DEF RowsFor
    <2> QED BY <2>1, <1>3 DEF HostNames, Row
  <1>6. \E k \in RowsFor(f) : \A n \in RowsFor(f) : k <= n
    <2>1. \A k, n \in RowsFor(f) : k = n
      BY <1>2, <1>3, <1>4, Iips DEF RowsFor, Row
    <2> QED BY <2>1, <1>4
  <1>7. PICK k \in RowsFor(f) : Rewritten(f).dst = MyArp[k].mac
    BY <1>6 DEF Rewritten, FrameType
  <1> QED BY <1>5, <1>7

--------------------------------------------------------------------------------
\* What a card holds, when a frame joins it or leaves it.
Kept(c, frames, lines, ways, bad) ==
    (\A k \in DOMAIN frames : OfItsLine(c, frames[k], lines, ways, bad)) /\ NoneTwice(frames)

LEMMA Joins ==
    ASSUME NEW c, NEW lines, NEW ways, NEW bad, NEW frames \in Seq(FrameType),
           NEW f \in FrameType,
           Kept(c, frames, lines, ways, bad), OfItsLine(c, f, lines, ways, bad), f.id \notin Ids(frames)
    PROVE  Kept(c, Append(frames, f), lines, ways, bad)
  <1>1. /\ Append(frames, f) \in Seq(FrameType)
        /\ DOMAIN Append(frames, f) = 1..Len(frames) + 1
        /\ \A k \in 1..Len(frames) : Append(frames, f)[k] = frames[k]
        /\ Append(frames, f)[Len(frames) + 1] = f
        /\ DOMAIN frames = 1..Len(frames) /\ Len(frames) \in Nat
    OBVIOUS
  <1>2. \A k \in 1..Len(frames) : frames[k].id # f.id
    BY <1>1 DEF Ids
  <1> QED BY <1>1, <1>2 DEF Kept, NoneTwice

LEMMA JoinsIds ==
    ASSUME NEW frames \in Seq(FrameType), NEW f \in FrameType
    PROVE  Ids(Append(frames, f)) = Ids(frames) \cup {f.id}
  <1>1. /\ DOMAIN Append(frames, f) = DOMAIN frames \cup {Len(frames) + 1}
        /\ Append(frames, f)[Len(frames) + 1] = f
        /\ \A k \in DOMAIN frames : Append(frames, f)[k] = frames[k]
    OBVIOUS
  <1> QED BY <1>1 DEF Ids

LEMMA Leaves ==
    ASSUME NEW frames \in Seq(FrameType), frames # <<>>
    PROVE  /\ Tail(frames) \in Seq(FrameType) /\ Head(frames) \in FrameType
           /\ Ids(frames) = Ids(Tail(frames)) \cup {Head(frames).id}
           /\ NoneTwice(frames) => Head(frames).id \notin Ids(Tail(frames))
           /\ \A c, lines, ways, bad : Kept(c, frames, lines, ways, bad) =>
                /\ Kept(c, Tail(frames), lines, ways, bad)
                /\ OfItsLine(c, Head(frames), lines, ways, bad)
  <1>1. /\ Tail(frames) \in Seq(FrameType) /\ Head(frames) \in FrameType
        /\ Len(frames) \in Nat \ {0} /\ DOMAIN frames = 1..Len(frames)
        /\ DOMAIN Tail(frames) = 1..Len(frames) - 1
        /\ \A k \in 1..Len(frames) - 1 : k + 1 \in DOMAIN frames /\ Tail(frames)[k] = frames[k + 1]
        /\ Head(frames) = frames[1]
    BY HeadTailProperties
  <1>2. \A k \in DOMAIN frames : k = 1 \/ (k - 1 \in DOMAIN Tail(frames) /\ frames[k] = Tail(frames)[k - 1])
    BY <1>1
  <1>3. Ids(frames) = Ids(Tail(frames)) \cup {Head(frames).id}
    <2>1. \A k \in DOMAIN frames : frames[k].id \in Ids(Tail(frames)) \cup {Head(frames).id}
      BY <1>1, <1>2 DEF Ids
    <2>2. \A k \in DOMAIN Tail(frames) : Tail(frames)[k].id \in Ids(frames)
      BY <1>1 DEF Ids
    <2>3. Head(frames).id \in Ids(frames)
      BY <1>1 DEF Ids
    <2> QED BY <2>1, <2>2, <2>3 DEF Ids
  <1>4. NoneTwice(frames) => Head(frames).id \notin Ids(Tail(frames))
    BY <1>1 DEF Ids, NoneTwice
  <1>5. ASSUME NEW c, NEW lines, NEW ways, NEW bad, Kept(c, frames, lines, ways, bad)
        PROVE  /\ Kept(c, Tail(frames), lines, ways, bad)
               /\ OfItsLine(c, Head(frames), lines, ways, bad)
    <2>1. OfItsLine(c, Head(frames), lines, ways, bad)
      BY <1>1, <1>5 DEF Kept
    <2>2. \A k \in DOMAIN Tail(frames) : OfItsLine(c, Tail(frames)[k], lines, ways, bad)
      BY <1>1, <1>5 DEF Kept
    <2>3. NoneTwice(Tail(frames))
      BY <1>1, <1>5 DEF Kept, NoneTwice
    <2> QED BY <2>1, <2>2, <2>3 DEF Kept
  <1> QED BY <1>1, <1>3, <1>4, <1>5

LEMMA NoFrames ==
    /\ Ids(<<>>) = {}
    /\ \A c, lines, ways, bad : Kept(c, <<>>, lines, ways, bad)
  BY DEF Ids, Kept, NoneTwice

\* A frame stays the frame of its line when drivers refuse further calls ...
LEMMA FrameStays ==
    ASSUME NEW c, NEW f, NEW lines, NEW ways, NEW bad, NEW worse,
           OfItsLine(c, f, lines, ways, bad), bad \subseteq worse
    PROVE  OfItsLine(c, f, lines, ways, worse)
  BY DEF OfItsLine, IsFrameOf, Original, Forwarded

LEMMA KeptStays ==
    ASSUME NEW c, NEW frames, NEW lines, NEW ways, NEW bad, NEW worse,
           Kept(c, frames, lines, ways, bad), bad \subseteq worse
    PROVE  Kept(c, frames, lines, ways, worse)
  BY FrameStays DEF Kept

\* ... and when other lines follow.
LEMMA LineStays ==
    ASSUME NEW c, NEW f, NEW lines \in Seq(LineType), NEW ways, NEW l, NEW w, NEW bad, NEW worse,
           ways \in Seq(BOOLEAN), Len(ways) = Len(lines), OfItsLine(c, f, lines, ways, bad),
           bad \subseteq worse
    PROVE  OfItsLine(c, f, Append(lines, l), Append(ways, w), worse)
  <1>1. OfItsLine(c, f, lines, ways, worse)
    BY FrameStays
  <1>2. \A n \in DOMAIN lines : /\ n \in DOMAIN Append(lines, l)
                                /\ Append(lines, l)[n] = lines[n]
                                /\ Append(ways, w)[n] = ways[n]
    OBVIOUS
  <1> QED BY <1>1, <1>2 DEF OfItsLine

\* nest, when a card joins it or its last one leaves it.
LEMMA NestJoin ==
    ASSUME NEW s \in Nests, NEW c \in RouterCards, ~Given(c, s)
    PROVE  /\ Append(s, c) \in Nests
           /\ \A d : Given(d, Append(s, c)) <=> Given(d, s) \/ d = c
  <1>1. /\ Append(s, c) \in Seq(RouterCards) /\ Len(s) \in Nat
        /\ DOMAIN s = 1..Len(s) /\ DOMAIN Append(s, c) = 1..Len(s) + 1
        /\ Append(s, c)[Len(s) + 1] = c
        /\ \A k \in 1..Len(s) : Append(s, c)[k] = s[k] /\ s[k] # c
    BY DEF Nests, Given
  <1> DEFINE longer == Append(s, c)
  <1>2. longer \in Nests
    <2> HIDE DEF longer
    <2>1. \A j, k \in 1..Len(s) : s[j] = s[k] => j = k
      BY <1>1 DEF Nests
    <2>2. \A j, k \in DOMAIN longer : longer[j] = longer[k] => j = k
      <3>1. \A k \in DOMAIN longer : k = Len(s) + 1 \/ k \in 1..Len(s)
        BY <1>1 DEF longer
      <3> QED BY <1>1, <2>1, <3>1 DEF longer
    <2>3. longer \in Seq(RouterCards)
      BY <1>1 DEF longer
    <2> QED BY <2>2, <2>3 DEF Nests
  <1>3. \A d : Given(d, Append(s, c)) <=> Given(d, s) \/ d = c
    BY <1>1 DEF Given
  <1> QED BY <1>2, <1>3

LEMMA NestLeave ==
    ASSUME NEW s \in Nests, s # <<>>
    PROVE  /\ SubSeq(s, 1, Len(s) - 1) \in Nests
           /\ s[Len(s)] \in RouterCards /\ Given(s[Len(s)], s)
           /\ \A d : Given(d, SubSeq(s, 1, Len(s) - 1)) <=> Given(d, s) /\ d # s[Len(s)]
  <1> DEFINE front == SubSeq(s, 1, Len(s) - 1)
  <1>1. s \in Seq(RouterCards) /\ Len(s) \in Nat \ {0} /\ DOMAIN s = 1..Len(s)
    BY DEF Nests
  <1>2. /\ front \in Seq(RouterCards) /\ DOMAIN front = 1..Len(s) - 1
        /\ \A k \in 1..Len(s) - 1 : front[k] = s[k]
    BY <1>1, SubSeqProperties
  <1>3. \A j, k \in 1..Len(s) : s[j] = s[k] => j = k
    BY <1>1 DEF Nests
  <1> HIDE DEF front
  <1>4. front \in Nests
    <2>1. \A j, k \in DOMAIN front : front[j] = front[k] => j = k
      BY <1>1, <1>2, <1>3
    <2> QED BY <1>2, <2>1 DEF Nests
  <1>5. s[Len(s)] \in RouterCards /\ Given(s[Len(s)], s)
    BY <1>1 DEF Given
  <1>6. \A d : Given(d, front) <=> Given(d, s) /\ d # s[Len(s)]
    <2>0. Len(s) \in Nat /\ Len(s) # 0
      BY <1>1
    <2>1. /\ \A k \in 1..Len(s) : k = Len(s) \/ k \in 1..Len(s) - 1
          /\ \A k \in 1..Len(s) - 1 : k \in 1..Len(s) /\ k # Len(s)
          /\ Len(s) \in 1..Len(s)
      BY <2>0
    <2>2. ASSUME NEW d, Given(d, front)
          PROVE  Given(d, s) /\ d # s[Len(s)]
      <3>1. PICK k \in 1..Len(s) - 1 : s[k] = d
        BY <1>2, <2>2 DEF Given
      <3> QED BY <1>1, <1>3, <3>1, <2>1 DEF Given
    <2>3. ASSUME NEW d, Given(d, s), d # s[Len(s)]
          PROVE  Given(d, front)
      BY <1>1, <1>2, <2>1, <2>3 DEF Given
    <2> QED BY <2>2, <2>3
  <1> QED BY <1>4, <1>5, <1>6 DEF front

--------------------------------------------------------------------------------
\* What is on the wire or in a buffer is a line.
LEMMA OldIds ==
    ASSUME TypeInv, RingInv, BuffInv
    PROVE  /\ \A c \in Cards : /\ ring[c] \in Seq(FrameType) /\ Ids(ring[c]) \subseteq DOMAIN typed
                               /\ Kept(c, ring[c], typed, path, failed)
           /\ \A c \in RouterCards : Given(c, nest) => buff[NoOf(c)].id \in DOMAIN typed
           /\ DOMAIN typed = 1..Len(typed) /\ DOMAIN path = 1..Len(typed)
           /\ Len(typed) \in Nat /\ DOMAIN typed \subseteq 1..MaxLines
  <1>1. \A c \in Cards : ring[c] \in Seq(FrameType) /\ Kept(c, ring[c], typed, path, failed)
    BY DEF TypeInv, RingInv, Kept
  <1>2. \A c \in Cards : Ids(ring[c]) \subseteq DOMAIN typed
    BY <1>1 DEF Kept, Ids, OfItsLine
  <1>3. \A c \in RouterCards : Given(c, nest) => buff[NoOf(c)].id \in DOMAIN typed
    BY DEF BuffInv, OfItsLine
  <1>4. typed \in Seq(LineType) /\ path \in Seq(BOOLEAN) /\ Len(path) = Len(typed) /\ Len(typed) <= MaxLines
    BY DEF TypeInv
  <1>5. /\ DOMAIN typed = 1..Len(typed) /\ DOMAIN path = 1..Len(typed)
        /\ Len(typed) \in Nat /\ DOMAIN typed \subseteq 1..MaxLines
    BY <1>4, LinesAssumption
  <1> QED BY <1>1, <1>2, <1>3, <1>5

\* A station types a line: send_packet() for it, and the history.
LEMMA Typing ==
    ASSUME IInv, NEW m \in Stations, NEW f \in FrameType, NEW l \in LineType,
           l.by = m, f.id = Len(typed) + 1, Len(typed) < MaxLines, pc[m] = "loop",
           \A c \in Cards, w \in BOOLEAN : c # m /\ Net(c) = Net(m) => IsFrameOf(c, f, l, w, failed),
           dest' \in [Stations -> Mac], DestInv', SendOrExit(m, f, l), RecordPath, UNCHANGED <<rtvars, wild>>
    PROVE  IInv'
  <1> USE DEF drvvars, rtvars
  <1>0. /\ TypeInv /\ RingInv /\ BuffInv /\ ForwardInv /\ ShownInv
        /\ HeardInv /\ AddrInv /\ DestInv /\ PathInv /\ HandleInv
    BY DEF IInv
  <1>1. /\ typed \in Seq(LineType) /\ path \in Seq(BOOLEAN) /\ Len(path) = Len(typed)
        /\ Len(typed) \in Nat /\ MaxLines \in Nat /\ Len(typed) <= MaxLines
    BY <1>0, LinesAssumption DEF TypeInv
  <1>2. /\ typed' = Append(typed, l) /\ typed' \in Seq(LineType) /\ Len(typed') = Len(typed) + 1
        /\ DOMAIN typed' = 1..Len(typed) + 1 /\ typed'[Len(typed) + 1] = l
        /\ \A n \in 1..Len(typed) : typed'[n] = typed[n]
    BY <1>1 DEF SendOrExit
  <1>3. PICK w \in BOOLEAN : path' = Append(path, w) /\ (w = TRUE => WayOpen(l))
    <2>1. typed' # typed /\ typed'[Len(typed')] = l
      BY <1>1, <1>2
    <2>2. path' = Append(path, failed' = failed /\ WayOpen(l))
      BY <2>1 DEF RecordPath
    <2> QED BY <2>2
  <1>4. /\ path' \in Seq(BOOLEAN) /\ Len(path') = Len(typed) + 1
        /\ DOMAIN path' = 1..Len(typed) + 1 /\ path'[Len(typed) + 1] = w
        /\ \A n \in 1..Len(typed) : path'[n] = path[n]
    BY <1>1, <1>3
  <1>5. /\ mode' = mode /\ shown' = shown /\ rpc' = rpc /\ addr' = addr /\ buff' = buff
        /\ own' = own /\ nest' = nest /\ wild' = wild /\ failed \subseteq failed' /\ failed' \subseteq failed \cup {m}
        /\ \/ pc' = pc /\ Send(m, f)
           \/ pc' = [pc EXCEPT ![m] = "ended"] /\ m \in failed' /\ ring' = ring
    BY DEF SendOrExit, Send, Refuse, To
  <1>6. \A k \in Cards :
            \/ ring'[k] = ring[k]
            \/ k # m /\ Net(k) = Net(m) /\ mode[k] # "none" /\ ring'[k] = Append(ring[k], f)
    BY <1>5 DEF Send, Admits
  <1>7. /\ \A c \in Cards : /\ ring[c] \in Seq(FrameType) /\ Ids(ring[c]) \subseteq 1..Len(typed)
                            /\ Kept(c, ring[c], typed, path, failed)
        /\ \A c \in RouterCards : Given(c, nest) => buff[NoOf(c)].id \in 1..Len(typed)
        /\ 1..Len(typed) \subseteq 1..MaxLines
    BY <1>0, OldIds
  <1>20. /\ f.id \notin 1..Len(typed) /\ f.id \in 1..MaxLines
         /\ DOMAIN typed = 1..Len(typed)
         /\ \A n \in 1..Len(typed) + 1 : n \in 1..Len(typed) \/ n = f.id
         /\ \A n \in 1..Len(typed) : n \in 1..Len(typed) + 1 /\ n # f.id
    BY <1>1
  <1>21. \A k \in Stations, n \in 1..MaxLines : shown[k][n] \in {0, 1}
    <2>1. shown \in [Stations -> [1..MaxLines -> 0..1]]
      BY <1>0 DEF TypeInv
    <2>2. \A k \in Stations : shown[k] \in [1..MaxLines -> 0..1]
      BY <2>1
    <2>3. \A k \in Stations, n \in 1..MaxLines : shown[k][n] \in 0..1
      BY <2>2
    <2> QED BY <2>3
  <1>8. \A c \in Cards : \A n : /\ n \in Ids(ring[c]) => n \in Ids(ring'[c])
                                /\ n \in Ids(ring'[c]) => n \in Ids(ring[c]) \/ n = f.id
    <2> SUFFICES ASSUME NEW c \in Cards
                 PROVE  \A n : /\ n \in Ids(ring[c]) => n \in Ids(ring'[c])
                               /\ n \in Ids(ring'[c]) => n \in Ids(ring[c]) \/ n = f.id
      OBVIOUS
    <2>1. Ids(Append(ring[c], f)) = Ids(ring[c]) \cup {f.id}
      BY <1>7, JoinsIds
    <2> QED BY <1>6, <2>1
  <1>9. \A c, g : OfItsLine(c, g, typed, path, failed) => OfItsLine(c, g, typed', path', failed')
    BY <1>1, <1>2, <1>3, <1>5, LineStays
  <1>10. TypeInv'
    <2>1. ring' \in [Cards -> Seq(FrameType)]
      <3>1. ring \in [Cards -> Seq(FrameType)]
        BY <1>0 DEF TypeInv
      <3>2. ASSUME NEW k \in Cards PROVE ring'[k] \in Seq(FrameType)
        <4>1. ring[k] \in Seq(FrameType) /\ f \in FrameType
          BY <1>7
        <4>2. Append(ring[k], f) \in Seq(FrameType)
          BY <4>1, AppendProperties
        <4>3. ring'[k] = ring[k] \/ ring'[k] = Append(ring[k], f)
          BY <1>6
        <4> QED BY <4>1, <4>2, <4>3
      <3>3. CASE ring' = ring
        BY <3>1, <3>3
      <3>4. CASE Send(m, f)
        BY <3>2, <3>4 DEF Send
      <3> QED BY <1>5, <3>3, <3>4
    <2>2. pc' \in [Stations -> {"off", "access", "mode", "loop", "ended"}]
      BY <1>0, <1>5 DEF TypeInv
    <2>3. failed' \subseteq Machines /\ wild' \subseteq failed'
      BY <1>0, <1>5 DEF TypeInv, Machines
    <2> QED BY <1>0, <1>1, <1>2, <1>4, <1>5, <2>1, <2>2, <2>3 DEF TypeInv
  <1>11. RingInv'
    <2> SUFFICES ASSUME NEW c \in Cards
                 PROVE  (mode'[c] = "none" => ring'[c] = <<>>) /\ Kept(c, ring'[c], typed', path', failed')
      BY DEF RingInv, Kept
    <2>1. mode'[c] = "none" => ring'[c] = <<>>
      BY <1>0, <1>5, <1>6 DEF RingInv
    <2>2. Kept(c, ring[c], typed', path', failed')
      BY <1>7, <1>9 DEF Kept
    <2>3. CASE ring'[c] = ring[c]
      BY <2>1, <2>2, <2>3
    <2>4. CASE c # m /\ Net(c) = Net(m) /\ ring'[c] = Append(ring[c], f)
      <3>1. OfItsLine(c, f, typed', path', failed')
        <4>1. IsFrameOf(c, f, l, w, failed)
          BY <2>4
        <4>2. OfItsLine(c, f, typed', path', failed)
          BY <1>1, <1>2, <1>4, <4>1 DEF OfItsLine
        <4> QED BY <1>5, <4>2, FrameStays
      <3>2. f.id \notin Ids(ring[c])
        BY <1>7, <1>20
      <3> QED BY <1>7, <2>1, <2>2, <2>4, <3>1, <3>2, Joins
    <2> QED BY <1>6, <2>3, <2>4
  <1>12. BuffInv'
    BY <1>0, <1>5, <1>7, <1>8, <1>9, <1>20, AllCards DEF BuffInv
  <1>13. \A k \in Stations : shown[k][f.id] = 0
    BY <1>0, <1>20, <1>21 DEF ShownInv
  <1>14. ForwardInv'
    <2>1. \A c \in RouterCards, n \in 1..Len(typed) : Unheard(n, c) => Unheard(n, c)'
      BY <1>5, <1>8, <1>20, AllCards DEF Unheard
    <2>2. \A c \in RouterCards : f.id \in Ids(ring'[c]) => Unheard(f.id, c)'
      <3>1. \A c \in Cards : f.id \in Ids(ring'[c]) => Net(c) = Net(m)
        BY <1>6, <1>7, <1>20
      <3> QED BY <1>5, <1>13, <3>1, AllCards DEF Unheard
    <2>3. \A c \in RouterCards : \A n \in Ids(ring[c]) : Unheard(n, c) /\ n \in 1..Len(typed)
      BY <1>0, <1>7, AllCards DEF ForwardInv
    <2>4. \A c \in RouterCards : Given(c, nest) =>
            Unheard(buff[NoOf(c)].id, c) /\ buff[NoOf(c)].id \in 1..Len(typed)
      BY <1>0, <1>7 DEF ForwardInv
    <2>5. \A c \in RouterCards : (\A n \in Ids(ring[c]) : Unheard(n, c))'
      BY <1>8, <2>1, <2>2, <2>3, AllCards
    <2>6. \A c \in RouterCards : Given(c, nest') => Unheard(buff[NoOf(c)].id, c)'
      BY <1>5, <2>1, <2>4
    <2> QED BY <2>5, <2>6 DEF ForwardInv
  <1>15. ShownInv'
    <2> SUFFICES ASSUME NEW k \in Stations, NEW n \in 1..MaxLines, shown[k][n] = 1
                 PROVE  /\ n \in DOMAIN typed' /\ n \notin Ids(ring'[k])
                        /\ k \in Hosts => Addressee(typed'[n]) \subseteq {k}
      BY <1>5 DEF ShownInv
    <2>1. /\ n \in 1..Len(typed) /\ n \notin Ids(ring[k])
          /\ k \in Hosts => Addressee(typed[n]) \subseteq {k}
      BY <1>0, <1>20 DEF ShownInv
    <2> QED BY <1>2, <1>8, <1>20, <2>1, AllCards
  <1>16. HeardInv'
    <2> SUFFICES ASSUME NEW k \in Talkers \ Late, NEW n \in 1..Len(typed) + 1, pc'[k] = "loop",
                        typed'[n].by \in Hosts \ failed', Audible(typed'[n])
                 PROVE  n \in Ids(ring'[k]) \/ shown'[k][n] = 1
      BY <1>2 DEF HeardInv
    <2>1. k \in Cards /\ pc[k] = "loop" /\ mode[k] = "all" /\ Net(k) = 1
      <3>1. k \in Stations /\ k \in Cards /\ Net(k) = 1
        BY AllCards, Nets
      <3>2. pc[k] = "loop"
        BY <1>0, <1>5, <3>1 DEF TypeInv
      <3> QED BY <1>0, <3>1, <3>2 DEF HandleInv
    <2>2. CASE n \in 1..Len(typed)
      <3>1. n \in Ids(ring[k]) \/ shown[k][n] = 1
        BY <1>0, <1>2, <1>5, <1>20, <2>1, <2>2 DEF HeardInv
      <3>2. n \in Ids(ring[k]) => n \in Ids(ring'[k])
        BY <1>8, <2>1
      <3>3. shown' = shown
        BY <1>5
      <3> QED BY <3>1, <3>2, <3>3
    <2>3. CASE n = Len(typed) + 1
      <3>1. m \in Hosts /\ m \notin failed' /\ Net(m) = 1
        BY <1>2, <2>3 DEF Audible
      <3>2. Send(m, f) /\ k # m
        BY <1>5, <3>1, AllCards
      <3>3. ring'[k] = Append(ring[k], f)
        BY <2>1, <3>1, <3>2 DEF Send, Admits
      <3> QED BY <1>7, <2>1, <2>3, <3>3, JoinsIds
    <2> QED BY <1>1, <1>2, <2>2, <2>3
  <1>22. /\ \A i \in {1, 2} : Known(i) => Known(i)'
         /\ \A k \in Stations : pc'[k] # "ended" => pc'[k] = pc[k]
    BY <1>0, <1>5 DEF Known, TypeInv
  <1>17. AddrInv'
    BY <1>0, <1>5, <1>22 DEF AddrInv
  <1>18. PathInv'
    <2> SUFFICES ASSUME NEW n \in DOMAIN path', path'[n] = TRUE
                 PROVE  /\ Addressee(typed'[n]) # {}
                        /\ Crosses(typed'[n]) => \A i \in {1, 2} : Known(i)
      BY <1>5, <1>22 DEF PathInv
    <2>1. CASE n \in 1..Len(typed)
      BY <1>0, <1>1, <1>2, <1>4, <2>1 DEF PathInv
    <2>2. CASE n = Len(typed) + 1
      <3>1. WayOpen(l)
        BY <1>3, <1>4, <2>2
      <3>2. Crosses(l) => rpc[1] = "release"
        BY <3>1 DEF WayOpen
      <3> QED BY <1>0, <1>2, <2>2, <3>1, <3>2 DEF WayOpen, AddrInv
    <2> QED BY <1>1, <1>4, <2>1, <2>2
  <1>19. HandleInv'
    BY <1>0, <1>5 DEF HandleInv, TypeInv
  <1> QED BY <1>10, <1>11, <1>12, <1>14, <1>15, <1>16, <1>17, <1>18, <1>19 DEF IInv

\* A host sends a line where put_dest() says.
LEMMA TypeLineKeeps ==
    ASSUME IInv, NEW h \in Hosts, TypeLine(h), RecordPath, UNCHANGED <<rtvars, wild>>
    PROVE  IInv'
  <1>1. PICK d \in Lines[h] :
            /\ dest' = [dest EXCEPT ![h] = PutDest(h, dest[h], d.to)]
            /\ SendOrExit(h, Frame(PutDest(h, dest[h], d.to), own[h], "abcd", d.to, d.from,
                                   Len(typed) + 1),
                          [by |-> h, to |-> d.to, from |-> d.from])
    BY DEF TypeLine
  <1> DEFINE dst == PutDest(h, dest[h], d.to)
             f == Frame(dst, own[h], "abcd", d.to, d.from, Len(typed) + 1)
             l == [by |-> h, to |-> d.to, from |-> d.from]
  <1>2. h \in Stations /\ h \in HostNames /\ d.to \in Bytes /\ d.from \in Bytes
    BY AllCards, LinesAssumption
  <1>3. /\ dest \in [Stations -> Mac] /\ own \in [Stations -> Mac \cup Garbage]
        /\ Len(typed) \in Nat /\ pc[h] = "loop" /\ Len(typed) < MaxLines
        /\ own[h] = CardMac[h] \/ (own[h] \in Garbage /\ h \in failed)
        /\ LocalMac(dest[h], Net(h)) /\ DestInv
    <2>1. dest \in [Stations -> Mac] /\ own \in [Stations -> Mac \cup Garbage]
      BY DEF IInv, TypeInv
    <2>2. Len(typed) \in Nat /\ pc[h] = "loop" /\ Len(typed) < MaxLines
      BY DEF IInv, TypeInv, TypeLine
    <2>3. own[h] = CardMac[h] \/ (own[h] \in Garbage /\ h \in failed)
      BY <1>2, <2>2 DEF IInv, AddrInv
    <2>4. LocalMac(dest[h], Net(h)) /\ DestInv
      BY DEF IInv, DestInv
    <2> QED BY <2>1, <2>2, <2>3, <2>4
  <1>4. PICK g \in HostNames : HostArp[h][1].mac = CardMac[g] /\ Net(g) = Net(h)
    BY <1>2, HostTable
  <1>5. HostArp[h][2].mac = RouterMac(Net(h)) /\ Net(h) \in {1, 2}
    BY <1>2, HostTable, Nets
  <1>6. /\ CardMac[g] \in Mac /\ CardMac[h] \in Mac
        /\ RouterMac(1) \in Mac /\ RouterMac(2) \in Mac /\ own[h] \in Mac \cup Garbage
    BY <1>2, <1>3, <1>4, CardMacs DEF Mac, RouterMac, CardNo, HostNames
  <1>7. dst \in Mac
    BY <1>2, <1>3, <1>4, <1>5, <1>6 DEF PutDest
  <1>12. LocalMac(dst, Net(h))
    <2>1. LocalMac(HostArp[h][1].mac, Net(h))
      BY <1>4, Nets, Iips DEF LocalMac, HostNames
    <2>2. LocalMac(HostArp[h][2].mac, Net(h))
      BY <1>5, Iips DEF LocalMac, RouterMac, CardNo
    <2> QED BY <1>3, <2>1, <2>2 DEF PutDest
  <1>8. dest' \in [Stations -> Mac] /\ DestInv'
    <2> HIDE DEF dst
    <2>1. dest' = [dest EXCEPT ![h] = dst]
      BY <1>1 DEF dst
    <2>2. \A k \in Hosts : dest'[k] = IF k = h THEN dst ELSE dest[k]
      BY <1>3, <2>1, AllCards
    <2> QED BY <1>3, <1>7, <1>12, <2>1, <2>2 DEF DestInv
  <1>9. f \in FrameType /\ f.id = Len(typed) + 1
    <2> HIDE DEF dst
    <2> QED BY <1>2, <1>3, <1>6, <1>7 DEF Frame, FrameType
  <1>10. l \in LineType /\ l.by = h
    BY <1>2 DEF LineType
  <1>11. ASSUME NEW c \in Cards, NEW w \in BOOLEAN, c # h, Net(c) = Net(h)
         PROVE  IsFrameOf(c, f, l, w, failed)
    <2>1. /\ d.to[1] = Net(h) /\ d.to[2] # 2 => dst = HostArp[h][1].mac
          /\ d.to[1] = 3 - Net(h) => dst = HostArp[h][2].mac
      BY <1>2, <1>5, Nets DEF PutDest, Bytes
    <2> HIDE DEF dst
    <2>2. Original(c, f, l, failed)
      BY <1>3, <1>11, <1>12, <2>1 DEF Original, Frame
    <2> QED BY <2>2 DEF IsFrameOf, Frame
  <1> HIDE DEF f, l
  <1> QED BY <1>1, <1>2, <1>3, <1>8, <1>9, <1>10, <1>11, Typing DEF f, l

\* A program of DosTalk sends a line to its peer.
LEMMA TypeTalkKeeps ==
    ASSUME IInv, NEW m \in Talkers, TypeTalk(m), RecordPath, UNCHANGED <<rtvars, wild>>
    PROVE  IInv'
  <1> DEFINE f == TalkPacket(m, Len(typed) + 1)
             l == [by |-> m, to |-> Letters, from |-> Letters]
  <1>1. m \in Stations /\ Net(m) = 1
    BY AllCards, Nets
  <1>2. dest \in [Stations -> Mac] /\ Len(typed) \in Nat /\ pc[m] = "loop" /\ Len(typed) < MaxLines
    BY DEF IInv, TypeInv, TypeTalk
  <1>3. <<198, 143, 78>> \in Mac /\ <<58, 175, 158>> \in Mac
    BY CardMacs DEF Mac
  <1>4. Letters \in Bytes
    BY DEF Letters, Bytes
  <1>5. \E dst, src \in Mac : f = Frame(dst, src, "0101", Letters, Letters, Len(typed) + 1)
    BY <1>3, Kinds DEF TalkPacket, DosTalkPacket, ReceiverPacket, SenderPacket
  <1>6. f \in FrameType /\ f.id = Len(typed) + 1 /\ f.type = "0101"
    <2> HIDE DEF f
    <2> QED BY <1>2, <1>4, <1>5 DEF Frame, FrameType
  <1>7. l \in LineType /\ l.by = m
    BY <1>1, <1>4 DEF LineType
  <1> HIDE DEF f
  <1>8. \A c \in Cards, w \in BOOLEAN : c # m /\ Net(c) = Net(m) => IsFrameOf(c, f, l, w, failed)
    BY <1>1, <1>6 DEF IsFrameOf
  <1>9. SendOrExit(m, f, l) /\ dest' \in [Stations -> Mac] /\ DestInv'
    BY <1>2 DEF TypeTalk, f, IInv, DestInv
  <1> HIDE DEF l
  <1> QED BY <1>1, <1>2, <1>6, <1>7, <1>8, <1>9, Typing

--------------------------------------------------------------------------------
\* A step that types, shows and forwards nothing, after which each driver holds
\* what it held, or what followed, or nothing.
LEMMA Quiet ==
    ASSUME IInv, ring' \in [Cards -> Seq(FrameType)],
           UNCHANGED <<typed, path, shown, dest, buff, nest>>, failed \subseteq failed',
           \A c \in Cards : \/ ring'[c] = ring[c]
                            \/ ring[c] # <<>> /\ ring'[c] = Tail(ring[c])
                            \/ ring'[c] = <<>>,
           \A c \in Cards : mode'[c] = "none" => mode[c] = "none" \/ ring'[c] = <<>>,
           \A k \in Talkers \ Late : pc'[k] = "loop" => pc[k] = "loop" /\ ring'[k] = ring[k],
           \A i \in {1, 2} : Known(i) => Known(i)'
    PROVE  RingInv' /\ BuffInv' /\ ForwardInv' /\ ShownInv' /\ HeardInv' /\ DestInv' /\ PathInv'
  <1>1. \A c \in Cards : ring[c] \in Seq(FrameType) /\ Kept(c, ring[c], typed, path, failed)
    BY OldIds DEF IInv
  <1>2. \A c \in Cards : /\ \A n : n \in Ids(ring'[c]) => n \in Ids(ring[c])
                         /\ Kept(c, ring'[c], typed, path, failed)
    <2> SUFFICES ASSUME NEW c \in Cards
                 PROVE  /\ \A n : n \in Ids(ring'[c]) => n \in Ids(ring[c])
                        /\ Kept(c, ring'[c], typed, path, failed)
      OBVIOUS
    <2>1. CASE ring'[c] = ring[c]
      BY <1>1, <2>1
    <2>2. CASE ring[c] # <<>> /\ ring'[c] = Tail(ring[c])
      <3>1. /\ Ids(ring[c]) = Ids(Tail(ring[c])) \cup {Head(ring[c]).id}
            /\ Kept(c, Tail(ring[c]), typed, path, failed)
        BY <1>1, <2>2, Leaves
      <3> QED BY <2>2, <3>1
    <2>3. CASE ring'[c] = <<>>
      BY <2>3, NoFrames
    <2> QED BY <2>1, <2>2, <2>3
  <1>3. \A c \in Cards : mode'[c] = "none" => ring'[c] = <<>>
    BY DEF IInv, RingInv
  <1>4. RingInv'
    <2>1. \A c \in Cards : Kept(c, ring'[c], typed, path, failed')
      BY <1>2, KeptStays
    <2> QED BY <1>3, <2>1 DEF RingInv, Kept
  <1>5. BuffInv'
    <2>1. \A c \in RouterCards : Given(c, nest) => OfItsLine(c, buff[NoOf(c)], typed, path, failed')
      BY FrameStays DEF IInv, BuffInv
    <2> QED BY <1>2, <2>1, AllCards DEF IInv, BuffInv
  <1>6. \A c \in RouterCards : \A n : Unheard(n, c) => Unheard(n, c)'
    BY <1>2, AllCards DEF Unheard
  <1>7. ForwardInv'
    BY <1>2, <1>6, AllCards DEF IInv, ForwardInv
  <1>8. ShownInv'
    BY <1>2, AllCards DEF IInv, ShownInv
  <1>9. HeardInv'
    BY DEF IInv, HeardInv
  <1>10. DestInv' /\ PathInv'
    BY DEF IInv, DestInv, PathInv
  <1> QED BY <1>4, <1>5, <1>7, <1>8, <1>9, <1>10

\* The same, and what else there is to show of such a step.
LEMMA QuietKeeps ==
    ASSUME IInv, ring' \in [Cards -> Seq(FrameType)], TypeInv', AddrInv', HandleInv',
           UNCHANGED <<typed, path, shown, dest, buff, nest>>, failed \subseteq failed',
           \A c \in Cards : \/ ring'[c] = ring[c]
                            \/ ring[c] # <<>> /\ ring'[c] = Tail(ring[c])
                            \/ ring'[c] = <<>>,
           \A c \in Cards : mode'[c] = "none" => mode[c] = "none" \/ ring'[c] = <<>>,
           \A k \in Talkers \ Late : pc'[k] = "loop" => pc[k] = "loop" /\ ring'[k] = ring[k],
           \A i \in {1, 2} : Known(i) => Known(i)'
    PROVE  IInv'
  BY Quiet DEF IInv

\* main() of a station: it opens its driver, sets the mode, leaves.
LEMMA StationKeeps ==
    ASSUME IInv, NEW m \in Stations, Start(m) \/ AccessType(m) \/ SetMode(m) \/ Bye(m), RecordPath,
           UNCHANGED <<rtvars, wild>>
    PROVE  IInv'
  <1>1. /\ TypeInv /\ AddrInv /\ HandleInv /\ UNCHANGED <<dest, shown, typed, rpc, addr, buff, nest, wild>>
    BY DEF IInv, Start, AccessType, SetMode, Bye, rtvars
  <1>2. path' = path
    BY <1>1 DEF RecordPath
  <1>3. /\ ring \in [Cards -> Seq(FrameType)] /\ mode \in [Cards -> {"none", "direct", "all"}]
        /\ pc \in [Stations -> {"off", "access", "mode", "loop", "ended"}] /\ failed \subseteq Machines
        /\ m \in Cards /\ m \notin RouterCards
    BY <1>1, Kinds DEF TypeInv
  <1>4. failed \subseteq failed' /\ failed' \subseteq failed \cup {m}
    BY DEF Start, AccessType, SetMode, Bye, Open, Promiscuous, Release, Refuse, drvvars
  <1>5. /\ ring' = ring \/ (ring' = [ring EXCEPT ![m] = <<>>] /\ mode'[m] = "none" /\ pc'[m] = "ended")
        /\ \/ mode' = mode
           \/ mode' = [mode EXCEPT ![m] = "direct"] /\ pc'[m] # "ended"
           \/ mode' = [mode EXCEPT ![m] = "all"] /\ pc'[m] # "ended"
           \/ mode' = [mode EXCEPT ![m] = "none"] /\ ring'[m] = <<>>
        /\ \E s \in {"access", "mode", "loop", "ended"} : pc' = [pc EXCEPT ![m] = s]
        /\ pc'[m] = "loop" => mode'[m] = "all" /\ pc[m] = "mode" /\ ring' = ring
        /\ pc'[m] = "mode" => pc[m] = "access"
        /\ pc'[m] = "access" => pc[m] = "off"
        /\ pc'[m] = "ended" /\ mode'[m] # "none" => m \in failed'
    BY <1>3 DEF Start, AccessType, SetMode, Bye, Open, Promiscuous, Release, Refuse, drvvars, To
  <1>12. /\ own \in [Stations -> Mac \cup Garbage]
         /\ own' = own \/ \E a \in Garbage \cup {CardMac[m]} : own' = [own EXCEPT ![m] = a]
         /\ pc'[m] = "access" => own'[m] = CardMac[m] \/ (own'[m] \in Garbage /\ m \in failed')
         /\ pc'[m] # "access" => own' = own
    BY <1>1, <1>3, <1>5 DEF TypeInv, Start, AccessType, SetMode, Bye, Refuse, To
  <1>6. TypeInv'
    <2>1. ring' \in [Cards -> Seq(FrameType)]
      <3>1. <<>> \in Seq(FrameType)
        OBVIOUS
      <3> QED BY <1>3, <1>5, <3>1
    <2>4. mode' \in [Cards -> {"none", "direct", "all"}]
      BY <1>3, <1>5
    <2>2. pc' \in [Stations -> {"off", "access", "mode", "loop", "ended"}]
      BY <1>3, <1>5
    <2>3. failed' \subseteq Machines /\ wild' \subseteq failed'
      BY <1>1, <1>3, <1>4 DEF TypeInv, Machines
    <2>5. own' \in [Stations -> Mac \cup Garbage]
      <3>1. CardMac[m] \in Mac
        BY Kinds DEF Mac
      <3>2. own \in [Stations -> Mac \cup Garbage]
        BY <1>1 DEF TypeInv
      <3>3. own' = own \/ \E a \in Mac \cup Garbage : own' = [own EXCEPT ![m] = a]
        BY <1>12, <3>1
      <3> QED BY <3>2, <3>3
    <2> QED BY <1>1, <1>2, <2>1, <2>2, <2>3, <2>4, <2>5 DEF TypeInv
  <1>13. \A i \in {1, 2} : Known(i) => Known(i)'
    BY <1>1, <1>4 DEF Known
  <1>7. AddrInv'
    <2>1. \A k \in Stations : k # m => pc'[k] = pc[k] /\ own'[k] = own[k]
      BY <1>3, <1>5, <1>12
    <2>2. \/ own'[m] = CardMac[m]
          \/ own'[m] \in Garbage /\ m \in failed'
          \/ own'[m] = NoMac /\ pc'[m] \in {"off", "ended"}
      <3>1. CASE pc'[m] = "access"
        BY <1>4, <1>12, <3>1
      <3>2. CASE pc'[m] # "access"
        <4>1. own'[m] = own[m] /\ (pc'[m] = "ended" \/ pc[m] \in {"access", "mode"})
          BY <1>3, <1>5, <1>12, <3>2
        <4> QED BY <1>1, <1>4, <4>1 DEF AddrInv
      <3> QED BY <3>1, <3>2
    <2>3. \A k \in Stations :
            \/ own'[k] = CardMac[k]
            \/ own'[k] \in Garbage /\ k \in failed'
            \/ own'[k] = NoMac /\ pc'[k] \in {"off", "ended"}
      BY <1>1, <1>4, <2>1, <2>2 DEF AddrInv
    <2> QED BY <1>1, <1>13, <2>3 DEF AddrInv
  <1>8. HandleInv'
    <2>1. \A k \in Stations : k # m => pc'[k] = pc[k] /\ mode'[k] = mode[k]
      BY <1>3, <1>5, AllCards
    <2>2. \A c \in RouterCards : mode'[c] = mode[c]
      BY <1>3, <1>5, AllCards
    <2>3. pc'[m] \in {"access", "mode", "loop", "ended"}
      BY <1>3, <1>5
    <2>4. ASSUME NEW k \in Stations
          PROVE  /\ k \notin Late => pc'[k] \in {"loop", "ended"}
                 /\ pc'[k] = "loop" => mode'[k] = "all"
                 /\ pc'[k] = "ended" /\ mode'[k] # "none" => k \in failed'
      BY <1>1, <1>4, <1>5, <2>1, <2>3 DEF HandleInv
    <2>5. "1.2" \in RouterCards /\ \A i \in {1, 2} : CardNo(i) \in RouterCards
      BY RouterCard DEF RouterCards
    <2> QED BY <1>1, <1>4, <2>2, <2>4, <2>5 DEF HandleInv
  <1>9. \A k \in Talkers \ Late : pc'[k] = "loop" => pc[k] = "loop" /\ ring'[k] = ring[k]
    BY <1>1, <1>3, <1>5, AllCards DEF HandleInv
  <1>10. \A c \in Cards : /\ ring'[c] = ring[c] \/ ring'[c] = <<>>
                          /\ mode'[c] = "none" => mode[c] = "none" \/ ring'[c] = <<>>
    BY <1>3, <1>5
  <1>11. ring' \in [Cards -> Seq(FrameType)]
    BY <1>6 DEF TypeInv
  <1> QED BY <1>1, <1>2, <1>4, <1>6, <1>7, <1>8, <1>9, <1>10, <1>11, <1>13, QuietKeeps

\* main() of the router.
LEMMA RouterKeeps ==
    ASSUME IInv, NEW i \in 1..2, Identify(i) \/ Access(i) \/ Mode(i) \/ ReleaseType(i),
           UNCHANGED <<stvars, wild, path>>
    PROVE  IInv'
  <1>1. /\ TypeInv /\ AddrInv /\ HandleInv
        /\ UNCHANGED <<pc, own, dest, shown, typed, path, buff, nest, wild>>
    BY DEF IInv, Identify, Access, Mode, ReleaseType, stvars
  <1>2. /\ ring \in [Cards -> Seq(FrameType)] /\ mode \in [Cards -> {"none", "direct", "all"}]
        /\ failed \subseteq Machines /\ addr \in [1..2 -> Mac \cup Garbage]
        /\ CardNo(i) \in Cards /\ CardNo(i) \in RouterCards /\ CardNo(i) \notin Stations
        /\ i \in {1, 2} /\ CardMac[CardNo(i)] = RouterMac(i)
    BY <1>1, RouterCard, Kinds DEF TypeInv, RouterMac
  <1>3. failed \subseteq failed' /\ failed' \subseteq failed \cup {"router"}
    BY DEF Identify, Access, Mode, ReleaseType, Open, Promiscuous, Release, Refuse, drvvars
  <1>4. /\ ring' = ring \/ (ring' = [ring EXCEPT ![CardNo(i)] = <<>>] /\ mode'[CardNo(i)] = "none")
        /\ \/ mode' = mode
           \/ \E v \in {"direct", "all"} : mode' = [mode EXCEPT ![CardNo(i)] = v]
           \/ mode' = [mode EXCEPT ![CardNo(i)] = "none"] /\ ring' = [ring EXCEPT ![CardNo(i)] = <<>>]
        /\ \/ addr' = addr
           \/ addr' = [addr EXCEPT ![i] = RouterMac(i)]
           \/ \E g \in Garbage : addr' = [addr EXCEPT ![i] = g] /\ "router" \in failed'
    BY <1>2 DEF Identify, Access, Mode, ReleaseType, Open, Promiscuous, Release, Refuse, drvvars
  <1>5. rpc' \in ({"driver", "access", "mode", "release"} \X {1, 2}) \cup {Ended}
    BY <1>2 DEF Identify, Access, Mode, ReleaseType
  <1>6. CardMac[CardNo(i)] \in Mac
    BY CardMacs, <1>2 DEF Mac, CardNo
  <1>7. TypeInv'
    <2>1. ring' \in [Cards -> Seq(FrameType)]
      <3>1. <<>> \in Seq(FrameType)
        OBVIOUS
      <3> QED BY <1>2, <1>4, <3>1
    <2>4. mode' \in [Cards -> {"none", "direct", "all"}]
      BY <1>2, <1>4
    <2>2. addr' \in [1..2 -> Mac \cup Garbage]
      BY <1>2, <1>4, <1>6
    <2>3. failed' \subseteq Machines /\ wild' \subseteq failed'
      BY <1>1, <1>2, <1>3 DEF TypeInv, Machines
    <2> QED BY <1>1, <1>5, <2>1, <2>2, <2>3, <2>4 DEF TypeInv
  <1>13. \A j \in {1, 2} : Known(j) => Known(j)'
    BY <1>2, <1>3, <1>4 DEF Known
  <1>8. AddrInv'
    <2>1. \A m \in Stations :
            \/ own'[m] = CardMac[m]
            \/ own'[m] \in Garbage /\ m \in failed'
            \/ own'[m] = NoMac /\ pc'[m] \in {"off", "ended"}
      BY <1>1, <1>3 DEF AddrInv
    <2>2. \A j \in {1, 2} : addr'[j] = NoMac \/ Known(j)'
      BY <1>1, <1>2, <1>3, <1>4 DEF AddrInv, Known
    <2>3. CASE Identify(i)
      <3>1. rpc' = Ended \/ (rpc' = <<"access", i>> /\ Known(i)')
        BY <1>2, <2>3 DEF Identify, Known, Refuse
      <3> QED BY <1>1, <1>2, <1>13, <2>1, <2>2, <2>3, <3>1 DEF AddrInv, Identify, Ended
    <2>4. CASE Access(i)
      BY <1>1, <1>2, <1>13, <2>1, <2>2, <2>4 DEF AddrInv, Access, Ended
    <2>5. CASE Mode(i)
      BY <1>1, <1>2, <1>13, <2>1, <2>2, <2>5 DEF AddrInv, Mode, Ended
    <2>6. CASE ReleaseType(i)
      BY <1>1, <1>2, <1>13, <2>1, <2>2, <2>6 DEF AddrInv, ReleaseType, Ended
    <2> QED BY <2>3, <2>4, <2>5, <2>6
  <1>9. HandleInv'
    <2>1. /\ \A k \in Stations : pc'[k] = pc[k] /\ mode'[k] = mode[k]
          /\ \A k \in Stations : k \in failed => k \in failed'
      BY <1>1, <1>2, <1>3, <1>4, AllCards
    <2>2. /\ CardNo(1) = "1.2" /\ CardNo(2) = "2.2" /\ RouterCards = {"1.2", "2.2"}
          /\ "1.2" \in Cards /\ "2.2" \in Cards
      BY RouterCard, AllCards DEF CardNo, RouterCards
    <2>3. /\ rpc' = <<"release", 2>> => mode'["1.2"] = "none"
          /\ \A j \in {1, 2} : rpc' = <<"mode", j>> /\ mode'[CardNo(j)] = "none" => "router" \in failed'
          /\ rpc' = Ended /\ (\E c \in RouterCards : mode'[c] # "none") => "router" \in failed'
      <3>1. CASE Identify(i)
        BY <1>1, <1>2, <2>2, <3>1 DEF HandleInv, Identify, Refuse, Ended, drvvars
      <3>2. CASE Access(i)
        BY <1>1, <1>2, <2>2, <3>2 DEF HandleInv, Access, Open, Refuse, Ended
      <3>3. CASE Mode(i)
        BY <1>1, <1>2, <2>2, <3>3 DEF HandleInv, Mode, Promiscuous, Refuse, Ended, drvvars
      <3>4. CASE ReleaseType(i)
        BY <1>1, <1>2, <2>2, <3>4 DEF HandleInv, ReleaseType, Release, Refuse, Ended
      <3> QED BY <3>1, <3>2, <3>3, <3>4
    <2> QED BY <1>1, <2>1, <2>3 DEF HandleInv
  <1>10. \A c \in Cards : /\ ring'[c] = ring[c] \/ ring'[c] = <<>>
                          /\ mode'[c] = "none" => mode[c] = "none" \/ ring'[c] = <<>>
    BY <1>2, <1>4
  <1>11. ring' \in [Cards -> Seq(FrameType)]
    BY <1>7 DEF TypeInv
  <1>12. \A k \in Talkers \ Late : pc'[k] = "loop" => pc[k] = "loop" /\ ring'[k] = ring[k]
    BY <1>1, <1>2, <1>4, AllCards
  <1> QED BY <1>1, <1>3, <1>7, <1>8, <1>9, <1>10, <1>11, <1>12, <1>13, QuietKeeps

--------------------------------------------------------------------------------
\* A host shows a frame only if its line names no other host, and a program of
\* DosTalk shows every frame of an audible line.
LEMMA WhoShows ==
    ASSUME NEW m \in Stations, NEW f \in FrameType, NEW l \in LineType, NEW w,
           IsFrameOf(m, f, l, w, failed), own[m] \in Garbage \cup {NoMac, CardMac[m]}
    PROVE  /\ m \in Hosts /\ Shows(m, f) => Addressee(l) \subseteq {m}
           /\ m \in Talkers /\ l.by \in Hosts /\ Audible(l) => Shows(m, f)
  <1>1. ASSUME m \in Hosts, Shows(m, f), NEW h \in Addressee(l)
        PROVE  h = m
    <2>1. f.dst = own[m] /\ f.type = "abcd"
      <3>1. m \in HostNames
        BY <1>1, AllCards
      <3> QED BY <1>1, <3>1 DEF Shows, HostShows, HostFilter, HostNames
    <2>2. /\ m \in HostNames /\ h \in HostNames /\ l.by \in HostNames
          /\ l.to = Iip[h] /\ h # l.by
      BY <1>1, AllCards DEF Addressee
    <2>6. \A g \in HostNames : CardMac[g] # NoMac
      BY CardMacs DEF HostNames, NoMac
    <2>5. \A g \in HostNames : f.dst = CardMac[g] => g = m
      BY <2>1, <2>2, <2>6, NoCardIsGarbage, MacsDiffer
    <2>7. \A i \in {1, 2} : f.dst # RouterMac(i)
      BY <2>1, <2>2, NoCardIsGarbage, MacsDiffer, <1>1, AllCards
    <2>3. CASE Original(m, f, l, failed)
      <3>1. l.to[1] = Net(h) /\ l.to[2] # 2 /\ Net(h) \in {1, 2} /\ Net(l.by) \in {1, 2}
        BY <2>2, Nets, HostTable
      <3>2. CASE Net(h) = Net(l.by)
        <4>1. f.dst = HostArp[l.by][1].mac
          BY <2>3, <3>1, <3>2 DEF Original
        <4> QED BY <2>2, <2>5, <3>2, <4>1, HostTable
      <3>3. CASE Net(h) # Net(l.by)
        <4>1. f.dst = RouterMac(Net(l.by))
          BY <2>2, <2>3, <3>1, <3>3, HostTable DEF Original
        <4> QED BY <2>7, <3>1, <4>1
      <3> QED BY <3>2, <3>3
    <2>4. CASE Forwarded(m, f, l, w, failed)
      <3>1. PICK g \in HostNames : Iip[g] = l.to /\ f.dst = CardMac[g]
        BY <2>4, Kinds DEF Forwarded
      <3> QED BY <2>2, <2>5, <3>1, IipsDiffer
    <2> QED BY <2>1, <2>3, <2>4 DEF IsFrameOf
  <1>2. ASSUME m \in Talkers, l.by \in Hosts, Audible(l)
        PROVE  Shows(m, f)
    <2>1. f.type = "abcd" /\ f.to = l.to /\ f.from = l.from
      BY <1>2, AllCards DEF IsFrameOf
    <2>2. DOMAIN f.dst = 1..3 /\ \A k \in 1..3 : f.dst[k] # 255
      BY MacBytes DEF FrameType
    <2>3. TalkFilter(f) /\ DosTalkShows(f)
      BY <1>2, <2>1, <2>2 DEF TalkFilter, DosTalkShows, Audible
    <2>4. m \notin Hosts /\ m \in {"dostalk", "sender", "receiver"}
      BY <1>2, Kinds, AllCards
    <2> QED BY <2>3, <2>4 DEF Shows, SenderShows, ReceiverShows
  <1> QED BY <1>1, <1>2

\* receiver() of a station.
LEMMA ReceiveKeeps ==
    ASSUME IInv, NEW m \in Stations, Receive(m), UNCHANGED <<rtvars, wild, path>>
    PROVE  IInv'
  <1> DEFINE f == Head(ring[m])
             n == f.id
  <1>1. /\ TypeInv /\ RingInv /\ BuffInv /\ ForwardInv /\ ShownInv
        /\ HeardInv /\ AddrInv /\ DestInv /\ PathInv /\ HandleInv
    BY DEF IInv
  <1>2. /\ ring[m] # <<>> /\ ring' = [ring EXCEPT ![m] = Tail(@)]
        /\ shown' = IF Shows(m, f) THEN [shown EXCEPT ![m][n] = @ + 1] ELSE shown
        /\ UNCHANGED <<mode, failed, pc, own, dest, typed, rpc, addr, buff, nest, wild, path>>
    BY DEF Receive, Fetch, rtvars
  <1>3. m \in Cards /\ ring \in [Cards -> Seq(FrameType)] /\ typed \in Seq(LineType)
    BY <1>1, AllCards DEF TypeInv
  <1>4. /\ \A c \in Cards : /\ ring[c] \in Seq(FrameType) /\ Ids(ring[c]) \subseteq DOMAIN typed
                            /\ Kept(c, ring[c], typed, path, failed)
        /\ DOMAIN typed \subseteq 1..MaxLines
    BY <1>1, OldIds
  <1>5. /\ f \in FrameType /\ OfItsLine(m, f, typed, path, failed)
        /\ Ids(ring[m]) = Ids(Tail(ring[m])) \cup {n} /\ n \notin Ids(Tail(ring[m]))
        /\ Kept(m, Tail(ring[m]), typed, path, failed) /\ Tail(ring[m]) \in Seq(FrameType)
    BY <1>2, <1>3, <1>4, Leaves DEF Kept
  <1>6. n \in DOMAIN typed /\ n \in 1..MaxLines /\ IsFrameOf(m, f, typed[n], path[n], failed)
    BY <1>4, <1>5 DEF OfItsLine
  <1>7. typed[n] \in LineType /\ own[m] \in Garbage \cup {NoMac, CardMac[m]}
    BY <1>1, <1>3, <1>6 DEF AddrInv
  <1> HIDE DEF f
  <1>8. shown \in [Stations -> [1..MaxLines -> 0..1]]
    BY <1>1 DEF TypeInv
  <1>9. shown[m][n] = 0
    <2>1. shown[m][n] # 1
      BY <1>1, <1>5, <1>6 DEF ShownInv
    <2>2. shown[m] \in [1..MaxLines -> 0..1]
      BY <1>8
    <2>3. shown[m][n] \in 0..1
      BY <1>6, <2>2
    <2> QED BY <2>1, <2>3
  <1>10. /\ shown' \in [Stations -> [1..MaxLines -> 0..1]]
         /\ \A k \in Stations, j \in 1..MaxLines :
                shown'[k][j] = IF k = m /\ j = n /\ Shows(m, f) THEN 1 ELSE shown[k][j]
    <2>1. CASE Shows(m, f)
      <3>1. shown' = [shown EXCEPT ![m] = [shown[m] EXCEPT ![n] = 1]]
        BY <1>2, <1>8, <1>9, <2>1
      <3>2. [shown[m] EXCEPT ![n] = 1] \in [1..MaxLines -> 0..1]
        <4>1. shown[m] \in [1..MaxLines -> 0..1] /\ 1 \in 0..1
          BY <1>8
        <4> QED BY <4>1
      <3> QED BY <1>6, <1>8, <2>1, <3>1, <3>2
    <2>2. CASE ~Shows(m, f)
      BY <1>2, <1>8, <2>2
    <2> QED BY <2>1, <2>2
  <1>11. /\ ring' \in [Cards -> Seq(FrameType)]
         /\ \A c \in Cards : ring'[c] = IF c = m THEN Tail(ring[m]) ELSE ring[c]
    BY <1>2, <1>3, <1>5
  <1>12. /\ \A c \in Cards : \A j : j \in Ids(ring'[c]) => j \in Ids(ring[c])
         /\ \A j : j \in Ids(ring[m]) => j \in Ids(ring'[m]) \/ j = n
         /\ n \notin Ids(ring'[m])
    BY <1>3, <1>5, <1>11
  <1>13. TypeInv'
    BY <1>1, <1>2, <1>10, <1>11 DEF TypeInv
  <1>14. RingInv'
    <2>1. \A c \in Cards : Kept(c, ring'[c], typed, path, failed)
      BY <1>4, <1>5, <1>11
    <2>2. ASSUME NEW c \in Cards, mode[c] = "none" PROVE ring'[c] = <<>>
      <3>1. ring[c] = <<>>
        BY <1>1, <2>2 DEF RingInv
      <3>2. c # m
        BY <1>2, <3>1
      <3> QED BY <1>11, <3>1, <3>2
    <2> QED BY <1>2, <2>1, <2>2 DEF RingInv, Kept
  <1>15. BuffInv'
    BY <1>1, <1>2, <1>12, AllCards DEF BuffInv
  <1>16. ForwardInv'
    <2>1. \A c \in RouterCards : \A j \in 1..MaxLines : Unheard(j, c) => Unheard(j, c)'
      <3> SUFFICES ASSUME NEW c \in RouterCards, NEW j \in 1..MaxLines, Unheard(j, c),
                          NEW k \in Stations, Net(k) # Net(c)
                   PROVE  j \notin Ids(ring'[k]) /\ shown'[k][j] = 0
        BY DEF Unheard
      <3>1. j \notin Ids(ring[k]) /\ shown[k][j] = 0
        BY DEF Unheard
      <3>2. ~(k = m /\ j = n)
        BY <1>5, <3>1
      <3> QED BY <1>10, <1>12, <3>1, <3>2, AllCards
    <2>2. \A c \in RouterCards : Given(c, nest) => buff[NoOf(c)].id \in 1..MaxLines
      BY <1>1, <1>4, OldIds
    <2>3. \A c \in RouterCards : \A j : j \in Ids(ring[c]) => j \in 1..MaxLines
      BY <1>4, AllCards
    <2> QED BY <1>1, <1>2, <1>12, <2>1, <2>2, <2>3, AllCards DEF ForwardInv
  <1>17. ShownInv'
    <2> SUFFICES ASSUME NEW k \in Stations, NEW j \in 1..MaxLines, shown'[k][j] = 1
                 PROVE  /\ j \in DOMAIN typed /\ j \notin Ids(ring'[k])
                        /\ k \in Hosts => Addressee(typed[j]) \subseteq {k}
      BY <1>2 DEF ShownInv
    <2>1. CASE k = m /\ j = n /\ Shows(m, f)
      BY <1>5, <1>6, <1>7, <1>12, <2>1, WhoShows
    <2>2. CASE shown[k][j] = 1
      BY <1>1, <1>12, <2>2, AllCards DEF ShownInv
    <2> QED BY <1>10, <2>1, <2>2
  <1>18. HeardInv'
    <2> SUFFICES ASSUME NEW k \in Talkers \ Late, NEW j \in DOMAIN typed, pc[k] = "loop",
                        typed[j].by \in Hosts \ failed, Audible(typed[j])
                 PROVE  j \in Ids(ring'[k]) \/ shown'[k][j] = 1
      BY <1>2 DEF HeardInv
    <2>1. j \in Ids(ring[k]) \/ shown[k][j] = 1
      BY <1>1 DEF HeardInv
    <2>2. k \in Stations /\ k \in Cards /\ j \in 1..MaxLines
      BY <1>4, AllCards
    <2>3. CASE k = m /\ j = n
      BY <1>5, <1>6, <1>7, <1>10, <2>2, <2>3, WhoShows
    <2>4. CASE k # m \/ j # n
      BY <1>10, <1>11, <1>12, <2>1, <2>2, <2>4
    <2> QED BY <2>3, <2>4
  <1>19. AddrInv' /\ DestInv' /\ PathInv' /\ HandleInv'
    BY <1>1, <1>2 DEF AddrInv, Known, DestInv, PathInv, HandleInv
  <1> QED BY <1>13, <1>14, <1>15, <1>16, <1>17, <1>18, <1>19 DEF IInv

\* The driver calls a program that is gone.
LEMMA CallsNobodyKeeps ==
    ASSUME IInv, NEW c \in Cards, CallsNobody(c)
    PROVE  IInv' /\ wild' \subseteq failed'
  <1>1. /\ TypeInv /\ RingInv /\ AddrInv /\ HandleInv
        /\ ring[c] # <<>> /\ ring' = [ring EXCEPT ![c] = Tail(@)] /\ wild' = wild \cup {Owner(c)}
        /\ UNCHANGED <<mode, failed, pc, own, dest, shown, typed, rpc, addr, buff, nest, path>>
    BY DEF IInv, CallsNobody, Fetch, stvars, rtvars
  <1>2. ring \in [Cards -> Seq(FrameType)] /\ mode[c] # "none"
    BY <1>1 DEF TypeInv, RingInv
  <1>3. Owner(c) \in failed
    BY <1>1, <1>2, Kinds DEF CallsNobody, Gone, Owner, HandleInv
  <1>4. ring' \in [Cards -> Seq(FrameType)]
    BY <1>1, <1>2, Leaves
  <1>5. TypeInv'
    BY <1>1, <1>3, <1>4 DEF TypeInv
  <1>6. AddrInv' /\ HandleInv' /\ \A i \in {1, 2} : Known(i) => Known(i)'
    BY <1>1 DEF AddrInv, Known, HandleInv
  <1>7. \A k \in Talkers \ Late : pc'[k] = "loop" => pc[k] = "loop" /\ ring'[k] = ring[k]
    BY <1>1, <1>2, AllCards, Kinds DEF CallsNobody, Gone, Owner
  <1>8. \A k \in Cards : ring'[k] = ring[k] \/ (ring[k] # <<>> /\ ring'[k] = Tail(ring[k]))
    BY <1>1, <1>2
  <1>9. wild' \subseteq failed'
    BY <1>5 DEF TypeInv
  <1> QED BY <1>1, <1>4, <1>5, <1>6, <1>7, <1>8, <1>9, QuietKeeps

--------------------------------------------------------------------------------
\* receiver() of the router, first call.
LEMMA GiveKeeps ==
    ASSUME IInv, NEW c \in RouterCards, Give(c), UNCHANGED <<stvars, wild, path>>
    PROVE  IInv'
  <1> DEFINE f == Head(ring[c])
  <1>1. /\ TypeInv /\ RingInv /\ BuffInv /\ ForwardInv /\ ShownInv
        /\ HeardInv /\ AddrInv /\ DestInv /\ PathInv /\ HandleInv
    BY DEF IInv
  <1>2. /\ ring[c] # <<>> /\ ring' = [ring EXCEPT ![c] = Tail(@)] /\ ~Given(c, nest)
        /\ buff' = [buff EXCEPT ![NoOf(c)] = f] /\ nest' = Append(nest, c)
        /\ UNCHANGED <<mode, failed, pc, own, dest, shown, typed, rpc, addr, wild, path>>
    BY DEF Give, Fetch, Buffer, Given, stvars
  <1>3. /\ c \in Cards /\ c \notin Stations /\ NoOf(c) \in {1, 2}
        /\ \A d \in RouterCards : d # c => NoOf(d) # NoOf(c)
        /\ ring \in [Cards -> Seq(FrameType)] /\ buff \in [1..2 -> FrameType] /\ nest \in Nests
    BY <1>1, AllCards, Kinds, RouterCard DEF TypeInv
  <1>4. \A d \in Cards : /\ ring[d] \in Seq(FrameType)
                         /\ Kept(d, ring[d], typed, path, failed)
    BY <1>1, OldIds
  <1>5. /\ f \in FrameType /\ OfItsLine(c, f, typed, path, failed)
        /\ Ids(ring[c]) = Ids(Tail(ring[c])) \cup {f.id} /\ f.id \notin Ids(Tail(ring[c]))
        /\ Kept(c, Tail(ring[c]), typed, path, failed) /\ Tail(ring[c]) \in Seq(FrameType)
    BY <1>2, <1>3, <1>4, Leaves DEF Kept
  <1> HIDE DEF f
  <1>6. /\ ring' \in [Cards -> Seq(FrameType)]
        /\ \A d \in Cards : ring'[d] = IF d = c THEN Tail(ring[c]) ELSE ring[d]
    BY <1>2, <1>3, <1>5
  <1>7. /\ buff' \in [1..2 -> FrameType] /\ buff'[NoOf(c)] = f
        /\ \A d \in RouterCards : d # c => buff'[NoOf(d)] = buff[NoOf(d)]
    BY <1>2, <1>3, <1>5
  <1>8. nest' \in Nests /\ \A d : Given(d, nest') <=> Given(d, nest) \/ d = c
    BY <1>2, <1>3, NestJoin
  <1>9. \A d \in Cards : \A j : j \in Ids(ring'[d]) => j \in Ids(ring[d])
    BY <1>5, <1>6
  <1>10. TypeInv'
    BY <1>1, <1>2, <1>6, <1>7, <1>8 DEF TypeInv
  <1>11. RingInv'
    <2>1. \A d \in Cards : Kept(d, ring'[d], typed, path, failed)
      BY <1>4, <1>5, <1>6
    <2>2. \A d \in Cards : mode[d] = "none" => ring'[d] = <<>>
      BY <1>1, <1>2, <1>3, <1>6 DEF RingInv
    <2> QED BY <1>2, <2>1, <2>2 DEF RingInv, Kept
  <1>12. BuffInv'
    <2> SUFFICES ASSUME NEW d \in RouterCards, Given(d, nest')
                 PROVE  /\ OfItsLine(d, buff'[NoOf(d)], typed, path, failed)
                        /\ buff'[NoOf(d)].id \notin Ids(ring'[d])
      BY <1>2 DEF BuffInv
    <2>1. CASE d = c
      BY <1>3, <1>5, <1>6, <1>7, <2>1
    <2>2. CASE d # c
      BY <1>1, <1>7, <1>8, <1>9, <2>2, AllCards DEF BuffInv
    <2> QED BY <2>1, <2>2
  <1>13. ForwardInv'
    <2>1. \A d \in RouterCards : \A j : Unheard(j, d) => Unheard(j, d)'
      BY <1>2, <1>9, AllCards DEF Unheard
    <2>2. Unheard(f.id, c)
      BY <1>1, <1>5 DEF ForwardInv
    <2> QED BY <1>1, <1>7, <1>8, <1>9, <2>1, <2>2, AllCards DEF ForwardInv
  <1>14. \A k \in Stations : ring'[k] = ring[k]
    BY <1>3, <1>6, AllCards
  <1>15. ShownInv' /\ HeardInv'
    BY <1>1, <1>2, <1>14, AllCards DEF ShownInv, HeardInv
  <1>16. AddrInv' /\ DestInv' /\ PathInv' /\ HandleInv'
    BY <1>1, <1>2 DEF AddrInv, Known, DestInv, PathInv, HandleInv
  <1> QED BY <1>10, <1>11, <1>12, <1>13, <1>15, <1>16 DEF IInv

\* What the router forwards is for the other network, and it knows its own
\* addresses if the way of the line was open.
LEMMA WhatIsForwarded ==
    ASSUME IInv, NEW c \in RouterCards, NEW f \in FrameType, OfItsLine(c, f, typed, path, failed),
           RouterFilter(f), Forwards(f)
    PROVE  /\ f.to[1] \in {1, 2} /\ f.to[1] # Net(c)
           /\ Rewritten(f) \in FrameType /\ Rewritten(f).id = f.id
           /\ OutCard(f) \in RouterCards /\ Net(OutCard(f)) = f.to[1]
           /\ \A k \in Cards \ {OutCard(f)} : Net(k) = Net(OutCard(f)) =>
                k \in Stations /\ OfItsLine(k, Rewritten(f), typed, path, failed)
  <1> DEFINE l == typed[f.id]
  <1>1. /\ TypeInv /\ AddrInv /\ PathInv /\ typed \in Seq(LineType) /\ DOMAIN path = DOMAIN typed
        /\ addr \in [1..2 -> Mac \cup Garbage] /\ \A i \in {1, 2} : addr[i] = NoMac \/ Known(i)
    BY DEF IInv, TypeInv, AddrInv
  <1>2. /\ f.id \in DOMAIN typed /\ f.type = "abcd" /\ l.by \in Hosts /\ f.to = l.to
        /\ f.from = l.from /\ Original(c, f, l, failed)
    BY DEF OfItsLine, IsFrameOf, RouterFilter, Forwarded
  <1> HIDE DEF l
  <1>3. PICK h \in HostNames : f.to = Iip[h] /\ Rewritten(f).dst = CardMac[h]
    BY RowOfHost DEF Forwards
  <1>4. /\ f.to[1] = Net(h) /\ f.to[2] # 2 /\ Net(h) \in {1, 2} /\ l.by \in HostNames
        /\ Net(l.by) \in {1, 2} /\ Net(c) = Net(l.by)
    BY <1>2, <1>3, Nets, HostTable, AllCards DEF Original
  <1>5. f.to[1] # Net(l.by)
    <2> SUFFICES ASSUME f.to[1] = Net(l.by)
                 PROVE  FALSE
      OBVIOUS
    <2>1. f.dst = HostArp[l.by][1].mac
      BY <1>2, <1>4 DEF Original
    <2>2. PICK g \in HostNames : f.dst = CardMac[g]
      BY <1>4, <2>1, HostTable
    <2>3. MadeOf(CardMac[g], addr[1], addr[2])
      BY <2>2 DEF RouterFilter
    <2> QED BY <1>1, <2>3, NotForTheRouter DEF Known
  <1>6. /\ Rewritten(f).src = addr[Net(h)] /\ Rewritten(f).id = f.id /\ Rewritten(f).type = "abcd"
        /\ Rewritten(f).to = f.to /\ Rewritten(f).from = f.from
    <2>1. PICK a : Rewritten(f) = [f EXCEPT !.dst = a, !.src = addr[f.to[1]]]
      BY DEF Rewritten
    <2>2. Rewritten(f) = Frame(a, addr[f.to[1]], f.type, f.to, f.from, f.id)
      BY <2>1 DEF FrameType, Frame
    <2> QED BY <1>2, <1>4, <2>2 DEF Frame
  <1>7. Rewritten(f) \in FrameType
    <2>1. CardMac[h] \in Mac /\ addr[Net(h)] \in Mac \cup Garbage
      BY <1>1, <1>4, CardMacs DEF Mac, HostNames
    <2>2. \E a \in Mac, b \in Mac \cup Garbage : Rewritten(f) = [f EXCEPT !.dst = a, !.src = b]
      <3>1. Rewritten(f) = [f EXCEPT !.dst = Rewritten(f).dst, !.src = Rewritten(f).src]
        BY DEF Rewritten, FrameType
      <3> QED BY <1>3, <1>6, <2>1, <3>1
    <2> QED BY <2>2 DEF FrameType
  <1>8. OutCard(f) \in RouterCards /\ Net(OutCard(f)) = f.to[1]
    BY <1>4, RouterCard DEF OutCard
  <1>9. ASSUME NEW k \in Cards \ {OutCard(f)}, Net(k) = Net(OutCard(f))
        PROVE  k \in Stations /\ OfItsLine(k, Rewritten(f), typed, path, failed)
    <2>1. k \in Stations
      BY <1>8, <1>9, Kinds, RouterCard DEF OutCard
    <2>2. Known(Net(h)) \/ (addr[Net(h)] = NoMac /\ path[f.id] = FALSE)
      <3> SUFFICES ASSUME path[f.id] # FALSE
                   PROVE  Known(Net(h))
        BY <1>1, <1>4
      <3>1. path[f.id] = TRUE
        <4>1. path \in Seq(BOOLEAN) /\ f.id \in DOMAIN path
          BY <1>1, <1>2 DEF TypeInv
        <4>2. path[f.id] \in BOOLEAN
          BY <4>1
        <4> QED BY <4>2, Zenon
      <3>2. Addressee(l) # {} /\ (Crosses(l) => \A i \in {1, 2} : Known(i))
        BY <1>1, <1>2, <3>1 DEF PathInv, l
      <3>3. Crosses(l)
        <4>1. PICK g \in Addressee(l) : TRUE
          BY <3>2
        <4>2. g \in HostNames /\ Iip[g] = l.to
          BY <4>1, AllCards DEF Addressee
        <4> QED BY <1>2, <1>4, <1>5, <4>1, <4>2, Nets DEF Crosses
      <3> QED BY <1>4, <3>2, <3>3
    <2>3. Forwarded(k, Rewritten(f), l, path[f.id], failed)
      BY <1>1, <1>2, <1>3, <1>4, <1>5, <1>6, <1>8, <1>9, <2>1, <2>2, Kinds DEF Forwarded, Known
    <2> QED BY <1>2, <1>6, <2>1, <2>3 DEF OfItsLine, IsFrameOf, l
  <1> QED BY <1>4, <1>5, <1>6, <1>7, <1>8, <1>9

LEMMA BlankFrame == Blank \in FrameType
  <1>1. NoMac \in Mac
    BY DEF Mac
  <1>3. <<0, 0>> \in Bytes
    <2>1. 0 \in 0..255
      OBVIOUS
    <2> QED BY <2>1 DEF Bytes
  <1>2. Blank = [dst |-> NoMac, src |-> NoMac, type |-> "0000", to |-> <<0, 0>>, from |-> <<0, 0>>, id |-> 0]
    BY DEF Blank, Frame
  <1> QED BY <1>1, <1>2, <1>3 DEF FrameType

\* receiver() of the router, second call.
LEMMA TakeKeeps ==
    ASSUME IInv, NEW c \in RouterCards, Take(c), UNCHANGED <<stvars, wild, path>>
    PROVE  IInv'
  <1> DEFINE f == buff[NoOf(c)]
             out == Rewritten(f)
  <1>1. /\ TypeInv /\ RingInv /\ BuffInv /\ ForwardInv /\ ShownInv
        /\ HeardInv /\ AddrInv /\ DestInv /\ PathInv /\ HandleInv
    BY DEF IInv
  <1>2. /\ c \in Cards /\ c \notin Stations /\ NoOf(c) \in {1, 2}
        /\ \A d \in RouterCards : d # c => NoOf(d) # NoOf(c)
        /\ ring \in [Cards -> Seq(FrameType)] /\ buff \in [1..2 -> FrameType] /\ nest \in Nests
        /\ failed \subseteq Machines
    BY <1>1, AllCards, Kinds, RouterCard DEF TypeInv
  <1>3. /\ Given(c, nest) /\ nest # <<>> /\ nest[Len(nest)] = c
        /\ buff' = [buff EXCEPT ![NoOf(c)] = Blank]
        /\ UNCHANGED <<mode, pc, own, dest, shown, typed, addr, wild, path>>
        /\ failed \subseteq failed'
        /\ \/ ring' = ring /\ failed' = failed /\ rpc' = rpc /\ nest' = SubSeq(nest, 1, Len(nest) - 1)
           \/ /\ RouterFilter(f) /\ Forwards(f) /\ Send(OutCard(f), out)
              /\ failed' = failed /\ rpc' = rpc /\ nest' = SubSeq(nest, 1, Len(nest) - 1)
           \/ ring' = ring /\ failed' = failed \cup {"router"} /\ rpc' = Ended /\ nest' = <<>>
    BY <1>2, NestLeave DEF Take, Buffer, Send, Refuse, stvars, drvvars
  <1>4. /\ f \in FrameType /\ OfItsLine(c, f, typed, path, failed) /\ f.id \notin Ids(ring[c])
        /\ Unheard(f.id, c) /\ f.id \in DOMAIN typed
    BY <1>1, <1>2, <1>3 DEF BuffInv, ForwardInv, OfItsLine
  <1>5. nest' \in Nests /\ \A d : Given(d, nest') => Given(d, nest) /\ d # c
    <2>1. <<>> \in Nests /\ \A d : ~Given(d, <<>>)
      BY DEF Nests, Given
    <2>2. nest' = <<>> \/ nest' = SubSeq(nest, 1, Len(nest) - 1)
      BY <1>3
    <2>3. nest \in Nests /\ nest # <<>> /\ nest[Len(nest)] = c
      BY <1>2, <1>3
    <2>4. CASE nest' = <<>>
      BY <2>1, <2>4
    <2>5. CASE nest' = SubSeq(nest, 1, Len(nest) - 1)
      BY <2>3, <2>5, NestLeave
    <2> QED BY <2>2, <2>4, <2>5
  <1>6. /\ buff' \in [1..2 -> FrameType]
        /\ \A d \in RouterCards : d # c => buff'[NoOf(d)] = buff[NoOf(d)]
    BY <1>2, <1>3, BlankFrame
  <1>7. \A d \in Cards : ring[d] \in Seq(FrameType) /\ Kept(d, ring[d], typed, path, failed)
    BY <1>1, OldIds
  <1> HIDE DEF f, out
  <1>8. \A d \in Cards :
            \/ ring'[d] = ring[d]
            \/ /\ d \in Stations /\ Net(d) # Net(c) /\ mode[d] # "none"
               /\ ring'[d] = Append(ring[d], out) /\ ring'[d] \in Seq(FrameType)
               /\ Kept(d, ring'[d], typed, path, failed)
               /\ \A n : n \in Ids(ring'[d]) <=> n \in Ids(ring[d]) \/ n = f.id
    <2> SUFFICES ASSUME RouterFilter(f), Forwards(f), Send(OutCard(f), out), NEW d \in Cards,
                        ring'[d] # ring[d]
                 PROVE  /\ d \in Stations /\ Net(d) # Net(c) /\ mode[d] # "none"
                        /\ ring'[d] = Append(ring[d], out) /\ ring'[d] \in Seq(FrameType)
                        /\ Kept(d, ring'[d], typed, path, failed)
                        /\ \A n : n \in Ids(ring'[d]) <=> n \in Ids(ring[d]) \/ n = f.id
      BY <1>3
    <2>1. /\ ring'[d] = Append(ring[d], out) /\ d # OutCard(f) /\ Net(d) = Net(OutCard(f))
          /\ mode[d] # "none"
      BY DEF Send, Admits
    <2>2. /\ out \in FrameType /\ out.id = f.id /\ Net(d) # Net(c) /\ d \in Stations
          /\ OfItsLine(d, out, typed, path, failed)
      BY <1>4, <2>1, WhatIsForwarded DEF out
    <2>3. f.id \notin Ids(ring[d])
      BY <1>4, <2>2 DEF Unheard
    <2>4. Kept(d, ring'[d], typed, path, failed)
      BY <1>7, <2>1, <2>2, <2>3, Joins
    <2>5. Ids(ring'[d]) = Ids(ring[d]) \cup {f.id}
      BY <1>7, <2>1, <2>2, JoinsIds
    <2>6. ring'[d] \in Seq(FrameType)
      BY <1>7, <2>1, <2>2, AppendProperties
    <2> QED BY <2>1, <2>2, <2>4, <2>5, <2>6
  <1>9. ring' \in [Cards -> Seq(FrameType)]
    <2>1. \A d \in Cards : ring'[d] \in Seq(FrameType)
      BY <1>7, <1>8
    <2>2. ring' = ring \/ ring' = [d \in Cards |-> ring'[d]]
      BY <1>3 DEF Send
    <2> QED BY <1>2, <2>1, <2>2
  <1>10. TypeInv'
    <2>1. failed' \subseteq Machines /\ wild' \subseteq failed'
      BY <1>1, <1>2, <1>3 DEF TypeInv, Machines
    <2>2. rpc' \in ({"driver", "access", "mode", "release"} \X {1, 2}) \cup {Ended}
      BY <1>1, <1>3 DEF TypeInv
    <2> QED BY <1>1, <1>3, <1>5, <1>6, <1>9, <2>1, <2>2 DEF TypeInv
  <1>11. RingInv'
    <2>1. \A d \in Cards : Kept(d, ring'[d], typed, path, failed')
      BY <1>3, <1>7, <1>8, KeptStays
    <2>2. \A d \in Cards : mode[d] = "none" => ring'[d] = <<>>
      BY <1>1, <1>8 DEF RingInv
    <2> QED BY <1>3, <2>1, <2>2 DEF RingInv, Kept
  <1>12. \A d \in RouterCards : ring'[d] = ring[d]
    BY <1>8, Kinds
  <1>20. shown' = shown /\ typed' = typed /\ path' = path
    BY <1>3
  <1>13. BuffInv'
    <2>1. \A d \in RouterCards : Given(d, nest) => OfItsLine(d, buff[NoOf(d)], typed, path, failed')
      BY <1>1, <1>3, FrameStays DEF BuffInv
    <2> QED BY <1>1, <1>5, <1>6, <1>12, <1>20, <2>1 DEF BuffInv
  <1>14. ForwardInv'
    <2>1. \A d \in RouterCards : \A n : n # f.id /\ Unheard(n, d) => Unheard(n, d)'
      BY <1>8, <1>20, AllCards DEF Unheard
    <2>2. \A d \in RouterCards : d # c => Net(d) # Net(c)
      BY RouterCard
    <2>3. \A d \in RouterCards : \A n : d # c /\ Unheard(n, d) => Unheard(n, d)'
      <3> SUFFICES ASSUME NEW d \in RouterCards, NEW n, d # c, Unheard(n, d),
                          NEW m \in Stations, Net(m) # Net(d)
                   PROVE  n \notin Ids(ring'[m]) /\ shown[m][n] = 0
        BY <1>20 DEF Unheard
      <3>1. Net(m) = Net(c)
        BY <2>2, AllCards, Nets
      <3> QED BY <1>8, <3>1, AllCards DEF Unheard
    <2>4. ASSUME NEW d \in RouterCards, NEW n, n \in Ids(ring'[d])
          PROVE  Unheard(n, d)'
      <3>1. n \in Ids(ring[d]) /\ Unheard(n, d)
        BY <1>1, <1>12, <2>4 DEF ForwardInv
      <3>2. d = c => n # f.id
        BY <1>4, <3>1
      <3> QED BY <2>1, <2>3, <3>1, <3>2
    <2>5. ASSUME NEW d \in RouterCards, Given(d, nest'), NEW n, n = buff'[NoOf(d)].id
          PROVE  Unheard(n, d)'
      <3>1. d # c /\ Given(d, nest) /\ buff'[NoOf(d)] = buff[NoOf(d)]
        BY <1>5, <1>6, <2>5
      <3>2. Unheard(n, d)
        BY <1>1, <2>5, <3>1 DEF ForwardInv
      <3> QED BY <2>3, <3>1, <3>2
    <2> QED BY <2>4, <2>5 DEF ForwardInv, Unheard
  <1>15. ShownInv'
    <2>1. ASSUME NEW k \in Stations, NEW n \in 1..MaxLines,
                 shown[k][n] = 1, n \notin Ids(ring[k])
          PROVE  n \notin Ids(ring'[k])
      <3>1. CASE ring'[k] = ring[k]
        BY <2>1, <3>1
      <3>2. CASE ring'[k] # ring[k]
        <4>1. Net(k) # Net(c) /\ (n \in Ids(ring'[k]) => n = f.id)
          BY <1>8, <2>1, <3>2, AllCards
        <4>2. n # f.id
          BY <1>4, <2>1, <4>1 DEF Unheard
        <4> QED BY <4>1, <4>2
      <3> QED BY <3>1, <3>2
    <2> QED BY <1>1, <1>3, <2>1 DEF ShownInv
  <1>16. HeardInv'
    <2>1. \A k \in Talkers : \A n : n \in Ids(ring[k]) => n \in Ids(ring'[k])
      BY <1>8, AllCards
    <2> QED BY <1>1, <1>3, <2>1 DEF HeardInv
  <1>21. \A i \in {1, 2} : Known(i) => Known(i)'
    BY <1>3 DEF Known
  <1>17. AddrInv'
    BY <1>1, <1>3, <1>21 DEF AddrInv, Ended
  <1>18. DestInv' /\ PathInv'
    BY <1>1, <1>3, <1>21 DEF DestInv, PathInv
  <1>19. HandleInv'
    BY <1>1, <1>3 DEF HandleInv, Ended
  <1> QED BY <1>10, <1>11, <1>13, <1>14, <1>15, <1>16, <1>17, <1>18, <1>19 DEF IInv

--------------------------------------------------------------------------------
LEMMA InitIInv ==
    ASSUME Init PROVE IInv
  <1> USE DEF Init, DrvInit, StInit, RtInit
  <1>1. NoMac \in Mac
    BY DEF Mac
  <1>2. TypeInv
    <2>1. ring \in [Cards -> Seq(FrameType)] /\ typed \in Seq(LineType) /\ path \in Seq(BOOLEAN)
      OBVIOUS
    <2>2. mode \in [Cards -> {"none", "direct", "all"}]
      OBVIOUS
    <2>3. /\ pc \in [Stations -> {"off", "access", "mode", "loop", "ended"}] /\ dest \in [Stations -> Mac]
          /\ shown \in [Stations -> [1..MaxLines -> 0..1]]
      BY <1>1
    <2>6. own \in [Stations -> Mac \cup Garbage]
      BY <1>1, Kinds DEF Mac
    <2>4. addr \in [1..2 -> Mac \cup Garbage] /\ buff \in [1..2 -> FrameType]
      BY <1>1, BlankFrame
    <2>5. nest \in Nests /\ Len(typed) = 0 /\ Len(path) = 0 /\ MaxLines \in Nat
      BY LinesAssumption DEF Nests
    <2> QED BY <2>1, <2>2, <2>3, <2>4, <2>5, <2>6 DEF TypeInv
  <1>3. \A c : ~Given(c, nest)
    BY DEF Given
  <1>4. RingInv /\ BuffInv /\ ForwardInv
    BY <1>3, NoFrames, AllCards DEF RingInv, BuffInv, ForwardInv, NoneTwice
  <1>5. ShownInv /\ HeardInv /\ PathInv
    BY DEF ShownInv, HeardInv, PathInv
  <1>6. AddrInv /\ DestInv
    BY AllCards DEF AddrInv, DestInv, LocalMac
  <1>7. HandleInv
    <2>1. \A m \in Stations : /\ m \notin Late => pc[m] \in {"loop", "ended"}
                              /\ pc[m] = "loop" => mode[m] = "all"
                              /\ pc[m] # "ended"
      BY AllCards
    <2>2. rpc # <<"release", 2>> /\ rpc # Ended /\ \A i \in {1, 2} : rpc # <<"mode", i>>
      BY DEF Ended
    <2> QED BY <2>1, <2>2 DEF HandleInv
  <1> QED BY <1>2, <1>4, <1>5, <1>6, <1>7 DEF IInv

LEMMA NextIInv ==
    ASSUME IInv, [Next]_vars PROVE IInv'
  <1>1. ASSUME NEW m \in Stations, StationMain(m)
        PROVE  IInv'
    BY <1>1, TypeLineKeeps, TypeTalkKeeps, StationKeeps DEF StationMain, MainStep
  <1>2. ASSUME NEW m \in Stations, StationReceives(m)
        PROVE  IInv'
    BY <1>2, ReceiveKeeps DEF StationReceives
  <1>3. CASE RouterRuns
    BY <1>3, RouterKeeps DEF RouterRuns, RouterMain
  <1>4. CASE RouterReceives
    BY <1>4, GiveKeeps, TakeKeeps DEF RouterReceives
  <1>5. ASSUME NEW c \in Cards, CallsNobody(c)
        PROVE  IInv'
    BY <1>5, CallsNobodyKeeps
  <1>6. CASE UNCHANGED vars
    <2>1. UNCHANGED <<ring, mode, failed, pc, own, dest, shown, typed, rpc, addr, buff, nest, wild, path>>
      BY <1>6 DEF vars, drvvars, stvars, rtvars
    <2>3. \A i \in {1, 2} : Known(i) => Known(i)'
      BY <2>1 DEF Known
    <2>2. TypeInv' /\ AddrInv' /\ HandleInv' /\ ring' \in [Cards -> Seq(FrameType)]
      BY <2>1, <2>3 DEF IInv, TypeInv, AddrInv, Known, HandleInv
    <2> QED BY <2>1, <2>2, <2>3, QuietKeeps
  <1> QED BY <1>1, <1>2, <1>3, <1>4, <1>5, <1>6 DEF Next

\* The inductive invariant.
THEOREM LabInvariant == Spec => []IInv
  BY InitIInv, NextIInv, PTL DEF Spec

--------------------------------------------------------------------------------
\* Every variable has a value of its kind, and no frame is without its line.
THEOREM LabTypeCorrect == Spec => []TypeOK
  <1>1. ASSUME IInv PROVE TypeOK
    <2>1. TypeInv /\ RingInv /\ BuffInv
      BY <1>1 DEF IInv
    <2>2. \A c \in Cards : \A n \in DOMAIN ring[c] : ring[c][n].id \in DOMAIN typed
      BY <2>1, OldIds DEF Ids
    <2>3. shown \in [Stations -> [1..MaxLines -> 0..MaxLines]]
      <3>1. shown \in [Stations -> [1..MaxLines -> 0..1]] /\ MaxLines \in Nat
        BY <2>1, LinesAssumption DEF TypeInv
      <3>2. \A m \in Stations, n \in 1..MaxLines : shown[m][n] \in 0..1 /\ 0..1 \subseteq 0..MaxLines
        BY <3>1
      <3>3. \A m \in Stations : shown[m] \in [1..MaxLines -> 0..MaxLines]
        BY <3>1, <3>2
      <3> QED BY <3>1, <3>3
    <2>4. wild \subseteq Machines
      BY <2>1 DEF TypeInv
    <2> QED BY <2>1, <2>2, <2>3, <2>4 DEF TypeOK, TypeInv, Nests
  <1> QED BY <1>1, LabInvariant, PTL

\* A line to another host is shown by that host only, and once, whatever digits
\* its user claims for the source and whoever listens.
THEOREM AddresseeOnly == Spec => []OnlyAddresseeShows
  <1>1. ASSUME IInv PROVE OnlyAddresseeShows
    <2> SUFFICES ASSUME NEW n \in DOMAIN typed, NEW h \in Hosts, Addressee(typed[n]) # {}
                 PROVE  shown[h][n] <= IF h \in Addressee(typed[n]) THEN 1 ELSE 0
      BY DEF OnlyAddresseeShows
    <2>1. h \in Stations /\ n \in 1..MaxLines
      BY <1>1, OldIds, AllCards DEF IInv
    <2>2. shown[h][n] \in 0..1
      <3>1. shown \in [Stations -> [1..MaxLines -> 0..1]]
        BY <1>1 DEF IInv, TypeInv
      <3>2. shown[h] \in [1..MaxLines -> 0..1]
        BY <2>1, <3>1
      <3> QED BY <2>1, <3>2
    <2>3. shown[h][n] = 1 => h \in Addressee(typed[n])
      BY <1>1, <2>1 DEF IInv, ShownInv
    <2> QED BY <2>2, <2>3
  <1> QED BY <1>1, LabInvariant, PTL

\* A frame of a host is on the network of its author or on the one it names, and
\* goes to a card there, or to none.
THEOREM OnItsWay == Spec => []StaysOnItsWay
  <1>1. ASSUME IInv PROVE StaysOnItsWay
    <2> SUFFICES ASSUME NEW c \in Cards, NEW n \in DOMAIN ring[c], ring[c][n].type = "abcd"
                 PROVE  /\ Net(c) \in {Net(typed[ring[c][n].id].by), typed[ring[c][n].id].to[1]}
                        /\ LocalMac(ring[c][n].dst, Net(c))
      BY DEF StaysOnItsWay, LocalMac
    <2> DEFINE f == ring[c][n]
               l == typed[f.id]
    <2>1. IsFrameOf(c, f, l, path[f.id], failed)
      BY <1>1 DEF IInv, RingInv, OfItsLine
    <2>2. Original(c, f, l, failed) \/ Forwarded(c, f, l, path[f.id], failed)
      BY <2>1 DEF IsFrameOf
    <2> HIDE DEF f, l
    <2>3. Original(c, f, l, failed) => Net(c) = Net(l.by) /\ LocalMac(f.dst, Net(c))
      BY DEF Original
    <2>4. Forwarded(c, f, l, path[f.id], failed) => Net(c) = l.to[1] /\ LocalMac(f.dst, Net(c))
      BY Kinds, Iips DEF Forwarded, LocalMac, HostNames
    <2> QED BY <2>2, <2>3, <2>4 DEF f, l
  <1> QED BY <1>1, LabInvariant, PTL

\* A program of DosTalk shows no line twice, and every audible line of a host of
\* its network whose driver has refused nothing.
THEOREM HeardAndOnce == Spec => []HeardOnce
  <1>1. ASSUME IInv PROVE HeardOnce
    <2> SUFFICES ASSUME NEW m \in Talkers, NEW n \in DOMAIN typed
                 PROVE  /\ shown[m][n] <= 1
                        /\ (m \notin Late /\ pc[m] = "loop" /\ ring[m] = <<>>
                              /\ typed[n].by \in Hosts \ failed /\ Audible(typed[n]))
                            => shown[m][n] = 1
      BY DEF HeardOnce, Audible
    <2>1. m \in Stations /\ n \in 1..MaxLines
      BY <1>1, OldIds, AllCards DEF IInv
    <2>2. shown[m][n] \in 0..1
      <3>1. shown \in [Stations -> [1..MaxLines -> 0..1]]
        BY <1>1 DEF IInv, TypeInv
      <3>2. shown[m] \in [1..MaxLines -> 0..1]
        BY <2>1, <3>1
      <3> QED BY <2>1, <3>2
    <2>3. ring[m] = <<>> => n \notin Ids(ring[m])
      BY NoFrames
    <2> QED BY <1>1, <2>2, <2>3 DEF IInv, HeardInv
  <1> QED BY <1>1, LabInvariant, PTL

\* A frame of a host bears the address of another card of the network it is on, or
\* none when the router has forwarded a line whose way was not open, or what malloc()
\* left in a program that get_mac() gave no address.
THEOREM SourceOfThisNet == Spec => []SourceIsOnThisNet
  <1>1. ASSUME IInv PROVE SourceIsOnThisNet
    <2> SUFFICES ASSUME NEW c \in Cards, NEW n \in DOMAIN ring[c], ring[c][n].type = "abcd"
                 PROVE  \/ \E k \in Cards \ {c} : /\ Net(k) = Net(c) /\ k \notin Talkers
                                                  /\ ring[c][n].src = CardMac[k]
                        \/ ring[c][n].src = NoMac /\ ~path[ring[c][n].id] /\ c \notin RouterCards
                        \/ ring[c][n].src \in Garbage /\ Sender(ring[c][n], c) \in failed
      BY DEF SourceIsOnThisNet
    <2> DEFINE f == ring[c][n]
               l == typed[f.id]
    <2>1. IsFrameOf(c, f, l, path[f.id], failed)
      BY <1>1 DEF IInv, RingInv, OfItsLine
    <2>2. l.by \in Hosts /\ (Original(c, f, l, failed) \/ Forwarded(c, f, l, path[f.id], failed))
      BY <2>1 DEF IsFrameOf
    <2>5. Sender(f, c) = IF Net(c) = Net(l.by) THEN l.by ELSE "router"
      BY DEF Sender
    <2> HIDE DEF f, l
    <2>3. CASE Original(c, f, l, failed)
      <3>1. CASE f.src = CardMac[l.by]
        <4>1. l.by \in Cards \ {c} /\ Net(l.by) = Net(c) /\ l.by \notin Talkers
          BY <2>2, <2>3, AllCards DEF Original
        <4> QED BY <3>1, <4>1 DEF f
      <3>2. CASE f.src \in Garbage /\ l.by \in failed
        <4>1. Sender(f, c) = l.by
          BY <2>3, <2>5 DEF Original
        <4> QED BY <3>2, <4>1 DEF f
      <3> QED BY <2>3, <3>1, <3>2 DEF Original
    <2>4. CASE Forwarded(c, f, l, path[f.id], failed)
      <3>1. c \notin RouterCards /\ Sender(f, c) = "router"
        BY <2>4, <2>5 DEF Forwarded
      <3>2. CASE f.src = RouterMac(Net(c))
        <4>1. CardNo(Net(c)) \in RouterCards /\ Net(CardNo(Net(c))) = Net(c)
          BY Nets, RouterCard
        <4> QED BY <3>1, <3>2, <4>1, Kinds, AllCards DEF RouterMac, f
      <3>3. CASE f.src = NoMac /\ path[f.id] = FALSE
        BY <3>1, <3>3 DEF f
      <3>4. CASE f.src \in Garbage /\ "router" \in failed
        BY <3>1, <3>4 DEF f
      <3> QED BY <2>4, <3>2, <3>3, <3>4 DEF Forwarded
    <2> QED BY <2>2, <2>3, <2>4
  <1> QED BY <1>1, LabInvariant, PTL

\* A driver calls a program that is gone only after it has refused one of its calls.
THEOREM OnlyAfterRefusal == Spec => []GoneOnlyAfterRefusal
  <1>1. ASSUME IInv PROVE GoneOnlyAfterRefusal
    BY <1>1 DEF IInv, TypeInv, GoneOnlyAfterRefusal
  <1> QED BY <1>1, LabInvariant, PTL
================================================================================
