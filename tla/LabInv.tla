--------------------------------- MODULE LabInv --------------------------------
(***************************************************************************)
(* The inductive invariant of Lab behind its safety properties, for any    *)
(* choice of stations, whatever is typed and whatever the drivers refuse.  *)
(***************************************************************************)
EXTENDS Lab

RouterMac(i) == CardMac[CardNo(i)]

\* Every variable has a value of its kind, the frames included.
FrameType == [dst : Mac, src : Mac \cup Garbage, type : {"abcd", "0101", "0000"},
              to : Bytes, from : Bytes, id : Nat]

LineType == [by : Stations, to : Bytes, from : Bytes]

Nests == {s \in Seq(RouterCards) : \A j, k \in DOMAIN s : s[j] = s[k] => j = k}

TypeInv ==
    /\ ring \in [Cards -> Seq(FrameType)]
    /\ mode \in [Cards -> {"none", "direct", "all"}]
    /\ failed \subseteq Machines /\ wild \subseteq failed
    /\ pc \in [Stations -> {"off", "access", "mode", "loop", "ended"}]
    /\ own \in [Stations -> Mac \cup Garbage] /\ dest \in [Stations -> Mac]
    /\ shown \in [Stations -> [1..MaxLines -> 0..1]]
    /\ typed \in Seq(LineType) /\ Len(typed) <= MaxLines
    /\ path \in Seq(BOOLEAN) /\ Len(path) = Len(typed)
    /\ rpc \in ({"driver", "access", "mode", "release"} \X {1, 2}) \cup {Ended}
    /\ addr \in [1..2 -> Mac \cup Garbage] /\ buff \in [1..2 -> FrameType]
    /\ nest \in Nests

\* An address a frame may have on network i: of a card there, or none.
LocalMac(mac, i) == mac # NoMac => \E k \in DOMAIN Iip : Iip[k][1] = i /\ mac = CardMac[k]

\* The frame of line l as its author sends it: local lines go to the other host,
\* lines for the other network to the router.  In bad are the machines whose
\* driver has refused a call.
Original(c, f, l, bad) ==
    /\ c # l.by /\ Net(c) = Net(l.by) /\ LocalMac(f.dst, Net(c))
    /\ f.src = CardMac[l.by] \/ (f.src \in Garbage /\ l.by \in bad)
    /\ l.to[1] = Net(l.by) /\ l.to[2] # 2 => f.dst = HostArp[l.by][1].mac
    /\ l.to[1] = 3 - Net(l.by) => f.dst = HostArp[l.by][2].mac

\* ... and as the router forwards it; the way of the line was open or not.
Forwarded(c, f, l, open, bad) ==
    /\ c \notin RouterCards
    /\ Net(c) = l.to[1] /\ Net(c) # Net(l.by)
    /\ \E h \in DOMAIN HostArp : Iip[h] = l.to /\ f.dst = CardMac[h]
    /\ \/ f.src = RouterMac(Net(c))
       \/ f.src = NoMac /\ open = FALSE
       \/ f.src \in Garbage /\ "router" \in bad

\* What a frame on the wire of card c is.
IsFrameOf(c, f, l, open, bad) ==
    \/ f.type = "0101" /\ l.by \in Talkers /\ c # l.by /\ Net(c) = 1
    \/ /\ f.type = "abcd" /\ l.by \in Hosts /\ f.to = l.to /\ f.from = l.from
       /\ Original(c, f, l, bad) \/ Forwarded(c, f, l, open, bad)

OfItsLine(c, f, lines, ways, bad) ==
    f.id \in DOMAIN lines /\ IsFrameOf(c, f, lines[f.id], ways[f.id], bad)

Ids(frames) == {frames[k].id : k \in DOMAIN frames}

NoneTwice(frames) == \A j, k \in DOMAIN frames : frames[j].id = frames[k].id => j = k

RingInv ==
    \A c \in Cards :
        /\ mode[c] = "none" => ring[c] = <<>>
        /\ \A k \in DOMAIN ring[c] : OfItsLine(c, ring[c][k], typed, path, failed)
        /\ NoneTwice(ring[c])

\* Card c of the router is between the two calls of its receiver.
Given(c, cards) == \E k \in DOMAIN cards : cards[k] = c

BuffInv ==
    \A c \in RouterCards :
        Given(c, nest) =>
            /\ OfItsLine(c, buff[NoOf(c)], typed, path, failed)
            /\ buff[NoOf(c)].id \notin Ids(ring[c])

\* Beyond the router nobody has heard of a line that it has not finished with.
Unheard(n, c) ==
    \A m \in Stations : Net(m) # Net(c) => n \notin Ids(ring[m]) /\ shown[m][n] = 0

ForwardInv ==
    \A c \in RouterCards :
        /\ \A n \in Ids(ring[c]) : Unheard(n, c)
        /\ Given(c, nest) => Unheard(buff[NoOf(c)].id, c)

\* What has been shown is a line, is not shown again, and by its addressee only.
ShownInv ==
    \A m \in Stations, n \in 1..MaxLines :
        shown[m][n] = 1 =>
            /\ n \in DOMAIN typed /\ n \notin Ids(ring[m])
            /\ m \in Hosts => Addressee(typed[n]) \subseteq {m}

\* A line of a host that a program of DosTalk has to show.
Audible(l) == Net(l.by) = 1 /\ 0 \notin {l.to[1], l.to[2], l.from[1], l.from[2]}

HeardInv ==
    \A m \in Talkers \ Late, n \in DOMAIN typed :
        pc[m] = "loop" /\ typed[n].by \in Hosts \ failed /\ Audible(typed[n])
        => n \in Ids(ring[m]) \/ shown[m][n] = 1

\* What get_mac() has read: the address of the card, or uninitialised bytes.
Known(i) == addr[i] = RouterMac(i) \/ (addr[i] \in Garbage /\ "router" \in failed)

\* The addresses, and how far main() of the router and of the hosts is.
AddrInv ==
    /\ \A i \in {1, 2} : addr[i] = NoMac \/ Known(i)
    /\ rpc[1] = "release" => \A i \in {1, 2} : Known(i)
    /\ \A i \in {1, 2} : rpc = <<"access", i>> => Known(i)
    /\ rpc = <<"mode", 2>> => Known(2)
    /\ rpc[1] # "driver" \/ rpc[2] = 2 => rpc = Ended \/ Known(1)
    /\ \A m \in Stations :
        \/ own[m] = CardMac[m]
        \/ own[m] \in Garbage /\ m \in failed
        \/ own[m] = NoMac /\ pc[m] \in {"off", "ended"}

\* A host's next frame goes to a card of its network, or to none.
DestInv == \A h \in Hosts : LocalMac(dest[h], Net(h))

\* A line whose way was open has an addressee, and the router knew its addresses
\* by then if it had to forward it.
PathInv ==
    \A n \in DOMAIN path : path[n] = TRUE =>
        /\ Addressee(typed[n]) # {}
        /\ Crosses(typed[n]) => \A i \in {1, 2} : Known(i)

\* A handle that is open when its program is gone is open because of a refusal.
HandleInv ==
    /\ \A m \in Stations :
        /\ m \notin Late => pc[m] \in {"loop", "ended"}
        /\ pc[m] = "loop" => mode[m] = "all"
        /\ pc[m] = "ended" /\ mode[m] # "none" => m \in failed
    /\ rpc = <<"release", 2>> => mode["1.2"] = "none"
    /\ \A i \in {1, 2} : rpc = <<"mode", i>> /\ mode[CardNo(i)] = "none" => "router" \in failed
    /\ rpc = Ended /\ (\E c \in RouterCards : mode[c] # "none") => "router" \in failed

IInv ==
    /\ TypeInv
    /\ RingInv /\ BuffInv /\ ForwardInv /\ ShownInv
    /\ HeardInv /\ AddrInv /\ DestInv /\ PathInv /\ HandleInv
================================================================================
