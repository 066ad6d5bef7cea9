---------------------------------- MODULE Lab ----------------------------------
(***************************************************************************)
(* The laboratory of Network_layer/README.md: the hosts of two networks,   *)
(* the router between them, and programs of DosTalk on the first network.  *)
(***************************************************************************)
EXTENDS Stations, Router

VARIABLES
    wild,       \* machines whose driver has called a program that is gone
    path        \* history: for each line, was its way open when it was sent?

vars == <<drvvars, stvars, rtvars, wild, path>>

Mac == {CardMac[c] : c \in DOMAIN CardMac} \cup {NoMac}

\* Every variable has a value of its kind.
TypeOK ==
    /\ \A c \in Cards : \A n \in DOMAIN ring[c] : ring[c][n].id \in DOMAIN typed
    /\ mode \in [Cards -> {"none", "direct", "all"}]
    /\ pc \in [Stations -> {"off", "access", "mode", "loop", "ended"}]
    /\ own \in [Stations -> Mac \cup Garbage] /\ dest \in [Stations -> Mac]
    /\ addr \in [1..2 -> Mac \cup Garbage]
    /\ shown \in [Stations -> [1..MaxLines -> 0..MaxLines]]
    /\ nest \in Seq(RouterCards) /\ \A j, k \in DOMAIN nest : nest[j] = nest[k] => j = k
    /\ wild \subseteq Machines /\ failed \subseteq Machines
    /\ path \in Seq(BOOLEAN) /\ Len(path) = Len(typed)

Init == DrvInit /\ StInit /\ RtInit /\ wild = {} /\ path = <<>>

--------------------------------------------------------------------------------
\* The host a line names, if it is another one than its author.
Addressee(l) == {h \in Hosts : Iip[h] = l.to /\ l.by \in Hosts /\ l.by # h}

Crosses(l) == \E h \in Addressee(l) : Net(h) # Net(l.by)

\* The addressee listens under its card's address and, if the line has to cross,
\* so does the router on the author's network.
WayOpen(l) ==
    /\ \E h \in Addressee(l) : pc[h] = "loop" /\ own[h] = CardMac[h]
    /\ Crosses(l) =>
        rpc = <<"release", 1>> /\ addr[Net(l.by)] = CardMac[CardNo(Net(l.by))]

\* A line is recorded with the state of its way, unless send_packet() fails.
RecordPath ==
    path' = IF typed' = typed THEN path
            ELSE Append(path, failed' = failed /\ WayOpen(typed'[Len(typed')]))

StationMain(m) == MainStep(m) /\ RecordPath /\ UNCHANGED <<rtvars, wild>>
StationReceives(m) == Receive(m) /\ UNCHANGED <<rtvars, wild, path>>
RouterRuns == RouterMain /\ UNCHANGED <<stvars, wild, path>>
RouterReceives == (\E c \in RouterCards : Give(c) \/ Take(c)) /\ UNCHANGED <<stvars, wild, path>>

\* The program of card c has ended and its handle is still open: the driver
\* calls whatever is now at the address of receiver().
Owner(c) == IF c \in RouterCards THEN "router" ELSE c
Gone(m) == IF m = "router" THEN rpc = Ended ELSE pc[m] = "ended"

CallsNobody(c) ==
    /\ Gone(Owner(c)) /\ Fetch(c)
    /\ wild' = wild \cup {Owner(c)}
    /\ UNCHANGED <<stvars, rtvars, path>>

Next ==
    \/ \E m \in Stations : StationMain(m) \/ StationReceives(m)
    \/ RouterRuns \/ RouterReceives
    \/ \E c \in Cards : CallsNobody(c)

Spec == Init /\ [][Next]_vars

\* The drivers deliver; nobody has to type, start or stop anything.
FairSpec ==
    /\ Spec
    /\ \A m \in Stations : WF_vars(StationReceives(m))
    /\ WF_vars(RouterReceives)

--------------------------------------------------------------------------------
\* Whatever digits a user claims for the source, a line to another host is shown
\* by that host only, and once (1_1.C:309, 1_1.C:33, ROUTING.H:68).
OnlyAddresseeShows ==
    \A n \in DOMAIN typed, h \in Hosts :
        Addressee(typed[n]) # {} => shown[h][n] <= IF h \in Addressee(typed[n]) THEN 1 ELSE 0

\* A frame is on the network of its author or on the one it names, and goes to a
\* card of the network it is on, or to none when no line before named a network:
\* the rows of put_dest() and of routing() and the card that routing() sends by
\* agree (1_1.C:309, ROUTING.H:88-123).
StaysOnItsWay ==
    \A c \in Cards : \A n \in {n \in DOMAIN ring[c] : ring[c][n].type = "abcd"} :
        LET f == ring[c][n] l == typed[f.id] IN
        /\ Net(c) \in {Net(l.by), l.to[1]}
        /\ f.dst # NoMac => \E k \in DOMAIN Iip : Iip[k][1] = Net(c) /\ f.dst = CardMac[k]

\* Nothing is echoed: a program of DosTalk, which shows every frame of its network
\* (dostalk.C:24), shows no line twice, and every line of a host of its network
\* that it has heard since it came up, but for those dostalk.C cuts short at a
\* digit 0.
HeardOnce ==
    \A m \in Talkers, n \in DOMAIN typed :
        LET l == typed[n] IN
        /\ shown[m][n] <= 1
        /\ (m \notin Late /\ pc[m] = "loop" /\ ring[m] = <<>>
              /\ l.by \in Hosts \ failed /\ Net(l.by) = 1
              /\ 0 \notin {l.to[1], l.to[2], l.from[1], l.from[2]})
            => shown[m][n] = 1

\* Who has put frame f on the wire of card c.
Sender(f, c) == IF Net(c) = Net(typed[f.id].by) THEN typed[f.id].by ELSE "router"

\* A frame bears the address of a card of the network it is on; the router
\* forwards with no address at all only what it got before it read MY_ADDR2
\* (ROUTER.C:24), that is no line whose way was open, and only a program that was
\* refused its address by get_mac() sends under uninitialised bytes (MY_NET.H:128).
SourceIsOnThisNet ==
    \A c \in Cards : \A n \in DOMAIN ring[c] :
        LET f == ring[c][n] IN
        f.type = "abcd" =>
            \/ \E k \in Cards \ {c} : Net(k) = Net(c) /\ k \notin Talkers /\ f.src = CardMac[k]
            \/ f.src = NoMac /\ ~path[f.id] /\ c \notin RouterCards
            \/ f.src \in Garbage /\ Sender(f, c) \in failed

\* A driver calls a program that is gone only after it has refused a call of it:
\* exit(1) does not release the handle (MY_NET.H:211, 1_1.C:224), every other
\* end does.
GoneOnlyAfterRefusal == wild \subseteq failed

\* A line that is sent with its source's network in it, while its way is open, is
\* shown if the way stays open, also when both cards of the router receive at
\* once (MY_NET.H:86).
SentIsShown ==
    \A n \in 1..MaxLines :
        (n \in DOMAIN path /\ path[n] /\ (Crosses(typed[n]) => typed[n].from[1] # typed[n].to[1]))
        ~> (n \in DOMAIN typed /\
            (~WayOpen(typed[n]) \/ \E h \in Addressee(typed[n]) : shown[h][n] = 1))
================================================================================
