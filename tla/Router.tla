-------------------------------- MODULE Router ---------------------------------
(***************************************************************************)
(* ROUTER.C, MY_NET.H and ROUTING.H: one program with two cards.  main()   *)
(* opens the first, then the second, and waits for a key; receiver() and   *)
(* receiver2() do everything else.  Each is called twice per frame, for a  *)
(* buffer and when it is filled; the interrupt of one card may come        *)
(* between the two calls of the other, and is then completed first.        *)
(***************************************************************************)
EXTENDS PacketDriver

VARIABLES
    rpc,        \* where main() is
    addr,       \* MY_ADDR1 and MY_ADDR2
    buff,       \* the frame in BUFF and in BUFF2
    nest        \* the cards between the two calls, the last interrupted nobody

rtvars == <<rpc, addr, buff, nest>>

RtInit ==
    /\ rpc = <<"driver", 1>>
    /\ addr = <<NoMac, NoMac>>
    /\ buff = <<Blank, Blank>>
    /\ nest = <<>>

CardNo(i) == IF i = 1 THEN "1.2" ELSE "2.2"
NoOf(c) == IF c = "1.2" THEN 1 ELSE 2

\* Mutant: both cards share one buffer.
OneBuffer(c) == 1

\* receiver() gives BUFF to the driver, receiver2() gives BUFF2.
Buffer(c) == NoOf(c)

Ended == <<"ended", 0>>

--------------------------------------------------------------------------------
\* get_driver_info() and get_mac() of the i-th card; the first leaves by exit(1) on
\* a carry flag, the second copies what malloc() left.
Identify(i) ==
    /\ rpc = <<"driver", i>> /\ nest = <<>>
    /\ \/ /\ rpc' = <<"access", i>> /\ addr' = [addr EXCEPT ![i] = CardMac[CardNo(i)]]
          /\ UNCHANGED drvvars
       \/ Refuse("router") /\ rpc' = Ended /\ UNCHANGED addr
       \/ \E g \in Garbage :
            Refuse("router") /\ rpc' = <<"access", i>> /\ addr' = [addr EXCEPT ![i] = g]
    /\ UNCHANGED <<buff, nest>>

\* access_type(): a carry flag is printed, and main() goes on.
Access(i) ==
    /\ rpc = <<"access", i>> /\ nest = <<>>
    /\ Open(CardNo(i)) \/ Refuse("router")
    /\ rpc' = <<"mode", i>>
    /\ UNCHANGED <<addr, buff, nest>>

\* set_receive_mode() and get_receive_mode(); exit(1) releases nothing.
Mode(i) ==
    /\ rpc = <<"mode", i>> /\ nest = <<>>
    /\ \/ /\ mode[CardNo(i)] # "none" /\ Promiscuous(CardNo(i))
          /\ rpc' = IF i = 1 THEN <<"driver", 2>> ELSE <<"release", 1>>
       \/ mode[CardNo(i)] = "none" /\ UNCHANGED drvvars /\ rpc' = Ended
       \/ Refuse("router") /\ rpc' = Ended
    /\ UNCHANGED <<addr, buff, nest>>

\* Mutant: the second card is not released.
ReleaseFirst(i) ==
    /\ rpc = <<"release", i>> /\ nest = <<>>
    /\ Release(CardNo(i)) /\ rpc' = Ended
    /\ UNCHANGED <<addr, buff, nest>>

\* getch() returns, or has returned: release_type() of the i-th card.
ReleaseType(i) ==
    /\ rpc = <<"release", i>> /\ nest = <<>>
    /\ \/ Release(CardNo(i)) /\ rpc' = IF i = 1 THEN <<"release", 2>> ELSE Ended
       \/ Refuse("router") /\ rpc' = Ended
    /\ UNCHANGED <<addr, buff, nest>>

--------------------------------------------------------------------------------
\* receiver(), ax = 0, and the driver fills the buffer.
Give(c) ==
    /\ rpc # Ended /\ \A k \in DOMAIN nest : nest[k] # c
    /\ Fetch(c)
    /\ buff' = [buff EXCEPT ![Buffer(c)] = Head(ring[c])]
    /\ nest' = Append(nest, c)
    /\ UNCHANGED <<rpc, addr>>

\* filter_packet(): each byte is compared with both addresses.
RouterFilter(f) == MadeOf(f.dst, addr[1], addr[2]) /\ f.type = "abcd"

\* Mutant: rows of the router's own cards are not skipped.
RowsForCards(f) == {k \in DOMAIN MyArp : MyArp[k].iip = f.to}

\* The row routing() finds; a row of a card of the router forwards nothing.
RowsFor(f) == {k \in DOMAIN MyArp : MyArp[k].iip = f.to /\ f.to[2] # 2}

\* routing() forwards the frame by the card of its destination's network ...
Forwards(f) == f.from[1] # f.to[1] /\ RowsFor(f) # {}

\* Mutant: the source address stays.
RewrittenDst(f) ==
    LET k == CHOOSE k \in RowsFor(f) : \A n \in RowsFor(f) : k <= n IN
    [f EXCEPT !.dst = MyArp[k].mac]

\* ... under that card's address.
Rewritten(f) ==
    LET k == CHOOSE k \in RowsFor(f) : \A n \in RowsFor(f) : k <= n IN
    [f EXCEPT !.dst = MyArp[k].mac, !.src = addr[f.to[1]]]

\* Mutant: the card of the source's network.
OutCardBack(f) == CardNo(f.from[1])

OutCard(f) == CardNo(f.to[1])

\* receiver(), ax = 1: display_packet(), routing(), free_buffer().  A refused
\* send leaves the program by exit(1), from within the interrupt.
Take(c) ==
    /\ rpc # Ended /\ nest # <<>> /\ nest[Len(nest)] = c
    /\ LET f == buff[Buffer(c)] IN
        \/ /\ ~(RouterFilter(f) /\ Forwards(f))
           /\ UNCHANGED <<drvvars, rpc>> /\ nest' = SubSeq(nest, 1, Len(nest) - 1)
        \/ /\ RouterFilter(f) /\ Forwards(f)
           /\ \/ /\ Send(OutCard(f), Rewritten(f)) /\ UNCHANGED rpc
                 /\ nest' = SubSeq(nest, 1, Len(nest) - 1)
              \/ Refuse("router") /\ rpc' = Ended /\ nest' = <<>>
    /\ buff' = [buff EXCEPT ![Buffer(c)] = Blank]
    /\ UNCHANGED addr

RouterMain == \E i \in 1..2 : Identify(i) \/ Access(i) \/ Mode(i) \/ ReleaseType(i)
================================================================================
