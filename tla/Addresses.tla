------------------------------- MODULE Addresses -------------------------------
(***************************************************************************)
(* The addresses of the two networks: the tables of the hosts, the table   *)
(* of the router, the fixed addresses of DosTalk, and the frame they are   *)
(* put into.  All MAC addresses begin with 08:00:27; a Mac here is the     *)
(* three bytes after that.  An iip is <<network, host>>.                   *)
(***************************************************************************)
EXTENDS Integers, Sequences

NoMac == <<0, 0, 0>>

\* The cards of the laboratory: the hosts, and the two of the router, 1.2 and 2.2.
CardMac ==
    [c \in {"1.1", "1.2", "1.3", "2.1", "2.2", "2.3", "dostalk", "receiver", "sender"} |->
        CASE c = "1.1" -> <<214, 244, 74>> [] c = "1.2" -> <<147, 214, 52>>
          [] c = "1.3" -> <<230, 37, 235>> [] c = "2.1" -> <<0, 43, 179>>
          [] c = "2.2" -> <<230, 46, 239>> [] c = "2.3" -> <<163, 187, 157>>
          [] c \in {"dostalk", "receiver"} -> <<58, 175, 158>>
          [] c = "sender" -> <<198, 143, 78>>]

Iip ==
    [c \in {"1.1", "1.2", "1.3", "2.1", "2.2", "2.3"} |->
        CASE c = "1.1" -> <<1, 1>> [] c = "1.2" -> <<1, 2>> [] c = "1.3" -> <<1, 3>>
          [] c = "2.1" -> <<2, 1>> [] c = "2.2" -> <<2, 2>> [] c = "2.3" -> <<2, 3>>]

Row(iip, mac) == [iip |-> iip, mac |-> mac]

\* ROUTING.TXT, seven rows.
RoutingTxt ==
    << Row(<<1, 1>>, <<214, 244, 74>>), Row(<<1, 2>>, <<147, 214, 52>>),
       Row(<<2, 1>>, <<0, 43, 179>>),   Row(<<2, 2>>, <<230, 46, 239>>),
       Row(<<1, 3>>, <<230, 37, 235>>), Row(<<2, 3>>, <<163, 187, 157>>),
       Row(<<1, 4>>, NoMac) >>

\* The router's create_table() reads every row; MY_ARP[] has room for six, and
\* routing() looks at six.
MyArp == SubSeq(RoutingTxt, 1, 6)

\* create_table() of each host: the other host of its network, then the router.
Arp11 == << Row(<<1, 3>>, <<230, 37, 235>>), Row(<<1, 2>>, <<147, 214, 52>>) >>
Arp13 == << Row(<<1, 1>>, <<214, 244, 74>>), Row(<<1, 2>>, <<147, 214, 52>>) >>
Arp21 == << Row(<<2, 3>>, <<163, 187, 157>>), Row(<<2, 2>>, <<230, 46, 239>>) >>
Arp23 == << Row(<<2, 1>>, <<0, 43, 179>>), Row(<<2, 2>>, <<230, 46, 239>>) >>

HostArp ==
    [h \in {"1.1", "1.3", "2.1", "2.3"} |->
        CASE h = "1.1" -> Arp11 [] h = "1.3" -> Arp13 [] h = "2.1" -> Arp21 [] h = "2.3" -> Arp23]

\* A frame: its addresses and type, what was typed for bytes 14 to 17, and the
\* number of the line that holds the text.
Frame(dst, src, type, to, from, id) ==
    [dst |-> dst, src |-> src, type |-> type, to |-> to, from |-> from, id |-> id]

Blank == Frame(NoMac, NoMac, "0000", <<0, 0>>, <<0, 0>>, 0)

\* In a frame of DosTalk the text begins in byte 14: a blank stands for it.
Letters == <<32, 32>>

\* create_packet() of dostalk.C, receiver.C and sender.C.
DosTalkPacket(id) == Frame(<<198, 143, 78>>, <<58, 175, 158>>, "0101", Letters, Letters, id)
ReceiverPacket(id) == Frame(<<198, 143, 78>>, <<58, 175, 158>>, "0101", Letters, Letters, id)
SenderPacket(id) == Frame(<<58, 175, 158>>, <<198, 143, 78>>, "0101", Letters, Letters, id)

\* Every byte of the address mac is that byte of a or of b.
MadeOf(mac, a, b) == \A k \in 1..3 : mac[k] \in {a[k], b[k]}

\* Mutant: frames for the other network do not go to the router.
PutDestLocal(h, prev, to) ==
    IF to = <<Iip[h][1], 2>> THEN HostArp[h][2].mac
    ELSE IF to[1] # 0 THEN HostArp[h][1].mac
    ELSE prev

\* put_dest() of host h: where its next frame goes, after one that went to prev.
PutDest(h, prev, to) ==
    LET home == Iip[h][1] IN
    IF to[1] = 3 - home \/ to = <<home, 2>> THEN HostArp[h][2].mac
    ELSE IF to[1] # 0 THEN HostArp[h][1].mac
    ELSE prev
================================================================================
