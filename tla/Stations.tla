------------------------------- MODULE Stations --------------------------------
(***************************************************************************)
(* The programs with one card: the hosts 1_1.C, 1_3.C, 2_1.C and 2_3.C and *)
(* the programs of DosTalk.  main() opens the driver, then reads lines and *)
(* sends each as a frame until one begins with BYE; receiver() interrupts  *)
(* it, is called for a buffer (ax = 0) and, when the driver has filled it, *)
(* again (ax = 1).                                                         *)
(***************************************************************************)
EXTENDS PacketDriver

CONSTANTS
    Lines,      \* what each host's user types before the text: [to, from], in digits
    MaxLines,   \* how many lines are typed (bound)
    Leavers     \* who types BYE (bound)

Bytes == (0..255) \X (0..255)

ASSUME LinesAssumption ==
    /\ MaxLines \in Nat /\ Leavers \subseteq Stations
    /\ Lines \in [Hosts -> SUBSET [to : Bytes, from : Bytes]]

VARIABLES
    pc,         \* where main() of each station is
    own,        \* MY_ADDR of each host; DosTalk only prints it
    dest,       \* bytes 0 to 5 of PACKET of each host
    shown,      \* history: how often each station has shown each line
    typed       \* history: the lines, who typed them and where the frame went

stvars == <<pc, own, dest, shown, typed>>

StInit ==
    /\ pc = [m \in Stations |-> IF m \in Late THEN "off" ELSE "loop"]
    /\ own = [m \in Stations |-> IF m \in Late THEN NoMac ELSE CardMac[m]]
    /\ dest = [m \in Stations |-> NoMac]
    /\ shown = [m \in Stations |-> [n \in 1..MaxLines |-> 0]]
    /\ typed = <<>>

To(m, label) == pc' = [pc EXCEPT ![m] = label]

--------------------------------------------------------------------------------
\* get_driver_info(), which leaves by exit(1) on a carry flag, and get_mac(), which
\* does not look at it: MY_ADDR then holds what malloc() left.
Start(m) ==
    /\ pc[m] = "off"
    /\ \/ UNCHANGED drvvars /\ To(m, "access") /\ own' = [own EXCEPT ![m] = CardMac[m]]
       \/ Refuse(m) /\ To(m, "ended") /\ UNCHANGED own
       \/ \E g \in Garbage : Refuse(m) /\ To(m, "access") /\ own' = [own EXCEPT ![m] = g]
    /\ UNCHANGED <<dest, shown, typed>>

\* access_type() does not look at the carry flag either.
AccessType(m) ==
    /\ pc[m] = "access"
    /\ Open(m) \/ Refuse(m)
    /\ To(m, "mode")
    /\ UNCHANGED <<own, dest, shown, typed>>

\* set_receive_mode(), get_receive_mode(), create_packet(); without a handle the
\* driver refuses.
SetMode(m) ==
    /\ pc[m] = "mode"
    /\ \/ mode[m] # "none" /\ Promiscuous(m) /\ To(m, "loop")
       \/ mode[m] = "none" /\ UNCHANGED drvvars /\ To(m, "ended")
       \/ Refuse(m) /\ To(m, "ended")
    /\ UNCHANGED <<own, dest, shown, typed>>

TalkPacket(m, id) ==
    CASE m = "dostalk" -> DosTalkPacket(id)
      [] m = "receiver" -> ReceiverPacket(id)
      [] m = "sender" -> SenderPacket(id)

\* A frame goes out, or send_packet() leaves by exit(1) and the handle stays.
SendOrExit(m, f, line) ==
    /\ typed' = Append(typed, line)
    /\ \/ Send(m, f) /\ UNCHANGED pc
       \/ Refuse(m) /\ To(m, "ended")
    /\ UNCHANGED <<own, shown>>

\* A host sends a line: put_dest() and send_packet(); flush() clears the frame
\* from byte 14 on, so the destination stays for a line that names no network.
TypeLine(h) ==
    /\ pc[h] = "loop" /\ Len(typed) < MaxLines
    /\ \E l \in Lines[h] :
        LET dst == PutDest(h, dest[h], l.to) IN
        /\ dest' = [dest EXCEPT ![h] = dst]
        /\ SendOrExit(h, Frame(dst, own[h], "abcd", l.to, l.from, Len(typed) + 1),
                      [by |-> h, to |-> l.to, from |-> l.from])

\* A program of DosTalk sends a line.
TypeTalk(m) ==
    /\ pc[m] = "loop" /\ Len(typed) < MaxLines
    /\ SendOrExit(m, TalkPacket(m, Len(typed) + 1), [by |-> m, to |-> Letters, from |-> Letters])
    /\ UNCHANGED dest

\* A line that begins with BYE: release_type(), which ends the program.
Bye(m) ==
    /\ pc[m] = "loop" /\ m \in Leavers
    /\ Release(m) \/ Refuse(m)
    /\ To(m, "ended")
    /\ UNCHANGED <<own, dest, shown, typed>>

--------------------------------------------------------------------------------
\* Mutant: the frames of the peer only, as a host does.
TalkFilterOwn(f) == f.type = "0101"

\* filter_packet() of a host and of DosTalk: TRUE when the frame is shown.
HostFilter(m, f) == f.dst = own[m] /\ f.type = "abcd"
TalkFilter(f) == \A k \in DOMAIN f.dst : f.dst[k] # 255

\* display_packet(): a host shows byte 18 and on.  dostalk.C shows byte 13 and on
\* up to the first 0, and so reaches the text only if no digit is 0.
HostShows(m, f) == HostFilter(m, f)
DosTalkShows(f) == TalkFilter(f) /\ \A b \in {f.to[1], f.to[2], f.from[1], f.from[2]} : b # 0
SenderShows(f) == TalkFilter(f)
ReceiverShows(f) == TalkFilter(f)

Shows(m, f) ==
    CASE m \in Hosts -> HostShows(m, f)
      [] m = "dostalk" -> DosTalkShows(f)
      [] m = "sender" -> SenderShows(f)
      [] m = "receiver" -> ReceiverShows(f)

\* receiver(), both calls: main() and other frames wait meanwhile, and BUFF is
\* cleared at the end.
Receive(m) ==
    /\ pc[m] # "ended"
    /\ LET f == Head(ring[m]) IN
        /\ Fetch(m)
        /\ shown' = IF Shows(m, f) THEN [shown EXCEPT ![m][f.id] = @ + 1] ELSE shown
    /\ UNCHANGED <<pc, own, dest, typed>>

MainStep(m) ==
    \/ Start(m) \/ AccessType(m) \/ SetMode(m) \/ Bye(m)
    \/ m \in Hosts /\ TypeLine(m)
    \/ m \in Talkers /\ TypeTalk(m)
================================================================================
