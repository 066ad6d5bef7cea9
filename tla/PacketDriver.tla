----------------------------- MODULE PacketDriver ------------------------------
(***************************************************************************)
(* The wire of each network and the packet drivers: the part outside of    *)
(* the repository, as the programs use it through int86x().  A frame that  *)
(* is sent reaches every other card of the network; the driver of a card   *)
(* keeps it until the program's receiver() takes it, provided the program  *)
(* has a handle (access_type) and the receive mode admits the frame.       *)
(***************************************************************************)
EXTENDS Addresses, FiniteSets

CONSTANTS
    Hosts,      \* which of the programs 1_1, 1_3, 2_1, 2_3 run
    Talkers,    \* which programs of DosTalk run, on network 1
    Late,       \* the stations that are not yet up in the initial state (bound)
    MayFail,    \* the machines whose driver may refuse a call (bound)
    MaxFailures, \* how many do (bound)
    Garbage     \* the uninitialised bytes that get_mac() may leave for an address (bound)

Stations == Hosts \cup Talkers
RouterCards == {"1.2", "2.2"}
Cards == Stations \cup RouterCards
Machines == Stations \cup {"router"}

ASSUME LabAssumption ==
    /\ Hosts \subseteq {"1.1", "1.3", "2.1", "2.3"}
    /\ Talkers \subseteq {"dostalk", "sender", "receiver"}
    /\ Late \subseteq Stations /\ MayFail \subseteq Machines /\ MaxFailures \in Nat

\* What the uninitialised bytes do not spell by chance: the address of a card, or,
\* beside an address of the router, that of a host.
ASSUME GarbageAssumption ==
    /\ Garbage \subseteq (0..255) \X (0..255) \X (0..255)
    /\ \A c \in DOMAIN CardMac : CardMac[c] \notin Garbage
    /\ \A h \in {"1.1", "1.3", "2.1", "2.3"},
          a, b \in Garbage \cup {NoMac, CardMac["1.2"], CardMac["2.2"]} : ~MadeOf(CardMac[h], a, b)

VARIABLES
    ring,       \* the frames each driver holds for its program
    mode,       \* "none": no handle; "direct": own frames; "all": every frame
    failed      \* history: the machines whose driver has refused a call

drvvars == <<ring, mode, failed>>

Net(c) == IF c \in Talkers THEN 1 ELSE Iip[c][1]

DrvInit ==
    /\ ring = [c \in Cards |-> <<>>]
    /\ mode = [c \in Cards |-> IF c \in Stations \ Late THEN "all" ELSE "none"]
    /\ failed = {}

Admits(c, f) == mode[c] = "all" \/ (mode[c] = "direct" /\ f.dst = CardMac[c])

\* Function 4, send_pkt, on card c.
Send(c, f) ==
    /\ ring' = [k \in Cards |->
                    IF k # c /\ Net(k) = Net(c) /\ Admits(k, f) THEN Append(ring[k], f)
                    ELSE ring[k]]
    /\ UNCHANGED <<mode, failed>>

\* The driver hands the next frame of card c to the program.
Fetch(c) == ring[c] # <<>> /\ ring' = [ring EXCEPT ![c] = Tail(@)] /\ UNCHANGED <<mode, failed>>

\* Function 2, access_type, gives a handle; function 20 sets the receive mode;
\* function 3, release_type, ends both, and what the driver holds is dropped.
Open(c) == mode' = [mode EXCEPT ![c] = "direct"] /\ UNCHANGED <<ring, failed>>
Promiscuous(c) == mode' = [mode EXCEPT ![c] = "all"] /\ UNCHANGED <<ring, failed>>
Release(c) ==
    /\ mode' = [mode EXCEPT ![c] = "none"]
    /\ ring' = [ring EXCEPT ![c] = <<>>]
    /\ UNCHANGED failed

\* The driver refuses a call of machine m.
Refuse(m) ==
    /\ m \in MayFail \ failed /\ Cardinality(failed) < MaxFailures
    /\ failed' = failed \cup {m}
    /\ UNCHANGED <<ring, mode>>
================================================================================
