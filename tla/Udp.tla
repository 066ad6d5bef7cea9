---------------------------------- MODULE Udp ----------------------------------
(***************************************************************************)
(* The datagram network between the programs of ASSIGNMENT4.  It is not    *)
(* code of the repository: it is what sendto() and recvfrom() with         *)
(* MSG_DONTWAIT give the programs, and what their retry loops are for.     *)
(* The datagrams in flight are a bag: each sendto() adds one copy, each    *)
(* recvfrom() takes any one copy addressed to the caller, so datagrams     *)
(* overtake each other; a copy can also be lost or duplicated.             *)
(***************************************************************************)
EXTENDS Naturals, Sequences, Bags

CONSTANTS
    MaxLosses,  \* how many datagrams the network may lose (bound)
    MaxDups,    \* how many times it may duplicate one (bound)
    Faults      \* local failures that may happen: "send", "recv", "fork", "open", "disk",
                \*   "flush"

ASSUME NetworkAssumption ==
    /\ MaxLosses \in Nat
    /\ MaxDups \in Nat
    /\ Faults \subseteq {"send", "recv", "fork", "open", "disk", "flush"}

VARIABLES
    net,        \* the bag of datagrams in flight
    lost,       \* the datagrams lost so far, in order
    dups        \* how many duplicates the network has made

netvars == <<net, lost, dups>>

InFlight == BagToSet(net)

NetInit(D) == net = SetToBag(D) /\ lost = <<>> /\ dups = 0

\* recvfrom() takes one copy of every datagram of D (at most one), then
\* sendto() puts one copy of every datagram of S in flight.
Exchange(D, S) ==
    /\ net' = (net (-) SetToBag(D)) (+) SetToBag(S)
    /\ UNCHANGED <<lost, dups>>

\* sendto() reports an error before the last datagram of S has left.
ExchangeFails(D, S) ==
    /\ "send" \in Faults
    /\ \E T \in SUBSET S : T # S /\ Exchange(D, T)

Lose(d) ==
    /\ d \in InFlight
    /\ Len(lost) < MaxLosses
    /\ net' = net (-) SetToBag({d})
    /\ lost' = Append(lost, d)
    /\ UNCHANGED dups

Duplicate(d) ==
    /\ d \in InFlight
    /\ dups < MaxDups
    /\ net' = net (+) SetToBag({d})
    /\ dups' = dups + 1
    /\ UNCHANGED lost
================================================================================
