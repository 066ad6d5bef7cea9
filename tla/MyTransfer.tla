------------------------------- MODULE MyTransfer ------------------------------
(***************************************************************************)
(* The client of MY_TFTP, the network, and the daemon of tftpd with its    *)
(* children: one download or one upload.                                   *)
(***************************************************************************)
EXTENDS MyTftp

CONSTANT MaxEarly       \* how many timeouts may expire while an answer is coming (bound)

ASSUME EarlyAssumption == MaxEarly \in Nat

VARIABLES
    early,      \* how many have
    meddled     \* history: was a datagram of another program in flight?

ambience == <<early, meddled>>

vars == <<netvars, tdvars, myvars, ambience>>

\* Every variable has a value of its kind.
TypeOK ==
    /\ NetTypeOK /\ TdTypeOK /\ MyTypeOK
    /\ early \in 0..MaxEarly /\ meddled \in BOOLEAN

\* The request has been sent; a datagram of another program may be in flight.
Init ==
    /\ MyInit
    /\ early = 0
    /\ TdInit(IF op = "RRQ" THEN File ELSE <<>>)
    /\ \E S \in {{}} \cup {{d} : d \in Stray} :
        NetInit({Request} \cup S) /\ meddled = (S # {})

--------------------------------------------------------------------------------
Running(k) == kid[k].pc \in {"send", "wait", "close"}

\* A datagram that somebody is going to receive.
Awaited(d) ==
    \/ d.dst = "client" /\ pc \in {"wait", "data"}
    \/ d.dst = "tftpd" /\ ~down
    \/ d.dst \in Kids /\ kid[d.dst].pc = "wait"

\* Nothing is coming and nobody is about to send.
Quiet ==
    /\ pc \notin {"last", "send", "flood"}
    /\ \A k \in Kids : kid[k].pc \notin {"send", "close"}
    /\ \A d \in InFlight : ~Awaited(d)

\* The client waits for 2 seconds, a child for 2001 polls of at least 1 ms: the
\* client's n-th timeout comes before the n-th of a child, and that before the
\* client's next one.  A timeout out of this order is early.
InTime(order) ==
    \/ Quiet /\ order /\ UNCHANGED early
    \/ ~(Quiet /\ order) /\ early < MaxEarly /\ early' = early + 1

ClientTimeout ==
    /\ InTime(\A k \in Kids : kid[k].pc = "wait" => i <= kid[k].j)
    /\ MyTimeout
    /\ UNCHANGED <<tdvars, meddled>>

ChildTimeout(k) ==
    /\ InTime(pc \in {"wait", "data"} => kid[k].j < i)
    /\ KidTimeout(k)
    /\ UNCHANGED <<myvars, meddled>>

ClientStep == (MyStep /\ UNCHANGED <<tdvars, ambience>>) \/ ClientTimeout

ChildStep(k) == (KidStep(k) /\ UNCHANGED <<myvars, ambience>>) \/ ChildTimeout(k)

ServerStep == DaemonStep /\ UNCHANGED <<myvars, ambience>>

ServerFails == PollFails /\ UNCHANGED <<myvars, ambience>>

NetStep ==
    /\ UNCHANGED <<tdvars, myvars, ambience>>
    /\ \E d \in InFlight \ Stray : Lose(d) \/ Duplicate(d)

Next == ClientStep \/ ServerStep \/ ServerFails \/ NetStep \/ \E k \in Kids : ChildStep(k)

Spec == Init /\ [][Next]_vars

\* Every process runs: it receives what is there, or its timeout expires.  The daemon
\* need not fail.
FairSpec ==
    /\ Spec
    /\ WF_vars(ClientStep) /\ WF_vars(ServerStep)
    /\ \A k \in Kids : WF_vars(ChildStep(k))

--------------------------------------------------------------------------------
AckLostTwice ==
    \E m, n \in DOMAIN lost : m # n /\ lost[m].op = "ACK" /\ lost[m].blk = lost[n].blk

\* The request that the client repeats can be served a second time.
ServedTwice == kid["beside"].pc # "off"

\* No other program meddles, the daemon runs and no call of the server fails,
\* timeouts come in order, and the losses are not those that the count of get_file() cannot bear.
Steady ==
    /\ ~meddled /\ ~down /\ broken = {} /\ early = 0 /\ dups = 0
    /\ ~AckLostTwice
    /\ ServedTwice => Len(lost) <= 2

\* Then what get_file() stores is the beginning of the server's file, and all of it
\* when it reports success, though it looks at no block number (tftp_client.cpp:311):
\* it answers a timeout by its last ACK before the server resends.
InOrder ==
    Steady => IsPrefix(got, File) /\ (op = "RRQ" /\ pc = "done" => got = File)

\* "All file has been uploaded" (tftp_client.cpp:601): a child has stored every
\* piece, in order, whatever was lost, late or answered twice.
UploadedWhole == (op = "WRQ" /\ pc = "done") => \E k \in Kids : kid[k].got = File

\* ... and when it has closed the file, the file is whole, unless the request was
\* served a second time, which truncates it, or fclose() has failed after the last
\* ACK (tftpd.c:520).
UploadKept ==
    (op = "WRQ" /\ pc = "done" /\ kid["beside"].pc = "off" /\ ~Running("child")
       /\ <<"child", "flush">> \notin broken) => disk = File

Copies(d, bag) == IF d \in BagToSet(bag) THEN bag[d] ELSE 0

\* While fork() does not fail, the daemon overlooks a request only when it has a
\* child to wait for.
OverlookedBesideChild ==
    [][(Copies(Request, net') < Copies(Request, net) /\ lost' = lost
          /\ <<"tftpd", "fork">> \notin broken'
          /\ \A k \in Kids : kid'[k].pc = "off" <=> kid[k].pc = "off")
        => Unreaped # {}]_vars

\* A download ends; an upload ends or reaches the resend loop (tftp_client.cpp:587).
ClientEnds == <>(pc \in Ended \cup {"flood"})

\* What one loss can do to a download that no foreign datagram and no failing call
\* meets: nothing.
LossRepaired == <>(op = "WRQ" \/ meddled \/ broken # {} \/ early > 0 \/ dups > 0 \/ Len(lost) > 1 \/ pc = "failed"
                    \/ (pc = "done" /\ got = File))

\* An upload ends, by "Max number of Retrying has been done..." at the latest
\* (tftp_client.cpp:597).
PostEnds == op = "WRQ" ~> pc \in Ended
================================================================================
