--------------------------------- MODULE Tftp ----------------------------------
(***************************************************************************)
(* What the TFTP programs share: the datagrams of the protocol, the        *)
(* sockets that exchange them and the constants of tftp.h.  A piece of a   *)
(* file is a number (which piece of the sender's file it is) and a size;   *)
(* the bytes themselves are not modelled.                                  *)
(***************************************************************************)
EXTENDS Udp, Integers

CONSTANTS
    M,          \* block numbers are unsigned short: 2^16 in the code
    StdSize,    \* the standard piece of 512 bytes
    ErrSize,    \* payload of the ERROR packet built over `len` (23 bytes)
    RETRIES,    \* tftp.h: attempts before giving up (3)
    Stray       \* datagrams of programs outside the transfer, in flight

\* The sockets, and the host each one belongs to.  The checks of the code
\* compare hosts; "beside" is another socket on the server's host.
Host == [client |-> "here", tftpd |-> "there", child |-> "there",
         beside |-> "there", stranger |-> "elsewhere", nobody |-> "there"]

Socket == DOMAIN Host

\* "NUL" is the ackbuf of zeros that tget resends when no ACK was due, "BAD"
\* stands for any operation code above 5, "JUNK" for a first byte that is not 0.
Op == {"RRQ", "WRQ", "DATA", "ACK", "ERROR", "BAD", "NUL", "JUNK"}

Datagram == [src : Socket, dst : Socket, op : Op, blk : 0..(M - 1),
             piece : Nat, size : Nat]

ASSUME TftpAssumption ==
    /\ M \in Nat /\ M > 1
    /\ StdSize \in Nat /\ StdSize > 0
    /\ ErrSize \in Nat
    /\ RETRIES \in Nat /\ RETRIES > 0
    /\ Stray \subseteq {d \in Datagram : d.op \notin {"RRQ", "WRQ"}}

\* The network carries datagrams.
NetTypeOK ==
    /\ IsABag(net) /\ InFlight \subseteq Datagram
    /\ lost \in Seq(Datagram)
    /\ dups \in Nat

Control(s, d, op, blk) ==
    [src |-> s, dst |-> d, op |-> op, blk |-> blk, piece |-> 0, size |-> 0]

Ack(s, d, blk) == Control(s, d, "ACK", blk)

\* An ERROR packet carries a text: its size matters to a receiver that takes
\* it for its first packet, and is taken to be ErrSize.
Error(s, d) ==
    [src |-> s, dst |-> d, op |-> "ERROR", blk |-> 0, piece |-> 0, size |-> ErrSize]

Data(s, d, blk, k, n) ==
    [src |-> s, dst |-> d, op |-> "DATA", blk |-> blk, piece |-> k, size |-> n]

\* The answer to an operation code above 5: an ERROR packet, nothing otherwise.
\* (A complaint that cannot be sent is only reported; the network can lose it.)
Complaint(s, d, m) == IF m.op = "BAD" THEN {Error(s, d)} ELSE {}

\* The test on addresses every receive loop begins with.
FromHost(m, h) == Host[m.src] = h
================================================================================
