-------------------------------- MODULE NetProofs ------------------------------
(***************************************************************************)
(* Lemmas about the network and the datagrams of Udp and Tftp, which the   *)
(* proofs about every transfer use.                                        *)
(***************************************************************************)
EXTENDS Tftp, TLAPS

USE NetworkAssumption, TftpAssumption

\* A count reduced modulo 2^16 is a block number.
LEMMA CountType == \A k \in Nat : k % M \in 0..(M - 1)
  OBVIOUS

-----------------------------------------------------------------------------
(* The bag of datagrams: only its set matters to the invariant.            *)

\* What is in flight after an exchange was in flight before or has been sent.
LEMMA ExchangeInFlight ==
    ASSUME NEW D, NEW S, Exchange(D, S)
    PROVE  InFlight' \subseteq InFlight \cup S
  BY DEF Exchange, InFlight, BagToSet, SetToBag, (+), (-)

\* An exchange leaves a bag of well-formed datagrams.
LEMMA ExchangeType ==
    ASSUME NEW D, NEW S \in SUBSET Datagram, Exchange(D, S), NetTypeOK
    PROVE  NetTypeOK'
<1>1. InFlight' \subseteq Datagram
  BY ExchangeInFlight DEF NetTypeOK
<1>2. IsABag(net)'
  BY DEF Exchange, InFlight, BagToSet, SetToBag, (+), (-), IsABag, NetTypeOK
<1> QED BY <1>1, <1>2 DEF NetTypeOK, Exchange

\* The same for an exchange cut short by a failing sendto().
LEMMA ExchangeFailsType ==
    ASSUME NEW D, NEW S \in SUBSET Datagram, ExchangeFails(D, S), NetTypeOK
    PROVE  NetTypeOK'
  BY ExchangeType DEF ExchangeFails

\* Nothing is sent or received.
LEMMA QuietType ==
    ASSUME UNCHANGED netvars, NetTypeOK
    PROVE  NetTypeOK' /\ InFlight' = InFlight
  BY DEF netvars, NetTypeOK, InFlight

\* The network forges nothing: a loss or a duplicate changes only how many copies
\* are in flight, and its own bookkeeping.
LEMMA NetworkType ==
    ASSUME NetTypeOK, NEW d \in InFlight, Lose(d) \/ Duplicate(d)
    PROVE  NetTypeOK' /\ InFlight' \subseteq InFlight
<1>1. d \in Datagram
  BY DEF NetTypeOK
<1>2. IsABag(net)' /\ InFlight' \subseteq InFlight
  <2>1. CASE Lose(d)
    BY <1>1, <2>1 DEF Lose, NetTypeOK, IsABag, InFlight, BagToSet, SetToBag, (-)
  <2>2. CASE Duplicate(d)
    BY <1>1, <2>2 DEF Duplicate, NetTypeOK, IsABag, InFlight, BagToSet, SetToBag, (+)
  <2> QED BY <2>1, <2>2
<1>3. lost' \in Seq(Datagram) /\ dups' \in Nat
  <2>1. CASE Lose(d)
    BY <1>1, <2>1 DEF Lose, NetTypeOK
  <2>2. CASE Duplicate(d)
    BY <2>2 DEF Duplicate, NetTypeOK
  <2> QED BY <2>1, <2>2
<1> QED BY <1>2, <1>3 DEF NetTypeOK

\* What is in flight at first.
LEMMA NetInitType ==
    ASSUME NEW D \in SUBSET Datagram, NetInit(D)
    PROVE  NetTypeOK /\ InFlight = D
  BY DEF NetInit, NetTypeOK, IsABag, SetToBag, InFlight, BagToSet

-----------------------------------------------------------------------------
(* The arithmetic of windows of c packets.                                 *)

LEMMA DivMod ==
    \A c, n \in Nat : c > 0 => /\ n % c \in 0..(c - 1)
                               /\ n \div c \in Nat
                               /\ n = c * (n \div c) + (n % c)
  OBVIOUS

LEMMA RemainderUnique ==
    \A c, p, q, r, s \in Nat :
        r < c /\ s < c /\ c * q + r = c * p + s => r = s
<1> SUFFICES ASSUME NEW c \in Nat, NEW p \in Nat, NEW q \in Nat, NEW r \in Nat,
                    NEW s \in Nat, r < c, s < c, c * q + r = c * p + s
             PROVE  r = s
  OBVIOUS
<1>1. c * (q - p) = s - r /\ c * (p - q) = r - s
  OBVIOUS
<1>2. CASE q - p >= 1
  <2>1. c * (q - p) >= c
    BY <1>2
  <2> QED BY <1>1, <2>1
<1>3. CASE p - q >= 1
  <2>1. c * (p - q) >= c
    BY <1>3
  <2> QED BY <1>1, <2>1
<1> QED BY <1>1, <1>2, <1>3

LEMMA MultipleRemainder ==
    \A c, p, q, s \in Nat : s < c /\ c * q = c * p + s => s = 0
<1> SUFFICES ASSUME NEW c \in Nat, NEW p \in Nat, NEW q \in Nat, NEW s \in Nat,
                    s < c, c * q = c * p + s
             PROVE  s = 0
  OBVIOUS
<1>1. c * q + 0 = c * p + s /\ 0 < c
  OBVIOUS
<1> QED BY <1>1, RemainderUnique

\* Between two multiples of c the remainder goes up by one.
LEMMA RemainderNext ==
    \A c, k \in Nat : c > 0 /\ (k + 1) % c # 0 => (k + 1) % c = (k % c) + 1
<1> SUFFICES ASSUME NEW c \in Nat, NEW k \in Nat, c > 0
             PROVE  (k + 1) % c # 0 => (k + 1) % c = (k % c) + 1
  OBVIOUS
<1> DEFINE q == k \div c
           r == k % c
           p == (k + 1) \div c
           s == (k + 1) % c
<1>1. k = c * q + r /\ r \in 0..(c - 1) /\ q \in Nat
  BY DivMod
<1>2. k + 1 = c * p + s /\ s \in 0..(c - 1) /\ p \in Nat
  <2>1. k + 1 \in Nat
    OBVIOUS
  <2> QED BY <2>1, DivMod
<1> HIDE DEF q, r, p, s
<1>3. CASE r + 1 < c
  <2>1. r + 1 \in Nat /\ c * q + (r + 1) = c * p + s
    BY <1>1, <1>2, <1>3
  <2>2. s = r + 1
    BY <1>1, <1>2, <1>3, <2>1, RemainderUnique
  <2> QED BY <2>2 DEF r, s
<1>4. CASE r + 1 = c
  <2>1. PICK t \in Nat : t = q + 1
    BY <1>1
  <2>2. c * t = c * p + s
    BY <1>1, <1>2, <1>4, <2>1
  <2>3. t \in Nat /\ p \in Nat /\ s \in Nat /\ s < c
    BY <1>2, <2>1
  <2>4. s = 0
    BY <2>2, <2>3, MultipleRemainder
  <2> QED BY <2>4 DEF s
<1> QED BY <1>1, <1>3, <1>4

\* The last multiple of c up to k.
LEMMA LastMultiple ==
    \A c, k \in Nat : c > 0 => k - (k % c) \in Nat /\ (k - (k % c)) % c = 0
<1> SUFFICES ASSUME NEW c \in Nat, NEW k \in Nat, c > 0
             PROVE  k - (k % c) \in Nat /\ (k - (k % c)) % c = 0
  OBVIOUS
<1> DEFINE q == k \div c
           n == c * q
           p == n \div c
           s == n % c
<1>1. k = n + (k % c) /\ q \in Nat /\ k % c \in Nat
  BY DivMod
<1>2. n \in Nat
  BY <1>1
<1>3. n = c * p + s /\ s \in 0..(c - 1) /\ p \in Nat
  <2> HIDE DEF n
  <2> QED BY <1>2, DivMod
<1>4. c * q + 0 = c * p + s
  BY <1>3
<1> HIDE DEF p, q, s
<1>5. s = 0
  BY <1>1, <1>3, <1>4, RemainderUnique
<1>6. k - (k % c) = n
  BY <1>1, <1>2
<1> QED BY <1>2, <1>5, <1>6 DEF s

-----------------------------------------------------------------------------
(* Sockets and datagrams.                                                  *)

LEMMA SocketSet ==
    Socket = {"client", "tftpd", "child", "beside", "stranger", "nobody"}
  BY DEF Socket, Host

LEMMA ErrorType == \A s, d \in Socket : Error(s, d) \in Datagram
  BY DEF Error, Datagram, Op

LEMMA ComplaintType ==
    \A s, d \in Socket : \A m : Complaint(s, d, m) \in SUBSET Datagram
  BY ErrorType DEF Complaint
================================================================================
