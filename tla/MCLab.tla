--------------------------------- MODULE MCLab ---------------------------------
(***************************************************************************)
(* Lab.tla for TLC: what the users type, and what memory holds.            *)
(***************************************************************************)
EXTENDS LabInv, TLC

Digits(to, from) == [to |-> to, from |-> from]

\* What malloc() leaves.
MCGarbage == {<<7, 7, 7>>}

\* 1.1 writes to both networks and to none, 2.1 to the other one, also under the name
\* of that, and 1.3 to a card of the router.
TypedDigits ==
    "1.1" :> {Digits(<<1, 3>>, <<1, 1>>), Digits(<<2, 1>>, <<1, 1>>), Digits(<<0, 0>>, <<0, 0>>)} @@
    "1.3" :> {Digits(<<2, 2>>, <<1, 3>>)} @@
    "2.1" :> {Digits(<<1, 3>>, <<2, 1>>), Digits(<<1, 3>>, <<1, 1>>)}
================================================================================
