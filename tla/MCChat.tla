--------------------------------- MODULE MCChat --------------------------------
(***************************************************************************)
(* ChatServer.tla on two users and two connections for TLC.  At a logout   *)
(* the number of the second connection or a free one may be drawn.         *)
(***************************************************************************)
EXTENDS ChatInv

CONSTANTS a, b

MCUsers == {a, b}
MCConns == {4, 5}
MCIds == {5, 9}
MCFreeIds == {9}
\* No message begins another one.
MCMsgs == {<<>>, <<1>>, <<2, 1>>}
================================================================================
