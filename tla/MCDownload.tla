------------------------------- MODULE MCDownload ------------------------------
(***************************************************************************)
(* Values for the constants of Download that a .cfg file cannot write.     *)
(***************************************************************************)
EXTENDS DownloadInv

NoStray == {}

\* A datagram of another host reaches the client, the child, or each of them.
ClientStray == {Data("stranger", "client", 1, 2, StdSize)}

ChildStray == {Control("stranger", "child", "ACK", 1)}

ForeignStray == ClientStray \cup ChildStray
================================================================================
