------------------------------ MODULE MCMyTransfer -----------------------------
(***************************************************************************)
(* MyTransfer.tla for TLC: the datagrams of other programs.                *)
(***************************************************************************)
EXTENDS MyInv

ForeignOrBad == {Control("stranger", "client", "ACK", 0), Control("nobody", "client", "BAD", 0),
                 Control("stranger", "tftpd", "JUNK", 0)}
================================================================================
