-------------------------------- MODULE MCUpload -------------------------------
(***************************************************************************)
(* Values for the constants of Upload that a .cfg file cannot write.       *)
(***************************************************************************)
EXTENDS UploadInv

NoStray == {}

\* A datagram of another host reaches each side of the transfer.
ForeignStray == {Control("stranger", "client", "ACK", 1),
                 Data("stranger", "child", 1, 1, StdSize)}

\* A socket of the server's host sends the client an operation code above 5.
BadStray == {Control("beside", "client", "BAD", 0)}
================================================================================
