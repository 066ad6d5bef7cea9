------------------------------ MODULE FileTransfer -----------------------------
(***************************************************************************)
(* What a file transfer of ASSIGNMENT4 promises: the receiver stores the   *)
(* pieces of the sender's file one after the other; either side may give   *)
(* up; the receiver reports success only when it has the whole file, and   *)
(* the sender only when the receiver has stored the whole file.            *)
(***************************************************************************)
EXTENDS Naturals, Sequences

CONSTANT File       \* the pieces of the file: a sequence

VARIABLES
    stored,         \* the pieces the receiver has stored
    receiver,       \* "open", "succeeded" or "failed"
    sender          \* "open", "succeeded" or "failed"

ftvars == <<stored, receiver, sender>>

FtInit == stored = <<>> /\ receiver = "open" /\ sender = "open"

Store ==
    /\ receiver = "open" /\ Len(stored) < Len(File)
    /\ stored' = Append(stored, File[Len(stored) + 1])
    /\ UNCHANGED <<receiver, sender>>

ReceiverEnds ==
    /\ receiver = "open"
    /\ receiver' \in IF stored = File THEN {"succeeded", "failed"} ELSE {"failed"}
    /\ UNCHANGED <<stored, sender>>

SenderEnds ==
    /\ sender = "open"
    /\ sender' \in IF stored = File THEN {"succeeded", "failed"} ELSE {"failed"}
    /\ UNCHANGED <<stored, receiver>>

FtSpec == FtInit /\ [][Store \/ ReceiverEnds \/ SenderEnds]_ftvars
================================================================================
