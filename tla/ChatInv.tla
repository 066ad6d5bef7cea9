-------------------------------- MODULE ChatInv --------------------------------
(***************************************************************************)
(* The inductive invariant of ChatServer behind its safety properties, for *)
(* any users, connections and messages.                                    *)
(***************************************************************************)
EXTENDS ChatServer

\* The table has finitely many rows, and ID is its key.
KeyInv ==
    /\ IsFiniteSet(users)
    /\ \A r1, r2 \in users : r1.id = r2.id => r1 = r2

\* One thread at a time is inside a call, unless calls overlap.
AloneInv == ~Overlap => \A t1, t2 \in Inside : t1 = t2

\* Until a user goes, there are as many active users as a listing has counted.
\* GLOBAL is 0 but while a listing is read; the array has the size of the list
\* as long as nobody else may change it.
ListInv ==
    /\ \A s \in Conns :
        rd[s].pc \in {"alloc", "select", "frame"} => gone[s] \/ rd[s].no <= Cardinality(Active)
    /\ ~Overlap =>
        /\ global = 0 \/ \E s \in Conns : rd[s].pc = "frame"
        /\ \A s \in Conns : rd[s].pc \in {"select", "frame"} => allSize = Cardinality(Active)

\* Where the threads are and which line they work on.
LineInv ==
    \A s \in Conns :
        /\ conn[s] = "none" => rd[s].pc = "off" /\ wr[s].pc = "off"
        /\ rd[s].pc = "status" => rd[s].line.kind # "finger"
        /\ rd[s].line.kind = "name" => rd[s].line.user \in claimed[s]
        /\ rd[s].line.kind = "pin" => rd[s].registered
        /\ rd[s].pc \in {"ask", "move", "insert"} => rd[s].line.kind = "name"
        /\ rd[s].pc = "insert" => ~rd[s].registered
        /\ rd[s].pc \in {"clean", "load", "copy", "login"} => rd[s].registered

\* The names the threads of connection s may read from the table, or have read.
Own(s) == {NoUser} \cup (IF rd[s].registered THEN claimed[s] ELSE {})

OwnInv ==
    Undisturbed =>
        /\ \A r \in users : r.id \in Conns => r.name \in Own(r.id)
        /\ \A s \in Conns :
            /\ rd[s].pc = "load" \/ wr[s].pc = "load" => result.name = NoUser
            /\ rd[s].pc = "copy" \/ wr[s].pc = "copy" => result.name \in Own(s)
            /\ rd[s].pc = "login" => rd[s].cred.name \in Own(s)
            /\ wr[s].name \in Own(s) /\ mail[s] \in Own(s)
        /\ exit # "insert"

IInv == TypeOK /\ KeyInv /\ AloneInv /\ ListInv /\ LineInv /\ OwnInv
================================================================================
