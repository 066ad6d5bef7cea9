------------------------------- MODULE UserTable -------------------------------
(***************************************************************************)
(* mysqlite.h: the table USERS of the chat server and the functions that   *)
(* read and write it.  SQLite runs one statement at a time; a call is one  *)
(* or several statements and also touches the globals result, ALL_USER and *)
(* GLOBAL, which all threads share.  A pin is told apart by its user only, *)
(* and stands for the PASSWORD column.                                     *)
(***************************************************************************)
EXTENDS Integers, Sequences, FiniteSets

CONSTANTS
    Users,      \* the names that are typed
    Conns,      \* the socket numbers accept() returns
    Ids,        \* the values of rand() % 1000, socket numbers included
    Msgs        \* the messages: sequences, <<>> is the empty one

NoUser == "nobody"
Welcome == <<0>>

ASSUME TableAssumption ==
    /\ NoUser \notin Users
    /\ Conns \subseteq Nat /\ Ids \subseteq Nat
    /\ Msgs \subseteq Seq(Nat) /\ <<>> \in Msgs /\ Welcome \notin Msgs

VARIABLES
    users,      \* the table; survives the server
    result,     \* the global record retrieve() fills and returns
    allSize,    \* the size of the array ALL_USER points to
    global      \* GLOBAL: the next index all_user() writes

tablevars == <<users, result, allSize, global>>

Row == [id : Conns \cup Ids, name : Users, msg : Msgs \cup {Welcome}, active : BOOLEAN]

Result == [name : Users \cup {NoUser}, pin : Users \cup {NoUser}, msg : Msgs \cup {Welcome}]

NoResult == [name |-> NoUser, pin |-> NoUser, msg |-> <<>>]

TableTypeOK ==
    /\ users \subseteq Row
    /\ result \in Result
    /\ allSize \in Nat /\ global \in Nat

TableInit == users = {} /\ result = NoResult /\ allSize = 0 /\ global = 0

Active == {r \in users : r.active}

Named(u) == {r \in users : r.name = u}

\* ID is the primary key: an ID another row has makes the statement fail.
Holder(id) == {r \in users : r.id = id}

\* retrieve_status(): 1, 0 or -1.  Of several rows of one name the callback
\* keeps the last, whichever it is.
StatusOf(u) ==
    IF Named(u) = {} THEN {-1}
    ELSE {IF r.active THEN 1 ELSE 0 : r \in Named(u)}

\* insert(); the caller knows that the ID is free.
Insert(u, s) ==
    users' = users \cup {[id |-> s, name |-> u, msg |-> Welcome, active |-> TRUE]}

\* Mutant: update() leaves STATUS alone.
UpdateMessageOnly(u, m, active) ==
    users' = (users \ Named(u)) \cup {[r EXCEPT !.msg = m] : r \in Named(u)}

\* update(): DATA and STATUS of every row of that name, STATUS = 1 by default.
Update(u, m, active) ==
    users' = (users \ Named(u))
                \cup {[r EXCEPT !.msg = m, !.active = active] : r \in Named(u)}

\* When the key lets socket_update() give its ID to the rows of a name.
KeyFree(u, id) ==
    \/ Named(u) = {}
    \/ Holder(id) \subseteq Named(u) /\ Cardinality(Named(u)) = 1

\* Mutant: ID is no primary key.
SocketUpdateAnyKey(u, active, id) ==
    users' = (users \ Named(u))
                \cup {[r EXCEPT !.id = id, !.active = active] : r \in Named(u)}

\* socket_update(): ID and STATUS of every row of that name, unless the key
\* forbids it.
SocketUpdate(u, active, id) ==
    users' = IF KeyFree(u, id)
             THEN (users \ Named(u))
                    \cup {[r EXCEPT !.id = id, !.active = active] : r \in Named(u)}
             ELSE users

\* clean_result() keeps the pin of the row that was read last.
CleanResult == result' = [result EXCEPT !.name = NoUser, !.msg = <<>>]

\* Mutant: the rows are read without WHERE id = ...
LoadAnyRow(s) ==
    IF users = {} THEN UNCHANGED result
    ELSE \E r \in users : result' = [name |-> r.name, pin |-> r.name, msg |-> r.msg]

\* The SELECT of retrieve(), whose callback runs if there is a row.
LoadRow(s) ==
    IF Holder(s) = {} THEN UNCHANGED result
    ELSE \E r \in Holder(s) : result' = [name |-> r.name, pin |-> r.name, msg |-> r.msg]
================================================================================
