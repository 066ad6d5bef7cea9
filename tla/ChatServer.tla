------------------------------- MODULE ChatServer ------------------------------
(***************************************************************************)
(* server.c: for each connection a thread that reads lines and changes the *)
(* table, and a thread that polls the own row and writes its message.  An  *)
(* action is one call of mysqlite.h or, for the calls that work on its     *)
(* global variables, one access to them.                                   *)
(***************************************************************************)
EXTENDS UserTable, SequencesExt

CONSTANTS
    Overlap,        \* may a thread run while another one is inside a call?
    MaxInputs       \* lines typed, clients ended and restarts, together (bound)

ASSUME ChatAssumption ==
    Overlap \in BOOLEAN /\ MaxInputs \in Nat

VARIABLES
    conn,       \* the connections: "none", "open", "closed" or "reset"
    rd,         \* handler_read of each connection
    wr,         \* handler_write of each connection
    mail,       \* the last row whose message was written to each socket
    shown,      \* history: the last message that was written to each socket
    exit,       \* "" while the server runs, then why it ended
    inputs,     \* how many lines, ends and restarts there were
    restarted,  \* history: has the server been started again?
    claimed,    \* history: the names typed on each connection
    collided,   \* history: has a logout drawn the number of another connection?
    gone        \* history: has a user gone since a listing has counted the users?

vars == <<tablevars, conn, rd, wr, mail, shown, exit, inputs,
          restarted, claimed, collided, gone>>

\* A line is a name, the pin of a user, a message for a user, or "finger".
Line == [kind : {"name", "pin", "mail"}, user : Users, msg : {<<>>}]
            \cup [kind : {"mail"}, user : Users, msg : Msgs]
            \cup [kind : {"finger"}, user : {NoUser}, msg : {<<>>}]

NoLine == [kind |-> "finger", user |-> NoUser, msg |-> <<>>]

\* The locals of handler_read: the line, insert_flag, cred and the count of users.
Reader == [pc : {"off", "read", "status", "ask", "move", "insert", "clean", "load", "copy",
                 "login", "store", "count", "alloc", "select", "frame", "ended"},
           line : Line, registered : BOOLEAN, cred : Result, no : Nat]

Idle == [pc |-> "off", line |-> NoLine, registered |-> FALSE, cred |-> NoResult, no |-> 0]

\* The locals of handler_write: name[], data[], prev_data[], and TIME_LIMIT - K,
\* which is out of reach (Never) until the first message.
Patience == 3
Never == Patience + 1

Writer == [pc : {"off", "clean", "load", "copy", "act", "logout", "leave", "ended"},
           name : Users \cup {NoUser}, data : Seq(Nat), prev : Seq(Nat), left : 0..Never]

Asleep == [pc |-> "off", name |-> NoUser, data |-> <<>>, prev |-> <<>>, left |-> Never]

\* Every variable has a value of its kind.
TypeOK ==
    /\ TableTypeOK
    /\ conn \in [Conns -> {"none", "open", "closed", "reset"}]
    /\ rd \in [Conns -> Reader]
    /\ wr \in [Conns -> Writer]
    /\ mail \in [Conns -> Users \cup {NoUser}]
    /\ shown \in [Conns -> Seq(Nat)]
    /\ exit \in {"", "insert", "read", "pipe"}
    /\ inputs \in 0..MaxInputs /\ restarted \in BOOLEAN
    /\ claimed \in [Conns -> SUBSET Users]
    /\ collided \in BOOLEAN
    /\ gone \in [Conns -> BOOLEAN]

Init ==
    /\ TableInit
    /\ conn = [s \in Conns |-> "none"]
    /\ rd = [s \in Conns |-> Idle]
    /\ wr = [s \in Conns |-> Asleep]
    /\ mail = [s \in Conns |-> NoUser]
    /\ shown = [s \in Conns |-> <<>>]
    /\ exit = ""
    /\ inputs = 0 /\ restarted = FALSE
    /\ claimed = [s \in Conns |-> {}]
    /\ collided = FALSE
    /\ gone = [s \in Conns |-> FALSE]

--------------------------------------------------------------------------------
\* The threads that are between the first and the last access of a call to the
\* globals of mysqlite.h.
Inside == {<<"rd", s>> : s \in {c \in Conns : rd[c].pc \in {"load", "copy", "select", "frame"}}}
            \cup {<<"wr", s>> : s \in {c \in Conns : wr[c].pc \in {"load", "copy"}}}

\* A step of a thread: the server runs and, unless calls overlap, nobody else is
\* inside a call.
Step(thread) == exit = "" /\ (Overlap \/ Inside \subseteq {thread})

ReaderAt(s, pc) == Step(<<"rd", s>>) /\ rd[s].pc = pc

WriterAt(s, pc) == Step(<<"wr", s>>) /\ wr[s].pc = pc

ReaderTo(s, pc) == rd' = [rd EXCEPT ![s].pc = pc]

WriterTo(s, pc) == wr' = [wr EXCEPT ![s].pc = pc]

\* write() to a socket.  The first one after the client has gone is answered by
\* a reset, the next one raises SIGPIPE.
Write(s) ==
    /\ conn' = IF conn[s] = "closed" THEN [conn EXCEPT ![s] = "reset"] ELSE conn
    /\ exit' = IF conn[s] = "reset" THEN "pipe" ELSE exit

\* Two of them in a row: the reset may come before the second one, or after it.
WriteTwice(s) ==
    \/ Write(s)
    \/ conn[s] = "closed" /\ conn' = [conn EXCEPT ![s] = "reset"] /\ exit' = "pipe"

quiet == <<conn, exit>>           \* what a step without write() leaves alone
others == <<mail, shown, restarted, collided, gone>>

\* A step that makes rows inactive: a listing takes note if a user goes.
ActiveNames == {r.name : r \in Active}

Depart ==
    gone' = [s \in Conns |-> \/ gone[s]
                             \/ /\ rd[s].pc \in {"alloc", "select", "frame"}
                                /\ ~(ActiveNames \subseteq ActiveNames')]

Input == inputs < MaxInputs /\ inputs' = inputs + 1

--------------------------------------------------------------------------------
(* main() and handler(): accept() gives the lowest free number; the server *)
(* closes no socket.                                                       *)

Accept(s) ==
    /\ exit = "" /\ conn[s] = "none"
    /\ \A c \in Conns : c < s => conn[c] # "none"
    /\ conn' = [conn EXCEPT ![s] = "open"]
    /\ ReaderTo(s, "read") /\ WriterTo(s, "clean")
    /\ UNCHANGED <<tablevars, exit, others, inputs, claimed>>

\* A client ends; answers it has not read turn the end into a reset.
Close(s) ==
    /\ exit = "" /\ conn[s] = "open" /\ Input
    /\ \E c \in {"closed", "reset"} : conn' = [conn EXCEPT ![s] = c]
    /\ UNCHANGED <<tablevars, rd, wr, exit, others, claimed>>

\* The server is started again: the table is all that is left.
Restart ==
    /\ exit # "" /\ Input
    /\ restarted' = TRUE
    /\ exit' = ""
    /\ conn' = [s \in Conns |-> "none"]
    /\ rd' = [s \in Conns |-> Idle]
    /\ wr' = [s \in Conns |-> Asleep]
    /\ mail' = [s \in Conns |-> NoUser] /\ shown' = [s \in Conns |-> <<>>]
    /\ claimed' = [s \in Conns |-> {}] /\ gone' = [s \in Conns |-> FALSE]
    /\ result' = NoResult /\ allSize' = 0 /\ global' = 0
    /\ UNCHANGED <<users, collided>>

--------------------------------------------------------------------------------
(* handler_read()                                                          *)

\* Where the branches of the loop begin.
Branch == [name |-> "status", pin |-> "status", mail |-> "status", finger |-> "count"]

\* A line arrives.  Nobody has a pin to type before the first answer.
ReadLine(s) ==
    /\ ReaderAt(s, "read") /\ conn[s] = "open" /\ Input
    /\ \E l \in Line :
        /\ l.kind = "pin" => rd[s].registered
        /\ rd' = [rd EXCEPT ![s].line = l, ![s].pc = Branch[l.kind]]
        /\ claimed' = IF l.kind = "name" THEN [claimed EXCEPT ![s] = @ \cup {l.user}] ELSE claimed
    /\ UNCHANGED <<tablevars, wr, quiet, others>>

\* The end of the stream ends this thread only; an error ends the server.
ReadEnd(s) ==
    /\ ReaderAt(s, "read") /\ conn[s] \in {"closed", "reset"}
    /\ IF conn[s] = "closed"
       THEN ReaderTo(s, "ended") /\ exit' = exit
       ELSE rd' = rd /\ exit' = "read"
    /\ UNCHANGED <<tablevars, wr, conn, others, inputs, claimed>>

\* retrieve_status() and the branches on its result.
ReadStatus(s) ==
    /\ ReaderAt(s, "status")
    /\ LET l == rd[s].line IN
       \/ /\ l.kind = "mail"
          /\ \E flag \in StatusOf(l.user) :
                IF flag = 1 THEN ReaderTo(s, "store") /\ UNCHANGED quiet
                            ELSE ReaderTo(s, "read") /\ Write(s)
       \/ /\ l.kind # "mail" /\ UNCHANGED quiet
          /\ \E flag \in IF l.kind = "name" THEN StatusOf(l.user) ELSE {-1} :
                ReaderTo(s, CASE flag = 0 -> "ask"
                              [] flag = 1 -> "read"
                              [] flag = -1 -> IF rd[s].registered THEN "clean" ELSE "insert")
    /\ UNCHANGED <<tablevars, wr, others, inputs, claimed>>

AskPassword(s) ==
    /\ ReaderAt(s, "ask")
    /\ Write(s) /\ ReaderTo(s, "move")
    /\ UNCHANGED <<tablevars, wr, others, inputs, claimed>>

AssignSocket(s) ==
    /\ ReaderAt(s, "move")
    /\ SocketUpdate(rd[s].line.user, FALSE, s) /\ Depart
    /\ rd' = [rd EXCEPT ![s].registered = TRUE, ![s].pc = "read"]
    /\ UNCHANGED <<result, allSize, global, wr, quiet, mail, shown, restarted, collided,
                   inputs, claimed>>

\* Mutant: insert_flag is not raised after insert().
RegisterAgain(s) ==
    /\ ReaderAt(s, "insert")
    /\ IF Holder(s) # {}
       THEN exit' = "insert" /\ UNCHANGED <<users, rd, conn>>
       ELSE Insert(rd[s].line.user, s) /\ ReaderTo(s, "read") /\ Write(s)
    /\ UNCHANGED <<result, allSize, global, wr, others, inputs, claimed>>

\* insert() ends the server if the key is taken.
Register(s) ==
    /\ ReaderAt(s, "insert")
    /\ IF Holder(s) # {}
       THEN exit' = "insert" /\ UNCHANGED <<users, rd, conn>>
       ELSE /\ Insert(rd[s].line.user, s)
            /\ rd' = [rd EXCEPT ![s].registered = TRUE, ![s].pc = "read"]
            /\ Write(s)
    /\ UNCHANGED <<result, allSize, global, wr, others, inputs, claimed>>

\* retrieve(client_sock): clean_result(), the SELECT, and the copy that is returned.
ReadClean(s) ==
    /\ ReaderAt(s, "clean") /\ CleanResult /\ ReaderTo(s, "load")
    /\ UNCHANGED <<users, allSize, global, wr, quiet, others, inputs, claimed>>

ReadLoad(s) ==
    /\ ReaderAt(s, "load") /\ LoadRow(s) /\ ReaderTo(s, "copy")
    /\ UNCHANGED <<users, allSize, global, wr, quiet, others, inputs, claimed>>

ReadCopy(s) ==
    /\ ReaderAt(s, "copy")
    /\ rd' = [rd EXCEPT ![s].cred = result, ![s].pc = "login"]
    /\ UNCHANGED <<tablevars, wr, quiet, others, inputs, claimed>>

\* strncmp() over the length of the stored pin: an empty one accepts any line.
PinMatches(s) == rd[s].cred.pin \in {NoUser, rd[s].line.user}

\* A new name on a connection that has one is taken for a pin, too.  The answer
\* is followed by ACK_MSG.
Login(s) ==
    /\ ReaderAt(s, "login")
    /\ LET l == rd[s].line
           ok == IF l.kind = "pin" THEN PinMatches(s) ELSE rd[s].cred.pin = NoUser
       IN  IF ok THEN SocketUpdate(rd[s].cred.name, TRUE, s) ELSE UNCHANGED users
    /\ WriteTwice(s)
    /\ rd' = [rd EXCEPT ![s].cred = NoResult, ![s].pc = "read"]
    /\ UNCHANGED <<result, allSize, global, wr, others, inputs, claimed>>

Store(s) ==
    /\ ReaderAt(s, "store")
    /\ Update(rd[s].line.user, rd[s].line.msg, TRUE)
    /\ ReaderTo(s, "read")
    /\ UNCHANGED <<result, allSize, global, wr, quiet, others, inputs, claimed>>

\* "finger": count_active_users(), then retrieve_active_user(), which counts
\* again for its array, fills it, and resets GLOBAL; then the list is written.
\* Mutant: the first count forgets WHERE STATUS = 1.
CountEveryone(s) ==
    /\ ReaderAt(s, "count")
    /\ rd' = [rd EXCEPT ![s].no = Cardinality(users), ![s].pc = "alloc"]
    /\ UNCHANGED <<tablevars, wr, quiet, others, inputs, claimed>>

Count(s) ==
    /\ ReaderAt(s, "count")
    /\ rd' = [rd EXCEPT ![s].no = Cardinality(Active), ![s].pc = "alloc"]
    /\ UNCHANGED <<tablevars, wr, quiet, others, inputs, claimed>>

Allocate(s) ==
    /\ ReaderAt(s, "alloc")
    /\ allSize' = Cardinality(Active) /\ CleanResult
    /\ ReaderTo(s, "select")
    /\ UNCHANGED <<users, global, wr, quiet, others, inputs, claimed>>

Select(s) ==
    /\ ReaderAt(s, "select")
    /\ global' = global + Cardinality(Active)
    /\ ReaderTo(s, "frame")
    /\ UNCHANGED <<users, result, allSize, wr, quiet, others, inputs, claimed>>

Frame(s) ==
    /\ ReaderAt(s, "frame")
    /\ global' = 0
    /\ Write(s)
    /\ rd' = [rd EXCEPT ![s].no = 0, ![s].pc = "read"]
    /\ gone' = [gone EXCEPT ![s] = FALSE]
    /\ UNCHANGED <<users, result, allSize, wr, mail, shown, restarted, collided, inputs, claimed>>

--------------------------------------------------------------------------------
(* handler_write()                                                         *)

WriteClean(s) ==
    /\ WriterAt(s, "clean") /\ CleanResult /\ WriterTo(s, "load")
    /\ UNCHANGED <<users, allSize, global, rd, quiet, others, inputs, claimed>>

WriteLoad(s) ==
    /\ WriterAt(s, "load") /\ LoadRow(s) /\ WriterTo(s, "copy")
    /\ UNCHANGED <<users, allSize, global, rd, quiet, others, inputs, claimed>>

\* parse_message(): an empty user name leaves name[] as it is.
ParseMessage(s) ==
    /\ WriterAt(s, "copy")
    /\ wr' = [wr EXCEPT ![s].data = result.msg,
                        ![s].name = IF result.name = NoUser THEN @ ELSE result.name,
                        ![s].pc = "act"]
    /\ UNCHANGED <<tablevars, rd, quiet, others, inputs, claimed>>

\* No message: count down, and log out at the end.
Wait(s) ==
    /\ WriterAt(s, "act") /\ wr[s].data = <<>>
    /\ wr' = [wr EXCEPT ![s].left = IF @ \in {0, Never} THEN @ ELSE @ - 1,
                        ![s].pc = IF wr[s].left = 0 THEN "logout" ELSE "clean"]
    /\ UNCHANGED <<tablevars, rd, quiet, others, inputs, claimed>>

\* Mutant: the filter compares with the first message only.
FiltersAfterFirst(w) == w.prev # <<>>

\* strncmp() over the length of the new message.
Filtered(w) == IsPrefix(w.data, w.prev)

\* A message is written unless it begins the last one; strncpy() leaves the
\* tail of a longer one behind it.
Forward(s) ==
    /\ WriterAt(s, "act") /\ wr[s].data # <<>>
    /\ LET w == wr[s]
           tail == SubSeq(w.prev, Len(w.data) + 1, Len(w.prev))
       IN  /\ wr' = [wr EXCEPT ![s] = [w EXCEPT !.left = Patience, !.pc = "clean",
                        !.prev = IF Filtered(w) THEN @ ELSE w.data \o tail, !.data = <<>>]]
           /\ IF Filtered(w) THEN UNCHANGED <<conn, exit, mail, shown>>
              ELSE /\ Write(s)
                   /\ IF conn[s] = "open"
                      THEN /\ mail' = [mail EXCEPT ![s] = w.name]
                           /\ shown' = [shown EXCEPT ![s] = w.data]
                      ELSE UNCHANGED <<mail, shown>>
    /\ UNCHANGED <<tablevars, rd, restarted, collided, gone, inputs, claimed>>

\* update(name, "", "0")
Logout(s) ==
    /\ WriterAt(s, "logout")
    /\ Update(wr[s].name, <<>>, FALSE) /\ Depart
    /\ WriterTo(s, "leave")
    /\ UNCHANGED <<result, allSize, global, rd, quiet, mail, shown, restarted, collided,
                   inputs, claimed>>

\* socket_update(name, "0", rand() % 1000); if it fails, the next round tries again.
Leave(s) ==
    /\ WriterAt(s, "leave")
    /\ \E id \in Ids :
        LET ok == KeyFree(wr[s].name, id) IN
        /\ SocketUpdate(wr[s].name, FALSE, id) /\ Depart
        /\ collided' = (collided \/ (ok /\ id \in Conns \ {s}))
        /\ IF ok THEN Write(s) ELSE UNCHANGED quiet
        /\ wr' = IF ok THEN [wr EXCEPT ![s] = [Asleep EXCEPT !.pc = "ended"]]
                 ELSE [wr EXCEPT ![s].pc = "clean"]
    /\ UNCHANGED <<result, allSize, global, rd, mail, shown, restarted, inputs, claimed>>

--------------------------------------------------------------------------------
ReaderStep(s) ==
    \/ ReadEnd(s) \/ ReadStatus(s) \/ AskPassword(s) \/ AssignSocket(s) \/ Register(s)
    \/ ReadClean(s) \/ ReadLoad(s) \/ ReadCopy(s) \/ Login(s) \/ Store(s)
    \/ Count(s) \/ Allocate(s) \/ Select(s) \/ Frame(s)

WriterStep(s) ==
    \/ WriteClean(s) \/ WriteLoad(s) \/ ParseMessage(s) \/ Wait(s) \/ Forward(s)
    \/ Logout(s) \/ Leave(s)

Next ==
    \/ Restart
    \/ \E s \in Conns : Accept(s) \/ Close(s) \/ ReadLine(s) \/ ReaderStep(s) \/ WriterStep(s)

Spec == Init /\ [][Next]_vars

\* The operating system runs every thread again and again; a thread that waits
\* for another one to leave a call gets its turn.  Nothing is owed by a client.
FairSpec ==
    /\ Spec
    /\ \A s \in Conns : SF_vars(ReaderStep(s)) /\ SF_vars(WriterStep(s))

--------------------------------------------------------------------------------
\* A message goes to a connection on which the name of its owner was typed
\* (README.md: it is written "to the particular client socket").
MailForOwner == \A s \in Conns : mail[s] # NoUser => mail[s] \in claimed[s]

\* Have all calls worked alone, on the rows of this run and on numbers of their own?
Undisturbed == ~Overlap /\ ~restarted /\ ~collided

\* So long as calls do not overlap, a message is for its connection; a restart,
\* which leaves the old numbers in the table, and a logout that draws the number
\* of another connection break it.
MailForClaimant == Undisturbed => MailForOwner

\* A pin opens the account of no user whose name was not typed on its connection.
LoginOfClaimant ==
    Undisturbed => \A s \in Conns :
        rd[s].pc = "login" => rd[s].cred.name \in claimed[s] \cup {NoUser}

\* insert() finds its key taken, and ends the server, only by a row of an
\* earlier run or by the number drawn at a logout.
InsertSafe == exit = "insert" => ~Undisturbed

\* The rows all_user() writes stay within the array of the second count, and the
\* loop of "finger" reads past that array (server.c:181) only if a user has gone
\* since the first count.
ListingInBounds ==
    ~Overlap => \A s \in Conns :
        /\ rd[s].pc = "select" => global + Cardinality(Active) <= allSize
        /\ (rd[s].pc = "frame" /\ rd[s].no > allSize) => gone[s]

\* The message of an active user is not the one written last to the connection
\* the row names.
Pending ==
    \E r \in Active :
        /\ r.id \in Conns /\ r.msg # <<>>
        /\ conn[r.id] = "open" /\ wr[r.id].pc \notin {"off", "ended"}
        /\ r.msg # shown[r.id]

\* Again and again what stands in the row of an active user is the message that
\* was written last to the connection of the row, if that is open and nobody has
\* logged out on it: the filter (server.c:290) keeps back repetitions only, as
\* long as no message begins another one.  A message that is overwritten before
\* the next poll is lost and does not count.
StoredIsForwarded == []<>(exit # "" \/ Overlap \/ ~Pending)
================================================================================
