------------------------------- MODULE ChatProofs ------------------------------
(***************************************************************************)
(* The safety properties of ChatServer, for any users, connections,        *)
(* messages and numbers drawn, with and without overlapping calls.         *)
(***************************************************************************)
EXTENDS ChatInv, FiniteSetTheorems, SequenceTheorems, TLAPS

--------------------------------------------------------------------------------
\* The statements on the table: what becomes of its rows, and of its key.

\* The rows of some names are rewritten one by one.
LEMMA Rewriting ==
    ASSUME NEW old, NEW new, IsFiniteSet(old), NEW f \in [old -> new],
           \A r \in new : \E q \in old : r = f[q],
           \A q1, q2 \in old : f[q1] = f[q2] => q1 = q2
    PROVE  IsFiniteSet(new) /\ Cardinality(new) = Cardinality(old)
  <1>1. f \in Surjection(old, new) /\ f \in Injection(old, new)
    BY DEF Surjection, Injection, IsInjective
  <1> QED BY <1>1, FS_Surjection

LEMMA UpdateKeeps ==
    ASSUME TableTypeOK, KeyInv, NEW u, NEW m \in Msgs, NEW active \in BOOLEAN,
           Update(u, m, active)
    PROVE  /\ users' \subseteq Row /\ KeyInv' /\ Cardinality(users') = Cardinality(users)
           /\ \A r \in users' : \E q \in users : r.id = q.id /\ r.name = q.name
  <1> DEFINE f == [r \in users |-> IF r.name = u THEN [r EXCEPT !.msg = m, !.active = active] ELSE r]
  <1>1. \A r \in users : /\ r \in Row /\ f[r] \in Row
                         /\ f[r].id = r.id /\ f[r].name = r.name
    BY DEF TableTypeOK, Row
  <1>2. users' = {f[r] : r \in users}
    BY DEF Update, Named
  <1> HIDE DEF f
  <1>3. f \in [users -> users']
    BY <1>2 DEF f
  <1>4. \A r1, r2 \in users : f[r1] = f[r2] => r1 = r2
    BY <1>1 DEF KeyInv
  <1>5. IsFiniteSet(users') /\ Cardinality(users') = Cardinality(users)
    BY <1>2, <1>3, <1>4, Rewriting DEF KeyInv
  <1>6. \A r1, r2 \in users' : r1.id = r2.id => r1 = r2
    BY <1>1, <1>2 DEF KeyInv
  <1> QED BY <1>1, <1>2, <1>5, <1>6 DEF KeyInv

LEMMA SocketUpdateKeeps ==
    ASSUME TableTypeOK, KeyInv, NEW u, NEW active \in BOOLEAN, NEW id \in Conns \cup Ids,
           SocketUpdate(u, active, id)
    PROVE  /\ users' \subseteq Row /\ KeyInv' /\ Cardinality(users') = Cardinality(users)
           /\ \A r \in users' : \/ \E q \in users : r.id = q.id /\ r.name = q.name
                                \/ KeyFree(u, id) /\ r.id = id /\ \E q \in users : q.name = u /\ r.name = u
           /\ Named(u) = {} => users' = users
  <1>1. CASE ~KeyFree(u, id)
    BY <1>1 DEF SocketUpdate, TableTypeOK, KeyInv
  <1>2. CASE Named(u) = {}
    BY <1>2 DEF SocketUpdate, TableTypeOK, KeyInv
  <1>3. CASE KeyFree(u, id) /\ Named(u) # {}
    <2> DEFINE f == [r \in users |-> IF r.name = u THEN [r EXCEPT !.id = id, !.active = active] ELSE r]
    <2>1. Holder(id) \subseteq Named(u) /\ Cardinality(Named(u)) = 1 /\ IsFiniteSet(Named(u))
      <3>1. Named(u) \subseteq users
        BY DEF Named
      <3> QED BY <1>3, <3>1, FS_Subset DEF KeyFree, KeyInv
    <2>2. PICK o : Named(u) = {o}
      BY <2>1, FS_Singleton
    <2>3. \A r \in users : /\ r \in Row /\ f[r] \in Row
                           /\ f[r].id = IF r = o THEN id ELSE r.id
                           /\ f[r].name = r.name /\ (r = o <=> r.name = u)
      BY <2>2 DEF TableTypeOK, Row, Named
    <2>4. users' = {f[r] : r \in users}
      BY <1>3 DEF SocketUpdate, Named
    <2> HIDE DEF f
    <2>5. f \in [users -> users']
      BY <2>4 DEF f
    <2>6. \A r \in users : r.id = id => r = o
      BY <2>1, <2>2 DEF Holder
    <2>7. \A r1, r2 \in users : f[r1].id = f[r2].id => r1 = r2
      BY <2>3, <2>6 DEF KeyInv
    <2>8. IsFiniteSet(users') /\ Cardinality(users') = Cardinality(users)
      BY <2>4, <2>5, <2>7, Rewriting DEF KeyInv
    <2>9. KeyInv'
      BY <2>4, <2>7, <2>8 DEF KeyInv
    <2>10. o \in users
      BY <2>2 DEF Named
    <2> QED BY <1>3, <2>3, <2>4, <2>8, <2>9, <2>10
  <1> QED BY <1>1, <1>2, <1>3 DEF KeyFree

LEMMA SocketUpdateNames ==
    ASSUME TableTypeOK, KeyInv, NEW u, NEW active \in BOOLEAN, NEW id \in Conns \cup Ids,
           SocketUpdate(u, active, id)
    PROVE  \A r \in users' : \/ \E q \in users : r.id = q.id /\ r.name = q.name
                             \/ KeyFree(u, id) /\ r.id = id /\ r.name = u
  <1>1. \A r \in users' : \/ \E q \in users : r.id = q.id /\ r.name = q.name
                          \/ KeyFree(u, id) /\ r.id = id /\ \E q \in users : q.name = u /\ r.name = u
    BY SocketUpdateKeeps
  <1> QED BY <1>1

LEMMA InsertKeeps ==
    ASSUME TableTypeOK, KeyInv, NEW u \in Users, NEW s \in Conns, Holder(s) = {}, Insert(u, s)
    PROVE  /\ users' \subseteq Row /\ KeyInv' /\ Cardinality(users) <= Cardinality(users')
           /\ \A r \in users' : r \in users \/ (r.id = s /\ r.name = u)
  <1> DEFINE n == [id |-> s, name |-> u, msg |-> Welcome, active |-> TRUE]
  <1>1. n \in Row /\ users' = users \cup {n} /\ n.id = s /\ n.name = u
    BY DEF Insert, Row
  <1> HIDE DEF n
  <1>2. IsFiniteSet(users') /\ Cardinality(users) <= Cardinality(users')
    BY <1>1, FS_AddElement, FS_CardinalityType DEF KeyInv
  <1>3. KeyInv'
    BY <1>1, <1>2 DEF KeyInv, Holder
  <1> QED BY <1>1, <1>2, <1>3 DEF TableTypeOK

--------------------------------------------------------------------------------
\* The statements and the active users: unless one of them goes, there are not
\* fewer rows of active users than before.
LEMMA ActiveMap ==
    ASSUME KeyInv, IsFiniteSet(users'), NEW f,
           \A r \in Active : f[r] \in Active',
           \A r1, r2 \in Active : f[r1] = f[r2] => r1 = r2
    PROVE  Cardinality(Active) <= Cardinality(Active')
  <1> DEFINE g == [r \in Active |-> f[r]]
  <1>1. g \in Injection(Active, Active')
    BY DEF Injection, IsInjective
  <1>2. IsFiniteSet(Active')
    BY FS_Subset DEF Active
  <1> QED BY <1>1, <1>2, FS_Injection

LEMMA UpdateActive ==
    ASSUME TableTypeOK, KeyInv, NEW u, NEW m \in Msgs, NEW active \in BOOLEAN,
           Update(u, m, active), active \/ ActiveNames \subseteq ActiveNames'
    PROVE  Cardinality(Active) <= Cardinality(Active')
  <1> DEFINE f == [r \in users |-> IF r.name = u THEN [r EXCEPT !.msg = m, !.active = active] ELSE r]
  <1>1. \A r \in users : /\ r \in Row /\ f[r].id = r.id /\ f[r].name = r.name
                         /\ f[r].active = IF r.name = u THEN active ELSE r.active
    BY DEF TableTypeOK, Row
  <1>2. users' = {f[r] : r \in users}
    BY DEF Update, Named
  <1> HIDE DEF f
  <1>3. ASSUME NEW r \in Active PROVE f[r] \in Active'
    <2>1. r \in users /\ r.active
      BY DEF Active
    <2>2. CASE r.name # u \/ active
      BY <1>1, <1>2, <2>1, <2>2 DEF Active
    <2>3. CASE r.name = u /\ ~active
      <3>1. r.name \in ActiveNames'
        BY <2>1, <2>3 DEF ActiveNames, Active
      <3>2. PICK q \in users' : q.active /\ q.name = u
        BY <2>3, <3>1 DEF ActiveNames, Active
      <3>3. PICK o \in users : q = f[o]
        BY <1>2, <3>2
      <3> QED BY <1>1, <2>3, <3>2, <3>3
    <2> QED BY <2>2, <2>3
  <1>4. \A r1, r2 \in Active : f[r1] = f[r2] => r1 = r2
    BY <1>1 DEF KeyInv, Active
  <1>5. IsFiniteSet(users')
    BY UpdateKeeps DEF KeyInv
  <1> QED BY <1>3, <1>4, <1>5, ActiveMap

LEMMA SocketUpdateActive ==
    ASSUME TableTypeOK, KeyInv, NEW u, NEW active \in BOOLEAN, NEW id \in Conns \cup Ids,
           SocketUpdate(u, active, id), active \/ ActiveNames \subseteq ActiveNames'
    PROVE  Cardinality(Active) <= Cardinality(Active')
  <1>1. KeyInv' /\ IsFiniteSet(users') /\ IsFiniteSet(users)
    BY SocketUpdateKeeps DEF KeyInv
  <1>2. CASE UNCHANGED users
    <2>1. Active' = Active /\ Cardinality(Active) \in Nat
      BY <1>1, <1>2, FS_Subset, FS_CardinalityType DEF Active
    <2> QED BY <2>1
  <1>3. CASE Named(u) = {}
    <2>1. UNCHANGED users
      BY <1>3, SocketUpdateKeeps
    <2> QED BY <1>2, <2>1
  <1>4. CASE KeyFree(u, id) /\ Named(u) # {}
    <2> DEFINE f == [r \in users |-> IF r.name = u THEN [r EXCEPT !.id = id, !.active = active] ELSE r]
    <2>1. PICK o : Named(u) = {o}
      <3>1. Named(u) \subseteq users
        BY DEF Named
      <3> QED BY <1>1, <1>4, <3>1, FS_Subset, FS_Singleton DEF KeyFree
    <2>2. \A r \in users : /\ r \in Row /\ f[r].id = (IF r.name = u THEN id ELSE r.id)
                           /\ f[r].name = r.name /\ (r = o <=> r.name = u)
                           /\ f[r].active = IF r.name = u THEN active ELSE r.active
      BY <2>1 DEF TableTypeOK, Row, Named
    <2>3. users' = {f[r] : r \in users}
      BY <1>4 DEF SocketUpdate, Named
    <2> HIDE DEF f
    <2>4. ASSUME NEW r \in Active PROVE f[r] \in Active'
      <3>1. r \in users /\ r.active
        BY DEF Active
      <3>2. CASE r.name # u \/ active
        BY <2>2, <2>3, <3>1, <3>2 DEF Active
      <3>3. CASE r.name = u /\ ~active
        <4>1. r.name \in ActiveNames'
          BY <3>1, <3>3 DEF ActiveNames, Active
        <4>2. PICK q \in users' : q.active /\ q.name = u
          BY <3>3, <4>1 DEF ActiveNames, Active
        <4>3. PICK p \in users : q = f[p]
          BY <2>3, <4>2
        <4> QED BY <2>2, <3>3, <4>2, <4>3
      <3> QED BY <3>2, <3>3
    <2>5. \A r1, r2 \in Active : f[r1] = f[r2] => r1 = r2
      <3> SUFFICES ASSUME NEW r1 \in users, NEW r2 \in users, f[r1] = f[r2] PROVE r1 = r2
        BY DEF Active
      <3>1. r1.name = r2.name
        BY <2>2
      <3>2. CASE r1.name = u
        BY <2>2, <3>1, <3>2
      <3>3. CASE r1.name # u
        BY <2>2, <3>1, <3>3 DEF KeyInv
      <3> QED BY <3>2, <3>3
    <2> QED BY <1>1, <2>4, <2>5, ActiveMap
  <1>5. CASE ~KeyFree(u, id)
    BY <1>2, <1>5 DEF SocketUpdate
  <1> QED BY <1>3, <1>4, <1>5

LEMMA InsertActive ==
    ASSUME TableTypeOK, KeyInv, NEW u \in Users, NEW s \in Conns, Holder(s) = {}, Insert(u, s)
    PROVE  Cardinality(Active) <= Cardinality(Active')
  <1>1. IsFiniteSet(users')
    BY InsertKeeps DEF KeyInv
  <1>2. Active \subseteq Active' /\ IsFiniteSet(Active')
    BY <1>1, FS_Subset DEF Active, Insert
  <1> QED BY <1>2, FS_Subset

--------------------------------------------------------------------------------
\* Types.
LEMMA ReaderMoves ==
    ASSUME NEW s \in Conns, rd \in [Conns -> Reader], NEW pc,
           pc \in {"off", "read", "status", "ask", "move", "insert", "clean", "load", "copy",
                   "login", "store", "count", "alloc", "select", "frame", "ended"}
    PROVE  [rd EXCEPT ![s].pc = pc] \in [Conns -> Reader]
  BY DEF Reader

LEMMA WriterMoves ==
    ASSUME NEW s \in Conns, wr \in [Conns -> Writer], NEW pc,
           pc \in {"off", "clean", "load", "copy", "act", "logout", "leave", "ended"}
    PROVE  [wr EXCEPT ![s].pc = pc] \in [Conns -> Writer]
  BY DEF Writer

LEMMA WriteType ==
    ASSUME NEW s \in Conns, Write(s), conn \in [Conns -> {"none", "open", "closed", "reset"}],
           exit \in {"", "insert", "read", "pipe"}
    PROVE  /\ conn' \in [Conns -> {"none", "open", "closed", "reset"}]
           /\ exit' \in {"", "insert", "read", "pipe"}
  BY DEF Write

LEMMA WriteTwiceType ==
    ASSUME NEW s \in Conns, WriteTwice(s), conn \in [Conns -> {"none", "open", "closed", "reset"}],
           exit \in {"", "insert", "read", "pipe"}
    PROVE  /\ conn' \in [Conns -> {"none", "open", "closed", "reset"}]
           /\ exit' \in {"", "insert", "read", "pipe"}
           /\ exit' \in {exit, "pipe"}
  BY DEF WriteTwice, Write

\* What the table is after a step: a step that leaves it alone, and each of the others.
LEMMA SameTable ==
    ASSUME TableTypeOK, KeyInv, UNCHANGED users
    PROVE  users' \subseteq Row /\ KeyInv' /\ Cardinality(users) <= Cardinality(users')
  BY FS_CardinalityType DEF TableTypeOK, KeyInv

LEMMA ReaderKeepsTable ==
    ASSUME TypeOK, KeyInv, LineInv, NEW s \in Conns, ReadLine(s) \/ ReaderStep(s)
    PROVE  users' \subseteq Row /\ KeyInv' /\ Cardinality(users) <= Cardinality(users')
  <1>1. /\ TableTypeOK /\ Cardinality(users) \in Nat /\ rd[s] \in Reader
        /\ s \in Conns \cup Ids /\ TRUE \in BOOLEAN /\ FALSE \in BOOLEAN
    BY FS_CardinalityType DEF TypeOK, KeyInv
  <1>2. rd[s].line \in Line /\ rd[s].cred.name \in Users \cup {NoUser}
    BY <1>1 DEF Reader, Result
  <1>3. CASE AssignSocket(s)
    <2>1. SocketUpdate(rd[s].line.user, FALSE, s)
      BY <1>3 DEF AssignSocket
    <2>2. users' \subseteq Row /\ KeyInv' /\ Cardinality(users') = Cardinality(users)
      BY <1>1, <2>1, SocketUpdateKeeps
    <2> QED BY <1>1, <2>2
  <1>4. CASE Register(s)
    <2>1. CASE Holder(s) # {}
      BY <1>1, <1>4, <2>1, SameTable DEF Register
    <2>2. CASE Holder(s) = {}
      <3>1. rd[s].line.user \in Users
        BY <1>2, <1>4 DEF LineInv, Line, Register, ReaderAt
      <3>2. Insert(rd[s].line.user, s)
        BY <1>4, <2>2 DEF Register
      <3> QED BY <1>1, <2>2, <3>1, <3>2, InsertKeeps
    <2> QED BY <2>1, <2>2
  <1>5. CASE Login(s)
    <2>1. UNCHANGED users \/ SocketUpdate(rd[s].cred.name, TRUE, s)
      BY <1>5 DEF Login
    <2>2. CASE SocketUpdate(rd[s].cred.name, TRUE, s)
      <3>1. users' \subseteq Row /\ KeyInv' /\ Cardinality(users') = Cardinality(users)
        BY <1>1, <2>2, SocketUpdateKeeps
      <3> QED BY <1>1, <3>1
    <2> QED BY <1>1, <2>1, <2>2, SameTable
  <1>6. CASE Store(s)
    <2>1. rd[s].line.msg \in Msgs
      BY <1>2, TableAssumption DEF Line
    <2>2. Update(rd[s].line.user, rd[s].line.msg, TRUE)
      BY <1>6 DEF Store
    <2>3. users' \subseteq Row /\ KeyInv' /\ Cardinality(users') = Cardinality(users)
      BY <1>1, <2>1, <2>2, UpdateKeeps
    <2> QED BY <1>1, <2>3
  <1>7. CASE UNCHANGED users
    BY <1>1, <1>7, SameTable
  <1> QED
    BY <1>3, <1>4, <1>5, <1>6, <1>7
    DEF ReaderStep, ReadLine, ReadEnd, ReadStatus, AskPassword, ReadClean, ReadLoad, ReadCopy,
        Count, Allocate, Select, Frame, tablevars

LEMMA ReaderKeepsSockets ==
    ASSUME TypeOK, NEW s \in Conns, ReadLine(s) \/ ReaderStep(s)
    PROVE  /\ conn' \in [Conns -> {"none", "open", "closed", "reset"}]
           /\ exit' \in {"", "insert", "read", "pipe"}
  <1>1. /\ conn \in [Conns -> {"none", "open", "closed", "reset"}]
        /\ exit \in {"", "insert", "read", "pipe"}
    BY DEF TypeOK
  <1>2. CASE Write(s)
    BY <1>1, <1>2, WriteType
  <1>3. CASE UNCHANGED conn /\ exit' \in {exit, "insert", "read"}
    BY <1>1, <1>3
  <1>4. CASE WriteTwice(s)
    BY <1>1, <1>4, WriteTwiceType
  <1> QED
    BY <1>2, <1>3, <1>4
    DEF ReaderStep, ReadLine, ReadEnd, ReadStatus, AskPassword, AssignSocket, Register, ReadClean,
        ReadLoad, ReadCopy, Login, Store, Count, Allocate, Select, Frame, quiet

\* The globals of mysqlite.h.
LEMMA CleanType ==
    ASSUME TableTypeOK, CleanResult
    PROVE  result' \in Result
  BY TableAssumption DEF TableTypeOK, Result, CleanResult

LEMMA LoadType ==
    ASSUME TableTypeOK, NEW s, LoadRow(s)
    PROVE  result' \in Result
  <1>1. CASE Holder(s) = {}
    BY <1>1 DEF LoadRow, TableTypeOK
  <1>2. CASE Holder(s) # {}
    <2>1. PICK r \in Holder(s) : result' = [name |-> r.name, pin |-> r.name, msg |-> r.msg]
      BY <1>2 DEF LoadRow
    <2>2. r \in Row
      BY DEF Holder, TableTypeOK
    <2> QED BY <2>1, <2>2 DEF Row, Result
  <1> QED BY <1>1, <1>2

LEMMA ActiveCount ==
    ASSUME KeyInv
    PROVE  /\ Cardinality(Active) \in Nat /\ Cardinality(users) \in Nat
           /\ Cardinality(Active) <= Cardinality(users)
           /\ Cardinality(Active) = Cardinality(users) => Active = users
  <1>1. Active \subseteq users /\ IsFiniteSet(users)
    BY DEF Active, KeyInv
  <1> QED BY <1>1, FS_Subset, FS_CardinalityType

LEMMA ReaderKeepsGlobals ==
    ASSUME TypeOK, KeyInv, NEW s \in Conns, ReadLine(s) \/ ReaderStep(s)
    PROVE  result' \in Result /\ allSize' \in Nat /\ global' \in Nat
  <1>1. TableTypeOK /\ result \in Result /\ allSize \in Nat /\ global \in Nat
    BY DEF TypeOK, TableTypeOK
  <1>2. CASE ReadClean(s) \/ Allocate(s)
    BY <1>1, <1>2, CleanType, ActiveCount DEF ReadClean, Allocate
  <1>3. CASE ReadLoad(s)
    BY <1>1, <1>3, LoadType DEF ReadLoad
  <1>4. CASE Select(s) \/ Frame(s)
    BY <1>1, <1>4, ActiveCount DEF Select, Frame
  <1>5. CASE UNCHANGED <<result, allSize, global>>
    BY <1>1, <1>5
  <1> QED
    BY <1>2, <1>3, <1>4, <1>5
    DEF ReaderStep, ReadLine, ReadEnd, ReadStatus, AskPassword, AssignSocket, Register, ReadCopy,
        Login, Store, Count, tablevars

\* Where a reader goes from the status of a user.
LEMMA StatusGoes ==
    ASSUME NEW s \in Conns, ReadStatus(s)
    PROVE  \/ ReaderTo(s, "store") \/ ReaderTo(s, "read")
           \/ ReaderTo(s, "ask") /\ rd[s].line.kind = "name"
           \/ ReaderTo(s, "clean") /\ rd[s].registered
           \/ ReaderTo(s, "insert") /\ ~rd[s].registered /\ rd[s].line.kind # "mail"
  <1>1. CASE rd[s].line.kind = "mail"
    BY <1>1 DEF ReadStatus
  <1>2. CASE rd[s].line.kind # "mail"
    <2>1. PICK flag \in IF rd[s].line.kind = "name" THEN StatusOf(rd[s].line.user) ELSE {-1} :
            ReaderTo(s, CASE flag = 0 -> "ask"
                          [] flag = 1 -> "read"
                          [] flag = -1 -> IF rd[s].registered THEN "clean" ELSE "insert")
      BY <1>2 DEF ReadStatus
    <2>2. flag \in {-1, 0, 1}
      BY <2>1 DEF StatusOf
    <2> QED BY <1>2, <2>1, <2>2
  <1> QED BY <1>1, <1>2

LEMMA ReaderKeepsReaders ==
    ASSUME TypeOK, KeyInv, NEW s \in Conns, ReadLine(s) \/ ReaderStep(s)
    PROVE  rd' \in [Conns -> Reader]
  <1>1. rd \in [Conns -> Reader] /\ result \in Result /\ Cardinality(Active) \in Nat
    BY ActiveCount DEF TypeOK, TableTypeOK
  <1>2. NoResult \in Result
    BY TableAssumption DEF NoResult, Result
  <1>3. CASE ReadLine(s)
    <2>1. PICK l \in Line : rd' = [rd EXCEPT ![s].line = l, ![s].pc = Branch[l.kind]]
      BY <1>3 DEF ReadLine
    <2>2. Branch[l.kind] \in {"status", "count"}
      BY DEF Line, Branch
    <2>3. ASSUME NEW w \in Reader PROVE [w EXCEPT !.line = l, !.pc = Branch[l.kind]] \in Reader
      BY <2>2 DEF Reader
    <2>4. rd' = [rd EXCEPT ![s] = [rd[s] EXCEPT !.line = l, !.pc = Branch[l.kind]]]
      BY <1>1, <2>1
    <2> QED BY <1>1, <2>3, <2>4
  <1>4. CASE ReadStatus(s)
    BY <1>1, <1>4, StatusGoes, ReaderMoves DEF ReaderTo
  <1>5. CASE AssignSocket(s) \/ Register(s)
    <2>1. UNCHANGED rd \/ rd' = [rd EXCEPT ![s].registered = TRUE, ![s].pc = "read"]
      BY <1>5 DEF AssignSocket, Register
    <2>2. ASSUME NEW w \in Reader PROVE [w EXCEPT !.registered = TRUE, !.pc = "read"] \in Reader
      BY DEF Reader
    <2>3. CASE rd' = [rd EXCEPT ![s] = [rd[s] EXCEPT !.registered = TRUE, !.pc = "read"]]
      BY <1>1, <2>2, <2>3
    <2> QED BY <1>1, <2>1, <2>3
  <1>6. CASE ReadCopy(s)
    <2>1. ASSUME NEW w \in Reader PROVE [w EXCEPT !.cred = result, !.pc = "login"] \in Reader
      BY <1>1 DEF Reader
    <2>2. rd' = [rd EXCEPT ![s] = [rd[s] EXCEPT !.cred = result, !.pc = "login"]]
      BY <1>1, <1>6 DEF ReadCopy
    <2> QED BY <1>1, <2>1, <2>2
  <1>7. CASE Login(s)
    <2>1. ASSUME NEW w \in Reader PROVE [w EXCEPT !.cred = NoResult, !.pc = "read"] \in Reader
      BY <1>2 DEF Reader
    <2>2. rd' = [rd EXCEPT ![s] = [rd[s] EXCEPT !.cred = NoResult, !.pc = "read"]]
      BY <1>1, <1>7 DEF Login
    <2> QED BY <1>1, <2>1, <2>2
  <1>8. CASE Count(s) \/ Frame(s)
    BY <1>1, <1>8 DEF Count, Frame, Reader
  <1>9. CASE ReadEnd(s) \/ AskPassword(s) \/ ReadClean(s) \/ ReadLoad(s) \/ Store(s) \/ Allocate(s) \/ Select(s)
    <2>1. UNCHANGED rd \/ \E pc \in {"ended", "move", "load", "copy", "read", "select", "frame"} : ReaderTo(s, pc)
      BY <1>9 DEF ReadEnd, AskPassword, ReadClean, ReadLoad, Store, Allocate, Select
    <2> QED BY <1>1, <2>1, ReaderMoves DEF ReaderTo
  <1> QED BY <1>3, <1>4, <1>5, <1>6, <1>7, <1>8, <1>9 DEF ReaderStep


\* What a step of handler_read leaves alone.
LEMMA ReaderFrame ==
    ASSUME NEW s \in Conns, ReadLine(s) \/ ReaderStep(s)
    PROVE  UNCHANGED <<wr, mail, shown, restarted, collided>>
  BY DEF ReaderStep, ReadLine, ReadEnd, ReadStatus, AskPassword, AssignSocket, Register, ReadClean,
         ReadLoad, ReadCopy, Login, Store, Count, Allocate, Select, Frame, others

\* What a listing notes of the users who go.
LEMMA DepartType ==
    ASSUME TypeOK, Depart
    PROVE  gone' \in [Conns -> BOOLEAN]
  BY DEF TypeOK, Depart

LEMMA ReaderNotes ==
    ASSUME TypeOK, NEW s \in Conns, ReadLine(s) \/ ReaderStep(s)
    PROVE  /\ Depart \/ UNCHANGED gone \/ (Frame(s) /\ UNCHANGED users /\ gone' = [gone EXCEPT ![s] = FALSE])
           /\ gone' \in [Conns -> BOOLEAN]
  <1>1. Depart \/ UNCHANGED gone \/ (Frame(s) /\ UNCHANGED users /\ gone' = [gone EXCEPT ![s] = FALSE])
    BY DEF ReaderStep, ReadLine, ReadEnd, ReadStatus, AskPassword, AssignSocket, Register, ReadClean,
           ReadLoad, ReadCopy, Login, Store, Count, Allocate, Select, Frame, others
  <1> QED BY <1>1, DepartType DEF TypeOK

LEMMA ReaderClaims ==
    ASSUME TypeOK, NEW s \in Conns, ReadLine(s) \/ ReaderStep(s)
    PROVE  inputs' \in 0..MaxInputs /\ claimed' \in [Conns -> SUBSET Users]
  <1>1. CASE ReadLine(s)
    <2>1. inputs' \in 0..MaxInputs
      <3>1. inputs \in 0..MaxInputs /\ inputs < MaxInputs /\ inputs' = inputs + 1
        BY <1>1 DEF ReadLine, Input, TypeOK
      <3> QED BY <3>1, ChatAssumption
    <2>2. PICK l \in Line :
            claimed' = IF l.kind = "name" THEN [claimed EXCEPT ![s] = @ \cup {l.user}] ELSE claimed
      BY <1>1 DEF ReadLine
    <2>3. l.kind = "name" => l.user \in Users
      BY DEF Line
    <2>4. claimed' \in [Conns -> SUBSET Users]
      BY <2>2, <2>3 DEF TypeOK
    <2> QED BY <2>1, <2>4
  <1>2. CASE ReaderStep(s)
    <2>1. UNCHANGED <<inputs, claimed>>
      BY <1>2
      DEF ReaderStep, ReadEnd, ReadStatus, AskPassword, AssignSocket, Register, ReadClean,
          ReadLoad, ReadCopy, Login, Store, Count, Allocate, Select, Frame
    <2> QED BY <2>1 DEF TypeOK
  <1> QED BY <1>1, <1>2

LEMMA ReaderTypes ==
    ASSUME TypeOK, KeyInv, LineInv, NEW s \in Conns, ReadLine(s) \/ ReaderStep(s)
    PROVE  TypeOK' /\ KeyInv' /\ Cardinality(users) <= Cardinality(users')
  BY ReaderKeepsTable, ReaderKeepsSockets, ReaderKeepsGlobals, ReaderKeepsReaders, ReaderFrame,
     ReaderClaims, ReaderNotes
  DEF TypeOK, TableTypeOK

\* What a step of handler_write leaves alone.
LEMMA WriterFrame ==
    ASSUME NEW s \in Conns, WriterStep(s)
    PROVE  UNCHANGED <<allSize, global, rd, restarted, inputs, claimed>>
  BY DEF WriterStep, WriteClean, WriteLoad, ParseMessage, Wait, Forward, Logout, Leave, others,
         tablevars

LEMMA WriterKeepsTable ==
    ASSUME TypeOK, KeyInv, NEW s \in Conns, WriterStep(s)
    PROVE  users' \subseteq Row /\ KeyInv' /\ Cardinality(users') = Cardinality(users)
  <1>1. /\ TableTypeOK /\ FALSE \in BOOLEAN /\ <<>> \in Msgs
    BY TableAssumption DEF TypeOK
  <1>2. CASE Logout(s)
    <2>1. Update(wr[s].name, <<>>, FALSE)
      BY <1>2 DEF Logout
    <2> QED BY <1>1, <2>1, UpdateKeeps
  <1>3. CASE Leave(s)
    <2>1. PICK id \in Conns \cup Ids : SocketUpdate(wr[s].name, FALSE, id)
      BY <1>3 DEF Leave
    <2> QED BY <1>1, <2>1, SocketUpdateKeeps
  <1>4. CASE UNCHANGED users
    BY <1>1, <1>4 DEF TableTypeOK, KeyInv
  <1> QED
    BY <1>2, <1>3, <1>4
    DEF WriterStep, WriteClean, WriteLoad, ParseMessage, Wait, Forward, tablevars

LEMMA WriterKeepsSockets ==
    ASSUME TypeOK, NEW s \in Conns, WriterStep(s)
    PROVE  /\ conn' \in [Conns -> {"none", "open", "closed", "reset"}]
           /\ exit' \in {"", "pipe"} \cup {exit}
           /\ result' \in Result
  <1>1. /\ conn \in [Conns -> {"none", "open", "closed", "reset"}] /\ TableTypeOK
        /\ exit \in {"", "insert", "read", "pipe"} /\ result \in Result
    BY DEF TypeOK, TableTypeOK
  <1>2. /\ conn' \in [Conns -> {"none", "open", "closed", "reset"}]
        /\ exit' \in {"", "pipe"} \cup {exit}
    <2>1. CASE Write(s)
      BY <1>1, <2>1 DEF Write
    <2>2. CASE UNCHANGED quiet
      BY <1>1, <2>2 DEF quiet
    <2> QED BY <2>1, <2>2
            DEF WriterStep, WriteClean, WriteLoad, ParseMessage, Wait, Forward, Logout, Leave, quiet
  <1>3. result' \in Result
    BY <1>1, CleanType, LoadType
    DEF WriterStep, WriteClean, WriteLoad, ParseMessage, Wait, Forward, Logout, Leave, tablevars
  <1> QED BY <1>2, <1>3

LEMMA WriterKeepsWriters ==
    ASSUME TypeOK, NEW s \in Conns, WriterStep(s)
    PROVE  /\ wr' \in [Conns -> Writer] /\ mail' \in [Conns -> Users \cup {NoUser}]
           /\ shown' \in [Conns -> Seq(Nat)] /\ collided' \in BOOLEAN
  <1>1. /\ wr \in [Conns -> Writer] /\ wr[s] \in Writer /\ result \in Result
        /\ mail \in [Conns -> Users \cup {NoUser}] /\ shown \in [Conns -> Seq(Nat)]
        /\ collided \in BOOLEAN
    BY DEF TypeOK, TableTypeOK
  <1>2. NoUser \in Users \cup {NoUser} /\ Asleep \in Writer
    BY DEF Asleep, Writer, Never, Patience
  <1>3. CASE WriteClean(s) \/ WriteLoad(s) \/ Logout(s)
    <2>1. PICK pc \in {"load", "copy", "leave"} : WriterTo(s, pc)
      BY <1>3 DEF WriteClean, WriteLoad, Logout
    <2>2. UNCHANGED <<mail, shown, collided>>
      BY <1>3 DEF WriteClean, WriteLoad, Logout, others
    <2>3. [wr EXCEPT ![s].pc = pc] \in [Conns -> Writer]
      BY <1>1, <2>1, WriterMoves
    <2> QED BY <1>1, <2>1, <2>2, <2>3 DEF WriterTo
  <1>4. CASE ParseMessage(s)
    <2>1. result.msg \in Seq(Nat) /\ result.name \in Users \cup {NoUser}
      <3>1. Welcome \in Seq(Nat)
        BY DEF Welcome
      <3> QED BY <1>1, <3>1, TableAssumption DEF Result
    <2>2. PICK n \in Users \cup {NoUser} :
            wr' = [wr EXCEPT ![s].data = result.msg, ![s].name = n, ![s].pc = "act"]
      BY <1>1, <1>4, <2>1 DEF ParseMessage, Writer
    <2>3. wr' \in [Conns -> Writer]
      BY <1>1, <2>1, <2>2 DEF Writer
    <2> QED BY <1>1, <1>4, <2>3 DEF ParseMessage, others
  <1>5. CASE Wait(s)
    <2>1. wr[s].left \in 0..4 /\ Never = 4
      BY <1>1 DEF Writer, Never, Patience
    <2> DEFINE left == IF wr[s].left \in {0, Never} THEN wr[s].left ELSE wr[s].left - 1
               pc == IF wr[s].left = 0 THEN "logout" ELSE "clean"
    <2>2. left \in 0..4 /\ pc \in {"logout", "clean"}
      BY <2>1
    <2>3. wr' = [wr EXCEPT ![s].left = left, ![s].pc = pc]
      BY <1>1, <1>5 DEF Wait
    <2> HIDE DEF left, pc
    <2>4. wr' \in [Conns -> Writer]
      BY <1>1, <2>1, <2>2, <2>3 DEF Writer
    <2> QED BY <1>1, <1>5, <2>4 DEF Wait, others
  <1>6. CASE Forward(s)
    <2> DEFINE w == wr[s]
               tail == SubSeq(w.prev, Len(w.data) + 1, Len(w.prev))
    <2>1. w.data \in Seq(Nat) /\ w.prev \in Seq(Nat) /\ w.name \in Users \cup {NoUser}
      BY <1>1 DEF Writer
    <2>2. tail \in Seq(Nat)
      BY <2>1, SubSeqProperties
    <2>3. w.data \o tail \in Seq(Nat)
      BY <2>1, <2>2, ConcatProperties
    <2>4. PICK p \in Seq(Nat) :
            wr' = [wr EXCEPT ![s] = [w EXCEPT !.left = Patience, !.pc = "clean", !.prev = p, !.data = <<>>]]
      BY <1>6, <2>1, <2>3 DEF Forward
    <2>5. [w EXCEPT !.left = Patience, !.pc = "clean", !.prev = p, !.data = <<>>] \in Writer
      <3>1. Patience \in 0..Never /\ <<>> \in Seq(Nat)
        BY DEF Never, Patience
      <3> QED BY <1>1, <2>4, <3>1 DEF Writer
    <2>6. mail' \in [Conns -> Users \cup {NoUser}] /\ shown' \in [Conns -> Seq(Nat)]
      BY <1>1, <1>6, <2>1 DEF Forward
    <2> QED BY <1>1, <1>6, <2>4, <2>5, <2>6 DEF Forward
  <1>7. CASE Leave(s)
    <2>1. [Asleep EXCEPT !.pc = "ended"] \in Writer
      BY <1>2 DEF Writer
    <2>2. wr' = [wr EXCEPT ![s] = [Asleep EXCEPT !.pc = "ended"]] \/ wr' = [wr EXCEPT ![s].pc = "clean"]
      BY <1>7 DEF Leave
    <2>3. wr' \in [Conns -> Writer]
      BY <1>1, <2>1, <2>2, WriterMoves
    <2>4. collided' \in BOOLEAN
      BY <1>7, Zenon DEF Leave
    <2> QED BY <1>1, <1>7, <2>3, <2>4 DEF Leave
  <1> QED BY <1>3, <1>4, <1>5, <1>6, <1>7 DEF WriterStep

LEMMA WriterNotes ==
    ASSUME TypeOK, NEW s \in Conns, WriterStep(s)
    PROVE  (Depart \/ UNCHANGED gone) /\ gone' \in [Conns -> BOOLEAN]
  <1>1. Depart \/ UNCHANGED gone
    BY DEF WriterStep, WriteClean, WriteLoad, ParseMessage, Wait, Forward, Logout, Leave, others
  <1> QED BY <1>1, DepartType DEF TypeOK

LEMMA WriterTypes ==
    ASSUME TypeOK, KeyInv, NEW s \in Conns, WriterStep(s)
    PROVE  TypeOK' /\ KeyInv' /\ Cardinality(users') = Cardinality(users)
  <1>1. exit' \in {"", "insert", "read", "pipe"}
    BY WriterKeepsSockets DEF TypeOK
  <1> QED
    BY <1>1, WriterNotes, WriterKeepsTable, WriterKeepsSockets, WriterKeepsWriters, WriterFrame
    DEF TypeOK, TableTypeOK

LEMMA AcceptTypes ==
    ASSUME TypeOK, NEW s \in Conns, Accept(s)
    PROVE  TypeOK'
  <1>1. rd' \in [Conns -> Reader] /\ wr' \in [Conns -> Writer]
    BY ReaderMoves, WriterMoves DEF TypeOK, Accept, ReaderTo, WriterTo
  <1>2. conn' \in [Conns -> {"none", "open", "closed", "reset"}]
    BY DEF TypeOK, Accept
  <1> QED BY <1>1, <1>2 DEF TypeOK, TableTypeOK, Accept, tablevars, others

LEMMA CloseTypes ==
    ASSUME TypeOK, NEW s \in Conns, Close(s)
    PROVE  TypeOK'
  <1>1. conn' \in [Conns -> {"none", "open", "closed", "reset"}]
    BY DEF TypeOK, Close
  <1>2. inputs' \in 0..MaxInputs
    <2>1. inputs \in 0..MaxInputs /\ inputs < MaxInputs /\ inputs' = inputs + 1
      BY DEF Close, Input, TypeOK
    <2> QED BY <2>1, ChatAssumption
  <1> QED BY <1>1, <1>2 DEF TypeOK, TableTypeOK, Close, tablevars, others

LEMMA StartTypes ==
    /\ Idle \in Reader /\ Asleep \in Writer /\ NoResult \in Result
    /\ NoUser \in Users \cup {NoUser}
  <1>1. NoResult \in Result
    BY TableAssumption DEF NoResult, Result
  <1>2. NoLine \in Line
    BY DEF NoLine, Line
  <1> QED BY <1>1, <1>2 DEF Idle, Reader, Asleep, Writer, Never, Patience

LEMMA RestartTypes ==
    ASSUME TypeOK, Restart
    PROVE  TypeOK'
  <1>1. inputs' \in 0..MaxInputs
    <2>1. inputs \in 0..MaxInputs /\ inputs < MaxInputs /\ inputs' = inputs + 1
      BY DEF Restart, Input, TypeOK
    <2> QED BY <2>1, ChatAssumption
  <1>2. /\ rd' \in [Conns -> Reader] /\ wr' \in [Conns -> Writer]
        /\ conn' \in [Conns -> {"none", "open", "closed", "reset"}]
        /\ mail' \in [Conns -> Users \cup {NoUser}]
        /\ claimed' \in [Conns -> SUBSET Users] /\ result' \in Result
    BY StartTypes DEF Restart
  <1>3. shown' \in [Conns -> Seq(Nat)] /\ gone' \in [Conns -> BOOLEAN]
    <2>1. <<>> \in Seq(Nat) /\ FALSE \in BOOLEAN
      OBVIOUS
    <2> QED BY <2>1 DEF Restart
  <1> QED BY <1>1, <1>2, <1>3 DEF TypeOK, TableTypeOK, Restart

LEMMA InitTypes ==
    ASSUME Init
    PROVE  TypeOK /\ KeyInv
  <1>1. users = {} /\ KeyInv
    BY FS_EmptySet DEF Init, TableInit, KeyInv
  <1>2. inputs \in 0..MaxInputs
    <2>1. inputs = 0
      BY DEF Init
    <2> QED BY <2>1, ChatAssumption
  <1>3. TableTypeOK
    BY StartTypes DEF Init, TableInit, TableTypeOK
  <1>4. shown \in [Conns -> Seq(Nat)] /\ gone \in [Conns -> BOOLEAN]
    <2>1. <<>> \in Seq(Nat) /\ FALSE \in BOOLEAN
      OBVIOUS
    <2> QED BY <2>1 DEF Init
  <1> QED BY <1>1, <1>2, <1>3, <1>4, StartTypes DEF Init, TypeOK

--------------------------------------------------------------------------------
\* Control: who may move, and where.
LEMMA ReaderLocal ==
    ASSUME TypeOK, NEW s \in Conns, ReadLine(s) \/ ReaderStep(s)
    PROVE  /\ exit = "" /\ Step(<<"rd", s>>)
           /\ \A c \in Conns \ {s} : rd'[c] = rd[c] /\ claimed'[c] = claimed[c]
           /\ \A c \in Conns : claimed[c] \subseteq claimed'[c]
  <1>1. rd \in [Conns -> Reader] /\ claimed \in [Conns -> SUBSET Users]
    BY DEF TypeOK
  <1>2. exit = "" /\ Step(<<"rd", s>>)
    BY DEF ReaderStep, ReadLine, ReadEnd, ReadStatus, AskPassword, AssignSocket, Register, ReadClean,
           ReadLoad, ReadCopy, Login, Store, Count, Allocate, Select, Frame, ReaderAt, Step
  <1>3. CASE ReadLine(s)
    <2>1. \A c \in Conns \ {s} : rd'[c] = rd[c]
      BY <1>1, <1>3 DEF ReadLine
    <2>2. \A c \in Conns : claimed[c] \subseteq claimed'[c] /\ (c # s => claimed'[c] = claimed[c])
      <3>1. claimed' = claimed \/ \E l \in Line : claimed' = [claimed EXCEPT ![s] = @ \cup {l.user}]
        BY <1>3 DEF ReadLine
      <3> QED BY <1>1, <3>1
    <2> QED BY <1>2, <2>1, <2>2
  <1>4. CASE ReaderStep(s)
    <2>1. claimed' = claimed
      BY <1>4
      DEF ReaderStep, ReadEnd, ReadStatus, AskPassword, AssignSocket, Register, ReadClean,
          ReadLoad, ReadCopy, Login, Store, Count, Allocate, Select, Frame
    <2>2. ASSUME NEW c \in Conns \ {s} PROVE rd'[c] = rd[c]
      <3>1. CASE ReadStatus(s)
        BY <1>1, <3>1, StatusGoes DEF ReaderTo
      <3> QED
        BY <1>1, <1>4, <3>1
        DEF ReaderStep, ReadEnd, AskPassword, AssignSocket, Register, ReadClean,
            ReadLoad, ReadCopy, Login, Store, Count, Allocate, Select, Frame, ReaderTo
    <2> QED BY <1>2, <2>1, <2>2
  <1> QED BY <1>3, <1>4


\* The steps of handler_read that leave a reader inside a call, or about to
\* register; where each of them starts.
LEMMA ReaderGoes ==
    ASSUME TypeOK, NEW s \in Conns, ReadLine(s) \/ ReaderStep(s)
    PROVE  /\ rd'[s].pc = "status" => ReadLine(s)
           /\ rd'[s].pc = "move" => AskPassword(s)
           /\ rd'[s].pc \in {"ask", "clean"} => ReadStatus(s)
           /\ rd'[s].pc = "insert" => ReadStatus(s) \/ (Register(s) /\ UNCHANGED rd)
           /\ rd'[s].pc = "load" => ReadClean(s)
           /\ rd'[s].pc = "copy" => ReadLoad(s)
           /\ rd'[s].pc = "login" => ReadCopy(s)
           /\ rd'[s].pc = "alloc" => Count(s)
           /\ rd'[s].pc = "select" => Allocate(s)
           /\ rd'[s].pc = "frame" => Select(s)
           /\ rd'[s].pc # "off"
  <1>1. rd \in [Conns -> Reader]
    BY DEF TypeOK
  <1>2. CASE ReadLine(s)
    <2>1. PICK l \in Line : rd' = [rd EXCEPT ![s].line = l, ![s].pc = Branch[l.kind]]
      BY <1>2 DEF ReadLine
    <2>2. Branch[l.kind] \in {"status", "count"}
      BY DEF Line, Branch
    <2>3. rd'[s].pc \in {"status", "count"}
      BY <1>1, <2>1, <2>2 DEF Reader
    <2> QED BY <1>2, <2>3
  <1>3. CASE ReadStatus(s)
    <2>1. rd'[s].pc \in {"store", "read", "ask", "clean", "insert"}
      BY <1>1, <1>3, StatusGoes DEF ReaderTo, Reader
    <2> QED BY <1>3, <2>1
  <1>4. CASE Register(s)
    <2>1. (UNCHANGED rd /\ rd[s].pc = "insert") \/ rd'[s].pc = "read"
      BY <1>1, <1>4 DEF Register, Reader, ReaderAt
    <2> QED BY <1>4, <2>1
  <1>5. CASE ReadEnd(s) \/ AssignSocket(s) \/ Login(s) \/ Store(s) \/ Frame(s)
    <2>1. rd'[s].pc \in {"ended", "read"}
      BY <1>1, <1>5 DEF ReadEnd, AssignSocket, Login, Store, Frame, ReaderTo, ReaderAt, Reader
    <2> QED BY <2>1
  <1>6. CASE AskPassword(s)
    BY <1>1, <1>6 DEF AskPassword, ReaderTo, Reader
  <1>7. CASE ReadClean(s)
    BY <1>1, <1>7 DEF ReadClean, ReaderTo, Reader
  <1>8. CASE ReadLoad(s)
    BY <1>1, <1>8 DEF ReadLoad, ReaderTo, Reader
  <1>9. CASE ReadCopy(s)
    BY <1>1, <1>9 DEF ReadCopy, Reader
  <1>10. CASE Count(s)
    BY <1>1, <1>10 DEF Count, Reader
  <1>11. CASE Allocate(s)
    BY <1>1, <1>11 DEF Allocate, ReaderTo, Reader
  <1>12. CASE Select(s)
    BY <1>1, <1>12 DEF Select, ReaderTo, Reader
  <1> QED BY <1>2, <1>3, <1>4, <1>5, <1>6, <1>7, <1>8, <1>9, <1>10, <1>11, <1>12 DEF ReaderStep

LEMMA WriterLocal ==
    ASSUME TypeOK, NEW s \in Conns, WriterStep(s)
    PROVE  /\ exit = "" /\ Step(<<"wr", s>>)
           /\ \A c \in Conns \ {s} : wr'[c] = wr[c] /\ mail'[c] = mail[c]
           /\ wr'[s].pc = "load" => WriteClean(s)
           /\ wr'[s].pc = "copy" => WriteLoad(s)
  <1>1. wr \in [Conns -> Writer] /\ mail \in [Conns -> Users \cup {NoUser}]
    BY DEF TypeOK
  <1>2. exit = "" /\ Step(<<"wr", s>>)
    BY DEF WriterStep, WriteClean, WriteLoad, ParseMessage, Wait, Forward, Logout, Leave, WriterAt, Step
  <1>3. ASSUME NEW c \in Conns \ {s} PROVE wr'[c] = wr[c] /\ mail'[c] = mail[c]
    BY <1>1 DEF WriterStep, WriteClean, WriteLoad, ParseMessage, Wait, Forward, Logout, Leave,
                WriterTo, others
  <1>4. CASE WriteClean(s) \/ WriteLoad(s) \/ Logout(s)
    BY <1>1, <1>2, <1>3, <1>4 DEF WriteClean, WriteLoad, Logout, WriterTo, Writer
  <1>5. CASE ParseMessage(s) \/ Wait(s) \/ Forward(s) \/ Leave(s)
    <2>1. wr'[s].pc \in {"act", "logout", "clean", "ended"}
      <3>1. CASE ParseMessage(s) \/ Wait(s)
        BY <1>1, <3>1 DEF ParseMessage, Wait, Writer
      <3>2. CASE Forward(s)
        <4>1. PICK p : wr' = [wr EXCEPT ![s] = [wr[s] EXCEPT !.left = Patience, !.pc = "clean",
                                                             !.prev = p, !.data = <<>>]]
          BY <3>2 DEF Forward
        <4> QED BY <1>1, <4>1 DEF Writer
      <3>3. CASE Leave(s)
        BY <1>1, <3>3 DEF Leave, Writer, Asleep
      <3> QED BY <1>5, <3>1, <3>2, <3>3
    <2> QED BY <1>2, <1>3, <2>1
  <1> QED BY <1>4, <1>5 DEF WriterStep

LEMMA OthersOutside ==
    ASSUME ~Overlap, NEW s, NEW k \in {"rd", "wr"}, Step(<<k, s>>)
    PROVE  /\ \A c \in Conns : rd[c].pc \in {"load", "copy", "select", "frame"} => k = "rd" /\ c = s
           /\ \A c \in Conns : wr[c].pc \in {"load", "copy"} => k = "wr" /\ c = s
  <1>1. Inside \subseteq {<<k, s>>}
    BY DEF Step
  <1>2. ASSUME NEW c \in Conns, rd[c].pc \in {"load", "copy", "select", "frame"} PROVE k = "rd" /\ c = s
    <2>1. <<"rd", c>> \in Inside
      BY <1>2 DEF Inside
    <2>2. <<"rd", c>> = <<k, s>>
      BY <1>1, <2>1
    <2> QED BY <2>2
  <1>3. ASSUME NEW c \in Conns, wr[c].pc \in {"load", "copy"} PROVE k = "wr" /\ c = s
    <2>1. <<"wr", c>> \in Inside
      BY <1>3 DEF Inside
    <2>2. <<"wr", c>> = <<k, s>>
      BY <1>1, <2>1
    <2> QED BY <2>2
  <1> QED BY <1>2, <1>3

--------------------------------------------------------------------------------
\* One thread at a time is inside a call.
LEMMA AloneAt ==
    ASSUME NEW t, Inside \subseteq {t}
    PROVE  \A t1, t2 \in Inside : t1 = t2
  OBVIOUS

LEMMA ReaderAlone ==
    ASSUME TypeOK, NEW s \in Conns, ReadLine(s) \/ ReaderStep(s)
    PROVE  AloneInv'
  <1> SUFFICES ASSUME ~Overlap PROVE \A t1, t2 \in Inside' : t1 = t2
    BY DEF AloneInv
  <1>1. wr' = wr /\ Step(<<"rd", s>>) /\ \A c \in Conns \ {s} : rd'[c] = rd[c]
    BY ReaderFrame, ReaderLocal
  <1>2. /\ \A c \in Conns : rd'[c].pc \in {"load", "copy", "select", "frame"} => c = s
        /\ \A c \in Conns : wr'[c].pc \notin {"load", "copy"}
    <2>1. /\ \A c \in Conns : rd[c].pc \in {"load", "copy", "select", "frame"} => c = s
          /\ \A c \in Conns : wr[c].pc \in {"load", "copy"} => FALSE
      BY <1>1, OthersOutside
    <2> QED BY <1>1, <2>1
  <1>3. Inside' \subseteq {<<"rd", s>>}
    BY <1>2 DEF Inside
  <1> QED BY <1>3

LEMMA WriterAlone ==
    ASSUME TypeOK, NEW s \in Conns, WriterStep(s)
    PROVE  AloneInv'
  <1> SUFFICES ASSUME ~Overlap PROVE \A t1, t2 \in Inside' : t1 = t2
    BY DEF AloneInv
  <1>1. rd' = rd /\ Step(<<"wr", s>>) /\ \A c \in Conns \ {s} : wr'[c] = wr[c]
    BY WriterFrame, WriterLocal
  <1>2. /\ \A c \in Conns : rd'[c].pc \notin {"load", "copy", "select", "frame"}
        /\ \A c \in Conns : wr'[c].pc \in {"load", "copy"} => c = s
    <2>1. /\ \A c \in Conns : rd[c].pc \in {"load", "copy", "select", "frame"} => FALSE
          /\ \A c \in Conns : wr[c].pc \in {"load", "copy"} => c = s
      BY <1>1, OthersOutside
    <2> QED BY <1>1, <2>1
  <1>3. Inside' \subseteq {<<"wr", s>>}
    BY <1>2 DEF Inside
  <1> QED BY <1>3

LEMMA InsideShrinks ==
    ASSUME AloneInv, Inside' \subseteq Inside
    PROVE  AloneInv'
  BY DEF AloneInv

\* Accept and Close touch no thread that is inside a call; nobody is after a restart.
LEMMA MainAlone ==
    ASSUME TypeOK, AloneInv, Restart \/ \E s \in Conns : Accept(s) \/ Close(s)
    PROVE  AloneInv'
  <1>1. ASSUME NEW s \in Conns, Accept(s) PROVE Inside' \subseteq Inside
    <2>1. /\ rd' = [rd EXCEPT ![s].pc = "read"] /\ rd \in [Conns -> Reader]
          /\ wr' = [wr EXCEPT ![s].pc = "clean"] /\ wr \in [Conns -> Writer]
      BY <1>1 DEF Accept, ReaderTo, WriterTo, TypeOK
    <2>2. ASSUME NEW c \in Conns
          PROVE  /\ rd'[c].pc \in {"load", "copy", "select", "frame"} => rd'[c].pc = rd[c].pc
                 /\ wr'[c].pc \in {"load", "copy"} => wr'[c].pc = wr[c].pc
      BY <2>1 DEF Reader, Writer
    <2> QED BY <2>2 DEF Inside
  <1>2. ASSUME NEW s \in Conns, Close(s) PROVE Inside' \subseteq Inside
    BY <1>2 DEF Close, Inside
  <1>3. ASSUME Restart PROVE Inside' \subseteq Inside
    <2>1. \A c \in Conns : rd'[c].pc = "off" /\ wr'[c].pc = "off"
      BY <1>3 DEF Restart, Idle, Asleep
    <2> QED BY <2>1 DEF Inside
  <1> QED BY <1>1, <1>2, <1>3, InsideShrinks

--------------------------------------------------------------------------------
\* The counts of a listing.
LEMMA ReaderActive ==
    ASSUME TypeOK, KeyInv, LineInv, NEW s \in Conns, ReadLine(s) \/ ReaderStep(s)
    PROVE  \/ Cardinality(Active) <= Cardinality(Active')
           \/ Depart /\ ~(ActiveNames \subseteq ActiveNames')
  <1>1. /\ TableTypeOK /\ rd[s] \in Reader /\ rd[s].line \in Line
        /\ s \in Conns \cup Ids /\ TRUE \in BOOLEAN /\ FALSE \in BOOLEAN
    BY DEF TypeOK, Reader
  <1>2. CASE AssignSocket(s)
    <2>1. SocketUpdate(rd[s].line.user, FALSE, s) /\ Depart
      BY <1>2 DEF AssignSocket
    <2> QED BY <1>1, <2>1, SocketUpdateActive
  <1>3. CASE Login(s)
    <2>1. UNCHANGED users \/ SocketUpdate(rd[s].cred.name, TRUE, s)
      BY <1>3 DEF Login
    <2>2. CASE UNCHANGED users
      BY <2>2, ActiveCount DEF Active
    <2> QED BY <1>1, <2>1, <2>2, SocketUpdateActive
  <1>4. CASE Store(s)
    <2>1. Update(rd[s].line.user, rd[s].line.msg, TRUE) /\ rd[s].line.msg \in Msgs
      BY <1>1, <1>4, TableAssumption DEF Store, Line
    <2> QED BY <1>1, <2>1, UpdateActive
  <1>5. CASE Register(s) /\ Holder(s) = {}
    <2>1. Insert(rd[s].line.user, s) /\ rd[s].line.user \in Users
      BY <1>1, <1>5 DEF Register, ReaderAt, LineInv, Line
    <2> QED BY <1>1, <1>5, <2>1, InsertActive
  <1>6. CASE UNCHANGED users
    BY <1>6, ActiveCount DEF Active
  <1> QED
    BY <1>2, <1>3, <1>4, <1>5, <1>6
    DEF ReaderStep, ReadLine, ReadEnd, ReadStatus, AskPassword, Register, ReadClean, ReadLoad,
        ReadCopy, Count, Allocate, Select, Frame, tablevars

LEMMA WriterActive ==
    ASSUME TypeOK, KeyInv, NEW s \in Conns, WriterStep(s)
    PROVE  \/ Cardinality(Active) <= Cardinality(Active')
           \/ Depart /\ ~(ActiveNames \subseteq ActiveNames')
  <1>1. TableTypeOK /\ FALSE \in BOOLEAN /\ <<>> \in Msgs
    BY TableAssumption DEF TypeOK
  <1>2. CASE Logout(s)
    <2>1. Update(wr[s].name, <<>>, FALSE) /\ Depart
      BY <1>2 DEF Logout
    <2> QED BY <1>1, <2>1, UpdateActive
  <1>3. CASE Leave(s)
    <2>1. PICK id \in Conns \cup Ids : SocketUpdate(wr[s].name, FALSE, id) /\ Depart
      BY <1>3 DEF Leave
    <2> QED BY <1>1, <2>1, SocketUpdateActive
  <1>4. CASE UNCHANGED users
    BY <1>4, ActiveCount DEF Active
  <1> QED
    BY <1>2, <1>3, <1>4
    DEF WriterStep, WriteClean, WriteLoad, ParseMessage, Wait, Forward, tablevars

\* A count stays covered while a listing runs, unless the listing notes that a user goes.
LEMMA CountStays ==
    ASSUME TypeOK, KeyInv, KeyInv', NEW c \in Conns, rd[c].pc \in {"alloc", "select", "frame"},
           gone[c] \/ rd[c].no <= Cardinality(Active),
           \/ Cardinality(Active) <= Cardinality(Active')
           \/ Depart /\ ~(ActiveNames \subseteq ActiveNames'),
           Depart \/ gone'[c] = gone[c]
    PROVE  gone'[c] \/ rd[c].no <= Cardinality(Active')
  <1>1. rd[c].no \in Nat /\ Cardinality(Active) \in Nat /\ Cardinality(Active') \in Nat
    <2>1. Cardinality(Active') \in Nat
      <3>1. Active' \subseteq users' /\ IsFiniteSet(users')
        BY DEF Active, KeyInv
      <3> QED BY <3>1, FS_Subset, FS_CardinalityType
    <2> QED BY <2>1, ActiveCount DEF TypeOK, Reader
  <1>2. CASE Depart /\ ~(ActiveNames \subseteq ActiveNames')
    BY <1>2 DEF Depart
  <1>3. CASE Cardinality(Active) <= Cardinality(Active')
    <2>1. gone[c] => gone'[c]
      BY DEF Depart
    <2> QED BY <1>1, <1>3, <2>1
  <1> QED BY <1>2, <1>3

LEMMA ReaderLists ==
    ASSUME TypeOK, KeyInv, LineInv, ListInv, NEW s \in Conns, ReadLine(s) \/ ReaderStep(s)
    PROVE  ListInv'
  <1>1. /\ rd \in [Conns -> Reader] /\ rd' \in [Conns -> Reader]
        /\ Step(<<"rd", s>>) /\ \A c \in Conns \ {s} : rd'[c] = rd[c]
    BY ReaderLocal, ReaderTypes DEF TypeOK
  <1>2. /\ Cardinality(Active) \in Nat /\ KeyInv'
        /\ \/ Cardinality(Active) <= Cardinality(Active')
           \/ Depart /\ ~(ActiveNames \subseteq ActiveNames')
        /\ Depart \/ \A c \in Conns : (c = s /\ Frame(s)) \/ gone'[c] = gone[c]
    <2>1. KeyInv' /\ Cardinality(Active) \in Nat
      BY ReaderTypes, ActiveCount
    <2>2. gone \in [Conns -> BOOLEAN]
      BY DEF TypeOK
    <2> QED BY <2>1, <2>2, ReaderNotes, ReaderActive
  <1>3. ASSUME NEW c \in Conns, rd'[c].pc \in {"alloc", "select", "frame"}
        PROVE  gone'[c] \/ rd'[c].no <= Cardinality(Active')
    <2>2. CASE c # s
      <3>1. /\ rd'[c] = rd[c] /\ rd[c].pc \in {"alloc", "select", "frame"}
            /\ gone[c] \/ rd[c].no <= Cardinality(Active)
            /\ Depart \/ gone'[c] = gone[c]
        BY <1>1, <1>2, <1>3, <2>2 DEF ListInv
      <3>2. gone'[c] \/ rd[c].no <= Cardinality(Active')
        BY <1>2, <3>1, CountStays
      <3> QED BY <3>1, <3>2
    <2>3. CASE c = s
      <3>1. Count(s) \/ Allocate(s) \/ Select(s)
        BY <1>3, <2>3, ReaderGoes
      <3>2. CASE Count(s)
        BY <1>1, <1>2, <2>3, <3>2 DEF Count, Reader, Active, tablevars
      <3>3. CASE Allocate(s) \/ Select(s)
        <4>1. rd'[s].no = rd[s].no /\ rd[s].pc \in {"alloc", "select"}
          BY <1>1, <3>3 DEF Allocate, Select, ReaderTo, ReaderAt, Reader
        <4>2. UNCHANGED <<users, gone>>
          BY <3>3 DEF Allocate, Select, others
        <4> QED BY <2>3, <4>1, <4>2 DEF ListInv, Active
      <3> QED BY <3>1, <3>2, <3>3
    <2> QED BY <2>2, <2>3
  <1>4. ASSUME ~Overlap
        PROVE  /\ global' = 0 \/ \E c \in Conns : rd'[c].pc = "frame"
               /\ \A c \in Conns : rd'[c].pc \in {"select", "frame"} => allSize' = Cardinality(Active')
    <2>1. \A c \in Conns : rd[c].pc \in {"load", "copy", "select", "frame"} => c = s
      BY <1>1, <1>4, OthersOutside
    <2>2. CASE Select(s)
      <3>1. rd'[s].pc = "frame" /\ rd[s].pc = "select" /\ UNCHANGED <<users, allSize>>
        BY <1>1, <2>2 DEF Select, ReaderTo, ReaderAt, Reader
      <3> QED BY <1>4, <3>1 DEF ListInv, Active
    <2>3. CASE Allocate(s)
      <3>1. UNCHANGED <<users, global>> /\ allSize' = Cardinality(Active) /\ rd[s].pc = "alloc"
        BY <2>3 DEF Allocate, ReaderAt
      <3>2. global' = 0
        BY <1>4, <2>1, <3>1 DEF ListInv
      <3> QED BY <3>1, <3>2 DEF Active
    <2>4. CASE ~Select(s) /\ ~Allocate(s)
      <3>1. \A c \in Conns : rd'[c].pc \notin {"select", "frame"}
        BY <1>1, <2>1, <2>4, ReaderGoes
      <3>2. global' = 0
        <4>1. CASE Frame(s)
          BY <4>1 DEF Frame
        <4>2. CASE ~Frame(s)
          <5>1. rd[s].pc # "frame" /\ global' = global
            BY <2>4, <4>2
            DEF ReaderStep, ReadLine, ReadEnd, ReadStatus, AskPassword, AssignSocket, Register, ReadClean,
                ReadLoad, ReadCopy, Login, Store, Count, ReaderAt, tablevars
          <5> QED BY <1>4, <2>1, <5>1 DEF ListInv
        <4> QED BY <4>1, <4>2
      <3> QED BY <3>1, <3>2
    <2> QED BY <2>2, <2>3, <2>4
  <1> QED BY <1>3, <1>4 DEF ListInv

LEMMA WriterLists ==
    ASSUME TypeOK, KeyInv, ListInv, NEW s \in Conns, WriterStep(s)
    PROVE  ListInv'
  <1>1. UNCHANGED <<rd, global, allSize>> /\ Step(<<"wr", s>>) /\ KeyInv'
    BY WriterFrame, WriterLocal, WriterTypes
  <1>2. ASSUME ~Overlap, NEW c \in Conns PROVE rd[c].pc \notin {"select", "frame"}
    BY <1>1, <1>2, OthersOutside
  <1>3. ASSUME NEW c \in Conns, rd[c].pc \in {"alloc", "select", "frame"}
        PROVE  gone'[c] \/ rd[c].no <= Cardinality(Active')
    <2>1. gone[c] \/ rd[c].no <= Cardinality(Active)
      BY <1>3 DEF ListInv
    <2>2. /\ \/ Cardinality(Active) <= Cardinality(Active')
             \/ Depart /\ ~(ActiveNames \subseteq ActiveNames')
          /\ Depart \/ gone'[c] = gone[c]
      BY WriterActive, WriterNotes
    <2> QED BY <1>1, <1>3, <2>1, <2>2, CountStays
  <1> QED BY <1>1, <1>2, <1>3 DEF ListInv

LEMMA MainLists ==
    ASSUME TypeOK, LineInv, ListInv, Restart \/ \E s \in Conns : Accept(s) \/ Close(s)
    PROVE  ListInv'
  <1>1. ASSUME NEW s \in Conns, Accept(s) PROVE ListInv'
    <2>1. /\ rd' = [rd EXCEPT ![s].pc = "read"] /\ rd \in [Conns -> Reader]
          /\ UNCHANGED <<users, allSize, global, gone>> /\ rd[s].pc = "off"
      BY <1>1 DEF Accept, ReaderTo, TypeOK, LineInv, tablevars, others
    <2>2. /\ rd'[s].pc = "read"
          /\ \A c \in Conns \ {s} : rd'[c] = rd[c]
      BY <2>1 DEF Reader
    <2> QED BY <2>1, <2>2 DEF ListInv, Active
  <1>2. ASSUME NEW s \in Conns, Close(s) PROVE ListInv'
    BY <1>2 DEF Close, ListInv, tablevars, others, Active
  <1>3. ASSUME Restart PROVE ListInv'
    <2>1. \A c \in Conns : rd'[c].pc = "off"
      BY <1>3 DEF Restart, Idle
    <2>2. global' = 0
      BY <1>3 DEF Restart
    <2> QED BY <2>1, <2>2 DEF ListInv
  <1> QED BY <1>1, <1>2, <1>3

--------------------------------------------------------------------------------
\* Where the threads are and which line they work on.
LEMMA WrittenOpen ==
    ASSUME NEW s \in Conns, conn \in [Conns -> {"none", "open", "closed", "reset"}], WriteTwice(s)
    PROVE  \A c \in Conns : conn'[c] = "none" => conn[c] = "none"
  BY DEF WriteTwice, Write

\* No step of a thread makes a connection fresh again, and none is taken on a fresh one.
LEMMA ReaderOpen ==
    ASSUME TypeOK, LineInv, NEW s \in Conns, ReadLine(s) \/ ReaderStep(s)
    PROVE  /\ conn[s] # "none"
           /\ \A c \in Conns : conn'[c] = "none" => conn[c] = "none"
  <1>1. rd[s].pc # "off"
    BY DEF ReaderStep, ReadLine, ReadEnd, ReadStatus, AskPassword, AssignSocket, Register, ReadClean,
           ReadLoad, ReadCopy, Login, Store, Count, Allocate, Select, Frame, ReaderAt
  <1>2. WriteTwice(s) \/ UNCHANGED conn
    BY DEF WriteTwice, ReaderStep, ReadLine, ReadEnd, ReadStatus, AskPassword, AssignSocket, Register, ReadClean,
           ReadLoad, ReadCopy, Login, Store, Count, Allocate, Select, Frame, quiet
  <1> QED BY <1>1, <1>2, WrittenOpen DEF TypeOK, LineInv

LEMMA WriterOpen ==
    ASSUME TypeOK, LineInv, NEW s \in Conns, WriterStep(s)
    PROVE  /\ conn[s] # "none"
           /\ \A c \in Conns : conn'[c] = "none" => conn[c] = "none"
  <1>1. wr[s].pc # "off"
    BY DEF WriterStep, WriteClean, WriteLoad, ParseMessage, Wait, Forward, Logout, Leave, WriterAt
  <1>2. WriteTwice(s) \/ UNCHANGED conn
    BY DEF WriteTwice, WriterStep, WriteClean, WriteLoad, ParseMessage, Wait, Forward, Logout, Leave,
           quiet
  <1> QED BY <1>1, <1>2, WrittenOpen DEF TypeOK, LineInv

LEMMA WriterLines ==
    ASSUME TypeOK, LineInv, NEW s \in Conns, WriterStep(s)
    PROVE  LineInv'
  <1>1. UNCHANGED <<rd, claimed>> /\ \A c \in Conns \ {s} : wr'[c] = wr[c]
    BY WriterFrame, WriterLocal
  <1> QED BY <1>1, WriterOpen DEF LineInv

\* A step of a reader but ReadLine keeps its line, and loses no registration.
LEMMA ReaderKeepsLine ==
    ASSUME TypeOK, NEW s \in Conns, ReaderStep(s)
    PROVE  rd'[s].line = rd[s].line /\ (rd[s].registered => rd'[s].registered) /\ claimed' = claimed
  <1>1. rd \in [Conns -> Reader]
    BY DEF TypeOK
  <1>2. CASE ReadStatus(s)
    BY <1>1, <1>2, StatusGoes DEF ReaderTo, Reader, ReadStatus
  <1>0. ASSUME NEW w, ReaderTo(s, w)
        PROVE  rd'[s].line = rd[s].line /\ rd'[s].registered = rd[s].registered
    BY <1>0, <1>1 DEF ReaderTo, Reader
  <1>3. CASE ReadEnd(s) \/ AskPassword(s)
    BY <1>0, <1>3 DEF ReadEnd, AskPassword
  <1>4. CASE ReadClean(s) \/ ReadLoad(s) \/ Store(s)
    BY <1>0, <1>4 DEF ReadClean, ReadLoad, Store
  <1>5. CASE Allocate(s) \/ Select(s)
    BY <1>0, <1>5 DEF Allocate, Select
  <1>6. CASE AssignSocket(s)
    BY <1>1, <1>6 DEF AssignSocket, Reader
  <1>7. CASE Register(s)
    BY <1>1, <1>7 DEF Register, Reader
  <1>8. CASE ReadCopy(s) \/ Login(s)
    BY <1>1, <1>8 DEF ReadCopy, Login, Reader
  <1>9. CASE Count(s) \/ Frame(s)
    BY <1>1, <1>9 DEF Count, Frame, Reader
  <1> QED BY <1>2, <1>3, <1>4, <1>5, <1>6, <1>7, <1>8, <1>9 DEF ReaderStep

LEMMA ReaderLines ==
    ASSUME TypeOK, LineInv, NEW s \in Conns, ReadLine(s) \/ ReaderStep(s)
    PROVE  LineInv'
  <1>1. /\ wr' = wr /\ rd \in [Conns -> Reader] /\ claimed \in [Conns -> SUBSET Users]
        /\ \A c \in Conns \ {s} : rd'[c] = rd[c] /\ claimed'[c] = claimed[c]
    BY ReaderFrame, ReaderLocal DEF TypeOK
  <1> DEFINE Good(r, names) ==
        /\ r.pc = "status" => r.line.kind # "finger"
        /\ r.line.kind = "name" => r.line.user \in names
        /\ r.line.kind = "pin" => r.registered
        /\ r.pc \in {"ask", "move", "insert"} => r.line.kind = "name"
        /\ r.pc = "insert" => ~r.registered
        /\ r.pc \in {"clean", "load", "copy", "login"} => r.registered
  <1>2. Good(rd[s], claimed[s])
    BY DEF LineInv
  <1>3. ASSUME ReadLine(s) PROVE Good(rd'[s], claimed'[s])
    <2>1. PICK l \in Line :
            /\ l.kind = "pin" => rd[s].registered
            /\ rd' = [rd EXCEPT ![s].line = l, ![s].pc = Branch[l.kind]]
            /\ claimed' = IF l.kind = "name" THEN [claimed EXCEPT ![s] = @ \cup {l.user}] ELSE claimed
      BY <1>3 DEF ReadLine
    <2>2. /\ Branch[l.kind] \in {"status", "count"}
          /\ Branch[l.kind] = "status" => l.kind # "finger"
      BY DEF Line, Branch
    <2>3. /\ rd'[s].line = l /\ rd'[s].pc = Branch[l.kind] /\ rd'[s].registered = rd[s].registered
          /\ l.kind = "name" => l.user \in claimed'[s]
      BY <1>1, <2>1 DEF Reader
    <2> QED BY <2>1, <2>2, <2>3
  <1>4. ASSUME ReaderStep(s) PROVE Good(rd'[s], claimed'[s])
    <2>1. rd'[s].line = rd[s].line /\ (rd[s].registered => rd'[s].registered) /\ claimed' = claimed
      BY <1>4, ReaderKeepsLine
    <2>2. rd'[s].pc # "status"
      <3>1. rd[s].pc # "read" \/ rd'[s].pc \in {"ended", "read"}
        BY <1>1, <1>4
        DEF ReaderStep, ReadEnd, ReadStatus, AskPassword, AssignSocket, Register, ReadClean,
            ReadLoad, ReadCopy, Login, Store, Count, Allocate, Select, Frame, ReaderAt, ReaderTo, Reader
      <3>2. rd'[s].pc = "status" => rd[s].pc = "read"
        BY <1>4, ReaderGoes DEF ReadLine, ReaderAt
      <3> QED BY <3>1, <3>2
    <2>3. rd'[s].pc \in {"ask", "move", "insert"} => rd'[s].line.kind = "name"
      <3>1. CASE ReadStatus(s)
        <4>1. rd[s].line.kind # "finger"
          BY <3>1 DEF ReadStatus, ReaderAt, LineInv
        <4>2. rd[s].line \in Line
          BY <1>1 DEF Reader
        <4> QED BY <1>1, <2>1, <3>1, <4>1, <4>2, StatusGoes DEF ReaderTo, Reader, Line, LineInv
      <3>2. CASE AskPassword(s)
        BY <2>1, <3>2 DEF AskPassword, ReaderAt, LineInv
      <3>3. CASE Register(s) /\ UNCHANGED rd
        BY <2>1, <3>3 DEF LineInv
      <3> QED BY <3>1, <3>2, <3>3, ReaderGoes
    <2>4. rd'[s].pc = "insert" => ~rd'[s].registered
      <3>1. CASE ReadStatus(s)
        BY <1>1, <3>1, StatusGoes DEF ReaderTo, Reader
      <3>2. CASE Register(s) /\ UNCHANGED rd
        BY <2>1, <3>2 DEF LineInv
      <3> QED BY <3>1, <3>2, ReaderGoes
    <2>5. rd'[s].pc \in {"clean", "load", "copy", "login"} => rd'[s].registered
      <3>1. CASE ReadStatus(s)
        BY <1>1, <3>1, StatusGoes DEF ReaderTo, Reader
      <3>2. CASE ReadClean(s) \/ ReadLoad(s) \/ ReadCopy(s)
        BY <2>1, <3>2 DEF ReadClean, ReadLoad, ReadCopy, ReaderAt, LineInv
      <3> QED BY <3>1, <3>2, ReaderGoes
    <2> QED BY <1>2, <2>1, <2>2, <2>3, <2>4, <2>5
  <1>5. Good(rd'[s], claimed'[s])
    BY <1>3, <1>4
  <1> QED BY <1>1, <1>5, ReaderOpen DEF LineInv

LEMMA MainLines ==
    ASSUME TypeOK, LineInv, Restart \/ \E s \in Conns : Accept(s) \/ Close(s)
    PROVE  LineInv'
  <1>1. ASSUME NEW s \in Conns, Accept(s) PROVE LineInv'
    <2>1. /\ rd' = [rd EXCEPT ![s].pc = "read"] /\ rd \in [Conns -> Reader]
          /\ wr' = [wr EXCEPT ![s].pc = "clean"] /\ conn' = [conn EXCEPT ![s] = "open"]
          /\ wr \in [Conns -> Writer] /\ conn \in [Conns -> {"none", "open", "closed", "reset"}]
          /\ claimed' = claimed
      BY <1>1 DEF Accept, ReaderTo, WriterTo, TypeOK
    <2>2. /\ rd'[s].pc = "read" /\ rd'[s].line = rd[s].line /\ rd'[s].registered = rd[s].registered
          /\ conn'[s] = "open"
          /\ \A c \in Conns \ {s} : rd'[c] = rd[c] /\ wr'[c] = wr[c] /\ conn'[c] = conn[c]
      BY <2>1 DEF Reader
    <2> QED BY <2>1, <2>2 DEF LineInv
  <1>2. ASSUME NEW s \in Conns, Close(s) PROVE LineInv'
    <2>1. /\ UNCHANGED <<rd, wr, claimed>>
          /\ \A c \in Conns : conn'[c] = "none" => conn[c] = "none"
      BY <1>2 DEF Close, TypeOK
    <2> QED BY <2>1 DEF LineInv
  <1>3. ASSUME Restart PROVE LineInv'
    <2>1. \A c \in Conns : rd'[c] = Idle /\ wr'[c] = Asleep
      BY <1>3 DEF Restart
    <2> QED BY <2>1 DEF LineInv, Idle, Asleep, NoLine
  <1> QED BY <1>1, <1>2, <1>3

--------------------------------------------------------------------------------
\* Whose names a connection has to do with.
LEMMA ReaderOwns ==
    ASSUME TypeOK, NEW s \in Conns, ReadLine(s) \/ ReaderStep(s)
    PROVE  \A c \in Conns : Own(c) \subseteq Own(c)'
  <1>1. \A c \in Conns : claimed[c] \subseteq claimed'[c] /\ (c # s => rd'[c] = rd[c])
    BY ReaderLocal
  <1>2. rd[s].registered => rd'[s].registered
    <2>1. CASE ReadLine(s)
      <3>1. rd \in [Conns -> Reader]
        BY DEF TypeOK
      <3>2. \E l \in Line : rd' = [rd EXCEPT ![s].line = l, ![s].pc = Branch[l.kind]]
        BY <2>1 DEF ReadLine
      <3> QED BY <3>1, <3>2 DEF Reader
    <2>2. CASE ReaderStep(s)
      BY <2>2, ReaderKeepsLine
    <2> QED BY <2>1, <2>2
  <1>3. \A c \in Conns : rd[c].registered => rd'[c].registered
    BY <1>1, <1>2
  <1> QED BY <1>1, <1>3 DEF Own

\* The rows after a step of handler_read: the old ones, and those of the own name.
LEMMA ReaderRows ==
    ASSUME TypeOK, KeyInv, LineInv, OwnInv, Undisturbed, NEW s \in Conns,
           ReadLine(s) \/ ReaderStep(s)
    PROVE  /\ \A r \in users' : \/ \E q \in users : r.id = q.id /\ r.name = q.name
                                \/ r.id = s /\ r.name \in Own(s)'
           /\ exit' # "insert"
  <1>1. /\ TableTypeOK /\ rd \in [Conns -> Reader] /\ rd[s] \in Reader /\ s \in Conns \cup Ids
        /\ TRUE \in BOOLEAN /\ FALSE \in BOOLEAN /\ exit = ""
    BY ReaderLocal DEF TypeOK
  <1>2. Own(s) \subseteq Own(s)'
    BY ReaderOwns
  <1>3. CASE AssignSocket(s)
    <2>1. /\ SocketUpdate(rd[s].line.user, FALSE, s) /\ rd'[s].registered /\ claimed' = claimed
          /\ exit' = exit /\ rd[s].pc = "move"
      BY <1>1, <1>3 DEF AssignSocket, ReaderAt, quiet, Reader
    <2>2. rd[s].line.user \in Own(s)'
      BY <2>1 DEF LineInv, Own
    <2>3. \A r \in users' : \/ \E q \in users : r.id = q.id /\ r.name = q.name
                            \/ r.id = s /\ r.name = rd[s].line.user
      <3>1. PICK u : u = rd[s].line.user
        OBVIOUS
      <3>2. SocketUpdate(u, FALSE, s)
        BY <2>1, <3>1
      <3>3. \A r \in users' : \/ \E q \in users : r.id = q.id /\ r.name = q.name
                              \/ KeyFree(u, s) /\ r.id = s /\ r.name = u
        BY <1>1, <3>2, SocketUpdateNames
      <3> QED BY <3>1, <3>3
    <2> QED BY <1>1, <2>1, <2>2, <2>3
  <1>4. CASE Register(s)
    <2>1. rd[s].line.kind = "name" /\ ~rd[s].registered
      BY <1>4 DEF Register, ReaderAt, LineInv
    <2>2. rd[s].line.user \in Users /\ rd[s].line.user \in claimed[s]
      BY <1>1, <2>1 DEF Reader, Line, LineInv
    <2>3. Holder(s) = {}
      <3>1. ASSUME NEW r \in Holder(s) PROVE FALSE
        <4>1. r \in users /\ r.id = s /\ r.name \in Users
          BY <1>1 DEF Holder, TableTypeOK, Row
        <4>2. r.name \in {NoUser}
          BY <2>1, <4>1 DEF OwnInv, Own
        <4> QED BY <4>1, <4>2, TableAssumption
      <3> QED BY <3>1
    <2>4. /\ Insert(rd[s].line.user, s) /\ rd'[s].registered /\ Write(s) /\ claimed' = claimed
      BY <1>1, <1>4, <2>3 DEF Register, Reader
    <2>5. rd[s].line.user \in Own(s)'
      BY <2>2, <2>4 DEF Own
    <2>6. \A r \in users' : r \in users \/ (r.id = s /\ r.name = rd[s].line.user)
      BY <1>1, <2>2, <2>3, <2>4, InsertKeeps
    <2> QED BY <1>1, <2>4, <2>5, <2>6 DEF Write
  <1>5. CASE Login(s)
    <2>1. /\ UNCHANGED users \/ SocketUpdate(rd[s].cred.name, TRUE, s)
          /\ exit' # "insert" /\ rd[s].pc = "login"
      BY <1>1, <1>5 DEF Login, ReaderAt, WriteTwice, Write
    <2>2. rd[s].cred.name \in Own(s)'
      BY <1>2, <2>1 DEF OwnInv
    <2>3. CASE SocketUpdate(rd[s].cred.name, TRUE, s)
      <3>1. \A r \in users' : \/ \E q \in users : r.id = q.id /\ r.name = q.name
                              \/ r.id = s /\ r.name = rd[s].cred.name
        <4>1. TableTypeOK /\ s \in Conns \cup Ids /\ TRUE \in BOOLEAN
          BY <1>1
        <4> QED BY <2>3, <4>1, SocketUpdateNames
      <3> QED BY <2>1, <2>2, <3>1
    <2> QED BY <2>1, <2>3
  <1>6. CASE Store(s)
    <2>1. Update(rd[s].line.user, rd[s].line.msg, TRUE) /\ exit' = exit
      BY <1>6 DEF Store, quiet
    <2>2. rd[s].line.msg \in Msgs
      BY <1>1, TableAssumption DEF Line, Reader
    <2>3. \A r \in users' : \E q \in users : r.id = q.id /\ r.name = q.name
      BY <1>1, <2>1, <2>2, UpdateKeeps
    <2> QED BY <1>1, <2>1, <2>3
  <1>7. CASE UNCHANGED users /\ (Write(s) \/ exit' \in {exit, "read"})
    BY <1>1, <1>7 DEF Write
  <1> QED
    BY <1>3, <1>4, <1>5, <1>6, <1>7
    DEF ReaderStep, ReadLine, ReadEnd, ReadStatus, AskPassword, ReadClean, ReadLoad, ReadCopy,
        Count, Allocate, Select, Frame, tablevars, quiet

\* The rows after a step of handler_write, unless it draws a number of another connection.
LEMMA WriterRows ==
    ASSUME TypeOK, KeyInv, OwnInv, Undisturbed, Undisturbed', NEW s \in Conns, WriterStep(s)
    PROVE  /\ \A r \in users' : \/ \E q \in users : r.id = q.id /\ r.name = q.name
                                \/ r.id = s /\ r.name \in Own(s)
                                \/ r.id \notin Conns
           /\ exit' # "insert"
  <1>1. /\ TableTypeOK /\ FALSE \in BOOLEAN /\ <<>> \in Msgs /\ exit = ""
    BY WriterLocal, TableAssumption DEF TypeOK
  <1>2. exit' # "insert"
    BY <1>1, WriterKeepsSockets
  <1>3. CASE Logout(s)
    <2>1. Update(wr[s].name, <<>>, FALSE)
      BY <1>3 DEF Logout
    <2>2. \A r \in users' : \E q \in users : r.id = q.id /\ r.name = q.name
      BY <1>1, <2>1, UpdateKeeps
    <2> QED BY <1>2, <2>2
  <1>4. CASE Leave(s)
    <2>1. PICK id \in Ids : /\ SocketUpdate(wr[s].name, FALSE, id)
                            /\ collided' = (collided \/ (KeyFree(wr[s].name, id) /\ id \in Conns \ {s}))
      BY <1>4 DEF Leave
    <2>2. KeyFree(wr[s].name, id) => id = s \/ id \notin Conns
      BY <2>1 DEF Undisturbed
    <2>3. \A r \in users' : \/ \E q \in users : r.id = q.id /\ r.name = q.name
                            \/ KeyFree(wr[s].name, id) /\ r.id = id /\ r.name = wr[s].name
      BY <1>1, <2>1, SocketUpdateNames
    <2>4. wr[s].name \in Own(s)
      BY DEF OwnInv
    <2> QED BY <1>2, <2>2, <2>3, <2>4
  <1>5. CASE UNCHANGED users
    BY <1>2, <1>5
  <1> QED
    BY <1>3, <1>4, <1>5
    DEF WriterStep, WriteClean, WriteLoad, ParseMessage, Wait, Forward, tablevars


\* The record of retrieve() after a step of a call that works alone.
LEMMA LoadOwn ==
    ASSUME OwnInv, Undisturbed, NEW s \in Conns, LoadRow(s),
           rd[s].pc = "load" \/ wr[s].pc = "load"
    PROVE  result'.name \in Own(s)
  <1>1. result.name = NoUser
    BY DEF OwnInv
  <1>2. CASE Holder(s) = {}
    BY <1>1, <1>2 DEF LoadRow, Own
  <1>3. CASE Holder(s) # {}
    <2>1. PICK r \in Holder(s) : result' = [name |-> r.name, pin |-> r.name, msg |-> r.msg]
      BY <1>3 DEF LoadRow
    <2>2. r \in users /\ r.id = s
      BY DEF Holder
    <2> QED BY <2>1, <2>2 DEF OwnInv
  <1> QED BY <1>2, <1>3

LEMMA CleanName ==
    ASSUME TypeOK, CleanResult
    PROVE  result'.name = NoUser
  BY DEF TypeOK, TableTypeOK, Result, CleanResult

LEMMA ReaderKeepsOwn ==
    ASSUME IInv, NEW s \in Conns, ReadLine(s) \/ ReaderStep(s)
    PROVE  OwnInv'
  <1> SUFFICES ASSUME Undisturbed'
               PROVE  /\ \A r \in users' : r.id \in Conns => r.name \in Own(r.id)'
                      /\ \A c \in Conns :
                          /\ rd'[c].pc = "load" \/ wr'[c].pc = "load" => result'.name = NoUser
                          /\ rd'[c].pc = "copy" \/ wr'[c].pc = "copy" => result'.name \in Own(c)'
                          /\ rd'[c].pc = "login" => rd'[c].cred.name \in Own(c)'
                          /\ wr'[c].name \in Own(c)' /\ mail'[c] \in Own(c)'
                      /\ exit' # "insert"
    BY DEF OwnInv
  <1>1. TypeOK /\ KeyInv /\ LineInv /\ OwnInv
    BY DEF IInv
  <1>2. /\ UNCHANGED <<wr, mail>> /\ Undisturbed /\ ~Overlap
        /\ Step(<<"rd", s>>) /\ \A c \in Conns \ {s} : rd'[c] = rd[c]
    BY <1>1, ReaderFrame, ReaderLocal DEF Undisturbed
  <1>3. \A c \in Conns : Own(c) \subseteq Own(c)'
    BY <1>1, ReaderOwns
  <1>4. /\ \A r \in users' : r.id \in Conns => r.name \in Own(r.id)'
        /\ exit' # "insert"
    <2>1. \A q \in users : q.id \in Conns => q.name \in Own(q.id)
      BY <1>1, <1>2 DEF OwnInv
    <2>2. /\ \A r \in users' : \/ \E q \in users : r.id = q.id /\ r.name = q.name
                               \/ r.id = s /\ r.name \in Own(s)'
          /\ exit' # "insert"
      BY <1>1, <1>2, ReaderRows
    <2> QED BY <1>3, <2>1, <2>2
  <1>5. ASSUME NEW c \in Conns
        PROVE  /\ rd'[c].pc \in {"load", "copy"} => c = s
               /\ wr'[c].pc \notin {"load", "copy"}
    <2>1. /\ rd[c].pc \in {"load", "copy", "select", "frame"} => c = s
          /\ wr[c].pc \in {"load", "copy"} => FALSE
      BY <1>2, OthersOutside
    <2> QED BY <1>2, <2>1
  <1>6. rd'[s].pc = "load" => result'.name = NoUser
    BY <1>1, ReaderGoes, CleanName DEF ReadClean
  <1>7. rd'[s].pc = "copy" => result'.name \in Own(s)'
    <2>1. ASSUME ReadLoad(s) PROVE result'.name \in Own(s)
      BY <1>1, <1>2, <2>1, LoadOwn DEF ReadLoad, ReaderAt
    <2> QED BY <1>1, <1>3, <2>1, ReaderGoes
  <1>8. ASSUME NEW c \in Conns, rd'[c].pc = "login" PROVE rd'[c].cred.name \in Own(c)'
    <2>1. CASE c # s
      BY <1>1, <1>2, <1>3, <1>8, <2>1 DEF OwnInv
    <2>2. CASE c = s
      <3>1. ReadCopy(s)
        BY <1>1, <1>8, <2>2, ReaderGoes
      <3>2. rd'[s].cred = result /\ rd[s].pc = "copy"
        BY <1>1, <3>1 DEF ReadCopy, ReaderAt, TypeOK, Reader
      <3>3. result.name \in Own(s)
        BY <1>1, <1>2, <3>2 DEF OwnInv
      <3> QED BY <1>3, <2>2, <3>2, <3>3
    <2> QED BY <2>1, <2>2
  <1>9. ASSUME NEW c \in Conns PROVE wr'[c].name \in Own(c)' /\ mail'[c] \in Own(c)'
    BY <1>1, <1>2, <1>3 DEF OwnInv
  <1> QED BY <1>4, <1>5, <1>6, <1>7, <1>8, <1>9

LEMMA WriterKeepsOwn ==
    ASSUME IInv, NEW s \in Conns, WriterStep(s)
    PROVE  OwnInv'
  <1> SUFFICES ASSUME Undisturbed'
               PROVE  /\ \A r \in users' : r.id \in Conns => r.name \in Own(r.id)'
                      /\ \A c \in Conns :
                          /\ rd'[c].pc = "load" \/ wr'[c].pc = "load" => result'.name = NoUser
                          /\ rd'[c].pc = "copy" \/ wr'[c].pc = "copy" => result'.name \in Own(c)'
                          /\ rd'[c].pc = "login" => rd'[c].cred.name \in Own(c)'
                          /\ wr'[c].name \in Own(c)' /\ mail'[c] \in Own(c)'
                      /\ exit' # "insert"
    BY DEF OwnInv
  <1>1. TypeOK /\ KeyInv /\ OwnInv
    BY DEF IInv
  <1>2. /\ UNCHANGED <<rd, claimed>> /\ ~Overlap
        /\ Step(<<"wr", s>>) /\ \A c \in Conns \ {s} : wr'[c] = wr[c] /\ mail'[c] = mail[c]
    BY <1>1, WriterFrame, WriterLocal DEF Undisturbed
  <1>3. Undisturbed
    <2>1. collided => collided'
      BY DEF WriterStep, WriteClean, WriteLoad, ParseMessage, Wait, Forward, Logout, Leave, others
    <2> QED BY <2>1, WriterFrame DEF Undisturbed
  <1>4. \A c \in Conns : Own(c)' = Own(c)
    BY <1>2 DEF Own
  <1>5. /\ \A r \in users' : r.id \in Conns => r.name \in Own(r.id)'
        /\ exit' # "insert"
    <2>1. \A q \in users : q.id \in Conns => q.name \in Own(q.id)
      BY <1>1, <1>3 DEF OwnInv
    <2>2. /\ \A r \in users' : \/ \E q \in users : r.id = q.id /\ r.name = q.name
                               \/ r.id = s /\ r.name \in Own(s)
                               \/ r.id \notin Conns
          /\ exit' # "insert"
      BY <1>1, <1>3, WriterRows
    <2> QED BY <1>4, <2>1, <2>2
  <1>6. ASSUME NEW c \in Conns
        PROVE  /\ rd'[c].pc \notin {"load", "copy"}
               /\ wr'[c].pc \in {"load", "copy"} => c = s
    <2>1. /\ rd[c].pc \in {"load", "copy", "select", "frame"} => FALSE
          /\ wr[c].pc \in {"load", "copy"} => c = s
      BY <1>2, OthersOutside
    <2> QED BY <1>2, <2>1
  <1>7. wr'[s].pc = "load" => result'.name = NoUser
    BY <1>1, WriterLocal, CleanName DEF WriteClean
  <1>8. wr'[s].pc = "copy" => result'.name \in Own(s)'
    <2>1. ASSUME WriteLoad(s) PROVE result'.name \in Own(s)
      BY <1>1, <1>3, <2>1, LoadOwn DEF WriteLoad, WriterAt
    <2> QED BY <1>1, <1>4, <2>1, WriterLocal
  <1>9. ASSUME NEW c \in Conns, rd'[c].pc = "login" PROVE rd'[c].cred.name \in Own(c)'
    BY <1>1, <1>2, <1>3, <1>4, <1>9 DEF OwnInv
  <1>10. wr'[s].name \in Own(s) /\ mail'[s] \in Own(s)
    <2>1. /\ wr \in [Conns -> Writer] /\ mail \in [Conns -> Users \cup {NoUser}]
          /\ wr[s].name \in Own(s) /\ mail[s] \in Own(s) /\ NoUser \in Own(s)
          /\ wr[s].pc = "copy" => result.name \in Own(s)
      BY <1>1, <1>3 DEF TypeOK, OwnInv, Own
    <2>2. CASE ParseMessage(s)
      BY <2>1, <2>2 DEF ParseMessage, WriterAt, Writer, others
    <2>3. CASE Forward(s)
      <3>1. wr'[s].name = wr[s].name
        <4>1. PICK p : wr' = [wr EXCEPT ![s] = [wr[s] EXCEPT !.left = Patience, !.pc = "clean",
                                                             !.prev = p, !.data = <<>>]]
          BY <2>3 DEF Forward
        <4> QED BY <2>1, <4>1 DEF Writer
      <3>2. mail'[s] \in {mail[s], wr[s].name}
        BY <2>1, <2>3 DEF Forward
      <3> QED BY <2>1, <3>1, <3>2
    <2>4. CASE Leave(s)
      <3>1. wr'[s].name \in {NoUser, wr[s].name}
        BY <2>1, <2>4 DEF Leave, Writer, Asleep
      <3>2. mail' = mail
        BY <2>4 DEF Leave
      <3> QED BY <2>1, <3>1, <3>2
    <2>5. CASE WriteClean(s) \/ WriteLoad(s) \/ Wait(s) \/ Logout(s)
      BY <2>1, <2>5 DEF WriteClean, WriteLoad, Wait, Logout, WriterTo, Writer, others
    <2> QED BY <2>2, <2>3, <2>4, <2>5 DEF WriterStep
  <1>11. ASSUME NEW c \in Conns \ {s} PROVE wr'[c].name \in Own(c)' /\ mail'[c] \in Own(c)'
    BY <1>1, <1>2, <1>3, <1>4 DEF OwnInv
  <1> QED BY <1>4, <1>5, <1>6, <1>7, <1>8, <1>9, <1>10, <1>11

LEMMA MainKeepsOwn ==
    ASSUME IInv, Restart \/ \E s \in Conns : Accept(s) \/ Close(s)
    PROVE  OwnInv'
  <1>1. TypeOK /\ OwnInv
    BY DEF IInv
  <1>2. ASSUME NEW s \in Conns, Accept(s) PROVE OwnInv'
    <2>1. /\ rd' = [rd EXCEPT ![s].pc = "read"] /\ rd \in [Conns -> Reader]
          /\ wr' = [wr EXCEPT ![s].pc = "clean"] /\ wr \in [Conns -> Writer]
          /\ UNCHANGED <<users, result, exit, mail, restarted, collided, claimed>>
      BY <1>1, <1>2 DEF Accept, ReaderTo, WriterTo, TypeOK, tablevars, others
    <2>2. ASSUME NEW c \in Conns
          PROVE  /\ rd'[c].registered = rd[c].registered /\ rd'[c].cred = rd[c].cred
                 /\ wr'[c].name = wr[c].name
                 /\ rd'[c].pc \in {"load", "copy", "login"} => rd'[c].pc = rd[c].pc
                 /\ wr'[c].pc \in {"load", "copy"} => wr'[c].pc = wr[c].pc
      BY <2>1 DEF Reader, Writer
    <2>3. \A c \in Conns : Own(c)' = Own(c)
      BY <2>1, <2>2 DEF Own
    <2>4. Undisturbed' <=> Undisturbed
      BY <2>1 DEF Undisturbed
    <2> QED BY <1>1, <2>1, <2>2, <2>3, <2>4 DEF OwnInv
  <1>3. ASSUME NEW s \in Conns, Close(s) PROVE OwnInv'
    <2>1. UNCHANGED <<users, result, rd, wr, exit, mail, restarted, collided, claimed>>
      BY <1>3 DEF Close, tablevars, others
    <2>2. \A c \in Conns : Own(c)' = Own(c)
      BY <2>1 DEF Own
    <2>3. Undisturbed' <=> Undisturbed
      BY <2>1 DEF Undisturbed
    <2> QED BY <1>1, <2>1, <2>2, <2>3 DEF OwnInv
  <1>4. ASSUME Restart PROVE OwnInv'
    BY <1>4 DEF Restart, OwnInv, Undisturbed
  <1> QED BY <1>1, <1>2, <1>3, <1>4

--------------------------------------------------------------------------------
LEMMA InitInv ==
    ASSUME Init
    PROVE  IInv
  <1>1. \A s \in Conns : rd[s] = Idle /\ wr[s] = Asleep /\ mail[s] = NoUser /\ claimed[s] = {}
    BY DEF Init
  <1>2. users = {} /\ result = NoResult /\ global = 0 /\ exit = ""
    BY DEF Init, TableInit
  <1>3. AloneInv
    <2>1. Inside = {}
      BY <1>1 DEF Inside, Idle, Asleep
    <2> QED BY <2>1 DEF AloneInv
  <1>4. ListInv
    <2>1. \A s \in Conns : rd[s].pc = "off"
      BY <1>1 DEF Idle
    <2> QED BY <1>2, <2>1 DEF ListInv
  <1>5. LineInv
    BY <1>1 DEF LineInv, Idle, Asleep, NoLine
  <1>6. OwnInv
    <2>1. \A s \in Conns : /\ rd[s].pc = "off" /\ wr[s].pc = "off"
                           /\ wr[s].name = NoUser /\ mail[s] = NoUser
      BY <1>1 DEF Idle, Asleep
    <2>2. \A s \in Conns : wr[s].name \in Own(s) /\ mail[s] \in Own(s)
      BY <2>1 DEF Own
    <2> QED BY <1>2, <2>1, <2>2 DEF OwnInv
  <1> QED BY <1>3, <1>4, <1>5, <1>6, InitTypes DEF IInv

LEMMA StutterInv ==
    ASSUME IInv, UNCHANGED vars
    PROVE  IInv'
  <1>1. UNCHANGED <<users, result, allSize, global, conn, rd, wr, mail, shown, exit, inputs, restarted,
                    claimed, collided, gone>>
    BY DEF vars, tablevars
  <1>2. TypeOK' /\ KeyInv' /\ LineInv'
    BY <1>1 DEF IInv, TypeOK, TableTypeOK, KeyInv, LineInv
  <1>3. AloneInv'
    BY <1>1 DEF IInv, AloneInv, Inside
  <1>4. ListInv'
    BY <1>1 DEF IInv, ListInv, Active
  <1>5. OwnInv'
    <2>1. (Undisturbed' <=> Undisturbed) /\ \A c \in Conns : Own(c)' = Own(c)
      BY <1>1 DEF Undisturbed, Own
    <2> QED BY <1>1, <2>1 DEF IInv, OwnInv
  <1> QED BY <1>2, <1>3, <1>4, <1>5 DEF IInv

LEMMA MainInv ==
    ASSUME IInv, Restart \/ \E s \in Conns : Accept(s) \/ Close(s)
    PROVE  IInv'
  <1>1. TypeOK /\ KeyInv /\ AloneInv /\ ListInv /\ LineInv
    BY DEF IInv
  <1>2. TypeOK'
    BY <1>1, AcceptTypes, CloseTypes, RestartTypes
  <1>3. KeyInv'
    BY <1>1 DEF KeyInv, Restart, Accept, Close, tablevars
  <1>4. AloneInv' /\ ListInv' /\ LineInv'
    BY <1>1, MainAlone, MainLists, MainLines
  <1> QED BY <1>2, <1>3, <1>4, MainKeepsOwn DEF IInv

\* The invariant of ChatInv.tla holds throughout.
THEOREM ChatInvariant == Spec => []IInv
  <1>1. Init => IInv
    BY InitInv
  <1>2. IInv /\ [Next]_vars => IInv'
    <2> SUFFICES ASSUME IInv, [Next]_vars PROVE IInv'
      OBVIOUS
    <2>1. TypeOK /\ KeyInv /\ AloneInv /\ ListInv /\ LineInv
      BY DEF IInv
    <2>2. CASE Restart
      BY <2>2, MainInv
    <2>3. ASSUME NEW s \in Conns, Accept(s) \/ Close(s) PROVE IInv'
      BY <2>3, MainInv
    <2>4. ASSUME NEW s \in Conns, ReadLine(s) \/ ReaderStep(s) PROVE IInv'
      <3>1. TypeOK' /\ KeyInv'
        BY <2>1, <2>4, ReaderTypes
      <3>2. AloneInv' /\ ListInv' /\ LineInv'
        BY <2>1, <2>4, ReaderAlone, ReaderLists, ReaderLines
      <3> QED BY <2>4, <3>1, <3>2, ReaderKeepsOwn DEF IInv
    <2>5. ASSUME NEW s \in Conns, WriterStep(s) PROVE IInv'
      <3>1. TypeOK' /\ KeyInv'
        BY <2>1, <2>5, WriterTypes
      <3>2. AloneInv' /\ ListInv' /\ LineInv'
        BY <2>1, <2>5, WriterAlone, WriterLists, WriterLines
      <3> QED BY <2>5, <3>1, <3>2, WriterKeepsOwn DEF IInv
    <2>6. CASE UNCHANGED vars
      BY <2>6, StutterInv
    <2> QED BY <2>2, <2>3, <2>4, <2>5, <2>6 DEF Next
  <1> QED BY <1>1, <1>2, PTL DEF Spec

\* Every row, record and local of the threads keeps its kind, whatever the threads do at once.
THEOREM ChatTypeCorrect == Spec => []TypeOK
  <1>1. IInv => TypeOK
    BY DEF IInv
  <1> QED BY <1>1, ChatInvariant, PTL

\* A message written to a socket is one of a name that was typed on it, as
\* long as calls work alone, on this run's rows, and no logout has drawn the
\* number of another connection.
THEOREM MailIsForClaimant == Spec => []MailForClaimant
  <1>1. IInv => MailForClaimant
    BY DEF IInv, OwnInv, MailForClaimant, MailForOwner, Own
  <1> QED BY <1>1, ChatInvariant, PTL

\* A pin is held against the account of a name typed on the same connection.
THEOREM LoginIsOfClaimant == Spec => []LoginOfClaimant
  <1>1. IInv => LoginOfClaimant
    BY DEF IInv, OwnInv, LoginOfClaimant, Own
  <1> QED BY <1>1, ChatInvariant, PTL

\* insert() finds its key free.
THEOREM InsertIsSafe == Spec => []InsertSafe
  <1>1. IInv => InsertSafe
    BY DEF IInv, OwnInv, InsertSafe
  <1> QED BY <1>1, ChatInvariant, PTL

\* The callback of a listing stays within its array, and so does the reply that
\* is written, unless a user has gone since the first count.
THEOREM ListingStaysInBounds == Spec => []ListingInBounds
  <1>1. IInv => ListingInBounds
    <2> SUFFICES ASSUME IInv, ~Overlap, NEW s \in Conns
                 PROVE  /\ rd[s].pc = "select" => global + Cardinality(Active) <= allSize
                        /\ (rd[s].pc = "frame" /\ rd[s].no > allSize) => gone[s]
      BY DEF ListingInBounds
    <2>1. KeyInv /\ AloneInv /\ ListInv /\ TypeOK
      BY DEF IInv
    <2>2. Cardinality(Active) \in Nat
      BY <2>1, ActiveCount
    <2>3. rd[s].pc \in {"select", "frame"} => allSize = Cardinality(Active)
      BY <2>1 DEF ListInv
    <2>4. ASSUME rd[s].pc = "select" PROVE global + Cardinality(Active) <= allSize
      <3>1. ASSUME NEW c \in Conns, rd[c].pc = "frame" PROVE FALSE
        <4>1. <<"rd", s>> \in Inside /\ <<"rd", c>> \in Inside
          BY <2>4, <3>1 DEF Inside
        <4>2. <<"rd", s>> = <<"rd", c>>
          BY <2>1, <4>1 DEF AloneInv
        <4>3. s = c
          BY <4>2
        <4> QED BY <2>4, <3>1, <4>3
      <3>2. global = 0
        BY <2>1, <3>1 DEF ListInv
      <3> QED BY <2>2, <2>3, <2>4, <3>2
    <2>5. ASSUME rd[s].pc = "frame", rd[s].no > allSize PROVE gone[s]
      <3>1. rd[s].no \in Nat /\ (gone[s] \/ rd[s].no <= Cardinality(Active))
        BY <2>1, <2>5 DEF ListInv, TypeOK, Reader
      <3> QED BY <2>2, <2>3, <2>5, <3>1
    <2> QED BY <2>4, <2>5
  <1> QED BY <1>1, ChatInvariant, PTL
================================================================================
