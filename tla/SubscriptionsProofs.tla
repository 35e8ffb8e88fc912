------------------------ MODULE SubscriptionsProofs -------------------------
(***************************************************************************)
(* The safety properties of the subscriptions table, for any devices,      *)
(* clients and urls, and any length of uploads.                            *)
(*                                                                         *)
(* A commit puts the writer's table in the place of the committed one.     *)
(* Extends says that this rewrites no history; Effect says, statement by   *)
(* statement, what the writer's batch has brought about in its table.      *)
(***************************************************************************)
EXTENDS SubscriptionsSql, SequenceTheorems, Basics

\* A transaction that ends leaves the committed table, or the writer's, and gives
\* back no lock but its own.
LEMMA TransactionEnds ==
    ASSUME NEW c \in Client, Commit(c) \/ Rollback(c)
    PROVE  /\ <<table', work'>> \in {<<table, work>>, <<work, work>>, <<table, table>>}
           /\ writer' \in {writer, NoClient}
           /\ writer # c => UNCHANGED database
BY DEF Commit, Rollback, database

\* What is uncommitted is the writer's, however a transaction goes on.
LEMMA NothingLeft ==
    ASSUME NothingUncommitted,
           \/ UNCHANGED database
           \/ \E c \in Client : writer' = c \/ Commit(c) \/ Rollback(c)
    PROVE  NothingUncommitted'
BY ClientAssumption DEF NothingUncommitted, Commit, Rollback, database

RowsOK(tab, now) ==
    \A d \in Device : \A i \in DOMAIN tab[d] : tab[d][i].created <= now

\* What a later version of a row may be.
Keeps(old, new) ==
    /\ old.url = new.url /\ old.created = new.created
    /\ old.deleted # NULL => old.deleted = new.deleted

Extends(old, new) ==
    \A d \in Device : \A i \in DOMAIN old[d] :
        i \in DOMAIN new[d] /\ Keeps(old[d][i], new[d][i])

DatabaseOK ==
    /\ table \in Table /\ work \in Table
    /\ writer \in Client \cup {NoClient}
    /\ RowsOK(table, clock) /\ RowsOK(work, clock)
    /\ Extends(table, work)

StampsOK == \A c \in Client : pc[c] = "upload" => stamp[c] # 0

RemovesFirst(b) ==
    \A i, j \in DOMAIN b : i < j /\ b[j].op = "remove" => b[i].op = "remove"

\* The active urls after the statement x.
After(urls, x) == IF x.op = "remove" THEN urls \ {x.url} ELSE urls \cup {x.url}

\* What n statements of b have done to rows: what was added is there, and what was
\* removed is not, unless it was added after that.
Effect(rows, b, n) ==
    \A k \in 1 .. n :
        /\ b[k].op = "add" => b[k].url \in Active(rows)
        /\ b[k].op = "remove" /\ b[k].url \in Active(rows) =>
              \E m \in 1 .. n : b[m].op = "add" /\ b[m].url = b[k].url

EffectOK(c) ==
    /\ pc[c] \notin {"upload", "uploaded"} => done[c] = 0
    /\ RemovesFirst(batch[c])
    /\ pc[c] = "upload" =>
          /\ done[c] <= Len(batch[c])
          /\ done[c] > 0 => writer = c
          /\ Effect(work[DeviceOf[c]], batch[c], done[c])

IInv == TypeOK /\ DatabaseOK /\ StampsOK /\ \A c \in Client : EffectOK(c)

-----------------------------------------------------------------------------
\* Statements

\* The urls of the active rows.
LEMMA ActiveRows ==
    ASSUME NEW rows \in Seq(Row), NEW url
    PROVE  url \in Active(rows) <=>
              \E i \in DOMAIN rows : rows[i].url = url /\ rows[i].deleted = NULL
BY DEF Active, AddOf, Range, IsActive

\* What a statement that removes does.
LEMMA RemovedRows ==
    ASSUME NEW t \in Nat, NEW rows \in Seq(Row), NEW url \in Url, NEW now \in Seconds,
           now <= t, \A i \in DOMAIN rows : rows[i].created <= t
    PROVE  LET new == Removed(rows, url, now)
           IN  /\ new \in Seq(Row)
               /\ \A i \in DOMAIN new : new[i].created <= t
               /\ \A i \in DOMAIN rows : i \in DOMAIN new /\ Keeps(rows[i], new[i])
               /\ Active(new) = Active(rows) \ {url}
<1> DEFINE new == Removed(rows, url, now)
<1>1. \A i \in DOMAIN rows : rows[i] \in Row
  OBVIOUS
<1>2. now # NULL
  BY SubscriptionsAssumption DEF Seconds
<1>3. DOMAIN new = DOMAIN rows
  BY DEF Removed
<1>4. \A i \in DOMAIN rows :
        \/ /\ rows[i].url = url /\ rows[i].deleted = NULL
           /\ new[i] = [url |-> url, created |-> rows[i].created, deleted |-> now]
        \/ ~(rows[i].url = url /\ rows[i].deleted = NULL) /\ new[i] = rows[i]
  BY DEF Removed, Removes, IsActive
<1>5. new = [i \in 1 .. Len(rows) |-> new[i]] /\ DOMAIN rows = 1 .. Len(rows)
  BY DEF Removed
<1> HIDE DEF new
<1>6. ASSUME NEW i \in DOMAIN rows
      PROVE  /\ new[i] \in Row /\ new[i].created = rows[i].created
             /\ Keeps(rows[i], new[i])
  <2>1. CASE new[i] = rows[i]
    BY <1>1, <2>1 DEF Keeps
  <2>2. CASE /\ rows[i].url = url /\ rows[i].deleted = NULL
             /\ new[i] = [url |-> url, created |-> rows[i].created, deleted |-> now]
    <3>1. rows[i].created \in Seconds
      BY <1>1 DEF Row
    <3> QED
      BY <2>2, <3>1 DEF Keeps, Row
  <2> QED
    BY <1>4, <2>1, <2>2
<1>7. new \in Seq(Row)
  BY <1>5, <1>6
<1>8. ASSUME NEW u PROVE u \in Active(new) <=> u \in Active(rows) /\ u # url
  <2>1. u \in Active(new) <=>
          \E i \in DOMAIN rows : new[i].url = u /\ new[i].deleted = NULL
    BY <1>3, <1>7, ActiveRows
  <2>2. u \in Active(rows) <=>
          \E i \in DOMAIN rows : rows[i].url = u /\ rows[i].deleted = NULL
    BY ActiveRows
  <2>3. \A i \in DOMAIN rows :
          new[i].url = u /\ new[i].deleted = NULL <=>
            rows[i].url = u /\ rows[i].deleted = NULL /\ u # url
    <3> SUFFICES ASSUME NEW i \in DOMAIN rows
                 PROVE  new[i].url = u /\ new[i].deleted = NULL <=>
                          rows[i].url = u /\ rows[i].deleted = NULL /\ u # url
      OBVIOUS
    <3>1. CASE rows[i].url = url /\ rows[i].deleted = NULL
      <4>1. new[i] = [url |-> url, created |-> rows[i].created, deleted |-> now]
        BY <1>4, <3>1
      <4>2. new[i].deleted = now
        BY <4>1
      <4> QED
        BY <1>2, <3>1, <4>2
    <3>2. CASE ~(rows[i].url = url /\ rows[i].deleted = NULL)
      <4>1. new[i] = rows[i]
        BY <1>4, <3>2
      <4> QED
        BY <3>2, <4>1
    <3> QED
      BY <3>1, <3>2
  <2> QED
    BY <2>1, <2>2, <2>3
<1>9. Active(new) = Active(rows) \ {url}
  BY <1>8
<1> QED
  BY <1>3, <1>6, <1>7, <1>9 DEF new

\* What a statement that adds does.
LEMMA AddedRows ==
    ASSUME NEW t \in Nat, NEW rows \in Seq(Row), NEW url \in Url, NEW now \in Seconds,
           now <= t, \A i \in DOMAIN rows : rows[i].created <= t
    PROVE  LET new == Added(rows, url, now)
           IN  /\ new \in Seq(Row)
               /\ \A i \in DOMAIN new : new[i].created <= t
               /\ \A i \in DOMAIN rows : i \in DOMAIN new /\ Keeps(rows[i], new[i])
               /\ Active(new) = Active(rows) \cup {url}
<1> DEFINE row == [url |-> url, created |-> now, deleted |-> NULL]
           new == Added(rows, url, now)
<1>1. row \in Row
  BY DEF Row
<1>2. new = Append(rows, row)
  BY DEF Added
<1> HIDE DEF new
<1>3. /\ new \in Seq(Row) /\ Len(new) = Len(rows) + 1
      /\ \A i \in 1 .. Len(rows) : new[i] = rows[i]
      /\ new[Len(rows) + 1] = row
  BY <1>1, <1>2, AppendProperties
<1>4. DOMAIN new = DOMAIN rows \cup {Len(rows) + 1} /\ DOMAIN rows = 1 .. Len(rows)
  BY <1>3
<1>5. \A i \in DOMAIN new : new[i].created <= t
  BY <1>3, <1>4 DEF row
<1>6. \A i \in DOMAIN rows : i \in DOMAIN new /\ Keeps(rows[i], new[i])
  BY <1>3, <1>4 DEF Keeps
<1>7. ASSUME NEW u PROVE u \in Active(new) <=> u \in Active(rows) \/ u = url
  <2>1. u \in Active(new) <=>
          \E i \in DOMAIN new : new[i].url = u /\ new[i].deleted = NULL
    BY <1>3, ActiveRows
  <2>2. u \in Active(rows) <=>
          \E i \in DOMAIN rows : rows[i].url = u /\ rows[i].deleted = NULL
    BY ActiveRows
  <2> QED
    BY <1>3, <1>4, <2>1, <2>2 DEF row
<1>8. Active(new) = Active(rows) \cup {url}
  BY <1>7
<1> QED
  BY <1>3, <1>5, <1>6, <1>8 DEF new

\* So a statement makes a good table of a good table, and rewrites no history.
LEMMA StoreTable ==
    ASSUME NEW t \in Nat, NEW tab \in Table, RowsOK(tab, t),
           NEW d \in Device, NEW x \in Change, NEW now \in Seconds, now <= t
    PROVE  LET new == Store(tab, d, x, now)
           IN  /\ new \in Table /\ RowsOK(new, t) /\ Extends(tab, new)
               /\ Active(new[d]) = After(Active(tab[d]), x)
               /\ \A e \in Device \ {d} : new[e] = tab[e]
<1> DEFINE rows == IF x.op = "remove" THEN Removed(tab[d], x.url, now)
                                      ELSE Added(tab[d], x.url, now)
           new == Store(tab, d, x, now)
<1>1. tab[d] \in Seq(Row) /\ x.url \in Url /\ \A i \in DOMAIN tab[d] : tab[d][i].created <= t
  BY DEF Table, Change, RowsOK
<1>2. /\ rows \in Seq(Row)
      /\ \A i \in DOMAIN rows : rows[i].created <= t
      /\ \A i \in DOMAIN tab[d] : i \in DOMAIN rows /\ Keeps(tab[d][i], rows[i])
      /\ Active(rows) = After(Active(tab[d]), x)
  <2>1. CASE x.op = "remove"
    BY <1>1, <2>1, RemovedRows DEF After
  <2>2. CASE x.op # "remove"
    BY <1>1, <2>2, AddedRows DEF After
  <2> QED
    BY <2>1, <2>2
<1>3. new = [tab EXCEPT ![d] = rows]
  BY DEF Store
<1> HIDE DEF rows, new
<1>4. new \in Table /\ new[d] = rows /\ \A e \in Device \ {d} : new[e] = tab[e]
  BY <1>2, <1>3 DEF Table
<1>5. RowsOK(new, t)
  BY <1>2, <1>4 DEF RowsOK
<1>6. Extends(tab, new)
  BY <1>2, <1>4 DEF Extends, Keeps
<1> QED
  BY <1>2, <1>4, <1>5, <1>6 DEF new

\* One more statement of a batch has its effect, and none before it is undone.
LEMMA StatementEffect ==
    ASSUME NEW old \in Seq(Row), NEW new \in Seq(Row), NEW b \in Seq(Change),
           RemovesFirst(b), NEW n \in Nat, n < Len(b), Effect(old, b, n),
           Active(new) = After(Active(old), b[n + 1])
    PROVE  Effect(new, b, n + 1)
<1>0. n + 1 \in DOMAIN b /\ b[n + 1] \in Change
  OBVIOUS
<1> USE DEF After
<1> SUFFICES ASSUME NEW k \in 1 .. n + 1
             PROVE  /\ b[k].op = "add" => b[k].url \in Active(new)
                    /\ b[k].op = "remove" /\ b[k].url \in Active(new) =>
                         \E m \in 1 .. n + 1 : b[m].op = "add" /\ b[m].url = b[k].url
  BY DEF Effect
<1>1. CASE b[n + 1].op = "remove"
  <2>1. \A m \in 1 .. n + 1 : b[m].op = "remove"
    BY <1>0, <1>1 DEF RemovesFirst
  <2>2. CASE k = n + 1
    BY <1>1, <2>2
  <2>3. CASE k # n + 1
    <3>1. k \in 1 .. n
      BY <2>3
    <3>2. ASSUME NEW m \in 1 .. n PROVE b[m].op # "add"
      <4>1. m \in 1 .. n + 1
        OBVIOUS
      <4> QED
        BY <2>1, <4>1
    <3> QED
      BY <1>1, <2>1, <3>1, <3>2 DEF Effect
  <2> QED
    BY <2>2, <2>3
<1>2. CASE b[n + 1].op # "remove"
  <2>1. b[n + 1].op = "add"
    BY <1>0, <1>2 DEF Change
  <2>2. CASE k = n + 1
    BY <1>2, <2>1, <2>2
  <2>3. CASE k # n + 1
    <3>1. k \in 1 .. n
      BY <2>3
    <3>2. CASE b[k].url = b[n + 1].url
      BY <1>0, <1>2, <2>1, <3>2
    <3>3. CASE b[k].url # b[n + 1].url
      <4>1. b[k].url \in Active(new) <=> b[k].url \in Active(old)
        BY <1>2, <3>3
      <4>2. 1 .. n \subseteq 1 .. n + 1
        OBVIOUS
      <4> QED
        BY <3>1, <4>1, <4>2 DEF Effect
    <3> QED
      BY <3>2, <3>3
  <2> QED
    BY <2>2, <2>3
<1> QED
  BY <1>1, <1>2

\* An upload is a sequence of changes, those that remove before those that add.
LEMMA BatchOrder ==
    ASSUME NEW b \in Batches
    PROVE  b \in Seq(Change) /\ RemovesFirst(b)
<1>1. PICK remove \in Sequences("remove"), add \in Sequences("add") : b = remove \o add
  BY DEF Batches
<1>2. ASSUME NEW op \in {"remove", "add"}, NEW s \in Sequences(op)
      PROVE  s \in Seq(Change) /\ \A i \in 1 .. Len(s) : s[i].op = op
  <2> DEFINE C == {[op |-> op, url |-> u] : u \in Url}
  <2>1. PICK n \in 0 .. MaxBatch : s \in [1 .. n -> C]
    BY <1>2 DEF Sequences
  <2>2. n \in Nat /\ C \subseteq Change /\ \A x \in C : x.op = op
    BY <2>1, SubscriptionsAssumption DEF Change
  <2> HIDE DEF C
  <2>3. s \in Seq(C) /\ Len(s) = n
    BY <2>1, <2>2
  <2> QED
    BY <2>1, <2>2, <2>3
<1>3. /\ remove \in Seq(Change) /\ \A i \in 1 .. Len(remove) : remove[i].op = "remove"
      /\ add \in Seq(Change) /\ \A i \in 1 .. Len(add) : add[i].op = "add"
  BY <1>2
<1>4. /\ b \in Seq(Change) /\ Len(b) = Len(remove) + Len(add)
      /\ \A i \in 1 .. Len(remove) + Len(add) :
           b[i] = IF i <= Len(remove) THEN remove[i] ELSE add[i - Len(remove)]
  BY <1>1, <1>3, ConcatProperties
<1>5. ASSUME NEW i \in 1 .. Len(b)
      PROVE  b[i].op = "remove" <=> i <= Len(remove)
  <2>1. CASE i <= Len(remove)
    BY <1>3, <1>4, <2>1
  <2>2. CASE i > Len(remove)
    <3>1. i - Len(remove) \in 1 .. Len(add) /\ b[i] = add[i - Len(remove)]
      BY <1>3, <1>4, <2>2
    <3> QED
      BY <1>3, <2>2, <3>1
  <2> QED
    BY <1>3, <2>1, <2>2
<1>6. RemovesFirst(b)
  BY <1>3, <1>4, <1>5 DEF RemovesFirst
<1> QED
  BY <1>4, <1>6

-----------------------------------------------------------------------------
\* The latest timestamp of a fetch

\* The selected rows are rows, and the latest time of their creation is not later
\* than now.
LEMMA LatestOK ==
    ASSUME IInv, NEW c \in Client
    PROVE  /\ Selected(c) \subseteq Row
           /\ Max({row.created : row \in Selected(c)} \cup {0}) \in 0 .. clock
<1> DEFINE S == {row.created : row \in Selected(c)} \cup {0}
<1>1. clock \in Nat /\ DeviceOf[c] \in Device
  BY RequestsAssumption, SubscriptionsAssumption DEF IInv, TypeOK, Seconds
<1>2. ASSUME NEW row \in Selected(c)
      PROVE  row \in Row /\ row.created \in 0 .. clock
  <2>1. PICK i \in DOMAIN table[DeviceOf[c]] : row = table[DeviceOf[c]][i]
    BY <1>2 DEF Selected, Range
  <2>2. row \in Row /\ row.created <= clock
    BY <1>1, <2>1 DEF IInv, TypeOK, Table, DatabaseOK, RowsOK
  <2> QED
    BY <1>1, <2>2, RequestsAssumption DEF Row, Seconds
<1>3. S \in SUBSET (0 .. clock) /\ S # {}
  BY <1>1, <1>2
<1> HIDE DEF S
<1>4. Max(S) \in 0 .. clock
  BY <1>1, <1>3, BoundedMax
<1> QED
  BY <1>2, <1>4 DEF S

-----------------------------------------------------------------------------
\* Steps

\* Histories extend themselves, and what extends them.
LEMMA ExtendsOrder ==
    /\ \A tab : Extends(tab, tab)
    /\ \A a, b, c : Extends(a, b) /\ Extends(b, c) => Extends(a, c)
<1>1. \A tab : Extends(tab, tab)
  BY DEF Extends, Keeps
<1>2. ASSUME NEW a, NEW b, NEW c, Extends(a, b), Extends(b, c)
      PROVE  Extends(a, c)
  <2> SUFFICES ASSUME NEW d \in Device, NEW i \in DOMAIN a[d]
               PROVE  i \in DOMAIN c[d] /\ Keeps(a[d][i], c[d][i])
    BY DEF Extends
  <2>1. i \in DOMAIN b[d] /\ Keeps(a[d][i], b[d][i])
    BY <1>2 DEF Extends
  <2>2. i \in DOMAIN c[d] /\ Keeps(b[d][i], c[d][i])
    BY <1>2, <2>1 DEF Extends
  <2> QED
    BY <2>1, <2>2 DEF Keeps
<1> QED
  BY <1>1, <1>2

\* The invariant holds at first.
LEMMA InvInit == Init => IInv
<1> SUFFICES ASSUME Init PROVE IInv
  OBVIOUS
<1>1. TypeOK
  BY RequestsAssumption
  DEF Init, InitDatabase, InitRequests, TypeOK, Seconds, Pc, Table, NoRows
<1>2. DatabaseOK
  BY ExtendsOrder, <1>1 DEF Init, InitDatabase, DatabaseOK, TypeOK, RowsOK, NoRows
<1>3. StampsOK
  BY DEF Init, InitRequests, StampsOK
<1>4. ASSUME NEW c \in Client PROVE EffectOK(c)
  <2>1. pc[c] = "idle" /\ batch[c] = <<>> /\ done[c] = 0
    BY DEF Init, InitRequests
  <2> QED
    BY <2>1 DEF EffectOK, RemovesFirst
<1> QED
  BY <1>1, <1>2, <1>3, <1>4 DEF IInv

\* A step that leaves the database alone leaves it good.
LEMMA DatabaseUnchanged ==
    ASSUME DatabaseOK, UNCHANGED <<database, clock>>
    PROVE  DatabaseOK'
BY DEF DatabaseOK, database

\* So does the end of a transaction.
LEMMA CommitOK ==
    ASSUME DatabaseOK, UNCHANGED clock, NEW c \in Client, Commit(c) \/ Rollback(c)
    PROVE  DatabaseOK'
BY TransactionEnds, ExtendsOrder DEF DatabaseOK

\* The transactions of other clients are left alone by a step of c.
LEMMA OthersOK ==
    ASSUME IInv, NEW c \in Client, NEW d \in Client \ {c},
           pc'[d] = pc[d], batch'[d] = batch[d], done'[d] = done[d],
           writer = d => UNCHANGED database
    PROVE  EffectOK(d)'
<1>1. CASE writer = d
  BY <1>1 DEF IInv, EffectOK, database
<1>2. CASE writer # d
  <2>1. pc[d] = "upload" => done[d] = 0
    BY <1>2 DEF IInv, EffectOK, TypeOK
  <2>2. \A rows, b : Effect(rows, b, 0)
    BY DEF Effect
  <2> QED
    BY <1>2, <2>1, <2>2 DEF IInv, EffectOK, TypeOK
<1> QED
  BY <1>1, <1>2

\* A request ends: nothing is left of it.
LEMMA EndOK ==
    ASSUME IInv, DatabaseOK', NEW c \in Client, NEW outcome \in {"idle", "failed", "between"},
           End(c, outcome),
           writer # c => UNCHANGED database,
           \/ UNCHANGED cursor
           \/ cursor' = [cursor EXCEPT ![c] = stamp[c]],
           local' \in [Client -> SUBSET Url],
           found' \in [Client -> SUBSET Row]
    PROVE  IInv'
<1> USE DEF IInv
<1>1. TypeOK'
  <2>1. clock' = clock /\ clock \in Nat
    BY RequestsAssumption DEF End, TypeOK, Seconds
  <2>2. pc' \in [Client -> Pc] /\ done' \in [Client -> Nat]
    BY DEF End, TypeOK, Pc
  <2>3. batch' \in [Client -> Seq(Change)]
    BY DEF End, TypeOK
  <2>4. cursor' \in [Client -> 0 .. clock]
    BY DEF TypeOK
  <2>5. stamp' \in [Client -> 0 .. clock]
    BY <2>1 DEF End, TypeOK
  <2> QED
    BY <2>1, <2>2, <2>3, <2>4, <2>5 DEF TypeOK, DatabaseOK
<1>2. StampsOK'
  BY DEF StampsOK, End, TypeOK
<1>3. EffectOK(c)'
  BY DEF EffectOK, End, TypeOK, RemovesFirst
<1>4. \A d \in Client \ {c} : EffectOK(d)'
  <2> SUFFICES ASSUME NEW d \in Client \ {c} PROVE EffectOK(d)'
    OBVIOUS
  <2>1. pc'[d] = pc[d] /\ batch'[d] = batch[d] /\ done'[d] = done[d]
    BY DEF End, TypeOK
  <2> QED
    BY <2>1, OthersOK
<1> QED
  BY <1>1, <1>2, <1>3, <1>4

\* A statement of an upload keeps the invariant.
LEMMA UploadOneOK ==
    ASSUME IInv, NEW c \in Client, UploadOne(c)
    PROVE  IInv'
<1> USE DEF IInv
<1> DEFINE d == DeviceOf[c]
           new == Store(work, d, Statement(c), stamp[c])
<1>0. clock \in Nat /\ d \in Device
  BY RequestsAssumption, SubscriptionsAssumption DEF TypeOK, Seconds
<1>1. /\ pc[c] = "upload" /\ done[c] \in Nat /\ done[c] < Len(batch[c])
      /\ batch[c] \in Seq(Change)
  BY DEF UploadOne, HasStatement, TypeOK
<1>2. Statement(c) \in Change /\ Statement(c) = batch[c][done[c] + 1]
  BY <1>1 DEF Statement
<1>3. stamp[c] \in Seconds /\ stamp[c] <= clock
  BY <1>0, <1>1, RequestsAssumption DEF StampsOK, TypeOK, Seconds
<1>4. /\ new \in Table /\ RowsOK(new, clock) /\ Extends(work, new)
      /\ Active(new[d]) = After(Active(work[d]), Statement(c))
  <2>1. work \in Table /\ RowsOK(work, clock)
    BY DEF DatabaseOK
  <2> DEFINE x == Statement(c)
             now == stamp[c]
  <2>2. x \in Change /\ now \in Seconds /\ now <= clock
    BY <1>2, <1>3
  <2> HIDE DEF d, x, now, IInv
  <2>3. LET t == Store(work, d, x, now)
        IN  /\ t \in Table /\ RowsOK(t, clock) /\ Extends(work, t)
            /\ Active(t[d]) = After(Active(work[d]), x)
    BY <1>0, <2>1, <2>2, StoreTable
  <2> QED
    BY <2>3 DEF x, now
<1>5. /\ work' = new /\ table' = table /\ writer' = c /\ writer \in {NoClient, c}
      /\ done' = [done EXCEPT ![c] = done[c] + 1]
      /\ UNCHANGED <<clock, pc, batch, stamp, cursor, local, found>>
  BY DEF UploadOne, Execute, StatementDone
<1> HIDE DEF new
<1>6. DatabaseOK'
  BY <1>4, <1>5, ExtendsOrder DEF DatabaseOK
<1>7. done' \in [Client -> Nat]
  BY <1>1, <1>5 DEF TypeOK
<1>8. TypeOK'
  BY <1>4, <1>5, <1>7 DEF TypeOK
<1>9. StampsOK'
  BY <1>5 DEF StampsOK
<1>10. EffectOK(c)'
  <2>1. Effect(new[d], batch[c], done[c] + 1)
    <3>1. /\ RemovesFirst(batch[c])
          /\ Effect(work[d], batch[c], done[c])
      BY <1>1 DEF EffectOK
    <3>2. work[d] \in Seq(Row) /\ new[d] \in Seq(Row)
      BY <1>0, <1>4 DEF DatabaseOK, Table
    <3> HIDE DEF d, IInv
    <3> QED
      BY <1>1, <1>2, <1>4, <3>1, <3>2, StatementEffect
  <2>2. done'[c] = done[c] + 1 /\ done[c] + 1 <= Len(batch[c])
    BY <1>1, <1>5 DEF TypeOK
  <2> QED
    BY <1>1, <1>5, <2>1, <2>2 DEF EffectOK
<1>11. \A e \in Client \ {c} : EffectOK(e)'
  <2> SUFFICES ASSUME NEW e \in Client \ {c} PROVE EffectOK(e)'
    OBVIOUS
  <2>1. pc'[e] = pc[e] /\ batch'[e] = batch[e] /\ done'[e] = done[e] /\ writer # e
    BY <1>5, ClientAssumption DEF TypeOK
  <2> QED
    BY <2>1, OthersOK
<1> QED
  BY <1>6, <1>8, <1>9, <1>10, <1>11

\* So does its commit.
LEMMA UploadEndOK ==
    ASSUME IInv, NEW c \in Client, UploadEnd(c)
    PROVE  IInv'
<1> USE DEF IInv
<1>1. /\ Commit(c) /\ pc[c] = "upload" /\ done[c] = Len(batch[c])
      /\ pc' = [pc EXCEPT ![c] = "uploaded"]
      /\ UNCHANGED <<clock, batch, done, stamp, cursor, local, found>>
  BY DEF UploadEnd, CommitUpload
<1>2. DatabaseOK'
  BY <1>1, CommitOK
<1>3. TypeOK'
  BY <1>1, <1>2 DEF TypeOK, DatabaseOK, Pc
<1>4. StampsOK'
  BY <1>1 DEF StampsOK, TypeOK
<1>5. EffectOK(c)'
  BY <1>1 DEF EffectOK, TypeOK
<1>6. ASSUME NEW d \in Client \ {c} PROVE EffectOK(d)'
  <2>1. pc'[d] = pc[d] /\ batch'[d] = batch[d] /\ done'[d] = done[d]
    BY <1>1 DEF TypeOK
  <2> QED
    BY <1>1, <2>1, TransactionEnds, OthersOK
<1> QED
  BY <1>2, <1>3, <1>4, <1>5, <1>6

\* Every step keeps the invariant.
LEMMA InvStep == IInv /\ [Next]_vars => IInv'
<1> SUFFICES ASSUME IInv, [Next]_vars PROVE IInv'
  OBVIOUS
<1> USE DEF IInv
<1>0. clock \in Nat /\ clock >= 1
  BY RequestsAssumption DEF TypeOK, Seconds
<1>1. CASE UNCHANGED vars
  BY <1>1 DEF vars, requests, database, TypeOK, DatabaseOK, StampsOK, EffectOK
<1>2. CASE Tick
  <2>1. /\ clock' = clock + 1 /\ clock' \in Seconds
        /\ UNCHANGED <<table, work, writer, pc, batch, done, stamp, cursor, local, found>>
    BY <1>0, <1>2, RequestsAssumption DEF Tick, ClockTick, Seconds, database
  <2>2. DatabaseOK'
    <3>1. ASSUME NEW tab \in Table, RowsOK(tab, clock) PROVE RowsOK(tab, clock')
      <4> SUFFICES ASSUME NEW d \in Device, NEW i \in DOMAIN tab[d]
                   PROVE  tab[d][i].created <= clock'
        BY DEF RowsOK
      <4>1. tab[d][i] \in Row /\ tab[d][i].created <= clock
        BY <3>1 DEF Table, RowsOK
      <4>2. tab[d][i].created \in Nat
        BY <4>1 DEF Row, Seconds
      <4> QED
        BY <1>0, <2>1, <4>1, <4>2
    <3> QED
      BY <2>1, <3>1 DEF DatabaseOK
  <2>3. 0 .. clock \subseteq 0 .. clock'
    BY <1>0, <2>1
  <2>4. stamp' \in [Client -> 0 .. clock'] /\ cursor' \in [Client -> 0 .. clock']
    BY <2>1, <2>3 DEF TypeOK
  <2>5. TypeOK'
    BY <2>1, <2>4 DEF TypeOK
  <2>6. StampsOK' /\ \A c \in Client : EffectOK(c)'
    BY <2>1 DEF StampsOK, EffectOK
  <2> QED
    BY <2>2, <2>5, <2>6
<1>3. ASSUME NEW c \in Client, Upload(c) PROVE IInv'
  <2>1. PICK b \in Batches : StartUpload(c, b)
    BY <1>3 DEF Upload
  <2>2. b \in Seq(Change) /\ RemovesFirst(b)
    BY BatchOrder
  <2>3. /\ pc[c] \in Free /\ pc' = [pc EXCEPT ![c] = "upload"]
        /\ batch' = [batch EXCEPT ![c] = b] /\ stamp' = [stamp EXCEPT ![c] = clock]
        /\ UNCHANGED <<database, local, found, clock, done, cursor>>
    BY <1>3, <2>1 DEF Upload, StartUpload
  <2>4. DatabaseOK'
    BY <2>3, DatabaseUnchanged
  <2>5. /\ pc' \in [Client -> Pc] /\ batch' \in [Client -> Seq(Change)]
        /\ stamp' \in [Client -> 0 .. clock]
    BY <1>0, <2>2, <2>3 DEF TypeOK, Pc
  <2>6. TypeOK'
    BY <2>3, <2>4, <2>5 DEF TypeOK, DatabaseOK
  <2>7. StampsOK'
    BY <1>0, <2>3 DEF StampsOK, TypeOK
  <2>8. EffectOK(c)'
    <3>1. pc'[c] = "upload" /\ batch'[c] = b /\ done'[c] = 0
      BY <2>3 DEF TypeOK, EffectOK, Free
    <3>2. \A rows : Effect(rows, b, 0)
      BY DEF Effect
    <3>3. 0 <= Len(b)
      BY <2>2
    <3> QED
      BY <2>2, <3>1, <3>2, <3>3 DEF EffectOK
  <2>9. ASSUME NEW d \in Client \ {c} PROVE EffectOK(d)'
    BY <2>3, OthersOK DEF TypeOK
  <2> QED
    BY <2>4, <2>6, <2>7, <2>8, <2>9
<1>4. ASSUME NEW c \in Client, UploadOne(c) PROVE IInv'
  BY <1>4, UploadOneOK
<1>5. ASSUME NEW c \in Client, UploadEnd(c) PROVE IInv'
  BY <1>5, UploadEndOK
<1>6. ASSUME NEW c \in Client, Fetch(c) PROVE IInv'
  <2>1. /\ pc[c] = "idle" /\ pc' = [pc EXCEPT ![c] = "fetch"]
        /\ UNCHANGED <<database, local, found, clock, batch, done, stamp, cursor>>
    BY <1>6 DEF Fetch, StartFetch
  <2>2. DatabaseOK' /\ TypeOK' /\ StampsOK'
    BY <2>1, DatabaseUnchanged DEF TypeOK, DatabaseOK, Pc, StampsOK
  <2>3. EffectOK(c)'
    BY <2>1 DEF EffectOK, TypeOK
  <2>4. ASSUME NEW d \in Client \ {c} PROVE EffectOK(d)'
    BY <2>1, OthersOK DEF TypeOK
  <2> QED
    BY <2>2, <2>3, <2>4
<1>7. ASSUME NEW c \in Client, Select(c) PROVE IInv'
  <2> DEFINE latest == Max({row.created : row \in Selected(c)} \cup {0})
  <2>1. /\ pc[c] = "fetch" /\ pc' = [pc EXCEPT ![c] = "selected"]
        /\ stamp' = [stamp EXCEPT ![c] = latest]
        /\ found' = [found EXCEPT ![c] = Selected(c)]
        /\ UNCHANGED <<database, local, clock, batch, done, cursor>>
    BY <1>7 DEF Select, EndSelect
  <2>2. latest \in 0 .. clock /\ Selected(c) \subseteq Row
    BY LatestOK
  <2> HIDE DEF latest
  <2>3. DatabaseOK'
    BY <2>1, DatabaseUnchanged
  <2>4. TypeOK'
    BY <2>1, <2>2, <2>3 DEF TypeOK, DatabaseOK, Pc
  <2>5. StampsOK'
    BY <2>1 DEF StampsOK, TypeOK
  <2>6. EffectOK(c)'
    BY <2>1 DEF EffectOK, TypeOK
  <2>7. ASSUME NEW d \in Client \ {c} PROVE EffectOK(d)'
    BY <2>1, OthersOK DEF TypeOK
  <2> QED
    BY <2>3, <2>4, <2>5, <2>6, <2>7
<1>8. ASSUME NEW c \in Client, FetchEnd(c) PROVE IInv'
  <2>1. /\ pc[c] = "selected" /\ pc' = [pc EXCEPT ![c] = "fetched"]
        /\ stamp' = [stamp EXCEPT ![c] = IF stamp[c] = 0 THEN clock ELSE stamp[c]]
        /\ UNCHANGED <<database, local, found, clock, batch, done, cursor>>
    BY <1>8 DEF FetchEnd, LatestOrNow
  <2>2. DatabaseOK'
    BY <2>1, DatabaseUnchanged
  <2>3. TypeOK'
    BY <1>0, <2>1, <2>2 DEF TypeOK, DatabaseOK, Pc
  <2>4. StampsOK'
    BY <2>1 DEF StampsOK, TypeOK
  <2>5. EffectOK(c)'
    BY <2>1 DEF EffectOK, TypeOK
  <2>6. ASSUME NEW d \in Client \ {c} PROVE EffectOK(d)'
    BY <2>1, OthersOK DEF TypeOK
  <2> QED
    BY <2>2, <2>3, <2>4, <2>5, <2>6
<1>9. ASSUME NEW c \in Client, Fail(c) PROVE IInv'
  <2>1. local' \in [Client -> SUBSET Url] /\ found' \in [Client -> SUBSET Row]
    BY <1>9 DEF Fail, TypeOK
  <2>2. End(c, "failed") /\ UNCHANGED <<cursor, clock>>
    BY <1>9 DEF Fail, UploadError, FetchError, End
  <2>3. Rollback(c) \/ UNCHANGED database
    BY <1>9 DEF Fail, UploadError, FetchError
  <2>4. DatabaseOK' /\ (writer # c => UNCHANGED database)
    BY <2>2, <2>3, CommitOK, DatabaseUnchanged, TransactionEnds
  <2> QED
    BY <2>1, <2>2, <2>4, EndOK
<1>10. ASSUME NEW c \in Client, Receive(c) PROVE IInv'
  <2>1. found' \in [Client -> SUBSET Row]
    BY <1>10 DEF Receive, TypeOK
  <2>2. local' \in [Client -> SUBSET Url]
    <3>1. AddOf(found[c]) \subseteq Url
      BY DEF AddOf, TypeOK, Row
    <3>2. UrlsOf(c, "add") \subseteq Url
      <4>1. batch[c] \in Seq(Change)
        BY DEF TypeOK
      <4>2. ASSUME NEW k \in DOMAIN batch[c] PROVE batch[c][k].url \in Url
        <5>1. batch[c][k] \in Change
          BY <4>1
        <5> QED
          BY <5>1 DEF Change
      <4> QED
        BY <4>2 DEF UrlsOf, Range
    <3>3. ASSUME NEW remove, NEW add, add \subseteq Url
          PROVE  [local EXCEPT ![c] = Merge(local[c], remove, add)]
                   \in [Client -> SUBSET Url]
      <4>1. Merge(local[c], remove, add) \subseteq Url
        BY <3>3 DEF Merge, TypeOK
      <4> QED
        BY <4>1 DEF TypeOK
    <3>4. CASE ReceiveFetched(c) /\ local' =
                 [local EXCEPT ![c] = Merge(local[c], RemoveOf(found[c]), AddOf(found[c]))]
      BY <3>1, <3>3, <3>4
    <3>5. CASE ReceiveUploaded(c) /\ local' =
                 [local EXCEPT ![c] = Merge(local[c], UrlsOf(c, "remove"), UrlsOf(c, "add"))]
      BY <3>2, <3>3, <3>5
    <3> QED
      BY <1>10, <3>4, <3>5 DEF Receive
  <2>3. (End(c, "idle") \/ End(c, "between")) /\ UNCHANGED <<database, clock>>
    BY <1>10 DEF Receive, ReceiveFetched, ReceiveUploaded, End
  <2>4. UNCHANGED cursor \/ cursor' = [cursor EXCEPT ![c] = stamp[c]]
    BY <1>10 DEF Receive, ReceiveFetched, ReceiveUploaded
  <2> QED
    BY <2>1, <2>2, <2>3, <2>4, DatabaseUnchanged, EndOK
<1>11. ASSUME NEW c \in Client, Lose(c) PROVE IInv'
  <2>1. found' \in [Client -> SUBSET Row] /\ local' \in [Client -> SUBSET Url]
    BY <1>11 DEF Lose, TypeOK
  <2>2. End(c, "idle") /\ Rollback(c) /\ UNCHANGED <<cursor, clock>>
    BY <1>11 DEF Lose, Abandon, End
  <2>3. DatabaseOK' /\ (writer # c => UNCHANGED database)
    BY <2>2, CommitOK, TransactionEnds
  <2> QED
    BY <2>1, <2>2, <2>3, EndOK
<1> QED
  BY <1>1, <1>2, <1>3, <1>4, <1>5, <1>6, <1>7, <1>8, <1>9, <1>10, <1>11 DEF Next

\* The strengthening is an invariant; the properties below follow from it.
THEOREM Invariant == Spec => []IInv
BY InvInit, InvStep, PTL DEF Spec

-----------------------------------------------------------------------------
\* The properties

\* The subscriptions table and the requests have the types TypeOK gives them.
THEOREM TypeCorrect == Spec => []TypeOK
BY Invariant, PTL DEF IInv

\* What a step does to the committed table: nothing, or it commits an upload.
LEMMA TableStep ==
    ASSUME [Next]_vars
    PROVE  \/ UNCHANGED table
           \/ \E c \in Client : UploadEnd(c)
<1>1. ASSUME NEW c \in Client, Rollback(c) PROVE UNCHANGED table
  BY <1>1 DEF Rollback
<1> QED
  BY <1>1 DEF Next, vars, database, Tick, Upload, UploadOne, Execute, Fetch, Select,
              FetchEnd, Fail, UploadError, FetchError, Receive, ReceiveFetched,
              ReceiveUploaded, Lose, Abandon

\* No upload rewrites what the rows of a device say of the past.
THEOREM History == Spec => HistoryStands
<1>1. IInv /\ [Next]_vars =>
        [\A d \in Device : \A i \in DOMAIN table[d] :
            LET old == table[d][i]
                new == table'[d][i]
            IN  /\ i \in DOMAIN table'[d]
                /\ old.url = new.url /\ old.created = new.created
                /\ old.deleted # NULL => old.deleted = new.deleted]_vars
  <2> SUFFICES ASSUME IInv, [Next]_vars
               PROVE  Extends(table, table')
    BY DEF Extends, Keeps
  <2>1. ASSUME NEW c \in Client, UploadEnd(c) PROVE table' \in {table, work}
    BY <2>1 DEF UploadEnd, CommitUpload, Commit
  <2>2. table' \in {table, work}
    BY <2>1, TableStep
  <2> QED
    BY <2>2, ExtendsOrder DEF IInv, DatabaseOK
<1> QED
  BY <1>1, Invariant, PTL DEF Spec, HistoryStands

\* What the commit of an upload leaves active.
LEMMA UploadEffect ==
    ASSUME IInv, NEW c \in Client, UploadEnd(c)
    PROVE  LET active == Active(table'[DeviceOf[c]])
           IN  /\ UrlsOf(c, "add") \subseteq active
               /\ active \cap (UrlsOf(c, "remove") \ UrlsOf(c, "add")) = {}
<1> DEFINE b == batch[c]
           rows == table'[DeviceOf[c]]
<1>1. /\ b \in Seq(Change) /\ DOMAIN b = 1 .. Len(b) /\ pc[c] = "upload"
      /\ done[c] = Len(b) /\ Commit(c)
  BY DEF UploadEnd, CommitUpload, IInv, TypeOK
<1>2. Effect(rows, b, Len(b))
  <2>1. CASE Len(b) = 0
    BY <2>1 DEF Effect
  <2>2. CASE Len(b) # 0
    <3>1. Len(b) > 0
      BY <1>1, <2>2
    <3>2. writer = c /\ Effect(work[DeviceOf[c]], b, Len(b))
      BY <1>1, <3>1 DEF IInv, EffectOK
    <3> QED
      BY <1>1, <3>2 DEF Commit
  <2> QED
    BY <2>1, <2>2
<1>3. \A op, url : url \in UrlsOf(c, op) <=>
                     \E k \in 1 .. Len(b) : b[k].op = op /\ b[k].url = url
  BY <1>1 DEF UrlsOf, Range
<1> HIDE DEF b, rows
<1>4. UrlsOf(c, "add") \subseteq Active(rows)
  BY <1>2, <1>3 DEF Effect
<1>5. \A url \in UrlsOf(c, "remove") : url \in Active(rows) => url \in UrlsOf(c, "add")
  BY <1>2, <1>3 DEF Effect
<1> QED
  BY <1>4, <1>5 DEF rows

\* When an upload is answered, the device has the subscriptions it was to add, and
\* none of those it was only to remove.
THEOREM TakesEffect == Spec => UploadTakesEffect
<1> DEFINE Effective(c) ==
             LET active == Active(table'[DeviceOf[c]])
             IN  /\ UrlsOf(c, "add") \subseteq active
                 /\ active \cap (UrlsOf(c, "remove") \ UrlsOf(c, "add")) = {}
<1>1. ASSUME IInv, NEW c \in Client, UploadEnd(c) PROVE Effective(c)
  BY <1>1, UploadEffect
<1> HIDE DEF Effective
<1>2. ASSUME IInv, [Next]_vars, NEW c \in Client, pc[c] = "upload", pc'[c] = "uploaded"
      PROVE  UploadEnd(c)
  BY <1>2 DEF Next, vars, requests, Tick, ClockTick, Upload, StartUpload, UploadOne,
              StatementDone, UploadEnd, CommitUpload, Fetch, StartFetch, Select,
              EndSelect, FetchEnd, LatestOrNow, Fail, UploadError, FetchError, Receive,
              ReceiveFetched, ReceiveUploaded, Lose, Abandon, End, IInv, TypeOK
<1>3. IInv /\ [Next]_vars =>
        [\A c \in Client : pc[c] = "upload" /\ pc'[c] = "uploaded" =>
            LET active == Active(table'[DeviceOf[c]])
            IN  /\ UrlsOf(c, "add") \subseteq active
                /\ active \cap (UrlsOf(c, "remove") \ UrlsOf(c, "add")) = {}]_vars
  BY <1>1, <1>2 DEF Effective
<1> QED
  BY <1>3, Invariant, PTL DEF Spec, UploadTakesEffect

-----------------------------------------------------------------------------
\* Batches

\* The stages of a batch are well defined: the first one is the table, each other
\* one what a statement makes of the one before.
LEMMA StagesAre ==
    ASSUME NEW tab, NEW d, NEW b \in Seq(Change), NEW now
    PROVE  LET stage == Stages(tab, d, b, now)
           IN  /\ stage[0] = tab
               /\ \A n \in 0 .. Len(b) - 1 :
                    stage[n + 1] = Store(stage[n], d, b[n + 1], now)
<1> DEFINE Is(f, m) == /\ f[0] = tab
                       /\ \A n \in 0 .. m - 1 : f[n + 1] = Store(f[n], d, b[n + 1], now)
           Some == {m \in 0 .. Len(b) : \E f : Is(f, m)}
<1>1. 0 \in Some
  <2> DEFINE f == [n \in {0} |-> tab]
  <2>1. Is(f, 0) /\ 0 \in 0 .. Len(b)
    OBVIOUS
  <2> HIDE DEF f
  <2> QED
    BY <2>1
<1>2. ASSUME NEW m \in 0 .. Len(b) - 1, m \in Some PROVE m + 1 \in Some
  <2>1. PICK g : Is(g, m)
    BY <1>2
  <2> DEFINE f == [n \in 0 .. m + 1 |->
                     IF n <= m THEN g[n] ELSE Store(g[m], d, b[m + 1], now)]
  <2>2. ASSUME NEW n \in 0 .. m
        PROVE  f[n + 1] = Store(f[n], d, b[n + 1], now)
    <3>1. CASE n < m
      <4>1. n \in 0 .. m - 1 /\ n + 1 \in 0 .. m /\ n + 1 \in 0 .. m + 1
        BY <3>1
      <4> QED
        BY <2>1, <4>1
    <3>2. CASE n = m
      BY <3>2
    <3> QED
      BY <3>1, <3>2
  <2>3. f[0] = tab
    BY <2>1
  <2> HIDE DEF f
  <2>4. Is(f, m + 1) /\ m + 1 \in 0 .. Len(b)
    BY <2>2, <2>3
  <2> QED
    BY <2>4
<1>3. Len(b) \in Some
  <2>1. Len(b) \in Nat /\ Len(b) \in 0 .. Len(b)
    OBVIOUS
  <2> HIDE DEF Some
  <2> QED
    BY <1>1, <1>2, <2>1, Induction
<1>4. PICK g : Is(g, Len(b))
  BY <1>3
<1> DEFINE Eq(f) == f = [n \in 0 .. Len(b) |->
                           IF n = 0 THEN tab ELSE Store(f[n - 1], d, b[n], now)]
           stage == Stages(tab, d, b, now)
<1>5. Eq([n \in 0 .. Len(b) |-> g[n]])
  <2> DEFINE f == [n \in 0 .. Len(b) |-> g[n]]
  <2>1. ASSUME NEW n \in 0 .. Len(b)
        PROVE  f[n] = IF n = 0 THEN tab ELSE Store(f[n - 1], d, b[n], now)
    <3>1. CASE n # 0
      <4>1. n - 1 \in 0 .. Len(b) - 1 /\ n - 1 + 1 = n /\ n - 1 \in 0 .. Len(b)
        BY <3>1
      <4> QED
        BY <1>4, <3>1, <4>1
    <3> QED
      BY <1>4, <3>1
  <2>2. f = [n \in 0 .. Len(b) |-> f[n]]
    OBVIOUS
  <2> QED
    BY <2>1, <2>2
<1>6. stage = CHOOSE f : Eq(f)
  BY DEF Stages
<1> HIDE DEF stage
<1>7. Eq(stage)
  BY <1>5, <1>6
<1>8. stage[0] = tab
  BY <1>7
<1>9. ASSUME NEW n \in 0 .. Len(b) - 1
      PROVE  stage[n + 1] = Store(stage[n], d, b[n + 1], now)
  <2>1. n + 1 \in 0 .. Len(b) /\ n + 1 # 0 /\ n + 1 - 1 = n
    OBVIOUS
  <2> QED
    BY <1>7, <2>1
<1> QED
  BY <1>8, <1>9 DEF stage

\* The writer's transaction has made of the table what the statements that it has
\* executed make of it.
Writes(c) ==
    writer = c =>
        /\ pc[c] = "upload"
        /\ work = Stages(table, DeviceOf[c], batch[c], stamp[c])[done[c]]

WritesOK == NothingUncommitted /\ \A c \in Client : Writes(c)

\* A step of another client, to whom the lock is not given back.
LEMMA WritesStay ==
    ASSUME WritesOK, NEW c \in Client,
           pc'[c] = pc[c], batch'[c] = batch[c], done'[c] = done[c], stamp'[c] = stamp[c],
           \/ UNCHANGED database
           \/ writer # c /\ writer' # c
           \/ \E d \in Client \ {c} : Commit(d) \/ Rollback(d)
    PROVE  Writes(c)'
<1>1. writer = c /\ writer' = c => UNCHANGED <<table, work>>
  BY DEF Commit, Rollback, database
<1>2. writer' = c <=> writer = c
  BY ClientAssumption DEF Commit, Rollback, database
<1> QED
  BY <1>1, <1>2 DEF WritesOK, Writes

\* A request that ends has nothing in the table any more.
LEMMA EndWrites ==
    ASSUME IInv, WritesOK, NEW c \in Client, NEW outcome \in {"idle", "failed", "between"},
           End(c, outcome), Rollback(c) \/ (UNCHANGED database /\ pc[c] # "upload")
    PROVE  WritesOK'
<1>1. writer' # c
  BY ClientAssumption DEF Rollback, WritesOK, Writes, database
<1>2. ASSUME NEW d \in Client \ {c} PROVE Writes(d)'
  <2>1. pc'[d] = pc[d] /\ done'[d] = done[d] /\ batch'[d] = batch[d] /\ stamp'[d] = stamp[d]
    BY DEF End, IInv, TypeOK
  <2> QED
    BY <2>1, WritesStay
<1> QED
  BY <1>1, <1>2, NothingLeft DEF WritesOK, Writes

\* Every step keeps it that the writer's table is what its statements make.
LEMMA WritesStep == IInv /\ WritesOK /\ [Next]_vars => WritesOK'
<1> SUFFICES ASSUME IInv, WritesOK, [Next]_vars PROVE WritesOK'
  OBVIOUS
<1> USE DEF IInv
<1>1. CASE UNCHANGED vars
  BY <1>1, NothingLeft DEF vars, requests, database, WritesOK, Writes
<1>2. CASE Tick
  BY <1>2, WritesStay, NothingLeft DEF Tick, ClockTick, WritesOK
<1>3. ASSUME NEW c \in Client, Upload(c) PROVE WritesOK'
  <2>1. PICK b \in Batches : StartUpload(c, b)
    BY <1>3 DEF Upload
  <2>2. writer # c /\ UNCHANGED database
    BY <1>3, <2>1 DEF Upload, StartUpload, WritesOK, Writes, Free
  <2>3. ASSUME NEW d \in Client \ {c} PROVE Writes(d)'
    BY <2>1, <2>2, WritesStay DEF StartUpload, TypeOK
  <2> QED
    BY <2>2, <2>3, NothingLeft DEF WritesOK, Writes, database
<1>4. ASSUME NEW c \in Client, UploadOne(c) PROVE WritesOK'
  <2>1. /\ pc[c] = "upload" /\ done[c] \in Nat /\ done[c] < Len(batch[c])
        /\ batch[c] \in Seq(Change) /\ writer \in {NoClient, c}
        /\ work' = Store(work, DeviceOf[c], Statement(c), stamp[c])
        /\ table' = table /\ writer' = c
        /\ done' = [done EXCEPT ![c] = done[c] + 1]
        /\ UNCHANGED <<pc, batch, stamp>>
    BY <1>4 DEF UploadOne, HasStatement, Execute, StatementDone, TypeOK
  <2> DEFINE stage == Stages(table, DeviceOf[c], batch[c], stamp[c])
  <2>2. /\ stage[0] = table
        /\ \A n \in 0 .. Len(batch[c]) - 1 :
             stage[n + 1] = Store(stage[n], DeviceOf[c], batch[c][n + 1], stamp[c])
    <3>1. batch[c] \in Seq(Change)
      BY <2>1
    <3> QED
      BY <3>1, StagesAre
  <2>3. work = stage[done[c]]
    <3>1. CASE writer = c
      BY <3>1 DEF WritesOK, Writes
    <3>2. CASE writer = NoClient
      <4>1. done[c] = 0
        BY <2>1, <3>2, ClientAssumption DEF EffectOK
      <4>2. stage[0] = table
        BY <2>2
      <4> QED
        BY <3>2, <4>1, <4>2 DEF WritesOK, NothingUncommitted
    <3> QED
      BY <2>1, <3>1, <3>2
  <2>4. work' = stage[done[c] + 1]
    <3>1. done[c] \in 0 .. Len(batch[c]) - 1
      BY <2>1
    <3> HIDE DEF stage
    <3>2. stage[done[c] + 1] = Store(stage[done[c]], DeviceOf[c], batch[c][done[c] + 1], stamp[c])
      BY <2>2, <3>1
    <3> QED
      BY <2>1, <2>3, <3>2 DEF Statement
  <2>5. Writes(c)'
    BY <2>1, <2>4 DEF Writes, TypeOK
  <2>6. ASSUME NEW d \in Client \ {c} PROVE Writes(d)'
    BY <2>1, WritesStay, ClientAssumption DEF TypeOK
  <2> QED
    BY <2>1, <2>5, <2>6, NothingLeft DEF WritesOK
<1>5. ASSUME NEW c \in Client, UploadEnd(c) PROVE WritesOK'
  <2>1. Commit(c) /\ pc' = [pc EXCEPT ![c] = "uploaded"] /\ UNCHANGED <<batch, done, stamp>>
    BY <1>5 DEF UploadEnd, CommitUpload
  <2>2. writer' # c
    BY <2>1, ClientAssumption DEF Commit
  <2>3. ASSUME NEW d \in Client \ {c} PROVE Writes(d)'
    BY <2>1, WritesStay DEF TypeOK
  <2> QED
    BY <2>1, <2>2, <2>3, NothingLeft DEF WritesOK, Writes
<1>6. ASSUME NEW c \in Client, Fetch(c) \/ Select(c) \/ FetchEnd(c) PROVE WritesOK'
  <2>1. /\ pc[c] # "upload"
        /\ UNCHANGED <<database, batch, done>>
        /\ \A d \in Client \ {c} : pc'[d] = pc[d] /\ stamp'[d] = stamp[d]
    BY <1>6 DEF Fetch, StartFetch, Select, EndSelect, FetchEnd, LatestOrNow, TypeOK
  <2>2. Writes(c)'
    BY <2>1 DEF Writes, WritesOK, database
  <2>3. ASSUME NEW d \in Client \ {c} PROVE Writes(d)'
    BY <2>1, WritesStay
  <2> QED
    BY <2>1, <2>2, <2>3, NothingLeft DEF WritesOK
<1>7. ASSUME NEW c \in Client, Fail(c) PROVE WritesOK'
  BY <1>7, EndWrites DEF Fail, UploadError, FetchError
<1>8. ASSUME NEW c \in Client, Receive(c) PROVE WritesOK'
  BY <1>8, EndWrites DEF Receive, ReceiveFetched, ReceiveUploaded
<1>9. ASSUME NEW c \in Client, Lose(c) PROVE WritesOK'
  BY <1>9, EndWrites DEF Lose, Abandon
<1> QED
  BY <1>1, <1>2, <1>3, <1>4, <1>5, <1>6, <1>7, <1>8, <1>9 DEF Next

-----------------------------------------------------------------------------
\* The refinement

\* The initial states map to those of BatchStore.
LEMMA InitBatching == Init => Batching!Init
BY DEF Init, InitDatabase, InitRequests, Batching!Init, Offers

\* Only the steps that begin and end an upload are seen in what is offered.
LEMMA OffersAre ==
    ASSUME TypeOK, NEW c \in Client,
           \A d \in Client \ {c} :
                pc'[d] = pc[d] /\ batch'[d] = batch[d] /\ stamp'[d] = stamp[d]
    PROVE  Offers' = [Offers EXCEPT ![c] =
                IF pc'[c] = "upload" THEN {[batch |-> batch'[c], at |-> stamp'[c]]} ELSE {}]
BY DEF Offers

\* A commit is a batch of BatchStore, every other step changes nothing of it.
LEMMA StepBatching ==
    IInv /\ WritesOK /\ [Next]_vars => [Batching!Next]_<<table, Offers>>
<1> SUFFICES ASSUME IInv, WritesOK, [Next]_vars,
                    UNCHANGED <<table, Offers>> => FALSE
             PROVE  Batching!Next
  OBVIOUS
<1> USE DEF IInv
<1>1. ASSUME NEW c \in Client, Upload(c) PROVE Batching!Next
  <2>1. PICK b \in Batches : StartUpload(c, b)
    BY <1>1 DEF Upload
  <2>2. /\ pc[c] # "upload" /\ table' = table
        /\ pc'[c] = "upload" /\ batch'[c] = b /\ stamp'[c] = clock /\ clock \in Seconds
        /\ \A d \in Client \ {c} :
             pc'[d] = pc[d] /\ batch'[d] = batch[d] /\ stamp'[d] = stamp[d]
    BY <1>1, <2>1 DEF Upload, StartUpload, TypeOK, database, Free
  <2>3. Offers' = [Offers EXCEPT ![c] = {[batch |-> b, at |-> clock]}]
    BY <2>2, OffersAre
  <2>4. Offers[c] = {}
    BY <2>2 DEF Offers
  <2>5. Batching!Offer(c, b, clock)
    BY <2>2, <2>3, <2>4 DEF Batching!Offer
  <2> QED
    BY <2>2, <2>5 DEF Batching!Next
<1>2. ASSUME NEW c \in Client, UploadEnd(c) PROVE Batching!Next
  <2>1. /\ pc[c] = "upload" /\ done[c] = Len(batch[c]) /\ Commit(c)
        /\ pc'[c] # "upload"
        /\ \A d \in Client \ {c} :
             pc'[d] = pc[d] /\ batch'[d] = batch[d] /\ stamp'[d] = stamp[d]
    BY <1>2 DEF UploadEnd, CommitUpload, TypeOK
  <2>2. Offers' = [Offers EXCEPT ![c] = {}]
    BY <2>1, OffersAre
  <2>3. [batch |-> batch[c], at |-> stamp[c]] \in Offers[c]
    BY <2>1 DEF Offers
  <2>4. table' = ApplyBatch(table, c, batch[c], stamp[c])
    <3>1. CASE writer = c
      BY <2>1, <3>1 DEF Commit, WritesOK, Writes, ApplyBatch
    <3>2. CASE writer # c
      <4>1. done[c] = 0 /\ batch[c] \in Seq(Change)
        BY <2>1, <3>2 DEF EffectOK, TypeOK
      <4>2. Stages(table, DeviceOf[c], batch[c], stamp[c])[0] = table
        BY <4>1, StagesAre
      <4> QED
        BY <2>1, <3>2, <4>1, <4>2 DEF Commit, ApplyBatch
    <3> QED
      BY <3>1, <3>2
  <2>5. Batching!Accept(c)
    BY <2>2, <2>3, <2>4 DEF Batching!Accept
  <2> QED
    BY <2>5 DEF Batching!Next
<1>3. ASSUME NEW c \in Client, NEW outcome \in {"idle", "failed", "between"}, End(c, outcome),
             table' = table
      PROVE  Batching!Next
  <2>1. /\ pc'[c] # "upload"
        /\ \A d \in Client \ {c} :
             pc'[d] = pc[d] /\ batch'[d] = batch[d] /\ stamp'[d] = stamp[d]
    BY <1>3 DEF End, TypeOK
  <2>2. Offers' = [Offers EXCEPT ![c] = {}]
    BY <2>1, OffersAre
  <2>3. Offers[c] # {}
    BY <1>3, <2>2 DEF Offers
  <2>4. Batching!Withdraw(c)
    BY <1>3, <2>2, <2>3 DEF Batching!Withdraw
  <2> QED
    BY <2>4 DEF Batching!Next
<1>4. ASSUME NEW c \in Client, Fail(c) \/ Receive(c) \/ Lose(c)
      PROVE  Batching!Next
  BY <1>3, <1>4 DEF Fail, UploadError, FetchError, Receive, ReceiveFetched,
     ReceiveUploaded, Lose, Abandon, Rollback, database
<1>5. ASSUME NEW c \in Client, Fetch(c) \/ Select(c) \/ FetchEnd(c)
      PROVE  FALSE
  <2>1. /\ pc[c] # "upload" /\ pc'[c] # "upload" /\ UNCHANGED <<table, batch>>
        /\ \A d \in Client \ {c} : pc'[d] = pc[d] /\ stamp'[d] = stamp[d]
    BY <1>5 DEF Fetch, StartFetch, Select, EndSelect, FetchEnd, LatestOrNow, TypeOK, database
  <2> QED
    BY <2>1 DEF Offers
<1>6. ASSUME NEW c \in Client, UploadOne(c) PROVE FALSE
  BY <1>6 DEF UploadOne, Execute, StatementDone, Offers
<1>7. CASE Tick
  BY <1>7 DEF Tick, ClockTick, Offers, database
<1>8. CASE UNCHANGED vars
  BY <1>8 DEF vars, requests, database, Offers
<1> QED
  BY <1>1, <1>2, <1>4, <1>5, <1>6, <1>7, <1>8 DEF Next

\* The transactions of uploads make each batch one step of the table, or none,
\* whatever statements of others, failures and lost connections interleave.
THEOREM Refinement == Spec => ImplementsBatches
<1>1. Init => WritesOK
  BY ClientAssumption DEF Init, InitDatabase, WritesOK, Writes, NothingUncommitted
<1> QED
  BY <1>1, InitBatching, Invariant, WritesStep, StepBatching, PTL
  DEF Spec, ImplementsBatches, Batching!Spec

-----------------------------------------------------------------------------
\* Requests that come one at a time

\* Up to t, what was active of a url when it was deleted is not active any more: what
\* is active was created then or later.
GoodRows(rows, t) ==
    \A i \in DOMAIN rows :
        /\ rows[i].created <= t
        /\ rows[i].deleted # NULL =>
              /\ rows[i].created <= rows[i].deleted
              /\ rows[i].deleted <= t
              /\ \A j \in DOMAIN rows :
                    rows[j].url = rows[i].url /\ rows[j].deleted = NULL =>
                        rows[j].created >= rows[i].deleted

Good(tab, t) == \A d \in Device : GoodRows(tab[d], t)

\* The rows of new that are not as they are in old have the time t.
NewAt(old, new, t) ==
    \A i \in DOMAIN new :
        \/ i \in DOMAIN old /\ new[i] = old[i]
        \/ t \in {new[i].created, new[i].deleted}

\* The rows that a fetch selects.
Later(rows, since) ==
    {row \in Range(rows) :
        row.created > since \/ (row.deleted # NULL /\ row.deleted > since)}

\* A client with these urls, and this cursor, will be told what it lacks.
Synced(urls, rows, since) ==
    /\ Active(rows) \subseteq urls \cup AddOf(Later(rows, since))
    /\ urls \ Active(rows) \subseteq RemoveOf(Later(rows, since))

\* An upload has had its effect.
Told(c) ==
    LET active == Active(table[DeviceOf[c]])
    IN  /\ UrlsOf(c, "add") \subseteq active
        /\ active \cap (UrlsOf(c, "remove") \ UrlsOf(c, "add")) = {}

\* The statements of c's upload have added and removed no more than they say.
Within(c) ==
    LET old == Active(table[DeviceOf[c]])
        new == Active(work[DeviceOf[c]])
    IN  new \subseteq old \cup UrlsOf(c, "add") /\ old \ UrlsOf(c, "remove") \subseteq new

\* The timestamp of an upload is to be the cursor of c, which has fetched before.
Adopting(c) == pc[c] = "between" \/ (c \in Adopters /\ pc[c] \in {"upload", "uploaded"})

\* When it knows that its upload has had its effect, c has what its device has.
UpToDate(c) ==
    Active(table[DeviceOf[c]]) =
        IF pc[c] = "uploaded" THEN Merge(local[c], UrlsOf(c, "remove"), UrlsOf(c, "add"))
        ELSE local[c]

\* One request or synchronisation at a time; an upload is later than every cursor; a
\* fetch answers what its select has found; and an adopter knows what others did.
SerialOK ==
    /\ \A c, d \in Client : pc[c] # "idle" /\ pc[d] # "idle" => c = d
    /\ \A c \in Client : writer = c => Within(c)
    /\ \A c \in Client : Adopting(c) => UpToDate(c)
    /\ \A c \in Client : pc[c] = "upload" =>
          Good(work, stamp[c]) /\ \A d \in Client : cursor[d] < stamp[c]
    /\ \A c \in Client : writer = c =>
          pc[c] = "upload" /\ \A d \in Device : NewAt(table[d], work[d], stamp[c])
    /\ NothingUncommitted
    /\ Good(table, clock) /\ Good(work, clock)
    /\ \A c \in Client : pc[c] \in {"selected", "fetched"} => found[c] = Selected(c)
    /\ \A c \in Client : pc[c] = "uploaded" => Told(c)
    /\ \A c \in Client : Synced(local[c], table[DeviceOf[c]], cursor[c])

\* Deleting the active rows of a url leaves the rows of a device good.
LEMMA RemovedGood ==
    ASSUME NEW rows \in Seq(Row), NEW url \in Url, NEW now \in Seconds,
           GoodRows(rows, now)
    PROVE  /\ GoodRows(Removed(rows, url, now), now)
           /\ NewAt(rows, Removed(rows, url, now), now)
<1> DEFINE new == Removed(rows, url, now)
<1>1. now # NULL /\ now \in Nat
  BY SubscriptionsAssumption DEF Seconds
<1>2. DOMAIN new = DOMAIN rows
  BY DEF Removed
<1>3. \A i \in DOMAIN rows :
        \/ /\ rows[i].url = url /\ rows[i].deleted = NULL
           /\ new[i] = [url |-> url, created |-> rows[i].created, deleted |-> now]
        \/ ~(rows[i].url = url /\ rows[i].deleted = NULL) /\ new[i] = rows[i]
  BY DEF Removed, Removes, IsActive
<1> HIDE DEF new
<1>4. \A i \in DOMAIN rows :
        \/ /\ rows[i].url = url /\ new[i].url = url
           /\ new[i].created = rows[i].created /\ new[i].deleted = now
        \/ ~(rows[i].url = url /\ rows[i].deleted = NULL) /\ new[i] = rows[i]
  <2> SUFFICES ASSUME NEW i \in DOMAIN rows, rows[i].url = url, rows[i].deleted = NULL,
                      new[i] = [url |-> url, created |-> rows[i].created, deleted |-> now]
               PROVE  /\ new[i].url = url /\ new[i].created = rows[i].created
                      /\ new[i].deleted = now
    BY <1>3
  <2> QED
    OBVIOUS
<1>5. NewAt(rows, new, now)
  BY <1>2, <1>4 DEF NewAt
<1>6. GoodRows(new, now)
  <2> SUFFICES ASSUME NEW i \in DOMAIN rows
               PROVE  /\ new[i].created <= now
                      /\ new[i].deleted # NULL =>
                            /\ new[i].created <= new[i].deleted
                            /\ new[i].deleted <= now
                            /\ \A j \in DOMAIN rows :
                                  new[j].url = new[i].url /\ new[j].deleted = NULL =>
                                      new[j].created >= new[i].deleted
    BY <1>2 DEF GoodRows
  <2>1. CASE new[i].url = url /\ new[i].deleted = now
    <3>1. rows[i].created <= now /\ new[i].created = rows[i].created
      BY <1>4 DEF GoodRows
    <3>2. ASSUME NEW j \in DOMAIN rows, new[j].url = url PROVE new[j].deleted # NULL
      BY <1>1, <1>4, <3>2
    <3> QED
      BY <1>1, <2>1, <3>1, <3>2
  <2>2. CASE new[i] = rows[i]
    <3>1. \A j \in DOMAIN rows : new[j].deleted = NULL => new[j] = rows[j]
      BY <1>1, <1>4
    <3> QED
      BY <2>2, <3>1 DEF GoodRows
  <2> QED
    BY <1>4, <2>1, <2>2
<1> QED
  BY <1>5, <1>6 DEF new

\* So does adding an active row.
LEMMA AddedGood ==
    ASSUME NEW rows \in Seq(Row), NEW url \in Url, NEW now \in Seconds,
           GoodRows(rows, now)
    PROVE  /\ GoodRows(Added(rows, url, now), now)
           /\ NewAt(rows, Added(rows, url, now), now)
<1> DEFINE row == [url |-> url, created |-> now, deleted |-> NULL]
           new == Added(rows, url, now)
<1>1. row \in Row /\ now \in Nat
  BY DEF Row, Seconds
<1>2. new = Append(rows, row)
  BY DEF Added
<1>3. row.created = now /\ row.deleted = NULL
  OBVIOUS
<1> HIDE DEF new, row
<1>4. /\ Len(new) = Len(rows) + 1
      /\ \A i \in 1 .. Len(rows) : new[i] = rows[i]
      /\ new[Len(rows) + 1] = row
      /\ new \in Seq(Row)
  BY <1>1, <1>2, AppendProperties
<1>5. \A i \in DOMAIN new :
        \/ i \in DOMAIN rows /\ new[i] = rows[i]
        \/ new[i].created = now /\ new[i].deleted = NULL
  <2>1. DOMAIN new = 1 .. Len(rows) + 1 /\ DOMAIN rows = 1 .. Len(rows)
    BY <1>4
  <2> QED
    BY <1>3, <1>4, <2>1
<1>6. NewAt(rows, new, now)
  BY <1>5 DEF NewAt
<1>7. GoodRows(new, now)
  <2> SUFFICES ASSUME NEW i \in DOMAIN new
               PROVE  /\ new[i].created <= now
                      /\ new[i].deleted # NULL =>
                            /\ new[i].created <= new[i].deleted
                            /\ new[i].deleted <= now
                            /\ \A j \in DOMAIN new :
                                  new[j].url = new[i].url /\ new[j].deleted = NULL =>
                                      new[j].created >= new[i].deleted
    BY DEF GoodRows
  <2>1. CASE new[i].created = now /\ new[i].deleted = NULL
    BY <1>1, <2>1
  <2>2. CASE i \in DOMAIN rows /\ new[i] = rows[i]
    <3>1. ASSUME NEW j \in DOMAIN new, new[j].url = new[i].url, new[j].deleted = NULL,
                 new[i].deleted # NULL
          PROVE  new[j].created >= new[i].deleted
      <4>1. CASE j \in DOMAIN rows /\ new[j] = rows[j]
        BY <2>2, <3>1, <4>1 DEF GoodRows
      <4>2. CASE new[j].created = now
        <5>1. rows[i] \in Row /\ rows[i].deleted <= now /\ rows[i].deleted # NULL
          BY <2>2, <3>1 DEF GoodRows
        <5>2. rows[i].deleted \in Nat
          BY <5>1 DEF Row, Seconds
        <5> QED
          BY <1>1, <2>2, <4>2, <5>1, <5>2
      <4> QED
        BY <1>5, <4>1, <4>2
    <3> QED
      BY <2>2, <3>1 DEF GoodRows
  <2> QED
    BY <1>5, <2>1, <2>2
<1> QED
  BY <1>6, <1>7 DEF new

\* A statement leaves a good table good, and gives its own time to what it changes.
LEMMA StoreGood ==
    ASSUME NEW tab \in Table, NEW d \in Device, NEW x \in Change, NEW now \in Seconds,
           Good(tab, now)
    PROVE  LET new == Store(tab, d, x, now)
           IN  Good(new, now) /\ \A e \in Device : NewAt(tab[e], new[e], now)
<1> DEFINE rows == IF x.op = "remove" THEN Removed(tab[d], x.url, now)
                                      ELSE Added(tab[d], x.url, now)
           new == Store(tab, d, x, now)
<1>1. tab[d] \in Seq(Row) /\ x.url \in Url /\ GoodRows(tab[d], now)
  BY DEF Table, Change, Good
<1>2. GoodRows(rows, now) /\ NewAt(tab[d], rows, now)
  BY <1>1, RemovedGood, AddedGood
<1>3. new = [tab EXCEPT ![d] = rows]
  BY DEF Store
<1> HIDE DEF rows, new
<1>4. new[d] = rows /\ \A e \in Device \ {d} : new[e] = tab[e]
  BY <1>3 DEF Table
<1>5. Good(new, now)
  BY <1>2, <1>4 DEF Good
<1>6. \A e \in Device : NewAt(tab[e], new[e], now)
  BY <1>2, <1>4 DEF NewAt
<1> QED
  BY <1>5, <1>6 DEF new

\* What is good up to a time is good up to a later one.
LEMMA GoodLater ==
    ASSUME NEW tab \in Table, NEW s \in Nat, NEW t \in Nat, s <= t, Good(tab, s)
    PROVE  Good(tab, t)
<1> SUFFICES ASSUME NEW d \in Device, NEW i \in DOMAIN tab[d]
             PROVE  /\ tab[d][i].created <= t
                    /\ tab[d][i].deleted # NULL => tab[d][i].deleted <= t
  BY DEF Good, GoodRows
<1>1. tab[d][i] \in Row
  BY DEF Table
<1>2. /\ tab[d][i].created \in Nat
      /\ tab[d][i].deleted # NULL => tab[d][i].deleted \in Nat
  BY <1>1 DEF Row, Seconds
<1> QED
  BY <1>2 DEF Good, GoodRows

\* The two lists of an answer.
LEMMA LaterRows ==
    ASSUME NEW rows \in Seq(Row), NEW since, NEW u
    PROVE  /\ u \in AddOf(Later(rows, since)) <=>
                \E i \in DOMAIN rows :
                    rows[i].url = u /\ rows[i].deleted = NULL /\ rows[i].created > since
           /\ u \in RemoveOf(Later(rows, since)) <=>
                \E i \in DOMAIN rows :
                    /\ rows[i].url = u /\ rows[i].deleted # NULL
                    /\ rows[i].created > since \/ rows[i].deleted > since
BY DEF AddOf, RemoveOf, Later, Range, IsActive

\* What an answer has to remove and is active, it also has to add.
LEMMA RemovedIsAdded ==
    ASSUME NEW rows \in Seq(Row), NEW t, GoodRows(rows, t), NEW since \in Nat,
           NEW u \in Active(rows), u \in RemoveOf(Later(rows, since))
    PROVE  u \in AddOf(Later(rows, since))
<1>1. PICK j \in DOMAIN rows : rows[j].url = u /\ rows[j].deleted = NULL
  BY ActiveRows
<1>2. PICK i \in DOMAIN rows :
        /\ rows[i].url = u /\ rows[i].deleted # NULL
        /\ rows[i].created > since \/ rows[i].deleted > since
  BY LaterRows
<1>3. rows[i] \in Row /\ rows[j] \in Row
  OBVIOUS
<1>4. rows[j].created \in Nat /\ rows[i].created \in Nat /\ rows[i].deleted \in Nat
  BY <1>2, <1>3 DEF Row, Seconds
<1>5. rows[i].created <= rows[i].deleted /\ rows[j].created >= rows[i].deleted
  BY <1>1, <1>2 DEF GoodRows
<1>6. rows[j].created > since
  BY <1>2, <1>4, <1>5
<1> QED
  BY <1>1, <1>6, LaterRows

\* So a client that is to be told what it lacks has all of it after its fetch.
LEMMA SyncedMerges ==
    ASSUME NEW rows \in Seq(Row), NEW t, GoodRows(rows, t), NEW since \in Nat, NEW urls,
           Synced(urls, rows, since)
    PROVE  Merge(urls, RemoveOf(Later(rows, since)), AddOf(Later(rows, since)))
              = Active(rows)
<1>1. \A u : u \in AddOf(Later(rows, since)) => u \in Active(rows)
  BY LaterRows, ActiveRows
<1>2. \A u \in Active(rows) :
        u \in RemoveOf(Later(rows, since)) => u \in AddOf(Later(rows, since))
  BY RemovedIsAdded
<1> QED
  BY <1>1, <1>2 DEF Merge, Synced

\* A commit of what is later than the cursor leaves nothing untold.
LEMMA CommitSyncs ==
    ASSUME NEW old \in Seq(Row), NEW new \in Seq(Row),
           NEW since \in Nat, NEW t \in Seconds, since < t,
           GoodRows(new, t), NewAt(old, new, t),
           \A i \in DOMAIN old : i \in DOMAIN new /\ Keeps(old[i], new[i]),
           NEW urls, Synced(urls, old, since)
    PROVE  Synced(urls, new, since)
<1>1. t \in Nat /\ t # NULL
  BY SubscriptionsAssumption DEF Seconds
<1>2. \A i \in DOMAIN new : new[i].created \in Nat /\ new[i].deleted \in Nat \cup {NULL}
  <2>1. \A i \in DOMAIN new : new[i] \in Row
    OBVIOUS
  <2> QED
    BY <2>1 DEF Row, Seconds
<1>3. ASSUME NEW u \in Active(new) PROVE u \in urls \cup AddOf(Later(new, since))
  <2>1. PICK i \in DOMAIN new : new[i].url = u /\ new[i].deleted = NULL
    BY ActiveRows
  <2>2. CASE new[i].created > since
    BY <2>1, <2>2, LaterRows
  <2>3. CASE ~(new[i].created > since)
    <3>1. i \in DOMAIN old /\ new[i] = old[i]
      BY <1>1, <1>2, <2>1, <2>3 DEF NewAt
    <3>2. u \in Active(old)
      BY <2>1, <3>1, ActiveRows
    <3>3. ASSUME u \in AddOf(Later(old, since)) PROVE u \in AddOf(Later(new, since))
      <4>1. PICK k \in DOMAIN old :
              old[k].url = u /\ old[k].deleted = NULL /\ old[k].created > since
        BY <3>3, LaterRows
      <4>2. k \in DOMAIN new /\ new[k].url = u /\ new[k].created > since
        BY <4>1 DEF Keeps
      <4>3. CASE new[k].deleted = NULL
        BY <4>2, <4>3, LaterRows
      <4>4. CASE new[k].deleted # NULL
        <5>1. new[k].created <= new[k].deleted /\ new[i].created >= new[k].deleted
          BY <2>1, <4>2, <4>4 DEF GoodRows
        <5>2. new[k].deleted \in Nat
          BY <1>2, <4>2, <4>4
        <5> QED
          BY <1>2, <2>3, <4>2, <5>1, <5>2
      <4> QED
        BY <4>3, <4>4
    <3> QED
      BY <3>2, <3>3 DEF Synced
  <2> QED
    BY <2>2, <2>3
<1>4. ASSUME NEW u \in urls, u \notin Active(new)
      PROVE  u \in RemoveOf(Later(new, since))
  <2>1. CASE u \in Active(old)
    <3>1. PICK k \in DOMAIN old : old[k].url = u /\ old[k].deleted = NULL
      BY <2>1, ActiveRows
    <3>2. k \in DOMAIN new /\ new[k].url = u
      BY <3>1 DEF Keeps
    <3>3. new[k].deleted # NULL
      BY <1>4, <3>2, ActiveRows
    <3>4. t \in {new[k].created, new[k].deleted}
      BY <3>1, <3>2, <3>3 DEF NewAt
    <3>5. new[k].created > since \/ new[k].deleted > since
      BY <1>1, <3>4
    <3> QED
      BY <3>2, <3>3, <3>5, LaterRows
  <2>2. CASE u \notin Active(old)
    <3>1. u \in RemoveOf(Later(old, since))
      BY <2>2 DEF Synced
    <3>2. PICK k \in DOMAIN old :
            /\ old[k].url = u /\ old[k].deleted # NULL
            /\ old[k].created > since \/ old[k].deleted > since
      BY <3>1, LaterRows
    <3>3. /\ k \in DOMAIN new /\ new[k].url = u /\ new[k].deleted = old[k].deleted
          /\ new[k].created = old[k].created
      BY <3>2 DEF Keeps
    <3> QED
      BY <3>2, <3>3, LaterRows
  <2> QED
    BY <2>1, <2>2
<1> QED
  BY <1>3, <1>4 DEF Synced

\* Who begins is alone, and has fetched before if it is an adopter that uploads.
LEMMA Alone ==
    ASSUME NEW c \in Client, Starting(c), OneAtATime, Undisturbed
    PROVE  /\ \A d \in Client \ {c} : pc[d] = "idle"
           /\ pc'[c] = "upload" =>
                /\ \A d \in Client : cursor[d] < clock
                /\ c \in Adopters => pc[c] = "between"
BY DEF OneAtATime, Undisturbed, Free

\* What an upload makes of the subscriptions that its client knows is what it makes of
\* those of the device.
LEMMA UploadMerges ==
    ASSUME NEW old, NEW new, NEW remove, NEW add,
           new \subseteq old \cup add, old \ remove \subseteq new,
           add \subseteq new, new \cap (remove \ add) = {}
    PROVE  new = Merge(old, remove, add)
BY DEF Merge

\* c's request ends, and its transaction with it.
LEMMA SerialEnd ==
    ASSUME IInv, SerialOK, NEW c \in Client, NEW outcome \in {"idle", "failed", "between"},
           pc[c] # "idle", End(c, outcome),
           Rollback(c) \/ (UNCHANGED database /\ pc[c] # "upload"),
           \A d \in Client : Synced(local[d], table[DeviceOf[d]], cursor[d])',
           outcome = "between" => (Active(table[DeviceOf[c]]) = local[c])'
    PROVE  SerialOK'
<1>1. \A d \in Client \ {c} : pc[d] = "idle" /\ pc'[d] = "idle"
  BY DEF SerialOK, End, IInv, TypeOK
<1>2. pc'[c] = outcome /\ clock' = clock
  BY DEF End, IInv, TypeOK
<1>3. writer' = NoClient /\ work' = table' /\ table' = table
  BY <1>1, ClientAssumption
  DEF Rollback, SerialOK, NothingUncommitted, IInv, TypeOK, database
<1> QED
  BY <1>1, <1>2, <1>3, ClientAssumption
  DEF SerialOK, NothingUncommitted, Adopting, UpToDate

\* Requests one at a time keep what is to be shown of clients and their cursors.
LEMMA SerialStep ==
    IInv /\ SerialOK /\ [Next /\ OneAtATime /\ Undisturbed]_vars => SerialOK'
<1> SUFFICES ASSUME IInv, SerialOK, [Next /\ OneAtATime /\ Undisturbed]_vars
             PROVE  SerialOK'
  OBVIOUS
<1>0. /\ clock \in Nat /\ DeviceOf \in [Client -> Device]
      /\ \A d \in Client : cursor[d] \in Nat
      /\ table \in Table /\ work \in Table
  BY RequestsAssumption, SubscriptionsAssumption DEF IInv, TypeOK, Seconds
<1>1. CASE UNCHANGED vars
  BY <1>1 DEF vars, requests, database, SerialOK, NothingUncommitted, Selected, Told,
     UrlsOf, Within, Adopting, UpToDate
<1>2. CASE Tick
  <2>1. /\ clock' = clock + 1
        /\ UNCHANGED <<table, work, writer, pc, batch, stamp, cursor, local, found>>
    BY <1>2 DEF Tick, ClockTick, database
  <2>2. Good(table, clock') /\ Good(work, clock')
    BY <1>0, <2>1, GoodLater DEF SerialOK
  <2> QED
    BY <2>1, <2>2 DEF SerialOK, NothingUncommitted, Selected, Told, UrlsOf, Within,
       Adopting, UpToDate
<1>3. ASSUME NEW c \in Client, Upload(c), OneAtATime, Undisturbed PROVE SerialOK'
  <2>1. /\ pc[c] \in Free /\ pc' = [pc EXCEPT ![c] = "upload"]
        /\ stamp' = [stamp EXCEPT ![c] = clock]
        /\ UNCHANGED <<table, work, writer, clock, cursor, local, found>>
    BY <1>3 DEF Upload, StartUpload, database
  <2>2. pc'[c] = "upload" /\ stamp'[c] = clock /\ \A d \in Client \ {c} : pc'[d] = pc[d]
    BY <2>1 DEF IInv, TypeOK
  <2>3. /\ \A d \in Client \ {c} : pc[d] = "idle"
        /\ \A d \in Client : cursor[d] < clock
        /\ c \in Adopters => pc[c] = "between"
    BY <1>3, <2>1, <2>2, Alone DEF Starting, Free
  <2>4. \A d \in Client : writer # d
    BY <2>1, <2>3 DEF SerialOK, Free
  <2>5. \A d \in Client : Adopting(d)' => UpToDate(d)'
    BY <2>1, <2>2, <2>3 DEF SerialOK, Adopting, UpToDate
  <2> QED
    BY <2>1, <2>2, <2>3, <2>4, <2>5 DEF SerialOK, NothingUncommitted
<1>4. ASSUME NEW c \in Client, UploadOne(c) PROVE SerialOK'
  <2> DEFINE d == DeviceOf[c]
             x == Statement(c)
             now == stamp[c]
             new == Store(work, d, x, now)
  <2>1. /\ pc[c] = "upload" /\ x \in Change /\ writer \in {NoClient, c}
        /\ work' = new /\ writer' = c
        /\ UNCHANGED <<table, clock, pc, batch, stamp, cursor, local, found>>
    BY <1>4 DEF UploadOne, HasStatement, Execute, StatementDone, Statement, IInv, TypeOK
  <2>2. now \in Seconds /\ now \in Nat /\ now <= clock
    BY <1>0, <2>1, RequestsAssumption DEF IInv, StampsOK, TypeOK, Seconds
  <2>3. /\ Good(new, now)
        /\ \A e \in Device : NewAt(work[e], new[e], now)
    <3>1. d \in Device /\ Good(work, now)
      BY <1>0, <2>1 DEF SerialOK
    <3> HIDE DEF d, x, now
    <3> QED
      BY <1>0, <2>1, <2>2, <3>1, StoreGood
  <2>4. new \in Table
    BY <1>4, <2>1, InvStep DEF IInv, TypeOK, Next
  <2>5. Good(new, clock)
    BY <1>0, <2>2, <2>3, <2>4, GoodLater
  <2>6. \A e \in Device : NewAt(table[e], work[e], now)
    <3>1. CASE writer = c
      BY <3>1 DEF SerialOK
    <3>2. CASE writer = NoClient
      BY <3>2 DEF SerialOK, NothingUncommitted, NewAt
    <3> QED
      BY <2>1, <3>1, <3>2
  <2> HIDE DEF new
  <2>7. \A e \in Device : NewAt(table[e], new[e], now)
    BY <2>3, <2>6 DEF NewAt
  <2>8. \A e \in Client : pc[e] # "idle" => e = c
    BY <2>1 DEF SerialOK
  <2>9. Within(c)'
    <3>1. x.url \in UrlsOf(c, x.op) /\ x.op \in {"remove", "add"}
      <4>1. batch[c] \in Seq(Change) /\ done[c] + 1 \in DOMAIN batch[c]
        BY <1>4 DEF UploadOne, HasStatement, IInv, TypeOK
      <4> QED
        BY <2>1, <4>1 DEF UrlsOf, Range, Statement, Change
    <3>2. Active(new[d]) = After(Active(work[d]), x)
      <4>1. d \in Device /\ work \in Table /\ RowsOK(work, clock)
        BY <1>0 DEF IInv, DatabaseOK
      <4> HIDE DEF d, x, now
      <4> QED
        BY <1>0, <2>1, <2>2, <4>1, StoreTable DEF new
    <3>3. Active(work[d]) \subseteq Active(table[d]) \cup UrlsOf(c, "add")
      BY <2>1 DEF SerialOK, Within, NothingUncommitted
    <3>4. Active(table[d]) \ UrlsOf(c, "remove") \subseteq Active(work[d])
      BY <2>1 DEF SerialOK, Within, NothingUncommitted
    <3>5. /\ Active(new[d]) \subseteq Active(table[d]) \cup UrlsOf(c, "add")
          /\ Active(table[d]) \ UrlsOf(c, "remove") \subseteq Active(new[d])
      BY <3>1, <3>2, <3>3, <3>4 DEF After
    <3>6. \A op : UrlsOf(c, op)' = UrlsOf(c, op)
      BY <2>1 DEF UrlsOf
    <3> QED
      BY <2>1, <3>5, <3>6 DEF Within
  <2>10. \A e \in Client : Adopting(e)' => UpToDate(e)'
    BY <2>1 DEF SerialOK, Adopting, UpToDate, UrlsOf
  <2> QED
    BY <2>1, <2>3, <2>5, <2>7, <2>8, <2>9, <2>10, ClientAssumption
    DEF SerialOK, NothingUncommitted
<1>5. ASSUME NEW c \in Client, UploadEnd(c) PROVE SerialOK'
  <2>1. /\ pc[c] = "upload" /\ pc' = [pc EXCEPT ![c] = "uploaded"]
        /\ Commit(c) /\ UNCHANGED <<clock, batch, stamp, cursor, local>>
    BY <1>5 DEF UploadEnd, CommitUpload
  <2>2. pc'[c] = "uploaded" /\ \A d \in Client \ {c} : pc[d] = "idle" /\ pc'[d] = "idle"
    BY <2>1 DEF SerialOK, IInv, TypeOK
  <2>3. writer \in {c, NoClient} /\ writer' = NoClient
    BY <2>1, <2>2, ClientAssumption DEF Commit, SerialOK, IInv, TypeOK
  <2>4. table' = work /\ work' = work
    BY <2>1, <2>3, ClientAssumption DEF Commit, SerialOK, NothingUncommitted
  <2>5. Told(c)'
    BY <1>5, <2>1, UploadEffect DEF Told, UrlsOf
  <2>6. ASSUME NEW d \in Client PROVE Synced(local[d], work[DeviceOf[d]], cursor[d])
    <3> DEFINE old == table[DeviceOf[d]]
               new == work[DeviceOf[d]]
    <3>1. old \in Seq(Row) /\ new \in Seq(Row) /\ DeviceOf[d] \in Device
      BY <1>0 DEF Table
    <3>2. stamp[c] \in Seconds /\ cursor[d] < stamp[c] /\ GoodRows(new, stamp[c])
      BY <1>0, <2>1, <3>1, RequestsAssumption
      DEF SerialOK, Good, IInv, StampsOK, TypeOK, Seconds
    <3>3. \A i \in DOMAIN old : i \in DOMAIN new /\ Keeps(old[i], new[i])
      BY <3>1 DEF IInv, DatabaseOK, Extends
    <3>4. NewAt(old, new, stamp[c])
      <4>1. CASE writer = c
        BY <3>1, <4>1 DEF SerialOK
      <4>2. CASE writer = NoClient
        BY <4>2 DEF SerialOK, NothingUncommitted, NewAt
      <4> QED
        BY <2>3, <4>1, <4>2
    <3>5. Synced(local[d], old, cursor[d])
      BY DEF SerialOK
    <3> HIDE DEF old, new
    <3>6. Synced(local[d], new, cursor[d])
      BY <1>0, <3>1, <3>2, <3>3, <3>4, <3>5, CommitSyncs
    <3> QED
      BY <3>6 DEF new
  <2>7. ASSUME NEW d \in Client, Adopting(d)' PROVE UpToDate(d)'
    <3> DEFINE old == Active(table[DeviceOf[c]])
               new == Active(work[DeviceOf[c]])
    <3>1. d = c /\ local[c] = old
      BY <2>1, <2>2, <2>7 DEF Adopting, SerialOK, UpToDate
    <3>2. /\ new \subseteq old \cup UrlsOf(c, "add")
          /\ old \ UrlsOf(c, "remove") \subseteq new
      BY <2>3 DEF SerialOK, Within, NothingUncommitted
    <3>3. \A op : UrlsOf(c, op)' = UrlsOf(c, op)
      BY <2>1 DEF UrlsOf
    <3>4. /\ UrlsOf(c, "add") \subseteq new
          /\ new \cap (UrlsOf(c, "remove") \ UrlsOf(c, "add")) = {}
      BY <2>4, <2>5, <3>3 DEF Told
    <3>5. Active(table'[DeviceOf[c]]) = new
      BY <2>4
    <3> HIDE DEF old, new
    <3>6. new = Merge(old, UrlsOf(c, "remove"), UrlsOf(c, "add"))
      BY <3>2, <3>4, UploadMerges
    <3> QED
      BY <2>1, <2>2, <3>1, <3>3, <3>5, <3>6 DEF UpToDate
  <2> QED
    BY <2>1, <2>2, <2>3, <2>4, <2>5, <2>6, <2>7, ClientAssumption
    DEF SerialOK, NothingUncommitted
<1>6. ASSUME NEW c \in Client, Fetch(c), OneAtATime, Undisturbed PROVE SerialOK'
  <2>1. /\ pc[c] = "idle" /\ pc' = [pc EXCEPT ![c] = "fetch"]
        /\ UNCHANGED <<table, work, writer, clock, batch, stamp, cursor, local, found>>
    BY <1>6 DEF Fetch, StartFetch, database
  <2>2. pc'[c] = "fetch" /\ \A d \in Client \ {c} : pc'[d] = pc[d]
    BY <2>1 DEF IInv, TypeOK
  <2>3. \A d \in Client : pc[d] = "idle" /\ writer # d
    BY <1>6, <2>1, <2>2, Alone DEF Starting, Free, SerialOK
  <2> QED
    BY <2>1, <2>2, <2>3 DEF SerialOK, NothingUncommitted, Adopting
<1>7. ASSUME NEW c \in Client, Select(c) \/ FetchEnd(c) PROVE SerialOK'
  <2>1. /\ pc[c] \in {"fetch", "selected"} /\ pc'[c] \in {"selected", "fetched"}
        /\ \A d \in Client \ {c} : pc'[d] = pc[d]
        /\ UNCHANGED <<table, work, writer, clock, cursor, local>>
        /\ found'[c] = Selected(c)
    BY <1>7 DEF Select, EndSelect, FetchEnd, LatestOrNow, IInv, TypeOK, SerialOK, database
  <2>2. \A d \in Client \ {c} : pc'[d] = "idle" /\ pc[d] = "idle"
    BY <2>1 DEF SerialOK
  <2>3. \A d \in Client : writer' # d
    BY <2>1, <2>2 DEF SerialOK
  <2>4. Selected(c)' = Selected(c)
    BY <2>1 DEF Selected
  <2> QED
    BY <2>1, <2>2, <2>3, <2>4 DEF SerialOK, NothingUncommitted, Adopting
<1>8. ASSUME NEW c \in Client, Fail(c) PROVE SerialOK'
  <2>1. \A d \in Client : Synced(local[d], table[DeviceOf[d]], cursor[d])'
    BY <1>8 DEF Fail, UploadError, FetchError, Rollback, database, SerialOK
  <2> QED
    BY <1>8, <2>1, SerialEnd DEF Fail, UploadError, FetchError
<1>9. ASSUME NEW c \in Client, Lose(c) PROVE SerialOK'
  <2>1. \A d \in Client : Synced(local[d], table[DeviceOf[d]], cursor[d])'
    BY <1>9 DEF Lose, Abandon, Rollback, SerialOK
  <2> QED
    BY <1>9, <2>1, SerialEnd DEF Lose, Abandon
<1>10. ASSUME NEW c \in Client, Receive(c) PROVE SerialOK'
  <2> DEFINE rows == table[DeviceOf[c]]
             urls == local[c]
             told == Later(rows, cursor[c])
  <2>1. UNCHANGED database /\ pc[c] \in {"uploaded", "fetched"}
    BY <1>10 DEF Receive, ReceiveUploaded, ReceiveFetched
  <2>2. rows \in Seq(Row) /\ GoodRows(rows, clock) /\ Synced(urls, rows, cursor[c])
    BY <1>0 DEF Table, SerialOK, Good
  <2>3. \A d \in Client \ {c} : local'[d] = local[d] /\ cursor'[d] = cursor[d]
    BY <1>10 DEF Receive, ReceiveFetched, ReceiveUploaded, IInv, TypeOK
  <2>4. Synced(local'[c], rows, cursor'[c])
    <3>1. CASE ReceiveUploaded(c)
      <4>1. /\ cursor' = cursor \/ c \in Adopters
            /\ pc[c] = "uploaded"
            /\ local'[c] = Merge(urls, UrlsOf(c, "remove"), UrlsOf(c, "add"))
        BY <1>10, <3>1 DEF Receive, ReceiveUploaded, ReceiveFetched, IInv, TypeOK
      <4>2. Told(c)
        BY <4>1 DEF SerialOK
      <4> HIDE DEF rows, urls
      <4>3. /\ UrlsOf(c, "add") \subseteq Active(rows)
            /\ Active(rows) \cap (UrlsOf(c, "remove") \ UrlsOf(c, "add")) = {}
        BY <4>2 DEF Told, rows
      <4>4. CASE cursor' = cursor
        BY <2>2, <4>1, <4>3, <4>4 DEF Synced, Merge
      <4>5. CASE c \in Adopters
        <5>1. local'[c] = Active(rows)
          BY <4>1, <4>5 DEF SerialOK, Adopting, UpToDate, urls, rows
        <5> QED
          BY <5>1 DEF Synced
      <4> QED
        BY <4>1, <4>4, <4>5
    <3>2. CASE ReceiveFetched(c)
      <4>1. found[c] = told
        BY <3>2 DEF ReceiveFetched, SerialOK, Selected, Later
      <4>2. local'[c] = Merge(urls, RemoveOf(told), AddOf(told))
        BY <1>10, <3>2, <4>1 DEF Receive, ReceiveUploaded, ReceiveFetched, IInv, TypeOK
      <4> HIDE DEF rows, urls
      <4>3. local'[c] = Active(rows)
        BY <1>0, <2>2, <4>2, SyncedMerges
      <4> QED
        BY <4>3 DEF Synced
    <3> QED
      BY <1>10, <3>1, <3>2 DEF Receive
  <2>5. \A d \in Client : Synced(local[d], table[DeviceOf[d]], cursor[d])'
    BY <2>1, <2>3, <2>4 DEF SerialOK, database
  <2>6. \/ End(c, "idle")
        \/ End(c, "between") /\ ReceiveFetched(c)
    BY <1>10 DEF Receive, ReceiveUploaded, ReceiveFetched
  <2>7. ReceiveFetched(c) => (Active(table[DeviceOf[c]]) = local[c])'
    <3> SUFFICES ASSUME ReceiveFetched(c) PROVE local'[c] = Active(rows)
      BY <2>1 DEF database
    <3>1. found[c] = told
      BY DEF ReceiveFetched, SerialOK, Selected, Later
    <3>2. local'[c] = Merge(urls, RemoveOf(told), AddOf(told))
      BY <1>10, <3>1 DEF Receive, ReceiveUploaded, ReceiveFetched, IInv, TypeOK
    <3> HIDE DEF rows, urls
    <3> QED
      BY <1>0, <2>2, <3>2, SyncedMerges
  <2> QED
    BY <2>1, <2>5, <2>6, <2>7, SerialEnd
<1> QED
  BY <1>1, <1>2, <1>3, <1>4, <1>5, <1>6, <1>7, <1>8, <1>9, <1>10 DEF Next

\* Without subscriptions there is nothing to be told.
LEMMA SerialInit == Init => SerialOK
<1> SUFFICES ASSUME Init PROVE SerialOK
  OBVIOUS
<1>1. /\ table = NoRows /\ work = NoRows /\ writer = NoClient
      /\ \A c \in Client : pc[c] = "idle" /\ local[c] = {} /\ cursor[c] = 0
  BY DEF Init, InitDatabase, InitRequests
<1>2. \A d \in Device : NoRows[d] = <<>> /\ \A t : GoodRows(NoRows[d], t)
  BY DEF NoRows, GoodRows
<1>3. Active(<<>>) = {}
  BY DEF Active, AddOf, Range
<1>4. \A c \in Client : Synced(local[c], table[DeviceOf[c]], cursor[c])
  BY <1>1, <1>2, <1>3, SubscriptionsAssumption DEF Synced
<1> QED
  BY <1>1, <1>2, <1>4, ClientAssumption DEF SerialOK, NothingUncommitted, Good, Adopting

\* What the client's next fetch would leave it with.
LEMMA SerialSyncs == IInv /\ SerialOK => NextFetchSyncs
<1> SUFFICES ASSUME IInv, SerialOK, NEW c \in Client
             PROVE  Merge(local[c], RemoveOf(Selected(c)), AddOf(Selected(c)))
                      = Active(table[DeviceOf[c]])
  BY DEF NextFetchSyncs
<1> DEFINE rows == table[DeviceOf[c]]
           told == Later(rows, cursor[c])
<1>1. /\ rows \in Seq(Row) /\ GoodRows(rows, clock) /\ Synced(local[c], rows, cursor[c])
      /\ cursor[c] \in Nat
  BY RequestsAssumption, SubscriptionsAssumption
  DEF IInv, TypeOK, Seconds, Table, SerialOK, Good
<1>2. Selected(c) = told
  BY DEF Selected, Later
<1> HIDE DEF rows
<1>3. Merge(local[c], RemoveOf(told), AddOf(told)) = Active(rows)
  BY <1>1, SyncedMerges
<1> QED
  BY <1>2, <1>3 DEF rows

\* If requests come one at a time, with a second between what a client has seen and the
\* next upload, and adopters fetch before they upload with nobody in between, then the
\* next fetch of a client always gives it the subscriptions of its device, whatever
\* answers it has lost before, and although cursors follow the answers to uploads too.
THEOREM FetchesSync == SerialSpec => []NextFetchSyncs
<1>1. [Next /\ OneAtATime /\ Undisturbed]_vars => [Next]_vars
  OBVIOUS
<1>2. IInv /\ SerialOK /\ [Next /\ OneAtATime /\ Undisturbed]_vars => SerialOK'
  BY SerialStep
<1> QED
  BY <1>1, <1>2, InvInit, InvStep, SerialInit, SerialSyncs, PTL DEF SerialSpec
=============================================================================
