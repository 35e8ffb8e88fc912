-------------------------- MODULE EpisodesProofs ----------------------------
(***************************************************************************)
(* The safety properties of the episodes table, for any users, clients,    *)
(* episodes and changes, and any length of uploads.                        *)
(*                                                                         *)
(* What holds of the table as committed holds because it holds of the      *)
(* table as the writer sees it, statement by statement; what holds of a    *)
(* client's cursor, because it holds of the timestamp it will be given.    *)
(***************************************************************************)
EXTENDS EpisodesSql, Basics

\* A transaction that ends leaves the committed table, or the writer's, and gives
\* back no lock but its own.
LEMMA TransactionEnds ==
    ASSUME NEW c \in Client, Commit(c) \/ Rollback(c)
    PROVE  /\ <<table', work'>> \in {<<table, work>>, <<work, work>>, <<table, table>>}
           /\ writer' \in {writer, NoClient}
           /\ writer # c => UNCHANGED database
BY DEF Commit, Rollback, database

\* What is uncommitted is the writer's, however a transaction goes on.
LEMMA NothingLeft ==
    ASSUME NothingUncommitted,
           \/ UNCHANGED database
           \/ \E c \in Client : writer' = c \/ Commit(c) \/ Rollback(c)
    PROVE  NothingUncommitted'
BY ClientAssumption DEF NothingUncommitted, Commit, Rollback, database

\* What is to be shown of one row.
RowOK(row) ==
    /\ Convertible(row)
    /\ row.hash # NULL => Content(Updated(row, row.hash, row.modified)) = Content(row)

RowsOK(tab, now) ==
    \A u \in User, e \in Episode :
        tab[u][e] # NoRow => RowOK(tab[u][e]) /\ tab[u][e].modified <= now

DatabaseOK ==
    /\ table \in Table /\ work \in Table
    /\ writer \in Client \cup {NoClient}
    /\ RowsOK(table, clock) /\ RowsOK(work, clock)

\* An answer will not take the cursor back.
StampsOK ==
    \A c \in Client :
        /\ pc[c] \in {"upload", "uploaded", "fetched"} => stamp[c] >= cursor[c]
        /\ pc[c] = "upload" => stamp[c] # 0
        /\ pc[c] = "selected" => stamp[c] = 0 \/ stamp[c] >= cursor[c]

IInv == TypeOK /\ RowsOK(table, clock) /\ RowsOK(work, clock) /\ StampsOK

-----------------------------------------------------------------------------
\* Statements

\* The statement of update_episodes makes a good row of a good row.
LEMMA UpsertRow ==
    ASSUME NEW row \in Row \cup {NoRow}, row # NoRow => RowOK(row),
           NEW x \in Changes, NEW now \in Seconds
    PROVE  /\ Upsert(row, x, now) \in Row
           /\ RowOK(Upsert(row, x, now))
           /\ Upsert(row, x, now).modified = now \/ Upsert(row, x, now) = row
<1>1. x \in Change /\ x # NULL
  BY EpisodesAssumption
<1>2. CASE row = NoRow
  BY <1>1, <1>2, EpisodesAssumption
  DEF Upsert, Inserted, Row, Change, RowOK, Convertible
<1>3. CASE row # NoRow /\ row.hash = x
  BY <1>3 DEF Upsert
<1>4. CASE row # NoRow /\ row.hash # x
  <2>1. Upsert(row, x, now) = Updated(row, x, now)
    BY <1>4 DEF Upsert
  <2>2. Updated(row, x, now) \in Row
    BY <1>1, <1>4 DEF Updated, Coalesce, Row, Change
  <2>3. Convertible(Updated(row, x, now))
    BY <1>1 DEF Convertible, Updated, Coalesce, Change
  <2>4. Content(Updated(Updated(row, x, now), x, now)) = Content(Updated(row, x, now))
    <3>1. Updated(row, x, now) # NoRow /\ Updated(Updated(row, x, now), x, now) # NoRow
      <4>1. Updated(Updated(row, x, now), x, now) \in Row
        BY <1>1, <2>2 DEF Updated, Coalesce, Row, Change
      <4> QED
        BY <2>2, <4>1, NoRowAssumption
    <3> QED
      BY <3>1 DEF Content, Updated, Coalesce
  <2> QED
    BY <2>1, <2>2, <2>3, <2>4 DEF RowOK, Updated
<1> QED
  BY <1>2, <1>3, <1>4

\* So it makes a good table of a good table.
LEMMA StoreTable ==
    ASSUME NEW t \in Nat, NEW tab \in Table, RowsOK(tab, t),
           NEW u \in User, NEW x \in Changes, NEW now \in Seconds, now <= t
    PROVE  Store(tab, u, x, now) \in Table /\ RowsOK(Store(tab, u, x, now), t)
<1>1. x.episode \in Episode
  BY EpisodesAssumption DEF Change
<1> DEFINE row == tab[u][x.episode]
           new == Upsert(row, x, now)
<1>2. /\ row \in Row \cup {NoRow}
      /\ row # NoRow => RowOK(row) /\ row.modified <= t
  BY <1>1 DEF Table, RowsOK
<1>3. new \in Row /\ RowOK(new) /\ new.modified <= t
  BY <1>2, UpsertRow, NoRowAssumption
<1>4. Store(tab, u, x, now) = [tab EXCEPT ![u] = [tab[u] EXCEPT ![x.episode] = new]]
  BY DEF Store, Table
<1> HIDE DEF new
<1>5. Store(tab, u, x, now) \in Table
  BY <1>1, <1>3, <1>4 DEF Table
<1>6. RowsOK(Store(tab, u, x, now), t)
  BY <1>1, <1>3, <1>4 DEF Table, RowsOK
<1> QED
  BY <1>5, <1>6

\* The empty table is good.
LEMMA NoRowsOK == NoRows \in Table /\ \A t : RowsOK(NoRows, t)
BY DEF NoRows, Table, RowsOK

-----------------------------------------------------------------------------
\* The latest timestamp of a fetch

\* The timestamp of an answer with rows is later than the cursor, and not later than
\* now.
LEMMA LatestOK ==
    ASSUME IInv, NEW c \in Client
    PROVE  Latest(c) \in 0 .. clock /\ (Latest(c) = 0 \/ Latest(c) >= cursor[c])
<1> DEFINE rows == table[UserOf[c]]
           S == {rows[e].modified : e \in Selected(c)}
<1>1. \A e \in Selected(c) :
        rows[e].modified \in 0 .. clock /\ rows[e].modified > cursor[c]
  <2> SUFFICES ASSUME NEW e \in Selected(c)
               PROVE  rows[e].modified \in 0 .. clock /\ rows[e].modified > cursor[c]
    OBVIOUS
  <2>1. /\ e \in Episode /\ UserOf[c] \in User /\ rows[e] # NoRow
        /\ rows[e].modified > cursor[c]
    BY EpisodesAssumption DEF Selected
  <2>2. rows[e] \in Row /\ rows[e].modified <= clock
    BY <2>1 DEF IInv, TypeOK, Table, RowsOK
  <2> QED
    BY <2>1, <2>2, RequestsAssumption DEF Row, Seconds
<1>2. CASE Selected(c) = {}
  BY <1>2 DEF Latest, IInv, TypeOK, Seconds
<1>3. CASE Selected(c) # {}
  <2>1. clock \in Nat
    BY RequestsAssumption DEF IInv, TypeOK, Seconds
  <2>2. S \in SUBSET (0 .. clock) /\ S # {}
    BY <1>1, <1>3
  <2>3. Max(S) \in S
    BY <2>1, <2>2, BoundedMax
  <2>4. PICK e \in Selected(c) : Max(S) = rows[e].modified
    BY <2>3
  <2>5. Latest(c) = rows[e].modified
    BY <1>3, <2>4 DEF Latest
  <2>6. cursor[c] \in Nat
    BY <2>1 DEF IInv, TypeOK
  <2> QED
    BY <1>1, <2>1, <2>5, <2>6
<1> QED
  BY <1>2, <1>3

-----------------------------------------------------------------------------
\* Steps

\* The invariant holds at first.
LEMMA InvInit == Init => IInv
BY NoRowsOK, RequestsAssumption
DEF Init, InitDatabase, InitRequests, IInv, TypeOK, StampsOK, Seconds, Pc, RowsOK

\* A transaction ends.
LEMMA CommitOK ==
    ASSUME DatabaseOK, UNCHANGED clock, NEW c \in Client, Commit(c) \/ Rollback(c)
    PROVE  DatabaseOK'
<1>1. /\ table' \in {table, work} /\ work' \in {table, work}
      /\ writer' \in {writer, NoClient}
  BY DEF Commit, Rollback
<1> QED
  BY <1>1 DEF DatabaseOK

\* A step that leaves the database alone leaves it good.
LEMMA DatabaseUnchanged ==
    ASSUME DatabaseOK, UNCHANGED <<database, clock>>
    PROVE  DatabaseOK'
BY DEF DatabaseOK, database

\* A request ends: nothing is left of it.
LEMMA EndOK ==
    ASSUME IInv, DatabaseOK', NEW c \in Client, NEW outcome \in {"idle", "failed", "between"},
           End(c, outcome),
           \/ UNCHANGED cursor
           \/ cursor' = [cursor EXCEPT ![c] = stamp[c]],
           unseen' \in [Client -> SUBSET Episode],
           found' \in [Client -> SUBSET Episode]
    PROVE  IInv'
<1> USE DEF IInv
<1>1. cursor' \in [Client -> 0 .. clock]
  BY DEF TypeOK
<1>2. TypeOK'
  <2>1. clock' = clock /\ clock \in Nat
    BY RequestsAssumption DEF End, TypeOK, Seconds
  <2>2. pc' \in [Client -> Pc] /\ done' \in [Client -> Nat]
    BY DEF End, TypeOK, Pc
  <2>3. batch' \in [Client -> Seq(Changes)]
    BY DEF End, TypeOK
  <2>4. stamp' \in [Client -> 0 .. clock]
    BY <2>1 DEF End, TypeOK
  <2> QED
    BY <1>1, <2>1, <2>2, <2>3, <2>4 DEF TypeOK, DatabaseOK
<1>3. StampsOK'
  BY DEF StampsOK, End, TypeOK
<1> QED
  BY <1>2, <1>3 DEF DatabaseOK

\* Every step keeps the invariant.
LEMMA InvStep == IInv /\ [Next]_vars => IInv'
<1> SUFFICES ASSUME IInv, [Next]_vars PROVE IInv'
  OBVIOUS
<1> USE DEF IInv
<1>0. DatabaseOK /\ clock \in Nat /\ clock >= 1
  BY RequestsAssumption DEF DatabaseOK, TypeOK, Seconds
<1>1. CASE UNCHANGED vars
  BY <1>1 DEF vars, requests, database, TypeOK, StampsOK
<1>2. CASE Tick
  <2>1. /\ clock' = clock + 1 /\ clock' \in Seconds
        /\ UNCHANGED <<table, work, writer, pc, batch, done, stamp, cursor, unseen, found>>
    BY <1>0, <1>2, RequestsAssumption DEF Tick, ClockTick, Seconds, database
  <2>2. RowsOK(table', clock') /\ RowsOK(work', clock')
    <3>1. \A tab \in Table : RowsOK(tab, clock) => RowsOK(tab, clock')
      <4> SUFFICES ASSUME NEW tab \in Table, RowsOK(tab, clock),
                          NEW u \in User, NEW e \in Episode, tab[u][e] # NoRow
                   PROVE  RowOK(tab[u][e]) /\ tab[u][e].modified <= clock'
        BY DEF RowsOK
      <4>1. tab[u][e] \in Row /\ RowOK(tab[u][e]) /\ tab[u][e].modified <= clock
        BY DEF Table, RowsOK
      <4>2. tab[u][e].modified \in Nat
        BY <4>1 DEF Row, Seconds
      <4> QED
        BY <1>0, <2>1, <4>1, <4>2
    <3> QED
      BY <2>1, <3>1 DEF TypeOK
  <2>3. 0 .. clock \subseteq 0 .. clock'
    BY <1>0, <2>1
  <2>4. stamp' \in [Client -> 0 .. clock'] /\ cursor' \in [Client -> 0 .. clock']
    BY <2>1, <2>3 DEF TypeOK
  <2>5. TypeOK'
    BY <2>1, <2>4 DEF TypeOK
  <2>6. StampsOK'
    BY <2>1 DEF StampsOK
  <2> QED
    BY <2>2, <2>5, <2>6
<1>3. ASSUME NEW c \in Client, Upload(c) PROVE IInv'
  <2>1. PICK b \in Batches : StartUpload(c, b)
    BY <1>3 DEF Upload
  <2>2. b \in Seq(Changes)
    BY EpisodesAssumption DEF Batches
  <2>3. DatabaseOK' /\ UNCHANGED <<unseen, found, clock, done, cursor>>
    BY <1>0, <1>3, <2>1, DatabaseUnchanged DEF Upload, StartUpload
  <2>4. /\ pc' \in [Client -> Pc] /\ batch' \in [Client -> Seq(Changes)]
        /\ stamp' \in [Client -> 0 .. clock]
    BY <1>0, <2>1, <2>2 DEF StartUpload, TypeOK, Pc
  <2>5. TypeOK'
    BY <2>3, <2>4 DEF TypeOK, DatabaseOK
  <2>6. StampsOK'
    BY <1>0, <2>1 DEF StampsOK, StartUpload, TypeOK
  <2> QED
    BY <2>3, <2>5, <2>6 DEF DatabaseOK
<1>4. ASSUME NEW c \in Client, UploadOne(c) PROVE IInv'
  <2>1. /\ pc[c] = "upload" /\ done[c] \in Nat /\ done[c] < Len(batch[c])
        /\ batch[c] \in Seq(Changes)
    BY <1>4 DEF UploadOne, HasStatement, TypeOK
  <2>2. Statement(c) \in Changes
    BY <2>1 DEF Statement
  <2>3. stamp[c] \in Seconds /\ stamp[c] <= clock
    BY <1>0, <2>1, RequestsAssumption DEF StampsOK, TypeOK, Seconds
  <2>4. UserOf[c] \in User
    BY EpisodesAssumption
  <2> DEFINE new == Store(work, UserOf[c], Statement(c), stamp[c])
  <2>5. new \in Table /\ RowsOK(new, clock)
    BY <1>0, <2>2, <2>3, <2>4, StoreTable DEF DatabaseOK
  <2>6. /\ work' = new /\ table' = table /\ writer' = c
        /\ done' = [done EXCEPT ![c] = done[c] + 1]
        /\ UNCHANGED <<clock, pc, batch, stamp, cursor, unseen, found>>
    BY <1>4 DEF UploadOne, Execute, StatementDone
  <2> HIDE DEF new
  <2>7. done' \in [Client -> Nat]
    BY <2>1, <2>6 DEF TypeOK
  <2>8. TypeOK'
    BY <2>5, <2>6, <2>7 DEF TypeOK
  <2>9. StampsOK'
    BY <2>6 DEF StampsOK
  <2> QED
    BY <2>5, <2>6, <2>8, <2>9
<1>5. ASSUME NEW c \in Client, UploadEnd(c) PROVE IInv'
  <2>1. Commit(c) /\ UNCHANGED <<clock, batch, done, stamp, cursor>>
    BY <1>5 DEF UploadEnd, CommitUpload
  <2>2. DatabaseOK'
    BY <1>0, <2>1, CommitOK
  <2>3. pc' \in [Client -> Pc]
    BY <1>5 DEF UploadEnd, CommitUpload, TypeOK, Pc
  <2>4. Changed(c) \subseteq Episode
    BY DEF Changed
  <2>5. unseen' \in [Client -> SUBSET Episode] /\ found' \in [Client -> SUBSET Episode]
    BY <1>5, <2>4 DEF UploadEnd, TypeOK
  <2>6. TypeOK'
    BY <2>1, <2>2, <2>3, <2>5 DEF TypeOK, DatabaseOK
  <2>7. StampsOK'
    BY <1>5, <2>1 DEF StampsOK, UploadEnd, CommitUpload, TypeOK
  <2> QED
    BY <2>1, <2>2, <2>6, <2>7 DEF DatabaseOK
<1>6. ASSUME NEW c \in Client, Fetch(c) PROVE IInv'
  <2>1. DatabaseOK' /\ UNCHANGED <<unseen, found, clock, batch, done, stamp, cursor>>
    BY <1>0, <1>6, DatabaseUnchanged DEF Fetch, StartFetch
  <2>2. TypeOK'
    BY <1>6, <2>1 DEF Fetch, StartFetch, TypeOK, DatabaseOK, Pc
  <2>3. StampsOK'
    BY <1>6, <2>1 DEF StampsOK, Fetch, StartFetch, TypeOK
  <2> QED
    BY <2>1, <2>2, <2>3 DEF DatabaseOK
<1>7. ASSUME NEW c \in Client, Select(c) PROVE IInv'
  <2>1. DatabaseOK' /\ UNCHANGED <<unseen, clock, batch, done, cursor>>
    BY <1>0, <1>7, DatabaseUnchanged DEF Select, EndSelect
  <2>2. /\ pc' = [pc EXCEPT ![c] = "selected"]
        /\ stamp' = [stamp EXCEPT ![c] = Latest(c)]
        /\ found' = [found EXCEPT ![c] = Selected(c)]
    BY <1>7 DEF Select, EndSelect
  <2>3. Latest(c) \in 0 .. clock /\ (Latest(c) = 0 \/ Latest(c) >= cursor[c])
    BY LatestOK
  <2>4. Selected(c) \subseteq Episode
    BY DEF Selected
  <2>5. TypeOK'
    BY <2>1, <2>2, <2>3, <2>4 DEF TypeOK, DatabaseOK, Pc
  <2>6. StampsOK'
    BY <2>1, <2>2, <2>3 DEF StampsOK, TypeOK
  <2> QED
    BY <2>1, <2>5, <2>6 DEF DatabaseOK
<1>8. ASSUME NEW c \in Client, FetchEnd(c) PROVE IInv'
  <2>1. DatabaseOK' /\ UNCHANGED <<unseen, found, clock, batch, done, cursor>>
    BY <1>0, <1>8, DatabaseUnchanged DEF FetchEnd, LatestOrNow
  <2>2. /\ pc[c] = "selected"
        /\ pc' = [pc EXCEPT ![c] = "fetched"]
        /\ stamp' = [stamp EXCEPT ![c] = IF stamp[c] = 0 THEN clock ELSE stamp[c]]
    BY <1>8 DEF FetchEnd, LatestOrNow
  <2>3. TypeOK'
    BY <1>0, <2>1, <2>2 DEF TypeOK, DatabaseOK, Pc
  <2>4. StampsOK'
    BY <1>0, <2>1, <2>2 DEF StampsOK, TypeOK
  <2> QED
    BY <2>1, <2>3, <2>4 DEF DatabaseOK
<1>9. ASSUME NEW c \in Client, Fail(c) PROVE IInv'
  <2>1. CASE UploadError(c)
    BY <1>0, <1>9, <2>1, CommitOK, EndOK DEF Fail, UploadError, End, TypeOK
  <2>2. CASE FetchError(c)
    BY <1>0, <1>9, <2>2, DatabaseUnchanged, EndOK DEF Fail, FetchError, End, TypeOK
  <2> QED
    BY <1>9, <2>1, <2>2 DEF Fail
<1>10. ASSUME NEW c \in Client, Receive(c) PROVE IInv'
  <2>1. found' \in [Client -> SUBSET Episode] /\ unseen' \in [Client -> SUBSET Episode]
    BY <1>10 DEF Receive, TypeOK
  <2>2. DatabaseOK' /\ (End(c, "idle") \/ End(c, "between"))
    BY <1>0, <1>10, DatabaseUnchanged DEF Receive, ReceiveFetched, ReceiveUploaded, End
  <2>3. UNCHANGED cursor \/ cursor' = [cursor EXCEPT ![c] = stamp[c]]
    BY <1>10 DEF Receive, ReceiveFetched, ReceiveUploaded
  <2> QED
    BY <2>1, <2>2, <2>3, EndOK
<1>11. ASSUME NEW c \in Client, Lose(c) PROVE IInv'
  <2>1. found' \in [Client -> SUBSET Episode] /\ unseen' \in [Client -> SUBSET Episode]
    BY <1>11 DEF Lose, TypeOK
  <2>2. DatabaseOK' /\ End(c, "idle") /\ UNCHANGED cursor
    BY <1>0, <1>11, CommitOK DEF Lose, Abandon, End
  <2> QED
    BY <2>1, <2>2, EndOK
<1> QED
  BY <1>1, <1>2, <1>3, <1>4, <1>5, <1>6, <1>7, <1>8, <1>9, <1>10, <1>11 DEF Next

\* The strengthening is an invariant; the properties below follow from it.
THEOREM Invariant == Spec => []IInv
BY InvInit, InvStep, PTL DEF Spec

-----------------------------------------------------------------------------
\* The properties

\* The episodes table and the requests have the types TypeOK gives them.
THEOREM TypeCorrect == Spec => []TypeOK
BY Invariant, PTL DEF IInv

\* In the states of the invariant every committed row is good.
LEMMA RowsAreOK ==
    ASSUME IInv, NEW row \in Rows(table)
    PROVE  RowOK(row)
BY DEF IInv, Rows, RowsOK

\* Whatever uploads have met in a row, every row of the table converts into an
\* Episode, so no fetch fails because of what is stored.
THEOREM AlwaysConvertible == Spec => []RowsConvertible
<1>1. IInv => RowsConvertible
  BY RowsAreOK DEF RowsConvertible, RowOK
<1> QED
  BY <1>1, Invariant, PTL

\* A change that is skipped because of its hash would not have changed the row.
THEOREM SkippingIsSound == Spec => []SkipLosesNothing
<1>1. IInv => SkipLosesNothing
  BY RowsAreOK DEF SkipLosesNothing, RowOK
<1> QED
  BY <1>1, Invariant, PTL

\* The timestamps that a client is answered never take its cursor back.
THEOREM CursorsAdvance == Spec => CursorNeverBack
<1>1. IInv /\ [Next]_vars => [\A c \in Client : cursor'[c] >= cursor[c]]_vars
  <2> SUFFICES ASSUME IInv, [Next]_vars, NEW c \in Client
               PROVE  cursor'[c] >= cursor[c]
    OBVIOUS
  <2>0. cursor \in [Client -> Int]
    BY RequestsAssumption DEF IInv, TypeOK, Seconds
  <2>1. ASSUME NEW d \in Client, Receive(d) PROVE cursor'[c] >= cursor[c]
    <3>1. \/ UNCHANGED cursor
          \/ /\ pc[d] \in {"uploaded", "fetched"}
             /\ cursor' = [cursor EXCEPT ![d] = stamp[d]]
      BY <2>1 DEF Receive, ReceiveFetched, ReceiveUploaded
    <3>2. pc[d] \in {"uploaded", "fetched"} => stamp[d] >= cursor[d]
      BY DEF IInv, StampsOK
    <3> QED
      BY <2>0, <3>1, <3>2
  <2>2. CASE \A d \in Client : ~ Receive(d)
    <3>1. UNCHANGED cursor
      BY <2>2 DEF Next, vars, requests, Tick, ClockTick, Upload, StartUpload,
                  UploadOne, StatementDone, UploadEnd, CommitUpload, Fetch,
                  StartFetch, Select, EndSelect, FetchEnd, LatestOrNow, Fail,
                  UploadError, FetchError, Lose, Abandon
    <3> QED
      BY <2>0, <3>1
  <2> QED
    BY <2>1, <2>2
<1> QED
  BY <1>1, Invariant, PTL DEF Spec, CursorNeverBack

-----------------------------------------------------------------------------
\* Batches

\* The stages of a batch are well defined: the first one is the table, each other
\* one what a statement makes of the one before.
LEMMA StagesAre ==
    ASSUME NEW tab, NEW u, NEW b \in Seq(Changes), NEW now
    PROVE  LET stage == Stages(tab, u, b, now)
           IN  /\ stage[0] = tab
               /\ \A n \in 0 .. Len(b) - 1 :
                    stage[n + 1] = Store(stage[n], u, b[n + 1], now)
<1> DEFINE Is(f, m) == /\ f[0] = tab
                       /\ \A n \in 0 .. m - 1 : f[n + 1] = Store(f[n], u, b[n + 1], now)
           Some == {m \in 0 .. Len(b) : \E f : Is(f, m)}
<1>1. 0 \in Some
  <2> DEFINE f == [n \in {0} |-> tab]
  <2>1. Is(f, 0) /\ 0 \in 0 .. Len(b)
    OBVIOUS
  <2> HIDE DEF f
  <2> QED
    BY <2>1
<1>2. ASSUME NEW m \in 0 .. Len(b) - 1, m \in Some PROVE m + 1 \in Some
  <2>1. PICK g : Is(g, m)
    BY <1>2
  <2> DEFINE f == [n \in 0 .. m + 1 |->
                     IF n <= m THEN g[n] ELSE Store(g[m], u, b[m + 1], now)]
  <2>2. ASSUME NEW n \in 0 .. m
        PROVE  f[n + 1] = Store(f[n], u, b[n + 1], now)
    <3>1. CASE n < m
      <4>1. n \in 0 .. m - 1 /\ n + 1 \in 0 .. m /\ n + 1 \in 0 .. m + 1
        BY <3>1
      <4> QED
        BY <2>1, <4>1
    <3>2. CASE n = m
      BY <3>2
    <3> QED
      BY <3>1, <3>2
  <2>3. f[0] = tab
    BY <2>1
  <2> HIDE DEF f
  <2>4. Is(f, m + 1) /\ m + 1 \in 0 .. Len(b)
    BY <2>2, <2>3
  <2> QED
    BY <2>4
<1>3. Len(b) \in Some
  <2>1. Len(b) \in Nat /\ Len(b) \in 0 .. Len(b)
    OBVIOUS
  <2> HIDE DEF Some
  <2> QED
    BY <1>1, <1>2, <2>1, Induction
<1>4. PICK g : Is(g, Len(b))
  BY <1>3
<1> DEFINE Eq(f) == f = [n \in 0 .. Len(b) |->
                           IF n = 0 THEN tab ELSE Store(f[n - 1], u, b[n], now)]
           stage == Stages(tab, u, b, now)
<1>5. Eq([n \in 0 .. Len(b) |-> g[n]])
  <2> DEFINE f == [n \in 0 .. Len(b) |-> g[n]]
  <2>1. ASSUME NEW n \in 0 .. Len(b)
        PROVE  f[n] = IF n = 0 THEN tab ELSE Store(f[n - 1], u, b[n], now)
    <3>1. CASE n # 0
      <4>1. n - 1 \in 0 .. Len(b) - 1 /\ n - 1 + 1 = n /\ n - 1 \in 0 .. Len(b)
        BY <3>1
      <4> QED
        BY <1>4, <3>1, <4>1
    <3> QED
      BY <1>4, <3>1
  <2>2. f = [n \in 0 .. Len(b) |-> f[n]]
    OBVIOUS
  <2> QED
    BY <2>1, <2>2
<1>6. stage = CHOOSE f : Eq(f)
  BY DEF Stages
<1> HIDE DEF stage
<1>7. Eq(stage)
  BY <1>5, <1>6
<1>8. stage[0] = tab
  BY <1>7
<1>9. ASSUME NEW n \in 0 .. Len(b) - 1
      PROVE  stage[n + 1] = Store(stage[n], u, b[n + 1], now)
  <2>1. n + 1 \in 0 .. Len(b) /\ n + 1 # 0 /\ n + 1 - 1 = n
    OBVIOUS
  <2> QED
    BY <1>7, <2>1
<1> QED
  BY <1>8, <1>9 DEF stage

\* The writer's transaction has made of the table what the statements that it has
\* executed make of it.
Writes(c) ==
    /\ pc[c] \notin {"upload", "uploaded"} => done[c] = 0
    /\ pc[c] = "upload" =>
          /\ done[c] <= Len(batch[c])
          /\ done[c] > 0 => writer = c
    /\ writer = c =>
          /\ pc[c] = "upload"
          /\ work = Stages(table, UserOf[c], batch[c], stamp[c])[done[c]]

WritesOK ==
    /\ NothingUncommitted
    /\ \A c \in Client : Writes(c) /\ batch[c] \in Batches

\* A step of another client, to whom the lock is not given back.
LEMMA WritesStay ==
    ASSUME WritesOK, NEW c \in Client,
           \/ UNCHANGED <<pc, batch, done, stamp, database>>
           \/ \E d \in Client \ {c} :
                /\ pc'[c] = pc[c] /\ batch'[c] = batch[c] /\ done'[c] = done[c]
                /\ stamp'[c] = stamp[c]
                /\ \/ UNCHANGED database
                   \/ writer # c /\ writer' # c
                   \/ Commit(d) \/ Rollback(d)
    PROVE  (Writes(c) /\ batch[c] \in Batches)'
<1>1. writer = c /\ writer' = c => UNCHANGED <<table, work>>
  BY DEF Commit, Rollback, database
<1>2. writer' = c <=> writer = c
  BY ClientAssumption DEF Commit, Rollback, database
<1> QED
  BY <1>1, <1>2 DEF WritesOK, Writes

\* A request that ends has nothing in the table any more.
LEMMA EndWrites ==
    ASSUME IInv, WritesOK, NEW c \in Client, NEW outcome \in {"idle", "failed", "between"},
           End(c, outcome), Rollback(c) \/ (UNCHANGED database /\ pc[c] # "upload")
    PROVE  WritesOK'
<1>1. writer' # c
  BY ClientAssumption DEF Rollback, WritesOK, Writes, database
<1>2. /\ pc'[c] = outcome /\ done'[c] = 0 /\ batch'[c] = <<>>
      /\ \A d \in Client \ {c} : /\ pc'[d] = pc[d] /\ done'[d] = done[d]
                                 /\ batch'[d] = batch[d] /\ stamp'[d] = stamp[d]
  BY DEF End, IInv, TypeOK
<1>3. <<>> \in Batches
  <2>1. 0 \in 0 .. MaxBatch /\ <<>> \in [1 .. 0 -> Changes]
    BY EpisodesAssumption
  <2> QED
    BY <2>1 DEF Batches
<1>4. (Writes(c) /\ batch[c] \in Batches)'
  BY <1>1, <1>2, <1>3 DEF Writes
<1>5. ASSUME NEW d \in Client \ {c} PROVE (Writes(d) /\ batch[d] \in Batches)'
  BY <1>2, WritesStay
<1> QED
  BY <1>4, <1>5, NothingLeft DEF WritesOK

\* Every step keeps it that the writer's table is what its statements make.
LEMMA WritesStep == IInv /\ WritesOK /\ [Next]_vars => WritesOK'
<1> SUFFICES ASSUME IInv, WritesOK, [Next]_vars PROVE WritesOK'
  OBVIOUS
<1> USE DEF IInv
<1>1. CASE UNCHANGED vars
  BY <1>1, WritesStay, NothingLeft DEF vars, requests, WritesOK
<1>2. CASE Tick
  BY <1>2, WritesStay, NothingLeft DEF Tick, ClockTick, WritesOK
<1>3. ASSUME NEW c \in Client, Upload(c) PROVE WritesOK'
  <2>1. PICK b \in Batches : StartUpload(c, b)
    BY <1>3 DEF Upload
  <2>2. done[c] = 0 /\ writer # c /\ UNCHANGED database
    BY <1>3, <2>1 DEF Upload, StartUpload, WritesOK, Writes, Free
  <2>3. b \in Seq(Changes)
    BY EpisodesAssumption DEF Batches
  <2>4. (Writes(c) /\ batch[c] \in Batches)'
    BY <2>1, <2>2, <2>3 DEF Writes, StartUpload, TypeOK, database
  <2>5. ASSUME NEW d \in Client \ {c} PROVE (Writes(d) /\ batch[d] \in Batches)'
    BY <2>1, <2>2, WritesStay DEF StartUpload, TypeOK
  <2> QED
    BY <2>2, <2>4, <2>5, NothingLeft DEF WritesOK
<1>4. ASSUME NEW c \in Client, UploadOne(c) PROVE WritesOK'
  <2>1. /\ pc[c] = "upload" /\ done[c] \in Nat /\ done[c] < Len(batch[c])
        /\ batch[c] \in Seq(Changes) /\ writer \in {NoClient, c}
        /\ work' = Store(work, UserOf[c], Statement(c), stamp[c])
        /\ table' = table /\ writer' = c
        /\ done' = [done EXCEPT ![c] = done[c] + 1]
        /\ UNCHANGED <<pc, batch, stamp>>
    BY <1>4 DEF UploadOne, HasStatement, Execute, StatementDone, TypeOK
  <2> DEFINE stage == Stages(table, UserOf[c], batch[c], stamp[c])
  <2>0. /\ stage[0] = table
        /\ \A n \in 0 .. Len(batch[c]) - 1 :
             stage[n + 1] = Store(stage[n], UserOf[c], batch[c][n + 1], stamp[c])
    BY <2>1, StagesAre
  <2>2. work = stage[done[c]]
    <3>1. CASE writer = c
      BY <3>1 DEF WritesOK, Writes
    <3>2. CASE writer = NoClient
      <4>1. done[c] = 0
        BY <2>1, <3>2, ClientAssumption DEF WritesOK, Writes
      <4>2. stage[0] = table
        BY <2>0
      <4> QED
        BY <3>2, <4>1, <4>2 DEF WritesOK, NothingUncommitted
    <3> QED
      BY <2>1, <3>1, <3>2
  <2>3. work' = stage[done[c] + 1]
    <3>1. done[c] \in 0 .. Len(batch[c]) - 1
      BY <2>1
    <3> HIDE DEF stage
    <3>2. stage[done[c] + 1] = Store(stage[done[c]], UserOf[c], batch[c][done[c] + 1], stamp[c])
      BY <2>0, <3>1
    <3> QED
      BY <2>1, <2>2, <3>2 DEF Statement
  <2>4. (Writes(c) /\ batch[c] \in Batches)'
    BY <2>1, <2>3 DEF Writes, WritesOK, TypeOK
  <2>5. ASSUME NEW d \in Client \ {c} PROVE (Writes(d) /\ batch[d] \in Batches)'
    BY <2>1, WritesStay, ClientAssumption DEF TypeOK
  <2> QED
    BY <2>1, <2>4, <2>5, NothingLeft DEF WritesOK
<1>5. ASSUME NEW c \in Client, UploadEnd(c) PROVE WritesOK'
  <2>1. Commit(c) /\ pc' = [pc EXCEPT ![c] = "uploaded"] /\ UNCHANGED <<batch, done, stamp>>
    BY <1>5 DEF UploadEnd, CommitUpload
  <2>2. writer' # c
    BY <2>1, ClientAssumption DEF Commit
  <2>3. (Writes(c) /\ batch[c] \in Batches)'
    BY <2>1, <2>2 DEF Writes, WritesOK, TypeOK
  <2>4. ASSUME NEW d \in Client \ {c} PROVE (Writes(d) /\ batch[d] \in Batches)'
    BY <2>1, WritesStay DEF TypeOK
  <2> QED
    BY <2>1, <2>3, <2>4, NothingLeft DEF WritesOK
<1>6. ASSUME NEW c \in Client, Fetch(c) \/ Select(c) \/ FetchEnd(c) PROVE WritesOK'
  <2>1. /\ pc[c] # "upload" /\ pc[c] # "uploaded" /\ pc'[c] \notin {"upload", "uploaded"}
        /\ UNCHANGED <<database, batch, done>>
        /\ \A d \in Client \ {c} : pc'[d] = pc[d] /\ stamp'[d] = stamp[d]
    BY <1>6 DEF Fetch, StartFetch, Select, EndSelect, FetchEnd, LatestOrNow, TypeOK
  <2>2. (Writes(c) /\ batch[c] \in Batches)'
    BY <2>1 DEF Writes, WritesOK, database
  <2>3. ASSUME NEW d \in Client \ {c} PROVE (Writes(d) /\ batch[d] \in Batches)'
    BY <2>1, WritesStay
  <2> QED
    BY <2>1, <2>2, <2>3, NothingLeft DEF WritesOK
<1>7. ASSUME NEW c \in Client, Fail(c) PROVE WritesOK'
  BY <1>7, EndWrites DEF Fail, UploadError, FetchError
<1>8. ASSUME NEW c \in Client, Receive(c) PROVE WritesOK'
  BY <1>8, EndWrites DEF Receive, ReceiveFetched, ReceiveUploaded
<1>9. ASSUME NEW c \in Client, Lose(c) PROVE WritesOK'
  BY <1>9, EndWrites DEF Lose, Abandon
<1> QED
  BY <1>1, <1>2, <1>3, <1>4, <1>5, <1>6, <1>7, <1>8, <1>9 DEF Next

-----------------------------------------------------------------------------
\* The refinement

\* The initial states map to those of BatchStore.
LEMMA InitBatching == Init => Batching!Init
BY DEF Init, InitDatabase, InitRequests, Batching!Init, Offers

\* Only the steps that begin and end an upload are seen in what is offered.
LEMMA OffersAre ==
    ASSUME TypeOK, NEW c \in Client,
           \A d \in Client \ {c} :
                pc'[d] = pc[d] /\ batch'[d] = batch[d] /\ stamp'[d] = stamp[d]
    PROVE  Offers' = [Offers EXCEPT ![c] =
                IF pc'[c] = "upload" THEN {[batch |-> batch'[c], at |-> stamp'[c]]} ELSE {}]
BY DEF Offers

\* A commit is a batch of BatchStore, every other step changes nothing of it.
LEMMA StepBatching ==
    IInv /\ WritesOK /\ [Next]_vars => [Batching!Next]_<<table, Offers>>
<1> SUFFICES ASSUME IInv, WritesOK, [Next]_vars,
                    UNCHANGED <<table, Offers>> => FALSE
             PROVE  Batching!Next
  OBVIOUS
<1> USE DEF IInv
<1>1. ASSUME NEW c \in Client, Upload(c) PROVE Batching!Next
  <2>1. PICK b \in Batches : StartUpload(c, b)
    BY <1>1 DEF Upload
  <2>2. /\ pc[c] # "upload" /\ table' = table
        /\ pc'[c] = "upload" /\ batch'[c] = b /\ stamp'[c] = clock /\ clock \in Seconds
        /\ \A d \in Client \ {c} :
             pc'[d] = pc[d] /\ batch'[d] = batch[d] /\ stamp'[d] = stamp[d]
    BY <1>1, <2>1 DEF Upload, StartUpload, TypeOK, database, Free
  <2>3. Offers' = [Offers EXCEPT ![c] = {[batch |-> b, at |-> clock]}]
    BY <2>2, OffersAre
  <2>4. Offers[c] = {}
    BY <2>2 DEF Offers
  <2>5. Batching!Offer(c, b, clock)
    BY <2>2, <2>3, <2>4 DEF Batching!Offer
  <2> QED
    BY <2>2, <2>5 DEF Batching!Next
<1>2. ASSUME NEW c \in Client, UploadEnd(c) PROVE Batching!Next
  <2>1. /\ pc[c] = "upload" /\ done[c] = Len(batch[c]) /\ Commit(c)
        /\ pc'[c] # "upload"
        /\ \A d \in Client \ {c} :
             pc'[d] = pc[d] /\ batch'[d] = batch[d] /\ stamp'[d] = stamp[d]
    BY <1>2 DEF UploadEnd, CommitUpload, TypeOK
  <2>2. Offers' = [Offers EXCEPT ![c] = {}]
    BY <2>1, OffersAre
  <2>3. [batch |-> batch[c], at |-> stamp[c]] \in Offers[c]
    BY <2>1 DEF Offers
  <2>4. table' = ApplyBatch(table, c, batch[c], stamp[c])
    <3>1. CASE writer = c
      BY <2>1, <3>1 DEF Commit, WritesOK, Writes, ApplyBatch, Applied
    <3>2. CASE writer # c
      <4>1. done[c] = 0 /\ batch[c] \in Seq(Changes)
        BY <2>1, <3>2 DEF WritesOK, Writes, TypeOK
      <4>2. Stages(table, UserOf[c], batch[c], stamp[c])[0] = table
        BY <4>1, StagesAre
      <4> QED
        BY <2>1, <3>2, <4>1, <4>2 DEF Commit, ApplyBatch, Applied
    <3> QED
      BY <3>1, <3>2
  <2>5. Batching!Accept(c)
    BY <2>2, <2>3, <2>4 DEF Batching!Accept
  <2> QED
    BY <2>5 DEF Batching!Next
<1>3. ASSUME NEW c \in Client, NEW outcome \in {"idle", "failed", "between"}, End(c, outcome),
             table' = table
      PROVE  Batching!Next
  <2>1. /\ pc'[c] # "upload"
        /\ \A d \in Client \ {c} :
             pc'[d] = pc[d] /\ batch'[d] = batch[d] /\ stamp'[d] = stamp[d]
    BY <1>3 DEF End, TypeOK
  <2>2. Offers' = [Offers EXCEPT ![c] = {}]
    BY <2>1, OffersAre
  <2>3. Offers[c] # {}
    BY <1>3, <2>2 DEF Offers
  <2>4. Batching!Withdraw(c)
    BY <1>3, <2>2, <2>3 DEF Batching!Withdraw
  <2> QED
    BY <2>4 DEF Batching!Next
<1>4. ASSUME NEW c \in Client, Fail(c) \/ Receive(c) \/ Lose(c)
      PROVE  Batching!Next
  BY <1>3, <1>4 DEF Fail, UploadError, FetchError, Receive, ReceiveFetched,
     ReceiveUploaded, Lose, Abandon, Rollback, database
<1>5. ASSUME NEW c \in Client, Fetch(c) \/ Select(c) \/ FetchEnd(c)
      PROVE  FALSE
  <2>1. /\ pc[c] # "upload" /\ pc'[c] # "upload" /\ UNCHANGED <<table, batch>>
        /\ \A d \in Client \ {c} : pc'[d] = pc[d] /\ stamp'[d] = stamp[d]
    BY <1>5 DEF Fetch, StartFetch, Select, EndSelect, FetchEnd, LatestOrNow, TypeOK, database
  <2> QED
    BY <2>1 DEF Offers
<1>6. ASSUME NEW c \in Client, UploadOne(c) PROVE FALSE
  BY <1>6 DEF UploadOne, Execute, StatementDone, Offers
<1>7. CASE Tick
  BY <1>7 DEF Tick, ClockTick, Offers, database
<1>8. CASE UNCHANGED vars
  BY <1>8 DEF vars, requests, database, Offers
<1> QED
  BY <1>1, <1>2, <1>4, <1>5, <1>6, <1>7, <1>8 DEF Next

\* The transactions of uploads make each batch one step of the table, or none,
\* whatever statements of others, failures and lost connections interleave.
THEOREM Refinement == Spec => ImplementsBatches
<1>1. Init => WritesOK
  <2> SUFFICES ASSUME Init PROVE WritesOK
    OBVIOUS
  <2>1. <<>> \in Batches
    <3>1. 0 \in 0 .. MaxBatch /\ <<>> \in [1 .. 0 -> Changes]
      BY EpisodesAssumption
    <3> QED
      BY <3>1 DEF Batches
  <2> QED
    BY <2>1, ClientAssumption
    DEF Init, InitDatabase, InitRequests, WritesOK, Writes, NothingUncommitted
<1> QED
  BY <1>1, InitBatching, Invariant, WritesStep, StepBatching, PTL
  DEF Spec, ImplementsBatches, Batching!Spec

-----------------------------------------------------------------------------
\* Uploading a batch again

\* Every stage is a good table.
LEMMA StagesGood ==
    ASSUME NEW t \in Nat, NEW tab \in Table, RowsOK(tab, t), NEW u \in User,
           NEW b \in Seq(Changes), NEW now \in Seconds, now <= t
    PROVE  \A n \in 0 .. Len(b) : LET good == Stages(tab, u, b, now)[n]
                                  IN  good \in Table /\ RowsOK(good, t)
<1> DEFINE stage == Stages(tab, u, b, now)
           Good == {n \in 0 .. Len(b) : stage[n] \in Table /\ RowsOK(stage[n], t)}
<1>1. /\ stage[0] = tab
      /\ \A n \in 0 .. Len(b) - 1 : stage[n + 1] = Store(stage[n], u, b[n + 1], now)
  BY StagesAre
<1>2. Len(b) \in Nat /\ \A n \in 0 .. Len(b) - 1 : b[n + 1] \in Changes
  OBVIOUS
<1> HIDE DEF stage
<1>3. 0 \in Good
  BY <1>1, <1>2
<1>4. ASSUME NEW n \in 0 .. Len(b) - 1, n \in Good PROVE n + 1 \in Good
  <2>1. stage[n + 1] = Store(stage[n], u, b[n + 1], now) /\ b[n + 1] \in Changes
    BY <1>1, <1>2
  <2>2. n + 1 \in 0 .. Len(b)
    BY <1>2
  <2> QED
    BY <1>4, <2>1, <2>2, StoreTable
<1>5. \A n \in 0 .. Len(b) : n \in Good
  <2> HIDE DEF Good
  <2> QED
    BY <1>2, <1>3, <1>4, Induction
<1> QED
  BY <1>5 DEF stage

\* A statement is about the row of one episode.
LEMMA StoreRow ==
    ASSUME NEW tab \in Table, NEW u \in User, NEW x \in Changes, NEW now,
           NEW e \in Episode
    PROVE  Store(tab, u, x, now)[u][e] =
              IF x.episode = e THEN Upsert(tab[u][e], x, now) ELSE tab[u][e]
<1>1. x.episode \in Episode
  BY EpisodesAssumption DEF Change
<1> QED
  BY <1>1 DEF Store, Table

\* Written or skipped, a change makes the same of a good row.
LEMMA UpsertContent ==
    ASSUME NEW row \in Row, RowOK(row), NEW x \in Changes, NEW now \in Seconds
    PROVE  LET new == Upsert(row, x, now)
           IN  /\ new # NoRow
               /\ new.device = row.device
               /\ new.timestamp = Coalesce(x.timestamp, row.timestamp)
               /\ new.action = x.action
               /\ new.play = Coalesce(x.play, row.play)
<1>1. row # NoRow /\ x \in Change /\ x # NULL
  BY NoRowAssumption, EpisodesAssumption
<1>2. CASE row.hash = x
  <2>1. Content(Updated(row, x, row.modified)) = Content(row)
    BY <1>1, <1>2 DEF RowOK
  <2>2. Updated(row, x, row.modified) # NoRow
    <3>1. Updated(row, x, row.modified) \in Row
      BY <1>1 DEF Updated, Coalesce, Row, Change
    <3> QED
      BY <3>1, NoRowAssumption
  <2>3. /\ row.timestamp = Coalesce(x.timestamp, row.timestamp)
        /\ row.action = x.action
        /\ row.play = Coalesce(x.play, row.play)
    BY <1>1, <2>1, <2>2 DEF Content, Updated
  <2> QED
    BY <1>1, <1>2, <2>3 DEF Upsert
<1>3. CASE row.hash # x
  <2>1. Upsert(row, x, now) = Updated(row, x, now)
    BY <1>1, <1>3 DEF Upsert
  <2>2. Updated(row, x, now) \in Row
    BY <1>1 DEF Updated, Coalesce, Row, Change
  <2> QED
    BY <2>1, <2>2, NoRowAssumption DEF Updated
<1> QED
  BY <1>2, <1>3

\* Between two uploads of a batch at the same place, a row holds in each column what
\* it held there the first time, or what the whole batch has left there.
Between(first, last, second) ==
    /\ second # NoRow /\ second.device = last.device
    /\ first = NoRow => Content(second) = Content(last)
    /\ first # NoRow => /\ second.timestamp \in {first.timestamp, last.timestamp}
                        /\ second.action \in {first.action, last.action}
                        /\ second.play \in {first.play, last.play}

\* A statement that is run on both rows keeps one between the others.
LEMMA BetweenStep ==
    ASSUME NEW first \in Row \cup {NoRow}, first # NoRow => RowOK(first),
           NEW last \in Row, NEW second \in Row, RowOK(second),
           Between(first, last, second), NEW x \in Changes, NEW now \in Seconds
    PROVE  Between(Upsert(first, x, now), last, Upsert(second, x, now))
<1> DEFINE new == Upsert(second, x, now)
           new1 == Upsert(first, x, now)
<1> SUFFICES Between(new1, last, new)
  OBVIOUS
<1>1. /\ new # NoRow /\ new.device = second.device
      /\ new.timestamp = Coalesce(x.timestamp, second.timestamp)
      /\ new.action = x.action
      /\ new.play = Coalesce(x.play, second.play)
  BY UpsertContent
<1>2. CASE first = NoRow
  <2>1. new1 = Inserted(x, now) /\ new1 # NoRow
    BY <1>2, UpsertRow, NoRowAssumption DEF Upsert
  <2>2. second.timestamp = last.timestamp /\ second.play = last.play
    BY <1>2, NoRowAssumption DEF Between, Content
  <2> HIDE DEF new, new1
  <2> QED
    BY <1>1, <2>1, <2>2 DEF Between, Inserted, Coalesce
<1>3. CASE first # NoRow
  <2>1. /\ new1 # NoRow
        /\ new1.timestamp = Coalesce(x.timestamp, first.timestamp)
        /\ new1.action = x.action
        /\ new1.play = Coalesce(x.play, first.play)
    BY <1>3, UpsertContent
  <2> HIDE DEF new, new1
  <2> QED
    BY <1>1, <1>3, <2>1 DEF Between, Coalesce
<1> QED
  BY <1>2, <1>3

\* A statement about an episode leaves a row of it, whatever follows.
LEMMA StatementsLeaveRows ==
    ASSUME NEW t \in Nat, NEW tab \in Table, RowsOK(tab, t), NEW u \in User,
           NEW b \in Seq(Changes), NEW now \in Seconds, now <= t, NEW e \in Episode
    PROVE  \A i \in 1 .. Len(b) :
             b[i].episode = e => Applied(tab, u, b, now)[u][e] # NoRow
<1> DEFINE stage == Stages(tab, u, b, now)
           Left == {n \in 0 .. Len(b) :
                      \A i \in 1 .. n : b[i].episode = e => stage[n][u][e] # NoRow}
<1>1. /\ \A n \in 0 .. Len(b) - 1 : stage[n + 1] = Store(stage[n], u, b[n + 1], now)
      /\ \A n \in 0 .. Len(b) : stage[n] \in Table /\ RowsOK(stage[n], t)
  BY StagesAre, StagesGood
<1>2. Len(b) \in Nat /\ \A n \in 0 .. Len(b) - 1 : b[n + 1] \in Changes
  OBVIOUS
<1> HIDE DEF stage
<1>3. 0 \in Left
  BY <1>2
<1>4. ASSUME NEW n \in 0 .. Len(b) - 1, n \in Left PROVE n + 1 \in Left
  <2>1. /\ stage[n] \in Table /\ b[n + 1] \in Changes
        /\ stage[n + 1] = Store(stage[n], u, b[n + 1], now)
        /\ stage[n][u][e] \in Row \cup {NoRow}
        /\ stage[n][u][e] # NoRow => RowOK(stage[n][u][e])
    BY <1>1, <1>2 DEF Table, RowsOK
  <2>2. stage[n + 1][u][e] = IF b[n + 1].episode = e
                             THEN Upsert(stage[n][u][e], b[n + 1], now)
                             ELSE stage[n][u][e]
    BY <2>1, StoreRow
  <2>3. Upsert(stage[n][u][e], b[n + 1], now) # NoRow
    BY <2>1, UpsertRow, NoRowAssumption
  <2>4. \A i \in 1 .. n + 1 : i \in 1 .. n \/ i = n + 1
    OBVIOUS
  <2> QED
    BY <1>2, <1>4, <2>2, <2>3, <2>4
<1>5. \A n \in 0 .. Len(b) : n \in Left
  <2> HIDE DEF Left
  <2> QED
    BY <1>2, <1>3, <1>4, Induction
<1> QED
  BY <1>2, <1>5 DEF stage, Applied

\* What a batch shows of an episode when it is uploaded again.
LEMMA AgainTheSame ==
    ASSUME NEW t \in Nat, NEW tab \in Table, RowsOK(tab, t), NEW u \in User,
           NEW b \in Seq(Changes), NEW now \in Seconds, now <= t, NEW e \in Episode
    PROVE  LET once == Applied(tab, u, b, now)
               twice == Applied(once, u, b, now)
           IN  Content(twice[u][e]) = Content(once[u][e])
<1> DEFINE once == Applied(tab, u, b, now)
           first == Stages(tab, u, b, now)
           second == Stages(once, u, b, now)
           last == once[u][e]
<1> SUFFICES Content(Applied(once, u, b, now)[u][e]) = Content(last)
  OBVIOUS
<1>1. Len(b) \in Nat /\ \A n \in 0 .. Len(b) - 1 : b[n + 1] \in Changes
  OBVIOUS
<1>2. once \in Table /\ RowsOK(once, t) /\ once = first[Len(b)]
  BY <1>1, StagesGood DEF Applied
<1>3. /\ second[0] = once
      /\ \A n \in 0 .. Len(b) - 1 : first[n + 1] = Store(first[n], u, b[n + 1], now)
      /\ \A n \in 0 .. Len(b) - 1 : second[n + 1] = Store(second[n], u, b[n + 1], now)
      /\ \A n \in 0 .. Len(b) : first[n] \in Table /\ RowsOK(first[n], t)
      /\ \A n \in 0 .. Len(b) : second[n] \in Table /\ RowsOK(second[n], t)
  BY <1>2, StagesAre, StagesGood
<1>4. \A n \in 0 .. Len(b) - 1 : b[n + 1].episode = e => last # NoRow
  <2>1. \A n \in 0 .. Len(b) - 1 : n + 1 \in 1 .. Len(b)
    BY <1>1
  <2> QED
    BY <2>1, StatementsLeaveRows
<1>5. Applied(once, u, b, now) = second[Len(b)]
  BY DEF Applied
<1> HIDE DEF once, first, second
<1>6. last \in Row \cup {NoRow}
  BY <1>2 DEF Table
<1>7. CASE last = NoRow
  <2> DEFINE Gone == {n \in 0 .. Len(b) : second[n][u][e] = NoRow}
  <2>1. 0 \in Gone
    BY <1>1, <1>3, <1>7
  <2>2. ASSUME NEW n \in 0 .. Len(b) - 1, n \in Gone PROVE n + 1 \in Gone
    <3>1. second[n + 1][u][e] = second[n][u][e]
      BY <1>1, <1>3, <1>4, <1>7, StoreRow
    <3> QED
      BY <1>1, <2>2, <3>1
  <2>3. \A n \in 0 .. Len(b) : n \in Gone
    <3> HIDE DEF Gone
    <3> QED
      BY <1>1, <2>1, <2>2, Induction
  <2> QED
    BY <1>1, <1>5, <1>7, <2>3
<1>8. CASE last # NoRow
  <2> DEFINE Row1(n) == first[n][u][e]
             Row2(n) == second[n][u][e]
             Kept == {n \in 0 .. Len(b) : Between(Row1(n), last, Row2(n))}
  <2>1. 0 \in Kept
    <3>1. Between(Row1(0), last, last)
      BY <1>8 DEF Between
    <3> QED
      BY <1>1, <1>3, <3>1
  <2>2. ASSUME NEW n \in 0 .. Len(b) - 1, n \in Kept PROVE n + 1 \in Kept
    <3>1. n \in 0 .. Len(b) /\ n + 1 \in 0 .. Len(b) /\ b[n + 1] \in Changes
      BY <1>1
    <3>2. first[n] \in Table /\ RowsOK(first[n], t) /\ second[n] \in Table /\ RowsOK(second[n], t)
      BY <1>3, <3>1
    <3>3. /\ Row1(n) \in Row \cup {NoRow} /\ Row2(n) \in Row \cup {NoRow}
          /\ Row1(n) # NoRow => RowOK(Row1(n))
          /\ Row2(n) # NoRow => RowOK(Row2(n))
      BY <3>2 DEF Table, RowsOK
    <3>4. Between(Row1(n), last, Row2(n)) /\ Row2(n) # NoRow
      BY <2>2 DEF Between
    <3>5. /\ Row1(n + 1) = IF b[n + 1].episode = e
                           THEN Upsert(Row1(n), b[n + 1], now) ELSE Row1(n)
          /\ Row2(n + 1) = IF b[n + 1].episode = e
                           THEN Upsert(Row2(n), b[n + 1], now) ELSE Row2(n)
      BY <1>3, <3>1, <3>2, StoreRow
    <3> HIDE DEF Row1, Row2
    <3>6. Between(Upsert(Row1(n), b[n + 1], now), last, Upsert(Row2(n), b[n + 1], now))
      BY <1>6, <1>8, <3>1, <3>3, <3>4, BetweenStep
    <3> QED
      BY <3>1, <3>4, <3>5, <3>6
  <2>3. \A n \in 0 .. Len(b) : n \in Kept
    <3> HIDE DEF Kept
    <3> QED
      BY <1>1, <2>1, <2>2, Induction
  <2>4. Between(last, last, Row2(Len(b)))
    BY <1>1, <1>2, <2>3
  <2> QED
    BY <1>5, <1>8, <2>4 DEF Between, Content
<1> QED
  BY <1>7, <1>8

\* A client that did not get its answer can upload the batch again: nothing that a
\* fetch shows changes, also if the batch has several changes of one episode.
THEOREM RetriesHarmless == Spec => []RetryHarmless
<1>1. ASSUME IInv PROVE RetryHarmless
  <2>1. /\ table \in Table /\ RowsOK(table, clock)
        /\ clock \in Seconds /\ clock \in Nat /\ clock <= clock
    BY <1>1, RequestsAssumption DEF IInv, TypeOK, Seconds
  <2>2. Batches \subseteq Seq(Changes)
    BY EpisodesAssumption DEF Batches
  <2> QED
    BY <2>1, <2>2, AgainTheSame DEF RetryHarmless
<1> QED
  BY <1>1, Invariant, PTL

-----------------------------------------------------------------------------
\* Requests that come one at a time

\* A row has been changed with the timestamp now; its device is that of the first change.
ChangedAt(old, new, now) ==
    /\ new # NoRow /\ new.modified = now
    /\ old # NoRow => new.device = old.device

\* The rows that the writer has changed have the timestamp of its upload.
WorkIsNew(c) ==
    \A u \in User, e \in Episode :
        work[u][e] = table[u][e] \/ ChangedAt(table[u][e], work[u][e], stamp[c])

\* The timestamp of an upload is to be the cursor of c, which has fetched before.
Adopting(c) == pc[c] = "between" \/ (c \in Adopters /\ pc[c] \in {"upload", "uploaded"})

\* There is nothing to fetch for c.
CaughtUp(c) == \A e \in unseen[c] : ~Matches(QueryOf[c], e, table[UserOf[c]][e])

\* One request or synchronisation at a time; an upload is later than every cursor; a
\* fetch answers what its select has found; and an adopter has fetched what others did.
SerialOK ==
    /\ \A c, d \in Client : pc[c] # "idle" /\ pc[d] # "idle" => c = d
    /\ \A c \in Client : Adopting(c) => CaughtUp(c)
    /\ \A c, d \in Client : pc[c] = "upload" => cursor[d] < stamp[c]
    /\ \A c \in Client : writer = c => pc[c] = "upload" /\ WorkIsNew(c)
    /\ NothingUncommitted
    /\ \A c \in Client : pc[c] \in {"selected", "fetched"} => found[c] = Selected(c)
    /\ \A c \in Client : \A e \in unseen[c] : table[UserOf[c]][e] # NoRow
    /\ NoMissedChange

\* Who begins is alone, and has fetched before if it is an adopter that uploads.
LEMMA Alone ==
    ASSUME NEW c \in Client, Starting(c), OneAtATime, Undisturbed
    PROVE  /\ \A d \in Client \ {c} : pc[d] = "idle"
           /\ pc'[c] = "upload" =>
                /\ \A d \in Client : cursor[d] < clock
                /\ c \in Adopters => pc[c] = "between"
BY DEF OneAtATime, Undisturbed, Free

\* c's request ends, and its transaction with it.
LEMMA SerialEnd ==
    ASSUME IInv, SerialOK, NEW c \in Client, NEW outcome \in {"idle", "failed"},
           pc[c] # "idle", End(c, outcome),
           Rollback(c) \/ UNCHANGED <<table, work, writer>>,
           pc[c] = "upload" => Rollback(c),
           UNCHANGED <<unseen, cursor>>
    PROVE  SerialOK'
<1>1. \A d \in Client \ {c} : pc[d] = "idle" /\ pc'[d] = "idle"
  BY DEF SerialOK, End, IInv, TypeOK
<1>2. pc'[c] = outcome
  BY DEF End, IInv, TypeOK
<1>3. writer' = NoClient /\ work' = table' /\ table' = table
  BY <1>1, ClientAssumption DEF Rollback, SerialOK, NothingUncommitted, IInv, TypeOK
<1> QED
  BY <1>1, <1>2, <1>3, ClientAssumption
  DEF SerialOK, NothingUncommitted, NoMissedChange, Adopting

\* Requests one at a time keep what is to be shown of clients and their cursors.
LEMMA SerialStep ==
    IInv /\ SerialOK /\ [Next /\ OneAtATime /\ Undisturbed]_vars => SerialOK'
<1> SUFFICES ASSUME IInv, SerialOK, [Next /\ OneAtATime /\ Undisturbed]_vars
             PROVE  SerialOK'
  OBVIOUS
<1>1. CASE UNCHANGED vars
  BY <1>1 DEF vars, requests, database, SerialOK, NothingUncommitted, WorkIsNew,
     Selected, NoMissedChange, Adopting, CaughtUp
<1>2. CASE Tick
  BY <1>2 DEF Tick, ClockTick, database, SerialOK, NothingUncommitted, WorkIsNew,
     Selected, NoMissedChange, Adopting, CaughtUp
<1>3. ASSUME NEW c \in Client, Upload(c), OneAtATime, Undisturbed PROVE SerialOK'
  <2>1. /\ pc[c] \in Free /\ pc' = [pc EXCEPT ![c] = "upload"]
        /\ stamp' = [stamp EXCEPT ![c] = clock]
        /\ UNCHANGED <<table, work, writer, clock, cursor, unseen, found>>
    BY <1>3 DEF Upload, StartUpload, database
  <2>2. pc'[c] = "upload" /\ stamp'[c] = clock /\ \A d \in Client \ {c} : pc'[d] = pc[d]
    BY <2>1 DEF IInv, TypeOK
  <2>3. /\ \A d \in Client \ {c} : pc[d] = "idle"
        /\ \A d \in Client : cursor[d] < clock
        /\ c \in Adopters => pc[c] = "between"
    BY <1>3, <2>1, <2>2, Alone DEF Starting, Free
  <2>4. writer # c /\ \A d \in Client : writer # d
    BY <2>1, <2>3 DEF SerialOK, Free
  <2>5. \A d \in Client : Adopting(d)' => CaughtUp(d)'
    BY <2>1, <2>2, <2>3 DEF SerialOK, Adopting, CaughtUp
  <2> QED
    BY <2>1, <2>2, <2>3, <2>4, <2>5 DEF SerialOK, NothingUncommitted, NoMissedChange
<1>4. ASSUME NEW c \in Client, UploadOne(c) PROVE SerialOK'
  <2>1. /\ pc[c] = "upload" /\ Statement(c) \in Changes /\ writer \in {NoClient, c}
        /\ work' = Store(work, UserOf[c], Statement(c), stamp[c])
        /\ writer' = c
        /\ UNCHANGED <<table, clock, pc, stamp, cursor, unseen, found>>
    BY <1>4 DEF UploadOne, HasStatement, Execute, StatementDone, Statement, IInv, TypeOK
  <2>2. stamp[c] \in Seconds
    BY <2>1, RequestsAssumption DEF IInv, StampsOK, TypeOK, Seconds
  <2>3. WorkIsNew(c)
    BY <2>1 DEF SerialOK, WorkIsNew, NothingUncommitted
  <2>4. WorkIsNew(c)'
    <3> SUFFICES ASSUME NEW u \in User, NEW e \in Episode
                 PROVE  \/ work'[u][e] = table[u][e]
                        \/ ChangedAt(table[u][e], work'[u][e], stamp[c])
      BY <2>1 DEF WorkIsNew, ChangedAt
    <3>1. \/ work[u][e] = table[u][e]
          \/ ChangedAt(table[u][e], work[u][e], stamp[c])
      BY <2>3 DEF WorkIsNew
    <3>2. work \in Table /\ UserOf[c] \in User
      BY EpisodesAssumption DEF IInv, TypeOK
    <3>3. CASE u # UserOf[c]
      BY <2>1, <3>1, <3>2, <3>3 DEF Store, Table
    <3>4. CASE u = UserOf[c]
      <4>1. work'[u][e] = IF Statement(c).episode = e
                          THEN Upsert(work[u][e], Statement(c), stamp[c])
                          ELSE work[u][e]
        BY <2>1, <3>2, <3>4, StoreRow
      <4>2. /\ work[u][e] \in Row \cup {NoRow}
            /\ work[u][e] # NoRow => RowOK(work[u][e])
        BY <3>2 DEF Table, IInv, RowsOK
      <4>3. LET new == Upsert(work[u][e], Statement(c), stamp[c])
            IN  ChangedAt(work[u][e], new, stamp[c]) \/ new = work[u][e]
        BY <2>1, <2>2, <4>2, UpsertRow, NoRowAssumption DEF ChangedAt, Upsert, Updated
      <4> QED
        BY <3>1, <4>1, <4>3 DEF ChangedAt
    <3> QED
      BY <3>3, <3>4
  <2>5. \A d \in Client : Selected(d)' = Selected(d)
    BY <2>1 DEF Selected
  <2> QED
    BY <2>1, <2>4, <2>5, ClientAssumption
    DEF SerialOK, NothingUncommitted, NoMissedChange, Adopting, CaughtUp
<1>5. ASSUME NEW c \in Client, UploadEnd(c) PROVE SerialOK'
  <2>1. /\ pc[c] = "upload" /\ pc' = [pc EXCEPT ![c] = "uploaded"]
        /\ Commit(c) /\ UNCHANGED <<clock, stamp, cursor>>
    BY <1>5 DEF UploadEnd, CommitUpload
  <2>2. pc'[c] = "uploaded" /\ \A d \in Client \ {c} : pc[d] = "idle" /\ pc'[d] = "idle"
    BY <2>1 DEF SerialOK, IInv, TypeOK
  <2>3. writer \in {c, NoClient} /\ writer' = NoClient
    BY <2>1, <2>2, ClientAssumption DEF Commit, SerialOK, IInv, TypeOK
  <2>4. \A u \in User, e \in Episode :
            \/ table'[u][e] = table[u][e]
            \/ ChangedAt(table[u][e], table'[u][e], stamp[c])
    BY <2>1 DEF Commit, SerialOK, WorkIsNew
  <2>5. work' = table'
    BY <2>1, <2>3 DEF Commit, SerialOK, NothingUncommitted
  <2>6. ASSUME NEW d \in Client, NEW e \in unseen'[d]
        PROVE  /\ table'[UserOf[d]][e] # NoRow
               /\ Matches(QueryOf[d], e, table'[UserOf[d]][e]) =>
                    table'[UserOf[d]][e].modified > cursor[d]
    <3> DEFINE old == table[UserOf[d]][e]
               new == table'[UserOf[d]][e]
    <3>1. UserOf[d] \in User /\ e \in Episode /\ unseen[d] \subseteq Episode
      <4>1. unseen'[d] \subseteq unseen[d] \cup Episode
        BY <1>5 DEF UploadEnd, Changed, IInv, TypeOK
      <4> QED
        BY <4>1, EpisodesAssumption DEF IInv, TypeOK
    <3>2. new = old \/ (new # NoRow /\ new.modified = stamp[c])
      BY <2>4, <3>1 DEF ChangedAt
    <3>3. cursor[d] < stamp[c]
      BY <2>1 DEF SerialOK
    <3>4. CASE e \in unseen[d]
      BY <3>2, <3>3, <3>4 DEF SerialOK, NoMissedChange
    <3>5. CASE e \notin unseen[d]
      <4>1. d \in Others(c) /\ e \in Changed(c)
        BY <1>5, <3>5 DEF UploadEnd, IInv, TypeOK
      <4>2. writer = c /\ UserOf[d] = UserOf[c] /\ work[UserOf[c]][e] # table[UserOf[c]][e]
        BY <4>1 DEF Others, Changed
      <4>3. new # old
        BY <2>1, <4>2 DEF Commit
      <4> QED
        BY <3>2, <3>3, <4>3
    <3> QED
      BY <3>4, <3>5
  <2>7. ASSUME NEW d \in Client, Adopting(d)' PROVE CaughtUp(d)'
    <3>1. d = c /\ Adopting(c)
      BY <2>1, <2>2, <2>7 DEF Adopting
    <3> SUFFICES ASSUME NEW e \in unseen'[c]
                 PROVE  ~Matches(QueryOf[c], e, table'[UserOf[c]][e])
      BY <3>1 DEF CaughtUp
    <3>2. e \in unseen[c] /\ e \in Episode /\ UserOf[c] \in User
      BY <1>5, EpisodesAssumption DEF UploadEnd, Others, IInv, TypeOK
    <3>3. /\ table[UserOf[c]][e] # NoRow
          /\ ~Matches(QueryOf[c], e, table[UserOf[c]][e])
      BY <3>1, <3>2 DEF SerialOK, CaughtUp
    <3>4. table'[UserOf[c]][e].device = table[UserOf[c]][e].device
      BY <2>4, <3>2, <3>3 DEF ChangedAt
    <3> QED
      BY <3>3, <3>4 DEF Matches
  <2> QED
    BY <2>1, <2>2, <2>3, <2>5, <2>6, <2>7, ClientAssumption
    DEF SerialOK, NothingUncommitted, NoMissedChange
<1>6. ASSUME NEW c \in Client, Fetch(c), OneAtATime, Undisturbed PROVE SerialOK'
  <2>1. /\ pc[c] = "idle" /\ pc' = [pc EXCEPT ![c] = "fetch"]
        /\ UNCHANGED <<table, work, writer, clock, stamp, cursor, unseen, found>>
    BY <1>6 DEF Fetch, StartFetch, database
  <2>2. pc'[c] = "fetch" /\ \A d \in Client \ {c} : pc'[d] = pc[d]
    BY <2>1 DEF IInv, TypeOK
  <2>3. \A d \in Client : pc[d] = "idle" /\ writer # d
    BY <1>6, <2>1, <2>2, Alone DEF Starting, Free, SerialOK
  <2> QED
    BY <2>1, <2>2, <2>3
    DEF SerialOK, NothingUncommitted, NoMissedChange, Adopting, CaughtUp
<1>7. ASSUME NEW c \in Client, Select(c) \/ FetchEnd(c) PROVE SerialOK'
  <2>1. /\ pc[c] \in {"fetch", "selected"} /\ pc'[c] \in {"selected", "fetched"}
        /\ \A d \in Client \ {c} : pc'[d] = pc[d]
        /\ UNCHANGED <<table, work, writer, cursor, unseen>>
        /\ found'[c] = Selected(c)
    BY <1>7 DEF Select, EndSelect, FetchEnd, LatestOrNow, IInv, TypeOK, SerialOK, database
  <2>2. \A d \in Client \ {c} : pc'[d] = "idle" /\ pc[d] = "idle"
    BY <2>1 DEF SerialOK
  <2>3. \A d \in Client : writer' # d
    BY <2>1, <2>2 DEF SerialOK
  <2>4. Selected(c)' = Selected(c)
    BY <2>1 DEF Selected
  <2> QED
    BY <2>1, <2>2, <2>3, <2>4
    DEF SerialOK, NothingUncommitted, NoMissedChange, Adopting
<1>8. ASSUME NEW c \in Client, Fail(c) PROVE SerialOK'
  BY <1>8, SerialEnd DEF Fail, UploadError, FetchError, database
<1>9. ASSUME NEW c \in Client, Lose(c) PROVE SerialOK'
  BY <1>9, SerialEnd DEF Lose, Abandon
<1>10. ASSUME NEW c \in Client, Receive(c) PROVE SerialOK'
  <2>1. CASE ReceiveUploaded(c) /\ c \notin Adopters
    BY <1>10, <2>1, SerialEnd DEF Receive, ReceiveUploaded, database, ReceiveFetched
  <2>2. CASE ReceiveUploaded(c) /\ c \in Adopters
    <3>1. /\ pc[c] = "uploaded" /\ End(c, "idle")
          /\ UNCHANGED <<table, work, writer, unseen>>
          /\ cursor' = [cursor EXCEPT ![c] = stamp[c]]
      BY <1>10, <2>2 DEF Receive, ReceiveFetched, ReceiveUploaded, database
    <3>2. \A d \in Client : pc'[d] = "idle" /\ writer' # d
      BY <3>1 DEF End, IInv, TypeOK, SerialOK
    <3>3. CaughtUp(c)
      BY <2>2, <3>1 DEF SerialOK, Adopting
    <3>4. NoMissedChange'
      BY <3>1, <3>3 DEF CaughtUp, SerialOK, NoMissedChange, IInv, TypeOK
    <3> QED
      BY <3>1, <3>2, <3>4 DEF SerialOK, NothingUncommitted, Adopting
  <2>3. CASE ReceiveFetched(c)
    <3>1. /\ pc[c] = "fetched" /\ UNCHANGED <<table, work, writer>>
          /\ End(c, "idle") \/ End(c, "between")
          /\ cursor' = [cursor EXCEPT ![c] = stamp[c]]
          /\ unseen' = [unseen EXCEPT ![c] = unseen[c] \ Selected(c)]
      BY <1>10, <2>3 DEF Receive, ReceiveFetched, ReceiveUploaded, database, SerialOK
    <3>2. /\ \A d \in Client \ {c} : pc'[d] = "idle"
          /\ pc'[c] \in {"idle", "between"}
          /\ \A d \in Client : writer' # d
      BY <3>1 DEF End, IInv, TypeOK, SerialOK
    <3>3. ASSUME NEW d \in Client, NEW e \in unseen'[d]
          PROVE  /\ table[UserOf[d]][e] # NoRow
                 /\ Matches(QueryOf[d], e, table[UserOf[d]][e]) =>
                      table[UserOf[d]][e].modified > cursor'[d]
      <4>1. CASE d # c
        BY <3>1, <4>1 DEF SerialOK, NoMissedChange, IInv, TypeOK
      <4>2. CASE d = c
        <5>1. e \in unseen[c] /\ e \notin Selected(c) /\ e \in Episode
          BY <3>1, <4>2 DEF IInv, TypeOK
        <5>2. ~Matches(QueryOf[c], e, table[UserOf[c]][e])
          BY <5>1 DEF Selected, SerialOK, NoMissedChange
        <5> QED
          BY <4>2, <5>1, <5>2 DEF SerialOK
      <4> QED
        BY <4>1, <4>2
    <3>4. CaughtUp(c)'
      <4> SUFFICES ASSUME NEW e \in unseen'[c]
                   PROVE  ~Matches(QueryOf[c], e, table[UserOf[c]][e])
        BY <3>1 DEF CaughtUp
      <4>1. e \in unseen[c] /\ e \notin Selected(c) /\ e \in Episode
        BY <3>1 DEF IInv, TypeOK
      <4> QED
        BY <4>1 DEF Selected, SerialOK, NoMissedChange
    <3> QED
      BY <3>1, <3>2, <3>3, <3>4 DEF SerialOK, NothingUncommitted, NoMissedChange, Adopting
  <2> QED
    BY <1>10, <2>1, <2>2, <2>3 DEF Receive
<1> QED
  BY <1>1, <1>2, <1>3, <1>4, <1>5, <1>6, <1>7, <1>8, <1>9, <1>10 DEF Next

\* If requests come one at a time, with a second between what a client has seen and the
\* next upload, and adopters fetch before they upload with nobody in between, then no
\* client ever misses a change that its query matches: its cursor skips none, although
\* it follows the answers to uploads too.
THEOREM NothingMissed == SerialSpec => []NoMissedChange
<1>1. Init => SerialOK
  BY ClientAssumption
  DEF Init, InitDatabase, InitRequests, SerialOK, NothingUncommitted, NoMissedChange,
      Adopting
<1>2. [Next /\ OneAtATime /\ Undisturbed]_vars => [Next]_vars
  OBVIOUS
<1>3. SerialOK => NoMissedChange
  BY DEF SerialOK
<1>4. IInv /\ SerialOK /\ [Next /\ OneAtATime /\ Undisturbed]_vars => SerialOK'
  BY SerialStep
<1> QED
  BY <1>1, <1>2, <1>3, <1>4, InvInit, InvStep, PTL DEF SerialSpec
=============================================================================
