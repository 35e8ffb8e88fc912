---------------------------- MODULE CredsProofs -----------------------------
(***************************************************************************)
(* Proofs about CredsFile: whom a lookup finds is the owner of the id.     *)
(* Whatever a file holds, half-written or garbled, and whatever is still   *)
(* to be written to it, a session id in it was drawn for its user; so the  *)
(* proofs follow the cells of a file through reading and writing, and need *)
(* to know nothing of the order that they are in.                          *)
(***************************************************************************)
EXTENDS CredsFile, Basics, FiniteSetTheorems

\* The cells that may be in the file of u.
Mine(u) == {cell \in Cell : cell \in SessionId => owner[cell] = u}

\* The keys and values that a thread is about to write to the file of u.
MapOK(map, u) ==
    /\ IsFiniteSet(DOMAIN map)
    /\ DOMAIN map \subseteq Seq(Mine(u))
    /\ map \in [DOMAIN map -> Seq(Mine(u))]

HandleOK(t) ==
    \/ handle[t] = Closed
    \/ /\ pc[t] = "write"
       /\ handle[t] \in [file : {user[t]}, pos : Nat, pieces : Seq(Seq(Mine(user[t])))]

\* What it has read so far is of the file of its user.
GotOK(t) ==
    \/ got[t] = <<>>
    \/ /\ pc[t] \in {"find", "lookup", "update"} /\ user[t] \in Account
       /\ got[t] \in Seq(Mine(user[t]))

RequestOK(t) ==
    /\ pc[t] \in {"find", "update", "open", "write"} => user[t] \in Account
    /\ pc[t] \in {"update", "open", "write"} /\ id[t] # NoSession =>
            id[t] \in SessionId /\ owner[id[t]] = user[t]
    /\ pc[t] = "write" => handle[t] # Closed
    /\ pc[t] = "lookup" => id[t] \in SessionId
    /\ IF pc[t] = "open" THEN MapOK(kv[t], user[t]) ELSE kv[t] = <<>>
    /\ \A u \in hits[t] : u = owner[id[t]]
    /\ pc[t] # "lookup" => hits[t] = {}

FileOK(u) == text[u] \in Seq(Mine(u))

IInv ==
    /\ TypeOK
    /\ kv = [t \in Thread |-> kv[t]]
    /\ \A u \in Account : FileOK(u)
    /\ \A t \in Thread : HandleOK(t) /\ RequestOK(t) /\ GotOK(t)

-----------------------------------------------------------------------------
\* Reading and writing

\* Find returns a place from i on, or the one after the end.
LEMMA FindPlace ==
    ASSUME NEW S, NEW cells \in Seq(S), NEW cell, NEW i \in DOMAIN cells
    PROVE  Find(cells, cell, i) \in i .. Len(cells) + 1
<1> DEFINE P == {j \in i .. Len(cells) : cells[j] = cell} \cup {Len(cells) + 1}
<1>1. P \in SUBSET Nat /\ P # {} /\ P \subseteq i .. Len(cells) + 1
  OBVIOUS
<1>2. Min(P) \in P
  BY <1>1, NatMin
<1> QED
  BY <1>1, <1>2 DEF Find

\* The key and the value of a line are made of cells of the file.
LEMMA EntryCells ==
    ASSUME NEW S, NEW cells \in Seq(S), NEW e \in Entries(cells)
    PROVE  /\ e.key \in Seq(S) /\ e.value \in Seq(S)
           /\ e.line \in 1 .. Len(cells)
<1>1. PICK i \in LineStarts(cells) :
        e = [line |-> i,
             key |-> SubSeq(cells, i, Find(cells, Sep, i) - 1),
             value |-> SubSeq(cells, Find(cells, Sep, i) + 1, Find(cells, NL, i) - 1)]
  BY DEF Entries
<1>2. i \in 1 .. Len(cells)
  BY DEF LineStarts
<1>3. /\ Find(cells, Sep, i) \in i .. Len(cells) + 1
      /\ Find(cells, NL, i) \in i .. Len(cells) + 1
  BY <1>2, FindPlace
<1> DEFINE a == Find(cells, Sep, i)
           b == Find(cells, NL, i)
<1> HIDE DEF a, b
<1>4. a \in i .. Len(cells) + 1 /\ b \in i .. Len(cells) + 1
  BY <1>3 DEF a, b
<1>5. SubSeq(cells, i, a - 1) \in Seq(S)
  BY <1>2, <1>4
<1>6. SubSeq(cells, a + 1, b - 1) \in Seq(S)
  BY <1>2, <1>4
<1> QED
  BY <1>1, <1>2, <1>5, <1>6 DEF a, b

\* A value that a key maps to is that of a line.
LEMMA MapsToEntry ==
    ASSUME NEW S, NEW cells \in Seq(S), NEW k, NEW v, Maps(cells, k, v)
    PROVE  v \in Seq(S)
BY EntryCells DEF Maps

\* Each key that a file has maps to a value: that of its last line.
LEMMA KeyMaps ==
    ASSUME NEW S, NEW cells \in Seq(S), NEW k \in {e.key : e \in Entries(cells)}
    PROVE  \E v \in {e.value : e \in Entries(cells)} : Maps(cells, k, v)
<1> DEFINE Places == {e.line : e \in {d \in Entries(cells) : d.key = k}}
<1>1. Places \in SUBSET (0 .. Len(cells)) /\ Places # {}
  BY EntryCells
<1>2. Max(Places) \in Places /\ \A n \in Places : Max(Places) >= n
  <2>1. Len(cells) \in Nat
    OBVIOUS
  <2> QED
    BY <1>1, <2>1, BoundedMax
<1>3. PICK e \in Entries(cells) : e.key = k /\ e.line = Max(Places)
  BY <1>2
<1>4. \A d \in Entries(cells) : d.key = k => d.line <= e.line
  <2> SUFFICES ASSUME NEW d \in Entries(cells), d.key = k PROVE d.line <= e.line
    OBVIOUS
  <2>1. d.line \in Places
    OBVIOUS
  <2> QED
    BY <1>2, <1>3, <2>1, EntryCells
<1>5. Maps(cells, k, e.value)
  BY <1>3, <1>4 DEF Maps
<1> QED
  BY <1>5

\* The keys of a file are finitely many.
LEMMA FiniteKeys ==
    ASSUME NEW S, NEW cells \in Seq(S)
    PROVE  IsFiniteSet({e.key : e \in Entries(cells)})
<1>1. IsFiniteSet(1 .. Len(cells))
  BY FS_Interval
<1>2. LineStarts(cells) \subseteq 1 .. Len(cells)
  BY DEF LineStarts
<1>3. IsFiniteSet(LineStarts(cells))
  BY <1>1, <1>2, FS_Subset
<1> DEFINE KeyAt == [i \in LineStarts(cells) |-> SubSeq(cells, i, Find(cells, Sep, i) - 1)]
           Keys == {e.key : e \in Entries(cells)}
           Image == {KeyAt[i] : i \in LineStarts(cells)}
<1>4. Keys \subseteq Image
  <2> SUFFICES ASSUME NEW e \in Entries(cells)
               PROVE  \E i \in LineStarts(cells) : e.key = KeyAt[i]
    OBVIOUS
  <2> QED
    BY DEF Entries
<1>5. KeyAt \in Surjection(LineStarts(cells), Image)
  BY DEF Surjection
<1>6. IsFiniteSet(Image)
  BY <1>3, <1>5, FS_Surjection
<1> QED
  BY <1>4, <1>6, FS_Subset

\* What update_user makes of a file's map has cells of the file, and the id.
LEMMA UpdatedMap ==
    ASSUME NEW S, NEW cells \in Seq(S), Id \in S,
           NEW s, s = NoSession \/ s \in S
    PROVE  LET map == SetSession(KeyValues(cells), s)
           IN  /\ IsFiniteSet(DOMAIN map)
               /\ DOMAIN map \subseteq Seq(S)
               /\ map \in [DOMAIN map -> Seq(S)]
<1> DEFINE Keys == {e.key : e \in Entries(cells)}
           old == KeyValues(cells)
           map == SetSession(old, s)
<1>1. DOMAIN old = Keys
  BY DEF KeyValues
<1>2. \A k \in Keys : old[k] \in Seq(S)
  <2> SUFFICES ASSUME NEW k \in Keys PROVE old[k] \in Seq(S)
    OBVIOUS
  <2>1. Maps(cells, k, old[k])
    BY KeyMaps DEF KeyValues
  <2> QED
    BY <2>1, MapsToEntry
<1>3. Keys \subseteq Seq(S)
  BY EntryCells
<1> HIDE DEF old
<1>4. IsFiniteSet(Keys) 
  BY FiniteKeys
<1>5. DOMAIN map = (Keys \ {<<Id>>}) \cup (IF s = NoSession THEN {} ELSE {<<Id>>})
  BY <1>1 DEF SetSession
<1>6. IsFiniteSet(DOMAIN map)
  <2>1. IsFiniteSet(Keys \ {<<Id>>})
    BY <1>4, FS_Subset
  <2>2. IsFiniteSet({<<Id>>}) /\ IsFiniteSet({})
    BY FS_EmptySet, FS_Singleton
  <2> QED
    BY <1>5, <2>1, <2>2, FS_Union
<1>7. <<Id>> \in Seq(S)
  OBVIOUS
<1>8. \A k \in DOMAIN map : map[k] \in Seq(S)
  BY <1>1, <1>2, <1>5 DEF SetSession
<1>9. map = [k \in DOMAIN map |-> map[k]]
  BY DEF SetSession
<1> QED
  BY <1>3, <1>5, <1>6, <1>7, <1>8, <1>9 DEF old

\* What a map is written as has its cells, and separators and line ends.
LEMMA PiecesCells ==
    ASSUME NEW S, Sep \in S, NEW map, IsFiniteSet(DOMAIN map), NL \in S,
           DOMAIN map \subseteq Seq(S), map \in [DOMAIN map -> Seq(S)],
           NEW order \in SetToSeqs(DOMAIN map)
    PROVE  Pieces(map, order) \in Seq(Seq(S))
<1> DEFINE n == Cardinality(DOMAIN map)
<1>1. n \in Nat
  BY FS_CardinalityType
<1>2. order \in [1 .. n -> DOMAIN map]
  BY DEF SetToSeqs
<1> HIDE DEF n
<1>3. Len(order) = n
  BY <1>1, <1>2
<1>4. ASSUME NEW i \in 1 .. 3 * n
      PROVE  Pieces(map, order)[i] \in Seq(S)
  <2>1. (i + 2) \div 3 \in 1 .. n
    BY <1>1, <1>4
  <2>2. i % 3 \in {0, 1, 2}
    BY <1>1, <1>4
  <2> DEFINE key == order[(i + 2) \div 3]
  <2>3. key \in DOMAIN map
    BY <1>2, <2>1
  <2> HIDE DEF key
  <2>4. key \in Seq(S) /\ <<Sep>> \in Seq(S) /\ Append(map[key], NL) \in Seq(S)
    BY <2>3
  <2>5. Pieces(map, order)[i] =
          CASE i % 3 = 1 -> key [] i % 3 = 2 -> <<Sep>> [] i % 3 = 0 -> Append(map[key], NL)
    BY <1>3, <1>4 DEF Pieces, key
  <2> QED
    BY <2>2, <2>4, <2>5
<1>5. Pieces(map, order) = [i \in 1 .. 3 * n |-> Pieces(map, order)[i]]
  BY <1>3 DEF Pieces
<1>6. 3 * n \in Nat
  BY <1>1
<1> HIDE DEF Pieces
<1> QED
  BY <1>4, <1>5, <1>6

\* A file with a piece written over it has cells of both, and perhaps holes.
LEMMA OverCells ==
    ASSUME NEW S, Hole \in S, NEW cells \in Seq(S), NEW pos \in Nat,
           NEW piece \in Seq(S)
    PROVE  Over(cells, pos, piece) \in Seq(S)
<1> DEFINE before == [i \in 1 .. pos |-> IF i \in DOMAIN cells THEN cells[i] ELSE Hole]
           after == SubSeq(cells, pos + Len(piece) + 1, Len(cells))
<1>1. before \in Seq(S)
  OBVIOUS
<1>2. after \in Seq(S)
  OBVIOUS
<1> QED
  BY <1>1, <1>2 DEF Over

-----------------------------------------------------------------------------
\* The invariant

\* An id that has an owner keeps it.
OwnersStay == \A s \in SessionId : owner[s] # NoUser => owner'[s] = owner[s]

\* Cells that mean nothing may be in every file.
LEMMA CommonCells ==
    ASSUME NEW u \in Account
    PROVE  {NL, Hole, Sep, PwHash, Id} \cup Range(Hash) \subseteq Mine(u)
BY CredsAssumption DEF Mine, Cell

\* What may be in the file of a user are cells.
LEMMA MineIsCell ==
    ASSUME NEW u
    PROVE  Mine(u) \subseteq Cell
BY DEF Mine

\* What may be in a file may be in it later.
LEMMA MineStays ==
    ASSUME OwnersStay, NEW u \in Account
    PROVE  Mine(u) \subseteq Mine(u)'
BY TextFileAssumption DEF OwnersStay, Mine, Account, NoUser, Cell

\* A file that is not written keeps what is to be shown of it.
LEMMA FileStays ==
    ASSUME OwnersStay, NEW u \in Account, FileOK(u), text'[u] = text[u]
    PROVE  FileOK(u)'
BY MineStays, SeqLarger DEF FileOK

\* A thread that does nothing stays as the invariant says.
LEMMA ThreadStays ==
    ASSUME TypeOK, OwnersStay, NEW t \in Thread, HandleOK(t), RequestOK(t), GotOK(t),
           pc'[t] = pc[t], user'[t] = user[t], id'[t] = id[t], kv'[t] = kv[t],
           hits'[t] = hits[t], handle'[t] = handle[t], got'[t] = got[t]
    PROVE  HandleOK(t)' /\ RequestOK(t)' /\ GotOK(t)'
<1>1. ASSUME user[t] \in Account
      PROVE  /\ Seq(Mine(user[t])) \subseteq Seq(Mine(user[t])')
             /\ Seq(Seq(Mine(user[t]))) \subseteq Seq(Seq(Mine(user[t])'))
  <2>1. Mine(user[t]) \subseteq Mine(user[t])'
    BY <1>1, MineStays
  <2>2. Seq(Mine(user[t])) \subseteq Seq(Mine(user[t])')
    BY <2>1, SeqLarger
  <2> QED
    BY <2>2, SeqLarger
<1>2. HandleOK(t)'
  <2>1. CASE handle[t] = Closed
    BY <2>1 DEF HandleOK, Closed
  <2>2. CASE handle[t] # Closed
    <3>1. pc[t] = "write" /\ user[t] \in Account
      BY <2>2 DEF HandleOK, RequestOK, GotOK
    <3>2. handle[t] \in [file : {user[t]}, pos : Nat, pieces : Seq(Seq(Mine(user[t])))]
      BY <2>2 DEF HandleOK
    <3>3. handle'[t] \in [file : {user'[t]}, pos : Nat, pieces : Seq(Seq(Mine(user[t])'))]
      BY <1>1, <3>1, <3>2
    <3> QED
      BY <3>1, <3>3 DEF HandleOK
  <2> QED
    BY <2>1, <2>2
<1>3. ASSUME pc[t] = "open"
      PROVE  MapOK(kv[t], user[t])'
  <2>1. user[t] \in Account /\ MapOK(kv[t], user[t])
    BY <1>3 DEF RequestOK
  <2>2. /\ DOMAIN kv[t] \subseteq Seq(Mine(user[t])')
        /\ kv[t] \in [DOMAIN kv[t] -> Seq(Mine(user[t])')]
    BY <1>1, <2>1 DEF MapOK
  <2> QED
    BY <2>1, <2>2 DEF MapOK
<1>4. \A u \in hits'[t] : u = owner'[id'[t]]
  <2> SUFFICES ASSUME NEW u \in hits[t] PROVE u = owner'[id[t]]
    OBVIOUS
  <2>1. u \in Account /\ u = owner[id[t]] /\ id[t] \in SessionId
    BY DEF TypeOK, RequestOK
  <2> QED
    BY <2>1, TextFileAssumption DEF OwnersStay, Account, NoUser
<1>5. ASSUME pc[t] \in {"update", "open", "write"}, id[t] # NoSession
      PROVE  owner'[id[t]] = user[t] /\ id[t] \in SessionId
  <2>1. id[t] \in SessionId /\ owner[id[t]] = user[t] /\ user[t] \in Account
    BY <1>5 DEF RequestOK
  <2> QED
    BY <2>1, TextFileAssumption DEF OwnersStay, Account, NoUser
<1>6. RequestOK(t)'
  BY <1>3, <1>4, <1>5 DEF RequestOK
<1>7. GotOK(t)'
  BY <1>1 DEF GotOK
<1> QED
  BY <1>2, <1>6, <1>7

\* What files show of sessions is sessions.
LEMMA ShowTyped ==
    ASSUME TypeOK, Show
    PROVE  shown' \in [Account -> SessionId \cup {NoSession}] /\ used' \subseteq SessionId
<1>1. ASSUME NEW u \in Account PROVE Session(u)' \in SessionId \cup {NoSession}
  BY DEF Session
<1>2. shown' \in [Account -> SessionId \cup {NoSession}]
  BY <1>1 DEF Show
<1> QED
  BY <1>2 DEF Show, TypeOK, Range

\* A step of one thread: the others stay, and so do the files that it does not write.
LEMMA OneThread ==
    ASSUME IInv, TypeOK', kv' = [w \in Thread |-> kv'[w]], OwnersStay, NEW t \in Thread,
           \A u \in Account : text'[u] = text[u] \/ FileOK(u)',
           HandleOK(t)', RequestOK(t)', GotOK(t)',
           \A w \in Thread \ {t} :
                /\ pc'[w] = pc[w] /\ user'[w] = user[w] /\ id'[w] = id[w]
                /\ kv'[w] = kv[w] /\ hits'[w] = hits[w] /\ handle'[w] = handle[w]
                /\ got'[w] = got[w]
    PROVE  IInv'
<1>1. \A u \in Account : FileOK(u)'
  BY FileStays DEF IInv
<1>2. ASSUME NEW w \in Thread PROVE HandleOK(w)' /\ RequestOK(w)' /\ GotOK(w)'
  BY ThreadStays DEF IInv
<1> QED
  BY <1>1, <1>2 DEF IInv

\* A thread that has not opened its file has no handle.
LEMMA NotWriting ==
    ASSUME IInv, NEW t \in Thread
    PROVE  /\ pc[t] # "write" => handle[t] = Closed
           /\ pc[t] # "open" => kv[t] = <<>>
BY DEF IInv, HandleOK, RequestOK, GotOK

\* A closed handle is a handle.
LEMMA ClosedTyped == Closed \in [file : Account \cup {NoUser}, pos : Nat, pieces : Seq(Seq(Cell))]
BY DEF Closed, NoUser

\* The handler answers, and its file is closed.
LEMMA AnswerStep ==
    ASSUME IInv, NEW t \in Thread, Answer(t), OwnersStay,
           \/ handle' = handle /\ pc[t] # "write"
           \/ handle' = [handle EXCEPT ![t] = Closed],
           UNCHANGED <<text, updates, owner, shown, used, last, overlapped>>,
           cut' \subseteq Account
    PROVE  IInv'
<1>1. handle'[t] = Closed /\ handle' = [handle EXCEPT ![t] = Closed]
  BY NotWriting DEF IInv, TypeOK
<1>2. TypeOK'
  BY <1>1, ClosedTyped DEF IInv, TypeOK, Answer, DropRead, GoTo, NoUser
<1>3. kv' = [w \in Thread |-> kv'[w]]
  BY DEF IInv, Answer, DropRead
<1>4. HandleOK(t)' /\ RequestOK(t)' /\ GotOK(t)'
  BY <1>1 DEF HandleOK, RequestOK, GotOK, Answer, DropRead, GoTo, IInv, TypeOK, Closed
<1> QED
  BY <1>1, <1>2, <1>3, <1>4, OneThread DEF Answer, DropRead, GoTo, IInv, TypeOK

\* The handler calls update_user with an id that is its user's, or none.
LEMMA CallStep ==
    ASSUME IInv, NEW t \in Thread, NEW u \in Account, NEW s, CallUpdate(t, u, s),
           s = NoSession \/ (s \in SessionId /\ owner'[s] = u), OwnersStay,
           owner' \in [SessionId -> Account \cup {NoUser}],
           \/ handle' = handle /\ pc[t] \in {"find", "lookup"}
           \/ handle' = [handle EXCEPT ![t] = Closed] /\ pc[t] = "write",
           UNCHANGED <<text, shown, used, last, overlapped, cut>>
    PROVE  IInv'
<1>1. handle'[t] = Closed /\ handle' = [handle EXCEPT ![t] = Closed]
  BY NotWriting DEF IInv, TypeOK
<1>2. TypeOK'
  <2>1. /\ text' \in [Account -> Seq(Cell)]
        /\ handle' \in [Thread -> [file : Account \cup {NoUser}, pos : Nat,
                                   pieces : Seq(Seq(Cell))]]
        /\ got' \in [Thread -> Seq(Cell)]
        /\ \A w \in Thread : kv'[w] \in [DOMAIN kv'[w] -> Seq(Cell)]
    BY <1>1, ClosedTyped DEF IInv, TypeOK, CallUpdate, DropRead
  <2>2. /\ pc' \in [Thread -> {"idle", "find", "lookup", "update", "open", "write"}]
        /\ user' \in [Thread -> Account \cup {NoUser}]
        /\ id' \in [Thread -> SessionId \cup {NoSession}]
        /\ rest' \in [Thread -> SUBSET Account] /\ hits' \in [Thread -> SUBSET Account]
        /\ updates' \in 0 .. MaxUpdates /\ gone' \in [Thread -> SUBSET SessionId]
    BY CredsAssumption DEF IInv, TypeOK, CallUpdate, GoTo
  <2> QED
    BY <2>1, <2>2 DEF IInv, TypeOK
<1>3. kv' = [w \in Thread |-> kv'[w]]
  BY DEF IInv, CallUpdate, DropRead
<1>4. HandleOK(t)' /\ RequestOK(t)' /\ GotOK(t)'
  BY <1>1, NotWriting DEF HandleOK, RequestOK, GotOK, CallUpdate, DropRead, GoTo, IInv, TypeOK, Closed
<1> QED
  BY <1>1, <1>2, <1>3, <1>4, OneThread DEF CallUpdate, DropRead, GoTo, IInv, TypeOK

\* A login keeps the invariant: its id goes to the update of the user it is drawn for.
LEMMA LoginStep ==
    ASSUME IInv, NEW t \in Thread, Login(t)
    PROVE  IInv'
<1>0. PICK u \in Account : u = user[t]
  BY DEF Login, IInv, RequestOK
<1>1. PICK s \in SessionId :
        owner[s] = NoUser /\ owner' = [owner EXCEPT ![s] = u] /\ CallUpdate(t, u, s)
  BY <1>0 DEF Login
<1>2. owner'[s] = u /\ OwnersStay /\ owner' \in [SessionId -> Account \cup {NoUser}]
  BY <1>1 DEF OwnersStay, IInv, TypeOK
<1>3. handle' = handle /\ pc[t] = "find" /\ UNCHANGED <<text, shown, used, last, overlapped, cut>>
  BY DEF Login, files
<1>4. s = NoSession \/ (s \in SessionId /\ owner'[s] = u)
  BY <1>2
<1> QED
  BY <1>1, <1>2, <1>3, <1>4, CallStep

\* A logout hands no id to an update.
LEMMA LogoutStep ==
    ASSUME IInv, NEW t \in Thread,
           Logout(t) \/ LogoutAfterLogin(t) \/ LogoutByPassword(t)
    PROVE  IInv'
<1>1. OwnersStay /\ owner' \in [SessionId -> Account \cup {NoUser}]
  BY DEF OwnersStay, IInv, TypeOK, Logout, LogoutAfterLogin, LogoutByPassword, ghosts
<1>2. CASE Logout(t)
  <2>1. PICK u \in Account : CallUpdate(t, u, NoSession)
    BY <1>2 DEF Logout, IInv, TypeOK
  <2>2. handle' = handle /\ pc[t] = "lookup" /\ UNCHANGED <<text, shown, used, last, overlapped, cut>>
    BY <1>2 DEF Logout, files, ghosts
  <2> QED
    BY <1>1, <2>1, <2>2, CallStep
<1>3. CASE LogoutAfterLogin(t)
  <2>1. user[t] \in Account
    BY <1>3 DEF LogoutAfterLogin, IInv, RequestOK
  <2>2. /\ CallUpdate(t, user[t], NoSession)
        /\ handle' = [handle EXCEPT ![t] = Closed] /\ pc[t] = "write"
        /\ UNCHANGED <<text, shown, used, last, overlapped, cut>>
    BY <1>3 DEF LogoutAfterLogin, Close, ghosts
  <2> QED
    BY <1>1, <2>1, <2>2, CallStep
<1>4. CASE LogoutByPassword(t)
  <2>1. user[t] \in Account
    BY <1>4 DEF LogoutByPassword, IInv, RequestOK
  <2>2. /\ CallUpdate(t, user[t], NoSession)
        /\ handle' = handle /\ pc[t] = "find"
        /\ UNCHANGED <<text, shown, used, last, overlapped, cut>>
    BY <1>4 DEF LogoutByPassword, files, ghosts
  <2> QED
    BY <1>1, <2>1, <2>2, CallStep
<1> QED
  BY <1>2, <1>3, <1>4

\* Requests that end, well or not, with the file closed.
LEMMA EndStep ==
    ASSUME IInv, NEW t \in Thread,
           \/ FindEnd(t) \/ LookupEnd(t) \/ ReadUserFails(t) \/ CloseUser(t)
           \/ CallFails(t) \/ WriteFails(t)
    PROVE  IInv'
<1>1. OwnersStay
  BY DEF OwnersStay, FindEnd, LookupEnd, ReadUserFails, CloseUser, CallFails, WriteFails, ghosts
<1>2. cut' \subseteq Account
  BY DEF IInv, TypeOK, RequestOK, FindEnd, LookupEnd, ReadUserFails, CloseUser, CallFails,
         WriteFails, ghosts
<1>3. Answer(t) /\ UNCHANGED <<text, updates, owner, shown, used, last, overlapped>>
  BY DEF FindEnd, LookupEnd, ReadUserFails, CloseUser, CallFails, WriteFails, Close, files, ghosts
<1>4. \/ handle' = handle /\ pc[t] # "write"
      \/ handle' = [handle EXCEPT ![t] = Closed]
  BY DEF FindEnd, LookupEnd, ReadUserFails, CloseUser, CallFails, WriteFails, Close, files
<1> QED
  BY <1>1, <1>2, <1>3, <1>4, AnswerStep

\* A lookup that begins has found nobody yet.
LEMMA LookupStep ==
    ASSUME IInv, NEW t \in Thread, NEW s \in SessionId, Lookup(t, s)
    PROVE  IInv'
<1>1. OwnersStay
  BY DEF OwnersStay, Lookup, ghosts
<1>2. TypeOK'
  BY DEF IInv, TypeOK, Lookup, GoTo, files, ghosts
<1>3. HandleOK(t)' /\ RequestOK(t)' /\ GotOK(t)'
  <2>1. handle[t] = Closed /\ kv[t] = <<>> /\ hits[t] = {}
    BY NotWriting DEF Lookup, IInv, RequestOK
  <2> QED
    BY <2>1 DEF HandleOK, RequestOK, GotOK, Lookup, GoTo, IInv, TypeOK, files, Closed
<1> QED
  BY <1>1, <1>2, <1>3, OneThread DEF Lookup, GoTo, files, IInv, TypeOK

\* Who can be found with an id by what was read of a file is its owner.
LEMMA FoundOwner ==
    ASSUME NEW u, NEW cells \in Seq(Mine(u)), NEW s \in SessionId, HasSession(cells, s)
    PROVE  owner[s] = u
<1>1. Maps(cells, <<Id>>, <<s>>)
  BY DEF HasSession
<1>2. <<s>> \in Seq(Mine(u))
  BY <1>1, MapsToEntry
<1>3. s \in Mine(u)
  BY <1>2, <<s>>[1] = s, Len(<<s>>) = 1
<1> QED
  BY <1>3 DEF Mine

\* A user whose file shows an id is its owner.
LEMMA ShowsOwner ==
    ASSUME IInv, NEW u \in Account, NEW s \in SessionId, HasSession(text[u], s)
    PROVE  owner[s] = u
BY FoundOwner DEF IInv, FileOK

\* What is read of the file of a user, at any time, is of the cells that may be in it.
LEMMA MoreCells ==
    ASSUME IInv, NEW t \in Thread, NEW u \in Account, user[t] \in {NoUser, u}, ReadSome(t, u)
    PROVE  /\ got' = [got EXCEPT ![t] = got'[t]]
           /\ got'[t] \in Seq(Mine(u)) /\ got'[t] # <<>>
<1>1. PICK next :
        next = got[t] \o SubSeq(text[u], Len(got[t]) + 1, Min({Len(got[t]) + Buffer, Len(text[u])}))
  OBVIOUS
<1>2. got' = [got EXCEPT ![t] = next] /\ Len(got[t]) < Len(text[u])
  BY <1>1 DEF ReadSome
<1>3. got[t] \in Seq(Mine(u)) /\ text[u] \in Seq(Mine(u))
  <2>1. GotOK(t) /\ FileOK(u) /\ NoUser \notin Account
    BY TextFileAssumption DEF IInv, NoUser, Account
  <2>2. <<>> \in Seq(Mine(u))
    OBVIOUS
  <2> QED
    BY <2>1, <2>2 DEF GotOK, FileOK
<1>4. next \in Seq(Mine(u)) /\ next # <<>>
  BY <1>1, <1>2, <1>3, TextFileAssumption, ReadOn
<1>5. got'[t] = next
  BY <1>2 DEF IInv, TypeOK
<1> QED
  BY <1>2, <1>4, <1>5

\* A file is read on, to find a user or to update it.
LEMMA ReadingStep ==
    ASSUME IInv, NEW t \in Thread,
           LookupRead(t) \/ UpdateRead(t) \/ \E u \in Account : FindRead(t, u)
    PROVE  IInv'
<1>1. /\ \E u \in Account : ReadSome(t, u) /\ user[t] \in {NoUser, u}
                            /\ user' = [user EXCEPT ![t] = u]
      /\ pc' = [pc EXCEPT ![t] = IF pc[t] = "idle" THEN "find" ELSE pc[t]]
      /\ pc[t] \in {"idle", "find", "lookup", "update"}
      /\ UNCHANGED <<files, id, kv, rest, hits, gone, updates, owner, shown, used, last, cut>>
      /\ overlapped' \subseteq Account
  <2>1. CASE LookupRead(t)
    BY <2>1 DEF LookupRead, Reads, ghosts, IInv, TypeOK
  <2>2. CASE UpdateRead(t)
    <3>1. user[t] \in Account
      BY <2>2 DEF UpdateRead, IInv, RequestOK
    <3> QED
      BY <2>2, <3>1 DEF UpdateRead, Meets, IInv, TypeOK
  <2>3. CASE \E u \in Account : FindRead(t, u)
    BY <2>3 DEF FindRead, Reads, GoTo, ghosts, IInv, TypeOK
  <2> QED
    BY <2>1, <2>2, <2>3
<1>2. PICK u \in Account : ReadSome(t, u) /\ user[t] \in {NoUser, u}
                          /\ user' = [user EXCEPT ![t] = u]
  BY <1>1
<1>3. /\ got' = [got EXCEPT ![t] = got'[t]]
      /\ got'[t] \in Seq(Mine(u)) /\ got'[t] # <<>>
  BY <1>2, MoreCells
<1>4. OwnersStay /\ owner' = owner
  BY <1>1 DEF OwnersStay
<1>5. TypeOK'
  <2>1. got'[t] \in Seq(Cell)
    BY <1>3, SeqLarger, MineIsCell
  <2>2. got' \in [Thread -> Seq(Cell)]
    BY <1>3, <2>1 DEF IInv, TypeOK
  <2> QED
    BY <1>1, <1>2, <2>2 DEF IInv, TypeOK, files
<1>6. HandleOK(t)' /\ RequestOK(t)' /\ GotOK(t)'
  <2>1. handle'[t] = Closed /\ kv'[t] = <<>>
    BY <1>1, NotWriting DEF files
  <2>2. pc'[t] \in {"find", "lookup", "update"} /\ user'[t] = u
        /\ (pc'[t] # pc[t] => pc'[t] = "find" /\ pc[t] = "idle")
    BY <1>1, <1>2 DEF IInv, TypeOK
  <2>3. HandleOK(t)'
    BY <2>1 DEF HandleOK, Closed
  <2>4. GotOK(t)'
    BY <1>3, <1>4, <2>2 DEF GotOK, Mine
  <2>5. RequestOK(t) /\ NoUser \notin Account
    BY TextFileAssumption DEF IInv, NoUser, Account
  <2>6. RequestOK(t)'
    BY <1>1, <1>2, <1>4, <2>1, <2>2, <2>5 DEF RequestOK
  <2> QED
    BY <2>3, <2>4, <2>6
<1>7. \A w \in Thread \ {t} :
                /\ pc'[w] = pc[w] /\ user'[w] = user[w] /\ id'[w] = id[w]
                /\ kv'[w] = kv[w] /\ hits'[w] = hits[w] /\ handle'[w] = handle[w]
                /\ got'[w] = got[w]
  BY <1>1, <1>2, <1>3 DEF IInv, TypeOK, files
<1>8. kv' = [w \in Thread |-> kv'[w]] /\ text' = text
  BY <1>1 DEF IInv, files
<1> QED
  BY <1>4, <1>5, <1>6, <1>7, <1>8, OneThread

\* A lookup has read one more file, and finds its user only if the id is in it.
LEMMA LookupNextStep ==
    ASSUME IInv, NEW t \in Thread, LookupNext(t)
    PROVE  IInv'
<1>1. OwnersStay /\ owner' = owner
  BY DEF OwnersStay, LookupNext, ghosts
<1>2. PICK u \in rest[t] :
        /\ user[t] = u
        /\ rest' = [rest EXCEPT ![t] = @ \ {u}]
        /\ hits' = [hits EXCEPT ![t] = IF HasSession(got[t], id[t]) THEN @ \cup {u} ELSE @]
  BY DEF LookupNext
<1>3. u \in Account /\ id[t] \in SessionId
  BY DEF LookupNext, IInv, TypeOK, RequestOK
<1>4. got' = [got EXCEPT ![t] = <<>>] /\ user' = [user EXCEPT ![t] = NoUser]
  BY DEF LookupNext, DropRead
<1>5. TypeOK'
  BY <1>2, <1>3, <1>4 DEF IInv, TypeOK, LookupNext, files, ghosts
<1>6. HandleOK(t)' /\ RequestOK(t)' /\ GotOK(t)'
  <2>1. handle[t] = Closed /\ kv[t] = <<>>
    BY NotWriting DEF LookupNext
  <2>2. HasSession(got[t], id[t]) => u = owner[id[t]]
    <3>1. got[t] \in Seq(Mine(u))
      <4>1. <<>> \in Seq(Mine(u)) /\ GotOK(t)
        BY DEF IInv
      <4> QED
        BY <1>2, <4>1 DEF GotOK
    <3> QED
      BY <1>3, <3>1, FoundOwner
  <2>3. \A v \in hits'[t] : v = owner[id[t]]
    BY <1>2, <2>2 DEF IInv, TypeOK, RequestOK
  <2>4. got'[t] = <<>>
    BY <1>4 DEF IInv, TypeOK
  <2> QED
    BY <1>1, <1>3, <2>1, <2>3, <2>4 DEF HandleOK, RequestOK, GotOK, LookupNext, files, Closed
<1> QED
  BY <1>1, <1>2, <1>4, <1>5, <1>6, OneThread DEF LookupNext, files, IInv, TypeOK

-----------------------------------------------------------------------------
\* update_user

\* An update reads the cells of its user into its map.
LEMMA ReadUserStep ==
    ASSUME IInv, NEW t \in Thread, ReadUser(t)
    PROVE  IInv'
<1> DEFINE u == user[t]
           map == SetSession(KeyValues(got[t]), id[t])
<1>1. OwnersStay /\ owner' = owner
  BY DEF OwnersStay, ReadUser
<1>2. u \in Account /\ got[t] \in Seq(Mine(u)) /\ Id \in Mine(u)
  <2>1. u \in Account /\ GotOK(t) /\ <<>> \in Seq(Mine(u))
    BY DEF ReadUser, IInv, RequestOK
  <2> QED
    BY <2>1, CommonCells DEF GotOK
<1>3. id[t] = NoSession \/ id[t] \in Mine(u)
  BY DEF ReadUser, IInv, RequestOK, Mine, Cell
<1>4. MapOK(map, u)
  BY <1>2, <1>3, UpdatedMap DEF MapOK
<1> HIDE DEF map
<1>5. kv' = [kv EXCEPT ![t] = map] /\ kv'[t] = map
  BY DEF ReadUser, IInv, map
<1>6. TypeOK'
  <2>1. map \in [DOMAIN map -> Seq(Cell)]
    BY <1>4, SeqLarger, MineIsCell DEF MapOK
  <2>2. \A w \in Thread : kv'[w] \in [DOMAIN kv'[w] -> Seq(Cell)]
    BY <1>5, <2>1 DEF IInv, TypeOK
  <2>3. overlapped' \subseteq Account
    BY <1>2 DEF ReadUser, Meets, IInv, TypeOK
  <2> QED
    BY <1>2, <2>2, <2>3 DEF IInv, TypeOK, ReadUser, DropRead, GoTo, files
<1>7. HandleOK(t)' /\ RequestOK(t)' /\ GotOK(t)'
  <2>1. handle[t] = Closed /\ handle' = handle
    BY NotWriting DEF ReadUser, files
  <2>2. MapOK(kv[t], user[t])'
    BY <1>1, <1>4, <1>5 DEF MapOK, Mine, ReadUser
  <2> QED
    BY <1>1, <1>2, <2>1, <2>2 DEF HandleOK, RequestOK, GotOK, ReadUser, DropRead, GoTo, IInv,
       TypeOK, Closed
<1>8. kv' = [w \in Thread |-> kv'[w]]
  BY <1>5 DEF IInv
<1> QED
  BY <1>1, <1>5, <1>6, <1>7, <1>8, OneThread DEF ReadUser, DropRead, GoTo, files, IInv, TypeOK

\* The pieces still to be written are made of the map's cells.
LEMMA OpenUserStep ==
    ASSUME IInv, NEW t \in Thread, OpenUser(t)
    PROVE  IInv'
<1>0. PICK u \in Account : u = user[t]
  BY DEF OpenUser, IInv, RequestOK
<1>1. OwnersStay /\ owner' = owner
  BY DEF OwnersStay, OpenUser
<1>2. MapOK(kv[t], u) /\ NL \in Mine(u) /\ Sep \in Mine(u)
  BY <1>0, CommonCells DEF OpenUser, IInv, RequestOK
<1>3. PICK order \in SetToSeqs(DOMAIN kv[t]) : Open(t, u, Pieces(kv[t], order))
  BY <1>0 DEF OpenUser
<1> DEFINE pieces == Pieces(kv[t], order)
<1>4. pieces \in Seq(Seq(Mine(u)))
  BY <1>2, PiecesCells DEF MapOK
<1> HIDE DEF pieces
<1>5. /\ handle' = [handle EXCEPT ![t] = [file |-> u, pos |-> 0, pieces |-> pieces]]
      /\ text' = [text EXCEPT ![u] = <<>>]
  BY <1>3 DEF Open, pieces
<1>6. TypeOK'
  <2>1. pieces \in Seq(Seq(Cell))
    BY <1>4, SeqLarger, MineIsCell
  <2>2. \A w \in Thread : kv'[w] \in [DOMAIN kv'[w] -> Seq(Cell)]
    BY DEF IInv, TypeOK, OpenUser
  <2>3. shown' \in [Account -> SessionId \cup {NoSession}] /\ used' \subseteq SessionId
    BY ShowTyped DEF OpenUser, IInv
  <2>4. handle' \in [Thread -> [file : Account \cup {NoUser}, pos : Nat,
                              pieces : Seq(Seq(Cell))]]
    BY <1>5, <2>1 DEF IInv, TypeOK
  <2>5. text' \in [Account -> Seq(Cell)]
    BY <1>5 DEF IInv, TypeOK
  <2>6. last' \in [Account -> SessionId \cup {NoSession}]
    BY DEF IInv, TypeOK, OpenUser
  <2>7. pc' \in [Thread -> {"idle", "find", "lookup", "update", "open", "write"}]
    BY DEF IInv, TypeOK, OpenUser, GoTo
  <2> QED
    BY <2>2, <2>3, <2>4, <2>5, <2>6, <2>7 DEF IInv, TypeOK, OpenUser
<1>7. HandleOK(t)' /\ RequestOK(t)' /\ GotOK(t)'
  <2>1. handle'[t] = [file |-> u, pos |-> 0, pieces |-> pieces] /\ handle'[t] # Closed
    BY <1>5, TextFileAssumption DEF IInv, TypeOK, Closed, Account
  <2>2. pieces \in Seq(Seq(Mine(u)'))
    BY <1>1, <1>4 DEF Mine
  <2>3. pc'[t] = "write" /\ user'[t] = u /\ id' = id /\ kv'[t] = <<>> /\ hits'[t] = {}
    BY <1>0 DEF OpenUser, GoTo, IInv, TypeOK, RequestOK
  <2>4. HandleOK(t)'
    BY <2>1, <2>2, <2>3 DEF HandleOK
  <2>5. GotOK(t)'
    BY DEF IInv, GotOK, OpenUser
  <2> QED
    BY <1>0, <1>1, <2>1, <2>3, <2>4, <2>5 DEF RequestOK, OpenUser, IInv
<1>8. kv' = [w \in Thread |-> kv'[w]]
  BY DEF IInv, OpenUser
<1>9. \A v \in Account : text'[v] = text[v] \/ FileOK(v)'
  BY <1>5 DEF FileOK, IInv, TypeOK
<1> QED
  BY <1>1, <1>5, <1>6, <1>7, <1>8, <1>9, OneThread DEF OpenUser, GoTo, IInv, TypeOK

\* A piece goes to the file that it was meant for.
LEMMA WriteUserStep ==
    ASSUME IInv, NEW t \in Thread, WriteUser(t)
    PROVE  IInv'
<1>0. PICK u \in Account : u = user[t]
  BY DEF WriteUser, IInv, RequestOK
<1> DEFINE h == handle[t]
           piece == Head(h.pieces)
<1>1. OwnersStay /\ owner' = owner
  BY DEF OwnersStay, WriteUser
<1>2. /\ h \in [file : {u}, pos : Nat, pieces : Seq(Seq(Mine(u)))]
      /\ h.pieces # <<>>
  BY <1>0 DEF WriteUser, WritePiece, IInv, RequestOK, HandleOK
<1>3. piece \in Seq(Mine(u)) /\ Tail(h.pieces) \in Seq(Seq(Mine(u)))
  <2> HIDE DEF h
  <2>1. h.pieces \in Seq(Seq(Mine(u))) /\ h.pieces # <<>>
    BY <1>2
  <2> QED
    BY <2>1
<1>4. Over(text[u], h.pos, piece) \in Seq(Mine(u))
  <2>1. Hole \in Mine(u) /\ text[u] \in Seq(Mine(u))
    BY <1>2, CommonCells DEF IInv, FileOK
  <2> QED
    BY <1>2, <1>3, <2>1, OverCells
<1> DEFINE next == [file |-> u, pos |-> h.pos + Len(piece), pieces |-> Tail(h.pieces)]
<1>5. /\ text' = [text EXCEPT ![u] = Over(text[u], h.pos, piece)]
      /\ handle' = [handle EXCEPT ![t] = next]
  BY <1>2 DEF WriteUser, WritePiece
<1>6. next \in [file : {u}, pos : Nat, pieces : Seq(Seq(Mine(u)))]
  BY <1>2, <1>3
<1> HIDE DEF next, piece
<1>7. TypeOK'
  <2>1. /\ Over(text[u], h.pos, piece) \in Seq(Cell)
        /\ next \in [file : Account \cup {NoUser}, pos : Nat, pieces : Seq(Seq(Cell))]
    BY <1>2, <1>4, <1>6, SeqLarger, MineIsCell
  <2>2. shown' \in [Account -> SessionId \cup {NoSession}] /\ used' \subseteq SessionId
    BY ShowTyped DEF WriteUser, IInv
  <2> QED
    BY <1>5, <2>1, <2>2 DEF IInv, TypeOK, WriteUser, call
<1>8. HandleOK(t)' /\ RequestOK(t)' /\ GotOK(t)'
  <2>1. handle'[t] = next /\ next # Closed
    BY <1>2, <1>5, <1>6, TextFileAssumption DEF IInv, TypeOK, Closed, Account
  <2>2. next \in [file : {u}, pos : Nat, pieces : Seq(Seq(Mine(u)'))]
    BY <1>1, <1>6 DEF Mine
  <2>3. HandleOK(t)'
    BY <1>0, <2>1, <2>2 DEF HandleOK, WriteUser, call
  <2>4. GotOK(t)'
    BY DEF IInv, GotOK, WriteUser, call
  <2> QED
    BY <1>0, <1>1, <2>1, <2>3, <2>4 DEF RequestOK, WriteUser, call, IInv
<1>9. \A v \in Account : text'[v] = text[v] \/ FileOK(v)'
  <2>1. Over(text[u], h.pos, piece) \in Seq(Mine(u)')
    BY <1>1, <1>4 DEF Mine
  <2> QED
    BY <1>5, <2>1 DEF FileOK, IInv, TypeOK
<1> QED
  BY <1>1, <1>5, <1>7, <1>8, <1>9, OneThread DEF WriteUser, call, IInv, TypeOK

\* After a restart no id is in any hands, and files are as they were.
LEMMA RestartStep ==
    ASSUME IInv, Restart
    PROVE  IInv'
<1>1. OwnersStay /\ text' = text
  BY DEF OwnersStay, Restart, CloseAll
<1>2. Unfinished \subseteq Account
  <2> SUFFICES ASSUME NEW t \in Thread, handle[t].pieces # <<>>
               PROVE  handle[t].file \in Account
    BY DEF Unfinished
  <2> QED
    BY DEF IInv, HandleOK, RequestOK, GotOK, Closed
<1>3. TypeOK'
  BY <1>2, ClosedTyped DEF IInv, TypeOK, Restart, CloseAll, NoUser
<1>4. \A t \in Thread : HandleOK(t)' /\ RequestOK(t)' /\ GotOK(t)'
  BY DEF HandleOK, RequestOK, GotOK, Restart, CloseAll, Closed
<1>5. kv' = [t \in Thread |-> kv'[t]]
  BY DEF Restart
<1>6. \A u \in Account : FileOK(u)'
  BY <1>1, FileStays DEF IInv
<1> QED
  BY <1>3, <1>4, <1>5, <1>6 DEF IInv

\* What does not move keeps the invariant.
LEMMA StutterStep ==
    ASSUME IInv, UNCHANGED vars
    PROVE  IInv'
<1>1. UNCHANGED <<text, handle, got, pc, user, id, kv, rest, hits, gone, updates, owner,
                  shown, used, last, overlapped, cut>>
  BY DEF vars, files, call, ghosts
<1>2. TypeOK'
  BY <1>1 DEF IInv, TypeOK
<1>3. \A u \in Account : FileOK(u)'
  BY <1>1 DEF IInv, FileOK, Mine
<1>4. \A t \in Thread : HandleOK(t)' /\ RequestOK(t)' /\ GotOK(t)'
  BY <1>1 DEF IInv, HandleOK, RequestOK, GotOK, MapOK, Mine
<1> QED
  BY <1>1, <1>2, <1>3, <1>4 DEF IInv

\* The files of new users have no ids.
LEMMA InitInv == Init => IInv
<1> SUFFICES ASSUME Init PROVE IInv
  OBVIOUS
<1> DEFINE first == <<PwHash, Sep>> \o Hash \o <<NL>>
<1>1. \A u \in Account : first \in Seq(Mine(u))
  <2> SUFFICES ASSUME NEW u \in Account PROVE first \in Seq(Mine(u))
    OBVIOUS
  <2>1. PwHash \in Mine(u) /\ Sep \in Mine(u) /\ NL \in Mine(u)
    BY CommonCells
  <2>2. Range(Hash) \subseteq Mine(u)
    BY CommonCells
  <2>3. Hash \in Seq(Range(Hash))
    BY CredsAssumption
  <2>4. Hash \in Seq(Mine(u))
    BY <2>2, <2>3, SeqLarger
  <2>5. <<PwHash, Sep>> \in Seq(Mine(u)) /\ <<NL>> \in Seq(Mine(u))
    BY <2>1
  <2> QED
    BY <2>4, <2>5
<1> HIDE DEF first
<1>2. /\ text = [u \in Account |-> first] /\ handle = [t \in Thread |-> Closed]
      /\ got = [t \in Thread |-> <<>>]
  BY DEF Init, InitFiles, first
<1>3. TypeOK
  <2>1. \A u \in Account : first \in Seq(Cell)
    BY <1>1, SeqLarger, MineIsCell
  <2> QED
    BY <1>2, <2>1, ClosedTyped, CredsAssumption DEF Init, TypeOK, NoUser
<1>4. \A u \in Account : FileOK(u)
  BY <1>1, <1>2 DEF FileOK
<1>5. \A t \in Thread : HandleOK(t) /\ RequestOK(t) /\ GotOK(t)
  BY <1>2 DEF HandleOK, RequestOK, GotOK, Init
<1> QED
  BY <1>3, <1>4, <1>5 DEF IInv, Init

\* Every step keeps the invariant.
LEMMA NextInv == IInv /\ [Next]_vars => IInv'
<1> SUFFICES ASSUME IInv, [Next]_vars PROVE IInv'
  OBVIOUS
<1>1. ASSUME NEW t \in Thread, Login(t) PROVE IInv'
  BY <1>1, LoginStep
<1>2. ASSUME NEW t \in Thread,
             Logout(t) \/ LogoutAfterLogin(t) \/ LogoutByPassword(t)
      PROVE  IInv'
  BY <1>2, LogoutStep
<1>3. ASSUME NEW t \in Thread, NEW s \in SessionId, Lookup(t, s) PROVE IInv'
  BY <1>3, LookupStep
<1>4. ASSUME NEW t \in Thread, LookupNext(t) PROVE IInv'
  BY <1>4, LookupNextStep
<1>11. ASSUME NEW t \in Thread,
              LookupRead(t) \/ UpdateRead(t) \/ \E u \in Account : FindRead(t, u)
       PROVE  IInv'
  BY <1>11, ReadingStep
<1>5. ASSUME NEW t \in Thread,
             \/ FindEnd(t) \/ LookupEnd(t) \/ ReadUserFails(t) \/ CloseUser(t)
           \/ CallFails(t) \/ WriteFails(t)
      PROVE  IInv'
  BY <1>5, EndStep
<1>6. ASSUME NEW t \in Thread, ReadUser(t) PROVE IInv'
  BY <1>6, ReadUserStep
<1>7. ASSUME NEW t \in Thread, OpenUser(t) PROVE IInv'
  BY <1>7, OpenUserStep
<1>8. ASSUME NEW t \in Thread, WriteUser(t) PROVE IInv'
  BY <1>8, WriteUserStep
<1>9. CASE Restart
  BY <1>9, RestartStep
<1>10. CASE UNCHANGED vars
  BY <1>10, StutterStep
<1> QED
  BY <1>1, <1>2, <1>3, <1>4, <1>5, <1>6, <1>7, <1>8, <1>9, <1>10, <1>11 DEF Next

\* The invariant holds, for any users, threads, ids, hash and bound.
THEOREM Invariant == Spec => []IInv
BY InitInv, NextInv, PTL DEF Spec

\* Every variable has its type: files, and what is to be written to them, stay
\* sequences of cells however the writers interleave, fail and stop.
THEOREM TypeCorrect == Spec => []TypeOK
<1>1. IInv => TypeOK
  BY DEF IInv
<1> QED
  BY <1>1, Invariant, PTL

\* users_with_session finds nobody but the user that the id was drawn for, however
\* many updates of a file overlap, are cut short, or go on while it reads.
THEOREM OwnerFound == Spec => []LookupFindsOwner
<1>1. IInv => LookupFindsOwner
  BY DEF IInv, RequestOK, LookupFindsOwner, TypeOK
<1> QED
  BY <1>1, Invariant, PTL
=============================================================================
