----------------------------- MODULE CredsLines -----------------------------
(***************************************************************************)
(* Proofs about CredsFile: unless two updates of a user have overlapped,   *)
(* what its file holds is the beginning of the lines that the last update  *)
(* was to write, so it shows the old session, none, or the new one; and    *)
(* what is read of it, at several times, has no session that was revoked   *)
(* before.                                                                 *)
(*                                                                         *)
(* CredsProofs says what cells may be in a file; here their order matters. *)
(* A file is described by the lines that are being written to it and by    *)
(* the number of pieces that already are.  The first part follows kv::read *)
(* and kv::write over such a text, and knows no state; the second part is  *)
(* an invariant, with a step for each action.                              *)
(***************************************************************************)
EXTENDS CredsProofs

\* The cells of values: no separators, no ends of lines.
Body == Range(Hash) \cup SessionId

\* Find returns the first place that there is.
LEMMA FindIs ==
    ASSUME NEW S, NEW cells \in Seq(S), NEW cell, NEW i \in DOMAIN cells,
           NEW j \in i .. Len(cells) + 1, j <= Len(cells) => cells[j] = cell,
           \A m \in i .. j - 1 : cells[m] # cell
    PROVE  Find(cells, cell, i) = j
<1> DEFINE P == {m \in i .. Len(cells) : cells[m] = cell} \cup {Len(cells) + 1}
<1>1. P \in SUBSET Nat /\ j \in P /\ \A m \in P : m >= j
  OBVIOUS
<1>2. Min(P) \in P /\ \A m \in P : Min(P) <= m
  BY <1>1, NatMin
<1>3. Min(P) = j
  BY <1>1, <1>2
<1> QED
  BY <1>3 DEF Find

\* What values and keys are made of is neither a separator nor the end of a line.
LEMMA BodyCells ==
    /\ Body \subseteq Cell /\ NL \notin Body /\ Sep \notin Body
    /\ {PwHash, Id, NL, Sep} \subseteq Cell
    /\ \A k \in {PwHash, Id} : k # NL /\ k # Sep
    /\ NL # Sep
BY CredsAssumption DEF Body, Cell

\* A line begins at i, with a key of one cell and a value of n cells.
LineIsAt(cells, i, n) ==
    /\ i + 1 + n <= Len(cells)
    /\ cells[i] # Sep /\ cells[i + 1] = Sep
    /\ \A m \in i .. i + 1 + n : cells[m] # NL
    /\ i + 2 + n <= Len(cells) => cells[i + 2 + n] = NL

\* Its separator and its end are found.
LEMMA LineAt ==
    ASSUME NEW S, NEW cells \in Seq(S), NEW i \in DOMAIN cells, NEW n \in Nat,
           LineIsAt(cells, i, n)
    PROVE  /\ Find(cells, Sep, i) = i + 1
           /\ Find(cells, NL, i) = i + 2 + n
<1>0. i \in Nat /\ i + 1 + n <= Len(cells)
  <2>1. i \in Nat
    OBVIOUS
  <2> QED
    BY <2>1 DEF LineIsAt
<1>1. Find(cells, Sep, i) = i + 1
  <2>1. i + 1 \in i .. Len(cells) + 1 
    BY <1>0
  <2>2. \A m \in i .. (i + 1) - 1 : cells[m] # Sep
    BY <1>0 DEF LineIsAt
  <2>3. cells[i + 1] = Sep
    BY DEF LineIsAt
  <2> QED
    BY <2>1, <2>2, <2>3, FindIs
<1>2. Find(cells, NL, i) = i + 2 + n
  <2>1. i + 2 + n \in i .. Len(cells) + 1
    BY <1>0
  <2>2. (i + 2 + n) - 1 = i + 1 + n
    BY <1>0
  <2>3. \A m \in i .. (i + 2 + n) - 1 : cells[m] # NL
    BY <2>2 DEF LineIsAt
  <2>4. i + 2 + n <= Len(cells) => cells[i + 2 + n] = NL
    BY DEF LineIsAt
  <2> QED
    BY <2>1, <2>3, <2>4, FindIs
<1> QED
  BY <1>1, <1>2

\* The cells of a line with a key, a value, and an end or none.
Row(k, v, end) == <<k, Sep>> \o v \o end

\* What that is, cell by cell.
RowIs(row, k, v, end) ==
    /\ row \in Seq(Cell) /\ Len(row) = 2 + Len(v) + Len(end)
    /\ row[1] = k /\ row[2] = Sep
    /\ \A m \in 1 .. Len(v) : row[2 + m] = v[m]
    /\ end = <<NL>> => row[3 + Len(v)] = NL
    /\ \A m \in 1 .. 2 + Len(v) : row[m] # NL

\* The cells of a line, one by one.
LEMMA RowCells ==
    ASSUME NEW k \in {PwHash, Id}, NEW v \in Seq(Body), NEW end \in {<<>>, <<NL>>}
    PROVE  RowIs(Row(k, v, end), k, v, end)
<1>0. v \in Seq(Cell)
  BY BodyCells, SeqLarger
<1>1. k \in Cell /\ Sep \in Cell /\ NL \in Cell
  BY BodyCells
<1>2. Row(k, v, end) \in Seq(Cell) /\ Len(Row(k, v, end)) = 2 + Len(v) + Len(end)
  <2>1. end \in Seq(Cell)
    <3>1. <<>> \in Seq(Cell) /\ <<NL>> \in Seq(Cell)
      BY <1>1
    <3> QED
      BY <3>1
  <2>2. <<k, Sep>> \in Seq(Cell) /\ Len(<<k, Sep>>) = 2
    BY <1>1
  <2>3. <<k, Sep>> \o v \in Seq(Cell) /\ Len(<<k, Sep>> \o v) = 2 + Len(v)
    BY <1>0, <2>2
  <2> QED
    BY <2>1, <2>3 DEF Row
<1>3. Row(k, v, end)[1] = k /\ Row(k, v, end)[2] = Sep
  BY <1>0, <1>1 DEF Row
<1>4. \A m \in 1 .. Len(v) : Row(k, v, end)[2 + m] = v[m]
  BY <1>0, <1>1 DEF Row
<1>5. end = <<NL>> => Row(k, v, end)[3 + Len(v)] = NL
  BY <1>0, <1>1 DEF Row
<1>6. ASSUME NEW m \in 1 .. 2 + Len(v) PROVE Row(k, v, end)[m] # NL
  <2>0. Len(v) \in Nat
    OBVIOUS
  <2>1. CASE m = 1 \/ m = 2
    BY <1>3, <2>1, BodyCells
  <2>2. CASE m > 2
    <3>1. m - 2 \in 1 .. Len(v) /\ 2 + (m - 2) = m
      BY <2>0, <2>2
    <3>2. Row(k, v, end)[m] = v[m - 2]
      BY <1>4, <3>1
    <3>3. v[m - 2] \in Body
      BY <3>1
    <3> QED
      BY <3>2, <3>3, BodyCells
  <2> QED
    BY <2>0, <2>1, <2>2
<1> QED
  BY <1>2, <1>3, <1>4, <1>5, <1>6 DEF RowIs

\* A file of one line has the key and the value of the line.
LEMMA OneLine ==
    ASSUME NEW k \in {PwHash, Id}, NEW v \in Seq(Body), NEW end \in {<<>>, <<NL>>}
    PROVE  /\ CanRead(Row(k, v, end))
           /\ Entries(Row(k, v, end)) = {[line |-> 1, key |-> <<k>>, value |-> v]}
<1>1. PICK row : row = Row(k, v, end)
  OBVIOUS
<1>2. row \in Seq(Cell) /\ RowIs(row, k, v, end)
  <2>1. RowIs(row, k, v, end)
    BY <1>1, RowCells
  <2> QED
    BY <2>1 DEF RowIs
<1>3. PICK n \in Nat : n = Len(v)
  OBVIOUS
<1>4. PICK N \in Nat : N = Len(row)
  BY <1>2
<1>5. N = 2 + n \/ (N = 3 + n /\ row[3 + n] = NL)
  <2>1. CASE end = <<>>
    BY <1>2, <1>3, <1>4, <2>1 DEF RowIs
  <2>2. CASE end = <<NL>>
    BY <1>2, <1>3, <1>4, <2>2 DEF RowIs
  <2> QED
    BY <2>1, <2>2
<1>6. 1 \in DOMAIN row /\ DOMAIN row = 1 .. N
  BY <1>2, <1>4, <1>5
<1>7. LineStarts(row) = {1}
  <2>1. \A m \in 1 .. 2 + n : row[m] # NL
    BY <1>2, <1>3 DEF RowIs
  <2> QED
    BY <1>5, <1>6, <2>1 DEF LineStarts
<1>8. Find(row, Sep, 1) = 2 /\ Find(row, NL, 1) = 3 + n
  <2>1. LineIsAt(row, 1, n)
    BY <1>2, <1>3, <1>4, <1>5, BodyCells DEF LineIsAt, RowIs
  <2>2. Find(row, Sep, 1) = 1 + 1 /\ Find(row, NL, 1) = 1 + 2 + n
    BY <1>2, <1>6, <2>1, LineAt
  <2> QED
    BY <2>2
<1>9. SubSeq(row, 1, 1) = <<k>> /\ SubSeq(row, 3, 2 + n) = v
  <2>1. k \in Cell /\ v \in Seq(Cell) /\ <<k>> \in Seq(Cell)
    BY BodyCells, SeqLarger
  <2>2. SubSeq(row, 2 + 1, 2 + Len(v)) = v
    BY <1>2, <1>3, <1>4, <1>5, <2>1, SubSeqIs DEF RowIs
  <2>3. row[1] = k
    BY <1>2 DEF RowIs
  <2>4. SubSeq(row, 1, 1) = <<k>>
    BY <1>2, <1>6, <2>3, SubSeqOne
  <2> QED
    BY <1>3, <2>2, <2>4
<1>10. CanRead(row)
  BY <1>7, <1>8 DEF CanRead
<1>11. Entries(row) = {[line |-> 1, key |-> <<k>>, value |-> v]}
  <2>1. 2 - 1 = 1 /\ 2 + 1 = 3 /\ (3 + n) - 1 = 2 + n
    OBVIOUS
  <2> QED
    BY <1>7, <1>8, <1>9, <2>1 DEF Entries
<1> QED
  BY <1>1, <1>10, <1>11

\* A file of a key alone cannot be read: the separator is missing.
LEMMA KeyOnly ==
    ASSUME NEW k \in {PwHash, Id}
    PROVE  ~CanRead(<<k>>)
<1>1. PICK row : row = <<k>>
  OBVIOUS
<1>2. row \in Seq(Cell) /\ Len(row) = 1 /\ row[1] = k
  BY <1>1, BodyCells
<1>3. 1 \in DOMAIN row /\ 1 \in LineStarts(row)
  BY <1>2 DEF LineStarts
<1>4. \A m \in 1 .. 2 - 1 : row[m] # Sep /\ row[m] # NL
  BY <1>2, BodyCells
<1>5. 2 \in 1 .. Len(row) + 1 /\ ~(2 <= Len(row))
  BY <1>2
<1>6. Find(row, Sep, 1) = 2
  BY <1>2, <1>3, <1>4, <1>5, FindIs
<1>7. Find(row, NL, 1) = 2
  BY <1>2, <1>3, <1>4, <1>5, FindIs
<1> QED
  BY <1>1, <1>3, <1>6, <1>7 DEF CanRead

\* What a text of a first line and a part of a second one is like.
FirstLine(t, k, v, r) ==
    LET n == Len(v)
    IN  /\ t \in Seq(Cell) /\ Len(t) = 3 + n + Len(r)
        /\ t[1] = k /\ t[2] = Sep /\ t[3 + n] = NL
        /\ \A m \in 1 .. n : t[2 + m] = v[m]
        /\ \A m \in 1 .. 2 + n : t[m] # NL
        /\ \A m \in 1 .. Len(r) : t[3 + n + m] = r[m]

\* The cells of a line and of what follows it.
LEMMA FirstLineCells ==
    ASSUME NEW k \in {PwHash, Id}, NEW v \in Seq(Body), NEW r \in Seq(Cell)
    PROVE  FirstLine(Row(k, v, <<NL>>) \o r, k, v, r)
<1>1. PICK a : a = Row(k, v, <<NL>>)
  OBVIOUS
<1>2. PICK n \in Nat : n = Len(v)
  OBVIOUS
<1>3. RowIs(a, k, v, <<NL>>)
  BY <1>1, RowCells
<1>4. a \in Seq(Cell) /\ Len(a) = 3 + n
  BY <1>2, <1>3 DEF RowIs
<1>5. PICK t : t = a \o r
  OBVIOUS
<1>6. /\ t \in Seq(Cell) /\ Len(t) = 3 + n + Len(r)
      /\ \A m \in 1 .. 3 + n : t[m] = a[m]
      /\ \A m \in 1 .. Len(r) : t[3 + n + m] = r[m]
  <2>1. a \o r \in Seq(Cell) /\ Len(a \o r) = Len(a) + Len(r)
    BY <1>4, Concatenation
  <2>2. \A m \in 1 .. Len(a) : (a \o r)[m] = a[m]
    BY <1>4, Concatenation
  <2>3. \A m \in 1 .. Len(r) : (a \o r)[Len(a) + m] = r[m]
    BY <1>4, Concatenation
  <2> QED
    BY <1>4, <1>5, <2>1, <2>2, <2>3
<1>7. t[1] = a[1] /\ t[2] = a[2] /\ t[3 + n] = a[3 + n]
  BY <1>2, <1>6
<1>8. FirstLine(t, k, v, r)
  <2>1. /\ a[1] = k /\ a[2] = Sep /\ a[3 + n] = NL
        /\ \A m \in 1 .. n : a[2 + m] = v[m]
        /\ \A m \in 1 .. 2 + n : a[m] # NL
    BY <1>2, <1>3 DEF RowIs
  <2>2. ASSUME NEW m \in 1 .. n PROVE t[2 + m] = v[m]
    <3>1. 2 + m \in 1 .. 3 + n
      OBVIOUS
    <3> QED
      BY <1>6, <2>1, <3>1
  <2>3. ASSUME NEW m \in 1 .. 2 + n PROVE t[m] # NL
    <3>1. m \in 1 .. 3 + n
      OBVIOUS
    <3> QED
      BY <1>6, <2>1, <3>1
  <2> QED
    BY <1>2, <1>6, <1>7, <2>1, <2>2, <2>3 DEF FirstLine
<1> QED
  BY <1>1, <1>5, <1>8

\* The first line is found.
LEMMA FirstFound ==
    ASSUME NEW k \in {PwHash, Id}, NEW v \in Seq(Body), NEW r \in Seq(Cell), NEW t,
           FirstLine(t, k, v, r)
    PROVE  /\ 1 \in LineStarts(t)
           /\ Find(t, Sep, 1) = 2 /\ Find(t, NL, 1) = 3 + Len(v)
           /\ SubSeq(t, 1, 1) = <<k>> /\ SubSeq(t, 3, 2 + Len(v)) = v
<1>1. PICK n \in Nat : n = Len(v)
  OBVIOUS
<1>2. PICK N \in Nat : N = Len(r)
  OBVIOUS
<1>3. t \in Seq(Cell) /\ Len(t) = 3 + n + N
  BY <1>1, <1>2 DEF FirstLine
<1>4. 1 \in DOMAIN t
  BY <1>3
<1>5. 1 \in LineStarts(t)
  BY <1>4 DEF LineStarts
<1>6. LineIsAt(t, 1, n)
  BY <1>1, <1>2, <1>3, BodyCells DEF LineIsAt, FirstLine
<1>7. Find(t, Sep, 1) = 1 + 1 /\ Find(t, NL, 1) = 1 + 2 + n
  BY <1>3, <1>4, <1>6, LineAt
<1>8. SubSeq(t, 1, 1) = <<k>>
  <2>1. t[1] = k
    BY DEF FirstLine
  <2> QED
    BY <1>3, <1>4, <2>1, SubSeqOne
<1>9. SubSeq(t, 2 + 1, 2 + Len(v)) = v
  <2>1. v \in Seq(Cell)
    BY BodyCells, SeqLarger
  <2>2. \A m \in 1 .. Len(v) : t[2 + m] = v[m]
    BY DEF FirstLine
  <2>3. 2 + Len(v) <= Len(t)
    BY <1>1, <1>2, <1>3
  <2> QED
    BY <1>3, <2>1, <2>2, <2>3, SubSeqIs
<1> QED
  BY <1>1, <1>5, <1>7, <1>8, <1>9

\* Nor can one of a line, and a key alone.
LEMMA KeyAfterLine ==
    ASSUME NEW k \in {PwHash, Id}, NEW v \in Seq(Body), NEW l \in {PwHash, Id}
    PROVE  ~CanRead(Row(k, v, <<NL>>) \o <<l>>)
<1>1. PICK t : t = Row(k, v, <<NL>>) \o <<l>>
  OBVIOUS
<1>2. PICK n \in Nat : n = Len(v)
  OBVIOUS
<1>3. PICK r \in Seq(Cell) : r = <<l>> /\ Len(r) = 1 /\ r[1] = l
  <2>1. l \in Cell
    BY BodyCells
  <2>2. <<l>> \in Seq(Cell) /\ Len(<<l>>) = 1 /\ <<l>>[1] = l
    BY <2>1
  <2> QED
    BY <2>2, Zenon
<1>4. FirstLine(t, k, v, r)
  BY <1>1, <1>3, FirstLineCells
<1>5. t \in Seq(Cell) /\ Len(t) = 4 + n /\ t[3 + n] = NL /\ t[4 + n] = l
  BY <1>2, <1>3, <1>4 DEF FirstLine
<1>6. 4 + n \in DOMAIN t /\ 4 + n \in LineStarts(t)
  BY <1>5 DEF LineStarts
<1>7. \A m \in 4 + n .. (5 + n) - 1 : t[m] # Sep /\ t[m] # NL
  <2>1. \A m \in 4 + n .. (5 + n) - 1 : m = 4 + n
    OBVIOUS
  <2> QED
    BY <1>5, <2>1, BodyCells
<1>8. 5 + n \in 4 + n .. Len(t) + 1 /\ ~(5 + n <= Len(t))
  BY <1>5
<1>9. Find(t, Sep, 4 + n) = 5 + n
  BY <1>5, <1>6, <1>7, <1>8, FindIs
<1>10. Find(t, NL, 4 + n) = 5 + n
  BY <1>5, <1>6, <1>7, <1>8, FindIs
<1>11. ~CanRead(t)
  BY <1>6, <1>9, <1>10 DEF CanRead
<1> QED
  BY <1>1, <1>11

\* A file of two lines, the second with or without an end, has the keys and the
\* values of both.
LEMMA TwoLines ==
    ASSUME NEW k \in {PwHash, Id}, NEW v \in Seq(Body),
           NEW l \in {PwHash, Id}, NEW w \in Seq(Body), NEW end \in {<<>>, <<NL>>},
           NEW r, NEW t, RowIs(r, l, w, end), FirstLine(t, k, v, r)
    PROVE  /\ CanRead(t)
           /\ Entries(t) = {[line |-> 1, key |-> <<k>>, value |-> v],
                            [line |-> 4 + Len(v), key |-> <<l>>, value |-> w]}
<1>3. PICK n \in Nat : n = Len(v)
  OBVIOUS
<1>4. PICK m \in Nat : m = Len(w)
  OBVIOUS
<1>5. RowIs(r, l, w, end) /\ FirstLine(t, k, v, r)
  OBVIOUS
<1>6. r \in Seq(Cell)
  BY <1>5 DEF RowIs
<1>7. FirstLine(t, k, v, r)
  BY <1>5
<1>8. PICK N \in Nat : N = Len(r)
  BY <1>6
<1>9. N = 2 + m \/ (N = 3 + m /\ r[3 + m] = NL)
  <2>1. CASE end = <<>>
    BY <1>4, <1>5, <1>8, <2>1 DEF RowIs
  <2>2. CASE end = <<NL>>
    BY <1>4, <1>5, <1>8, <2>2 DEF RowIs
  <2> QED
    BY <2>1, <2>2
<1>10. t \in Seq(Cell) /\ Len(t) = 3 + n + N
  BY <1>3, <1>7, <1>8 DEF FirstLine
<1>11. \A j \in 1 .. N : t[3 + n + j] = r[j]
  BY <1>3, <1>7, <1>8 DEF FirstLine
<1>12. t[3 + n] = NL /\ \A j \in 1 .. 2 + n : t[j] # NL
  BY <1>3, <1>7 DEF FirstLine
<1>13. \A j \in 4 + n .. 5 + n + m : t[j] # NL
  <2> SUFFICES ASSUME NEW j \in 4 + n .. 5 + n + m PROVE t[j] # NL
    OBVIOUS
  <2>1. j - (3 + n) \in 1 .. 2 + m /\ j = 3 + n + (j - (3 + n))
    OBVIOUS
  <2>2. r[j - (3 + n)] # NL
    BY <1>4, <1>5, <2>1 DEF RowIs
  <2>3. j - (3 + n) \in 1 .. N
    BY <1>9, <2>1
  <2> QED
    BY <1>11, <2>1, <2>2, <2>3
<1>14. LineStarts(t) = {1, 4 + n}
  <2>1. ASSUME NEW i \in DOMAIN t, i # 1, i # 4 + n PROVE t[i - 1] # NL
    <3>1. i - 1 \in 1 .. 5 + n + m /\ i - 1 # 3 + n
      BY <1>9, <1>10, <2>1
    <3>2. i - 1 \in 1 .. 2 + n \/ i - 1 \in 4 + n .. 5 + n + m
      BY <3>1
    <3> QED
      BY <1>12, <1>13, <3>2
  <2>2. {1, 4 + n} \subseteq DOMAIN t /\ t[(4 + n) - 1] = NL
    BY <1>9, <1>10, <1>12
  <2> QED
    BY <2>1, <2>2 DEF LineStarts
<1>15. LineIsAt(t, 4 + n, m)
  <2>1. r[1] = l /\ r[2] = Sep
    BY <1>5 DEF RowIs
  <2>2. t[4 + n] = l /\ t[(4 + n) + 1] = Sep
    <3>1. t[3 + n + 1] = r[1] /\ t[3 + n + 2] = r[2]
      BY <1>9, <1>11
    <3> QED
      BY <2>1, <3>1
  <2>3. (4 + n) + 2 + m <= Len(t) => t[(4 + n) + 2 + m] = NL
    <3> SUFFICES ASSUME (4 + n) + 2 + m <= Len(t) PROVE t[(4 + n) + 2 + m] = NL
      OBVIOUS
    <3>1. N = 3 + m /\ r[3 + m] = NL /\ 3 + m \in 1 .. N
      BY <1>9, <1>10
    <3>2. t[3 + n + (3 + m)] = r[3 + m]
      BY <1>11, <3>1
    <3>3. (4 + n) + 2 + m = 3 + n + (3 + m)
      OBVIOUS
    <3> QED
      BY <3>1, <3>2, <3>3
  <2>4. (4 + n) + 1 + m = 5 + n + m
    OBVIOUS
  <2> QED
    BY <1>9, <1>10, <1>13, <2>2, <2>3, <2>4, BodyCells DEF LineIsAt
<1>16. 4 + n \in DOMAIN t
  BY <1>9, <1>10
<1>17. Find(t, Sep, 4 + n) = (4 + n) + 1 /\ Find(t, NL, 4 + n) = (4 + n) + 2 + m
  BY <1>10, <1>15, <1>16, LineAt
<1>18. SubSeq(t, 4 + n, 4 + n) = <<l>>
  <2>1. r[1] = l /\ t[3 + n + 1] = r[1] /\ 3 + n + 1 = 4 + n
    BY <1>5, <1>9, <1>11 DEF RowIs
  <2> QED
    BY <1>10, <1>16, <2>1, SubSeqOne
<1>19. SubSeq(t, 6 + n, 5 + n + m) = w
  <2>1. w \in Seq(Cell)
    BY BodyCells, SeqLarger
  <2>2. \A j \in 1 .. Len(w) : t[(5 + n) + j] = w[j]
    <3> SUFFICES ASSUME NEW j \in 1 .. Len(w) PROVE t[(5 + n) + j] = w[j]
      OBVIOUS
    <3>1. r[2 + j] = w[j]
      BY <1>5 DEF RowIs
    <3>2. 2 + j \in 1 .. N /\ (5 + n) + j = 3 + n + (2 + j)
      BY <1>4, <1>9
    <3> QED
      BY <1>11, <3>1, <3>2
  <2>3. (5 + n) + Len(w) <= Len(t) /\ 5 + n \in Nat
    BY <1>4, <1>9, <1>10
  <2>4. SubSeq(t, (5 + n) + 1, (5 + n) + Len(w)) = w
    BY <1>10, <2>1, <2>2, <2>3, SubSeqIs
  <2> QED
    BY <1>4, <2>4
<1>20. /\ Find(t, Sep, 1) = 2 /\ Find(t, NL, 1) = 3 + n
       /\ SubSeq(t, 1, 1) = <<k>> /\ SubSeq(t, 3, 2 + n) = v
  BY <1>3, <1>6, <1>7, FirstFound
<1>21. CanRead(t)
  BY <1>14, <1>17, <1>20 DEF CanRead
<1>22. Entries(t) = {[line |-> 1, key |-> <<k>>, value |-> v],
                     [line |-> 4 + n, key |-> <<l>>, value |-> w]}
  <2>1. /\ 2 - 1 = 1 /\ 2 + 1 = 3 /\ (3 + n) - 1 = 2 + n
        /\ ((4 + n) + 1) - 1 = 4 + n /\ ((4 + n) + 1) + 1 = 6 + n
        /\ ((4 + n) + 2 + m) - 1 = 5 + n + m
    OBVIOUS
  <2>2. Entries(t) =
          {[line |-> i,
            key |-> SubSeq(t, i, Find(t, Sep, i) - 1),
            value |-> SubSeq(t, Find(t, Sep, i) + 1, Find(t, NL, i) - 1)] : i \in {1, 4 + n}}
    BY <1>14 DEF Entries
  <2>3. /\ SubSeq(t, 1, Find(t, Sep, 1) - 1) = <<k>>
        /\ SubSeq(t, Find(t, Sep, 1) + 1, Find(t, NL, 1) - 1) = v
    BY <1>20, <2>1
  <2>4. /\ SubSeq(t, 4 + n, Find(t, Sep, 4 + n) - 1) = <<l>>
        /\ SubSeq(t, Find(t, Sep, 4 + n) + 1, Find(t, NL, 4 + n) - 1) = w
    BY <1>17, <1>18, <1>19, <2>1
  <2> QED
    BY <2>2, <2>3, <2>4
<1> QED
  BY <1>3, <1>21, <1>22

-----------------------------------------------------------------------------
\* Rewritings that nothing overlaps

\* A file has a line for each key, or fewer.
LineOf == [key : {PwHash, Id}, value : Seq(Body)]

\* Each key has one line.
IsLines(ls) ==
    /\ ls \in Seq(LineOf)
    /\ Len(ls) <= 2
    /\ Len(ls) = 2 => ls[1].key # ls[2].key

\* The n-th piece of the text of lines, the first m pieces of one line, and the
\* first n of all.
PieceAt(ls, n) ==
    LET l == ls[(n + 2) \div 3]
    IN  CASE n % 3 = 1 -> <<l.key>>
          [] n % 3 = 2 -> <<Sep>>
          [] n % 3 = 0 -> Append(l.value, NL)

Start(l, m) ==
    CASE m = 1 -> <<l.key>>
      [] m = 2 -> Row(l.key, <<>>, <<>>)
      [] m = 3 -> Row(l.key, l.value, <<NL>>)

TextAt(ls, n) ==
    IF n = 0 THEN <<>>
    ELSE IF n <= 3 THEN Start(ls[1], n)
    ELSE Start(ls[1], 3) \o Start(ls[2], n - 3)

RestOf(ls, n) == [i \in 1 .. 3 * Len(ls) - n |-> PieceAt(ls, n + i)]

\* The lines of which there is a separator, and the value that they have by then.
Begun(ls, n) == {i \in DOMAIN ls : 3 * i - 1 <= n}
ValueAt(ls, n, i) == IF 3 * i <= n THEN ls[i].value ELSE <<>>

\* What a reader makes of the lines.
ReadsAs(t, ls, n) ==
    /\ CanRead(t)
    /\ {e.key : e \in Entries(t)} = {<<ls[i].key>> : i \in Begun(ls, n)}
    /\ \A k, v : Maps(t, k, v) <=>
            \E i \in Begun(ls, n) : k = <<ls[i].key>> /\ v = ValueAt(ls, n, i)

\* An empty file has no keys.
LEMMA NoEntry ==
    CanRead(<<>>) /\ Entries(<<>>) = {}
<1>1. LineStarts(<<>>) = {}
  BY DEF LineStarts
<1> QED
  BY <1>1 DEF CanRead, Entries

\* One line maps its key to its value.
LEMMA MapsOne ==
    ASSUME NEW t, NEW a, NEW v, Entries(t) = {[line |-> 1, key |-> a, value |-> v]}
    PROVE  \A k, w : Maps(t, k, w) <=> k = a /\ w = v
BY DEF Maps

\* What is read of a file that is being written, after each of its pieces.
LEMMA LinesRead ==
    ASSUME NEW ls, IsLines(ls), NEW n \in 0 .. 3 * Len(ls)
    PROVE  IF n % 3 = 1 THEN ~CanRead(TextAt(ls, n)) ELSE ReadsAs(TextAt(ls, n), ls, n)
<1>1. Len(ls) \in {0, 1, 2} /\ DOMAIN ls = 1 .. Len(ls)
  <2>1. Len(ls) \in Nat /\ DOMAIN ls = 1 .. Len(ls)
    BY DEF IsLines
  <2>2. Len(ls) <= 2
    BY DEF IsLines
  <2> QED
    BY <2>1, <2>2
<1>2. n \in 0 .. 6 /\ (n > 0 => Len(ls) > 0) /\ (n > 3 => Len(ls) = 2)
  BY <1>1
<1>3. <<>> \in Seq(Body)
  OBVIOUS
<1>4. CASE n = 0
  <2>1. Begun(ls, n) = {}
    BY <1>1, <1>4 DEF Begun
  <2>2. TextAt(ls, n) = <<>>
    BY <1>4 DEF TextAt
  <2>3. \A k, v : ~Maps(<<>>, k, v)
    BY NoEntry DEF Maps
  <2> QED
    BY <1>4, <2>1, <2>2, <2>3, NoEntry DEF ReadsAs
<1>5. ASSUME n > 0
      PROVE  \E k \in {PwHash, Id}, x \in Seq(Body) : ls[1].key = k /\ ls[1].value = x
  <2>1. ls[1] \in LineOf
    BY <1>1, <1>2, <1>5 DEF IsLines
  <2> QED
    BY <2>1 DEF LineOf
<1>6. ASSUME n > 3
      PROVE  /\ \E l \in {PwHash, Id}, w \in Seq(Body) : ls[2].key = l /\ ls[2].value = w
             /\ ls[1].key # ls[2].key
  <2>1. ls[2] \in LineOf
    BY <1>1, <1>2, <1>6 DEF IsLines
  <2>2. ls[1].key # ls[2].key
    BY <1>2, <1>6 DEF IsLines
  <2> QED
    BY <2>1, <2>2 DEF LineOf
<1>7. CASE n = 1
  <2>1. TextAt(ls, n) = <<ls[1].key>>
    BY <1>7 DEF TextAt, Start
  <2> QED
    BY <1>5, <1>7, <2>1, KeyOnly
<1>8. CASE n = 2 \/ n = 3
  <2>0. PICK k \in {PwHash, Id}, x \in Seq(Body) : ls[1].key = k /\ ls[1].value = x
    BY <1>5, <1>8
  <2>1. PICK v : v = ValueAt(ls, n, 1)
    OBVIOUS
  <2>2. Begun(ls, n) = {1}
    BY <1>1, <1>2, <1>8 DEF Begun
  <2>3. PICK t : t = TextAt(ls, n)
    OBVIOUS
  <2>4. CanRead(t) /\ Entries(t) = {[line |-> 1, key |-> <<k>>, value |-> v]}
    <3>1. CASE n = 2
      <4>1. t = Row(k, <<>>, <<>>) /\ v = <<>>
        BY <2>0, <2>1, <2>3, <3>1 DEF TextAt, Start, ValueAt
      <4> QED
        BY <1>3, <4>1, OneLine
    <3>2. CASE n = 3
      <4>1. t = Row(k, x, <<NL>>) /\ v = x
        BY <2>0, <2>1, <2>3, <3>2 DEF TextAt, Start, ValueAt
      <4> QED
        BY <4>1, OneLine
    <3> QED
      BY <1>8, <3>1, <3>2
  <2>5. \A a, w : Maps(t, a, w) <=> a = <<k>> /\ w = v
    BY <2>4, MapsOne, Zenon
  <2>6. {e.key : e \in Entries(t)} = {<<k>>}
    BY <2>4
  <2> QED
    BY <1>8, <2>0, <2>1, <2>2, <2>3, <2>4, <2>5, <2>6 DEF ReadsAs
<1>9. CASE n = 4
  <2>1. PICK k \in {PwHash, Id}, v \in Seq(Body) : ls[1].key = k /\ ls[1].value = v
    BY <1>5, <1>9
  <2>2. PICK l \in {PwHash, Id} : ls[2].key = l
    BY <1>6, <1>9
  <2>3. TextAt(ls, n) = Row(k, v, <<NL>>) \o <<l>>
    BY <1>9, <2>1, <2>2 DEF TextAt, Start
  <2>4. ~CanRead(TextAt(ls, n))
    BY <2>3, KeyAfterLine
  <2> QED
    BY <1>9, <2>4
<1>10. CASE n = 5 \/ n = 6
  <2>0. PICK k \in {PwHash, Id}, v \in Seq(Body) : ls[1].key = k /\ ls[1].value = v
    BY <1>5, <1>10
  <2>1. PICK l \in {PwHash, Id}, x \in Seq(Body) : ls[2].key = l /\ ls[2].value = x
    BY <1>6, <1>10
  <2>2. Begun(ls, n) = {1, 2} /\ ValueAt(ls, n, 1) = v
    BY <1>1, <1>2, <1>10, <2>0 DEF Begun, ValueAt
  <2>3. PICK t, w : t = TextAt(ls, n) /\ w = ValueAt(ls, n, 2)
    OBVIOUS
  <2>4. PICK j \in Nat : j = 4 + Len(v)
    OBVIOUS
  <2>5. /\ CanRead(t)
        /\ Entries(t) = {[line |-> 1, key |-> <<k>>, value |-> v],
                         [line |-> j, key |-> <<l>>, value |-> w]}
    <3>1. CASE n = 5
      <4>1. t = Row(k, v, <<NL>>) \o Row(l, <<>>, <<>>) /\ w = <<>>
        BY <2>0, <2>1, <2>3, <3>1 DEF TextAt, Start, ValueAt
      <4>2. <<>> \in {<<>>, <<NL>>}
        OBVIOUS
      <4>3. PICK r : r = Row(l, <<>>, <<>>)
        OBVIOUS
      <4>4. RowIs(r, l, w, <<>>) /\ w \in Seq(Body)
        BY <1>3, <4>1, <4>2, <4>3, RowCells
      <4>6. r \in Seq(Cell)
        BY <4>4 DEF RowIs
      <4>7. FirstLine(Row(k, v, <<NL>>) \o r, k, v, r)
        BY <4>6, FirstLineCells
      <4>8. t = Row(k, v, <<NL>>) \o r
        BY <4>1, <4>3
      <4>5. FirstLine(t, k, v, r)
        BY <4>7, <4>8, Zenon
      <4> QED
        BY <2>4, <4>2, <4>4, <4>5, TwoLines
    <3>2. CASE n = 6
      <4>1. t = Row(k, v, <<NL>>) \o Row(l, x, <<NL>>) /\ w = x
        BY <2>0, <2>1, <2>3, <3>2 DEF TextAt, Start, ValueAt
      <4>2. PICK r : r = Row(l, x, <<NL>>)
        OBVIOUS
      <4>3. RowIs(r, l, x, <<NL>>)
        BY <4>2, RowCells
      <4>5. r \in Seq(Cell)
        BY <4>3 DEF RowIs
      <4>6. FirstLine(Row(k, v, <<NL>>) \o r, k, v, r)
        BY <4>5, FirstLineCells
      <4>7. t = Row(k, v, <<NL>>) \o r
        BY <4>1, <4>2
      <4>4. FirstLine(t, k, v, r)
        BY <4>6, <4>7, Zenon
      <4>8. <<NL>> \in {<<>>, <<NL>>} /\ w \in Seq(Body) /\ RowIs(r, l, w, <<NL>>)
        BY <4>1, <4>3
      <4> QED
        BY <2>4, <4>4, <4>8, TwoLines
    <3> QED
      BY <1>10, <3>1, <3>2
  <2>6. <<k>> # <<l>>
    BY <1>6, <1>10, <2>0, <2>1
  <2>7. \A a, y : Maps(t, a, y) <=> (a = <<k>> /\ y = v) \/ (a = <<l>> /\ y = w)
    <3>1. PICK i \in Nat : i = 1
      OBVIOUS
    <3>2. Entries(t) = {[line |-> i, key |-> <<k>>, value |-> v],
                        [line |-> j, key |-> <<l>>, value |-> w]}
      BY <2>5, <3>1
    <3> QED
      BY <2>6, <3>2 DEF Maps
  <2>8. {e.key : e \in Entries(t)} = {<<k>>, <<l>>}
    BY <2>5
  <2>9. {<<ls[i].key>> : i \in Begun(ls, n)} = {<<k>>, <<l>>}
    BY <2>0, <2>1, <2>2
  <2>10. ASSUME NEW a, NEW y
         PROVE  (\E i \in Begun(ls, n) : a = <<ls[i].key>> /\ y = ValueAt(ls, n, i)) <=>
                (a = <<k>> /\ y = v) \/ (a = <<l>> /\ y = w)
    BY <2>0, <2>1, <2>2, <2>3
  <2>11. ReadsAs(t, ls, n)
    <3>1. \A a, y : Maps(t, a, y) <=>
            \E i \in Begun(ls, n) : a = <<ls[i].key>> /\ y = ValueAt(ls, n, i)
      <4> SUFFICES ASSUME NEW a, NEW y
                   PROVE  Maps(t, a, y) <=>
                     \E i \in Begun(ls, n) : a = <<ls[i].key>> /\ y = ValueAt(ls, n, i)
        OBVIOUS
      <4>1. Maps(t, a, y) <=> (a = <<k>> /\ y = v) \/ (a = <<l>> /\ y = w)
        BY <2>7
      <4>2. (\E i \in Begun(ls, n) : a = <<ls[i].key>> /\ y = ValueAt(ls, n, i)) <=>
            (a = <<k>> /\ y = v) \/ (a = <<l>> /\ y = w)
        BY <2>10
      <4> QED
        BY <4>1, <4>2
    <3>2. {e.key : e \in Entries(t)} = {<<ls[i].key>> : i \in Begun(ls, n)}
      BY <2>8, <2>9
    <3> QED
      BY <2>5, <3>1, <3>2 DEF ReadsAs
  <2> QED
    BY <1>10, <2>3, <2>11
<1> QED
  BY <1>2, <1>4, <1>7, <1>8, <1>9, <1>10

\* A piece that is written at the end of a file.
LEMMA OverAtEnd ==
    ASSUME NEW S, NEW cells \in Seq(S), NEW piece \in Seq(S)
    PROVE  Over(cells, Len(cells), piece) = cells \o piece
<1>1. PICK n \in Nat : n = Len(cells)
  OBVIOUS
<1> DEFINE before == [i \in 1 .. n |-> IF i \in DOMAIN cells THEN cells[i] ELSE Hole]
           after == SubSeq(cells, n + Len(piece) + 1, n)
<1>2. before = cells
  <2>1. before \in Seq(S) /\ Len(before) = n
    BY <1>1
  <2>2. \A i \in 1 .. n : before[i] = cells[i]
    BY <1>1
  <2> HIDE DEF before
  <2> QED
    BY <1>1, <2>1, <2>2
<1>3. after = <<>>
  <2>1. Len(piece) \in Nat
    OBVIOUS
  <2>2. ~(n + Len(piece) + 1 <= n)
    BY <2>1
  <2> QED
    BY <1>1, <2>1, <2>2
<1>4. Over(cells, Len(cells), piece) = before \o piece \o after
  BY <1>1 DEF Over
<1> HIDE DEF before, after
<1>5. cells \o piece \in Seq(S)
  OBVIOUS
<1>6. (cells \o piece) \o <<>> = cells \o piece
  BY <1>5
<1> QED
  BY <1>2, <1>3, <1>4, <1>6

\* A line is written in three pieces.
LEMMA StartStep ==
    ASSUME NEW l \in LineOf
    PROVE  /\ Start(l, 1) \in Seq(Cell) /\ Start(l, 2) \in Seq(Cell) /\ Start(l, 3) \in Seq(Cell)
           /\ Start(l, 1) = <<l.key>>
           /\ Start(l, 2) = Start(l, 1) \o <<Sep>>
           /\ Start(l, 3) = Start(l, 2) \o Append(l.value, NL)
           /\ <<Sep>> \in Seq(Cell) /\ Append(l.value, NL) \in Seq(Cell)
<1>1. PICK k \in {PwHash, Id}, v \in Seq(Body) : l.key = k /\ l.value = v
  BY DEF LineOf
<1>2. v \in Seq(Cell)
  BY BodyCells, SeqLarger
<1>3. k \in Cell /\ Sep \in Cell /\ NL \in Cell
  BY BodyCells
<1>4. Start(l, 1) = <<k>> /\ Start(l, 2) = <<k, Sep>> \o <<>> \o <<>> /\ Start(l, 3) = <<k, Sep>> \o v \o <<NL>>
  BY <1>1 DEF Start, Row
<1>5. <<k>> \in Seq(Cell) /\ <<k, Sep>> \in Seq(Cell) /\ <<Sep>> \in Seq(Cell) /\ <<NL>> \in Seq(Cell)
  BY <1>3
<1>6. <<k, Sep>> \o <<>> \o <<>> = <<k, Sep>>
  BY <1>5
<1>7. <<k>> \o <<Sep>> = <<k, Sep>>
  <2> DEFINE x == <<k>> \o <<Sep>>
  <2>1. x \in Seq(Cell) /\ Len(x) = 2
    BY <1>5
  <2>2. x[1] = k /\ x[2] = Sep
    BY <1>5
  <2> HIDE DEF x
  <2>3. x = <<k, Sep>>
    BY <1>5, <2>1, <2>2
  <2> QED
    BY <2>3 DEF x
<1>8. Append(v, NL) = v \o <<NL>> /\ Append(v, NL) \in Seq(Cell)
  BY <1>2, <1>3
<1>9. (<<k, Sep>> \o v) \o <<NL>> = <<k, Sep>> \o (v \o <<NL>>)
  <2>1. PICK x \in Seq(Cell), z \in Seq(Cell) : x = <<k, Sep>> /\ z = <<NL>>
    BY <1>5
  <2>2. v \in Seq(Cell)
    BY <1>2
  <2>3. Assoc(x, v, z)
    BY <2>2, Associative
  <2> QED
    BY <2>1, <2>3, Zenon DEF Assoc
<1>10. (<<k, Sep>> \o v) \o <<NL>> \in Seq(Cell)
  <2>1. <<k, Sep>> \o v \in Seq(Cell)
    BY <1>2, <1>5
  <2> QED
    BY <1>5, <2>1
<1>11. Start(l, 3) = Start(l, 2) \o Append(l.value, NL)
  BY <1>1, <1>4, <1>6, <1>8, <1>9
<1>12. Start(l, 2) = Start(l, 1) \o <<Sep>>
  BY <1>4, <1>6, <1>7
<1>14. Start(l, 1) \in Seq(Cell) /\ Start(l, 2) \in Seq(Cell) /\ Start(l, 3) \in Seq(Cell)
  BY <1>4, <1>5, <1>6, <1>10
<1> QED
  BY <1>1, <1>4, <1>5, <1>8, <1>11, <1>12, <1>14

\* And so is one after other cells.
LEMMA StartAfter ==
    ASSUME NEW a \in Seq(Cell), NEW l \in LineOf
    PROVE  /\ a \o Start(l, 1) \in Seq(Cell) /\ a \o Start(l, 2) \in Seq(Cell)
           /\ a \o Start(l, 2) = (a \o Start(l, 1)) \o <<Sep>>
           /\ a \o Start(l, 3) = (a \o Start(l, 2)) \o Append(l.value, NL)
<1>1. PICK x \in Seq(Cell), y \in Seq(Cell), b \in Seq(Cell), c \in Seq(Cell) :
        /\ x = Start(l, 1) /\ y = Start(l, 2) /\ b = <<Sep>> /\ c = Append(l.value, NL)
        /\ Start(l, 2) = x \o b /\ Start(l, 3) = y \o c
  BY StartStep
<1>2. Assoc(a, x, b) /\ Assoc(a, y, c)
  BY Associative
<1>3. (a \o x) \o b = a \o (x \o b) /\ (a \o y) \o c = a \o (y \o c)
  BY <1>2, Zenon DEF Assoc
<1>4. a \o x \in Seq(Cell) /\ a \o y \in Seq(Cell)
  OBVIOUS
<1> QED
  BY <1>1, <1>3, <1>4, Zenon

\* There are two lines at most.
LEMMA LinesTyped ==
    ASSUME NEW ls, IsLines(ls)
    PROVE  /\ Len(ls) \in {0, 1, 2} /\ DOMAIN ls = 1 .. Len(ls)
           /\ \A i \in DOMAIN ls : ls[i] \in LineOf
<1>1. Len(ls) \in Nat /\ DOMAIN ls = 1 .. Len(ls)
  BY DEF IsLines
<1>2. Len(ls) <= 2
  BY DEF IsLines
<1>3. \A i \in DOMAIN ls : ls[i] \in LineOf
  BY DEF IsLines
<1> QED
  BY <1>1, <1>2, <1>3

\* Each piece extends the text.
LEMMA TextStep ==
    ASSUME NEW ls, IsLines(ls), NEW n \in Nat, n < 3 * Len(ls)
    PROVE  /\ TextAt(ls, n) \in Seq(Cell) /\ PieceAt(ls, n + 1) \in Seq(Cell)
           /\ TextAt(ls, n + 1) = TextAt(ls, n) \o PieceAt(ls, n + 1)
<1>1. Len(ls) \in {0, 1, 2} /\ DOMAIN ls = 1 .. Len(ls)
  BY LinesTyped
<1>2. n \in 0 .. 5 /\ Len(ls) > 0 /\ (n >= 3 => Len(ls) = 2)
  <2>1. CASE Len(ls) = 0
    BY <2>1
  <2>2. CASE Len(ls) = 1
    BY <2>2
  <2>3. CASE Len(ls) = 2
    BY <2>3
  <2> QED
    BY <1>1, <2>1, <2>2, <2>3
<1>3. PICK l \in LineOf : l = ls[1]
  BY <1>1, <1>2, LinesTyped
<1>4. /\ Start(l, 1) \in Seq(Cell) /\ Start(l, 2) \in Seq(Cell) /\ Start(l, 3) \in Seq(Cell)
      /\ Start(l, 1) = <<l.key>>
      /\ Start(l, 2) = Start(l, 1) \o <<Sep>>
      /\ Start(l, 3) = Start(l, 2) \o Append(l.value, NL)
      /\ <<Sep>> \in Seq(Cell) /\ Append(l.value, NL) \in Seq(Cell)
  BY StartStep
<1>5. CASE n = 0
  <2>1. TextAt(ls, n) = <<>> /\ PieceAt(ls, n + 1) = <<l.key>> /\ TextAt(ls, n + 1) = Start(l, 1)
    BY <1>3, <1>5 DEF TextAt, PieceAt
  <2>2. <<>> \in Seq(Cell) /\ <<>> \o Start(l, 1) = Start(l, 1)
    BY <1>4
  <2> QED
    BY <1>4, <2>1, <2>2
<1>6. CASE n = 1
  <2>1. /\ TextAt(ls, n) = Start(l, 1) /\ PieceAt(ls, n + 1) = <<Sep>>
        /\ TextAt(ls, n + 1) = Start(l, 2)
    BY <1>3, <1>6 DEF TextAt, PieceAt
  <2> QED
    BY <1>4, <2>1
<1>7. CASE n = 2
  <2>1. /\ TextAt(ls, n) = Start(l, 2) /\ PieceAt(ls, n + 1) = Append(l.value, NL)
        /\ TextAt(ls, n + 1) = Start(l, 3)
    BY <1>3, <1>7 DEF TextAt, PieceAt
  <2> QED
    BY <1>4, <2>1
<1>8. CASE n >= 3
  <2>1. PICK m \in LineOf : m = ls[2]
    BY <1>1, <1>2, <1>8, LinesTyped
  <2>2. /\ Start(m, 1) \in Seq(Cell) /\ Start(m, 2) \in Seq(Cell) /\ Start(m, 3) \in Seq(Cell)
        /\ Start(m, 1) = <<m.key>>
        /\ Start(m, 2) = Start(m, 1) \o <<Sep>>
        /\ Start(m, 3) = Start(m, 2) \o Append(m.value, NL)
        /\ <<Sep>> \in Seq(Cell) /\ Append(m.value, NL) \in Seq(Cell)
    BY StartStep
  <2>6. PICK a \in Seq(Cell) : a = Start(l, 3)
    BY <1>4
  <2>7. /\ a \o Start(m, 1) \in Seq(Cell) /\ a \o Start(m, 2) \in Seq(Cell)
        /\ a \o Start(m, 2) = (a \o Start(m, 1)) \o <<Sep>>
        /\ a \o Start(m, 3) = (a \o Start(m, 2)) \o Append(m.value, NL)
    BY StartAfter
  <2>3. CASE n = 3
    <3>1. /\ TextAt(ls, n) = Start(l, 3) /\ PieceAt(ls, n + 1) = <<m.key>>
          /\ TextAt(ls, n + 1) = Start(l, 3) \o Start(m, 1)
      BY <1>3, <2>1, <2>3 DEF TextAt, PieceAt
    <3> QED
      BY <1>4, <2>2, <3>1
  <2>4. CASE n = 4
    <3>1. /\ TextAt(ls, n) = Start(l, 3) \o Start(m, 1) /\ PieceAt(ls, n + 1) = <<Sep>>
          /\ TextAt(ls, n + 1) = Start(l, 3) \o Start(m, 2)
      BY <1>3, <2>1, <2>4 DEF TextAt, PieceAt
    <3> QED
      BY <2>2, <2>6, <2>7, <3>1
  <2>5. CASE n = 5
    <3>1. /\ TextAt(ls, n) = Start(l, 3) \o Start(m, 2) /\ PieceAt(ls, n + 1) = Append(m.value, NL)
          /\ TextAt(ls, n + 1) = Start(l, 3) \o Start(m, 3)
      BY <1>3, <2>1, <2>5 DEF TextAt, PieceAt
    <3> QED
      BY <2>2, <2>6, <2>7, <3>1
  <2> QED
    BY <1>2, <1>8, <2>3, <2>4, <2>5
<1> QED
  BY <1>2, <1>5, <1>6, <1>7, <1>8

\* What is still to be written, piece by piece.
LEMMA RestIs ==
    ASSUME NEW ls, IsLines(ls), NEW n \in Nat, n <= 3 * Len(ls)
    PROVE  \E S : /\ RestOf(ls, n) \in Seq(S) /\ Len(RestOf(ls, n)) = 3 * Len(ls) - n
                  /\ \A i \in 1 .. 3 * Len(ls) - n : RestOf(ls, n)[i] = PieceAt(ls, n + i)
<1>1. PICK k \in Nat : k = 3 * Len(ls) - n
  BY LinesTyped
<1> DEFINE f == [i \in 1 .. k |-> PieceAt(ls, n + i)]
           S == {f[i] : i \in 1 .. k}
<1>2. RestOf(ls, n) = f
  BY <1>1 DEF RestOf
<1>3. f \in Seq(S) /\ Len(f) = k /\ \A i \in 1 .. k : f[i] = PieceAt(ls, n + i)
  <2>1. f \in [1 .. k -> S] /\ \A i \in 1 .. k : f[i] = PieceAt(ls, n + i)
    OBVIOUS
  <2> HIDE DEF f, S
  <2> QED
    BY <2>1, IsSeq
<1> HIDE DEF f, S
<1> WITNESS S
<1> QED
  BY <1>1, <1>2, <1>3

\* When the next piece is written, the rest is what comes after it.
LEMMA RestStep ==
    ASSUME NEW ls, IsLines(ls), NEW n \in Nat, n <= 3 * Len(ls)
    PROVE  /\ RestOf(ls, n) = <<>> <=> n = 3 * Len(ls)
           /\ n < 3 * Len(ls) => /\ Head(RestOf(ls, n)) = PieceAt(ls, n + 1)
                                /\ Tail(RestOf(ls, n)) = RestOf(ls, n + 1)
<1>1. PICK N \in Nat : N = 3 * Len(ls)
  BY LinesTyped
<1>2. PICK r, S : /\ r = RestOf(ls, n) /\ r \in Seq(S) /\ Len(r) = N - n
                  /\ \A i \in 1 .. N - n : r[i] = PieceAt(ls, n + i)
  BY <1>1, RestIs
<1>3. r = <<>> <=> n = N
  BY <1>1, <1>2
<1>4. ASSUME n < N
      PROVE  Head(r) = PieceAt(ls, n + 1) /\ Tail(r) = RestOf(ls, n + 1)
  <2>1. n + 1 \in Nat /\ n + 1 <= 3 * Len(ls)
    BY <1>1, <1>4
  <2>2. PICK q, T : /\ q = RestOf(ls, n + 1) /\ q \in Seq(T) /\ Len(q) = N - (n + 1)
                    /\ \A i \in 1 .. N - (n + 1) : q[i] = PieceAt(ls, (n + 1) + i)
    BY <1>1, <2>1, RestIs
  <2>3. r # <<>> /\ r \in Seq(S)
    BY <1>2, <1>3, <1>4
  <2>4. /\ Tail(r) \in Seq(S) /\ Len(Tail(r)) = Len(r) - 1 /\ Head(r) = r[1]
        /\ \A i \in 1 .. Len(r) - 1 : Tail(r)[i] = r[i + 1]
    BY <2>3, TailOf
  <2>5. Head(r) = PieceAt(ls, n + 1)
    BY <1>2, <1>4, <2>4
  <2>6. ASSUME NEW i \in 1 .. N - (n + 1) PROVE Tail(r)[i] = q[i]
    <3>1. i + 1 \in 1 .. N - n /\ n + (i + 1) = (n + 1) + i /\ i \in 1 .. Len(r) - 1
      BY <1>2
    <3> QED
      BY <1>2, <2>2, <2>4, <3>1
  <2>7. Len(Tail(r)) = N - (n + 1)
    BY <1>2, <1>4, <2>4
  <2>8. Tail(r) = q
    <3>1. \A i \in 1 .. Len(Tail(r)) : Tail(r)[i] = q[i]
      BY <2>6, <2>7
    <3>2. Tail(r) \in Seq(S) /\ q \in Seq(T) /\ Len(Tail(r)) = Len(q)
      BY <2>2, <2>4, <2>7
    <3> QED
      BY <3>1, <3>2, SameSeq
  <2> QED
    BY <2>2, <2>5, <2>8
<1> QED
  BY <1>1, <1>2, <1>3, <1>4

\* The lines that an update with session s makes; good says that the user's password
\* was in the file that the update has read. No other session is in them.
Layout(ls, s, good) ==
    /\ IsLines(ls)
    /\ \A i \in DOMAIN ls :
        IF ls[i].key = Id THEN s # NoSession /\ ls[i].value = <<s>>
        ELSE ls[i].value \in Seq(Range(Hash)) /\ (good => ls[i].value = Hash)
    /\ s # NoSession => \E i \in DOMAIN ls : ls[i].key = Id
    /\ good => \E i \in DOMAIN ls : ls[i].key = PwHash

\* And the map that it writes.
MapIs(map, s, good) ==
    /\ DOMAIN map \subseteq {<<PwHash>>, <<Id>>}
    /\ \A k \in DOMAIN map : map[k] \in Seq(Body)
    /\ <<PwHash>> \in DOMAIN map => map[<<PwHash>>] \in Seq(Range(Hash))
    /\ <<Id>> \in DOMAIN map <=> s # NoSession
    /\ s # NoSession => map[<<Id>>] = <<s>>
    /\ good => <<PwHash>> \in DOMAIN map /\ map[<<PwHash>>] = Hash

\* Whether the first n pieces of the lines show the session.
Shows(ls, n) == Len(ls) = 2 /\ n >= 5 /\ (n = 5 => ls[1].key = Id)

\* pwhash and session_id are two keys.
LEMMA KeysDiffer == <<PwHash>> # <<Id>> /\ PwHash # Id
BY CredsAssumption

\* HasKey, with the set of keys.
LEMMA KeyIs ==
    ASSUME NEW t
    PROVE  \A k : HasKey(t, k) <=> k \in {e.key : e \in Entries(t)}
BY DEF HasKey

\* find_user sees the session as soon as both lines are there, and no other one.
LEMMA SessionShown ==
    ASSUME NEW ls, NEW s, NEW good, Layout(ls, s, good), NEW n \in 0 .. 3 * Len(ls),
           NEW x \in SessionId
    PROVE  LET t == TextAt(ls, n)
           IN  (CanRead(t) /\ HasKey(t, <<PwHash>>) /\ Maps(t, <<Id>>, <<x>>)) <=>
                    (Shows(ls, n) /\ x = s)
<1>1. PICK t : t = TextAt(ls, n)
  OBVIOUS
<1>2. IsLines(ls) /\ Len(ls) \in {0, 1, 2} /\ DOMAIN ls = 1 .. Len(ls)
  BY LinesTyped DEF Layout
<1>3. \A i \in DOMAIN ls : ls[i].key \in {PwHash, Id}
  BY <1>2, LinesTyped DEF LineOf
<1>4. Len(ls) = 2 => ls[1].key # ls[2].key
  BY <1>2 DEF IsLines
<1>5. n % 3 = 1 => n # 5 /\ n # 6
  BY <1>2
<1>6. CASE n % 3 = 1
  <2>1. ~CanRead(t)
    BY <1>1, <1>2, <1>6, LinesRead
  <2>2. ~(n >= 5)
    <3>1. n \in 0 .. 6
      <4>1. CASE Len(ls) = 0
        BY <4>1
      <4>2. CASE Len(ls) = 1
        BY <4>2
      <4>3. CASE Len(ls) = 2
        BY <4>3
      <4> QED
        BY <1>2, <4>1, <4>2, <4>3
    <3> QED
      BY <1>5, <1>6, <3>1
  <2> QED
    BY <1>1, <2>1, <2>2 DEF Shows
<1>7. CASE n % 3 # 1
  <2>1. ReadsAs(t, ls, n)
    BY <1>1, <1>2, <1>7, LinesRead
  <2>2. HasKey(t, <<PwHash>>) <=> \E i \in Begun(ls, n) : ls[i].key = PwHash
    <3>1. HasKey(t, <<PwHash>>) <=> \E i \in Begun(ls, n) : <<PwHash>> = <<ls[i].key>>
      BY <2>1, KeyIs DEF ReadsAs
    <3> QED
      BY <3>1
  <2>3. Maps(t, <<Id>>, <<x>>) <=>
            \E i \in Begun(ls, n) : <<Id>> = <<ls[i].key>> /\ <<x>> = ValueAt(ls, n, i)
    BY <2>1 DEF ReadsAs
  <2>4. \A i \in DOMAIN ls : ls[i].key = Id => ls[i].value = <<s>>
    BY DEF Layout
  <2>5. Maps(t, <<Id>>, <<x>>) <=> \E i \in Begun(ls, n) : ls[i].key = Id /\ 3 * i <= n /\ x = s
    <3>1. ASSUME NEW i \in Begun(ls, n), ls[i].key = Id
          PROVE  <<x>> = ValueAt(ls, n, i) <=> 3 * i <= n /\ x = s
      <4>1. ls[i].value = <<s>>
        BY <2>4, <3>1 DEF Begun
      <4>2. <<x>> # <<>> /\ (<<x>> = <<s>> <=> x = s)
        OBVIOUS
      <4> QED
        BY <4>1, <4>2 DEF ValueAt
    <3> QED
      BY <2>3, <3>1
  <2>6. (\E i \in Begun(ls, n) : ls[i].key = PwHash) /\
        (\E i \in Begun(ls, n) : ls[i].key = Id /\ 3 * i <= n) <=> Shows(ls, n)
    <3>1. CASE Len(ls) = 2
      <4>1. Begun(ls, n) = {i \in {1, 2} : 3 * i - 1 <= n}
        BY <1>2, <3>1 DEF Begun
      <4>2. (ls[1].key = PwHash /\ ls[2].key = Id) \/ (ls[1].key = Id /\ ls[2].key = PwHash)
        BY <1>2, <1>3, <1>4, <3>1
      <4>3. n \in 0 .. 6
        BY <3>1
      <4> QED
        BY <3>1, <4>1, <4>2, <4>3, KeysDiffer DEF Shows
    <3>2. CASE Len(ls) # 2
      <4>1. \A i, j \in Begun(ls, n) : i = j
        BY <1>2, <3>2 DEF Begun
      <4> QED
        BY <3>2, <4>1, KeysDiffer DEF Shows
    <3> QED
      BY <3>1, <3>2
  <2>7. CanRead(t)
    BY <2>1 DEF ReadsAs
  <2> QED
    BY <1>1, <2>2, <2>5, <2>6, <2>7
<1> QED
  BY <1>6, <1>7

\* A settled file holds what its last update was to store.
LEMMA SettledReads ==
    ASSUME NEW ls, NEW s, Layout(ls, s, TRUE)
    PROVE  LET t == TextAt(ls, 3 * Len(ls))
           IN  /\ CanRead(t) /\ HasKey(t, <<PwHash>>) /\ Maps(t, <<PwHash>>, Hash)
               /\ s = NoSession => ~HasKey(t, <<Id>>)
               /\ s # NoSession => Maps(t, <<Id>>, <<s>>)
<1>1. PICK n, t : n = 3 * Len(ls) /\ t = TextAt(ls, n)
  OBVIOUS
<1>2. IsLines(ls) /\ Len(ls) \in {0, 1, 2} /\ DOMAIN ls = 1 .. Len(ls)
  BY LinesTyped DEF Layout
<1>3. n \in 0 .. 3 * Len(ls) /\ n % 3 # 1
  BY <1>1, <1>2
<1>4. ReadsAs(t, ls, n)
  BY <1>1, <1>2, <1>3, LinesRead
<1>5. Begun(ls, n) = DOMAIN ls /\ \A i \in DOMAIN ls : ValueAt(ls, n, i) = ls[i].value
  BY <1>1, <1>2 DEF Begun, ValueAt
<1>6. PICK i \in DOMAIN ls : ls[i].key = PwHash /\ ls[i].value = Hash
  BY KeysDiffer DEF Layout
<1>7. Maps(t, <<PwHash>>, Hash)
  BY <1>4, <1>5, <1>6 DEF ReadsAs
<1>8. HasKey(t, <<PwHash>>)
  BY <1>4, <1>5, <1>6, KeyIs DEF ReadsAs
<1>9. ASSUME s = NoSession PROVE ~HasKey(t, <<Id>>)
  <2>1. \A j \in DOMAIN ls : ls[j].key # Id
    BY <1>9 DEF Layout
  <2>2. \A j \in DOMAIN ls : <<ls[j].key>> # <<Id>>
    BY <2>1
  <2> QED
    BY <1>4, <1>5, <2>2, KeyIs DEF ReadsAs
<1>10. ASSUME s # NoSession PROVE Maps(t, <<Id>>, <<s>>)
  <2>1. PICK j \in DOMAIN ls : ls[j].key = Id /\ ls[j].value = <<s>>
    BY <1>10 DEF Layout
  <2> QED
    BY <1>4, <1>5, <2>1 DEF ReadsAs
<1> QED
  BY <1>1, <1>4, <1>7, <1>8, <1>9, <1>10 DEF ReadsAs

\* What update_user makes of a file that it can read.
LEMMA ReadMap ==
    ASSUME NEW ls, NEW s, NEW good, Layout(ls, s, good), NEW n \in 0 .. 3 * Len(ls),
           NEW t, t = TextAt(ls, n), CanRead(t),
           NEW r \in SessionId \cup {NoSession}, NEW whole \in BOOLEAN,
           whole => good /\ n = 3 * Len(ls)
    PROVE  MapIs(SetSession(KeyValues(t), r), r, whole)
<1>1. IsLines(ls) /\ Len(ls) \in {0, 1, 2} /\ DOMAIN ls = 1 .. Len(ls)
  BY LinesTyped DEF Layout
<1>2. ReadsAs(t, ls, n)
  BY <1>1, LinesRead
<1>3. \A i \in DOMAIN ls : ls[i].key \in {PwHash, Id} /\ ls[i].value \in Seq(Body)
  BY <1>1, LinesTyped DEF LineOf
<1>4. \A i, j \in DOMAIN ls : ls[i].key = ls[j].key => i = j
  BY <1>1 DEF IsLines
<1> DEFINE Keys == {e.key : e \in Entries(t)}
           old == KeyValues(t)
<1>5. DOMAIN old = Keys
  BY DEF KeyValues
<1>6. Keys = {<<ls[i].key>> : i \in Begun(ls, n)} /\ Begun(ls, n) \subseteq DOMAIN ls
  BY <1>2 DEF ReadsAs, Begun
<1>7. ASSUME NEW i \in Begun(ls, n) PROVE old[<<ls[i].key>>] = ValueAt(ls, n, i)
  <2> DEFINE k == <<ls[i].key>>
  <2>1. k \in Keys
    BY <1>6
  <2>2. ASSUME NEW v PROVE Maps(t, k, v) <=> v = ValueAt(ls, n, i)
    <3>1. Maps(t, k, v) <=> \E j \in Begun(ls, n) : k = <<ls[j].key>> /\ v = ValueAt(ls, n, j)
      BY <1>2 DEF ReadsAs
    <3>2. \A j \in Begun(ls, n) : k = <<ls[j].key>> <=> j = i
      BY <1>4, <1>6
    <3> QED
      BY <3>1, <3>2
  <2>3. ValueAt(ls, n, i) \in {e.value : e \in Entries(t)}
    <3>1. Maps(t, k, ValueAt(ls, n, i))
      BY <2>2
    <3> QED
      BY <3>1 DEF Maps
  <2>4. old[k] = CHOOSE v \in {e.value : e \in Entries(t)} : Maps(t, k, v)
    BY <2>1 DEF KeyValues
  <2> HIDE DEF k, old
  <2>5. old[k] = ValueAt(ls, n, i)
    BY <2>2, <2>3, <2>4
  <2> QED
    BY <2>5 DEF k
<1>8. \A k \in Keys : old[k] \in Seq(Body) /\ k \in {<<PwHash>>, <<Id>>}
  <2> SUFFICES ASSUME NEW i \in Begun(ls, n)
               PROVE  old[<<ls[i].key>>] \in Seq(Body) /\ <<ls[i].key>> \in {<<PwHash>>, <<Id>>}
    BY <1>6
  <2>1. ValueAt(ls, n, i) \in Seq(Body)
    <3>1. <<>> \in Seq(Body) /\ ls[i].value \in Seq(Body)
      BY <1>3, <1>6
    <3> QED
      BY <3>1 DEF ValueAt
  <2> QED
    BY <1>3, <1>6, <1>7, <2>1
<1>9. ASSUME <<PwHash>> \in Keys PROVE old[<<PwHash>>] \in Seq(Range(Hash))
  <2>1. PICK i \in Begun(ls, n) : <<PwHash>> = <<ls[i].key>>
    BY <1>6, <1>9
  <2>2. ls[i].key = PwHash /\ ls[i].key # Id /\ i \in DOMAIN ls
    BY <1>6, <2>1, KeysDiffer
  <2>3. ls[i].value \in Seq(Range(Hash)) /\ <<>> \in Seq(Range(Hash))
    BY <2>2 DEF Layout
  <2>4. ValueAt(ls, n, i) \in Seq(Range(Hash))
    BY <2>3 DEF ValueAt
  <2>5. old[<<ls[i].key>>] = ValueAt(ls, n, i)
    BY <1>7
  <2> QED
    BY <2>1, <2>4, <2>5
<1>10. ASSUME whole PROVE <<PwHash>> \in Keys /\ old[<<PwHash>>] = Hash
  <2>1. good /\ n = 3 * Len(ls)
    BY <1>10
  <2>2. PICK i \in DOMAIN ls : ls[i].key = PwHash /\ ls[i].value = Hash
    BY <2>1, KeysDiffer DEF Layout
  <2>3. i \in Begun(ls, n) /\ ValueAt(ls, n, i) = ls[i].value
    BY <1>1, <2>1, <2>2 DEF Begun, ValueAt
  <2>4. <<ls[i].key>> \in Keys /\ old[<<ls[i].key>>] = Hash
    BY <1>6, <1>7, <2>2, <2>3
  <2> QED
    BY <2>2, <2>4
<1> HIDE DEF old, Keys
<1> DEFINE map == SetSession(old, r)
<1>11. DOMAIN map = (Keys \ {<<Id>>}) \cup (IF r = NoSession THEN {} ELSE {<<Id>>})
  BY <1>5 DEF SetSession
<1>12. \A k \in DOMAIN map : map[k] = IF k = <<Id>> THEN <<r>> ELSE old[k]
  BY <1>5 DEF SetSession
<1>13. \A k \in DOMAIN map : map[k] \in Seq(Body)
  <2> SUFFICES ASSUME NEW k \in DOMAIN map PROVE map[k] \in Seq(Body)
    OBVIOUS
  <2>1. CASE k = <<Id>>
    <3>1. r \in Body
      BY <1>11, <2>1 DEF Body
    <3>2. <<r>> \in Seq(Body)
      BY <3>1
    <3> QED
      BY <1>12, <2>1, <3>2
  <2>2. CASE k # <<Id>>
    BY <1>8, <1>11, <1>12, <2>2
  <2> QED
    BY <2>1, <2>2
<1>14. DOMAIN map \subseteq {<<PwHash>>, <<Id>>}
  BY <1>8, <1>11
<1>15. <<Id>> \in DOMAIN map <=> r # NoSession
  BY <1>11
<1>16. r # NoSession => map[<<Id>>] = <<r>>
  BY <1>12, <1>15
<1>17. whole => <<PwHash>> \in DOMAIN map /\ map[<<PwHash>>] = Hash
  BY <1>10, <1>11, <1>12, KeysDiffer
<1>18. <<PwHash>> \in DOMAIN map => map[<<PwHash>>] \in Seq(Range(Hash))
  BY <1>11, <1>12, <1>9, KeysDiffer
<1> HIDE DEF map
<1>19. MapIs(map, r, whole)
  BY <1>13, <1>14, <1>15, <1>16, <1>17, <1>18 DEF MapIs
<1> QED
  BY <1>19 DEF map, old

\* An order of two keys at most.
LEMMA OrderIs ==
    ASSUME NEW D, D \subseteq {<<PwHash>>, <<Id>>}, NEW order \in SetToSeqs(D)
    PROVE  \E n \in {0, 1, 2} :
              /\ order \in [1 .. n -> D]
              /\ \A i, j \in 1 .. n : order[i] = order[j] => i = j
              /\ \A k \in D : \E i \in 1 .. n : order[i] = k
<1> DEFINE n == Cardinality(D)
<1>1. IsFiniteSet({<<PwHash>>, <<Id>>}) /\ Cardinality({<<PwHash>>, <<Id>>}) \in {1, 2}
  <2>1. IsFiniteSet({<<PwHash>>}) /\ Cardinality({<<PwHash>>}) = 1
    BY FS_Singleton
  <2>2. {<<PwHash>>, <<Id>>} = {<<PwHash>>} \cup {<<Id>>}
    OBVIOUS
  <2> QED
    BY <2>1, <2>2, FS_AddElement
<1>2. IsFiniteSet(D) /\ n <= Cardinality({<<PwHash>>, <<Id>>})
  BY <1>1, FS_Subset
<1>3. n \in {0, 1, 2}
  BY <1>1, <1>2, FS_CardinalityType
<1>4. order \in [1 .. n -> D] /\ \A i, j \in 1 .. n : i # j => order[i] # order[j]
  BY DEF SetToSeqs
<1> HIDE DEF n
<1>5. order \in Injection(1 .. n, D)
  BY <1>4 DEF Injection, IsInjective
<1>6. Cardinality(1 .. n) = n
  <2>1. 1 \in Int /\ n \in Int
    BY <1>3
  <2>2. Cardinality(1 .. n) = IF 1 > n THEN 0 ELSE n - 1 + 1
    BY <2>1, FS_Interval
  <2> QED
    BY <1>3, <2>2
<1>7. order \in Surjection(1 .. n, D)
  BY <1>2, <1>5, <1>6, FS_Injection DEF n
<1>8. \A k \in D : \E i \in 1 .. n : order[i] = k
  BY <1>7 DEF Surjection
<1> QED
  BY <1>3, <1>4, <1>8

\* What update_user writes are the pieces of lines.
LEMMA MapLines ==
    ASSUME NEW map, NEW s, NEW good, MapIs(map, s, good), NEW order \in SetToSeqs(DOMAIN map)
    PROVE  \E ls : Layout(ls, s, good) /\ Pieces(map, order) = RestOf(ls, 0)
<1> DEFINE D == DOMAIN map
<1>1. D \subseteq {<<PwHash>>, <<Id>>} /\ \A k \in D : map[k] \in Seq(Body)
  BY DEF MapIs
<1>2. PICK n \in {0, 1, 2} :
        /\ order \in [1 .. n -> D]
        /\ \A i, j \in 1 .. n : order[i] = order[j] => i = j
        /\ \A k \in D : \E i \in 1 .. n : order[i] = k
  BY <1>1, OrderIs
<1> HIDE DEF D
<1> DEFINE ls == [i \in 1 .. n |-> [key |-> order[i][1], value |-> map[order[i]]]]
<1>3. \A i \in 1 .. n : /\ order[i] \in D /\ order[i] \in {<<PwHash>>, <<Id>>}
                        /\ order[i] = <<order[i][1]>> /\ order[i][1] \in {PwHash, Id}
  BY <1>1, <1>2
<1>4. ls \in [1 .. n -> LineOf]
  BY <1>1, <1>3 DEF LineOf
<1>5. \A i \in 1 .. n : /\ ls[i].value = map[order[i]] /\ <<ls[i].key>> = order[i]
                        /\ ls[i].key \in {PwHash, Id}
  BY <1>3
<1> HIDE DEF ls
<1>6. ls \in Seq(LineOf) /\ Len(ls) = n /\ DOMAIN ls = 1 .. n
  BY <1>4, IsSeq
<1>7. IsLines(ls)
  <2>1. Len(ls) = 2 => ls[1].key # ls[2].key
    <3> SUFFICES ASSUME n = 2, ls[1].key = ls[2].key PROVE FALSE
      BY <1>6
    <3>1. order[1] = order[2]
      BY <1>5
    <3> QED
      BY <1>2, <3>1
  <2> QED
    BY <1>2, <1>6, <2>1 DEF IsLines
<1>8. \A i \in 1 .. n : ls[i].key = Id <=> order[i] = <<Id>>
  BY <1>5
<1>9. \A i \in 1 .. n : ls[i].key = PwHash <=> order[i] = <<PwHash>>
  BY <1>5
<1>10. Layout(ls, s, good)
  <2>1. \A i \in DOMAIN ls :
          IF ls[i].key = Id THEN s # NoSession /\ ls[i].value = <<s>>
          ELSE ls[i].value \in Seq(Range(Hash)) /\ (good => ls[i].value = Hash)
    <3> SUFFICES ASSUME NEW i \in 1 .. n
                 PROVE  IF ls[i].key = Id THEN s # NoSession /\ ls[i].value = <<s>>
                        ELSE ls[i].value \in Seq(Range(Hash)) /\ (good => ls[i].value = Hash)
      BY <1>6
    <3>1. CASE ls[i].key = Id
      <4>1. order[i] = <<Id>> /\ order[i] \in D
        BY <1>3, <1>8, <3>1
      <4>2. s # NoSession /\ map[<<Id>>] = <<s>>
        BY <4>1 DEF MapIs, D
      <4> QED
        BY <1>5, <3>1, <4>1, <4>2
    <3>2. CASE ls[i].key # Id
      <4>1. order[i] = <<PwHash>> /\ order[i] \in DOMAIN map
        BY <1>3, <1>5, <1>9, <3>2 DEF D
      <4> QED
        BY <1>5, <3>2, <4>1 DEF MapIs
    <3> QED
      BY <3>1, <3>2
  <2>2. s # NoSession => \E i \in DOMAIN ls : ls[i].key = Id
    BY <1>2, <1>6, <1>8 DEF MapIs, D
  <2>3. good => \E i \in DOMAIN ls : ls[i].key = PwHash
    BY <1>2, <1>6, <1>9 DEF MapIs, D
  <2> QED
    BY <1>7, <2>1, <2>2, <2>3 DEF Layout
<1>11. Pieces(map, order) = RestOf(ls, 0)
  <2>1. Len(order) = n
    BY <1>2, IsSeq
  <2>2. PICK m \in Nat : m = 3 * n
    BY <1>2
  <2>3. ASSUME NEW j \in 1 .. m
        PROVE  Pieces(map, order)[j] = PieceAt(ls, j)
    <3>1. PICK i \in 1 .. n : i = (j + 2) \div 3
      BY <1>2, <2>2, <2>3
    <3>2. ls[i].value = map[order[i]] /\ <<ls[i].key>> = order[i]
      BY <1>5
    <3>3. Pieces(map, order)[j] =
            CASE j % 3 = 1 -> order[i] [] j % 3 = 2 -> <<Sep>>
              [] j % 3 = 0 -> Append(map[order[i]], NL)
      BY <2>1, <2>2, <3>1 DEF Pieces
    <3> QED
      BY <3>1, <3>2, <3>3 DEF PieceAt
  <2>4. Pieces(map, order) = [j \in 1 .. m |-> Pieces(map, order)[j]]
    BY <2>1, <2>2 DEF Pieces
  <2>5. RestOf(ls, 0) = [j \in 1 .. m |-> PieceAt(ls, j)]
    <3>1. 3 * Len(ls) - 0 = m /\ \A j \in 1 .. m : 0 + j = j
      BY <1>6, <2>2
    <3> QED
      BY <3>1 DEF RestOf
  <2> QED
    BY <2>3, <2>4, <2>5
<1> QED
  BY <1>10, <1>11

-----------------------------------------------------------------------------
\* The ids in a text

\* A sequence over two sets is one over what they share.
LEMMA SeqBoth ==
    ASSUME NEW A, NEW B, NEW q, q \in Seq(A), q \in Seq(B)
    PROVE  q \in Seq(A \cap B)
<1>1. \A i \in 1 .. Len(q) : q[i] \in A \cap B
  OBVIOUS
<1>2. q = [i \in 1 .. Len(q) |-> q[i]] /\ Len(q) \in Nat
  OBVIOUS
<1>3. q \in [1 .. Len(q) -> A \cap B]
  BY <1>1, <1>2
<1> QED
  BY <1>2, <1>3, IsSeq

\* A line whose key and value are over a set of cells, and what is written of it.
LEMMA StartIn ==
    ASSUME NEW S, Sep \in S, NL \in S, NEW l \in LineOf, l.key \in S, l.value \in Seq(S),
           NEW m \in 1 .. 3
    PROVE  Start(l, m) \in Seq(S)
<1>1. PICK k, v : l.key = k /\ l.value = v
  OBVIOUS
<1>2. <<k, Sep>> \in Seq(S) /\ <<k>> \in Seq(S) /\ <<NL>> \in Seq(S) /\ <<>> \in Seq(S)
  BY <1>1
<1>3. v \in Seq(S)
  BY <1>1
<1>4. <<k, Sep>> \o v \in Seq(S) /\ <<k, Sep>> \o <<>> \in Seq(S)
  BY <1>2, <1>3
<1>5. <<k, Sep>> \o v \o <<NL>> \in Seq(S) /\ <<k, Sep>> \o <<>> \o <<>> \in Seq(S)
  BY <1>2, <1>4
<1>6. CASE m = 1
  BY <1>1, <1>2, <1>6 DEF Start
<1>7. CASE m = 2
  BY <1>1, <1>5, <1>7 DEF Start, Row
<1>8. CASE m = 3
  BY <1>1, <1>5, <1>8 DEF Start, Row
<1> QED
  BY <1>6, <1>7, <1>8

\* The cells of a text that shows no other session than s.
But(s) == Cell \ (SessionId \ {s})

\* A text has no other session in it than the one that its last update was to store.
LEMMA TextIds ==
    ASSUME NEW ls, NEW s, NEW good, s # NoSession => s \in SessionId, Layout(ls, s, good),
           NEW n, n \in 0 .. 3 * Len(ls), NEW t, t = TextAt(ls, n)
    PROVE  t \in Seq(But(s))
<1>1. IsLines(ls) /\ Len(ls) \in {0, 1, 2} /\ DOMAIN ls = 1 .. Len(ls)
  BY LinesTyped DEF Layout
<1>2. {NL, Sep, PwHash, Id} \subseteq But(s) /\ Range(Hash) \subseteq But(s)
  BY CredsAssumption DEF But, Cell
<1>3. ASSUME NEW i \in DOMAIN ls
      PROVE  ls[i] \in LineOf /\ ls[i].key \in But(s) /\ ls[i].value \in Seq(But(s))
  <2>1. ls[i] \in LineOf /\ ls[i].key \in {PwHash, Id}
    BY <1>1, LinesTyped DEF LineOf
  <2>2. CASE ls[i].key = Id
    <3>1. s \in SessionId /\ ls[i].value = <<s>>
      BY <2>2 DEF Layout
    <3>2. s \in But(s)
      BY <3>1 DEF But, Cell
    <3>3. <<s>> \in Seq(But(s))
      BY <3>2
    <3> QED
      BY <1>2, <2>1, <3>1, <3>3
  <2>3. CASE ls[i].key # Id
    <3>1. ls[i].value \in Seq(Range(Hash))
      BY <2>3 DEF Layout
    <3> QED
      BY <1>2, <2>1, <3>1, SeqLarger
  <2> QED
    BY <2>2, <2>3
<1>4. \A i \in DOMAIN ls, m \in 1 .. 3 : Start(ls[i], m) \in Seq(But(s))
  BY <1>2, <1>3, StartIn
<1>5. CASE n = 0
  BY <1>5 DEF TextAt
<1>6. CASE n # 0 /\ n <= 3
  <2>1. 1 \in DOMAIN ls /\ n \in 1 .. 3
    <3>1. CASE Len(ls) = 0
      BY <1>6, <3>1
    <3>2. CASE Len(ls) # 0
      BY <1>1, <1>6, <3>2
    <3> QED
      BY <3>1, <3>2
  <2> QED
    BY <1>4, <1>6, <2>1 DEF TextAt
<1>7. CASE n > 3
  <2>1. Len(ls) = 2
    <3>1. CASE Len(ls) = 0
      BY <1>7, <3>1
    <3>2. CASE Len(ls) = 1
      BY <1>7, <3>2
    <3> QED
      BY <1>1, <3>1, <3>2
  <2>2. 1 \in DOMAIN ls /\ 2 \in DOMAIN ls /\ n - 3 \in 1 .. 3 /\ 3 \in 1 .. 3
    BY <1>1, <1>7, <2>1
  <2>3. PICK a \in Seq(But(s)), b \in Seq(But(s)) : a = Start(ls[1], 3) /\ b = Start(ls[2], n - 3)
    BY <1>4, <2>2
  <2>4. a \o b \in Seq(But(s))
    OBVIOUS
  <2>5. n # 0 /\ ~(n <= 3)
    BY <1>7
  <2> QED
    BY <2>3, <2>4, <2>5 DEF TextAt
<1>8. n \in Nat
  BY <1>1
<1> QED
  BY <1>5, <1>6, <1>7, <1>8

\* The id of a session that is found is among the cells that were read.
LEMMA FoundCell ==
    ASSUME NEW S, NEW cells \in Seq(S), NEW s, HasSession(cells, s)
    PROVE  s \in S
<1>1. Maps(cells, <<Id>>, <<s>>)
  BY DEF HasSession
<1>2. <<s>> \in Seq(S)
  BY <1>1, MapsToEntry
<1> QED
  BY <1>2, <<s>>[1] = s, Len(<<s>>) = 1

-----------------------------------------------------------------------------
\* The invariant

\* The first n pieces of these lines are in the file, and the rest is still to be
\* written by the thread that rewrites it, if there is one.
UserIs(u, ls, n) ==
    /\ Layout(ls, last[u], u \notin cut) /\ n \in 0 .. 3 * Len(ls)
    /\ text[u] = TextAt(ls, n)
    /\ u \notin cut /\ Writing(u) = {} => n = 3 * Len(ls)
    /\ \A t \in Thread : pc[t] = "write" /\ user[t] = u =>
            /\ last[u] = id[t]
            /\ handle[t] = [file |-> u, pos |-> Len(text[u]), pieces |-> RestOf(ls, n)]

\* So it is for some lines, unless two updates have overlapped.
UserOK(u) == u \notin overlapped => \E ls, n : UserIs(u, ls, n)

\* Of the ids that ever were shown, only the one that is shown is in the file.
IdsOK(u) == u \notin overlapped => text[u] \in Seq(Cell \ (used \ {shown[u]}))

\* It is in update_user.
Calling(t) == pc[t] \in {"update", "open", "write"}

\* Unless updates overlap, what a thread has read to update a file is what the file
\* begins with, what it is to store is new or is shown, and what it has read for a
\* lookup has no id in it that was revoked before.
CallOK(t) ==
    /\ pc[t] = "open" /\ user[t] \notin overlapped => MapIs(kv[t], id[t], user[t] \notin cut)
    /\ pc[t] = "update" /\ user[t] \notin overlapped => Begins(got[t], text[user[t]])
    /\ Calling(t) /\ id[t] # NoSession /\ id[t] \in used /\ user[t] \notin overlapped =>
            pc[t] = "write" /\ shown[user[t]] = id[t]
    /\ gone[t] \subseteq used /\ \A u \in Account \ overlapped : shown[u] \notin gone[t]
    /\ pc[t] = "lookup" /\ user[t] \notin overlapped => got[t] \in Seq(Cell \ gone[t])
    /\ \A u \in hits[t] \ overlapped : id[t] \notin gone[t]

\* Two requests rewrite one file only if its user counts as overlapped, and never
\* store the same id.
PairOK(t, w) ==
    /\ \A u \in Account \ overlapped : ~(IsUpdating(t, u) /\ IsUpdating(w, u))
    /\ Calling(t) /\ Calling(w) /\ id[t] = id[w] => id[t] = NoSession

\* All together; the file of every user shows what the registry has.
OrderInv ==
    /\ \A u \in Account : UserOK(u) /\ IdsOK(u) /\ shown[u] = Session(u)
    /\ \A t \in Thread : CallOK(t) /\ \A w \in Thread \ {t} : PairOK(t, w)
    /\ \A u \in Account : shown[u] \in used \cup {NoSession}
    /\ \A s \in used : owner[s] # NoUser

\* If the password need not be there, it may be.
LEMMA LayoutLess ==
    ASSUME NEW ls, NEW s, NEW good, NEW less, Layout(ls, s, good), less => good
    PROVE  Layout(ls, s, less)
BY DEF Layout

\* The same for a map.
LEMMA MapLess ==
    ASSUME NEW map, NEW s, NEW good, NEW less, MapIs(map, s, good), less => good
    PROVE  MapIs(map, s, less)
BY DEF MapIs

\* The sessions that a text shows: at most one, after the first n pieces of lines.
Seen(t) ==
    {x \in SessionId : CanRead(t) /\ HasKey(t, <<PwHash>>) /\ Maps(t, <<Id>>, <<x>>)}

\* After the first n pieces a text shows the session, or none.
LEMMA SeenIs ==
    ASSUME NEW ls, NEW s, NEW good, s # NoSession => s \in SessionId, Layout(ls, s, good),
           NEW n, n \in 0 .. 3 * Len(ls), NEW t, t = TextAt(ls, n)
    PROVE  Seen(t) = (IF Shows(ls, n) THEN {s} ELSE {}) /\ (Shows(ls, n) => s # NoSession)
<1>1. ASSUME NEW x \in SessionId
      PROVE  (CanRead(t) /\ HasKey(t, <<PwHash>>) /\ Maps(t, <<Id>>, <<x>>))
                <=> Shows(ls, n) /\ x = s
  BY SessionShown
<1>2. ASSUME Shows(ls, n) PROVE s \in SessionId
  <2>1. Len(ls) = 2 /\ DOMAIN ls = 1 .. Len(ls) /\ IsLines(ls)
    BY <1>2, LinesTyped DEF Shows, Layout
  <2>2. 1 \in DOMAIN ls /\ 2 \in DOMAIN ls /\ ls[1].key # ls[2].key
    BY <2>1 DEF IsLines
  <2>3. ls[1].key \in {PwHash, Id} /\ ls[2].key \in {PwHash, Id}
    BY <2>1, <2>2, LinesTyped DEF LineOf
  <2>4. \E i \in DOMAIN ls : ls[i].key = Id
    BY <2>2, <2>3
  <2>5. s # NoSession
    BY <2>4 DEF Layout
  <2> QED
    BY <2>5
<1>3. Shows(ls, n) => s # NoSession
  BY <1>2, CredsAssumption
<1>4. Seen(t) = IF Shows(ls, n) THEN {s} ELSE {}
  BY <1>1, <1>2 DEF Seen
<1> QED
  BY <1>3, <1>4

\* The session that a text shows.
SessionIn(t) == IF Seen(t) # {} THEN CHOOSE s \in SessionId : s \in Seen(t) ELSE NoSession

\* What find_user returns of a session, now and after a step.
LEMMA SessionSeen ==
    ASSUME NEW u
    PROVE  /\ Session(u) = SessionIn(text[u])
           /\ Session(u)' = SessionIn(text'[u])
           /\ \A x \in SessionId : HasSession(text[u], x) <=> x \in Seen(text[u])
<1>1. \A t : \A x \in SessionId : HasSession(t, x) <=> x \in Seen(t)
  BY DEF HasSession, Finds, Seen
<1>2. \A t : /\ (\E s \in SessionId : HasSession(t, s)) <=> Seen(t) # {}
             /\ (CHOOSE s \in SessionId : HasSession(t, s)) = CHOOSE s \in SessionId : s \in Seen(t)
  BY <1>1 DEF Seen
<1>3. Session(u) = SessionIn(text[u])
  BY <1>2 DEF Session, SessionIn
<1>4. Session(u)' = SessionIn(text'[u])
  BY <1>2 DEF Session, SessionIn
<1> QED
  BY <1>1, <1>3, <1>4

\* The same, for the session itself.
LEMMA SessionInIs ==
    ASSUME NEW ls, NEW s, NEW good, s # NoSession => s \in SessionId, Layout(ls, s, good),
           NEW n, n \in 0 .. 3 * Len(ls), NEW t, t = TextAt(ls, n)
    PROVE  SessionIn(t) = (IF Shows(ls, n) THEN s ELSE NoSession)
           /\ (Shows(ls, n) => s # NoSession)
BY SeenIs DEF SessionIn

\* What the file of a user shows, if no updates of it have overlapped.
LEMMA SessionIs ==
    ASSUME TypeOK, NEW u \in Account, NEW ls, NEW n, UserIs(u, ls, n)
    PROVE  /\ Session(u) = IF Shows(ls, n) THEN last[u] ELSE NoSession
           /\ Shows(ls, n) => last[u] # NoSession
<1>1. /\ last[u] # NoSession => last[u] \in SessionId
      /\ Layout(ls, last[u], u \notin cut)
      /\ n \in 0 .. 3 * Len(ls) /\ text[u] = TextAt(ls, n)
  BY DEF UserIs, TypeOK
<1>2. /\ SessionIn(text[u]) = IF Shows(ls, n) THEN last[u] ELSE NoSession
      /\ Shows(ls, n) => last[u] # NoSession
  BY <1>1, SessionInIs
<1> QED
  BY <1>2, SessionSeen

\* A user of whom nothing changes, but that writing is cut short or at its end.
LEMMA UserStays ==
    ASSUME IInv, NEW v \in Account, UserOK(v), text'[v] = text[v], last'[v] = last[v],
           v \in overlapped => v \in overlapped', v \in cut => v \in cut',
           \A w \in Thread : pc'[w] = "write" /\ user'[w] = v =>
                pc[w] = "write" /\ user[w] = v /\ id'[w] = id[w] /\ handle'[w] = handle[w],
           \/ v \in cut'
           \/ Writing(v)' = {} => Writing(v) = {}
           \/ \E w \in Thread : pc[w] = "write" /\ user[w] = v /\ handle[w].pieces = <<>>
    PROVE  UserOK(v)'
<1> SUFFICES ASSUME v \notin overlapped' PROVE \E ls, n : UserIs(v, ls, n)'
  BY DEF UserOK
<1>1. PICK ls, n : UserIs(v, ls, n)
  BY DEF UserOK
<1>2. Layout(ls, last'[v], v \notin cut') /\ n \in 0 .. 3 * Len(ls) /\ text'[v] = TextAt(ls, n)
  BY <1>1, LayoutLess DEF UserIs
<1>3. ASSUME v \notin cut', Writing(v)' = {} PROVE n = 3 * Len(ls)
  <2>1. CASE Writing(v) = {}
    BY <1>1, <1>3, <2>1 DEF UserIs
  <2>2. ASSUME NEW w \in Thread, pc[w] = "write", user[w] = v, handle[w].pieces = <<>>
        PROVE  n = 3 * Len(ls)
    <3>1. RestOf(ls, n) = <<>>
      BY <1>1, <2>2 DEF UserIs
    <3>2. IsLines(ls) /\ n \in Nat /\ n <= 3 * Len(ls)
      <4>1. IsLines(ls)
        BY <1>2 DEF Layout
      <4>2. 3 * Len(ls) \in Nat
        BY <4>1, LinesTyped
      <4> QED
        BY <1>2, <4>1, <4>2
    <3> QED
      BY <3>1, <3>2, RestStep
  <2> QED
    BY <1>3, <2>1, <2>2
<1>4. \A w \in Thread : pc'[w] = "write" /\ user'[w] = v =>
            /\ last'[v] = id'[w]
            /\ handle'[w] = [file |-> v, pos |-> Len(text'[v]), pieces |-> RestOf(ls, n)]
  BY <1>1 DEF UserIs
<1>5. UserIs(v, ls, n)'
  BY <1>2, <1>3, <1>4 DEF UserIs
<1> QED
  BY <1>5

\* Whose file is open is the user of the thread.
LEMMA Handles ==
    ASSUME IInv, NEW t \in Thread, NEW v \in Account, handle[t].file = v
    PROVE  pc[t] = "write" /\ user[t] = v /\ IsUpdating(t, v)
BY TextFileAssumption DEF IInv, HandleOK, Closed, IsUpdating, Account

\* The ids in a file that is not written stay as they are: the ids that are shown for
\* the first time are those of other users.
LEMMA IdsStay ==
    ASSUME IInv, NEW v \in Account, IdsOK(v), text'[v] = text[v], shown'[v] = shown[v],
           v \in overlapped => v \in overlapped',
           used' \subseteq SessionId, \A s \in used' \ used : owner[s] # v
    PROVE  IdsOK(v)'
<1> SUFFICES ASSUME v \notin overlapped' PROVE text[v] \in Seq(Cell \ (used' \ {shown[v]}))
  BY DEF IdsOK
<1> DEFINE A == Cell \ (used \ {shown[v]})
<1>1. text[v] \in Seq(A) /\ text[v] \in Seq(Mine(v))
  BY DEF IdsOK, IInv, FileOK
<1>2. text[v] \in Seq(A \cap Mine(v))
  BY <1>1, SeqBoth
<1>3. A \cap Mine(v) \subseteq Cell \ (used' \ {shown[v]})
  <2> SUFFICES ASSUME NEW c \in Mine(v), c \in used', c \notin used PROVE FALSE
    BY DEF Mine
  <2>1. owner[c] # v
    OBVIOUS
  <2>2. c \notin SessionId
    BY <2>1 DEF Mine
  <2> QED
    BY <2>2
<1> QED
  BY <1>2, <1>3, SeqLarger

-----------------------------------------------------------------------------
\* Steps

\* A request that a step does not move.
Unmoved(w) ==
    /\ pc'[w] = pc[w] /\ user'[w] = user[w] /\ id'[w] = id[w] /\ got'[w] = got[w]
    /\ kv'[w] = kv[w] /\ gone'[w] = gone[w] /\ hits'[w] = hits[w]

\* Users that count as overlapped or cut, and ids that are used, stay so.
Grows == overlapped \subseteq overlapped' /\ cut \subseteq cut' /\ used \subseteq used'

\* What a step may do to another thread's request, unless updates overlap.
Spares(w) ==
    user[w] \notin overlapped' =>
        /\ Calling(w) /\ id[w] # NoSession /\ id[w] \in used' => id[w] \in used
        /\ pc[w] = "write" => shown'[user[w]] = shown[user[w]]
        /\ pc[w] = "update" => got[w] = <<>> \/ text'[user[w]] = text[user[w]]

\* A request that a step spares stays as it should be.
LEMMA CallStays ==
    ASSUME NEW w, CallOK(w), Unmoved(w), Grows, Spares(w),
           \A u \in Account \ overlapped' : shown'[u] \notin used \/ shown'[u] = shown[u]
    PROVE  CallOK(w)'
<1>1. pc[w] = "open" /\ user[w] \notin overlapped' => MapIs(kv[w], id[w], user[w] \notin cut')
  <2> SUFFICES ASSUME pc[w] = "open", user[w] \notin overlapped'
               PROVE  MapIs(kv[w], id[w], user[w] \notin cut')
    OBVIOUS
  <2>1. MapIs(kv[w], id[w], user[w] \notin cut)
    BY DEF CallOK, Grows
  <2>2. user[w] \notin cut' => user[w] \notin cut
    BY DEF Grows
  <2> QED
    BY <2>1, <2>2, MapLess
<1>2. Calling(w)' <=> Calling(w)
  BY DEF Calling, Unmoved
<1>3. Calling(w) /\ id[w] # NoSession /\ id[w] \in used' /\ user[w] \notin overlapped' =>
            pc[w] = "write" /\ shown'[user[w]] = id[w]
  BY DEF CallOK, Spares, Grows
<1>4. gone[w] \subseteq used' /\ \A u \in Account \ overlapped' : shown'[u] \notin gone[w]
  BY DEF CallOK, Grows
<1>5. \A u \in hits[w] \ overlapped' : id[w] \notin gone[w]
  BY DEF CallOK, Grows
<1>6. pc[w] = "update" /\ user[w] \notin overlapped' => Begins(got[w], text'[user[w]])
  <2>1. Begins(<<>>, text'[user[w]])
    BY BeginsEmpty
  <2> QED
    BY <2>1 DEF CallOK, Spares, Grows
<1>7. pc[w] = "lookup" /\ user[w] \notin overlapped' => got[w] \in Seq(Cell \ gone[w])
  BY DEF CallOK, Grows
<1> QED
  BY <1>1, <1>2, <1>3, <1>4, <1>5, <1>6, <1>7 DEF CallOK, Unmoved

\* So do two of them.
LEMMA PairStays ==
    ASSUME NEW t, NEW w, PairOK(t, w), Unmoved(t), Unmoved(w), Grows
    PROVE  PairOK(t, w)'
BY DEF PairOK, Unmoved, Grows, Calling, IsUpdating

\* It does not matter which of two requests comes first.
LEMMA PairSym ==
    ASSUME NEW t, NEW w
    PROVE  PairOK(t, w)' => PairOK(w, t)'
BY DEF PairOK

\* A step of one request that spares the others, and keeps the files of all users as
\* they should be, keeps the invariant.
LEMMA OrderStep ==
    ASSUME OrderInv, NEW t \in Thread, Grows,
           \A w \in Thread \ {t} : Unmoved(w) /\ Spares(w) /\ PairOK(t, w)',
           CallOK(t)',
           \A u \in Account \ overlapped' : shown'[u] \notin used \/ shown'[u] = shown[u],
           \A u \in Account : UserOK(u)' /\ IdsOK(u)' /\ shown'[u] = Session(u)',
           \A u \in Account : shown'[u] \in used' \cup {NoSession},
           \A s \in used' : owner'[s] # NoUser
    PROVE  OrderInv'
<1>1. ASSUME NEW w \in Thread PROVE CallOK(w)'
  BY CallStays DEF OrderInv
<1>2. ASSUME NEW w \in Thread, NEW x \in Thread \ {w} PROVE PairOK(w, x)'
  BY PairStays, PairSym DEF OrderInv
<1> QED
  BY <1>1, <1>2 DEF OrderInv

\* A request's step that writes nothing, or closes its file.
LEMMA QuietStep ==
    ASSUME IInv, OrderInv, NEW t \in Thread,
           UNCHANGED <<text, shown, used, last, overlapped>>, cut \subseteq cut',
           handle' = handle \/ handle' = [handle EXCEPT ![t] = Closed],
           pc[t] = "write" => user[t] \in cut' \/ handle[t].pieces = <<>>,
           \A w \in Thread \ {t} : Unmoved(w),
           pc'[t] \in {"idle", "find", "lookup", "update"},
           pc'[t] = "update" => got'[t] = <<>>,
           pc'[t] = "update" /\ id'[t] # NoSession =>
                id'[t] \notin used /\ \A w \in Thread \ {t} : Calling(w) => id[w] # id'[t],
           gone'[t] \subseteq used /\ \A u \in Account \ overlapped : shown[u] \notin gone'[t],
           pc'[t] = "lookup" /\ user'[t] \notin overlapped => got'[t] \in Seq(Cell \ gone'[t]),
           \A u \in hits'[t] \ overlapped : id'[t] \notin gone'[t],
           \A s \in used : owner'[s] # NoUser
    PROVE  OrderInv'
<1>1. Grows
  BY DEF Grows
<1>2. \A w \in Thread \ {t} : Spares(w)
  BY DEF Spares
<1>3. \A w \in Thread \ {t} : PairOK(t, w)'
  <2> SUFFICES ASSUME NEW w \in Thread \ {t} PROVE PairOK(t, w)'
    OBVIOUS
  <2>1. \A u \in Account : ~IsUpdating(t, u)'
    BY DEF IsUpdating
  <2>2. Calling(w)' <=> Calling(w)
    BY DEF Calling, Unmoved
  <2>3. Calling(t)' => pc'[t] = "update"
    BY DEF Calling
  <2> QED
    BY <2>1, <2>2, <2>3 DEF PairOK, Unmoved
<1>4. CallOK(t)'
  <2>1. pc'[t] = "update" => Begins(got'[t], text'[user'[t]])
    BY BeginsEmpty
  <2> QED
    BY <2>1 DEF CallOK, Calling
<1>5. ASSUME NEW u \in Account PROVE UserOK(u)'
  <2>1. \A w \in Thread : pc'[w] = "write" /\ user'[w] = u =>
            pc[w] = "write" /\ user[w] = u /\ id'[w] = id[w] /\ handle'[w] = handle[w]
    <3> SUFFICES ASSUME NEW w \in Thread, pc'[w] = "write", user'[w] = u
                 PROVE  pc[w] = "write" /\ user[w] = u /\ id'[w] = id[w] /\ handle'[w] = handle[w]
      OBVIOUS
    <3>1. w # t
      OBVIOUS
    <3>2. handle'[w] = handle[w]
      BY <3>1 DEF IInv, TypeOK
    <3> QED
      BY <3>1, <3>2 DEF Unmoved
  <2>2. \/ u \in cut'
        \/ Writing(u)' = {} => Writing(u) = {}
        \/ \E w \in Thread : pc[w] = "write" /\ user[w] = u /\ handle[w].pieces = <<>>
    <3>1. CASE handle' = handle
      BY <3>1 DEF Writing
    <3>2. CASE handle' = [handle EXCEPT ![t] = Closed]
      <4>1. CASE handle[t].file = u
        BY <4>1, Handles
      <4>2. CASE handle[t].file # u
        <5>1. Writing(u) \subseteq Writing(u)'
          <6> SUFFICES ASSUME NEW w \in Thread, handle[w].file = u PROVE handle'[w].file = u
            BY DEF Writing
          <6>1. handle'[w] = handle[w]
            BY <3>2, <4>2 DEF IInv, TypeOK
          <6> QED
            BY <6>1
        <5> QED
          BY <5>1
      <4> QED
        BY <4>1, <4>2
    <3> QED
      BY <3>1, <3>2
  <2>3. UserOK(u) /\ text'[u] = text[u] /\ last'[u] = last[u]
    BY DEF OrderInv
  <2> QED
    BY <2>1, <2>2, <2>3, UserStays
<1>6. \A u \in Account : shown'[u] = Session(u)' /\ IdsOK(u)'
  BY SessionSeen DEF OrderInv, IdsOK
<1>7. \A u \in Account : shown'[u] \in used' \cup {NoSession}
  BY DEF OrderInv
<1> QED
  BY <1>1, <1>2, <1>3, <1>4, <1>5, <1>6, <1>7, OrderStep

\* A handler that answers, or calls update_user, moves no other one.
LEMMA MovesOnly ==
    ASSUME IInv, NEW t \in Thread, NEW w \in Thread \ {t},
           Answer(t) \/ \E u \in Account, s \in SessionId \cup {NoSession} : CallUpdate(t, u, s)
    PROVE  Unmoved(w)
<1>1. /\ kv = [x \in Thread |-> kv[x]]
      /\ pc \in [Thread -> {"idle", "find", "lookup", "update", "open", "write"}]
      /\ got \in [Thread -> Seq(Cell)]
      /\ user \in [Thread -> Account \cup {NoUser}]
      /\ id \in [Thread -> SessionId \cup {NoSession}]
      /\ hits \in [Thread -> SUBSET Account] /\ gone \in [Thread -> SUBSET SessionId]
  BY DEF IInv, TypeOK
<1>2. CASE Answer(t)
  BY <1>1, <1>2 DEF Answer, DropRead, GoTo, Unmoved
<1>3. ASSUME NEW u \in Account, NEW s \in SessionId \cup {NoSession}, CallUpdate(t, u, s)
      PROVE  Unmoved(w)
  BY <1>1, <1>3 DEF CallUpdate, DropRead, GoTo, Unmoved
<1> QED
  BY <1>2, <1>3

\* A step of the registry, or none.
RegStep == [Registry!Next]_<<shown, used, owner, overlapped>>

\* The registry does not see the others.
Unseen == UNCHANGED <<shown, used, owner, overlapped>>

\* Requests that end.
LEMMA EndOrder ==
    ASSUME IInv, OrderInv, NEW t \in Thread,
           \/ FindEnd(t) \/ LookupEnd(t) \/ ReadUserFails(t) \/ CloseUser(t)
           \/ CallFails(t) \/ WriteFails(t)
    PROVE  OrderInv' /\ Unseen
<1>1. /\ Answer(t) /\ UNCHANGED <<text, shown, used, last, overlapped>>
      /\ cut \subseteq cut' /\ owner' = owner
      /\ handle' = handle \/ handle' = [handle EXCEPT ![t] = Closed]
  BY DEF FindEnd, LookupEnd, ReadUserFails, CloseUser, CallFails, WriteFails, Close, files, ghosts
<1>2. pc[t] = "write" => user[t] \in cut' \/ handle[t].pieces = <<>>
  BY DEF FindEnd, LookupEnd, ReadUserFails, CloseUser, CallFails, WriteFails
<1>3. \A w \in Thread \ {t} : Unmoved(w)
  BY <1>1, MovesOnly
<1>4. pc'[t] = "idle" /\ gone'[t] = {} /\ hits'[t] = {}
  BY <1>1 DEF Answer, GoTo, IInv, TypeOK
<1>5. \A s \in used : owner'[s] # NoUser
  BY <1>1 DEF OrderInv
<1>6. OrderInv'
  BY <1>1, <1>2, <1>3, <1>4, <1>5, QuietStep
<1> QED
  BY <1>1, <1>6 DEF Unseen

\* A call of update_user, with no id or with one that nobody else has.
LEMMA CallOrder ==
    ASSUME IInv, OrderInv, NEW t \in Thread, NEW u \in Account,
           NEW s \in SessionId \cup {NoSession}, CallUpdate(t, u, s), OwnersStay,
           s # NoSession => s \notin used /\ \A w \in Thread \ {t} : Calling(w) => id[w] # s,
           \/ handle' = handle /\ pc[t] \in {"find", "lookup"}
           \/ handle' = [handle EXCEPT ![t] = Closed] /\ handle[t].pieces = <<>>,
           UNCHANGED <<text, shown, used, last, overlapped, cut>>
    PROVE  OrderInv'
<1>1. \A w \in Thread \ {t} : Unmoved(w)
  BY MovesOnly
<1>2. pc'[t] = "update" /\ gone'[t] = {} /\ hits'[t] = {} /\ id'[t] = s /\ got'[t] = <<>>
  BY DEF CallUpdate, DropRead, GoTo, IInv, TypeOK
<1>3. \A r \in used : owner'[r] # NoUser
  BY DEF OrderInv, OwnersStay, IInv, TypeOK
<1> QED
  BY <1>1, <1>2, <1>3, QuietStep

\* An id that a request is to store has been drawn.
LEMMA CallerOwns ==
    ASSUME IInv, NEW w \in Thread, Calling(w), id[w] # NoSession
    PROVE  owner[id[w]] # NoUser
BY TextFileAssumption DEF IInv, RequestOK, Calling, Account, NoUser

\* A login draws an id that is in no hands, and never was stored.
LEMMA LoginOrder ==
    ASSUME IInv, OrderInv, NEW t \in Thread, Login(t)
    PROVE  OrderInv' /\ RegStep
<1>0. PICK u \in Account : u = user[t]
  BY DEF Login, IInv, RequestOK
<1>1. PICK s \in SessionId :
        owner[s] = NoUser /\ owner' = [owner EXCEPT ![s] = u] /\ CallUpdate(t, u, s)
  BY <1>0 DEF Login
<1>2. OwnersStay
  BY <1>1 DEF OwnersStay, IInv, TypeOK
<1>3. s \notin used
  BY <1>1 DEF OrderInv
<1>4. ASSUME NEW w \in Thread, Calling(w) PROVE id[w] # s
  BY <1>1, <1>4, CallerOwns, CredsAssumption
<1>5. handle' = handle /\ pc[t] = "find" /\ UNCHANGED <<text, shown, used, last, overlapped, cut>>
  BY DEF Login, files
<1>6. OrderInv'
  BY <1>1, <1>2, <1>3, <1>4, <1>5, CallOrder
<1>7. Registry!Draw(u, s)
  BY <1>1, <1>5 DEF Registry!Draw
<1> QED
  BY <1>6, <1>7 DEF RegStep, Registry!Next

\* A logout stores none.
LEMMA LogoutOrder ==
    ASSUME IInv, OrderInv, NEW t \in Thread,
           Logout(t) \/ LogoutAfterLogin(t) \/ LogoutByPassword(t)
    PROVE  OrderInv' /\ Unseen
<1>1. OwnersStay /\ UNCHANGED <<text, owner, shown, used, last, overlapped, cut>>
  BY DEF OwnersStay, Logout, LogoutAfterLogin, LogoutByPassword, files, ghosts, Close
<1>2. CASE Logout(t)
  <2>1. PICK u \in Account : CallUpdate(t, u, NoSession)
    BY <1>2 DEF Logout, IInv, TypeOK
  <2>2. handle' = handle /\ pc[t] = "lookup"
    BY <1>2 DEF Logout, files
  <2>3. OrderInv'
    BY <1>1, <2>1, <2>2, CallOrder
  <2> QED
    BY <1>1, <2>3 DEF Unseen
<1>3. CASE LogoutAfterLogin(t)
  <2>1. user[t] \in Account /\ CallUpdate(t, user[t], NoSession)
    BY <1>3 DEF LogoutAfterLogin, IInv, RequestOK
  <2>2. handle' = [handle EXCEPT ![t] = Closed] /\ handle[t].pieces = <<>>
    BY <1>3 DEF LogoutAfterLogin, Close
  <2>3. OrderInv'
    BY <1>1, <2>1, <2>2, CallOrder
  <2> QED
    BY <1>1, <2>3 DEF Unseen
<1>4. CASE LogoutByPassword(t)
  <2>1. user[t] \in Account /\ CallUpdate(t, user[t], NoSession)
    BY <1>4 DEF LogoutByPassword, IInv, RequestOK
  <2>2. handle' = handle /\ pc[t] = "find"
    BY <1>4 DEF LogoutByPassword, files
  <2>3. OrderInv'
    BY <1>1, <2>1, <2>2, CallOrder
  <2> QED
    BY <1>1, <2>3 DEF Unseen
<1> QED
  BY <1>2, <1>3, <1>4

\* A lookup begins: what was revoked by now is not shown.
LEMMA LookupOrder ==
    ASSUME IInv, OrderInv, NEW t \in Thread, NEW s \in SessionId, Lookup(t, s)
    PROVE  OrderInv' /\ Unseen
<1>1. /\ UNCHANGED <<text, handle, owner, shown, used, last, overlapped, cut>>
      /\ pc[t] = "idle" /\ got[t] = <<>>
  BY DEF Lookup, files, ghosts, IInv, GotOK
<1>2. \A w \in Thread \ {t} : Unmoved(w)
  BY DEF Lookup, GoTo, Unmoved, IInv, TypeOK
<1>3. /\ pc'[t] = "lookup" /\ gone'[t] = used \ Range(shown) /\ hits'[t] = {}
      /\ got'[t] = <<>>
  BY <1>1 DEF Lookup, GoTo, IInv, TypeOK, RequestOK
<1>4. \A u \in Account \ overlapped : shown[u] \notin gone'[t]
  BY <1>3 DEF Range, IInv, TypeOK
<1>5. \A r \in used : owner'[r] # NoUser
  BY <1>1 DEF OrderInv
<1>6. got'[t] \in Seq(Cell \ gone'[t])
  BY <1>3
<1>7. OrderInv'
  BY <1>1, <1>2, <1>3, <1>4, <1>5, <1>6, QuietStep
<1> QED
  BY <1>1, <1>7 DEF Unseen

\* A user is read on: by a lookup, of what has no id in it that was revoked before.
LEMMA ReadingOrder ==
    ASSUME IInv, OrderInv, NEW t \in Thread,
           LookupRead(t) \/ \E u \in Account : FindRead(t, u)
    PROVE  OrderInv' /\ Unseen
<1>1. /\ UNCHANGED <<text, handle, id, kv, hits, gone, owner, shown, used, last, overlapped, cut>>
      /\ pc' = [pc EXCEPT ![t] = IF pc[t] = "lookup" THEN "lookup" ELSE "find"]
      /\ pc[t] # "write"
  BY DEF LookupRead, FindRead, GoTo, files, ghosts, IInv, TypeOK
<1>2. PICK u \in Account : /\ ReadSome(t, u) /\ user[t] \in {NoUser, u}
                           /\ user' = [user EXCEPT ![t] = u]
  BY DEF LookupRead, FindRead, Reads, IInv, TypeOK
<1>3. got' = [got EXCEPT ![t] = got'[t]]
  BY <1>2, MoreCells
<1>4. \A w \in Thread \ {t} : Unmoved(w)
  BY <1>1, <1>2, <1>3 DEF Unmoved, IInv, TypeOK
<1>5. pc'[t] \in {"find", "lookup"} /\ (pc'[t] = "lookup" => pc[t] = "lookup") /\ user'[t] = u
  BY <1>1, <1>2 DEF IInv, TypeOK
<1>6. CallOK(t) /\ IdsOK(u)
  BY DEF OrderInv
<1>7. ASSUME pc[t] = "lookup", u \notin overlapped PROVE got'[t] \in Seq(Cell \ gone[t])
  <2> DEFINE S == Cell \ gone[t]
  <2>1. got[t] \in Seq(S)
    <3>1. CASE user[t] = u
      BY <1>6, <1>7, <3>1 DEF CallOK
    <3>2. CASE user[t] = NoUser
      <4>1. got[t] = <<>>
        BY <3>2, TextFileAssumption DEF IInv, GotOK, NoUser, Account
      <4> QED
        BY <4>1
    <3> QED
      BY <1>2, <3>1, <3>2
  <2>2. text[u] \in Seq(S)
    <3>1. text[u] \in Seq(Cell \ (used \ {shown[u]}))
      BY <1>6, <1>7 DEF IdsOK
    <3>2. Cell \ (used \ {shown[u]}) \subseteq S
      BY <1>6, <1>7 DEF CallOK
    <3> QED
      BY <3>1, <3>2, SeqLarger
  <2> HIDE DEF S
  <2>3. PICK q : q = got[t] \o SubSeq(text[u], Len(got[t]) + 1,
                                      Min({Len(got[t]) + Buffer, Len(text[u])}))
    OBVIOUS
  <2>4. q \in Seq(S)
    BY <1>2, <2>1, <2>2, <2>3, TextFileAssumption, ReadOn DEF ReadSome
  <2>5. got'[t] = q
    BY <1>2, <2>3 DEF ReadSome, IInv, TypeOK
  <2> QED
    BY <2>4, <2>5 DEF S
<1>8. /\ gone'[t] \subseteq used /\ \A v \in Account \ overlapped : shown[v] \notin gone'[t]
      /\ \A v \in hits'[t] \ overlapped : id'[t] \notin gone'[t]
  BY <1>1, <1>6 DEF CallOK
<1>9. \A r \in used : owner'[r] # NoUser
  BY <1>1 DEF OrderInv
<1>10. pc'[t] = "lookup" /\ user'[t] \notin overlapped => got'[t] \in Seq(Cell \ gone'[t])
  BY <1>1, <1>5, <1>7
<1>11. OrderInv'
  BY <1>1, <1>4, <1>5, <1>8, <1>9, <1>10, QuietStep
<1> QED
  BY <1>1, <1>11 DEF Unseen

\* A user who is found with an id has it, so it was not revoked before.
LEMMA LookupNextOrder ==
    ASSUME IInv, OrderInv, NEW t \in Thread, LookupNext(t)
    PROVE  OrderInv' /\ Unseen
<1>1. /\ UNCHANGED <<text, handle, owner, shown, used, last, overlapped, cut, pc, id, kv, gone>>
      /\ pc[t] = "lookup" /\ got' = [got EXCEPT ![t] = <<>>]
      /\ user' = [user EXCEPT ![t] = NoUser]
  BY DEF LookupNext, DropRead, files, ghosts
<1>2. PICK u \in rest[t] :
        /\ user[t] = u
        /\ hits' = [hits EXCEPT ![t] = IF HasSession(got[t], id[t]) THEN @ \cup {u} ELSE @]
  BY DEF LookupNext
<1>3. \A w \in Thread \ {t} : Unmoved(w)
  BY <1>1, <1>2 DEF Unmoved, IInv, TypeOK
<1>4. CallOK(t)
  BY DEF OrderInv
<1>5. ASSUME HasSession(got[t], id[t]), u \notin overlapped PROVE id[t] \notin gone[t]
  <2>1. got[t] \in Seq(Cell \ gone[t])
    BY <1>1, <1>2, <1>4, <1>5 DEF CallOK
  <2> QED
    BY <1>5, <2>1, FoundCell
<1>6. \A v \in hits'[t] \ overlapped : id'[t] \notin gone'[t]
  BY <1>1, <1>2, <1>4, <1>5 DEF CallOK, IInv, TypeOK
<1>7. gone'[t] \subseteq used /\ \A v \in Account \ overlapped : shown[v] \notin gone'[t]
  BY <1>1, <1>4 DEF CallOK
<1>8. \A r \in used : owner'[r] # NoUser
  BY <1>1 DEF OrderInv
<1>9. got'[t] = <<>> /\ got'[t] \in Seq(Cell \ gone'[t]) /\ pc'[t] = "lookup"
  BY <1>1 DEF IInv, TypeOK
<1>10. OrderInv'
  BY <1>1, <1>3, <1>6, <1>7, <1>8, <1>9, QuietStep
<1> QED
  BY <1>1, <1>10 DEF Unseen

\* A restart cuts the files short that are not complete.
LEMMA RestartOrder ==
    ASSUME IInv, OrderInv, Restart
    PROVE  OrderInv' /\ Unseen
<1>1. /\ UNCHANGED <<text, owner, shown, used, last, overlapped>> /\ cut' = cut \cup Unfinished
      /\ handle' = [t \in Thread |-> Closed]
  BY DEF Restart, CloseAll
<1>2. \A t \in Thread : pc'[t] = "idle" /\ gone'[t] = {} /\ hits'[t] = {}
  BY DEF Restart
<1>3. \A t \in Thread : CallOK(t)' /\ \A w \in Thread : PairOK(t, w)'
  BY <1>2 DEF CallOK, PairOK, Calling, IsUpdating
<1>4. ASSUME NEW u \in Account PROVE UserOK(u)'
  <2>1. UserOK(u) /\ text'[u] = text[u] /\ last'[u] = last[u]
    BY <1>1 DEF OrderInv
  <2>2. \/ u \in cut'
        \/ Writing(u) = {}
        \/ \E w \in Thread : pc[w] = "write" /\ user[w] = u /\ handle[w].pieces = <<>>
    <3> SUFFICES ASSUME NEW w \in Thread, handle[w].file = u, handle[w].pieces # <<>>
                 PROVE  u \in cut'
      BY Handles DEF Writing
    <3> QED
      BY <1>1 DEF Unfinished
  <2> QED
    BY <1>1, <1>2, <2>1, <2>2, UserStays
<1>5. \A u \in Account : shown'[u] = Session(u)' /\ IdsOK(u)'
  BY <1>1, SessionSeen DEF OrderInv, IdsOK
<1> QED
  BY <1>1, <1>3, <1>4, <1>5 DEF OrderInv, Unseen

\* A request that is in update_user has a user.
LEMMA CallerIs ==
    ASSUME IInv, NEW t \in Thread, Calling(t)
    PROVE  user[t] \in Account
BY DEF IInv, RequestOK, Calling

\* An update reads: nobody else updates the file, or its user counts as overlapped.
LEMMA MeetsOrder ==
    ASSUME IInv, OrderInv, NEW t \in Thread, NEW u \in Account, u = user[t], Meets(t),
           UNCHANGED <<text, handle, user, id, hits, gone, owner, shown, used, last, cut>>,
           pc[t] = "update", pc'[t] \in {"update", "open"},
           \A w \in Thread \ {t} : Unmoved(w),
           pc'[t] = "open" /\ u \notin overlapped' => MapIs(kv'[t], id[t], u \notin cut),
           pc'[t] = "update" /\ u \notin overlapped' => Begins(got'[t], text[u])
    PROVE  OrderInv' /\ RegStep
<1>1. overlapped' = IF \E w \in Thread \ {t} : IsUpdating(w, u) THEN overlapped \cup {u} ELSE overlapped
  BY DEF Meets
<1>2. Grows
  BY <1>1 DEF Grows
<1>3. ASSUME NEW w \in Thread \ {t} PROVE Spares(w) /\ PairOK(t, w)'
  <2>1. Spares(w)
    BY DEF Spares
  <2>2. ASSUME NEW v \in Account \ overlapped', IsUpdating(t, v)', IsUpdating(w, v)' PROVE FALSE
    <3>1. v = u
      BY <2>2 DEF IsUpdating
    <3>2. IsUpdating(w, u)
      BY <2>2, <3>1 DEF IsUpdating, Unmoved
    <3> QED
      BY <1>1, <2>2, <3>1, <3>2
  <2>3. Calling(w)' /\ id'[t] = id'[w] => id'[t] = NoSession
    <3>1. Calling(t) /\ PairOK(t, w)
      BY DEF Calling, OrderInv
    <3>2. Calling(w)' => Calling(w)
      BY DEF Calling, Unmoved
    <3> QED
      BY <3>1, <3>2 DEF PairOK
  <2> QED
    BY <2>1, <2>2, <2>3 DEF PairOK
<1>4. CallOK(t)'
  <2>1. CallOK(t) /\ Calling(t)
    BY DEF OrderInv, Calling
  <2>2. id[t] # NoSession => id[t] \notin used \/ u \in overlapped
    BY <2>1 DEF CallOK
  <2>3. hits'[t] = {}
    BY DEF IInv, RequestOK
  <2>4. gone'[t] \subseteq used' /\ \A v \in Account \ overlapped' : shown'[v] \notin gone'[t]
    BY <1>2, <2>1 DEF CallOK, Grows
  <2> QED
    BY <1>2, <2>2, <2>3, <2>4 DEF CallOK, Grows
<1>5. ASSUME NEW v \in Account PROVE UserOK(v)' /\ IdsOK(v)'
  <2>1. \A w \in Thread : pc'[w] = "write" /\ user'[w] = v =>
            pc[w] = "write" /\ user[w] = v /\ id'[w] = id[w] /\ handle'[w] = handle[w]
    BY DEF Unmoved
  <2>2. Writing(v)' = Writing(v)
    BY DEF Writing
  <2>3. UserOK(v) /\ text'[v] = text[v] /\ last'[v] = last[v]
    BY DEF OrderInv
  <2>4. UserOK(v)'
    BY <1>2, <2>1, <2>2, <2>3, UserStays DEF Grows
  <2>5. IdsOK(v)'
    BY <1>2 DEF OrderInv, IdsOK, Grows
  <2> QED
    BY <2>4, <2>5
<1>6. \A v \in Account : shown'[v] = Session(v)'
  BY SessionSeen DEF OrderInv
<1>7. \A v \in Account : shown'[v] \in used' \cup {NoSession}
  BY DEF OrderInv
<1>8. \A s \in used' : owner'[s] # NoUser
  BY DEF OrderInv
<1>9. OrderInv'
  BY <1>2, <1>3, <1>4, <1>5, <1>6, <1>7, <1>8, OrderStep
<1>10. RegStep
  <2>1. CASE overlapped' = overlapped
    BY <2>1 DEF RegStep
  <2>2. CASE overlapped' = overlapped \cup {u}
    <3>1. Registry!Overlap(u)
      BY <2>2 DEF Registry!Overlap
    <3> QED
      BY <3>1 DEF RegStep, Registry!Next
  <2> QED
    BY <1>1, <2>1, <2>2
<1> QED
  BY <1>9, <1>10

\* An update reads on, of a file that stays as it is until the update has read it all.
LEMMA UpdateReadOrder ==
    ASSUME IInv, OrderInv, NEW t \in Thread, UpdateRead(t)
    PROVE  OrderInv' /\ RegStep
<1>0. PICK u \in Account : u = user[t]
  BY DEF UpdateRead, IInv, RequestOK
<1>1. /\ UNCHANGED <<text, handle, pc, user, id, kv, hits, gone, owner, shown, used, last, cut>>
      /\ pc[t] = "update" /\ Meets(t) /\ ReadSome(t, u)
  BY <1>0 DEF UpdateRead, files
<1>2. PICK q : /\ got' = [got EXCEPT ![t] = q] /\ Len(got[t]) < Len(text[u])
               /\ q = got[t] \o SubSeq(text[u], Len(got[t]) + 1,
                                       Min({Len(got[t]) + Buffer, Len(text[u])}))
  BY <1>1 DEF ReadSome
<1>3. \A w \in Thread \ {t} : Unmoved(w)
  BY <1>1, <1>2 DEF Unmoved, IInv, TypeOK
<1>4. ASSUME u \notin overlapped' PROVE Begins(got'[t], text[u])
  <2>1. u \notin overlapped
    BY <1>1, <1>4 DEF Meets
  <2>2. Begins(got[t], text[u])
    BY <1>0, <1>1, <2>1 DEF OrderInv, CallOK
  <2>3. text[u] \in Seq(Cell) /\ got[t] \in Seq(Cell) /\ Buffer \in Nat \ {0}
    BY TextFileAssumption DEF IInv, TypeOK
  <2>4. Begins(q, text[u])
    BY <1>2, <2>2, <2>3, ReadOn
  <2> QED
    BY <1>2, <2>4 DEF IInv, TypeOK
<1> QED
  BY <1>0, <1>1, <1>3, <1>4, MeetsOrder

\* It has read the whole file, that nobody writes, or its user counts as overlapped.
LEMMA ReadOrder ==
    ASSUME IInv, OrderInv, NEW t \in Thread, ReadUser(t)
    PROVE  OrderInv' /\ RegStep
<1>0. PICK u \in Account : u = user[t]
  BY DEF ReadUser, IInv, RequestOK
<1>1. /\ UNCHANGED <<text, handle, user, id, hits, gone, owner, shown, used, last, cut>>
      /\ pc[t] = "update" /\ pc' = [pc EXCEPT ![t] = "open"] /\ Meets(t)
      /\ kv' = [kv EXCEPT ![t] = SetSession(KeyValues(got[t]), id[t])]
      /\ got' = [got EXCEPT ![t] = <<>>]
      /\ CanRead(got[t]) /\ Len(text[u]) <= Len(got[t])
  BY <1>0 DEF ReadUser, AtEnd, DropRead, GoTo, files
<1>2. \A w \in Thread \ {t} : Unmoved(w)
  BY <1>1 DEF Unmoved, IInv, TypeOK
<1>3. ASSUME u \notin overlapped' PROVE MapIs(kv'[t], id[t], u \notin cut)
  <2>1. u \notin overlapped /\ \A w \in Thread \ {t} : ~IsUpdating(w, u)
    BY <1>0, <1>1, <1>3 DEF Meets
  <2>2. PICK ls, n : UserIs(u, ls, n)
    BY <2>1 DEF OrderInv, UserOK
  <2>3. Writing(u) = {}
    <3> SUFFICES ASSUME NEW w \in Thread, handle[w].file = u PROVE FALSE
      BY DEF Writing
    <3>1. pc[w] = "write" /\ IsUpdating(w, u)
      BY Handles
    <3> QED
      BY <1>1, <2>1, <3>1
  <2>4. /\ Layout(ls, last[u], u \notin cut) /\ n \in 0 .. 3 * Len(ls) /\ text[u] = TextAt(ls, n)
        /\ u \notin cut => n = 3 * Len(ls)
    BY <2>2, <2>3 DEF UserIs
  <2>5. got[t] = text[u]
    <3>1. Begins(got[t], text[u]) /\ text[u] \in Seq(Cell)
      BY <1>0, <1>1, <2>1 DEF OrderInv, CallOK, IInv, TypeOK
    <3> QED
      BY <1>1, <3>1, BeginsAll
  <2>6. id[t] \in SessionId \cup {NoSession} /\ (u \notin cut) \in BOOLEAN
    BY DEF IInv, TypeOK
  <2>7. MapIs(SetSession(KeyValues(text[u]), id[t]), id[t], u \notin cut)
    BY <1>1, <2>4, <2>5, <2>6, ReadMap
  <2>8. kv'[t] = SetSession(KeyValues(text[u]), id[t])
    BY <1>1, <2>5 DEF IInv
  <2> QED
    BY <2>7, <2>8
<1>4. pc'[t] = "open"
  BY <1>1 DEF IInv, TypeOK
<1> QED
  BY <1>0, <1>1, <1>2, <1>3, <1>4, MeetsOrder

\* Nobody else is at a file that only one updates.
LEMMA AloneAt ==
    ASSUME OrderInv, NEW t \in Thread, NEW u \in Account, u \notin overlapped, IsUpdating(t, u),
           NEW w \in Thread, w # t
    PROVE  ~IsUpdating(w, u)
BY DEF OrderInv, PairOK

\* The file of one user has changed, and what it shows is used.
LEMMA ShowOne ==
    ASSUME IInv, OrderInv, NEW u \in Account, Show,
           \A v \in Account \ {u} : text'[v] = text[v]
    PROVE  /\ \A v \in Account : shown'[v] = Session(v)'
           /\ \A v \in Account \ {u} : shown'[v] = shown[v]
           /\ shown' = [shown EXCEPT ![u] = shown'[u]]
           /\ used' = used \cup ({shown'[u]} \ {NoSession})
<1>1. \A v \in Account : shown'[v] = Session(v)'
  BY DEF Show
<1>2. \A v \in Account \ {u} : shown'[v] = shown[v]
  BY <1>1, SessionSeen DEF OrderInv
<1>3. shown \in [Account -> SessionId \cup {NoSession}] /\ shown' = [v \in Account |-> shown'[v]]
  BY DEF IInv, TypeOK, Show
<1>4. shown' = [shown EXCEPT ![u] = shown'[u]]
  BY <1>2, <1>3
<1>5. used' = used \cup (Range(shown') \ {NoSession})
  BY DEF Show
<1>6. Range(shown') = {shown'[v] : v \in Account}
  BY <1>3 DEF Range
<1>7. \A v \in Account \ {u} : shown'[v] \in used \cup {NoSession}
  BY <1>2 DEF OrderInv
<1>8. used' = used \cup ({shown'[u]} \ {NoSession})
  BY <1>5, <1>6, <1>7
<1> QED
  BY <1>1, <1>2, <1>4, <1>8

\* What the file of u may show after a step: what it did, nothing, or a session of u,
\* a new one unless updates have overlapped.
MayShow(u, s) ==
    \/ s = NoSession \/ (u \notin overlapped /\ s = shown[u])
    \/ s \in SessionId /\ owner[s] = u /\ (s \notin used \/ u \in overlapped)

\* So much is a step of the registry, and disturbs nothing that holds of the others.
LEMMA ShowSteps ==
    ASSUME IInv, OrderInv, NEW u \in Account, UNCHANGED <<owner, overlapped>>,
           NEW s, MayShow(u, s), shown' = [shown EXCEPT ![u] = s],
           used' = used \cup ({s} \ {NoSession})
    PROVE  /\ RegStep /\ used \subseteq used' /\ shown'[u] = s
           /\ \A v \in Account \ {u} : shown'[v] = shown[v]
           /\ \A v \in Account \ overlapped : shown'[v] \notin used \/ shown'[v] = shown[v]
           /\ \A v \in Account : shown'[v] \in used' \cup {NoSession}
           /\ \A r \in used' : owner'[r] # NoUser
           /\ \A r \in used' \ used : r = s /\ owner[r] = u
<1>1. shown \in [Account -> SessionId \cup {NoSession}] /\ NoSession \notin used
  BY CredsAssumption DEF IInv, TypeOK
<1>2. NoUser \notin Account
  BY TextFileAssumption DEF NoUser, Account
<1>3. shown[u] \in used \cup {NoSession}
  BY DEF OrderInv
<1>4. RegStep
  <2>1. CASE u \notin overlapped /\ s = shown[u]
    <3>1. shown' = shown /\ used' = used
      BY <1>1, <1>3, <2>1
    <3> QED
      BY <3>1 DEF RegStep
  <2>2. CASE u \notin overlapped /\ s = NoSession
    <3>1. Registry!Close(u)
      BY <2>2 DEF Registry!Close, Registry!Column!Close
    <3> QED
      BY <3>1 DEF RegStep, Registry!Next
  <2>3. CASE u \notin overlapped /\ s \in SessionId /\ owner[s] = u /\ s \notin used
    <3>1. Registry!Open(u, s)
      BY <2>3, CredsAssumption DEF Registry!Open, Registry!Column!Open
    <3> QED
      BY <2>3, <3>1 DEF RegStep, Registry!Next
  <2>4. CASE u \in overlapped
    <3>1. s \in {NoSession} \cup {r \in SessionId : owner[r] = u}
      BY <2>4 DEF MayShow
    <3>2. Registry!Garble(u)
      BY <2>4, <3>1 DEF Registry!Garble
    <3> QED
      BY <3>2 DEF RegStep, Registry!Next
  <2> QED
    BY <2>1, <2>2, <2>3, <2>4 DEF MayShow
<1>5. shown'[u] = s /\ \A v \in Account \ {u} : shown'[v] = shown[v]
  BY <1>1
<1>6. \A v \in Account \ overlapped : shown'[v] \notin used \/ shown'[v] = shown[v]
  BY <1>1, <1>5 DEF MayShow
<1>7. \A v \in Account : shown'[v] \in used' \cup {NoSession}
  BY <1>5 DEF OrderInv
<1>8. \A r \in used' \ used : r = s /\ owner[r] = u
  BY <1>3 DEF MayShow
<1>9. \A r \in used' : owner'[r] # NoUser
  BY <1>2, <1>8 DEF OrderInv
<1> QED
  BY <1>4, <1>5, <1>6, <1>7, <1>8, <1>9

\* A step of a thread in its own file, that spares the others.
LEMMA OthersSpared ==
    ASSUME IInv, OrderInv, NEW t \in Thread, NEW u \in Account, u = user[t], Calling(t),
           IsUpdating(t, u), overlapped' = overlapped, NEW s,
           u \in overlapped \/ s = id[t] \/ s = NoSession \/ s = shown[u],
           \A v \in Account \ {u} : text'[v] = text[v] /\ shown'[v] = shown[v],
           \A r \in used' \ used : r = s /\ owner[r] = u,
           NEW w \in Thread \ {t}
    PROVE  Spares(w)
<1> SUFFICES ASSUME user[w] \notin overlapped
             PROVE  /\ Calling(w) /\ id[w] # NoSession /\ id[w] \in used' => id[w] \in used
                    /\ pc[w] = "write" => shown'[user[w]] = shown[user[w]]
                    /\ pc[w] = "update" => got[w] = <<>> \/ text'[user[w]] = text[user[w]]
  BY DEF Spares
<1>1. ASSUME Calling(w), id[w] # NoSession, id[w] \in used', id[w] \notin used PROVE FALSE
  <2>1. id[w] = s /\ owner[id[w]] = u
    BY <1>1
  <2>2. owner[id[w]] = user[w]
    BY <1>1 DEF IInv, RequestOK, Calling
  <2>3. id[w] = id[t]
    <3>1. u \notin overlapped
      BY <2>1, <2>2
    <3>2. shown[u] \in used \cup {NoSession}
      BY DEF OrderInv
    <3> QED
      BY <1>1, <2>1, <3>1, <3>2
  <2> QED
    BY <1>1, <2>3 DEF OrderInv, PairOK
<1>2. ASSUME pc[w] = "write" PROVE shown'[user[w]] = shown[user[w]]
  <2>1. user[w] \in Account /\ IsUpdating(w, user[w])
    BY <1>2, CallerIs DEF IsUpdating, Calling
  <2>2. user[w] # u
    BY <2>1, AloneAt
  <2> QED
    BY <2>1, <2>2
<1>3. ASSUME pc[w] = "update", got[w] # <<>> PROVE text'[user[w]] = text[user[w]]
  <2>1. user[w] \in Account /\ IsUpdating(w, user[w])
    BY <1>3, CallerIs DEF IsUpdating, Calling
  <2>2. user[w] # u
    BY <2>1, AloneAt
  <2> QED
    BY <2>1, <2>2
<1> QED
  BY <1>1, <1>2, <1>3

\* It truncates the file, which shows no session from now on.
LEMMA OpenOrder ==
    ASSUME IInv, OrderInv, NEW t \in Thread, OpenUser(t)
    PROVE  OrderInv' /\ RegStep
<1>0. PICK u \in Account : u = user[t]
  BY DEF OpenUser, IInv, RequestOK
<1>1. /\ UNCHANGED <<got, user, id, hits, gone, owner, overlapped, cut>>
      /\ pc[t] = "open" /\ pc' = [pc EXCEPT ![t] = "write"] /\ Show
      /\ kv' = [kv EXCEPT ![t] = <<>>] /\ last' = [last EXCEPT ![u] = id[t]]
  BY <1>0 DEF OpenUser, GoTo
<1>2. PICK order \in SetToSeqs(DOMAIN kv[t]) :
        /\ handle' = [handle EXCEPT ![t] =
                [file |-> u, pos |-> 0, pieces |-> Pieces(kv[t], order)]]
        /\ text' = [text EXCEPT ![u] = <<>>]
  BY <1>0 DEF OpenUser, Open
<1> DEFINE pieces == Pieces(kv[t], order)
<1> HIDE DEF pieces
<1>3. ASSUME u \notin overlapped
      PROVE  \E ls : /\ Layout(ls, id[t], u \notin cut) /\ pieces = RestOf(ls, 0)
                     /\ 0 \in 0 .. 3 * Len(ls)
  <2>1. MapIs(kv[t], id[t], u \notin cut)
    BY <1>0, <1>1, <1>3 DEF OrderInv, CallOK
  <2>2. PICK ls : Layout(ls, id[t], u \notin cut) /\ Pieces(kv[t], order) = RestOf(ls, 0)
    BY <2>1, MapLines
  <2>3. Len(ls) \in Nat
    BY <2>2, LinesTyped DEF Layout
  <2> QED
    BY <2>2, <2>3 DEF pieces
<1>4. /\ <<>> = text'[u] /\ Len(text'[u]) = 0
      /\ \A v \in Account \ {u} : text'[v] = text[v]
  BY <1>2 DEF IInv, TypeOK
<1>5. shown'[u] = NoSession
  <2>1. Seen(<<>>) = {}
    BY NoEntry DEF Seen, HasKey
  <2>2. SessionIn(text'[u]) = NoSession
    BY <1>4, <2>1 DEF SessionIn
  <2> QED
    BY <1>1, <2>2, SessionSeen DEF Show
<1>6. /\ \A v \in Account : shown'[v] = Session(v)'
      /\ shown' = [shown EXCEPT ![u] = NoSession]
      /\ used' = used \cup ({NoSession} \ {NoSession})
  BY <1>1, <1>4, <1>5, ShowOne
<1>7. MayShow(u, NoSession)
  BY DEF MayShow
<1>8. /\ RegStep /\ used \subseteq used'
      /\ \A v \in Account \ {u} : shown'[v] = shown[v]
      /\ \A v \in Account \ overlapped : shown'[v] \notin used \/ shown'[v] = shown[v]
      /\ \A v \in Account : shown'[v] \in used' \cup {NoSession}
      /\ \A r \in used' : owner'[r] # NoUser
      /\ \A r \in used' \ used : r = NoSession /\ owner[r] = u
  <2>1. UNCHANGED <<owner, overlapped>>
    BY <1>1
  <2>2. /\ shown' = [shown EXCEPT ![u] = NoSession]
        /\ used' = used \cup ({NoSession} \ {NoSession})
    BY <1>6
  <2> QED
    BY <1>7, <2>1, <2>2, ShowSteps
<1>9. Grows /\ used' = used
  BY <1>1, <1>6, <1>8 DEF Grows
<1>10. IsUpdating(t, u) /\ Calling(t)
  BY <1>0, <1>1 DEF IsUpdating, Calling
<1>11. ASSUME NEW w \in Thread \ {t} PROVE Unmoved(w) /\ Spares(w) /\ PairOK(t, w)'
  <2>1. Unmoved(w)
    BY <1>1 DEF Unmoved, IInv, TypeOK
  <2>2. Spares(w)
    <3>1. PICK s : s = NoSession
      OBVIOUS
    <3>2. /\ \A v \in Account \ {u} : text'[v] = text[v] /\ shown'[v] = shown[v]
          /\ \A r \in used' \ used : r = s /\ owner[r] = u
      BY <1>4, <1>8, <3>1
    <3> QED
      BY <1>0, <1>1, <1>10, <3>1, <3>2, OthersSpared
  <2>3. PairOK(t, w)'
    <3>1. PairOK(t, w) /\ Calling(t) /\ \A v : IsUpdating(t, v)' => IsUpdating(t, v)
      BY <1>1, <1>10 DEF OrderInv, IsUpdating
    <3>2. \A v : IsUpdating(w, v)' <=> IsUpdating(w, v)
      BY <2>1 DEF IsUpdating, Unmoved
    <3> QED
      BY <1>1, <2>1, <3>1, <3>2 DEF PairOK, Calling, Unmoved
  <2> QED
    BY <2>1, <2>2, <2>3
<1>12. ASSUME NEW v \in Account PROVE UserOK(v)'
  <2>1. CASE v = u
    <3> SUFFICES ASSUME u \notin overlapped' PROVE \E ls, n : UserIs(u, ls, n)'
      BY <2>1 DEF UserOK
    <3>1. PICK ls : /\ Layout(ls, id[t], u \notin cut) /\ pieces = RestOf(ls, 0)
                    /\ 0 \in 0 .. 3 * Len(ls)
      BY <1>1, <1>3
    <3>2. Layout(ls, last'[u], u \notin cut') /\ text'[u] = TextAt(ls, 0)
      BY <1>1, <1>4, <3>1 DEF TextAt, IInv, TypeOK
    <3>3. handle'[t] = [file |-> u, pos |-> Len(text'[u]), pieces |-> RestOf(ls, 0)]
      BY <1>2, <1>4, <3>1 DEF IInv, TypeOK, pieces
    <3>4. t \in Writing(u)'
      BY <3>3 DEF Writing
    <3>5. ASSUME NEW w \in Thread, pc'[w] = "write", user'[w] = u PROVE w = t
      <4> SUFFICES ASSUME w # t PROVE FALSE
        OBVIOUS
      <4>1. IsUpdating(w, u)
        BY <1>1, <3>5 DEF IInv, TypeOK, IsUpdating
      <4> QED
        BY <1>1, <1>10, <4>1, AloneAt
    <3>6. last'[u] = id'[t]
      BY <1>1 DEF IInv, TypeOK
    <3>7. UserIs(u, ls, 0)'
      BY <3>1, <3>2, <3>3, <3>4, <3>5, <3>6 DEF UserIs
    <3> QED
      BY <3>7
  <2>2. CASE v # u
    <3>1. \A w \in Thread : pc'[w] = "write" /\ user'[w] = v =>
            pc[w] = "write" /\ user[w] = v /\ id'[w] = id[w] /\ handle'[w] = handle[w]
      BY <1>0, <1>1, <1>2, <2>2 DEF IInv, TypeOK
    <3>2. Writing(v)' = {} => Writing(v) = {}
      <4> SUFFICES ASSUME NEW w \in Thread, handle[w].file = v PROVE handle'[w].file = v
        BY DEF Writing
      <4>1. w # t
        BY <1>1, Handles
      <4> QED
        BY <1>2, <4>1 DEF IInv, TypeOK
    <3>3. UserOK(v) /\ text'[v] = text[v] /\ last'[v] = last[v]
      BY <1>1, <1>4, <2>2 DEF OrderInv, IInv, TypeOK
    <3> QED
      BY <1>9, <3>1, <3>2, <3>3, UserStays DEF Grows
  <2> QED
    BY <2>1, <2>2
<1>13. ASSUME NEW v \in Account PROVE IdsOK(v)'
  <2>1. CASE v = u
    <3>1. PICK S : S = Cell \ (used' \ {shown'[u]})
      OBVIOUS
    <3>2. <<>> \in Seq(S)
      OBVIOUS
    <3>3. text'[u] \in Seq(Cell \ (used' \ {shown'[u]}))
      BY <1>4, <3>1, <3>2
    <3> QED
      BY <2>1, <3>3 DEF IdsOK
  <2>2. CASE v # u
    BY <1>1, <1>4, <1>8, <1>9, <2>2 DEF OrderInv, IdsOK
  <2> QED
    BY <2>1, <2>2
<1>14. CallOK(t)'
  <2>1. CallOK(t) /\ pc'[t] = "write"
    BY <1>1 DEF OrderInv, IInv, TypeOK
  <2>2. id[t] # NoSession => id[t] \notin used' \/ u \in overlapped
    BY <1>0, <1>1, <1>9, <2>1 DEF CallOK, Calling
  <2>3. gone'[t] \subseteq used' /\ \A v \in Account \ overlapped : shown'[v] \notin gone'[t]
    BY <1>1, <1>8, <2>1 DEF CallOK
  <2> QED
    BY <1>0, <1>1, <2>1, <2>2, <2>3 DEF CallOK
<1>15. OrderInv'
  BY <1>1, <1>6, <1>8, <1>9, <1>11, <1>12, <1>13, <1>14, OrderStep
<1> QED
  BY <1>8, <1>15

\* The session that is shown comes with the last of the pieces, or the last but one.
LEMMA ShowsOn ==
    ASSUME NEW ls, NEW n \in Nat, Shows(ls, n)
    PROVE  Shows(ls, n + 1)
BY DEF Shows

\* What a piece makes of a file that only one thread rewrites.
LEMMA WriteText ==
    ASSUME IInv, OrderInv, NEW t \in Thread, NEW u \in Account, u = user[t], WriteUser(t),
           u \notin overlapped, NEW ls, NEW n, UserIs(u, ls, n)
    PROVE  UserIs(u, ls, n + 1)' /\ n + 1 \in 0 .. 3 * Len(ls)
<1>1. /\ UNCHANGED <<pc, user, id, last, overlapped, cut>> /\ pc[t] = "write"
      /\ WritePiece(t)
  BY DEF WriteUser, call
<1>2. /\ Layout(ls, last[u], u \notin cut) /\ IsLines(ls)
      /\ n \in 0 .. 3 * Len(ls) /\ text[u] = TextAt(ls, n) /\ last[u] = id[t]
      /\ handle[t] = [file |-> u, pos |-> Len(text[u]), pieces |-> RestOf(ls, n)]
  BY <1>1 DEF UserIs, Layout
<1>3. PICK N \in Nat : N = 3 * Len(ls)
  BY <1>2, LinesTyped
<1>4. n \in Nat /\ n < N
  <2>1. RestOf(ls, n) # <<>>
    BY <1>1, <1>2 DEF WritePiece
  <2>2. n \in Nat /\ n <= 3 * Len(ls)
    BY <1>2, <1>3
  <2>3. n # 3 * Len(ls)
    BY <1>2, <2>1, <2>2, RestStep
  <2> QED
    BY <1>3, <2>2, <2>3
<1>5. /\ Head(RestOf(ls, n)) = PieceAt(ls, n + 1)
      /\ Tail(RestOf(ls, n)) = RestOf(ls, n + 1)
  BY <1>2, <1>3, <1>4, RestStep
<1>6. PICK piece \in Seq(Cell), cells \in Seq(Cell) :
        piece = PieceAt(ls, n + 1) /\ cells = text[u] /\ TextAt(ls, n + 1) = cells \o piece
  BY <1>2, <1>3, <1>4, TextStep
<1>7. Over(text[u], Len(text[u]), piece) = TextAt(ls, n + 1)
  BY <1>6, OverAtEnd
<1>8. Len(TextAt(ls, n + 1)) = Len(text[u]) + Len(piece)
  <2>1. Len(cells \o piece) = Len(cells) + Len(piece)
    BY Concatenation
  <2> QED
    BY <1>6, <2>1
<1>9. /\ text' = [text EXCEPT ![u] = TextAt(ls, n + 1)]
      /\ handle' = [handle EXCEPT ![t] = [file |-> u, pos |-> Len(text[u]) + Len(piece),
                                         pieces |-> RestOf(ls, n + 1)]]
  <2>1. PICK h : h = handle[t]
    OBVIOUS
  <2>2. /\ h.file = u /\ h.pos = Len(text[u]) /\ Head(h.pieces) = piece
        /\ Tail(h.pieces) = RestOf(ls, n + 1)
    BY <1>2, <1>5, <1>6, <2>1
  <2>3. /\ text' = [text EXCEPT ![h.file] = Over(text[h.file], h.pos, Head(h.pieces))]
        /\ handle' = [handle EXCEPT ![t] = [file |-> h.file, pos |-> h.pos + Len(Head(h.pieces)),
                                            pieces |-> Tail(h.pieces)]]
    BY <1>1, <2>1 DEF WritePiece
  <2> QED
    BY <1>7, <2>2, <2>3
<1>10. text'[u] = TextAt(ls, n + 1)
  BY <1>9 DEF IInv, TypeOK
<1>11. handle'[t] = [file |-> u, pos |-> Len(text'[u]), pieces |-> RestOf(ls, n + 1)]
  BY <1>8, <1>9, <1>10 DEF IInv, TypeOK
<1>12. t \in Writing(u)'
  BY <1>11 DEF Writing
<1>13. ASSUME NEW w \in Thread, pc'[w] = "write", user'[w] = u PROVE w = t
  <2>1. IsUpdating(w, u) /\ IsUpdating(t, u)
    BY <1>1, <1>13 DEF IsUpdating
  <2> QED
    BY <2>1, AloneAt
<1>14. n + 1 \in 0 .. 3 * Len(ls)
  BY <1>3, <1>4
<1> QED
  BY <1>1, <1>2, <1>10, <1>11, <1>12, <1>13, <1>14 DEF UserIs

\* It shows what was shown, or the session that is stored for the first time.
LEMMA WriteShows ==
    ASSUME IInv, OrderInv, NEW t \in Thread, NEW u \in Account, u = user[t], WriteUser(t),
           u \notin overlapped
    PROVE  \/ shown'[u] = shown[u]
           \/ shown'[u] = id[t] /\ id[t] \in SessionId \ used
<1>1. PICK ls, n : UserIs(u, ls, n)
  BY DEF OrderInv, UserOK
<1>2. UserIs(u, ls, n + 1)' /\ n + 1 \in 0 .. 3 * Len(ls)
  BY <1>1, WriteText
<1>3. /\ overlapped' = overlapped /\ last' = last /\ id' = id /\ pc[t] = "write"
      /\ shown'[u] = Session(u)'
  BY DEF WriteUser, call, Show
<1>4. last[u] = id[t] /\ (id[t] # NoSession => id[t] \in SessionId)
  BY <1>1, <1>3 DEF UserIs, IInv, TypeOK
<1>5. Session(u)' = IF Shows(ls, n + 1) THEN id[t] ELSE NoSession
  <2>1. Layout(ls, id[t], u \notin cut') /\ text'[u] = TextAt(ls, n + 1)
    BY <1>2, <1>3, <1>4 DEF UserIs
  <2>2. SessionIn(text'[u]) = IF Shows(ls, n + 1) THEN id[t] ELSE NoSession
    BY <1>2, <1>4, <2>1, SessionInIs
  <2> QED
    BY <1>3, <2>2, SessionSeen
<1>6. /\ Session(u) = IF Shows(ls, n) THEN id[t] ELSE NoSession
      /\ Shows(ls, n) => id[t] # NoSession
      /\ shown[u] = Session(u)
  BY <1>1, <1>4, SessionIs DEF IInv, OrderInv
<1>7. n \in Nat
  BY <1>1, LinesTyped DEF UserIs, Layout
<1>8. CASE Shows(ls, n)
  BY <1>3, <1>5, <1>6, <1>7, <1>8, ShowsOn
<1>9. CASE ~Shows(ls, n) /\ Shows(ls, n + 1) /\ id[t] # NoSession
  <2>1. id[t] \notin used
    BY <1>3, <1>6, <1>9, CredsAssumption DEF OrderInv, CallOK, Calling
  <2> QED
    BY <1>3, <1>4, <1>5, <1>9, <2>1
<1>10. CASE ~Shows(ls, n) /\ (~Shows(ls, n + 1) \/ id[t] = NoSession)
  BY <1>3, <1>5, <1>6, <1>10
<1> QED
  BY <1>8, <1>9, <1>10

\* A piece of an update that overlaps with another may show an old session of the user.
LEMMA GarbledShows ==
    ASSUME IInv, NEW t \in Thread, NEW u \in Account, WriteUser(t)
    PROVE  shown'[u] = NoSession \/ (shown'[u] \in SessionId /\ owner[shown'[u]] = u)
<1>1. IInv' /\ owner' = owner /\ shown'[u] = Session(u)'
  BY WriteUserStep DEF WriteUser, Show
<1>2. text'[u] \in Seq(Mine(u))
  BY <1>1 DEF IInv, FileOK, Mine
<1>3. ASSUME NEW s \in SessionId, s \in Seen(text'[u]) PROVE owner[s] = u
  <2>1. HasSession(text'[u], s)
    BY <1>3 DEF Seen, HasSession, Finds
  <2> QED
    BY <1>2, <2>1, FoundOwner
<1>4. CASE Seen(text'[u]) = {}
  BY <1>1, <1>4, SessionSeen DEF SessionIn
<1>5. CASE Seen(text'[u]) # {}
  <2>1. shown'[u] = CHOOSE s \in SessionId : s \in Seen(text'[u])
    BY <1>1, <1>5, SessionSeen DEF SessionIn
  <2>2. \E s \in SessionId : s \in Seen(text'[u])
    BY <1>5 DEF Seen
  <2> QED
    BY <1>3, <2>1, <2>2
<1> QED
  BY <1>4, <1>5

\* It writes a piece: the file shows what it did, or an id that is new.
LEMMA WriteOrder ==
    ASSUME IInv, OrderInv, NEW t \in Thread, WriteUser(t)
    PROVE  OrderInv' /\ RegStep
<1>0. PICK u \in Account : u = user[t]
  BY DEF WriteUser, IInv, RequestOK
<1>1. /\ UNCHANGED <<got, pc, user, id, kv, hits, gone, owner, last, overlapped, cut>>
      /\ pc[t] = "write" /\ Show /\ WritePiece(t)
  BY DEF WriteUser, call
<1>2. handle[t].file = u
  BY <1>0, <1>1 DEF WritePiece, IInv, HandleOK, Closed
<1>3. /\ \A w \in Thread \ {t} : handle'[w] = handle[w]
      /\ \A v \in Account \ {u} : text'[v] = text[v]
      /\ handle'[t].file = u
  BY <1>1, <1>2 DEF WritePiece, IInv, TypeOK
<1>4. PICK s : s = shown'[u]
  OBVIOUS
<1>5. MayShow(u, s) /\ (u \in overlapped \/ s = id[t] \/ s = shown[u])
  <2>1. CASE u \in overlapped
    BY <1>4, <2>1, GarbledShows DEF MayShow
  <2>2. CASE u \notin overlapped
    <3>1. \/ s = shown[u]
          \/ s = id[t] /\ id[t] \in SessionId \ used
      BY <1>0, <1>4, <2>2, WriteShows
    <3>2. ASSUME id[t] \in SessionId PROVE owner[id[t]] = u
      BY <1>0, <1>1, <3>2, CredsAssumption DEF IInv, RequestOK
    <3> QED
      BY <2>2, <3>1, <3>2 DEF MayShow
  <2> QED
    BY <2>1, <2>2
<1>6. /\ \A v \in Account : shown'[v] = Session(v)'
      /\ shown' = [shown EXCEPT ![u] = s]
      /\ used' = used \cup ({s} \ {NoSession})
  BY <1>1, <1>3, <1>4, ShowOne
<1>7. /\ RegStep /\ used \subseteq used'
      /\ \A v \in Account \ {u} : shown'[v] = shown[v]
      /\ \A v \in Account \ overlapped : shown'[v] \notin used \/ shown'[v] = shown[v]
      /\ \A v \in Account : shown'[v] \in used' \cup {NoSession}
      /\ \A r \in used' : owner'[r] # NoUser
      /\ \A r \in used' \ used : r = s /\ owner[r] = u
  <2>1. UNCHANGED <<owner, overlapped>>
    BY <1>1
  <2>2. shown' = [shown EXCEPT ![u] = s] /\ used' = used \cup ({s} \ {NoSession})
    BY <1>6
  <2>3. MayShow(u, s)
    BY <1>5
  <2> QED
    BY <2>1, <2>2, <2>3, ShowSteps
<1>8. Grows
  BY <1>1, <1>7 DEF Grows
<1>9. IsUpdating(t, u) /\ Calling(t)
  BY <1>0, <1>1 DEF IsUpdating, Calling
<1>10. ASSUME NEW w \in Thread \ {t} PROVE Unmoved(w) /\ Spares(w) /\ PairOK(t, w)'
  <2>1. Unmoved(w) /\ Unmoved(t)
    BY <1>1 DEF Unmoved
  <2>2. PairOK(t, w)
    BY DEF OrderInv
  <2>3. Spares(w)
    BY <1>0, <1>1, <1>3, <1>5, <1>7, <1>9, OthersSpared
  <2> QED
    BY <1>8, <2>1, <2>2, <2>3, PairStays
<1>11. ASSUME NEW v \in Account PROVE UserOK(v)'
  <2>1. CASE v = u
    <3> SUFFICES ASSUME u \notin overlapped PROVE \E ls, n : UserIs(u, ls, n)'
      BY <1>1, <2>1 DEF UserOK
    <3>1. PICK ls, n : UserIs(u, ls, n)
      BY DEF OrderInv, UserOK
    <3> QED
      BY <1>0, <3>1, WriteText
  <2>2. CASE v # u
    <3>1. \A w \in Thread : pc'[w] = "write" /\ user'[w] = v =>
            pc[w] = "write" /\ user[w] = v /\ id'[w] = id[w] /\ handle'[w] = handle[w]
      BY <1>0, <1>1, <1>3, <2>2
    <3>2. Writing(v)' = {} => Writing(v) = {}
      BY <1>2, <1>3, <2>2 DEF Writing
    <3>3. UserOK(v) /\ text'[v] = text[v] /\ last'[v] = last[v]
      BY <1>1, <1>3, <2>2 DEF OrderInv
    <3> QED
      BY <1>1, <3>1, <3>2, <3>3, UserStays
  <2> QED
    BY <2>1, <2>2
<1>12. ASSUME id[t] # NoSession, id[t] \in used', u \notin overlapped PROVE shown'[u] = id[t]
  <2>1. CASE id[t] \in used
    <3>1. shown[u] = id[t]
      BY <1>0, <1>1, <1>12, <1>9, <2>1 DEF OrderInv, CallOK
    <3> QED
      BY <1>4, <1>5, <1>12, <3>1
  <2>2. CASE id[t] \notin used
    BY <1>4, <1>12, <1>7, <2>2
  <2> QED
    BY <2>1, <2>2
<1>13. used' \subseteq SessionId
  BY ShowTyped DEF WriteUser, IInv
<1>14. ASSUME NEW v \in Account PROVE IdsOK(v)'
  <2>1. ASSUME u \notin overlapped PROVE text'[u] \in Seq(Cell \ (used' \ {shown'[u]}))
    <3>1. PICK ls, n : UserIs(u, ls, n)
      BY <2>1 DEF OrderInv, UserOK
    <3>2. UserIs(u, ls, n + 1)' /\ n + 1 \in 0 .. 3 * Len(ls)
      BY <1>0, <2>1, <3>1, WriteText
    <3>8. last'[u] = id[t]
      BY <1>0, <1>1, <3>1 DEF UserIs
    <3>3. Layout(ls, id[t], u \notin cut) /\ text'[u] = TextAt(ls, n + 1)
      BY <1>1, <3>2, <3>8 DEF UserIs
    <3>4. id[t] # NoSession => id[t] \in SessionId
      BY DEF IInv, TypeOK
    <3>5. text'[u] \in Seq(But(id[t]))
      BY <3>2, <3>3, <3>4, TextIds
    <3>7. But(id[t]) \subseteq Cell \ (used' \ {shown'[u]})
      <4>1. id[t] = NoSession => id[t] \notin SessionId
        BY CredsAssumption
      <4> QED
        BY <1>12, <1>13, <2>1, <4>1 DEF But
    <3> QED
      BY <3>5, <3>7, SeqLarger
  <2>2. CASE v = u
    BY <1>1, <2>1, <2>2 DEF IdsOK
  <2>3. CASE v # u
    <3>1. IdsOK(v) /\ \A r \in used' \ used : owner[r] # v
      BY <1>7, <2>3 DEF OrderInv
    <3> QED
      BY <1>1, <1>3, <1>7, <1>13, <2>3, <3>1, IdsStay
  <2> QED
    BY <2>2, <2>3
<1>15. CallOK(t)'
  <2>1. CallOK(t)
    BY DEF OrderInv
  <2>2. gone[t] \subseteq used' /\ \A v \in Account \ overlapped : shown'[v] \notin gone[t]
    BY <1>7, <2>1 DEF CallOK
  <2> QED
    BY <1>0, <1>1, <1>12, <2>1, <2>2 DEF CallOK
<1>16. OrderInv'
  BY <1>1, <1>6, <1>7, <1>8, <1>10, <1>11, <1>14, <1>15, OrderStep
<1> QED
  BY <1>7, <1>16

\* At first a file has one line, with the password.
LEMMA InitOrder ==
    ASSUME Init
    PROVE  OrderInv
<1> DEFINE line == [key |-> PwHash, value |-> Hash]
           ls == <<line>>
<1>1. IInv
  BY InitInv
<1>2. Hash \in Seq(Body) /\ Hash \in Seq(Range(Hash))
  BY CredsAssumption, SeqLarger DEF Body
<1>3. line \in LineOf
  BY <1>2 DEF LineOf
<1> HIDE DEF line
<1>4. ls \in Seq(LineOf) /\ Len(ls) = 1 /\ ls[1] = line /\ DOMAIN ls = {1}
  BY <1>3
<1> HIDE DEF ls
<1>5. Layout(ls, NoSession, TRUE)
  BY <1>2, <1>4, KeysDiffer DEF Layout, IsLines, line
<1>6. TextAt(ls, 3) = <<PwHash, Sep>> \o Hash \o <<NL>>
  BY <1>4 DEF TextAt, Start, Row, line
<1>7. ASSUME NEW u \in Account PROVE UserIs(u, ls, 3)
  <2>1. /\ text[u] = TextAt(ls, 3) /\ last[u] = NoSession /\ u \notin cut
        /\ \A t \in Thread : pc[t] # "write"
    BY <1>6 DEF Init, InitFiles
  <2>2. 3 \in 0 .. 3 * Len(ls) /\ 3 = 3 * Len(ls)
    BY <1>4
  <2>3. Layout(ls, last[u], u \notin cut)
    BY <1>5, <2>1
  <2> QED
    BY <2>1, <2>2, <2>3 DEF UserIs
<1>8. ASSUME NEW u \in Account PROVE shown[u] = Session(u) /\ IdsOK(u)
  <2>1. ~Shows(ls, 3)
    BY DEF Shows
  <2>2. Session(u) = NoSession
    BY <1>1, <1>7, <2>1, SessionIs DEF IInv
  <2>3. text[u] \in Seq(Cell) /\ Cell \ (used \ {shown[u]}) = Cell
    BY <1>1 DEF IInv, TypeOK, Init
  <2> QED
    BY <2>2, <2>3 DEF Init, IdsOK
<1>9. \A t \in Thread : CallOK(t) /\ \A w \in Thread \ {t} : PairOK(t, w)
  BY CredsAssumption DEF Init, CallOK, PairOK, Calling, IsUpdating
<1> QED
  BY <1>7, <1>8, <1>9 DEF OrderInv, UserOK, Init

\* With the order of the lines, the invariant is preserved by every step, and every
\* step is one of the registry, or none.
LEMMA NextOrder ==
    ASSUME IInv, OrderInv, [Next]_vars
    PROVE  OrderInv' /\ RegStep
<1>0. Unseen => RegStep
  BY DEF Unseen, RegStep
<1>1. ASSUME NEW t \in Thread, Login(t) PROVE OrderInv' /\ RegStep
  BY <1>1, LoginOrder
<1>2. ASSUME NEW t \in Thread, Logout(t) \/ LogoutAfterLogin(t) \/ LogoutByPassword(t)
      PROVE  OrderInv' /\ RegStep
  BY <1>0, <1>2, LogoutOrder
<1>3. ASSUME NEW t \in Thread, NEW s \in SessionId, Lookup(t, s) PROVE OrderInv' /\ RegStep
  BY <1>0, <1>3, LookupOrder
<1>4. ASSUME NEW t \in Thread, LookupNext(t) PROVE OrderInv' /\ RegStep
  BY <1>0, <1>4, LookupNextOrder
<1>5. ASSUME NEW t \in Thread,
             \/ FindEnd(t) \/ LookupEnd(t) \/ ReadUserFails(t) \/ CloseUser(t)
             \/ CallFails(t) \/ WriteFails(t)
      PROVE  OrderInv' /\ RegStep
  BY <1>0, <1>5, EndOrder
<1>6. ASSUME NEW t \in Thread, LookupRead(t) \/ \E u \in Account : FindRead(t, u)
      PROVE  OrderInv' /\ RegStep
  BY <1>0, <1>6, ReadingOrder
<1>7. ASSUME NEW t \in Thread, UpdateRead(t) \/ ReadUser(t) \/ OpenUser(t) \/ WriteUser(t)
      PROVE  OrderInv' /\ RegStep
  BY <1>7, UpdateReadOrder, ReadOrder, OpenOrder, WriteOrder
<1>8. CASE Restart
  BY <1>0, <1>8, RestartOrder
<1>9. CASE UNCHANGED vars
  <2>1. UNCHANGED <<text, handle, got, pc, user, id, kv, rest, hits, gone, updates, owner,
                    shown, used, last, overlapped, cut>>
    BY <1>9 DEF vars, files, call, ghosts
  <2>2. \A u \in Account : shown'[u] = Session(u)' /\ IdsOK(u)'
    BY <2>1, SessionSeen DEF OrderInv, IdsOK
  <2>3. \A u \in Account : UserOK(u)'
    BY <2>1 DEF OrderInv, UserOK, UserIs, Writing
  <2>4. ASSUME NEW t \in Thread PROVE CallOK(t)'
    BY <2>1 DEF OrderInv, CallOK, Calling
  <2>5. ASSUME NEW t \in Thread, NEW w \in Thread \ {t} PROVE PairOK(t, w)'
    BY <2>1 DEF OrderInv, PairOK, Calling, IsUpdating
  <2> QED
    BY <1>0, <2>1, <2>2, <2>3, <2>4, <2>5 DEF OrderInv, Unseen
<1> QED
  BY <1>1, <1>2, <1>3, <1>4, <1>5, <1>6, <1>7, <1>8, <1>9 DEF Next

\* The invariant holds, for any users, threads, ids, hash and bounds.
THEOREM OrderInvariant == Spec => []OrderInv
<1>1. Init => OrderInv
  BY InitOrder
<1>2. IInv /\ OrderInv /\ [Next]_vars => OrderInv'
  BY NextOrder
<1> QED
  BY <1>1, <1>2, Invariant, PTL DEF Spec

\* A creds.txt that nobody is writing holds the password and the session that its last
\* update_user was given, in whatever order the lines were written, if no two updates
\* of it have overlapped and none was cut short.
THEOREM SettledIsGood == Spec => []SettledFileIsGood
<1>1. ASSUME IInv, OrderInv PROVE SettledFileIsGood
  <2> SUFFICES ASSUME NEW u \in Account, u \notin overlapped, u \notin cut, Writing(u) = {}
               PROVE  /\ HasPassword(text[u])
                      /\ IF last[u] = NoSession THEN ~HasSessionId(text[u])
                         ELSE HasSession(text[u], last[u])
    BY DEF SettledFileIsGood
  <2>1. PICK ls, n : UserIs(u, ls, n)
    BY <1>1 DEF OrderInv, UserOK
  <2>2. Layout(ls, last[u], TRUE) /\ text[u] = TextAt(ls, 3 * Len(ls))
    BY <2>1, LayoutLess DEF UserIs
  <2>3. PICK t : t = TextAt(ls, 3 * Len(ls))
    OBVIOUS
  <2>4. /\ CanRead(t) /\ HasKey(t, <<PwHash>>) /\ Maps(t, <<PwHash>>, Hash)
        /\ last[u] = NoSession => ~HasKey(t, <<Id>>)
        /\ last[u] # NoSession => Maps(t, <<Id>>, <<last[u]>>)
    BY <2>2, <2>3, SettledReads
  <2> QED
    BY <2>2, <2>3, <2>4 DEF HasPassword, HasSessionId, HasSession, Finds
<1> QED
  BY <1>1, Invariant, OrderInvariant, PTL

\* users_with_session finds nobody with an id that was revoked before it began, however
\* the files are rewritten while it reads them, call by call of read, if no two updates
\* of the user overlap.
THEOREM RevokedStaysOut == Spec => []RevokedNotFound
<1>1. OrderInv => RevokedNotFound
  BY DEF OrderInv, CallOK, RevokedNotFound
<1> QED
  BY <1>1, OrderInvariant, PTL

\* What find_user sees of the sessions, before, after and between the pieces of every
\* rewriting, and of one that was cut short. Of a user whose updates have not overlapped
\* it is what the column of SQL shows: truncating the file closes the session, and its
\* last piece but one opens the next, with an id that never was a session before. Once
\* updates of a user have overlapped, it is no session, or any one that was drawn for
\* this user, an old one also, and never one of somebody else.
THEOREM Implements == Spec => ImplementsRegistry
<1>1. Init => Registry!Init
  BY DEF Init, Registry!Init, Registry!Column!Init
<1>2. IInv /\ OrderInv /\ [Next]_vars => RegStep
  BY NextOrder
<1> QED
  BY <1>1, <1>2, Invariant, OrderInvariant, PTL
     DEF Spec, RegStep, ImplementsRegistry, Registry!Spec, Registry!vars
=============================================================================
