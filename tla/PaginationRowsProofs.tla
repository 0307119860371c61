------------------------ MODULE PaginationRowsProofs ------------------------
(***************************************************************************)
(* Which rows a read of Pagination.tla gathers, for every page limit,      *)
(* collection, number of changes and page size: none of them twice, and    *)
(* none that a deletion hid without the count saying so.                   *)
(***************************************************************************)
EXTENDS PaginationProofs, FiniteSetTheorems

\* A controller that honours offset, in whose list rows only leave or join at
\* the end.
Orderly == server # "stuck" /\ "insert" \notin kinds

Ordered(s) == \A i, j \in 1..Len(s) : i < j => s[i] < s[j]
Within(s, n) == \A i \in 1..Len(s) : s[i] \in 1..n

\* Why no row comes twice: rows are listed in the order they came to be, and
\* what is still to be fetched came later than all that is gathered.
Ahead(s, c) == \A i \in 1..Len(s), j \in (Len(s) + 1)..Len(c) : s[i] < c[j]

\* The newest row there can be.
Newest == IF kinds \subseteq {"delete"} THEN present ELSE present + edits

RowsInv ==
  Orderly => /\ Ordered(coll) /\ Ordered(all) /\ Ahead(all, coll)
             /\ Within(coll, Newest) /\ Within(all, Newest)

\* What the answer is made of.
AnswerInv ==
  /\ server # "lying" => body.total = present
  /\ result.kind = "ok" => /\ pc = "done"
                           /\ result.data = all /\ result.count = Len(all)
                           /\ body.hasTotal => result.total = body.total

-----------------------------------------------------------------------------
(* Stretches and removals *)

\* A controller that honours offset serves a stretch of its collection from
\* there on.
LEMMA OrderlyPage ==
  ASSUME NEW n \in Nat, NEW w \in Nat \ {0}, coll \in Seq(Nat), server # "stuck"
  PROVE  \E m \in 0..Len(coll) :
           /\ Serve(n, w) = SubSeq(coll, n + 1, m)
           /\ Serve(n, w) # <<>> => n < m
<1> DEFINE width == IF server = "short" THEN Smaller(w, ShortWindow) ELSE w
           m == Smaller(n + width, Len(coll))
<1>1. width \in Nat /\ Len(coll) \in Nat
  BY PaginationAssumption DEF Smaller
<1>2. m \in 0..Len(coll)
  BY <1>1 DEF Smaller
<1>3. Serve(n, w) = SubSeq(coll, n + 1, m)
  BY DEF Serve, Window
<1> HIDE DEF m
<1>4. n >= m => SubSeq(coll, n + 1, m) = <<>>
  BY <1>1, <1>2
<1>5. QED
  BY <1>2, <1>3, <1>4

\* A stretch of a sequence behind another one.
LEMMA Joined ==
  ASSUME NEW s \in Seq(Nat), NEW c \in Seq(Nat),
         NEW m \in (Len(s) + 1)..Len(c)
  PROVE  LET t == s \o SubSeq(c, Len(s) + 1, m) IN
         /\ Len(t) = m
         /\ \A i \in 1..Len(s) : t[i] = s[i]
         /\ \A i \in (Len(s) + 1)..m : t[i] = c[i]
<1> DEFINE rows == SubSeq(c, Len(s) + 1, m)
<1>1. Len(s) \in Nat /\ Len(c) \in Nat /\ Len(s) + 1 \in 1..Len(c)
  OBVIOUS
<1>2. /\ rows \in Seq(Nat) /\ Len(rows) = m - Len(s)
      /\ \A i \in 1..(m - Len(s)) : rows[i] = c[Len(s) + i]
  BY <1>1
<1> HIDE DEF rows
<1>3. /\ Len(s \o rows) = Len(s) + Len(rows)
      /\ \A i \in 1..Len(s) : (s \o rows)[i] = s[i]
      /\ \A i \in (Len(s) + 1)..(Len(s) + Len(rows)) : (s \o rows)[i] = rows[i - Len(s)]
  BY <1>1, <1>2
<1>4. \A i \in (Len(s) + 1)..m : i - Len(s) \in 1..(m - Len(s)) /\ rows[i - Len(s)] = c[i]
  BY <1>1, <1>2
<1>5. QED
  BY <1>1, <1>2, <1>3, <1>4 DEF rows

\* Taking out row d moves up the ones behind it.
LEMMA Removed ==
  ASSUME NEW c \in Seq(Nat), NEW d \in 1..Len(c)
  PROVE  LET t == SubSeq(c, 1, d - 1) \o SubSeq(c, d + 1, Len(c)) IN
         /\ t \in Seq(Nat) /\ Len(t) = Len(c) - 1
         /\ \A i \in 1..Len(t) : t[i] = IF i < d THEN c[i] ELSE c[i + 1]
<1> DEFINE a == SubSeq(c, 1, d - 1)
           b == SubSeq(c, d + 1, Len(c))
<1>1. Len(c) \in Nat /\ d \in Nat
  OBVIOUS
<1>2. a \in Seq(Nat) /\ Len(a) = d - 1 /\ \A i \in 1..(d - 1) : a[i] = c[i]
  BY <1>1
<1>3. b \in Seq(Nat) /\ Len(b) = Len(c) - d /\ \A i \in 1..(Len(c) - d) : b[i] = c[d + i]
  BY <1>1
<1> HIDE DEF a, b
<1>4. /\ a \o b \in Seq(Nat) /\ Len(a \o b) = Len(a) + Len(b)
      /\ \A i \in 1..Len(a) : (a \o b)[i] = a[i]
      /\ \A i \in (Len(a) + 1)..(Len(a) + Len(b)) : (a \o b)[i] = b[i - Len(a)]
  <2>1. /\ a \o b \in Seq(Nat) /\ Len(a \o b) = Len(a) + Len(b)
        /\ \A i \in 1..(Len(a) + Len(b)) :
             (a \o b)[i] = IF i <= Len(a) THEN a[i] ELSE b[i - Len(a)]
    BY <1>2, <1>3, ConcatProperties
  <2>2. Len(a) \in Nat /\ Len(b) \in Nat
    BY <1>2, <1>3
  <2>3. \A i \in 1..Len(a) : i \in 1..(Len(a) + Len(b)) /\ i <= Len(a)
    BY <2>2
  <2>4. \A i \in (Len(a) + 1)..(Len(a) + Len(b)) : i \in 1..(Len(a) + Len(b)) /\ ~(i <= Len(a))
    BY <2>2
  <2>5. QED
    BY <2>1, <2>3, <2>4
<1>5. \A i \in d..(Len(c) - 1) : (a \o b)[i] = c[i + 1]
  <2>1. TAKE i \in d..(Len(c) - 1)
  <2>2. i \in (Len(a) + 1)..(Len(a) + Len(b)) /\ i - Len(a) \in 1..(Len(c) - d)
    BY <1>1, <1>2, <1>3
  <2>3. d + (i - Len(a)) = i + 1
    BY <1>1, <1>2
  <2>4. QED
    BY <1>3, <1>4, <2>2, <2>3
<1>6. Len(a \o b) = Len(c) - 1
  BY <1>1, <1>2, <1>3, <1>4
<1>7. \A i \in 1..(Len(c) - 1) : (a \o b)[i] = IF i < d THEN c[i] ELSE c[i + 1]
  <2>1. TAKE i \in 1..(Len(c) - 1)
  <2>2. CASE i < d
    <3>1. i \in 1..Len(a) /\ i \in 1..(d - 1)
      BY <1>1, <1>2, <2>2
    <3>2. QED
      BY <1>2, <1>4, <2>2, <3>1
  <2>3. CASE ~(i < d)
    <3>1. i \in d..(Len(c) - 1)
      BY <1>1, <2>3
    <3>2. QED
      BY <1>5, <2>3, <3>1
  <2>4. QED
    BY <2>2, <2>3
<1>8. QED
  BY <1>4, <1>6, <1>7 DEF a, b

\* A page keeps the order of what is gathered, and the rest ahead of it.
LEMMA PageOrder ==
  ASSUME NEW s \in Seq(Nat), NEW c \in Seq(Nat), NEW m \in (Len(s) + 1)..Len(c), NEW n \in Nat,
         Ordered(s), Ordered(c), Ahead(s, c), Within(s, n), Within(c, n),
         NEW t, t = s \o SubSeq(c, Len(s) + 1, m)
  PROVE  Ordered(t) /\ Ahead(t, c) /\ Within(t, n)
<1>1. /\ Len(t) = m
      /\ \A i \in 1..Len(s) : t[i] = s[i]
      /\ \A i \in (Len(s) + 1)..m : t[i] = c[i]
  BY Joined
<1>2. Len(s) \in Nat /\ Len(c) \in Nat /\ m \in Nat /\ Len(s) < m /\ m <= Len(c)
  OBVIOUS
<1>3. ASSUME NEW i \in 1..m, NEW j \in 1..Len(c), i < j, i <= m
      PROVE  /\ j <= m => t[i] < t[j]
             /\ j > m => t[i] < c[j]
  <2>1. CASE i > Len(s)
    <3>1. i \in (Len(s) + 1)..m /\ t[i] = c[i] /\ i \in 1..Len(c) /\ c[i] < c[j]
      BY <1>1, <1>2, <1>3, <2>1 DEF Ordered
    <3>2. j <= m => t[j] = c[j]
      BY <1>1, <1>2, <1>3, <2>1
    <3>3. QED
      BY <3>1, <3>2
  <2>2. CASE i <= Len(s) /\ j > Len(s)
    <3>1. i \in 1..Len(s) /\ t[i] = s[i] /\ j \in (Len(s) + 1)..Len(c)
      BY <1>1, <1>2, <1>3, <2>2
    <3>2. s[i] < c[j]
      BY <3>1 DEF Ahead
    <3>3. j <= m => t[j] = c[j]
      BY <1>1, <1>2, <1>3, <2>2
    <3>4. QED
      BY <3>1, <3>2, <3>3
  <2>3. CASE j <= Len(s)
    <3>1. i \in Int /\ j \in Int /\ 1 <= i /\ i < j
      BY <1>2, <1>3
    <3>2. i \in 1..Len(s) /\ j \in 1..Len(s) /\ ~(j > m)
      BY <1>2, <2>3, <3>1
    <3>3. t[i] = s[i] /\ t[j] = s[j]
      BY <1>1, <3>2
    <3>4. s[i] < s[j]
      BY <1>3, <3>2 DEF Ordered
    <3>5. QED
      BY <3>2, <3>3, <3>4
  <2>4. i \in Int /\ j \in Int /\ i < j
    BY <1>2, <1>3
  <2>5. i > Len(s) \/ (i <= Len(s) /\ j > Len(s)) \/ j <= Len(s)
    BY <1>2, <2>4
  <2>6. QED
    BY <2>1, <2>2, <2>3, <2>5
<1>4. Ordered(t)
  <2> SUFFICES ASSUME NEW i \in 1..m, NEW j \in 1..m, i < j PROVE t[i] < t[j]
    BY <1>1 DEF Ordered
  <2>1. j \in 1..Len(c) /\ j <= m /\ i <= m
    BY <1>2
  <2>2. QED
    BY <1>3, <2>1
<1>5. Ahead(t, c)
  <2> SUFFICES ASSUME NEW i \in 1..m, NEW j \in (m + 1)..Len(c) PROVE t[i] < c[j]
    BY <1>1 DEF Ahead
  <2>1. j \in 1..Len(c) /\ j > m /\ i < j /\ i <= m
    BY <1>2
  <2>2. QED
    BY <1>3, <2>1
<1>6. Within(t, n)
  <2> SUFFICES ASSUME NEW i \in 1..m PROVE t[i] \in 1..n
    BY <1>1 DEF Within
  <2>1. CASE i <= Len(s)
    <3>1. i \in 1..Len(s)
      BY <2>1
    <3>2. QED
      BY <1>1, <3>1 DEF Within
  <2>2. CASE i > Len(s)
    <3>1. i \in (Len(s) + 1)..m /\ i \in 1..Len(c)
      BY <1>2, <2>2
    <3>2. QED
      BY <1>1, <3>1 DEF Within
  <2>3. QED
    BY <1>2, <2>1, <2>2
<1>7. QED
  BY <1>4, <1>5, <1>6

\* A deletion keeps the order, and what is gathered behind the rest.
LEMMA RemovalOrder ==
  ASSUME NEW s \in Seq(Nat), NEW c \in Seq(Nat), NEW d \in 1..Len(c), NEW n \in Nat,
         Ordered(c), Ahead(s, c), Within(c, n),
         NEW t, t = SubSeq(c, 1, d - 1) \o SubSeq(c, d + 1, Len(c))
  PROVE  Ordered(t) /\ Ahead(s, t) /\ Within(t, n)
<1>1. /\ Len(t) = Len(c) - 1
      /\ \A i \in 1..Len(t) : t[i] = IF i < d THEN c[i] ELSE c[i + 1]
  BY Removed
<1>2. Len(c) \in Nat /\ Len(s) \in Nat /\ d \in Nat
  OBVIOUS
<1>3. \A i \in 1..Len(t) : \E j \in {i, i + 1} : t[i] = c[j] /\ j \in 1..Len(c)
                                                /\ (j = i <=> i < d)
  <2>1. TAKE i \in 1..Len(t)
  <2>2. i \in 1..Len(c) /\ i + 1 \in 1..Len(c) /\ i # i + 1
    <3>1. i \in 1..(Len(c) - 1)
      BY <1>1
    <3>2. QED
      BY <1>2, <3>1
  <2>3. CASE i < d
    BY <1>1, <2>2, <2>3
  <2>4. CASE ~(i < d)
    <3>1. t[i] = c[i + 1]
      BY <1>1, <2>4
    <3>2. QED
      BY <2>2, <2>4, <3>1
  <2>5. QED
    BY <2>3, <2>4
<1>4. Ordered(t)
  <2> SUFFICES ASSUME NEW i \in 1..Len(t), NEW j \in 1..Len(t), i < j PROVE t[i] < t[j]
    BY DEF Ordered
  <2>1. PICK k \in {i, i + 1} : t[i] = c[k] /\ k \in 1..Len(c) /\ (k = i <=> i < d)
    BY <1>3
  <2>2. PICK l \in {j, j + 1} : t[j] = c[l] /\ l \in 1..Len(c) /\ (l = j <=> j < d)
    BY <1>3
  <2>3. k < l
    BY <1>1, <1>2, <2>1, <2>2
  <2>4. QED
    BY <2>1, <2>2, <2>3 DEF Ordered
<1>5. Ahead(s, t)
  <2> SUFFICES ASSUME NEW i \in 1..Len(s), NEW j \in (Len(s) + 1)..Len(t) PROVE s[i] < t[j]
    BY DEF Ahead
  <2>1. j \in (Len(s) + 1)..(Len(c) - 1) /\ 1..Len(t) = 1..(Len(c) - 1)
    BY <1>1
  <2>2. j \in Int /\ Len(s) + 1 <= j /\ j \in 1..Len(t)
    <3>1. j \in Int /\ Len(s) + 1 <= j /\ j \in 1..(Len(c) - 1)
      <4>1. Len(c) \in Int /\ Len(s) \in Nat
        BY <1>2
      <4>2. QED
        BY <2>1, <4>1
    <3>2. QED
      BY <2>1, <3>1
  <2>3. PICK l \in {j, j + 1} : t[j] = c[l] /\ l \in 1..Len(c)
    BY <1>3, <2>2
  <2>4. l \in (Len(s) + 1)..Len(c)
    BY <1>2, <2>2, <2>3
  <2>5. QED
    BY <2>3, <2>4 DEF Ahead
<1>6. Within(t, n)
  <2> SUFFICES ASSUME NEW i \in 1..Len(t) PROVE t[i] \in 1..n
    BY DEF Within
  <2>1. PICK l \in {i, i + 1} : t[i] = c[l] /\ l \in 1..Len(c)
    BY <1>3
  <2>2. QED
    BY <2>1 DEF Within
<1>7. QED
  BY <1>4, <1>5, <1>6

\* A row newer than all keeps the order at the end of the list.
LEMMA AppendOrder ==
  ASSUME NEW s \in Seq(Nat), NEW c \in Seq(Nat), NEW n \in Nat,
         Ordered(c), Ahead(s, c), Within(s, n), Within(c, n),
         NEW t, t = Append(c, n + 1)
  PROVE  Ordered(t) /\ Ahead(s, t) /\ Within(t, n + 1)
<1>1. /\ Len(c) \in Nat /\ Len(s) \in Nat /\ Len(t) = Len(c) + 1 /\ t[Len(c) + 1] = n + 1
      /\ \A i \in 1..Len(c) : t[i] = c[i]
  OBVIOUS
<1>2. ASSUME NEW j \in 1..Len(t), j > Len(c)
      PROVE  t[j] = n + 1
  <2>1. j = Len(c) + 1
    BY <1>1, <1>2
  <2>2. QED
    BY <1>1, <2>1
<1>3. \A i \in 1..Len(c) : c[i] \in 1..n /\ c[i] < n + 1
  BY DEF Within
<1>4. \A i \in 1..Len(s) : s[i] \in 1..n /\ s[i] < n + 1
  BY DEF Within
<1>5. Ordered(t)
  <2> SUFFICES ASSUME NEW i \in 1..Len(t), NEW j \in 1..Len(t), i < j PROVE t[i] < t[j]
    BY DEF Ordered
  <2>1. i \in 1..Len(c) /\ t[i] = c[i]
    BY <1>1
  <2>2. CASE j > Len(c)
    BY <1>2, <1>3, <2>1, <2>2
  <2>3. CASE j <= Len(c)
    <3>1. j \in 1..Len(c)
      BY <1>1, <2>3
    <3>2. QED
      BY <1>1, <2>1, <3>1 DEF Ordered
  <2>4. j \in 1..(Len(c) + 1)
    BY <1>1
  <2>5. j > Len(c) \/ j <= Len(c)
    BY <1>1, <2>4
  <2>6. QED
    BY <2>2, <2>3, <2>5
<1>6. Ahead(s, t)
  <2> SUFFICES ASSUME NEW i \in 1..Len(s), NEW j \in (Len(s) + 1)..Len(t) PROVE s[i] < t[j]
    BY DEF Ahead
  <2>1. j \in 1..Len(t)
    BY <1>1
  <2>2. CASE j > Len(c)
    BY <1>2, <1>4, <2>1, <2>2
  <2>3. CASE j <= Len(c)
    <3>1. j \in (Len(s) + 1)..Len(c) /\ j \in 1..Len(c)
      BY <1>1, <2>3
    <3>2. QED
      BY <1>1, <3>1 DEF Ahead
  <2>4. j \in (Len(s) + 1)..(Len(c) + 1)
    BY <1>1
  <2>5. j > Len(c) \/ j <= Len(c)
    BY <1>1, <2>4
  <2>6. QED
    BY <2>2, <2>3, <2>5
<1>7. Within(t, n + 1)
  <2> SUFFICES ASSUME NEW i \in 1..Len(t) PROVE t[i] \in 1..(n + 1)
    BY DEF Within
  <2>1. CASE i > Len(c)
    BY <1>2, <2>1
  <2>2. CASE i <= Len(c)
    <3>1. i \in 1..Len(c)
      BY <1>1, <2>2
    <3>2. QED
      BY <1>1, <1>3, <3>1
  <2>3. QED
    BY <1>1, <2>1, <2>2
<1>8. QED
  BY <1>5, <1>6, <1>7

\* A bound may be raised.
LEMMA WithinMore ==
  ASSUME NEW s \in Seq(Nat), NEW n \in Nat, NEW m \in Nat, n <= m, Within(s, n)
  PROVE  Within(s, m)
  BY DEF Within

-----------------------------------------------------------------------------
(* The invariant *)

LEMMA InitRowsInv == Init => RowsInv /\ AnswerInv
<1> SUFFICES ASSUME Init PROVE RowsInv /\ AnswerInv
  OBVIOUS
<1>1. /\ present \in Nat /\ coll = [i \in 1..present |-> i] /\ coll \in Seq(Nat)
      /\ Len(coll) = present /\ Newest = present
  BY PaginationAssumption DEF Init, Newest
<1>2. AnswerInv
  BY DEF Init, AnswerInv, ReportedTotals, NoResult
<1>3. ASSUME Orderly PROVE Ordered(coll) /\ Ordered(all) /\ Ahead(all, coll) /\ Within(coll, Newest) /\ Within(all, Newest)
  <2>1. \E m \in 0..present : all = SubSeq(coll, 1, m)
    <3>1. CASE all = FirstPage
      <4>1. 0 + 1 = 1 /\ 0 \in Nat /\ FirstWindow \in Nat \ {0}
        BY PaginationAssumption
      <4>2. coll \in Seq(Nat) /\ Len(coll) = present /\ server # "stuck"
        BY <1>1, <1>3 DEF Orderly
      <4>3. PICK m \in 0..Len(coll) : Serve(0, FirstWindow) = SubSeq(coll, 0 + 1, m)
        BY <4>1, <4>2, OrderlyPage
      <4>4. m \in 0..present /\ all = SubSeq(coll, 1, m)
        BY <3>1, <4>1, <4>2, <4>3, Zenon DEF FirstPage
      <4>5. QED
        BY <4>4
    <3>2. CASE all = <<>>
      <4>1. SubSeq(coll, 1, 0) = <<>> /\ 0 \in 0..present
        BY <1>1
      <4>2. QED
        BY <3>2, <4>1
    <3>3. QED
      BY <3>1, <3>2 DEF Init
  <2>2. PICK m \in 0..present : all = SubSeq(coll, 1, m)
    BY <2>1
  <2>3. m \in Nat /\ Len(all) = m /\ \A i \in 1..m : all[i] = i
    BY <1>1, <2>2
  <2>4. Ordered(coll) /\ Within(coll, Newest)
    BY <1>1 DEF Ordered, Within
  <2>5. Ordered(all) /\ Within(all, Newest)
    BY <1>1, <2>3 DEF Ordered, Within
  <2>6. Ahead(all, coll)
    BY <1>1, <2>3 DEF Ahead
  <2>7. QED
    BY <2>4, <2>5, <2>6
<1>4. QED
  BY <1>2, <1>3 DEF RowsInv

LEMMA NewestType == ASSUME TypeOK PROVE Newest \in Nat /\ Newest <= present + edits
  BY PaginationAssumption DEF TypeOK, Newest

LEMMA PageKeepsRows == TypeOK /\ RowsInv /\ PageArrives => RowsInv'
<1> SUFFICES ASSUME TypeOK, RowsInv, PageArrives, Orderly'
             PROVE  /\ Ordered(coll') /\ Ordered(all') /\ Ahead(all', coll')
                    /\ Within(coll', Newest') /\ Within(all', Newest')
  BY DEF RowsInv, Ordered, Ahead, Within
<1>1. /\ UNCHANGED <<coll, present, edits, kinds, server>>
      /\ all' = all \o Serve(Len(all), PageLimit) /\ Serve(Len(all), PageLimit) # <<>>
  BY DEF PageArrives, collVars
<1>2. Orderly /\ Newest' = Newest /\ Newest \in Nat
  BY <1>1, NewestType DEF Orderly, Newest
<1>3. /\ coll \in Seq(Nat) /\ all \in Seq(Nat) /\ Len(all) \in Nat /\ Len(coll) \in Nat
      /\ PageLimit \in Nat \ {0}
  BY PaginationAssumption DEF TypeOK
<1>4. PICK m \in 0..Len(coll) :
        Serve(Len(all), PageLimit) = SubSeq(coll, Len(all) + 1, m) /\ Len(all) < m
  BY <1>1, <1>2, <1>3, OrderlyPage DEF Orderly
<1>5. m \in (Len(all) + 1)..Len(coll)
  BY <1>3, <1>4
<1>6. /\ Ordered(coll) /\ Ordered(all) /\ Ahead(all, coll)
      /\ Within(coll, Newest) /\ Within(all, Newest)
  BY <1>2 DEF RowsInv
<1>7. Ordered(all') /\ Ahead(all', coll) /\ Within(all', Newest)
  BY <1>1, <1>2, <1>3, <1>4, <1>5, <1>6, PageOrder
<1>8. QED
  BY <1>1, <1>2, <1>6, <1>7

LEMMA EditKeepsRows == TypeOK /\ RowsInv /\ (AppendRow \/ DeleteRow \/ InsertRow) => RowsInv'
<1> SUFFICES ASSUME TypeOK, RowsInv, AppendRow \/ DeleteRow \/ InsertRow, Orderly'
             PROVE  /\ Ordered(coll') /\ Ordered(all') /\ Ahead(all', coll')
                    /\ Within(coll', Newest') /\ Within(all', Newest')
  BY DEF RowsInv, Ordered, Ahead, Within
<1>1. /\ UNCHANGED <<present, server, all>> /\ edits' = edits + 1
      /\ kinds \subseteq kinds' /\ "insert" \notin kinds'
  BY DEF AppendRow, DeleteRow, InsertRow, Edit, callVars, Orderly
<1>2. Orderly
  BY <1>1 DEF Orderly
<1>3. /\ Ordered(coll) /\ Ordered(all) /\ Ahead(all, coll)
      /\ Within(coll, Newest) /\ Within(all, Newest)
  BY <1>2 DEF RowsInv
<1>4. /\ coll \in Seq(Nat) /\ all \in Seq(Nat)
      /\ present \in Nat /\ edits \in Nat /\ present + edits \in Nat
  BY PaginationAssumption DEF TypeOK
<1>5. /\ Newest \in Nat /\ Newest <= present + edits /\ Newest' \in Nat /\ Newest <= Newest'
  BY <1>1, <1>4 DEF Newest
<1>6. Ordered(all') /\ Within(all', Newest')
  BY <1>1, <1>3, <1>4, <1>5, WithinMore
<1>7. CASE AppendRow
  <2>1. coll' = Append(coll, (present + edits) + 1) /\ "append" \in kinds'
    BY <1>7 DEF AppendRow, Edit
  <2>2. Newest' = (present + edits) + 1
    BY <1>1, <1>4, <2>1 DEF Newest
  <2>3. Within(coll, present + edits) /\ Within(all, present + edits)
    BY <1>3, <1>4, <1>5, WithinMore
  <2>4. /\ Ordered(coll') /\ Ahead(all, coll')
        /\ Within(coll', (present + edits) + 1)
    BY <1>3, <1>4, <2>1, <2>3, AppendOrder
  <2>5. QED
    BY <1>1, <1>6, <2>2, <2>4
<1>8. CASE DeleteRow
  <2>1. PICK d \in 1..Len(coll) : coll' = SubSeq(coll, 1, d - 1) \o SubSeq(coll, d + 1, Len(coll))
    BY <1>8 DEF DeleteRow
  <2>2. Within(coll, Newest')
    BY <1>3, <1>4, <1>5, WithinMore
  <2>3. Ordered(coll') /\ Ahead(all, coll') /\ Within(coll', Newest')
    BY <1>3, <1>4, <1>5, <2>1, <2>2, RemovalOrder
  <2>4. QED
    BY <1>1, <1>6, <2>3
<1>9. CASE InsertRow
  BY <1>1, <1>9 DEF InsertRow, Edit
<1>10. QED
  BY <1>7, <1>8, <1>9

LEMMA NextRowsInv == TypeOK /\ RowsInv /\ [Next]_vars => RowsInv'
<1>1. TypeOK /\ RowsInv /\ (Hook \/ EmptyPage \/ FetchFails \/ Cancel \/ Answered \/ UNCHANGED vars) => RowsInv'
  <2> SUFFICES ASSUME RowsInv, Hook \/ EmptyPage \/ FetchFails \/ Cancel \/ Answered \/ UNCHANGED vars
               PROVE  RowsInv'
    OBVIOUS
  <2>1. UNCHANGED <<coll, present, edits, kinds, server, all>>
    BY DEF Hook, Defer, BadArgs, Begin, Finish, Abort, StartFetch, EmptyPage,
       FetchFails, Cancel, Answered, vars, collVars
  <2>2. QED
    BY <2>1 DEF RowsInv, Orderly, Ordered, Ahead, Within, Newest
<1>2. QED
  BY <1>1, PageKeepsRows, EditKeepsRows DEF Next, Reply, Others

LEMMA NextAnswerInv == TypeOK /\ AnswerInv /\ [Next]_vars => AnswerInv'
<1> SUFFICES ASSUME TypeOK, AnswerInv, [Next]_vars PROVE AnswerInv'
  OBVIOUS
<1>1. server' = server /\ body' = body /\ present' = present
  BY DEF Next, Hook, Reply, Others, Defer, BadArgs, Begin, Finish, Abort, StartFetch, PageArrives,
     EmptyPage, FetchFails, Cancel, AppendRow, InsertRow, DeleteRow, Edit, Answered, vars, collVars, callVars
<1>2. result.kind = "ok" => pc = "done"
  BY DEF AnswerInv
<1>3. CASE Finish \/ EmptyPage
  <2>1. pc' = "done" /\ result' = Envelope(all) /\ all' = all
    BY <1>3 DEF Finish, EmptyPage, Answer
  <2>2. QED
    BY <1>1, <2>1 DEF AnswerInv, Envelope
<1>4. CASE Defer \/ BadArgs \/ Abort \/ FetchFails
  <2>1. result'.kind # "ok"
    BY <1>4 DEF Defer, BadArgs, Abort, FetchFails, Answer, Fails, DefersBack
  <2>2. QED
    BY <1>1, <2>1 DEF AnswerInv
<1>5. CASE Begin \/ StartFetch \/ PageArrives
  <2>1. result' = result /\ pc # "done"
    BY <1>5 DEF Begin, StartFetch, PageArrives
  <2>2. QED
    BY <1>1, <1>2, <2>1 DEF AnswerInv
<1>6. CASE Others \/ Answered \/ UNCHANGED vars
  <2>1. UNCHANGED <<result, pc, all>>
    BY <1>6 DEF Others, Cancel, AppendRow, InsertRow, DeleteRow, Edit, Answered, vars, callVars
  <2>2. QED
    BY <1>1, <2>1 DEF AnswerInv
<1>7. QED
  BY <1>3, <1>4, <1>5, <1>6 DEF Next, Hook, Reply

LEMMA AlwaysRows == Spec => [](TypeOK /\ RowsInv /\ AnswerInv)
  BY InitTypeOK, NextTypeOK, InitRowsInv, NextRowsInv, NextAnswerInv, PTL DEF Spec

-----------------------------------------------------------------------------
(* No row twice, and none lost unseen *)

LEMMA OrderedIsOnce ==
  ASSUME NEW s \in Seq(Nat), Ordered(s)
  PROVE  \A i, j \in 1..Len(s) : s[i] = s[j] => i = j
<1> SUFFICES ASSUME NEW i \in 1..Len(s), NEW j \in 1..Len(s), i < j, s[i] = s[j]
             PROVE  FALSE
  OBVIOUS
<1>1. s[i] \in Nat /\ s[j] \in Nat /\ s[i] < s[j]
  BY DEF Ordered
<1>2. QED
  BY <1>1

\* Each window starts where the gathered rows end, so a row is never gathered
\* twice while the controller honours offset and rows only leave or join at
\* the end, for any page sizes and any number of changes (pagination.go:124-138).
THEOREM OnceCorrect == Spec => []NoRowTwice
<1>1. TypeOK /\ RowsInv => NoRowTwice
  BY OrderedIsOnce DEF TypeOK, RowsInv, Orderly, NoRowTwice
<1>2. QED
  BY <1>1, AlwaysRows, PTL

\* As many different numbers up to n as there are leave none out.
LEMMA AllOfThem ==
  ASSUME NEW n \in Nat, NEW s \in Seq(Nat), Ordered(s), Within(s, n), Len(s) >= n
  PROVE  1..n \subseteq RowsOf(s)
<1>1. Len(s) \in Nat /\ s \in [1..Len(s) -> 1..n]
  BY DEF Within
<1>2. s \in Injection(1..Len(s), 1..n)
  BY <1>1, OrderedIsOnce DEF Injection, IsInjective
<1>3. /\ IsFiniteSet(1..n) /\ Cardinality(1..n) = n
      /\ IsFiniteSet(1..Len(s)) /\ Cardinality(1..Len(s)) = Len(s)
  <2>1. \A k \in Nat : IsFiniteSet(1..k) /\ Cardinality(1..k) = IF 1 > k THEN 0 ELSE k - 1 + 1
    BY FS_Interval
  <2>2. \A k \in Nat : k = IF 1 > k THEN 0 ELSE k - 1 + 1
    OBVIOUS
  <2>3. QED
    BY <1>1, <2>1, <2>2
<1>4. /\ Len(s) <= n
      /\ Len(s) = n <=> s \in Surjection(1..Len(s), 1..n)
  BY <1>2, <1>3, FS_Injection
<1>5. Len(s) = n
  <2>1. Len(s) \in Nat /\ Len(s) <= n
    BY <1>1, <1>4
  <2>2. QED
    BY <2>1
<1>6. s \in Surjection(1..Len(s), 1..n)
  BY <1>4, <1>5
<1>7. QED
  BY <1>6 DEF Surjection, RowsOf

\* While rows only disappear, a row that a read missed though it was there all
\* along leaves count below totalCount, for any collection, page sizes and
\* number of deletions (pagination.go:94-99 and 150-160).
THEOREM LossCorrect == Spec => []LossIsVisible
<1>1. TypeOK /\ RowsInv /\ AnswerInv => LossIsVisible
  <2> SUFFICES ASSUME TypeOK, RowsInv, AnswerInv, result.kind = "ok", body.hasTotal,
                      server \in {"full", "short", "blank"}, kinds \subseteq {"delete"},
                      ~(result.count < result.total)
               PROVE  1..present \subseteq RowsOf(result.data)
    BY DEF LossIsVisible
  <2>1. Orderly /\ Newest = present
    BY DEF Orderly, Newest
  <2>2. Ordered(all) /\ Within(all, present)
    BY <2>1 DEF RowsInv
  <2>3. result.data = all /\ result.count = Len(all) /\ result.total = present
    BY DEF AnswerInv
  <2>4. present \in Nat /\ all \in Seq(Nat) /\ Len(all) >= present
    BY <2>3 DEF TypeOK
  <2>5. QED
    BY <2>2, <2>3, <2>4, AllOfThem
<1>2. QED
  BY <1>1, AlwaysRows, PTL
=============================================================================
