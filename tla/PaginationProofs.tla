-------------------------- MODULE PaginationProofs --------------------------
(***************************************************************************)
(* What holds of Pagination.tla for every page limit, ceiling, collection  *)
(* and number of changes: its types, the ceiling on follow-up GETs against *)
(* any controller, and that the loop reads a snapshot from a controller    *)
(* that pages in full windows while its collection only grows.             *)
(***************************************************************************)
EXTENDS Pagination, SequenceTheorems, TLAPS

-----------------------------------------------------------------------------
(* Arithmetic of the ceiling. *)

\* Integer division splits a number into whole windows and a rest.
LEMMA WholeWindows ==
  ASSUME NEW T \in Nat, NEW L \in Nat \ {0}
  PROVE  /\ T \div L \in Nat
         /\ T = L * (T \div L) + (T % L)
         /\ T % L \in 0..(L - 1)
  BY SMT

\* total/listPageLimit + 2 windows hold every one of `total` rows, and no more
\* than two windows more than that (pagination.go:119).
LEMMA CeilingCovers ==
  ASSUME NEW T \in Nat, NEW L \in Nat \ {0}, NEW p \in Nat
  PROVE  /\ p >= T \div L + 2 => p * L >= T
         /\ p <= T \div L + 2 => p * L <= T + 2 * L
<1> DEFINE q == T \div L
<1>1. /\ q \in Nat
      /\ T = L * q + (T % L)
      /\ T % L \in 0..(L - 1)
  BY WholeWindows
<1> HIDE DEF q
<1>2. (q + 2) * L = L * q + 2 * L
  BY <1>1, SMT
<1>3. p >= q + 2 => p * L >= (q + 2) * L
  BY <1>1, SMT
<1>4. p <= q + 2 => p * L <= (q + 2) * L
  BY <1>1, SMT
<1>5. QED
  BY <1>1, <1>2, <1>3, <1>4, SMT DEF q

\* A quotient truncated towards zero is an integer, positive only for a
\* positive dividend.
LEMMA QuotientType ==
  ASSUME NEW n \in Int
  PROVE  /\ Quotient(n) \in Int
         /\ n < 0 => Quotient(n) <= 0
         /\ n >= 0 => Quotient(n) = n \div PageLimit /\ Quotient(n) \in Nat
<1>1. PageLimit \in Nat \ {0}
  BY PaginationAssumption
<1>2. CASE n >= 0
  BY <1>1, <1>2, WholeWindows DEF Quotient
<1>3. CASE n < 0
  <2>1. (-n) \div PageLimit \in Nat
    BY <1>1, <1>3, WholeWindows
  <2>2. QED
    BY <1>3, <2>1 DEF Quotient
<1>4. QED
  BY <1>2, <1>3

\* The ceiling on follow-up GETs is an integer (maxPages).
LEMMA PagesAllowedType ==
  ASSUME TypeOK
  PROVE  /\ PagesAllowed \in Int
         /\ ~body.hasTotal => PagesAllowed = FallbackPages
         /\ body.hasTotal => PagesAllowed = Quotient(body.total) + 2
<1>1. body.total \in Int /\ body.hasTotal \in BOOLEAN
  BY DEF TypeOK
<1>2. Quotient(body.total) \in Int
  BY <1>1, QuotientType
<1>3. QED
  BY <1>1, <1>2, PaginationAssumption DEF PagesAllowed

-----------------------------------------------------------------------------
(* Windows of a sequence. *)

\* A window of a sequence of numbers is a sequence of numbers.
LEMMA WindowType ==
  ASSUME NEW s \in Seq(Nat), NEW offset \in Nat, NEW width \in Nat
  PROVE  Window(s, offset, width) \in Seq(Nat)
<1>1. Smaller(offset + width, Len(s)) \in Nat /\ Smaller(offset + width, Len(s)) <= Len(s)
  BY DEF Smaller
<1>2. QED
  BY <1>1, SubSeqProperties DEF Window

\* Taking one row out of a sequence of numbers leaves one.
LEMMA RemovalType ==
  ASSUME NEW s \in Seq(Nat), NEW i \in 1..Len(s)
  PROVE  SubSeq(s, 1, i - 1) \o SubSeq(s, i + 1, Len(s)) \in Seq(Nat)
<1>1. SubSeq(s, 1, i - 1) \in Seq(Nat) /\ SubSeq(s, i + 1, Len(s)) \in Seq(Nat)
  BY SubSeqProperties
<1>2. QED
  BY <1>1, ConcatProperties

\* Whatever way it pages, the controller serves rows.
LEMMA ServeType ==
  ASSUME coll \in Seq(Nat), NEW offset \in Nat, NEW limit \in Nat
  PROVE  Serve(offset, limit) \in Seq(Nat)
<1>1. Smaller(limit, ShortWindow) \in Nat
  BY PaginationAssumption DEF Smaller
<1>2. QED
  BY <1>1, WindowType DEF Serve

-----------------------------------------------------------------------------
(* Types. *)

\* The envelope handed back is a result, and a present one.
LEMMA EnvelopeType ==
  ASSUME TypeOK
  PROVE  Envelope(all) \in [kind : {"none", "ok", "error", "deferred"},
                            data : Seq(Nat), count : Nat, total : Int]
  BY DEF TypeOK, Envelope

\* The hook is called in a well-typed state.
LEMMA InitTypeOK == Init => TypeOK
<1> SUFFICES ASSUME Init PROVE TypeOK
  OBVIOUS
<1>1. present \in Nat /\ coll \in Seq(Nat)
  BY PaginationAssumption DEF Init
<1>2. body \in [envelope : BOOLEAN, hasTotal : BOOLEAN, total : Int]
  <2>1. ReportedTotals \subseteq Int
    BY <1>1, PaginationAssumption DEF ReportedTotals
  <2>2. body \in [envelope : BOOLEAN, hasTotal : BOOLEAN, total : ReportedTotals]
    BY DEF Init
  <2>3. QED
    BY <2>1, <2>2
<1>3. all \in Seq(Nat)
  <2>1. FirstPage \in Seq(Nat)
    BY <1>1, ServeType, PaginationAssumption DEF FirstPage
  <2>2. <<>> \in Seq(Nat)
    BY EmptySeq
  <2>3. QED
    BY <2>1, <2>2 DEF Init
<1>4. QED
  BY <1>1, <1>2, <1>3, PaginationAssumption DEF Init, TypeOK, NoResult

\* No step of the hook, the caller or the controller leaves the types.
LEMMA NextTypeOK == TypeOK /\ [Next]_vars => TypeOK'
<1> SUFFICES ASSUME TypeOK, [Next]_vars PROVE TypeOK'
  OBVIOUS
<1> USE PaginationAssumption DEF TypeOK
<1>1. CASE Defer
  BY <1>1 DEF Defer, Answer, DefersBack, collVars, callVars
<1>2. CASE BadArgs
  BY <1>2 DEF BadArgs, Answer, Fails, collVars, callVars
<1>3. CASE Begin
  BY <1>3 DEF Begin, collVars, callVars
<1>4. CASE Finish
  BY <1>4, EnvelopeType DEF Finish, Answer, Envelope, collVars, callVars
<1>5. CASE Abort
  BY <1>5 DEF Abort, Answer, Fails, collVars, callVars
<1>6. CASE StartFetch
  BY <1>6 DEF StartFetch, collVars, callVars
<1>7. CASE PageArrives
  BY <1>7, ServeType, ConcatProperties DEF PageArrives, collVars, callVars
<1>8. CASE EmptyPage
  BY <1>8, EnvelopeType DEF EmptyPage, Answer, Envelope, collVars, callVars
<1>9. CASE FetchFails
  BY <1>9 DEF FetchFails, Answer, Fails, collVars, callVars
<1>10. CASE Cancel
  BY <1>10 DEF Cancel, collVars, callVars
<1>11. CASE AppendRow
  <2>1. Append(coll, present + edits + 1) \in Seq(Nat)
    BY AppendProperties
  <2>2. QED
    BY <1>11, <2>1 DEF AppendRow, Edit, callVars
<1>12. CASE InsertRow
  <2>1. <<present + edits + 1>> \o coll \in Seq(Nat)
    BY ConcatProperties
  <2>2. QED
    BY <1>12, <2>1 DEF InsertRow, Edit, callVars
<1>13. CASE DeleteRow
  <2>1. ASSUME NEW i \in 1..Len(coll)
        PROVE  SubSeq(coll, 1, i - 1) \o SubSeq(coll, i + 1, Len(coll)) \in Seq(Nat)
    BY RemovalType
  <2>2. QED
    BY <1>13, <2>1 DEF DeleteRow, Edit, callVars
<1>14. CASE Answered \/ UNCHANGED vars
  BY <1>14 DEF Answered, vars
<1>15. QED
  BY <1>1, <1>2, <1>3, <1>4, <1>5, <1>6, <1>7, <1>8, <1>9, <1>10, <1>11,
     <1>12, <1>13, <1>14 DEF Next, Hook, Reply, Others

\* The variables of a read stay in their types, whatever the constants.
THEOREM TypeCorrect == Spec => []TypeOK
  BY InitTypeOK, NextTypeOK, PTL DEF Spec

-----------------------------------------------------------------------------
(* The ceiling on follow-up GETs. *)

\* Why the ceiling is inductive: a GET is only sent below it, the counter
\* moves only when that GET brings rows, and a negative total is reached
\* before the first GET.
CeilingInv ==
  /\ page > 0 => page <= PagesAllowed
  /\ pc = "fetch" => page < PagesAllowed
  /\ body.hasTotal /\ body.total < 0 => page = 0 /\ pc # "fetch"

\* No page has been asked for when the hook is called.
LEMMA InitCeilingInv == Init => CeilingInv
  BY DEF Init, CeilingInv

\* Only a GET below the ceiling is sent, so the page counter never passes it.
LEMMA NextCeilingInv == TypeOK /\ CeilingInv /\ [Next]_vars => CeilingInv'
<1> SUFFICES ASSUME TypeOK, CeilingInv, [Next]_vars PROVE CeilingInv'
  OBVIOUS
<1>1. PagesAllowed \in Int /\ page \in Nat /\ Len(all) \in Nat /\ body.total \in Int
  BY PagesAllowedType DEF TypeOK
<1>2. UNCHANGED body /\ PagesAllowed' = PagesAllowed
  <2>1. UNCHANGED body
    BY DEF Next, Hook, Reply, Others, Defer, BadArgs, Begin, Finish, Abort,
       StartFetch, PageArrives, EmptyPage, FetchFails, Cancel, AppendRow,
       InsertRow, DeleteRow, Edit, Answered, vars, callVars
  <2>2. QED
    BY <2>1 DEF PagesAllowed
<1>3. CASE StartFetch
  <2>1. page < PagesAllowed /\ page' = page /\ ~Reached
    BY <1>3 DEF StartFetch
  <2>2. body.hasTotal => body.total >= 0
    BY <1>1, <2>1 DEF Reached
  <2>3. QED
    BY <1>1, <1>2, <2>1, <2>2 DEF CeilingInv
<1>4. CASE PageArrives
  BY <1>1, <1>2, <1>4 DEF PageArrives, CeilingInv
<1>5. CASE Defer \/ BadArgs \/ Begin \/ Finish \/ Abort \/ EmptyPage \/ FetchFails
  <2>1. page' = page /\ pc' # "fetch"
    BY <1>5 DEF Defer, BadArgs, Begin, Finish, Abort, EmptyPage, FetchFails, Answer
  <2>2. QED
    BY <1>1, <1>2, <2>1 DEF CeilingInv
<1>6. CASE Others \/ Answered \/ UNCHANGED vars
  <2>1. page' = page /\ pc' = pc
    BY <1>6 DEF Others, Cancel, AppendRow, InsertRow, DeleteRow, Edit, Answered, vars
  <2>2. QED
    BY <1>1, <1>2, <2>1 DEF CeilingInv
<1>7. QED
  BY <1>3, <1>4, <1>5, <1>6 DEF Next, Hook, Reply

\* A page counter below the ceiling is the bound the loop promises.
LEMMA CeilingHolds == TypeOK /\ CeilingInv => FetchCeiling
<1> SUFFICES ASSUME TypeOK, CeilingInv PROVE FetchCeiling
  OBVIOUS
<1>1. /\ PagesAllowed \in Int /\ page \in Nat /\ Issued \in Nat
      /\ body.total \in Int /\ body.hasTotal \in BOOLEAN
      /\ PageLimit \in Nat \ {0} /\ FallbackPages \in Nat
  BY PagesAllowedType, PaginationAssumption DEF TypeOK, Issued
<1>2. Issued > 0 => Issued <= PagesAllowed
  BY <1>1 DEF CeilingInv, Issued
<1>3. CASE body.hasTotal
  <2>1. Issued > 0 => body.total >= 0
    BY <1>1, <1>3 DEF CeilingInv, Issued
  <2>2. ASSUME Issued > 0
        PROVE  Issued <= body.total \div PageLimit + 2
    BY <1>1, <1>2, <1>3, <2>1, <2>2, PagesAllowedType, QuotientType
  <2>3. ASSUME Issued > 0
        PROVE  Issued * PageLimit <= body.total + 2 * PageLimit
    <3>1. body.total \in Nat
      BY <1>1, <2>1, <2>3
    <3>2. Issued <= body.total \div PageLimit + 2
            => Issued * PageLimit <= body.total + 2 * PageLimit
      BY <1>1, <3>1, CeilingCovers
    <3>3. QED
      BY <2>2, <2>3, <3>2
  <2>4. QED
    BY <1>3, <2>3 DEF FetchCeiling
<1>4. CASE ~body.hasTotal
  BY <1>1, <1>2, <1>4, PagesAllowedType DEF FetchCeiling
<1>5. QED
  BY <1>3, <1>4

\* pagination.go:101-110, for every controller, edit and page limit: the
\* follow-up GETs of one read are bounded by the total it was told, or by the
\* fallback cap.
THEOREM CeilingCorrect == Spec => []FetchCeiling
<1>1. Init => TypeOK /\ CeilingInv
  BY InitTypeOK, InitCeilingInv
<1>2. TypeOK /\ CeilingInv /\ [Next]_vars => TypeOK' /\ CeilingInv'
  BY NextTypeOK, NextCeilingInv
<1>3. TypeOK /\ CeilingInv => FetchCeiling
  BY CeilingHolds
<1>4. QED
  BY <1>1, <1>2, <1>3, PTL DEF Spec

-----------------------------------------------------------------------------
(* The loop reads a snapshot. *)

\* The controller the loop was written for: it honours offset and limit, it
\* reports its true total, its collection only grows at the end meanwhile, and
\* it holds no more rows than the fallback ceiling can carry.
PlainController ==
  /\ Behaviours = {"full"}
  /\ Edits \subseteq {"append"}
  /\ MaxRows <= FallbackPages * PageLimit

\* Why the answer is a snapshot: what is gathered is always a prefix of the
\* collection, and until it covers the rows of the moment of the call every
\* page brought a whole window.
Prefix ==
  /\ Len(all) <= Len(coll)
  /\ all = SubSeq(coll, 1, Len(all))

Coverage == present <= Len(all) \/ page * PageLimit <= Len(all)

SnapshotInv ==
  /\ server = "full"
  /\ present <= Len(coll)
  /\ present <= MaxRows
  /\ body.total = present
  /\ Prefix
  /\ Coverage

\* A prefix followed by the stretch after it is a longer prefix.
LEMMA PrefixGrows ==
  ASSUME NEW S, NEW s \in Seq(S), NEW n \in 0..Len(s), NEW m \in n..Len(s)
  PROVE  /\ SubSeq(s, 1, n) \o SubSeq(s, n + 1, m) = SubSeq(s, 1, m)
         /\ Len(SubSeq(s, 1, m)) = m
         /\ SubSeq(s, n + 1, m) = <<>> => n = m
<1>1. SubSeq(s, 1, n) \o SubSeq(s, n + 1, m) = SubSeq(s, 1, m)
  BY ConcatAdjacentSubSeq
<1>2. Len(SubSeq(s, 1, m)) = m /\ Len(SubSeq(s, n + 1, m)) = m - n
  BY SubSeqProperties
<1>3. SubSeq(s, n + 1, m) = <<>> => m - n = 0
  BY <1>2, EmptySeq
<1>4. QED
  BY <1>1, <1>2, <1>3

\* A page of a full controller is the next stretch of its collection.
LEMMA FullPage ==
  ASSUME TypeOK, SnapshotInv
  PROVE  LET rows == Serve(Len(all), PageLimit)
         IN  /\ Len(all \o rows) <= Len(coll)
             /\ all \o rows = SubSeq(coll, 1, Len(all \o rows))
             /\ \/ Len(all \o rows) = Len(coll)
                \/ Len(all \o rows) = Len(all) + PageLimit
             /\ rows = <<>> => Len(all) = Len(coll)
<1> DEFINE n == Len(all)
           m == Smaller(n + PageLimit, Len(coll))
           rows == SubSeq(coll, n + 1, m)
<1>1. /\ n \in Nat /\ Len(coll) \in Nat /\ PageLimit \in Nat \ {0}
      /\ n <= Len(coll)
  BY PaginationAssumption DEF TypeOK, SnapshotInv, Prefix
<1>2. coll \in Seq(Nat)
  BY DEF TypeOK
<1>3. all = SubSeq(coll, 1, n)
  BY DEF SnapshotInv, Prefix
<1>4. Serve(n, PageLimit) = rows
  BY DEF SnapshotInv, Serve, Window
<1>5. /\ n \in 0..Len(coll) /\ m \in n..Len(coll)
      /\ m = Len(coll) \/ m = n + PageLimit
      /\ m = n => n = Len(coll)
  BY <1>1 DEF Smaller
<1> HIDE DEF n, m
<1>6. /\ SubSeq(coll, 1, n) \o rows = SubSeq(coll, 1, m)
      /\ Len(SubSeq(coll, 1, m)) = m
      /\ rows = <<>> => n = m
  BY <1>2, <1>5, PrefixGrows
<1>7. all \o rows = SubSeq(coll, 1, m) /\ Len(all \o rows) = m
  BY <1>3, <1>6
<1> HIDE DEF rows
<1>8. /\ Len(all \o rows) <= Len(coll)
      /\ all \o rows = SubSeq(coll, 1, Len(all \o rows))
      /\ Len(all \o rows) = Len(coll) \/ Len(all \o rows) = n + PageLimit
      /\ rows = <<>> => n = Len(coll)
  BY <1>1, <1>5, <1>6, <1>7
<1>9. QED
  BY <1>4, <1>8 DEF n

\* When the hook is called the first page is a prefix of the collection.
LEMMA InitSnapshotInv ==
  ASSUME PlainController
  PROVE  Init => SnapshotInv
<1> SUFFICES ASSUME Init PROVE SnapshotInv
  OBVIOUS
<1>1. server = "full" /\ body.total = present
  BY DEF Init, PlainController, ReportedTotals
<1>2. present \in Nat /\ present <= MaxRows /\ coll \in Seq(Nat) /\ Len(coll) = present
  BY PaginationAssumption DEF Init
<1>3. all = SubSeq(coll, 1, Smaller(FirstWindow, Len(coll)))
  <2>1. FirstPage = SubSeq(coll, 1, Smaller(FirstWindow, Len(coll)))
    <3>1. FirstPage = Window(coll, 0, FirstWindow)
      BY <1>1 DEF FirstPage, Serve
    <3>2. 0 + 1 = 1 /\ 0 + FirstWindow = FirstWindow
      BY PaginationAssumption
    <3>3. QED
      BY <3>1, <3>2 DEF Window
  <2>2. QED
    BY <1>1, <2>1 DEF Init
<1>4. Smaller(FirstWindow, Len(coll)) \in 0..Len(coll)
  BY <1>2, PaginationAssumption DEF Smaller
<1>5. Len(all) = Smaller(FirstWindow, Len(coll))
  BY <1>2, <1>3, <1>4, SubSeqProperties
<1>6. Prefix
  BY <1>2, <1>3, <1>4, <1>5 DEF Prefix
<1>7. Coverage
  BY <1>2, <1>4, <1>5, PaginationAssumption DEF Init, Coverage
<1>8. QED
  BY <1>1, <1>2, <1>6, <1>7 DEF SnapshotInv

\* The gathered rows stay a prefix of a collection that only grows.
LEMMA NextSnapshotInv ==
  ASSUME PlainController
  PROVE  TypeOK /\ SnapshotInv /\ [Next]_vars => SnapshotInv'
<1> SUFFICES ASSUME TypeOK, SnapshotInv, [Next]_vars PROVE SnapshotInv'
  OBVIOUS
<1>1. /\ coll \in Seq(Nat) /\ present \in Nat /\ Len(coll) \in Nat
      /\ Len(all) \in Nat /\ edits \in Nat
      /\ page \in Nat /\ PageLimit \in Nat \ {0}
  BY PaginationAssumption DEF TypeOK
<1>2. CASE PageArrives
  <2> DEFINE rows == Serve(Len(all), PageLimit)
  <2>1. /\ all' = all \o rows /\ page' = page + 1
        /\ UNCHANGED <<coll, present, server, body>>
    BY <1>2 DEF PageArrives, collVars, callVars
  <2>2. /\ Len(all') <= Len(coll) /\ all' = SubSeq(coll, 1, Len(all'))
        /\ Len(all') = Len(coll) \/ Len(all') = Len(all) + PageLimit
    BY <2>1, FullPage
  <2>3. Prefix'
    BY <2>1, <2>2 DEF Prefix
  <2>4. page' * PageLimit = page * PageLimit + PageLimit
    BY <1>1, <2>1
  <2>5. Coverage'
    <3>1. page * PageLimit \in Nat
      BY <1>1
    <3>2. present <= Len(coll) /\ (present <= Len(all) \/ page * PageLimit <= Len(all))
      BY DEF SnapshotInv, Coverage
    <3>3. Len(all') = Len(coll) \/ Len(all') = Len(all) + PageLimit
      BY <2>2
    <3>4. present <= Len(all') \/ page' * PageLimit <= Len(all')
      BY <1>1, <2>4, <3>1, <3>2, <3>3
    <3>5. QED
      BY <2>1, <3>4 DEF Coverage
  <2>6. QED
    BY <2>1, <2>3, <2>5 DEF SnapshotInv
<1>3. CASE AppendRow
  <2>1. /\ coll' = Append(coll, present + edits + 1)
        /\ UNCHANGED <<present, server, body, all, page>>
    BY <1>3 DEF AppendRow, Edit, callVars
  <2>2. Len(coll') = Len(coll) + 1
    BY <1>1, <2>1
  <2>3. ASSUME NEW n \in 0..Len(coll)
        PROVE  SubSeq(coll', 1, n) = SubSeq(coll, 1, n)
    BY <1>1, <2>1, SMT
  <2>4. Prefix'
    BY <1>1, <2>1, <2>2, <2>3 DEF SnapshotInv, Prefix
  <2>5. Coverage' = Coverage
    BY <2>1 DEF Coverage
  <2>6. present' <= Len(coll')
    BY <1>1, <2>1, <2>2 DEF SnapshotInv
  <2>7. QED
    BY <2>1, <2>4, <2>5, <2>6 DEF SnapshotInv
<1>4. CASE InsertRow \/ DeleteRow
  BY <1>4 DEF InsertRow, DeleteRow, Edit, PlainController
<1>5. CASE Hook \/ EmptyPage \/ FetchFails \/ Cancel \/ Answered \/ UNCHANGED vars
  <2>1. UNCHANGED <<coll, present, server, body, all, page>>
    BY <1>5 DEF Hook, Defer, BadArgs, Begin, Finish, Abort, StartFetch, EmptyPage,
       FetchFails, Cancel, Answered, vars, collVars, callVars
  <2>2. Prefix' = Prefix /\ Coverage' = Coverage
    BY <2>1 DEF Prefix, Coverage
  <2>3. QED
    BY <2>1, <2>2 DEF SnapshotInv
<1>6. QED
  BY <1>2, <1>3, <1>4, <1>5 DEF Next, Reply, Others

\* When the loop finishes, the rows of the moment of the call are gathered.
LEMMA FinishedReadIsWhole ==
  ASSUME PlainController, TypeOK, SnapshotInv, page >= PagesAllowed \/ Reached
  PROVE  present <= Len(all)
<1>1. /\ present \in Nat /\ page \in Nat /\ Len(all) \in Nat
      /\ PageLimit \in Nat \ {0} /\ FallbackPages \in Nat /\ MaxRows \in Nat
      /\ body.hasTotal \in BOOLEAN /\ body.total = present
  BY PaginationAssumption DEF TypeOK, SnapshotInv
<1>2. CASE Reached
  BY <1>1, <1>2 DEF Reached
<1>3. CASE page >= PagesAllowed /\ body.hasTotal
  <2>1. PagesAllowed = present \div PageLimit + 2
    <3>1. PagesAllowed = Quotient(present) + 2
      BY <1>1, <1>3 DEF PagesAllowed
    <3>2. Quotient(present) = present \div PageLimit
      BY <1>1 DEF Quotient
    <3>3. QED
      BY <3>1, <3>2
  <2>2. page * PageLimit >= present
    BY <1>1, <1>3, <2>1, CeilingCovers
  <2>3. QED
    BY <1>1, <2>2 DEF SnapshotInv, Coverage
<1>4. CASE page >= PagesAllowed /\ ~body.hasTotal
  <2>1. page >= FallbackPages
    BY <1>4, PagesAllowedType
  <2>2. page * PageLimit >= FallbackPages * PageLimit
    BY <1>1, <2>1, SMT
  <2>3. page * PageLimit >= present
    BY <1>1, <2>2 DEF PlainController, SnapshotInv
  <2>4. QED
    BY <1>1, <2>3 DEF SnapshotInv, Coverage
<1>5. QED
  BY <1>2, <1>3, <1>4

\* Every step of the loop is a step of the atomic read, or none.
LEMMA StepReadsASnapshot ==
  ASSUME PlainController, TypeOK, SnapshotInv, [Next]_vars
  PROVE  [Snapshot!Next]_(Snapshot!vars)
<1> DEFINE seen == [kind |-> result.kind, data |-> result.data]
<1>1. /\ coll \in Seq(Nat) /\ all \in Seq(Nat) /\ present \in Nat /\ edits \in Nat
      /\ pc # "done" => result = NoResult
  BY DEF TypeOK
<1>2. pc # "done" => seen = Snapshot!NoAnswer
  BY <1>1 DEF NoResult, Snapshot!NoAnswer
<1>3. ASSUME Answer(Fails) \/ Answer(DefersBack), pc # "done",
             UNCHANGED <<coll, present>>
      PROVE  Snapshot!GiveUp
  BY <1>2, <1>3 DEF Answer, Fails, DefersBack, Snapshot!GiveUp,
     Snapshot!Failure, Snapshot!Deferral
<1>4. ASSUME Answer(Envelope(all)), present <= Len(all), pc # "done",
             UNCHANGED <<coll, present>>
      PROVE  Snapshot!Return
  <2>1. Len(all) \in present..Len(coll)
    BY <1>1, <1>4 DEF SnapshotInv, Prefix
  <2>2. all = Snapshot!AsOf(Len(all))
    BY DEF SnapshotInv, Prefix, Snapshot!AsOf
  <2>3. seen' = Snapshot!List(all)
    BY <1>4 DEF Answer, Envelope, Snapshot!List
  <2>4. \E n \in present..Len(coll) : seen' = Snapshot!List(Snapshot!AsOf(n))
    BY <2>1, <2>2, <2>3
  <2>5. QED
    BY <1>2, <1>4, <2>4 DEF Snapshot!Return
<1>5. CASE Defer \/ BadArgs \/ Abort \/ FetchFails
  BY <1>3, <1>5 DEF Defer, BadArgs, Abort, FetchFails, collVars, Snapshot!Next
<1>6. CASE Finish
  <2>1. page >= PagesAllowed \/ Reached
    BY <1>6 DEF Finish
  <2>2. present <= Len(all)
    BY <2>1, FinishedReadIsWhole
  <2>3. QED
    BY <1>4, <1>6, <2>2 DEF Finish, collVars, Snapshot!Next
<1>7. CASE EmptyPage
  <2>1. Serve(Len(all), PageLimit) = <<>>
    BY <1>7 DEF EmptyPage, SnapshotInv
  <2>2. Len(all) = Len(coll)
    BY <2>1, FullPage
  <2>3. present <= Len(all)
    BY <2>2 DEF SnapshotInv
  <2>4. QED
    BY <1>4, <1>7, <2>3 DEF EmptyPage, collVars, Snapshot!Next
<1>8. CASE AppendRow
  <2>1. coll' = Append(coll, present + edits + 1) /\ UNCHANGED <<present, result>>
    BY <1>8 DEF AppendRow, Edit
  <2>2. /\ coll' \in Seq(Nat) /\ Len(coll') = Len(coll) + 1
        /\ SubSeq(coll', 1, Len(coll)) = coll
    BY <1>1, <2>1, SMT
  <2>3. QED
    BY <2>1, <2>2 DEF Snapshot!Grow, Snapshot!Next
<1>9. CASE InsertRow \/ DeleteRow
  BY <1>9 DEF InsertRow, DeleteRow, Edit, PlainController
<1>10. CASE Begin \/ StartFetch \/ PageArrives \/ Cancel \/ Answered \/ UNCHANGED vars
  BY <1>10 DEF Begin, StartFetch, PageArrives, Cancel, Answered, vars, collVars,
     Snapshot!vars
<1>11. QED
  BY <1>5, <1>6, <1>7, <1>8, <1>9, <1>10 DEF Next, Hook, Reply, Others

\* pagination.go:94-99, for every page limit and collection: from a controller
\* that pages in full windows and whose collection only grows, the list a read
\* returns is the collection as it stood at one instant of the read.
THEOREM SnapshotCorrect ==
  ASSUME PlainController
  PROVE  Spec => ReadsASnapshot
<1>1. Init => TypeOK /\ SnapshotInv
  BY InitTypeOK, InitSnapshotInv
<1>2. TypeOK /\ SnapshotInv /\ [Next]_vars => TypeOK' /\ SnapshotInv'
  BY NextTypeOK, NextSnapshotInv
<1>3. Init => Snapshot!Init
  <2>1. ASSUME Init
        PROVE  /\ coll \in Seq(Nat) /\ present = Len(coll)
               /\ result = NoResult
    <3>1. present \in Nat
      BY <2>1, PaginationAssumption DEF Init
    <3>2. QED
      BY <2>1, <3>1 DEF Init
  <2>2. QED
    BY <2>1 DEF Snapshot!Init, Snapshot!NoAnswer, NoResult
<1>4. TypeOK /\ SnapshotInv /\ [Next]_vars => [Snapshot!Next]_(Snapshot!vars)
  BY StepReadsASnapshot
<1>5. QED
  BY <1>1, <1>2, <1>3, <1>4, PTL DEF Spec, ReadsASnapshot, Snapshot!Spec
=============================================================================
