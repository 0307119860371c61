----------------------------- MODULE Pagination -----------------------------
(***************************************************************************)
(* The post-invoke hook that assembles a paginated list read:              *)
(* OnPostInvoke and aggregatePages (provider/pkg/provider/pagination.go).  *)
(*                                                                         *)
(* The framework has issued one GET and decoded it; the hook either hands  *)
(* that body back or follows offset/limit until it decides it has every    *)
(* row.  Two more actors interleave with the loop: the caller, who may     *)
(* cancel the context, and the controller, whose collection changes        *)
(* between two GETs and which may not page the way the loop expects.       *)
(*                                                                         *)
(* A row is a number, in the order rows came to be: 1..present are the     *)
(* rows of the moment of the first GET.  The body of a row, the query      *)
(* string and the wording of errors are left out.                          *)
(***************************************************************************)
EXTENDS Integers, Sequences

CONSTANTS
  PageLimit,      \* listPageLimit, the window every follow-up GET asks for
  FallbackPages,  \* maxPagesFallback, the ceiling when no total is usable
  FirstWindow,    \* the page size the controller applies to the first GET
  ShortWindow,    \* the most rows a "short" controller serves in one page
  Behaviours,     \* how the controller may page, a subset of Paging
  Edits,          \* how its collection may change, a subset of Changes
  MaxRows,        \* bound: rows at the moment of the first GET
  MaxEdits,       \* bound: changes while the read runs
  ClaimedTotals   \* the totals a "lying" controller may report

\* full:  every page holds min(limit, rows left) rows
\* short: as full, but never more than ShortWindow rows in a page
\* stuck: ignores offset and serves the head of the collection each time
\* blank: as full, but a 200 answer may carry no data array
\* lying: as full, but totalCount is arbitrary
Paging  == {"full", "short", "stuck", "blank", "lying"}
Changes == {"append", "insert", "delete"}

ASSUME PaginationAssumption ==
  /\ PageLimit \in Nat \ {0}
  /\ FallbackPages \in Nat \ {0}
  /\ FirstWindow \in Nat \ {0}
  /\ ShortWindow \in Nat \ {0}
  /\ Behaviours \subseteq Paging
  /\ Edits \subseteq Changes
  /\ MaxRows \in Nat
  /\ MaxEdits \in Nat
  /\ ClaimedTotals \subseteq Int

VARIABLES
  coll,       \* the controller's collection, in the order it lists it
  present,    \* rows it held at the first GET
  edits,      \* changes made to it since
  kinds,      \* and of which kinds they were
  server,     \* how it pages
  body,       \* the decoded first body: is it an envelope, and its total
  readable,   \* the token has a read path and the provider a handler
  cancelled,  \* ctx.Err() # nil
  pc,         \* "hook", "loop", "fetch" (a GET is in flight) or "done"
  all,        \* the rows gathered so far
  page,       \* the loop's page counter
  result      \* what the hook returns

collVars == <<coll, present, edits, kinds, server>>
callVars == <<body, readable>>
vars == <<coll, present, edits, kinds, server, body, readable, cancelled, pc, all,
          page, result>>

Smaller(a, b) == IF a <= b THEN a ELSE b

\* The rows of s a request for `width` rows from `offset` selects.
Window(s, offset, width) ==
  SubSeq(s, offset + 1, Smaller(offset + width, Len(s)))

\* The page the controller serves for offset/limit.
Serve(offset, limit) ==
  Window(coll,
         IF server = "stuck" THEN 0 ELSE offset,
         IF server = "short" THEN Smaller(limit, ShortWindow) ELSE limit)

\* The page of the framework's own GET, which names no window.
FirstPage == Serve(0, FirstWindow)

\* What totalCount of the first body may be.
ReportedTotals == IF server = "lying" THEN ClaimedTotals ELSE {present}

NoResult   == [kind |-> "none", data |-> <<>>, count |-> 0, total |-> 0]
Fails      == [kind |-> "error", data |-> <<>>, count |-> 0, total |-> 0]
DefersBack == [kind |-> "deferred", data |-> <<>>, count |-> 0, total |-> 0]

\* Broken: totalCount is only ever copied, never filled in.
EnvelopeCopiesTotal(rows) ==
  IF body.hasTotal
    THEN [kind |-> "ok", data |-> rows, count |-> Len(rows), total |-> body.total]
    ELSE [kind |-> "ok", data |-> rows, count |-> Len(rows)]

\* Broken: totalCount is reconciled to the rows, as count is.
EnvelopeRecountsTotal(rows) ==
  [NoResult EXCEPT !.kind = "ok", !.data = rows, !.count = Len(rows),
                   !.total = Len(rows)]

\* The envelope handed back: every row, count reconciled to the rows, the
\* reported total kept and only a missing one backfilled.
Envelope(rows) ==
  [kind |-> "ok", data |-> rows, count |-> Len(rows),
   total |-> IF body.hasTotal THEN body.total ELSE Len(rows)]

\* Go's integer division truncates towards zero.
Quotient(n) ==
  IF n >= 0 THEN n \div PageLimit ELSE -((-n) \div PageLimit)

\* Broken: a ceiling that does not follow the total.
PagesAllowedFixed == FallbackPages

\* Broken: no slack beyond the whole windows of the total.
PagesAllowedTight ==
  IF body.hasTotal THEN Quotient(body.total) ELSE FallbackPages

\* maxPages
PagesAllowed ==
  IF body.hasTotal THEN Quotient(body.total) + 2 ELSE FallbackPages

Reached == body.hasTotal /\ Len(all) >= body.total

\* The states the framework can call the hook in: its own GET has been
\* answered and decoded, whatever the shape of the body.
Init ==
  /\ present \in 0..MaxRows
  /\ coll = [i \in 1..present |-> i]
  /\ edits = 0 /\ kinds = {}
  /\ server \in Behaviours
  /\ body \in [envelope : BOOLEAN, hasTotal : BOOLEAN, total : ReportedTotals]
  /\ readable \in BOOLEAN
  /\ cancelled \in BOOLEAN
  /\ pc = "hook"
  /\ all \in {FirstPage} \cup (IF server = "blank" THEN {<<>>} ELSE {})
  /\ page = 0
  /\ result = NoResult

Answer(r) ==
  /\ pc' = "done"
  /\ result' = r

-----------------------------------------------------------------------------
(* OnPostInvoke before the loop. *)

\* Not a page envelope, or nothing to page with: the framework converts the
\* body it already has.
Defer ==
  /\ pc = "hook"
  /\ ~(body.envelope /\ readable)
  /\ Answer(DefersBack)
  /\ UNCHANGED <<collVars, callVars, cancelled, all, page>>

\* The invoke's arguments do not unmarshal.
BadArgs ==
  /\ pc = "hook"
  /\ body.envelope /\ readable
  /\ Answer(Fails)
  /\ UNCHANGED <<collVars, callVars, cancelled, all, page>>

Begin ==
  /\ pc = "hook"
  /\ body.envelope /\ readable
  /\ pc' = "loop"
  /\ UNCHANGED <<collVars, callVars, cancelled, all, page, result>>

-----------------------------------------------------------------------------
(* The loop of aggregatePages. *)

\* The ceiling is reached, or the context is live and so is the total.
Finish ==
  /\ pc = "loop"
  /\ \/ page >= PagesAllowed
     \/ ~cancelled /\ Reached
  /\ Answer(Envelope(all))
  /\ UNCHANGED <<collVars, callVars, cancelled, all, page>>

Abort ==
  /\ pc = "loop"
  /\ page < PagesAllowed
  /\ cancelled
  /\ Answer(Fails)
  /\ UNCHANGED <<collVars, callVars, cancelled, all, page>>

StartFetch ==
  /\ pc = "loop"
  /\ page < PagesAllowed
  /\ ~cancelled
  /\ ~Reached
  /\ pc' = "fetch"
  /\ UNCHANGED <<collVars, callVars, cancelled, all, page, result>>

\* Broken: the offset counts windows asked for, not rows received.
PageArrivesByWindow ==
  /\ pc = "fetch"
  /\ Serve(page * PageLimit, PageLimit) # <<>>
  /\ all' = all \o Serve(page * PageLimit, PageLimit)
  /\ page' = page + 1
  /\ pc' = "loop"
  /\ UNCHANGED <<collVars, callVars, cancelled, result>>

\* A page with rows: they are appended and the loop goes round.
PageArrives ==
  /\ pc = "fetch"
  /\ Serve(Len(all), PageLimit) # <<>>
  /\ all' = all \o Serve(Len(all), PageLimit)
  /\ page' = page + 1
  /\ pc' = "loop"
  /\ UNCHANGED <<collVars, callVars, cancelled, result>>

\* A page without rows ends the loop, and so does a 200 whose body has no
\* data array (toSlice yields nil for it).
EmptyPage ==
  /\ pc = "fetch"
  /\ \/ Serve(Len(all), PageLimit) = <<>>
     \/ server = "blank"
  /\ Answer(Envelope(all))
  /\ UNCHANGED <<collVars, callVars, cancelled, all, page>>

\* Broken: a GET that fails is sent again.
FetchRetries ==
  /\ pc = "fetch"
  /\ pc' = "loop"
  /\ UNCHANGED <<collVars, callVars, cancelled, all, page, result>>

\* The request cannot be built or sent, the status is not 200, or the body
\* does not decode.
FetchFails ==
  /\ pc = "fetch"
  /\ Answer(Fails)
  /\ UNCHANGED <<collVars, callVars, cancelled, all, page>>

\* Broken: the request is built without ctx and waits for its answer.
FetchIgnoresCancel == FALSE

\* The GET carries ctx, so a cancelled one returns whatever the controller does.
FetchCancelled ==
  /\ cancelled
  /\ FetchFails

-----------------------------------------------------------------------------
(* The caller and the controller. *)

Cancel ==
  /\ pc # "done"
  /\ ~cancelled
  /\ cancelled' = TRUE
  /\ UNCHANGED <<collVars, callVars, pc, all, page, result>>

Edit(how) ==
  /\ how \in Edits
  /\ pc # "done"
  /\ edits < MaxEdits
  /\ edits' = edits + 1 /\ kinds' = kinds \cup {how}
  /\ UNCHANGED <<present, server, callVars, cancelled, pc, all, page, result>>

AppendRow ==
  /\ Edit("append")
  /\ coll' = Append(coll, present + edits + 1)

InsertRow ==
  /\ Edit("insert")
  /\ coll' = <<present + edits + 1>> \o coll

DeleteRow ==
  /\ Edit("delete")
  /\ \E i \in 1..Len(coll) :
       coll' = SubSeq(coll, 1, i - 1) \o SubSeq(coll, i + 1, Len(coll))

-----------------------------------------------------------------------------
\* The read is over; a caller has its answer.
Answered ==
  /\ pc = "done"
  /\ UNCHANGED vars

Hook   == Defer \/ BadArgs \/ Begin \/ Finish \/ Abort \/ StartFetch
Reply  == PageArrives \/ EmptyPage \/ FetchFails
Others == Cancel \/ AppendRow \/ InsertRow \/ DeleteRow

Next == Hook \/ Reply \/ Others \/ Answered

Spec == Init /\ [][Next]_vars

\* The hook's own steps are straight-line Go: it never stops between two of
\* them.  Nothing is assumed of the controller except that net/http returns
\* from a GET whose context is cancelled.
FairSpec == Spec /\ WF_vars(Hook) /\ WF_vars(FetchCancelled)

-----------------------------------------------------------------------------
(* Properties. *)

RowsOf(s) == {s[i] : i \in 1..Len(s)}

\* The variables stay in their types: rows are numbers, the gathered rows a
\* sequence of them, and a result is absent until the read is over.
TypeOK ==
  /\ coll \in Seq(Nat)
  /\ present \in Nat
  /\ edits \in 0..MaxEdits /\ kinds \subseteq Edits
  /\ server \in Behaviours
  /\ body \in [envelope : BOOLEAN, hasTotal : BOOLEAN, total : Int]
  /\ readable \in BOOLEAN
  /\ cancelled \in BOOLEAN
  /\ pc \in {"hook", "loop", "fetch", "done"}
  /\ all \in Seq(Nat)
  /\ page \in Nat
  /\ result \in [kind : {"none", "ok", "error", "deferred"},
                 data : Seq(Nat), count : Nat, total : Int]
  /\ pc = "done" => result.kind # "none"
  /\ pc # "done" => result = NoResult

Issued == page + (IF pc = "fetch" THEN 1 ELSE 0)

\* The loop's bound (pagination.go:101-110): however the controller pages,
\* whatever total it claims and however its collection changes meanwhile, the
\* follow-up GETs never ask for more than the claimed total plus two windows,
\* and never exceed the fallback cap when no total is usable.
FetchCeiling ==
  IF body.hasTotal
    THEN Issued > 0 => Issued * PageLimit <= body.total + 2 * PageLimit
    ELSE Issued <= FallbackPages

\* A list that lost a row says so.  When rows can only disappear while the
\* read runs and the controller honours offset, a row that was there from the
\* first GET to the last and is missing from the answer leaves count below
\* the totalCount of the same envelope (which only a missing total backfills).
LossIsVisible ==
  /\ result.kind = "ok" /\ body.hasTotal
  /\ server \in {"full", "short", "blank"} /\ kinds \subseteq {"delete"}
  => \/ (1..present) \cap RowsOf(coll) \subseteq RowsOf(result.data)
     \/ result.count < result.total

\* Each window starts where the gathered rows end, so a row is never gathered
\* twice while the controller honours offset and rows only leave or join at
\* the end, whatever page sizes it serves.
NoRowTwice ==
  server # "stuck" /\ "insert" \notin kinds
    => \A i, j \in 1..Len(all) : all[i] = all[j] => i = j

\* aggregatePages follows offset/limit "until the reported totalCount is
\* reached or a page returns no rows" (pagination.go:95-96): a list is only
\* returned when one of the two has happened.
FollowsToTheEnd ==
  [][(result'.kind = "ok" /\ body.hasTotal)
       => (result'.count >= body.total \/ pc = "fetch" \/ pc = "done")]_vars

\* A cancelled read returns even when the controller never answers again.
CancelledReadReturns == cancelled ~> (pc = "done")

\* Every read returns from a controller that answers each GET, however it
\* pages: one that serves rows for ever included (pagination.go:101-110).
ReadReturns == WF_vars(Reply) => <>(pc = "done")

\* Against a controller that pages in full windows and whose collection only
\* grows, the loop of GETs is one atomic read of the collection.
Snapshot ==
  INSTANCE ListRead WITH
    answer <- [kind |-> result.kind, data |-> result.data]

ReadsASnapshot == Snapshot!Spec
=============================================================================
