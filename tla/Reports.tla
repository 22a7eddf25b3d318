------------------------------- MODULE Reports -------------------------------
(***************************************************************************)
(* Reports: the sales reports and the dashboard, computed while orders are *)
(* paid, refunded and deleted and products are deleted.                    *)
(*                                                                         *)
(* A report is a script: it queries the lines of the orders paid in a      *)
(* period, and looks up their products one by one, an await each.  Orders  *)
(* are stamped by the database, which counts finer than the milliseconds   *)
(* of the dates a query is asked with; Milli instants are a millisecond.   *)
(* The server's time zone is UTC.  Revenue stands and falls with the       *)
(* quantities, so a report counts quantities only.                         *)
(***************************************************************************)
EXTENDS Integers, Sequences, FiniteSets, FiniteSetsExt

CONSTANTS
    Products, Sales, Category,  \* Category of each product
    Milli, Day,      \* lengths, in instants
    Days,            \* how many days the dashboard looks back
    Now,             \* when the report is asked for
    Requests, InitialTables,
    MaxChanges,      \* bound on the number of changes while a report is computed
    AnyCategory

Categories == {Category[p] : p \in Products}

\* Prices follow the items; a product has one line in an order, or none.
Sale == [at : Nat, items : [Products -> Nat], paid : BOOLEAN, deleted : BOOLEAN]

\* Beginnings and ends of periods are dates of the client.
Request ==
    [kind : {"products", "top", "sales"}, from : Int, to : Int, category : Categories \cup {AnyCategory}]
        \cup [kind : {"comparative"}, from : Int, to : Int, prevFrom : Int, prevTo : Int,
              category : Categories \cup {AnyCategory}]
        \cup [kind : {"categories", "summary"}, from : Int, to : Int]
        \cup [kind : {"highlights", "trends", "daily"}]

ASSUME InputsAssumption ==
    /\ {Milli, Day, Days} \subseteq Nat \ {0} /\ {Now, MaxChanges} \subseteq Nat
    /\ Day % Milli = 0 /\ Now % Milli = 0
    /\ IsFiniteSet(Products) /\ IsFiniteSet(Sales)
    /\ \A r \in Requests : r \in Request
    /\ \A t \in InitialTables : t.sales \in [Sales -> Sale] /\ t.deleted \subseteq Products

VARIABLES
    sales,
    deleted,  \* products that were deleted
    report,   \* the report in progress, or the last one
    changes,
    \* What happened, for the properties:
    gone,     \* products that were deleted when the report began
    steady    \* sales that were paid and not deleted since the report began

vars == <<sales, deleted, report, changes, gone, steady>>

Paid(s) == sales[s].paid /\ ~sales[s].deleted

(***************************************************************************)
(* Periods.                                                                *)
(***************************************************************************)
Period(from, to) == [from |-> from, to |-> to]

\* Plausible bug, and what calculateSalesTrends does: the periods share an end.
ComparisonEndShared(start) == start

\* The dashboard compares with what ends a millisecond before.
ComparisonEnd(start) == start - Milli

\* A period and the one of the same length before it.
WithComparison(from, to) ==
    <<Period(from, to),
      Period(ComparisonEnd(from) - (to - from), ComparisonEnd(from))>>

\* endDate and startDate are each a new Date(): the clock may go on in between.
LookBack(late) == Period(Now + (IF late THEN Milli ELSE 0) - Days * Day, Now)

Yesterday == Period((Now \div Day - 1) * Day, (Now \div Day) * Day - Milli)

Periods(r, late) ==
    CASE r.kind \in {"products", "top", "categories"} -> <<Period(r.from, r.to)>>
      [] r.kind = "comparative" -> <<Period(r.from, r.to), Period(r.prevFrom, r.prevTo)>>
      [] r.kind = "sales" ->
            <<Period(r.from, r.to), Period(r.from, r.to),
              Period(r.from - (r.to - r.from), r.from)>>
      [] r.kind = "summary" -> WithComparison(r.from, r.to)
      [] r.kind = "highlights" ->
            LET start == LookBack(late).from
            IN  <<LookBack(late), Period(ComparisonEnd(start) - Days * Day, ComparisonEnd(start))>>
      [] r.kind = "trends" -> <<LookBack(late), LookBack(late), LookBack(late)>>
      [] r.kind = "daily" -> <<Yesterday>>

(***************************************************************************)
(* Scripts: query period i, look up the lines of period i.                 *)
(***************************************************************************)
Query(i) == [do |-> "query", period |-> i]
Read(i) == [do |-> "read", period |-> i]

\* calculateKPIs of the period, and of the one before.
Summary == <<Query(1), Query(2)>>

\* getHighlights of both, with the products of the period.
Highlights == <<Query(1), Query(2), Read(1)>>

\* calculateSalesTrends: the same period again, and the one before.
SalesTrends == <<Query(2), Query(3), Read(2), Read(3)>>

\* getSalesReport reads its lines for the metrics and for the series, and then
\* queries the same period again to compare it.  What the dashboard computes from
\* its lines without an await, of the period before too, is left out, and so are
\* the all-time figures of the summary.
Script ==
    [products |-> <<Query(1), Read(1)>>,
     top |-> <<Query(1), Read(1)>>,
     categories |-> <<Query(1), Read(1)>>,
     daily |-> <<Query(1), Read(1)>>,
     sales |-> <<Query(1), Read(1), Read(1)>> \o SalesTrends,
     comparative |-> <<Query(1), Read(1), Query(2), Read(2)>>,
     summary |-> Summary,
     highlights |-> Highlights,
     trends |-> <<Query(1), Query(2), Query(3)>>]

Filter(r) == IF r.kind \in {"products", "top", "sales", "comparative"} THEN r.category ELSE AnyCategory

\* The metrics look a product up only for its category.
LooksUp(r) == r.kind \in {"products", "top", "categories", "highlights"} \/ Filter(r) # AnyCategory

Nothing == [p \in Products |-> 0]

Resting == [req |-> [kind |-> "none"], step |-> 0, late |-> FALSE, periods |-> <<>>,
            lines |-> <<>>,   \* of each period, as they were when it was queried
            todo |-> {},      \* lines still to be looked up
            totals |-> <<>>]  \* of each step that reads

Init ==
    /\ \E initial \in InitialTables : sales = initial.sales /\ deleted = initial.deleted
    /\ report = Resting
    /\ changes = 0 /\ gone = {} /\ steady = {}

UNCHANGEDTables == UNCHANGED <<sales, deleted, changes, gone, steady>>

Open(r) ==
    /\ report.step = 0
    /\ \E late \in IF r.kind \in {"highlights", "trends"} THEN BOOLEAN ELSE {FALSE} :
          report' = [Resting EXCEPT
              !.req = r, !.step = 1, !.late = late, !.periods = Periods(r, late),
              !.lines = [i \in DOMAIN Periods(r, late) |-> {}],
              !.totals = [k \in DOMAIN Script[r.kind] |-> Nothing]]
    /\ gone' = deleted
    /\ steady' = {s \in Sales : Paid(s)}
    /\ UNCHANGED <<sales, deleted, changes>>

InProgress == report.step \in DOMAIN Script[report.req.kind]
Instruction == Script[report.req.kind][report.step]

PaidIn(period) == {s \in Sales : Paid(s) /\ period.from <= sales[s].at /\ sales[s].at <= period.to}

Lines(period) ==
    UNION {{[sale |-> s, product |-> p, quantity |-> sales[s].items[p]] :
               p \in {q \in Products : sales[s].items[q] > 0}} : s \in PaidIn(period)}

\* The next step; one that reads has its lines before it.
Advance(rep) ==
    LET next == rep.step + 1
        script == Script[rep.req.kind]
    IN  [rep EXCEPT !.step = next,
                    !.todo = IF next \in DOMAIN script /\ script[next].do = "read"
                               THEN rep.lines[script[next].period] ELSE {}]

RunQuery ==
    /\ report.step > 0 /\ InProgress
    /\ Instruction.do = "query"
    /\ LET i == Instruction.period
       IN  report' = Advance([report EXCEPT
              !.lines = [report.lines EXCEPT ![i] = Lines(report.periods[i])]])
    /\ UNCHANGEDTables

\* Plausible bug: a later line replaces the product's earlier ones.
TallyLatest(totals, line) == [totals EXCEPT ![line.product] = line.quantity]

Tally(totals, line) == [totals EXCEPT ![line.product] = totals[line.product] + line.quantity]

Wanted(r, p) == Filter(r) \in {AnyCategory, Category[p]}

\* One await: a product that is deleted, or of another category, is passed over.
LookUp(line) ==
    /\ report.step > 0 /\ InProgress
    /\ Instruction.do = "read" /\ LooksUp(report.req)
    /\ line \in report.todo
    /\ LET soFar == report.totals[report.step]
           now == IF line.product \notin deleted /\ Wanted(report.req, line.product)
                    THEN Tally(soFar, line) ELSE soFar
       IN  report' = [report EXCEPT
              !.todo = report.todo \ {line},
              !.totals = [report.totals EXCEPT ![report.step] = now]]
    /\ UNCHANGEDTables

SoldOf(lines, p) == MapThenSumSet(LAMBDA line : line.quantity, {l \in lines : l.product = p})

\* The end of a loop, or a loop without an await.
EndRead ==
    /\ report.step > 0 /\ InProgress
    /\ Instruction.do = "read"
    /\ report.todo = {} \/ ~LooksUp(report.req)
    /\ LET soFar == report.totals[report.step]
           now == [p \in Products |-> soFar[p] + SoldOf(report.todo, p)]
       IN  report' = Advance([report EXCEPT
              !.totals = [report.totals EXCEPT ![report.step] = now]])
    /\ UNCHANGEDTables

\* What the chart of a trend has a point for: the days met walking from the first
\* instant to the last, a day at a time.
ChartDaysBefore(period) ==
    {(period.from + k * Day) \div Day : k \in {j \in 0 .. Days : period.from + j * Day < period.to}}

ChartDays(period) ==
    {(period.from + k * Day) \div Day : k \in {j \in 0 .. Days : period.from + j * Day <= period.to}}

\* aggregateByDay: an order whose day has no point is passed over.
Charted(i) == {line \in report.lines[i] : sales[line.sale].at \div Day \in ChartDays(report.periods[i])}

(***************************************************************************)
(* Meanwhile: payments and refunds, deletions of orders and products.      *)
(***************************************************************************)
Meanwhile ==
    /\ report.step > 0 /\ InProgress
    /\ changes < MaxChanges
    /\ changes' = changes + 1
    /\ UNCHANGED <<report, gone>>

PaymentChanges(s) ==
    /\ Meanwhile
    /\ sales' = [sales EXCEPT ![s] = [sales[s] EXCEPT !.paid = ~sales[s].paid]]
    /\ steady' = steady \ {s}
    /\ UNCHANGED deleted

SaleDeleted(s) ==
    /\ Meanwhile
    /\ ~sales[s].deleted
    /\ sales' = [sales EXCEPT ![s] = [sales[s] EXCEPT !.deleted = TRUE]]
    /\ steady' = steady \ {s}
    /\ UNCHANGED deleted

ProductDeleted(p) ==
    /\ Meanwhile
    /\ p \notin deleted
    /\ deleted' = deleted \cup {p}
    /\ UNCHANGED <<sales, steady>>

Next ==
    \/ \E r \in Requests : Open(r)
    \/ RunQuery \/ EndRead
    \/ \E line \in report.todo : LookUp(line)
    \/ \E s \in Sales : PaymentChanges(s) \/ SaleDeleted(s)
    \/ \E p \in Products : ProductDeleted(p)

Spec == Init /\ [][Next]_vars

(***************************************************************************)
(* Properties.                                                             *)
(***************************************************************************)
Finished == report.step > 0 /\ ~InProgress

\* Whatever is deleted while a report looks products up: one that stays is reported
\* with all that was sold of it, one that was deleted before is not reported at
\* all, and one deleted meanwhile with no more than was sold
\* (sales-reports.service.ts:134, dashboard-highlights.service.ts:86).
KeptReportedWhole ==
    Finished => \A k \in DOMAIN report.totals, p \in Products :
        LET step == Script[report.req.kind][k]
            sold == SoldOf(report.lines[step.period], p)
        IN  step.do = "read" /\ Wanted(report.req, p) =>
              /\ p \notin deleted \/ ~LooksUp(report.req) => report.totals[k][p] = sold
              /\ p \in gone /\ LooksUp(report.req) => report.totals[k][p] = 0
              /\ report.totals[k][p] <= sold

\* Whatever is paid or deleted while the dashboard compares two periods: no order
\* counts in both, and one that stays paid counts in one of them, unless it was
\* made within the millisecond that lies between them
\* (dashboard.service.ts:53, 150).
ComparedOnce ==
    Finished /\ report.req.kind \in {"summary", "highlights"} =>
        LET current == report.periods[1]
            previous == report.periods[2]
            In(i) == {line.sale : line \in report.lines[i]}
            Between(s) == previous.to < sales[s].at /\ sales[s].at < current.from
        IN  /\ In(1) \cap In(2) = {}
            /\ \A s \in steady :
                  /\ previous.from <= sales[s].at /\ sales[s].at <= current.to
                  /\ ~Between(s)
                  => s \in In(1) \cup In(2)

\* The charts of the dashboard have a point for every order they are of, up to
\* the last of today, unless the clock went on between endDate and startDate
\* (dashboard.service.ts:94, dashboard-trends.service.ts:161).
ChartComplete ==
    Finished /\ report.req.kind = "trends" /\ ~report.late
        => \A i \in DOMAIN report.lines : Charted(i) = report.lines[i]
=============================================================================
