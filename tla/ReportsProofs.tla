---------------------------- MODULE ReportsProofs ----------------------------
(***************************************************************************)
(* What holds of the reports and of the dashboard for any number of        *)
(* orders, lines and products, any periods and any number of changes while *)
(* a report is computed.                                                   *)
(***************************************************************************)
EXTENDS Reports, TLAPS, FiniteSetTheorems, SequenceTheorems, Sums

(***************************************************************************)
(* Days.                                                                   *)
(***************************************************************************)
LEMMA Divided ==
    ASSUME NEW a \in Int, NEW d \in Nat \ {0}
    PROVE  /\ a \div d \in Int
           /\ (a \div d) * d <= a
           /\ a < (a \div d) * d + d
<1>1. a \div d \in Int /\ a % d \in 0 .. (d - 1) /\ a = d * (a \div d) + (a % d)
  OBVIOUS
<1> QED BY <1>1

LEMMA ProductsOrdered ==
    ASSUME NEW x \in Int, NEW y \in Int, x < y, NEW d \in Nat \ {0}
    PROVE  x * d + d <= y * d
<1> DEFINE m == y - x - 1
<1>1. m \in Nat /\ y = x + 1 + m
  OBVIOUS
<1> HIDE DEF m
<1>2. m * d >= 0
  BY <1>1
<1>3. y * d = x * d + d + m * d
  BY <1>1
<1>4. x * d \in Int /\ m * d \in Int
  BY <1>1
<1> QED BY <1>2, <1>3, <1>4

LEMMA QuotientIs ==
    ASSUME NEW a \in Int, NEW d \in Nat \ {0}, NEW q \in Int, q * d <= a, a < q * d + d
    PROVE  a \div d = q
<1> DEFINE x == a \div d
<1>1. x \in Int /\ x * d <= a /\ a < x * d + d
  BY Divided
<1> HIDE DEF x
<1>2. q * d \in Int /\ x * d \in Int
  BY <1>1
<1>3. ~(x < q)
  <2>1. x < q => x * d + d <= q * d
    BY <1>1, ProductsOrdered
  <2> QED BY <1>1, <1>2, <2>1
<1>4. ~(q < x)
  <2>1. q < x => q * d + d <= x * d
    BY <1>1, ProductsOrdered
  <2> QED BY <1>1, <1>2, <2>1
<1>5. x = q
  BY <1>1, <1>3, <1>4
<1> QED BY <1>5 DEF x

\* Walking from an instant a day at a time one meets every day up to the last.
LEMMA DaysMet ==
    ASSUME NEW d \in Nat \ {0}, NEW n \in Nat, NEW from \in Int, NEW at \in Int,
           from <= at, at <= from + n * d
    PROVE  \E k \in 0 .. n : (from + k * d) \div d = at \div d
<1> DEFINE f == from \div d
           q == at \div d
           k == q - f
<1>1. /\ f \in Int /\ f * d <= from /\ from < f * d + d
      /\ q \in Int /\ q * d <= at /\ at < q * d + d
  BY Divided
<1> HIDE DEF f, q
<1>2. /\ k \in Int /\ q = f + k /\ q * d = f * d + k * d
      /\ f * d \in Int /\ q * d \in Int /\ k * d \in Int /\ n * d \in Int
  BY <1>1
<1>3. ~(q < f)
  <2>1. q < f => q * d + d <= f * d
    BY <1>1, ProductsOrdered
  <2> QED BY <1>1, <1>2, <2>1
<1>4. ~(n < k)
  <2>1. n < k => n * d + d <= k * d
    BY <1>2, ProductsOrdered
  <2>2. n < k => f * d + n * d + d <= q * d
    BY <1>2, <2>1
  <2> QED BY <1>1, <1>2, <2>2
<1>5. k \in 0 .. n
  BY <1>1, <1>2, <1>3, <1>4
<1>6. q * d <= from + k * d /\ from + k * d < q * d + d /\ from + k * d \in Int
  BY <1>1, <1>2
<1>7. (from + k * d) \div d = q
  <2> HIDE DEF k
  <2> QED BY <1>1, <1>6, QuotientIs
<1> QED BY <1>5, <1>7 DEF q

(***************************************************************************)
(* What was sold, as a sum over lines.                                     *)
(***************************************************************************)
Line == [sale : Sales, product : Products, quantity : Nat]

Quantity == [l \in Line |-> l.quantity]

LinesOf(L, p) == {l \in L : l.product = p}

LEMMA SoldIsSum ==
    ASSUME NEW L \in SUBSET Line, IsFiniteSet(L), NEW p
    PROVE  /\ Summable(Quantity, LinesOf(L, p))
           /\ SoldOf(L, p) = Sum(Quantity, LinesOf(L, p))
<1> DEFINE D == LinesOf(L, p)
           Fold(g) == g = [T \in SUBSET D |->
               IF T = {} THEN 0 ELSE First(T).quantity + g[T \ {First(T)}]]
<1>1. SoldOf(L, p) = (CHOOSE g : Fold(g))[D]
  BY DEF SoldOf, MapThenSumSet, MapThenFoldSet, First, LinesOf
<1>2. Summable(Quantity, D)
  <2>1. D \in SUBSET L /\ D \subseteq Line
    BY DEF LinesOf
  <2>2. IsFiniteSet(D)
    <3> HIDE DEF D
    <3> QED BY <2>1, FS_Subset
  <2>3. \A l \in D : Quantity[l] = l.quantity /\ l.quantity \in Nat
    BY <2>1 DEF Quantity, Line
  <2> HIDE DEF D
  <2> QED BY <2>2, <2>3 DEF Summable
<1>3. ASSUME NEW g PROVE Fold(g) <=> Folded(g, Quantity, D)
  <2>1. ASSUME NEW T \in SUBSET D, T # {}
        PROVE  Quantity[First(T)] = First(T).quantity
    <3>1. First(T) \in T
      BY <2>1 DEF First
    <3>2. First(T) \in Line
      BY <3>1 DEF LinesOf
    <3> QED BY <3>2 DEF Quantity
  <2> DEFINE A(T) == IF T = {} THEN 0 ELSE Quantity[First(T)] + g[T \ {First(T)}]
             B(T) == IF T = {} THEN 0 ELSE First(T).quantity + g[T \ {First(T)}]
  <2>2. \A T \in SUBSET D : A(T) = B(T)
    BY <2>1
  <2>3. [T \in SUBSET D |-> A(T)] = [T \in SUBSET D |-> B(T)]
    <3> HIDE DEF A, B
    <3> QED BY <2>2
  <2> QED BY <2>3 DEF Folded
<1>4. \E g : Fold(g)
  BY <1>2, <1>3, FoldExists
<1>5. Fold(CHOOSE g : Fold(g))
  <2> HIDE DEF Fold
  <2> QED BY <1>4
<1>6. Folded(CHOOSE g : Fold(g), Quantity, D)
  BY <1>3, <1>5
<1> HIDE DEF Fold
<1> QED BY <1>1, <1>2, <1>6, FoldIsSum

LEMMA SoldNone == ASSUME NEW p PROVE SoldOf({}, p) = 0
<1>1. {} \in SUBSET Line /\ IsFiniteSet({}) /\ LinesOf({}, p) = {}
  BY FS_EmptySet DEF LinesOf
<1> QED BY <1>1, SoldIsSum, SumEmpty

LEMMA SoldInt ==
    ASSUME NEW L \in SUBSET Line, IsFiniteSet(L), NEW p PROVE SoldOf(L, p) \in Int
  BY SoldIsSum, SumType

\* One more line.
LEMMA SoldAdd ==
    ASSUME NEW L \in SUBSET Line, IsFiniteSet(L), NEW line \in Line, line \notin L, NEW p
    PROVE  SoldOf(L \cup {line}, p) = SoldOf(L, p) + (IF line.product = p THEN line.quantity ELSE 0)
<1>1. L \cup {line} \in SUBSET Line /\ IsFiniteSet(L \cup {line})
  BY FS_AddElement
<1>2. /\ Summable(Quantity, LinesOf(L \cup {line}, p)) /\ Summable(Quantity, LinesOf(L, p))
      /\ SoldOf(L \cup {line}, p) = Sum(Quantity, LinesOf(L \cup {line}, p))
      /\ SoldOf(L, p) = Sum(Quantity, LinesOf(L, p)) /\ Sum(Quantity, LinesOf(L, p)) \in Int
  BY <1>1, SoldIsSum, SumType
<1>3. CASE line.product = p
  <2>1. LinesOf(L \cup {line}, p) = LinesOf(L, p) \cup {line} /\ line \notin LinesOf(L, p)
    BY <1>3 DEF LinesOf
  <2>2. Sum(Quantity, LinesOf(L, p) \cup {line}) = Quantity[line] + Sum(Quantity, LinesOf(L, p))
    <3> DEFINE X == LinesOf(L, p)
    <3>1. line \notin X /\ Summable(Quantity, X \cup {line})
      BY <1>2, <2>1
    <3> HIDE DEF X
    <3>2. Sum(Quantity, X \cup {line}) = Quantity[line] + Sum(Quantity, X)
      BY <3>1, SumAdd
    <3> QED BY <3>2 DEF X
  <2>3. Quantity[line] = line.quantity /\ line.quantity \in Nat
    BY DEF Quantity, Line
  <2>4. SoldOf(L \cup {line}, p) = line.quantity + SoldOf(L, p) /\ SoldOf(L, p) \in Int
    BY <1>2, <2>1, <2>2, <2>3
  <2> QED BY <1>3, <2>3, <2>4
<1>4. CASE line.product # p
  <2>1. LinesOf(L \cup {line}, p) = LinesOf(L, p)
    BY <1>4 DEF LinesOf
  <2> QED BY <1>2, <1>4, <2>1
<1> QED BY <1>3, <1>4

(***************************************************************************)
(* Scripts: a period is queried before its lines are looked up, and never  *)
(* after.                                                                  *)
(***************************************************************************)
Span == [from : Int, to : Int]

WellScripted(script, n) ==
    /\ script \in Seq([do : {"query", "read"}, period : 1 .. n])
    /\ 1 \in DOMAIN script /\ script[1].do = "query"
    /\ \A j, k \in DOMAIN script :
          script[j].do = "query" /\ script[k].do = "read" /\ script[j].period = script[k].period
              => j < k

LEMMA PeriodsTyped ==
    ASSUME NEW r \in Request, NEW late \in BOOLEAN
    PROVE  /\ Periods(r, late) \in Seq(Span)
           /\ r.kind \in {"products", "top", "categories", "daily"} => Len(Periods(r, late)) = 1
           /\ r.kind \in {"comparative", "summary", "highlights"} => Len(Periods(r, late)) = 2
           /\ r.kind \in {"sales", "trends"} => Len(Periods(r, late)) = 3
           /\ r.kind \in {"products", "top", "sales", "comparative", "categories", "summary",
                          "highlights", "trends", "daily"}
<1>a. /\ Milli \in Int /\ Day \in Int /\ Now \in Int /\ Days * Day \in Int
      /\ (Now \div Day) * Day \in Int /\ (Now \div Day - 1) * Day \in Int
  <2>1. Day \in Nat \ {0} /\ Now \in Int /\ Milli \in Int /\ Days \in Int
    BY InputsAssumption
  <2>2. Now \div Day \in Int
    BY <2>1, Divided
  <2> QED BY <2>1, <2>2
<1>b. LookBack(late) \in Span
  BY <1>a DEF LookBack, Period, Span
<1>c. Yesterday \in Span
  BY <1>a DEF Yesterday, Period, Span
<1>1. CASE r.kind \in {"products", "top", "categories"}
  <2>1. r.from \in Int /\ r.to \in Int
    BY <1>1 DEF Request
  <2>2. Periods(r, late) = <<Period(r.from, r.to)>>
    BY <1>1 DEF Periods
  <2> QED BY <1>1, <2>1, <2>2 DEF Period, Span
<1>2. CASE r.kind = "comparative"
  <2>1. r.from \in Int /\ r.to \in Int /\ r.prevFrom \in Int /\ r.prevTo \in Int
    BY <1>2 DEF Request
  <2>2. Periods(r, late) = <<Period(r.from, r.to), Period(r.prevFrom, r.prevTo)>>
    BY <1>2 DEF Periods
  <2> QED BY <1>2, <2>1, <2>2 DEF Period, Span
<1>3. CASE r.kind = "sales"
  <2>1. r.from \in Int /\ r.to \in Int
    BY <1>3 DEF Request
  <2>2. Periods(r, late) = <<Period(r.from, r.to), Period(r.from, r.to),
                             Period(r.from - (r.to - r.from), r.from)>>
    BY <1>3 DEF Periods
  <2> QED BY <1>3, <2>1, <2>2 DEF Period, Span
<1>4. CASE r.kind = "summary"
  <2>1. r.from \in Int /\ r.to \in Int
    BY <1>4 DEF Request
  <2>2. Periods(r, late) = WithComparison(r.from, r.to)
    BY <1>4 DEF Periods
  <2> QED BY <1>4, <1>a, <2>1, <2>2 DEF WithComparison, ComparisonEnd, Period, Span
<1>5. CASE r.kind = "highlights"
  <2>1. Periods(r, late) =
          <<LookBack(late), Period(ComparisonEnd(LookBack(late).from) - Days * Day,
                                   ComparisonEnd(LookBack(late).from))>>
    BY <1>5 DEF Periods
  <2>2. LookBack(late).from \in Int
    BY <1>b DEF Span
  <2>3. Period(ComparisonEnd(LookBack(late).from) - Days * Day,
               ComparisonEnd(LookBack(late).from)) \in Span
    BY <1>a, <2>2 DEF ComparisonEnd, Period, Span
  <2> QED BY <1>5, <1>b, <2>1, <2>3
<1>6. CASE r.kind = "trends"
  <2>1. Periods(r, late) = <<LookBack(late), LookBack(late), LookBack(late)>>
    BY <1>6 DEF Periods
  <2> QED BY <1>6, <1>b, <2>1
<1>7. CASE r.kind = "daily"
  <2>1. Periods(r, late) = <<Yesterday>>
    BY <1>7 DEF Periods
  <2> QED BY <1>7, <1>c, <2>1
<1>8. r.kind \in {"products", "top", "sales", "comparative", "categories", "summary",
                  "highlights", "trends", "daily"}
  BY DEF Request
<1> QED BY <1>1, <1>2, <1>3, <1>4, <1>5, <1>6, <1>7, <1>8

LEMMA Scripted ==
    ASSUME NEW r \in Request, NEW late \in BOOLEAN
    PROVE  WellScripted(Script[r.kind], Len(Periods(r, late)))
<1>1. CASE r.kind \in {"products", "top", "categories", "daily"}
  <2>1. Script[r.kind] = <<Query(1), Read(1)>>
    BY <1>1 DEF Script
  <2> QED BY <1>1, <2>1, PeriodsTyped DEF WellScripted, Query, Read
<1>2. CASE r.kind = "comparative"
  <2>1. Script[r.kind] = <<Query(1), Read(1), Query(2), Read(2)>>
    BY <1>2 DEF Script
  <2> QED BY <1>2, <2>1, PeriodsTyped DEF WellScripted, Query, Read
<1>3. CASE r.kind = "sales"
  <2> DEFINE S == Script[r.kind]
             T == [do : {"query", "read"}, period : 1 .. 3]
             A == <<Query(1), Read(1), Read(1)>>
  <2>1. S = A \o SalesTrends
    BY <1>3 DEF Script
  <2>2. Len(Periods(r, late)) = 3
    BY <1>3, PeriodsTyped
  <2>a. /\ A \in Seq(T) /\ Len(A) = 3
        /\ A[1] = Query(1) /\ A[2] = Read(1) /\ A[3] = Read(1)
    BY DEF Query, Read
  <2>b. /\ SalesTrends \in Seq(T) /\ Len(SalesTrends) = 4
        /\ SalesTrends[1] = Query(2) /\ SalesTrends[2] = Query(3)
        /\ SalesTrends[3] = Read(2) /\ SalesTrends[4] = Read(3)
    BY DEF SalesTrends, Query, Read
  <2> HIDE DEF A, T, S
  <2>c. /\ S \in Seq(T) /\ Len(S) = 7
        /\ \A i \in 1 .. 7 : S[i] = IF i <= 3 THEN A[i] ELSE SalesTrends[i - 3]
    <3>1. /\ A \o SalesTrends \in Seq(T)
          /\ Len(A \o SalesTrends) = Len(A) + Len(SalesTrends)
          /\ \A i \in 1 .. Len(A) + Len(SalesTrends) :
                (A \o SalesTrends)[i] = IF i <= Len(A) THEN A[i] ELSE SalesTrends[i - Len(A)]
      <4>1. A \in Seq(T) /\ SalesTrends \in Seq(T)
        BY <2>a, <2>b
      <4> QED BY <4>1, ConcatProperties
    <3>2. Len(A) = 3 /\ Len(SalesTrends) = 4
      BY <2>a, <2>b
    <3> QED BY <2>1, <3>1, <3>2
  <2>3. S \in Seq([do : {"query", "read"}, period : 1 .. 3]) /\ DOMAIN S = 1 .. 7
    BY <2>c DEF T
  <2>4. /\ S[1] = Query(1) /\ S[2] = Read(1) /\ S[3] = Read(1) /\ S[4] = Query(2)
        /\ S[5] = Query(3) /\ S[6] = Read(2) /\ S[7] = Read(3)
    BY <2>a, <2>b, <2>c
  <2>5. \A j \in 1 .. 7 : S[j].do = "query" =>
            \/ j = 1 /\ S[j].period = 1
            \/ j = 4 /\ S[j].period = 2
            \/ j = 5 /\ S[j].period = 3
    BY <2>4 DEF Query, Read
  <2>6. \A k \in 1 .. 7 : S[k].do = "read" =>
            \/ k \in {2, 3} /\ S[k].period = 1
            \/ k = 6 /\ S[k].period = 2
            \/ k = 7 /\ S[k].period = 3
    BY <2>4 DEF Query, Read
  <2>7. S[1].do = "query"
    BY <2>4 DEF Query
  <2>8. WellScripted(S, 3)
    BY <2>3, <2>5, <2>6, <2>7 DEF WellScripted
  <2> QED BY <2>2, <2>8 DEF S
<1>4. CASE r.kind = "summary"
  <2>1. Script[r.kind] = <<Query(1), Query(2)>>
    BY <1>4 DEF Script, Summary
  <2>2. Len(Periods(r, late)) = 2
    BY <1>4, PeriodsTyped
  <2> QED BY <2>1, <2>2 DEF WellScripted, Query, Read
<1>5. CASE r.kind = "highlights"
  <2>1. Script[r.kind] = <<Query(1), Query(2), Read(1)>>
    BY <1>5 DEF Script, Highlights
  <2> QED BY <1>5, <2>1, PeriodsTyped DEF WellScripted, Query, Read
<1>6. CASE r.kind = "trends"
  <2>1. Script[r.kind] = <<Query(1), Query(2), Query(3)>>
    BY <1>6 DEF Script
  <2> QED BY <1>6, <2>1, PeriodsTyped DEF WellScripted, Query, Read
<1> QED BY <1>1, <1>2, <1>3, <1>4, <1>5, <1>6, PeriodsTyped

(***************************************************************************)
(* The shape of a report, and what each action does to it.                 *)
(***************************************************************************)
Report == [req : Requests, step : Nat, late : BOOLEAN, periods : Seq(Span),
           lines : Seq(SUBSET Line), todo : SUBSET Line, totals : Seq([Products -> Int])]

ScriptOf(rep) == Script[rep.req.kind]

Formed(rep) ==
    /\ rep \in Report
    /\ rep.periods = Periods(rep.req, rep.late)
    /\ Len(rep.lines) = Len(rep.periods)
    /\ Len(rep.totals) = Len(ScriptOf(rep))
    /\ rep.step \in 1 .. (Len(ScriptOf(rep)) + 1)
    /\ \A i \in DOMAIN rep.lines : IsFiniteSet(rep.lines[i])
    /\ IsFiniteSet(rep.todo)

Tables == sales \in [Sales -> Sale] /\ deleted \subseteq Products

ShapeInv == Tables /\ (report = Resting \/ Formed(report))

LEMMA NotResting == ASSUME Formed(Resting) PROVE FALSE
<1>1. Resting.step = 0
  BY DEF Resting
<1> QED BY <1>1 DEF Formed

LEMMA ScriptShape ==
    ASSUME NEW rep, Formed(rep)
    PROVE  /\ rep.req \in Request /\ rep.late \in BOOLEAN
           /\ WellScripted(ScriptOf(rep), Len(rep.lines))
           /\ DOMAIN rep.lines = 1 .. Len(rep.lines) /\ DOMAIN rep.periods = DOMAIN rep.lines
           /\ Len(ScriptOf(rep)) \in Nat /\ DOMAIN ScriptOf(rep) = 1 .. Len(ScriptOf(rep))
           /\ DOMAIN rep.totals = DOMAIN ScriptOf(rep)
           /\ \A k \in DOMAIN ScriptOf(rep) :
                 ScriptOf(rep)[k].do \in {"query", "read"} /\ ScriptOf(rep)[k].period \in DOMAIN rep.lines
<1>1. /\ rep.req \in Request /\ rep.late \in BOOLEAN
      /\ rep.lines \in Seq(SUBSET Line) /\ rep.periods \in Seq(Span)
      /\ rep.totals \in Seq([Products -> Int])
  BY InputsAssumption DEF Formed, Report
<1>2. WellScripted(ScriptOf(rep), Len(rep.lines))
  BY <1>1, Scripted DEF Formed, ScriptOf
<1>3. ScriptOf(rep) \in Seq([do : {"query", "read"}, period : 1 .. Len(rep.lines)])
  BY <1>2 DEF WellScripted
<1>4. \A k \in DOMAIN ScriptOf(rep) :
          ScriptOf(rep)[k].do \in {"query", "read"} /\ ScriptOf(rep)[k].period \in 1 .. Len(rep.lines)
  <2> DEFINE S == ScriptOf(rep)
             n == Len(rep.lines)
             T == [do : {"query", "read"}, period : 1 .. n]
  <2>1. S \in Seq(T)
    BY <1>3
  <2> HIDE DEF S, n, T
  <2>2. \A k \in DOMAIN S : S[k] \in T
    BY <2>1
  <2> USE DEF T
  <2>3. \A k \in DOMAIN S : S[k].do \in {"query", "read"} /\ S[k].period \in 1 .. n
    BY <2>2
  <2> QED BY <2>3 DEF S, n
<1>5. /\ DOMAIN rep.lines = 1 .. Len(rep.lines) /\ DOMAIN rep.periods = 1 .. Len(rep.periods)
      /\ Len(ScriptOf(rep)) \in Nat /\ DOMAIN ScriptOf(rep) = 1 .. Len(ScriptOf(rep))
      /\ DOMAIN rep.totals = 1 .. Len(rep.totals)
  BY <1>1, <1>3
<1> QED BY <1>1, <1>2, <1>4, <1>5 DEF Formed

\* The lines of a period, while the tables stand still.
LEMMA LinesTyped ==
    ASSUME Tables, NEW period
    PROVE  Lines(period) \in SUBSET Line /\ IsFiniteSet(Lines(period))
<1> DEFINE all == Sales \X Products
           f == [x \in all |-> [sale |-> x[1], product |-> x[2], quantity |-> sales[x[1]].items[x[2]]]]
           image == {f[x] : x \in all}
<1>1. IsFiniteSet(all)
  BY InputsAssumption, FS_Product
<1>2. \A s \in Sales : \A p \in Products : sales[s].items[p] \in Nat
  BY DEF Tables, Sale
<1>3. Lines(period) \subseteq Line
  BY <1>2 DEF Lines, PaidIn, Line
<1>4. Lines(period) \subseteq image
  <2>1. ASSUME NEW s \in Sales, NEW p \in Products
        PROVE  [sale |-> s, product |-> p, quantity |-> sales[s].items[p]] \in image
    <3>1. <<s, p>> \in all /\ f[<<s, p>>] = [sale |-> s, product |-> p, quantity |-> sales[s].items[p]]
      OBVIOUS
    <3> HIDE DEF f, all
    <3> QED BY <3>1
  <2> HIDE DEF image
  <2> QED BY <2>1 DEF Lines, PaidIn
<1>5. IsFiniteSet(image)
  <2>1. f \in Surjection(all, image)
    <3>1. DOMAIN f = all
      OBVIOUS
    <3>2. f = [x \in all |-> f[x]]
      OBVIOUS
    <3> HIDE DEF f, all
    <3> QED BY <3>1, <3>2 DEF Surjection
  <2> HIDE DEF f, all, image
  <2> QED BY <1>1, <2>1, FS_Surjection
<1> QED BY <1>3, <1>4, <1>5, FS_Subset

\* What Advance does to a report.
Same(new, old) == new.req = old.req /\ new.late = old.late /\ new.periods = old.periods

TodoAt(rep, k) ==
    IF k \in DOMAIN ScriptOf(rep) /\ ScriptOf(rep)[k].do = "read"
      THEN rep.lines[ScriptOf(rep)[k].period] ELSE {}

LEMMA AdvanceIs ==
    ASSUME NEW rep, Formed(rep), rep.step \in DOMAIN ScriptOf(rep)
    PROVE  /\ Formed(Advance(rep)) /\ Same(Advance(rep), rep)
           /\ Advance(rep).lines = rep.lines /\ Advance(rep).totals = rep.totals
           /\ Advance(rep).step = rep.step + 1
           /\ Advance(rep).todo = TodoAt(Advance(rep), rep.step + 1)
<1> DEFINE todo == TodoAt(rep, rep.step + 1)
           new == [rep EXCEPT !.step = rep.step + 1, !.todo = todo]
<1>1. Advance(rep) = new
  BY DEF Advance, TodoAt, ScriptOf
<1>2. todo \in SUBSET Line /\ IsFiniteSet(todo)
  <2>1. CASE rep.step + 1 \in DOMAIN ScriptOf(rep) /\ ScriptOf(rep)[rep.step + 1].do = "read"
    <3>1. ScriptOf(rep)[rep.step + 1].period \in DOMAIN rep.lines
      BY <2>1, ScriptShape
    <3>2. \A i \in DOMAIN rep.lines : rep.lines[i] \in SUBSET Line /\ IsFiniteSet(rep.lines[i])
      BY DEF Formed, Report
    <3> QED BY <2>1, <3>1, <3>2 DEF TodoAt
  <2>2. CASE ~(rep.step + 1 \in DOMAIN ScriptOf(rep) /\ ScriptOf(rep)[rep.step + 1].do = "read")
    BY <2>2, FS_EmptySet DEF TodoAt
  <2> QED BY <2>1, <2>2
<1> HIDE DEF todo
<1>3. rep \in Report
  BY DEF Formed
<1>4. /\ new.req = rep.req /\ new.late = rep.late /\ new.periods = rep.periods
      /\ new.lines = rep.lines /\ new.totals = rep.totals
      /\ new.step = rep.step + 1 /\ new.todo = todo
  BY <1>3 DEF Report
<1>5. rep.step + 1 \in 1 .. (Len(ScriptOf(rep)) + 1) /\ rep.step + 1 \in Nat
  BY ScriptShape
<1>6. new \in Report
  BY <1>2, <1>3, <1>5 DEF Report
<1> HIDE DEF new
<1>7. Formed(new) /\ Same(new, rep)
  BY <1>2, <1>4, <1>5, <1>6 DEF Formed, Same, ScriptOf
<1>8. TodoAt(new, rep.step + 1) = todo
  BY <1>4 DEF TodoAt, ScriptOf, todo
<1> QED BY <1>1, <1>4, <1>7, <1>8

LEMMA AtStep ==
    ASSUME ShapeInv, report.step > 0
    PROVE  /\ Formed(report) /\ report \in Report
           /\ InProgress <=> report.step \in DOMAIN ScriptOf(report)
           /\ Instruction = ScriptOf(report)[report.step]
  BY DEF ShapeInv, Resting, Formed, InProgress, Instruction, ScriptOf

LEMMA OpenIs ==
    ASSUME ShapeInv, NEW r \in Requests, Open(r)
    PROVE  /\ report = Resting /\ Formed(report')
           /\ report'.step = 1 /\ report'.todo = {} /\ report'.req = r
           /\ \A i \in DOMAIN report'.lines : report'.lines[i] = {}
           /\ \A k \in DOMAIN report'.totals : report'.totals[k] = Nothing
<1>1. report = Resting
  BY ScriptShape DEF Open, ShapeInv, Formed
<1>2. PICK late \in BOOLEAN : report' = [Resting EXCEPT
              !.req = r, !.step = 1, !.late = late, !.periods = Periods(r, late),
              !.lines = [i \in DOMAIN Periods(r, late) |-> {}],
              !.totals = [k \in DOMAIN Script[r.kind] |-> Nothing]]
  BY DEF Open
<1> DEFINE periods == Periods(r, late)
           script == Script[r.kind]
           lines == [i \in DOMAIN periods |-> {}]
           totals == [k \in DOMAIN script |-> Nothing]
<1>3. r \in Request /\ periods \in Seq(Span) /\ WellScripted(script, Len(periods))
  BY InputsAssumption, PeriodsTyped, Scripted
<1>4. report' = [req |-> r, step |-> 1, late |-> late, periods |-> periods, lines |-> lines,
                 todo |-> {}, totals |-> totals]
  BY <1>2 DEF Resting
<1> HIDE DEF periods, script
<1>5. Len(script) \in Nat /\ DOMAIN script = 1 .. Len(script) /\ 1 \in DOMAIN script
  BY <1>3 DEF WellScripted
<1>6. Len(periods) \in Nat /\ DOMAIN periods = 1 .. Len(periods)
  BY <1>3
<1>7. lines \in Seq(SUBSET Line) /\ Len(lines) = Len(periods)
  BY <1>6
<1>8. totals \in Seq([Products -> Int]) /\ Len(totals) = Len(script)
  BY <1>5 DEF Nothing
<1>9. \A i \in DOMAIN lines : lines[i] = {}
  OBVIOUS
<1>10. \A k \in DOMAIN totals : totals[k] = Nothing
  OBVIOUS
<1> HIDE DEF lines, totals
<1>11. report' \in Report
  BY <1>3, <1>4, <1>7, <1>8 DEF Report
<1>12. Formed(report')
  <2>1. /\ report'.req = r /\ report'.late = late /\ report'.periods = periods
        /\ report'.lines = lines /\ report'.totals = totals /\ report'.step = 1
        /\ report'.todo = {}
    BY <1>4
  <2>2. ScriptOf(report') = script
    BY <2>1 DEF ScriptOf, script
  <2>3. report'.periods = Periods(report'.req, report'.late)
    BY <2>1 DEF periods
  <2>4. 1 \in 1 .. (Len(script) + 1)
    BY <1>5
  <2>5. IsFiniteSet({})
    BY FS_EmptySet
  <2> QED BY <1>7, <1>8, <1>9, <1>11, <2>1, <2>2, <2>3, <2>4, <2>5 DEF Formed
<1> QED BY <1>1, <1>4, <1>9, <1>10, <1>12

LEMMA RunQueryIs ==
    ASSUME ShapeInv, RunQuery
    PROVE  /\ Formed(report) /\ Formed(report') /\ Same(report', report)
           /\ report.step \in DOMAIN ScriptOf(report)
           /\ ScriptOf(report)[report.step].do = "query"
           /\ report'.lines = [report.lines EXCEPT ![ScriptOf(report)[report.step].period] =
                                  Lines(report.periods[ScriptOf(report)[report.step].period])]
           /\ report'.step = report.step + 1 /\ report'.totals = report.totals
           /\ report'.todo = TodoAt(report', report.step + 1)
<1>1. /\ Formed(report) /\ report \in Report /\ report.step \in DOMAIN ScriptOf(report)
      /\ ScriptOf(report)[report.step].do = "query"
  BY AtStep DEF RunQuery
<1> DEFINE i == ScriptOf(report)[report.step].period
           new == Lines(report.periods[i])
           lines == [report.lines EXCEPT ![i] = new]
           rep == [report EXCEPT !.lines = lines]
<1>2. report' = Advance(rep)
  BY AtStep DEF RunQuery
<1>3. i \in DOMAIN report.lines
  BY <1>1, ScriptShape
<1>4. new \in SUBSET Line /\ IsFiniteSet(new)
  BY LinesTyped DEF ShapeInv
<1> HIDE DEF i, new
<1>5. /\ lines \in Seq(SUBSET Line) /\ Len(lines) = Len(report.lines)
      /\ \A j \in DOMAIN lines : IsFiniteSet(lines[j])
  <2>1. report.lines \in Seq(SUBSET Line) /\ \A j \in DOMAIN report.lines : IsFiniteSet(report.lines[j])
    BY <1>1 DEF Formed, Report
  <2> QED BY <1>3, <1>4, <2>1
<1> HIDE DEF lines
<1>6. rep \in Report
  BY <1>1, <1>5 DEF Report
<1>7. /\ rep.req = report.req /\ rep.late = report.late /\ rep.periods = report.periods
      /\ rep.lines = lines /\ rep.totals = report.totals /\ rep.step = report.step
      /\ rep.todo = report.todo
  BY <1>1 DEF Report
<1> HIDE DEF rep
<1>8. Formed(rep) /\ rep.step \in DOMAIN ScriptOf(rep)
  BY <1>1, <1>5, <1>6, <1>7 DEF Formed, ScriptOf
<1>9. /\ Formed(report') /\ Same(report', rep) /\ report'.lines = lines
      /\ report'.totals = report.totals /\ report'.step = report.step + 1
      /\ report'.todo = TodoAt(report', report.step + 1)
  BY <1>2, <1>7, <1>8, AdvanceIs
<1> QED BY <1>1, <1>7, <1>9 DEF Same, lines, i, new

LEMMA EndReadIs ==
    ASSUME ShapeInv, EndRead
    PROVE  /\ Formed(report) /\ Formed(report') /\ Same(report', report)
           /\ report.step \in DOMAIN ScriptOf(report)
           /\ ScriptOf(report)[report.step].do = "read"
           /\ report.todo = {} \/ ~LooksUp(report.req)
           /\ report'.lines = report.lines
           /\ report'.totals = [report.totals EXCEPT ![report.step] =
                 [p \in Products |-> report.totals[report.step][p] + SoldOf(report.todo, p)]]
           /\ report'.step = report.step + 1
           /\ report'.todo = TodoAt(report', report.step + 1)
<1>1. /\ Formed(report) /\ report \in Report /\ report.step \in DOMAIN ScriptOf(report)
      /\ ScriptOf(report)[report.step].do = "read"
      /\ report.todo = {} \/ ~LooksUp(report.req)
  BY AtStep DEF EndRead
<1> DEFINE now == [p \in Products |-> report.totals[report.step][p] + SoldOf(report.todo, p)]
           totals == [report.totals EXCEPT ![report.step] = now]
           rep == [report EXCEPT !.totals = totals]
<1>2. report' = Advance(rep)
  BY AtStep DEF EndRead
<1>3. report.step \in DOMAIN report.totals
  BY <1>1, ScriptShape
<1>4. now \in [Products -> Int]
  <2>1. report.totals \in Seq([Products -> Int]) /\ report.todo \in SUBSET Line
        /\ IsFiniteSet(report.todo)
    BY <1>1 DEF Formed, Report
  <2>2. report.totals[report.step] \in [Products -> Int]
    BY <1>3, <2>1
  <2>3. \A p \in Products : SoldOf(report.todo, p) \in Int
    BY <2>1, SoldInt
  <2> QED BY <2>2, <2>3
<1> HIDE DEF now
<1>5. totals \in Seq([Products -> Int]) /\ Len(totals) = Len(report.totals)
  <2>1. report.totals \in Seq([Products -> Int])
    BY <1>1 DEF Report
  <2> QED BY <1>3, <1>4, <2>1
<1> HIDE DEF totals
<1>6. rep \in Report
  BY <1>1, <1>5 DEF Report
<1>7. /\ rep.req = report.req /\ rep.late = report.late /\ rep.periods = report.periods
      /\ rep.lines = report.lines /\ rep.totals = totals /\ rep.step = report.step
      /\ rep.todo = report.todo
  BY <1>1 DEF Report
<1> HIDE DEF rep
<1>8. Formed(rep) /\ rep.step \in DOMAIN ScriptOf(rep)
  BY <1>1, <1>5, <1>6, <1>7 DEF Formed, ScriptOf
<1>9. /\ Formed(report') /\ Same(report', rep) /\ report'.lines = report.lines
      /\ report'.totals = totals /\ report'.step = report.step + 1
      /\ report'.todo = TodoAt(report', report.step + 1)
  BY <1>2, <1>7, <1>8, AdvanceIs
<1> QED BY <1>1, <1>7, <1>9 DEF Same, totals, now

LEMMA LookUpIs ==
    ASSUME ShapeInv, NEW line, LookUp(line)
    PROVE  /\ Formed(report) /\ Formed(report') /\ Same(report', report)
           /\ report.step \in DOMAIN ScriptOf(report)
           /\ ScriptOf(report)[report.step].do = "read"
           /\ LooksUp(report.req) /\ line \in report.todo /\ line \in Line
           /\ report'.lines = report.lines /\ report'.step = report.step
           /\ report'.todo = report.todo \ {line}
           /\ report'.totals = [report.totals EXCEPT ![report.step] =
                 IF line.product \notin deleted /\ Wanted(report.req, line.product)
                   THEN Tally(report.totals[report.step], line) ELSE report.totals[report.step]]
<1>1. /\ Formed(report) /\ report \in Report /\ report.step \in DOMAIN ScriptOf(report)
      /\ ScriptOf(report)[report.step].do = "read"
      /\ LooksUp(report.req) /\ line \in report.todo
  BY AtStep DEF LookUp
<1>2. line \in Line /\ report.todo \in SUBSET Line
  BY <1>1 DEF Report
<1> DEFINE now == IF line.product \notin deleted /\ Wanted(report.req, line.product)
                    THEN Tally(report.totals[report.step], line) ELSE report.totals[report.step]
           totals == [report.totals EXCEPT ![report.step] = now]
           todo == report.todo \ {line}
           rep == [report EXCEPT !.todo = todo, !.totals = totals]
<1>3. report' = rep
  BY DEF LookUp
<1>4. report.step \in DOMAIN report.totals
  BY <1>1, ScriptShape
<1>5. now \in [Products -> Int]
  <2>1. report.totals \in Seq([Products -> Int])
    BY <1>1 DEF Report
  <2>2. report.totals[report.step] \in [Products -> Int]
    BY <1>4, <2>1
  <2>3. Tally(report.totals[report.step], line) \in [Products -> Int]
    BY <1>2, <2>2 DEF Tally, Line
  <2> QED BY <2>2, <2>3
<1> HIDE DEF now
<1>6. totals \in Seq([Products -> Int]) /\ Len(totals) = Len(report.totals)
  <2>1. report.totals \in Seq([Products -> Int])
    BY <1>1 DEF Report
  <2> QED BY <1>4, <1>5, <2>1
<1>7. todo \in SUBSET Line /\ IsFiniteSet(todo)
  BY <1>1, <1>2, FS_Subset DEF Formed
<1> HIDE DEF totals, todo
<1>8. rep \in Report
  BY <1>1, <1>6, <1>7 DEF Report
<1>9. /\ rep.req = report.req /\ rep.late = report.late /\ rep.periods = report.periods
      /\ rep.lines = report.lines /\ rep.totals = totals /\ rep.step = report.step
      /\ rep.todo = todo
  BY <1>1 DEF Report
<1> HIDE DEF rep
<1>10. Formed(rep)
  BY <1>1, <1>6, <1>7, <1>8, <1>9 DEF Formed, ScriptOf
<1> QED BY <1>1, <1>2, <1>3, <1>9, <1>10 DEF Same, totals, now, todo

LEMMA ShapeStart == ASSUME Init PROVE ShapeInv
  BY InputsAssumption DEF Init, ShapeInv, Tables

\* Whatever changes meanwhile, the report stays as it is.
Changed ==
    \/ \E s \in Sales : PaymentChanges(s) \/ SaleDeleted(s)
    \/ \E p \in Products : ProductDeleted(p)

LEMMA MeanwhileIs ==
    ASSUME ShapeInv, Changed
    PROVE  /\ Tables' /\ Formed(report) /\ report' = report /\ gone' = gone /\ deleted \subseteq deleted'
           /\ steady' \subseteq steady
           /\ \A t \in Sales : sales'[t].at = sales[t].at /\ sales'[t].items = sales[t].items
           /\ \A t \in steady' : t \in Sales => sales'[t] = sales[t]
<1> DEFINE Goal ==
      /\ Tables' /\ deleted \subseteq deleted' /\ steady' \subseteq steady
      /\ \A t \in Sales : sales'[t].at = sales[t].at /\ sales'[t].items = sales[t].items
      /\ \A t \in steady' : t \in Sales => sales'[t] = sales[t]
<1>1. Meanwhile /\ Formed(report)
  BY AtStep DEF Changed, PaymentChanges, SaleDeleted, ProductDeleted, Meanwhile
<1>2. report' = report /\ gone' = gone
  BY <1>1 DEF Meanwhile
<1>3. sales \in [Sales -> Sale] /\ deleted \subseteq Products
  BY DEF ShapeInv, Tables
<1>4. ASSUME NEW s \in Sales, PaymentChanges(s)
      PROVE  Goal
  <2>1. /\ sales' = [sales EXCEPT ![s] = [sales[s] EXCEPT !.paid = ~sales[s].paid]]
        /\ steady' = steady \ {s} /\ deleted' = deleted
    BY <1>4 DEF PaymentChanges
  <2> DEFINE paid == ~sales[s].paid
             new == [sales[s] EXCEPT !.paid = paid]
  <2>2. paid \in BOOLEAN /\ sales' = [sales EXCEPT ![s] = new]
    BY <2>1
  <2> HIDE DEF paid
  <2>3. new \in Sale /\ new.at = sales[s].at /\ new.items = sales[s].items
    BY <1>3, <2>2 DEF Sale
  <2> HIDE DEF new
  <2> QED BY <1>1, <1>2, <1>3, <2>1, <2>2, <2>3 DEF Tables
<1>5. ASSUME NEW s \in Sales, SaleDeleted(s) PROVE Goal
  <2>1. /\ sales' = [sales EXCEPT ![s] = [sales[s] EXCEPT !.deleted = TRUE]]
        /\ steady' = steady \ {s} /\ deleted' = deleted
    BY <1>5 DEF SaleDeleted
  <2> DEFINE new == [sales[s] EXCEPT !.deleted = TRUE]
  <2>2. new \in Sale /\ new.at = sales[s].at /\ new.items = sales[s].items
    BY <1>3 DEF Sale
  <2> HIDE DEF new
  <2> QED BY <1>1, <1>2, <1>3, <2>1, <2>2 DEF Tables, new
<1>6. ASSUME NEW p \in Products, ProductDeleted(p) PROVE Goal
  BY <1>1, <1>2, <1>3, <1>6 DEF ProductDeleted, Tables
<1> QED BY <1>1, <1>2, <1>4, <1>5, <1>6 DEF Changed

LEMMA ShapeStep == ASSUME ShapeInv, [Next]_vars PROVE ShapeInv'
<1>1. ASSUME NEW r \in Requests, Open(r) PROVE ShapeInv'
  BY <1>1, OpenIs DEF Open, ShapeInv, Tables
<1>2. CASE RunQuery
  BY <1>2, RunQueryIs DEF RunQuery, UNCHANGEDTables, ShapeInv, Tables
<1>3. CASE EndRead
  BY <1>3, EndReadIs DEF EndRead, UNCHANGEDTables, ShapeInv, Tables
<1>4. ASSUME NEW line, LookUp(line) PROVE ShapeInv'
  BY <1>4, LookUpIs DEF LookUp, UNCHANGEDTables, ShapeInv, Tables
<1>5. CASE Changed
  BY <1>5, MeanwhileIs DEF ShapeInv
<1>6. CASE UNCHANGED vars
  BY <1>6 DEF vars, ShapeInv, Tables
<1> QED BY <1>1, <1>2, <1>3, <1>4, <1>5, <1>6 DEF Next, Changed

LEMMA ReportsShaped == Spec => []ShapeInv
  BY ShapeStart, ShapeStep, PTL DEF Spec

(***************************************************************************)
(* Totals: at every moment the total of a step that reads is what the      *)
(* lines looked up so far sold, of every product that is not deleted yet.  *)
(***************************************************************************)
Tallied(totals, r, L, dead, early) ==
    \A p \in Products : Wanted(r, p) =>
        /\ p \notin dead \/ ~LooksUp(r) => totals[p] = SoldOf(L, p)
        /\ p \in early /\ LooksUp(r) => totals[p] = 0
        /\ totals[p] <= SoldOf(L, p)

LinesAt(rep, k) == rep.lines[ScriptOf(rep)[k].period]

Reads(rep, k) == ScriptOf(rep)[k].do = "read"

Tallies(rep, dead, early) ==
    \A k \in DOMAIN rep.totals :
        /\ k > rep.step => rep.totals[k] = Nothing
        /\ k < rep.step /\ Reads(rep, k) => Tallied(rep.totals[k], rep.req, LinesAt(rep, k), dead, early)
        /\ k = rep.step /\ Reads(rep, k) =>
              /\ rep.todo \subseteq LinesAt(rep, k)
              /\ LooksUp(rep.req) \/ rep.todo = LinesAt(rep, k)
              /\ Tallied(rep.totals[k], rep.req, LinesAt(rep, k) \ rep.todo, dead, early)

TalliedInv == gone \subseteq deleted /\ (report = Resting \/ Tallies(report, deleted, gone))

LEMMA NothingTallied == ASSUME NEW r, NEW dead, NEW early PROVE Tallied(Nothing, r, {}, dead, early)
  BY SoldNone DEF Tallied, Nothing

\* Deletions take nothing back.
LEMMA StillTallied ==
    ASSUME NEW rep, NEW dead, NEW early, NEW more, dead \subseteq more, Tallies(rep, dead, early)
    PROVE  Tallies(rep, more, early)
<1>1. ASSUME NEW totals, NEW r, NEW L, Tallied(totals, r, L, dead, early)
      PROVE  Tallied(totals, r, L, more, early)
  BY <1>1 DEF Tallied
<1> QED BY <1>1 DEF Tallies

LEMMA LinesAtTyped ==
    ASSUME NEW rep, Formed(rep), NEW k \in DOMAIN ScriptOf(rep)
    PROVE  LinesAt(rep, k) \in SUBSET Line /\ IsFiniteSet(LinesAt(rep, k))
<1>1. rep.lines \in Seq(SUBSET Line) /\ \A i \in DOMAIN rep.lines : IsFiniteSet(rep.lines[i])
  BY DEF Formed, Report
<1>2. ScriptOf(rep)[k].period \in DOMAIN rep.lines
  BY ScriptShape
<1> QED BY <1>1, <1>2 DEF LinesAt

\* The step that ends: a read whose total is right, or a query of lines that no
\* earlier step reads.
LEMMA TalliesAdvance ==
    ASSUME NEW old, NEW new, NEW dead, NEW early,
           Formed(old), Formed(new), Same(new, old), Tallies(old, dead, early),
           old.step \in DOMAIN ScriptOf(old), new.step = old.step + 1,
           new.todo = TodoAt(new, new.step),
           \A k \in DOMAIN old.totals : k # old.step => new.totals[k] = old.totals[k],
           \A k \in DOMAIN old.totals : k <= old.step /\ Reads(old, k) => LinesAt(new, k) = LinesAt(old, k),
           Reads(old, old.step) =>
              Tallied(new.totals[old.step], old.req, LinesAt(old, old.step), dead, early)
    PROVE  Tallies(new, dead, early)
<1>1. /\ DOMAIN new.totals = DOMAIN old.totals /\ ScriptOf(new) = ScriptOf(old)
      /\ new.req = old.req /\ DOMAIN new.totals = DOMAIN ScriptOf(new)
      /\ DOMAIN ScriptOf(old) = 1 .. Len(ScriptOf(old)) /\ Len(ScriptOf(old)) \in Nat
  BY ScriptShape DEF Same, ScriptOf
<1> SUFFICES ASSUME NEW k \in DOMAIN new.totals
             PROVE  /\ k > new.step => new.totals[k] = Nothing
                    /\ k < new.step /\ Reads(new, k) =>
                          Tallied(new.totals[k], new.req, LinesAt(new, k), dead, early)
                    /\ k = new.step /\ Reads(new, k) =>
                          /\ new.todo \subseteq LinesAt(new, k)
                          /\ LooksUp(new.req) \/ new.todo = LinesAt(new, k)
                          /\ Tallied(new.totals[k], new.req, LinesAt(new, k) \ new.todo, dead, early)
  BY DEF Tallies
<1>2. k \in DOMAIN old.totals /\ k \in Int /\ old.step \in Int /\ (Reads(new, k) <=> Reads(old, k))
  BY <1>1 DEF Reads
<1>3. k > old.step => old.totals[k] = Nothing
  BY <1>2 DEF Tallies
<1>4. k > old.step => new.totals[k] = Nothing
  <2>1. k > old.step => k # old.step
    BY <1>2
  <2> QED BY <1>2, <1>3, <2>1
<1>5. ASSUME k > new.step PROVE new.totals[k] = Nothing
  BY <1>2, <1>4, <1>5
<1>6. ASSUME k < new.step, Reads(new, k)
      PROVE  Tallied(new.totals[k], new.req, LinesAt(new, k), dead, early)
  <2>1. LinesAt(new, k) = LinesAt(old, k)
    BY <1>2, <1>6
  <2>2. CASE k < old.step
    BY <1>1, <1>2, <1>6, <2>1, <2>2 DEF Tallies
  <2>3. CASE k = old.step
    BY <1>1, <1>2, <1>6, <2>1, <2>3
  <2> QED BY <1>2, <1>6, <2>2, <2>3
<1>7. ASSUME k = new.step, Reads(new, k)
      PROVE  /\ new.todo = LinesAt(new, k)
             /\ Tallied(new.totals[k], new.req, LinesAt(new, k) \ new.todo, dead, early)
  <2>1. new.todo = LinesAt(new, k)
    BY <1>1, <1>7 DEF TodoAt, LinesAt, Reads
  <2>2. new.totals[k] = Nothing
    BY <1>2, <1>4, <1>7
  <2>3. LinesAt(new, k) \ new.todo = {}
    BY <2>1
  <2> QED BY <2>1, <2>2, <2>3, NothingTallied
<1> QED BY <1>5, <1>6, <1>7

LEMMA TalliedOpen == ASSUME ShapeInv, NEW r \in Requests, Open(r) PROVE TalliedInv'
<1>1. /\ Formed(report') /\ report'.step = 1
      /\ \A k \in DOMAIN report'.totals : report'.totals[k] = Nothing
  BY OpenIs
<1>2. ScriptOf(report')[1].do = "query" /\ DOMAIN report'.totals \subseteq Nat \ {0}
  <2>1. DOMAIN report'.totals = 1 .. Len(ScriptOf(report')) /\ Len(ScriptOf(report')) \in Nat
    BY <1>1, ScriptShape
  <2>2. WellScripted(ScriptOf(report'), Len(report'.lines))
    BY <1>1, ScriptShape
  <2> QED BY <2>1, <2>2 DEF WellScripted
<1>3. Tallies(report', deleted, deleted)
  <2>1. ASSUME NEW k \in DOMAIN report'.totals
        PROVE  report'.totals[k] = Nothing /\ ~(k < 1) /\ (k = 1 => ~Reads(report', k))
    BY <1>1, <1>2 DEF Reads
  <2> QED BY <1>1, <2>1 DEF Tallies
<1> QED BY <1>3 DEF Open, TalliedInv

LEMMA TalliedQuery == ASSUME ShapeInv, TalliedInv, RunQuery PROVE TalliedInv'
<1>1. /\ Formed(report) /\ Formed(report') /\ Same(report', report)
      /\ report.step \in DOMAIN ScriptOf(report) /\ ~Reads(report, report.step)
      /\ report'.lines = [report.lines EXCEPT ![ScriptOf(report)[report.step].period] =
                                  Lines(report.periods[ScriptOf(report)[report.step].period])]
      /\ report'.step = report.step + 1 /\ report'.totals = report.totals
      /\ report'.todo = TodoAt(report', report.step + 1)
  BY RunQueryIs DEF Reads
<1>2. Tallies(report, deleted, gone) /\ deleted' = deleted /\ gone' = gone
  <2>1. report # Resting
    BY <1>1, NotResting
  <2>2. UNCHANGEDTables
    BY DEF RunQuery
  <2> QED BY <2>1, <2>2 DEF TalliedInv, UNCHANGEDTables
<1>3. ASSUME NEW k \in DOMAIN report.totals, k <= report.step, Reads(report, k)
      PROVE  LinesAt(report', k) = LinesAt(report, k)
  <2>1. ScriptOf(report') = ScriptOf(report) /\ k \in DOMAIN ScriptOf(report)
    BY <1>1, ScriptShape DEF Same, ScriptOf
  <2>2. /\ ScriptOf(report)[k].period # ScriptOf(report)[report.step].period
        /\ ScriptOf(report)[k].period \in DOMAIN report.lines
    <3>1. /\ WellScripted(ScriptOf(report), Len(report.lines)) /\ k \in Int /\ report.step \in Int
          /\ ScriptOf(report)[report.step].do \in {"query", "read"}
          /\ ScriptOf(report)[k].period \in DOMAIN report.lines
      BY <1>1, <2>1, ScriptShape
    <3> QED BY <1>1, <1>3, <2>1, <3>1 DEF WellScripted, Reads
  <2> QED BY <1>1, <2>1, <2>2 DEF LinesAt
<1>4. Tallies(report', deleted, gone)
  BY <1>1, <1>2, <1>3, TalliesAdvance
<1> QED BY <1>2, <1>4 DEF TalliedInv

LEMMA TalliedEnd == ASSUME ShapeInv, TalliedInv, EndRead PROVE TalliedInv'
<1>1. /\ Formed(report) /\ Formed(report') /\ Same(report', report)
      /\ report.step \in DOMAIN ScriptOf(report) /\ Reads(report, report.step)
      /\ report.todo = {} \/ ~LooksUp(report.req)
      /\ report'.lines = report.lines
      /\ report'.totals = [report.totals EXCEPT ![report.step] =
                 [p \in Products |-> report.totals[report.step][p] + SoldOf(report.todo, p)]]
      /\ report'.step = report.step + 1
      /\ report'.todo = TodoAt(report', report.step + 1)
  BY EndReadIs DEF Reads
<1>2. Tallies(report, deleted, gone) /\ deleted' = deleted /\ gone' = gone
  <2>1. report # Resting
    BY <1>1, NotResting
  <2>2. UNCHANGEDTables
    BY DEF EndRead
  <2> QED BY <2>1, <2>2 DEF TalliedInv, UNCHANGEDTables
<1> DEFINE L == LinesAt(report, report.step)
           before == report.totals[report.step]
           after == [p \in Products |-> before[p] + SoldOf(report.todo, p)]
<1>3. report.step \in DOMAIN report.totals
  BY <1>1, ScriptShape
<1>4. /\ report.todo \subseteq L /\ (LooksUp(report.req) \/ report.todo = L)
      /\ Tallied(before, report.req, L \ report.todo, deleted, gone)
  BY <1>1, <1>2, <1>3 DEF Tallies
<1>5. L \in SUBSET Line /\ IsFiniteSet(L)
  BY <1>1, LinesAtTyped
<1>6. before \in [Products -> Int]
  BY <1>1, <1>3 DEF Formed, Report
<1>7. report'.totals[report.step] = after
  BY <1>1, <1>3
<1>8. Tallied(after, report.req, L, deleted, gone)
  <2> SUFFICES ASSUME NEW p \in Products, Wanted(report.req, p)
               PROVE  /\ p \notin deleted \/ ~LooksUp(report.req) => after[p] = SoldOf(L, p)
                      /\ p \in gone /\ LooksUp(report.req) => after[p] = 0
                      /\ after[p] <= SoldOf(L, p)
    BY DEF Tallied
  <2>1. after[p] = before[p] + SoldOf(report.todo, p) /\ before[p] \in Int /\ SoldOf(L, p) \in Int
    BY <1>5, <1>6, SoldInt
  <2> HIDE DEF after, before, L
  <2>2. CASE report.todo = {}
    <3>1. L \ report.todo = L /\ after[p] = before[p]
      BY <2>1, <2>2, SoldNone
    <3> QED BY <1>4, <3>1 DEF Tallied
  <2>3. CASE ~LooksUp(report.req)
    <3>1. report.todo = L /\ L \ report.todo = {}
      BY <1>4, <2>3
    <3>2. before[p] = 0
      BY <1>4, <2>3, <3>1, SoldNone DEF Tallied
    <3> QED BY <2>1, <2>3, <3>1, <3>2
  <2> QED BY <1>1, <2>2, <2>3
<1>9. /\ \A k \in DOMAIN report.totals : k # report.step => report'.totals[k] = report.totals[k]
      /\ \A k \in DOMAIN report.totals :
            k <= report.step /\ Reads(report, k) => LinesAt(report', k) = LinesAt(report, k)
  BY <1>1 DEF LinesAt, Same, ScriptOf
<1>10. Reads(report, report.step) =>
          Tallied(report'.totals[report.step], report.req, LinesAt(report, report.step), deleted, gone)
  BY <1>7, <1>8
<1>11. Tallies(report', deleted, gone)
  BY <1>1, <1>2, <1>9, <1>10, TalliesAdvance
<1> QED BY <1>2, <1>11 DEF TalliedInv

LEMMA TalliedLookUp == ASSUME ShapeInv, TalliedInv, NEW line, LookUp(line) PROVE TalliedInv'
<1>1. /\ Formed(report) /\ Formed(report') /\ Same(report', report)
      /\ report.step \in DOMAIN ScriptOf(report) /\ Reads(report, report.step)
      /\ LooksUp(report.req) /\ line \in report.todo /\ line \in Line
      /\ report'.lines = report.lines /\ report'.step = report.step
      /\ report'.todo = report.todo \ {line}
      /\ report'.totals = [report.totals EXCEPT ![report.step] =
                 IF line.product \notin deleted /\ Wanted(report.req, line.product)
                   THEN Tally(report.totals[report.step], line) ELSE report.totals[report.step]]
  BY LookUpIs DEF Reads
<1>2. /\ Tallies(report, deleted, gone) /\ deleted' = deleted /\ gone' = gone
      /\ gone \subseteq deleted
  <2>1. report # Resting
    BY <1>1, NotResting
  <2>2. UNCHANGEDTables
    BY DEF LookUp
  <2> QED BY <2>1, <2>2 DEF TalliedInv, UNCHANGEDTables
<1> DEFINE L == LinesAt(report, report.step)
           done == L \ report.todo
           before == report.totals[report.step]
           after == IF line.product \notin deleted /\ Wanted(report.req, line.product)
                      THEN Tally(before, line) ELSE before
<1>3. report.step \in DOMAIN report.totals
  BY <1>1, ScriptShape
<1>4. report.todo \subseteq L /\ Tallied(before, report.req, done, deleted, gone)
  BY <1>1, <1>2, <1>3 DEF Tallies
<1>5. L \in SUBSET Line /\ done \in SUBSET Line /\ IsFiniteSet(done)
  <2>1. L \in SUBSET Line /\ IsFiniteSet(L)
    BY <1>1, LinesAtTyped
  <2> QED BY <2>1, FS_Subset
<1>6. before \in [Products -> Int]
  BY <1>1, <1>3 DEF Formed, Report
<1>7. report'.totals[report.step] = after
  BY <1>1, <1>3
<1>8. L \ report'.todo = done \cup {line} /\ line \notin done
  BY <1>1, <1>4
<1>9. Tallied(after, report.req, done \cup {line}, deleted, gone)
  <2> SUFFICES ASSUME NEW p \in Products, Wanted(report.req, p)
               PROVE  /\ p \notin deleted \/ ~LooksUp(report.req) => after[p] = SoldOf(done \cup {line}, p)
                      /\ p \in gone /\ LooksUp(report.req) => after[p] = 0
                      /\ after[p] <= SoldOf(done \cup {line}, p)
    BY DEF Tallied
  <2>1. before[p] \in Int /\ SoldOf(done, p) \in Int /\ line.quantity \in Nat
    BY <1>1, <1>5, <1>6, SoldInt DEF Line
  <2>2. SoldOf(done \cup {line}, p) = SoldOf(done, p) + (IF line.product = p THEN line.quantity ELSE 0)
    <3> HIDE DEF done
    <3> QED BY <1>1, <1>5, <1>8, SoldAdd
  <2>3. /\ p \notin deleted => before[p] = SoldOf(done, p)
        /\ p \in gone => before[p] = 0
        /\ before[p] <= SoldOf(done, p)
    BY <1>1, <1>4 DEF Tallied
  <2>4. after[p] = IF line.product = p /\ p \notin deleted THEN before[p] + line.quantity ELSE before[p]
    <3> HIDE DEF before
    <3> QED BY <1>6 DEF Tally
  <2> HIDE DEF after, before, done
  <2>5. CASE line.product = p /\ p \notin deleted
    <3>1. /\ after[p] = before[p] + line.quantity
          /\ SoldOf(done \cup {line}, p) = SoldOf(done, p) + line.quantity
          /\ before[p] = SoldOf(done, p) /\ p \notin gone
      BY <1>2, <2>2, <2>3, <2>4, <2>5
    <3> QED BY <2>1, <3>1
  <2>6. CASE line.product = p /\ p \in deleted
    <3>1. /\ after[p] = before[p]
          /\ SoldOf(done \cup {line}, p) = SoldOf(done, p) + line.quantity
      BY <2>2, <2>4, <2>6
    <3>2. after[p] <= SoldOf(done \cup {line}, p)
      BY <2>1, <2>3, <3>1
    <3> QED BY <1>1, <2>3, <2>6, <3>1, <3>2
  <2>7. CASE line.product # p
    <3>1. after[p] = before[p] /\ SoldOf(done \cup {line}, p) = SoldOf(done, p)
      BY <2>1, <2>2, <2>4, <2>7
    <3> QED BY <1>1, <2>3, <3>1
  <2> QED BY <2>5, <2>6, <2>7
<1>10. Tallies(report', deleted, gone)
  <2>1. /\ ScriptOf(report') = ScriptOf(report) /\ report'.req = report.req
        /\ DOMAIN report'.totals = DOMAIN report.totals
    BY <1>1 DEF Same, ScriptOf
  <2>2. ASSUME NEW k \in DOMAIN report'.totals
        PROVE  /\ LinesAt(report', k) = LinesAt(report, k) /\ (Reads(report', k) <=> Reads(report, k))
               /\ k # report.step => report'.totals[k] = report.totals[k]
    BY <1>1, <2>1 DEF LinesAt, Reads
  <2>3. ASSUME NEW k \in DOMAIN report'.totals, k = report'.step
        PROVE  /\ report'.todo \subseteq LinesAt(report', k)
               /\ Tallied(report'.totals[k], report'.req, LinesAt(report', k) \ report'.todo, deleted, gone)
    <3> HIDE DEF after, done
    <3> QED BY <1>1, <1>4, <1>7, <1>8, <1>9, <2>1, <2>2, <2>3
  <2>4. ASSUME NEW k \in DOMAIN report'.totals
        PROVE  /\ k > report'.step => report'.totals[k] = Nothing
               /\ k < report'.step /\ Reads(report', k) =>
                     Tallied(report'.totals[k], report'.req, LinesAt(report', k), deleted, gone)
    <3>1. /\ k > report.step => report.totals[k] = Nothing
          /\ k < report.step /\ Reads(report, k) =>
                Tallied(report.totals[k], report.req, LinesAt(report, k), deleted, gone)
      BY <1>2, <2>1 DEF Tallies
    <3>2. k \in Int /\ report.step \in Int
      BY <1>1, <2>1, ScriptShape
    <3>3. k > report.step \/ k < report.step => k # report.step
      BY <3>2
    <3> QED BY <1>1, <2>1, <2>2, <3>1, <3>3
  <2>5. LooksUp(report'.req)
    BY <1>1, <2>1
  <2> QED BY <2>3, <2>4, <2>5 DEF Tallies
<1> QED BY <1>2, <1>10 DEF TalliedInv

LEMMA TalliedStep == ASSUME ShapeInv, TalliedInv, [Next]_vars PROVE TalliedInv'
<1>1. CASE Changed
  <2>1. /\ Formed(report) /\ report' = report /\ gone' = gone /\ deleted \subseteq deleted'
    BY <1>1, MeanwhileIs
  <2>2. Tallies(report, deleted, gone) /\ gone \subseteq deleted
    BY <2>1, NotResting DEF TalliedInv
  <2> QED BY <2>1, <2>2, StillTallied DEF TalliedInv
<1>2. CASE UNCHANGED vars
  BY <1>2 DEF vars, TalliedInv
<1> QED BY <1>1, <1>2, TalliedOpen, TalliedQuery, TalliedEnd, TalliedLookUp DEF Next, Changed

\* Whatever is deleted while the products of a report are looked up, every total
\* is what was sold of the products that stay (KeptReportedWhole).
THEOREM ReportsWhole == Spec => []KeptReportedWhole
<1>1. Init => TalliedInv
  BY DEF Init, TalliedInv
<1>2. ShapeInv /\ TalliedInv => KeptReportedWhole
  <2> SUFFICES ASSUME ShapeInv, TalliedInv, Finished,
                      NEW k \in DOMAIN report.totals, NEW p \in Products,
                      Script[report.req.kind][k].do = "read", Wanted(report.req, p)
               PROVE  LET sold == SoldOf(report.lines[Script[report.req.kind][k].period], p)
                      IN  /\ p \notin deleted \/ ~LooksUp(report.req) => report.totals[k][p] = sold
                          /\ p \in gone /\ LooksUp(report.req) => report.totals[k][p] = 0
                          /\ report.totals[k][p] <= sold
    BY DEF KeptReportedWhole
  <2>1. /\ Formed(report) /\ report.step \notin DOMAIN ScriptOf(report)
    BY AtStep DEF Finished
  <2>2. k \in DOMAIN ScriptOf(report) /\ k < report.step /\ Reads(report, k)
    BY <2>1, ScriptShape DEF Formed, Reads, ScriptOf
  <2>3. Tallies(report, deleted, gone)
    BY <2>1, NotResting DEF TalliedInv
  <2>4. Tallied(report.totals[k], report.req, LinesAt(report, k), deleted, gone)
    BY <2>2, <2>3 DEF Tallies
  <2> QED BY <2>4 DEF Tallied, LinesAt, ScriptOf
<1>3. Spec => []TalliedInv
  <2>1. TalliedInv /\ ShapeInv /\ [Next]_vars => TalliedInv'
    BY TalliedStep
  <2> QED BY <1>1, <2>1, ReportsShaped, PTL DEF Spec
<1> QED BY <1>2, <1>3, ReportsShaped, PTL

(***************************************************************************)
(* Periods: the lines of a period are of orders made within it, and no     *)
(* order that stays paid is missing from a period that was queried.        *)
(***************************************************************************)
Inside(span, at) == span.from <= at /\ at <= span.to

Dated(rep, tables) ==
    \A i \in DOMAIN rep.lines : \A l \in rep.lines[i] : Inside(rep.periods[i], tables[l.sale].at)

SalesIn(rep, i) == {l.sale : l \in rep.lines[i]}

Counted(rep, tables, kept) ==
    \A k \in DOMAIN ScriptOf(rep) : k < rep.step /\ ~Reads(rep, k) =>
        \A s \in kept : Inside(rep.periods[ScriptOf(rep)[k].period], tables[s].at)
                          => s \in SalesIn(rep, ScriptOf(rep)[k].period)

DatedInv == report = Resting \/ Dated(report, sales)

\* What is asked of the tables: no order is without lines.
OrdersHaveLines ==
    \A t \in InitialTables : \A s \in Sales : \E p \in Products : t.sales[s].items[p] > 0

CountedInv ==
    /\ \A s \in Sales : \E p \in Products : sales[s].items[p] > 0
    /\ steady \subseteq Sales /\ \A s \in steady : Paid(s)
    /\ report = Resting \/ Counted(report, sales, steady)

LEMMA LinesDated ==
    ASSUME NEW period, NEW l \in Lines(period) PROVE Inside(period, sales[l.sale].at)
  BY DEF Lines, PaidIn, Inside

LEMMA LinesCounted ==
    ASSUME NEW period, CountedInv, NEW s \in steady, Inside(period, sales[s].at)
    PROVE  \E l \in Lines(period) : l.sale = s
<1>1. s \in PaidIn(period)
  BY DEF CountedInv, PaidIn, Inside
<1>2. PICK p \in Products : sales[s].items[p] > 0
  BY DEF CountedInv
<1> DEFINE l == [sale |-> s, product |-> p, quantity |-> sales[s].items[p]]
<1>3. l \in Lines(period)
  BY <1>1, <1>2 DEF Lines
<1>4. l.sale = s
  OBVIOUS
<1> HIDE DEF l
<1> QED BY <1>3, <1>4

LEMMA DatedStep == ASSUME ShapeInv, DatedInv, [Next]_vars PROVE DatedInv'
<1>1. ASSUME NEW r \in Requests, Open(r) PROVE DatedInv'
  <2>1. Dated(report', sales')
    BY <1>1, OpenIs DEF Dated
  <2> QED BY <2>1 DEF DatedInv
<1>2. CASE RunQuery
  <2>1. /\ Formed(report) /\ Same(report', report) /\ report.step \in DOMAIN ScriptOf(report)
        /\ report'.lines = [report.lines EXCEPT ![ScriptOf(report)[report.step].period] =
                               Lines(report.periods[ScriptOf(report)[report.step].period])]
    BY <1>2, RunQueryIs
  <2>2. sales' = sales /\ Dated(report, sales)
    BY <1>2, <2>1, NotResting DEF RunQuery, UNCHANGEDTables, DatedInv
  <2> DEFINE i == ScriptOf(report)[report.step].period
  <2>3. ASSUME NEW j \in DOMAIN report'.lines, NEW l \in report'.lines[j]
        PROVE  Inside(report'.periods[j], sales'[l.sale].at)
    <3> HIDE DEF i
    <3>1. report'.periods = report.periods /\ j \in DOMAIN report.lines
      BY <2>1, <2>3 DEF Same
    <3>2. CASE j = i
      <4>1. l \in Lines(report.periods[i])
        BY <2>1, <2>3, <3>1, <3>2 DEF i
      <4> QED BY <2>2, <3>1, <3>2, <4>1, LinesDated
    <3>3. CASE j # i
      <4>1. l \in report.lines[j]
        BY <2>1, <2>3, <3>1, <3>3 DEF i
      <4> QED BY <2>2, <3>1, <4>1 DEF Dated
    <3> QED BY <3>2, <3>3
  <2>4. Dated(report', sales')
    BY <2>3 DEF Dated
  <2> QED BY <2>4 DEF DatedInv
<1>3. ASSUME Formed(report), report'.lines = report.lines, Same(report', report), UNCHANGEDTables
      PROVE  DatedInv'
  <2>1. Dated(report, sales)
    BY <1>3, NotResting DEF DatedInv
  <2>2. Dated(report', sales')
    BY <1>3, <2>1 DEF Dated, Same, UNCHANGEDTables
  <2> QED BY <2>2 DEF DatedInv
<1>4. CASE EndRead
  BY <1>3, <1>4, EndReadIs DEF EndRead
<1>5. ASSUME NEW line, LookUp(line) PROVE DatedInv'
  BY <1>3, <1>5, LookUpIs DEF LookUp
<1>6. CASE Changed
  <2>1. /\ Formed(report) /\ report' = report
        /\ \A t \in Sales : sales'[t].at = sales[t].at
    BY <1>6, MeanwhileIs
  <2>2. Dated(report, sales) /\ \A i \in DOMAIN report.lines : \A l \in report.lines[i] : l.sale \in Sales
    <3>1. Dated(report, sales) /\ report.lines \in Seq(SUBSET Line)
      BY <2>1, NotResting DEF DatedInv, Formed, Report
    <3>2. \A i \in DOMAIN report.lines : report.lines[i] \in SUBSET Line
      BY <3>1
    <3> QED BY <3>1, <3>2 DEF Line
  <2>3. Dated(report', sales')
    BY <2>1, <2>2 DEF Dated
  <2> QED BY <2>3 DEF DatedInv
<1>7. CASE UNCHANGED vars
  BY <1>7 DEF vars, DatedInv
<1> QED BY <1>1, <1>2, <1>4, <1>5, <1>6, <1>7 DEF Next, Changed

LEMMA ReportsDated == Spec => []DatedInv
<1>1. Init => DatedInv
  BY DEF Init, DatedInv
<1>2. ShapeInv /\ DatedInv /\ [Next]_vars => DatedInv'
  BY DatedStep
<1> QED BY <1>1, <1>2, ReportsShaped, PTL DEF Spec

\* A step that reads leaves what was counted as it is.
LEMMA CountedOn ==
    ASSUME NEW old, NEW new, NEW tables, NEW kept, Formed(old), Same(new, old),
           new.lines = old.lines, Counted(old, tables, kept),
           \/ new.step = old.step
           \/ new.step = old.step + 1 /\ old.step \in DOMAIN ScriptOf(old) /\ Reads(old, old.step)
    PROVE  Counted(new, tables, kept)
<1>1. /\ ScriptOf(new) = ScriptOf(old) /\ new.periods = old.periods
      /\ \A i : SalesIn(new, i) = SalesIn(old, i)
  BY DEF Same, ScriptOf, SalesIn
<1>2. ASSUME NEW k \in DOMAIN ScriptOf(new), k < new.step, ~Reads(new, k)
      PROVE  k < old.step /\ ~Reads(old, k)
  <2>1. ~Reads(old, k)
    BY <1>1, <1>2 DEF Reads
  <2>2. k \in Int /\ old.step \in Int
    BY <1>1, ScriptShape DEF Formed, Report
  <2> QED BY <1>2, <2>1, <2>2
<1> QED BY <1>1, <1>2 DEF Counted

LEMMA CountedQuery == ASSUME ShapeInv, CountedInv, RunQuery PROVE CountedInv'
<1>1. /\ Formed(report) /\ Same(report', report) /\ report.step \in DOMAIN ScriptOf(report)
      /\ report'.step = report.step + 1
      /\ report'.lines = [report.lines EXCEPT ![ScriptOf(report)[report.step].period] =
                             Lines(report.periods[ScriptOf(report)[report.step].period])]
  BY RunQueryIs
<1>2. UNCHANGED <<sales, steady>> /\ Counted(report, sales, steady)
  BY <1>1, NotResting DEF RunQuery, UNCHANGEDTables, CountedInv
<1> DEFINE i == ScriptOf(report)[report.step].period
<1>3. /\ ScriptOf(report') = ScriptOf(report) /\ report'.periods = report.periods
      /\ i \in DOMAIN report.lines
      /\ \A k \in DOMAIN ScriptOf(report) : k \in Int /\ ScriptOf(report)[k].period \in DOMAIN report.lines
      /\ report.step \in Int
  <2>1. ScriptOf(report') = ScriptOf(report) /\ report'.periods = report.periods
    BY <1>1 DEF Same, ScriptOf
  <2> QED BY <1>1, <2>1, ScriptShape
<1>4. ASSUME NEW s \in steady, Inside(report.periods[i], sales[s].at)
      PROVE  s \in SalesIn(report', i)
  <2>1. PICK l \in Lines(report.periods[i]) : l.sale = s
    BY <1>4, LinesCounted
  <2>2. report'.lines[i] = Lines(report.periods[i])
    BY <1>1, <1>3
  <2> HIDE DEF i
  <2> QED BY <2>1, <2>2 DEF SalesIn
<1>5. ASSUME NEW k \in DOMAIN ScriptOf(report'), k < report'.step, ~Reads(report', k),
             NEW s \in steady',
             Inside(report'.periods[ScriptOf(report')[k].period], sales'[s].at)
      PROVE  s \in SalesIn(report', ScriptOf(report')[k].period)
  <2> DEFINE j == ScriptOf(report)[k].period
  <2>1. /\ k \in DOMAIN ScriptOf(report) /\ ~Reads(report, k) /\ s \in steady
        /\ ScriptOf(report')[k].period = j /\ Inside(report.periods[j], sales[s].at)
        /\ k < report.step + 1 /\ j \in DOMAIN report.lines
    BY <1>1, <1>2, <1>3, <1>5 DEF Reads
  <2>2. CASE j = i
    BY <1>4, <2>1, <2>2
  <2>3. CASE j # i
    <3>1. k < report.step
      <4>1. k # report.step
        BY <2>3
      <4> QED BY <1>3, <2>1, <4>1
    <3>2. s \in SalesIn(report, j)
      BY <1>2, <2>1, <3>1 DEF Counted
    <3>3. report'.lines[j] = report.lines[j]
      BY <1>1, <2>1, <2>3
    <3> HIDE DEF j
    <3> QED BY <2>1, <3>2, <3>3 DEF SalesIn
  <2> QED BY <2>2, <2>3
<1>6. Counted(report', sales', steady')
  BY <1>5 DEF Counted
<1> QED BY <1>2, <1>6 DEF CountedInv, Paid

LEMMA CountedStep == ASSUME ShapeInv, CountedInv, [Next]_vars PROVE CountedInv'
<1>1. ASSUME NEW r \in Requests, Open(r) PROVE CountedInv'
  <2>1. Formed(report') /\ report'.step = 1
    BY <1>1, OpenIs
  <2>2. \A k \in DOMAIN ScriptOf(report') : ~(k < 1)
    BY <2>1, ScriptShape
  <2>3. Counted(report', sales', steady')
    BY <2>1, <2>2 DEF Counted
  <2> QED BY <1>1, <2>3 DEF Open, CountedInv, Paid
<1>2. ASSUME Formed(report), Same(report', report), report'.lines = report.lines, UNCHANGEDTables,
             \/ report'.step = report.step
             \/ /\ report'.step = report.step + 1
                /\ report.step \in DOMAIN ScriptOf(report) /\ Reads(report, report.step)
      PROVE  CountedInv'
  <2>1. Counted(report, sales, steady) /\ UNCHANGED <<sales, steady>>
    BY <1>2, NotResting DEF CountedInv, UNCHANGEDTables
  <2>2. Counted(report', sales, steady)
    BY <1>2, <2>1, CountedOn
  <2> QED BY <2>1, <2>2 DEF CountedInv, Paid
<1>3. CASE EndRead
  <2>1. UNCHANGEDTables
    BY <1>3 DEF EndRead
  <2>2. Reads(report, report.step)
    BY <1>3, EndReadIs DEF Reads
  <2> QED BY <1>2, <1>3, <2>1, <2>2, EndReadIs
<1>4. ASSUME NEW line, LookUp(line) PROVE CountedInv'
  <2>1. UNCHANGEDTables
    BY <1>4 DEF LookUp
  <2> QED BY <1>2, <1>4, <2>1, LookUpIs
<1>5. CASE Changed
  <2>1. /\ Formed(report) /\ report' = report /\ steady' \subseteq steady
        /\ \A t \in Sales : sales'[t].at = sales[t].at /\ sales'[t].items = sales[t].items
        /\ \A t \in steady' : t \in Sales => sales'[t] = sales[t]
    BY <1>5, MeanwhileIs
  <2>2. Counted(report, sales, steady) /\ steady \subseteq Sales
    BY <2>1, NotResting DEF CountedInv
  <2>3. Counted(report', sales', steady')
    BY <2>1, <2>2 DEF Counted
  <2> QED BY <2>1, <2>2, <2>3 DEF CountedInv, Paid
<1>6. CASE UNCHANGED vars
  BY <1>6 DEF vars, CountedInv, Paid
<1> QED BY <1>1, <1>3, <1>4, <1>5, <1>6, CountedQuery DEF Next, Changed

\* Whatever is paid, refunded or deleted while the dashboard compares two periods,
\* no order counts in both and none that stays paid is lost between them
\* (ComparedOnce).
THEOREM ComparisonsCountOnce == ASSUME OrdersHaveLines PROVE Spec => []ComparedOnce
<1>1. Init => CountedInv
  BY DEF Init, CountedInv, OrdersHaveLines
<1>2. Spec => []CountedInv
  <2>1. ShapeInv /\ CountedInv /\ [Next]_vars => CountedInv'
    BY CountedStep
  <2> QED BY <1>1, <2>1, ReportsShaped, PTL DEF Spec
<1>3. ShapeInv /\ DatedInv /\ CountedInv => ComparedOnce
  <2> SUFFICES ASSUME ShapeInv, DatedInv, CountedInv, Finished,
                      report.req.kind \in {"summary", "highlights"}
               PROVE  /\ SalesIn(report, 1) \cap SalesIn(report, 2) = {}
                      /\ \A s \in steady :
                            /\ report.periods[2].from <= sales[s].at /\ sales[s].at <= report.periods[1].to
                            /\ ~(report.periods[2].to < sales[s].at /\ sales[s].at < report.periods[1].from)
                            => s \in SalesIn(report, 1) \cup SalesIn(report, 2)
    BY DEF ComparedOnce, SalesIn
  <2>1. /\ Formed(report) /\ report \in Report /\ report.step \notin DOMAIN ScriptOf(report)
    BY AtStep DEF Finished
  <2>2. Counted(report, sales, steady) /\ Dated(report, sales) /\ steady \subseteq Sales
    BY <2>1, NotResting DEF CountedInv, DatedInv
  <2>3. report.req \in Request /\ report.late \in BOOLEAN /\ report.periods \in Seq(Span)
    BY <2>1, ScriptShape DEF Report
  <2>4. /\ Len(report.periods) = 2 /\ DOMAIN report.lines = 1 .. 2
        /\ report.periods[1] \in Span /\ report.periods[2] \in Span
    BY <2>1, <2>3, ScriptShape, PeriodsTyped DEF Formed
  <2>5. report.periods[2].to = report.periods[1].from - Milli
    <3>1. report.periods = Periods(report.req, report.late)
      BY <2>1 DEF Formed
    <3>2. CASE report.req.kind = "summary"
      <4>1. Periods(report.req, report.late) = WithComparison(report.req.from, report.req.to)
        BY <3>2 DEF Periods
      <4> QED BY <3>1, <4>1 DEF WithComparison, ComparisonEnd, Period
    <3>3. CASE report.req.kind = "highlights"
      <4>1. Periods(report.req, report.late) =
              <<LookBack(report.late),
                Period(ComparisonEnd(LookBack(report.late).from) - Days * Day,
                       ComparisonEnd(LookBack(report.late).from))>>
        BY <3>3 DEF Periods
      <4> QED BY <3>1, <4>1 DEF ComparisonEnd, Period
    <3> QED BY <3>2, <3>3
  <2>6. Milli \in Nat \ {0} /\ \A s \in Sales : sales[s].at \in Int
    BY InputsAssumption DEF ShapeInv, Tables, Sale
  <2>7. \A j \in {1, 2} : \A l \in report.lines[j] :
            l.sale \in Sales /\ Inside(report.periods[j], sales[l.sale].at)
    <3>1. report.lines \in Seq(SUBSET Line)
      BY <2>1 DEF Report
    <3>2. \A j \in DOMAIN report.lines : report.lines[j] \in SUBSET Line
      BY <3>1
    <3> QED BY <2>2, <2>4, <3>2 DEF Dated, Line
  <2>8. SalesIn(report, 1) \cap SalesIn(report, 2) = {}
    <3> SUFFICES ASSUME NEW a \in report.lines[1], NEW b \in report.lines[2], a.sale = b.sale PROVE FALSE
      BY DEF SalesIn
    <3>1. /\ report.periods[1].from <= sales[a.sale].at /\ sales[a.sale].at <= report.periods[2].to
          /\ sales[a.sale].at \in Int
      BY <2>6, <2>7 DEF Inside
    <3> QED BY <2>4, <2>5, <2>6, <3>1 DEF Span
  <2>9. ASSUME NEW s \in steady, NEW j \in {1, 2}, Inside(report.periods[j], sales[s].at)
        PROVE  s \in SalesIn(report, j)
    <3>1. ScriptOf(report)[j] = Query(j) /\ j \in DOMAIN ScriptOf(report)
      <4>1. CASE report.req.kind = "summary"
        <5>1. ScriptOf(report) = <<Query(1), Query(2)>>
          BY <4>1 DEF ScriptOf, Script, Summary
        <5> QED BY <2>9, <5>1
      <4>2. CASE report.req.kind = "highlights"
        <5>1. ScriptOf(report) = <<Query(1), Query(2), Read(1)>>
          BY <4>2 DEF ScriptOf, Script, Highlights
        <5> QED BY <2>9, <5>1
      <4> QED BY <4>1, <4>2
    <3>2. j < report.step
      BY <2>1, <3>1, ScriptShape DEF Formed
    <3>3. ~Reads(report, j) /\ ScriptOf(report)[j].period = j
      BY <3>1 DEF Reads, Query
    <3> QED BY <2>2, <2>9, <3>1, <3>2, <3>3 DEF Counted
  <2>10. ASSUME NEW s \in steady,
                report.periods[2].from <= sales[s].at, sales[s].at <= report.periods[1].to,
                ~(report.periods[2].to < sales[s].at /\ sales[s].at < report.periods[1].from)
         PROVE  s \in SalesIn(report, 1) \cup SalesIn(report, 2)
    <3>1. sales[s].at \in Int /\ report.periods[2].to \in Int /\ report.periods[1].from \in Int
      BY <2>2, <2>4, <2>6 DEF Span
    <3>2. Inside(report.periods[1], sales[s].at) \/ Inside(report.periods[2], sales[s].at)
      BY <2>10, <3>1 DEF Inside
    <3> QED BY <2>9, <3>2
  <2> QED BY <2>8, <2>10
<1> QED BY <1>2, <1>3, ReportsShaped, ReportsDated, PTL

\* Unless the clock goes on between its two ends, every order in a trend of the
\* dashboard has a point in its chart (ChartComplete).
THEOREM ChartsComplete == Spec => []ChartComplete
<1>1. ASSUME ShapeInv, DatedInv PROVE ChartComplete
  <2> SUFFICES ASSUME Finished, report.req.kind = "trends", ~report.late,
                      NEW i \in DOMAIN report.lines, NEW l \in report.lines[i]
               PROVE  sales[l.sale].at \div Day \in ChartDays(report.periods[i])
    BY DEF ChartComplete, Charted
  <2>1. Formed(report) /\ report \in Report
    BY <1>1, AtStep DEF Finished
  <2>2. /\ i \in DOMAIN report.periods /\ DOMAIN report.periods = 1 .. 3
        /\ report.late = FALSE
    BY <2>1, ScriptShape, PeriodsTyped DEF Formed
  <2>3. report.periods[i] = LookBack(FALSE)
    <3>1. Periods(report.req, report.late) = <<LookBack(FALSE), LookBack(FALSE), LookBack(FALSE)>>
      BY <2>2 DEF Periods
    <3>2. report.periods = Periods(report.req, report.late)
      BY <2>1 DEF Formed
    <3>3. i \in {1, 2, 3}
      BY <2>2
    <3> DEFINE b == LookBack(FALSE)
    <3>4. report.periods = <<b, b, b>>
      BY <3>1, <3>2
    <3> HIDE DEF b
    <3>5. report.periods[i] = b
      BY <3>3, <3>4
    <3> QED BY <3>5 DEF b
  <2> DEFINE from == Now - Days * Day
             at == sales[l.sale].at
  <2>4. Day \in Nat \ {0} /\ Days \in Nat \ {0} /\ Now \in Nat /\ Days * Day \in Int
    BY InputsAssumption
  <2>5. from \in Int /\ Now = from + Days * Day
    BY <2>4
  <2>6. report.periods[i].from = from /\ report.periods[i].to = Now
    BY <2>3, <2>4 DEF LookBack, Period
  <2>7. l.sale \in Sales /\ from <= at /\ at <= Now
    <3>1. Dated(report, sales) /\ report.lines \in Seq(SUBSET Line)
      BY <1>1, <2>1, NotResting DEF DatedInv, Report
    <3>2. l \in Line
      BY <3>1
    <3> QED BY <2>6, <3>1, <3>2 DEF Dated, Inside, Line
  <2>8. at \in Int
    BY <1>1, <2>7 DEF ShapeInv, Tables, Sale
  <2> HIDE DEF from, at
  <2>9. PICK k \in 0 .. Days : (from + k * Day) \div Day = at \div Day
    BY <2>4, <2>5, <2>7, <2>8, DaysMet
  <2>10. from + k * Day <= Now
    <3>1. k * Day \in Int /\ k \in Int
      BY <2>4
    <3>2. k = Days \/ k < Days
      BY <2>4
    <3>3. k < Days => k * Day + Day <= Days * Day
      BY <2>4, <3>1, ProductsOrdered
    <3> QED BY <2>4, <2>5, <3>1, <3>2, <3>3
  <2> QED BY <2>6, <2>9, <2>10 DEF ChartDays, at
<1> QED BY <1>1, ReportsShaped, ReportsDated, PTL
=============================================================================
