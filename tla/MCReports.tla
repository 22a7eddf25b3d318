------------------------------ MODULE MCReports ------------------------------
(* Days of eight instants, two to a millisecond; the report is asked for in   *)
(* the middle of the fourth day and looks back one.  The orders lie on both   *)
(* sides of the ends of the periods, one within the millisecond in between.   *)
EXTENDS Reports

CONSTANTS p1, p2, butter, oil

MCCategory == [p \in Products |-> IF p = p1 THEN butter ELSE oil]

Order(at, one, two, paid) ==
    [at |-> at, items |-> [p \in Products |-> IF p = p1 THEN one ELSE two],
     paid |-> paid, deleted |-> FALSE]

\* Orders before, at and after the beginning of the current period, and today.
MCSales(before, middle) ==
    [s \in Sales |-> CASE s = 1 -> Order(before, 2, 1, TRUE) [] s = 2 -> Order(middle, 1, 0, TRUE)
                       [] s = 3 -> Order(28, 1, 1, FALSE) [] OTHER -> Order(27, 0, 1, TRUE)]

MCInitialTables ==
    {[sales |-> MCSales(before, middle), deleted |-> D] :
        before \in {12, 18}, middle \in {19, 20}, D \in {{}, {p2}}}

Asked(kind, from, to, category) == [kind |-> kind, from |-> from, to |-> to, category |-> category]

MCRequests ==
    {Asked(kind, 12, 28, c) : kind \in {"products", "top"}, c \in {AnyCategory, oil}}
        \cup {Asked("sales", 20, 28, c) : c \in {AnyCategory, butter}}
        \cup {[kind |-> "comparative", from |-> 20, to |-> 28, prevFrom |-> 4, prevTo |-> 18,
               category |-> c] : c \in {AnyCategory, butter}}
        \cup {[kind |-> k, from |-> 20, to |-> 28] : k \in {"categories", "summary"}}
        \cup {[kind |-> k] : k \in {"highlights", "trends", "daily"}}
=============================================================================
