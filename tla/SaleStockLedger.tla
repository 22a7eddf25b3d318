--------------------------- MODULE SaleStockLedger ---------------------------
(***************************************************************************)
(* The stock ledger of the sales desk: what is on the shelves together     *)
(* with what sales have been allocated and no cancellation has put back.   *)
(* The code keeps no such book; it is the sum that allocating,             *)
(* re-allocating and returning stock must leave alone.                     *)
(*                                                                         *)
(* Two history variables keep the book: one remembers what each handler    *)
(* started from, one the sales whose stock a cancellation put back.  A     *)
(* status of CANCELLED that a client types into createSale, updateSale or  *)
(* updateSaleStatus puts nothing back, so such a sale stays on the book    *)
(* with all it was allocated.                                              *)
(***************************************************************************)
EXTENDS SaleStock, SequencesExt

VARIABLES
    opening, \* for each worker, the book when its request arrived
    settled  \* the sales whose stock a cancellation has put back

Cancellations == {"cancelSaleByCustomer", "cancelSaleByAdmin", "cancelSale"}

AllocatedTo(item, b) ==
    FoldSeq(LAMBDA a, sum : sum + (IF a.batch = b THEN a.quantity ELSE 0), 0, item.alloc)

HeldBy(row, b) ==
    IF row = NoSale THEN 0
                    ELSE FoldSeq(LAMBDA item, sum : sum + AllocatedTo(item, b), 0, row.lineItems)

Outstanding(book, s, b) == IF s \in book.settled THEN 0 ELSE HeldBy(book.sales[s], b)

Ledger(book, b) ==
    book.batches[b].quantity + FoldSet(LAMBDA s, sum : sum + Outstanding(book, s, b), 0, Sales)

Book == [batches |-> batches, sales |-> sales, settled |-> settled]

LedgerInit ==
    /\ Init
    /\ settled = {s \in Sales : sales[s] # NoSale /\ sales[s].orderStatus = "CANCELLED"}
    /\ opening = [w \in Workers |-> Book]

Starts(w) == requests' # requests /\ h'[w] # h[w]

Finishes(w, result) == h[w].pc # "idle" /\ h'[w].pc = "idle" /\ h'[w].result = result

Cancelled(s) ==
    \E w \in Workers :
        Finishes(w, "ok") /\ h[w].req.op \in Cancellations /\ h[w].req.sale = s

LedgerNext ==
    /\ Next
    /\ settled' = settled \cup {s \in Sales : Cancelled(s)}
    /\ opening' = [w \in Workers |-> IF Starts(w) THEN Book ELSE opening[w]]

ledgerVars == <<vars, opening, settled>>

LedgerSpec == LedgerInit /\ [][LedgerNext]_ledgerVars

\* The ledger of every batch is what it was when the request arrived.
Balances(w) == \A b \in Batches : Ledger(Book', b) = Ledger(opening[w], b)

\* Line items that arrive with allocations already on them.
ArrivesAllocated(w) == \E i \in DOMAIN h[w].req.lineItems : h[w].req.lineItems[i].alloc # <<>>

\* The two handlers that record allocations and leave the shelves alone.
RecordsOnly(w) ==
    \/ h[w].req.op = "createSale" /\ h[w].row.orderStatus = "PENDING" /\ ArrivesAllocated(w)
    \/ h[w].req.op = "addLineItem" /\ ArrivesAllocated(w)

\* A handler run on its own that answers with success keeps the ledger: what
\* it takes from a shelf it writes on the sale, what it strikes from the sale
\* it puts back, and a cancellation puts back all the sale lists; a status
\* typed in by hand, CANCELLED included, moves nothing.  Outside this rule are
\* the handlers that only record allocations, and those that find the sale
\* settled already: they put back a second time what a cancellation put back.
SuccessBalances ==
    [][\A w \in Workers :
          (/\ Finishes(w, "ok")
           /\ ~RecordsOnly(w)
           /\ h[w].req.sale \notin opening[w].settled)
              => Balances(w)]_ledgerVars

\* An edit that fails leaves no trace: stock it returned and took meanwhile,
\* and the statuses it had set on the sale, are rolled back together.
FailedEditLeavesNoTrace ==
    [][\A w \in Workers :
          (Finishes(w, "failed") /\ h[w].req.op = "updateSale")
              => batches' = opening[w].batches /\ sales' = opening[w].sales]_ledgerVars
=============================================================================
