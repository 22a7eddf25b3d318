----------------------------- MODULE SaleStock -----------------------------
(***************************************************************************)
(* The sales desk and the shelves it sells from: the rows of "Batches" and *)
(* "Sales", and the HTTP handlers of SalesService that read and write      *)
(* them.                                                                   *)
(*                                                                         *)
(* A handler is an async function.  It runs without interruption between   *)
(* two awaits, so every await on the database, on Paystack or on the       *)
(* mailer is a point where other handlers run; one action below is the     *)
(* code between two such points.                                           *)
(*                                                                         *)
(* A handler works on the entity it read (h[w].row, h[w].batch).  To save  *)
(* it TypeORM issues two statements: a SELECT of the row as it is now, and *)
(* an UPDATE of the columns in which the entity differs from that.  The    *)
(* handler's stale columns overwrite newer ones, and what changes between  *)
(* the two statements is mixed with what the handler writes.               *)
(*                                                                         *)
(* Only updateSale runs in a database transaction: its writes stay in      *)
(* h[w].view until Commit and lock the rows they touch.                    *)
(*                                                                         *)
(* Prices, fees and addresses do not influence stock or status and are     *)
(* left out (SalePayments has the money).                                  *)
(***************************************************************************)
EXTENDS Integers, Sequences, FiniteSets

CONSTANTS
    Batches,      \* rows of table Batches
    Sales,        \* rows of table Sales, existing or still to be created
    Products,     \* products a line item may name
    Workers,      \* requests that may be in progress at the same time
    ProductOf,    \* [Batches -> Products]: the product of a batch
    Requests,     \* the requests clients may send, a subset of Request
    InitialStock, \* the batch tables the system may start with
    InitialSales, \* the sale tables it may start with
    MaxRequests,  \* bound on the number of requests of a behaviour
    MaxAborts,    \* bound on the number of failing awaits of a behaviour
    NoSale        \* the row does not exist

OrderStatus == {"PENDING", "PACKAGING", "IN_TRANSIT", "DELIVERED", "CANCELLED"}

PaymentStatus ==
    {"INVOICE_REQUESTED", "AWAITING_DELIVERY", "PENDING_PAYMENT", "PAID", "REFUNDED"}

Unset == "unset" \* an optional field the request leaves out

BatchRow == [quantity : Int, isActive : BOOLEAN]

Allocation == [batch : Batches, quantity : Nat \ {0}]

LineItem == [product : Products, requested : Nat \ {0}, alloc : Seq(Allocation)]

SaleRow == [orderStatus : OrderStatus,
            paymentStatus : PaymentStatus,
            reference : BOOLEAN,      \* paymentReference is not null
            confirmed : BOOLEAN,      \* confirmedDeliveryDate is not null
            deleted : BOOLEAN,        \* deletedAt is not null
            lineItems : Seq(LineItem)]

Request == [op : {"createSale", "addLineItem", "assignBatches", "updateSale",
                  "updateSaleStatus", "confirmDelivery", "cancelSaleByCustomer",
                  "cancelSaleByAdmin", "cancelSale"},
            sale : Sales,
            orderStatus : OrderStatus \cup {Unset},
            paymentStatus : PaymentStatus \cup {Unset},
            edits : BOOLEAN,          \* updateSale: the body has lineItems
            deliveryFee : BOOLEAN,    \* updateSale: the body has a delivery fee
            confirmed : BOOLEAN,      \* confirmDelivery
            lineItems : Seq(LineItem)]

\* AddLineItemDto and AssignBatchesDto are about one product.
ASSUME RequestsAssumption ==
    /\ Requests \subseteq Request
    /\ \A r \in Requests :
          r.op \in {"addLineItem", "assignBatches"} => Len(r.lineItems) = 1

ASSUME ProductOfAssumption == ProductOf \in [Batches -> Products]

ASSUME InitialAssumption ==
    /\ InitialStock \subseteq [Batches -> BatchRow]
    /\ InitialSales \subseteq [Sales -> SaleRow \cup {NoSale}]
    /\ NoSale \notin SaleRow

ASSUME BoundsAssumption == MaxRequests \in Nat /\ MaxAborts \in Nat

VARIABLES
    batches,  \* table Batches, committed rows
    sales,    \* table Sales, committed rows
    h,        \* the handler each worker runs
    refunds,  \* refunds Paystack accepted for each sale
    requests, \* requests received so far
    aborts    \* awaits that failed so far

vars == <<batches, sales, h, refunds, requests, aborts>>

(***************************************************************************)
(* The local state of a handler.                                           *)
(***************************************************************************)
PC == {"idle", "refund", "return", "returnCompare", "returnWrite", "validate",
       "deduct", "deductCompare", "deductWrite", "save", "saveWrite", "notify",
       "commit"}

EmptyRequest == [op |-> "createSale", sale |-> NoSale, orderStatus |-> Unset,
                 paymentStatus |-> Unset, edits |-> FALSE, deliveryFee |-> FALSE,
                 confirmed |-> FALSE, lineItems |-> <<>>]

EmptyRow == [orderStatus |-> "PENDING", paymentStatus |-> "INVOICE_REQUESTED",
             reference |-> FALSE, confirmed |-> FALSE, deleted |-> FALSE,
             lineItems |-> <<>>]

EmptyBatch == [quantity |-> 0, isActive |-> FALSE]

\* A worker with no request.  The answer to its last one stays visible.
Resting(result) ==
    [pc |-> "idle",
     result |-> result,             \* the answer to the last request
     req |-> EmptyRequest,          \* the request
     row |-> EmptyRow,              \* the Sale entity in memory
     todo |-> <<>>,                 \* what is left of the loop over line items
     total |-> 0,                   \* totalAllocated, totalDeducted
     batch |-> EmptyBatch,          \* the Batch entity in memory
     diff |-> {},                   \* the columns the UPDATE will set
     dirty |-> {},                  \* batches its transaction wrote
     view |-> [b \in Batches |-> EmptyBatch], \* what it wrote there
     dirtySale |-> FALSE]           \* its transaction wrote the sale

InTransaction(w) == h[w].req.op = "updateSale"

(***************************************************************************)
(* PostgreSQL at READ COMMITTED: a handler sees committed rows and its own *)
(* uncommitted ones, and waits to write a row another transaction wrote.   *)
(***************************************************************************)
BatchSeenBy(w, b) == IF b \in h[w].dirty THEN h[w].view[b] ELSE batches[b]

BatchFree(w, b) == \A v \in Workers \ {w} : b \notin h[v].dirty

SaleFree(w, s) == \A v \in Workers \ {w} : ~(h[v].dirtySale /\ h[v].req.sale = s)

(***************************************************************************)
(* TypeORM's save: the columns in which an entity differs from a row, and  *)
(* the row after those columns were set.                                   *)
(***************************************************************************)
BatchColumns == {"quantity", "isActive"}

SaleColumns ==
    {"orderStatus", "paymentStatus", "reference", "confirmed", "deleted", "lineItems"}

Differing(columns, entity, row) == {c \in columns : entity[c] # row[c]}

Set(column, diff, entity, row) == IF column \in diff THEN entity[column] ELSE row[column]

UpdatedBatch(row, entity, diff) ==
    [quantity |-> Set("quantity", diff, entity, row),
     isActive |-> Set("isActive", diff, entity, row)]

UpdatedSale(row, entity, diff) ==
    [orderStatus |-> Set("orderStatus", diff, entity, row),
     paymentStatus |-> Set("paymentStatus", diff, entity, row),
     reference |-> Set("reference", diff, entity, row),
     confirmed |-> Set("confirmed", diff, entity, row),
     deleted |-> Set("deleted", diff, entity, row),
     lineItems |-> Set("lineItems", diff, entity, row)]

Init ==
    /\ batches \in InitialStock
    /\ sales \in InitialSales
    /\ h = [w \in Workers |-> Resting("none")]
    /\ refunds = [s \in Sales |-> 0]
    /\ requests = 0
    /\ aborts = 0

\* Plausible bug: the transaction is not rolled back or released on the way out.
AnswerWithoutRelease(w, result) ==
    h' = [h EXCEPT ![w].pc = "idle", ![w].result = result]

\* The handler returns or throws; its transaction, if any, is over.
Answer(w, result) == h' = [h EXCEPT ![w] = Resting(result)]

(***************************************************************************)
(* Request handlers, from the request to their first await after the sale  *)
(* was found.                                                              *)
(***************************************************************************)
Receive(w, r) ==
    /\ h[w].pc = "idle"
    /\ requests < MaxRequests
    /\ requests' = requests + 1
    /\ UNCHANGED <<batches, sales, refunds, aborts>>

Handling(r, pc, row, todo) ==
    [Resting("none") EXCEPT !.pc = pc, !.req = r, !.row = row, !.todo = todo]

Proceed(w, r, pc, row, todo) == h' = [h EXCEPT ![w] = Handling(r, pc, row, todo)]

Refuse(w) == Answer(w, "refused")

\* findOne({ id, deletedAt: IsNull() })
Found(s) == sales[s] # NoSale /\ ~sales[s].deleted

Chosen(field, default) == IF field = Unset THEN default ELSE field

CreateSale(w, r) ==
    /\ r.op = "createSale"
    /\ Receive(w, r)
    /\ sales[r.sale] = NoSale \* a fresh uuid
    /\ \A v \in Workers : h[v].req.sale # r.sale
    /\ Proceed(w, r, "validate",
               [EmptyRow EXCEPT
                   !.orderStatus = Chosen(r.orderStatus, "PENDING"),
                   !.paymentStatus = Chosen(r.paymentStatus, "INVOICE_REQUESTED"),
                   !.lineItems = r.lineItems],
               r.lineItems)

AddLineItem(w, r) ==
    /\ r.op = "addLineItem"
    /\ Receive(w, r)
    /\ IF Found(r.sale) /\ sales[r.sale].paymentStatus # "PAID"
         THEN Proceed(w, r, "save",
                      [sales[r.sale] EXCEPT !.lineItems = @ \o r.lineItems],
                      <<>>)
         ELSE Refuse(w)

\* lineItems.findIndex(item => item.productId === productId)
IndexOf(row, product) ==
    LET matching == {i \in DOMAIN row.lineItems : row.lineItems[i].product = product}
    IN  IF matching = {} THEN 0
                         ELSE CHOOSE i \in matching : \A j \in matching : i =< j

\* Plausible bug: the item's old allocations are not returned first.
AssignWithoutReturn(w, r) ==
    /\ r.op = "assignBatches"
    /\ Receive(w, r)
    /\ IF /\ Found(r.sale)
          /\ sales[r.sale].paymentStatus # "PAID"
          /\ IndexOf(sales[r.sale], r.lineItems[1].product) # 0
         THEN Proceed(w, r, "return", sales[r.sale], <<>>)
         ELSE Refuse(w)

AssignBatches(w, r) ==
    /\ r.op = "assignBatches"
    /\ Receive(w, r)
    /\ IF /\ Found(r.sale)
          /\ sales[r.sale].paymentStatus # "PAID"
          /\ IndexOf(sales[r.sale], r.lineItems[1].product) # 0
         THEN LET row == sales[r.sale]
                  item == row.lineItems[IndexOf(row, r.lineItems[1].product)]
              IN  Proceed(w, r, "return", row, <<item>>)
         ELSE Refuse(w)

\* A delivery fee is accepted while the order still waits for one, whatever
\* payment status the same request sets.
UpdateSale(w, r) ==
    /\ r.op = "updateSale"
    /\ Receive(w, r)
    /\ IF /\ Found(r.sale)
          /\ sales[r.sale].orderStatus \notin {"IN_TRANSIT", "DELIVERED"}
          /\ r.deliveryFee => sales[r.sale].paymentStatus = "AWAITING_DELIVERY"
         THEN LET row == sales[r.sale]
              IN  Proceed(w, r, IF r.edits THEN "return" ELSE "save",
                          [row EXCEPT
                              !.orderStatus = Chosen(r.orderStatus, @),
                              !.paymentStatus = Chosen(r.paymentStatus, @)],
                          IF r.edits THEN row.lineItems ELSE <<>>)
         ELSE Refuse(w)

\* Plausible bug: only the payment status is looked at.
ValidPaymentChange(row, orderStatus, paymentStatus) ==
    paymentStatus = "PAID"
        => \A i \in DOMAIN row.lineItems : row.lineItems[i].alloc # <<>>

\* Packaging and anything later, and being paid, need batches on every item.
ValidStatusChange(row, orderStatus, paymentStatus) ==
    (orderStatus \in {"PACKAGING", "IN_TRANSIT", "DELIVERED"} \/ paymentStatus = "PAID")
        => \A i \in DOMAIN row.lineItems : row.lineItems[i].alloc # <<>>

UpdateSaleStatus(w, r) ==
    /\ r.op = "updateSaleStatus"
    /\ Receive(w, r)
    /\ IF /\ Found(r.sale)
          /\ ValidStatusChange(sales[r.sale], r.orderStatus, r.paymentStatus)
         THEN Proceed(w, r, "save",
                      [sales[r.sale] EXCEPT
                          !.orderStatus = Chosen(r.orderStatus, @),
                          !.paymentStatus = Chosen(r.paymentStatus, @)],
                      <<>>)
         ELSE Refuse(w)

\* Writes back a copy of the sale whatever happened to the row meanwhile.
ConfirmDelivery(w, r) ==
    /\ r.op = "confirmDelivery"
    /\ Receive(w, r)
    /\ IF Found(r.sale)
         THEN Proceed(w, r, "save", [sales[r.sale] EXCEPT !.confirmed = r.confirmed], <<>>)
         ELSE Refuse(w)

\* A paid sale is refunded if there is a Paystack transaction to refund.
CancelFrom(w, r) ==
    LET row == sales[r.sale]
    IN  Proceed(w, r,
                IF row.paymentStatus = "PAID" /\ row.reference THEN "refund" ELSE "return",
                [row EXCEPT !.orderStatus = "CANCELLED"],
                row.lineItems)

CustomerMayCancel(row) ==
    \/ row.orderStatus = "PENDING"
    \/ row.orderStatus = "PACKAGING" /\ row.paymentStatus = "PAID"

CancelSaleByCustomer(w, r) ==
    /\ r.op = "cancelSaleByCustomer"
    /\ Receive(w, r)
    /\ IF Found(r.sale) /\ CustomerMayCancel(sales[r.sale])
         THEN CancelFrom(w, r)
         ELSE Refuse(w)

AdminMayCancel(row) == row.orderStatus \notin {"CANCELLED", "IN_TRANSIT", "DELIVERED"}

CancelSaleByAdmin(w, r) ==
    /\ r.op = "cancelSaleByAdmin"
    /\ Receive(w, r)
    /\ IF Found(r.sale) /\ AdminMayCancel(sales[r.sale])
         THEN CancelFrom(w, r)
         ELSE Refuse(w)

\* The legacy soft delete: no status is checked and nothing is refunded.
CancelSale(w, r) ==
    /\ r.op = "cancelSale"
    /\ Receive(w, r)
    /\ IF Found(r.sale)
         THEN Proceed(w, r, "return",
                      [sales[r.sale] EXCEPT !.orderStatus = "CANCELLED", !.deleted = TRUE],
                      sales[r.sale].lineItems)
         ELSE Refuse(w)

(***************************************************************************)
(* Paystack: refundPayment before any stock is returned.                   *)
(***************************************************************************)
\* Plausible bug: refundProcessed is not looked at when the sale is saved.
RefundUnrecorded(w) ==
    /\ h[w].pc = "refund"
    /\ refunds' = [refunds EXCEPT ![h[w].req.sale] = @ + 1]
    /\ h' = [h EXCEPT ![w].pc = "return"]
    /\ UNCHANGED <<batches, sales, requests, aborts>>

Refund(w) ==
    /\ h[w].pc = "refund"
    /\ refunds' = [refunds EXCEPT ![h[w].req.sale] = @ + 1]
    /\ h' = [h EXCEPT ![w] = [@ EXCEPT !.pc = "return", !.row.paymentStatus = "REFUNDED"]]
    /\ UNCHANGED <<batches, sales, requests, aborts>>

RefundFails(w) ==
    /\ h[w].pc = "refund"
    /\ Answer(w, "failed")
    /\ UNCHANGED <<batches, sales, refunds, requests, aborts>>

(***************************************************************************)
(* The loops over line items and their batch allocations.                  *)
(***************************************************************************)
AtAllocation(w) == h[w].todo # <<>> /\ Head(h[w].todo).alloc # <<>>

AtItemEnd(w) == h[w].todo # <<>> /\ Head(h[w].todo).alloc = <<>>

Alloc(w) == Head(Head(h[w].todo).alloc)

\* The loop without the allocation it has at hand.
Advanced(todo) == <<[Head(todo) EXCEPT !.alloc = Tail(Head(todo).alloc)]>> \o Tail(todo)

\* The handler after the current allocation is done with.
NextAllocation(w, pc) ==
    [h[w] EXCEPT !.pc = pc,
                 !.total = @ + Alloc(w).quantity,
                 !.todo = Advanced(@),
                 !.batch = EmptyBatch,
                 !.diff = {}]

\* Plausible bug: returned stock does not make a batch active again.
ReturnedInactive(batch, n) ==
    [quantity |-> batch.quantity + n, isActive |-> batch.isActive]

\* returnStock, returnOldBatchStock: quantity += n, active again if positive.
Returned(batch, n) ==
    [quantity |-> batch.quantity + n,
     isActive |-> IF batch.quantity + n > 0 THEN TRUE ELSE batch.isActive]

\* Plausible bug: the loop moves on before the batch is saved.
ReturnFindMovesOn(w) ==
    /\ h[w].pc = "return"
    /\ AtAllocation(w)
    /\ h' = [h EXCEPT ![w] =
               [NextAllocation(w, "returnCompare") EXCEPT
                   !.batch = Returned(BatchSeenBy(w, Alloc(w).batch), Alloc(w).quantity)]]
    /\ UNCHANGED <<batches, sales, refunds, requests, aborts>>

ReturnFind(w) ==
    /\ h[w].pc = "return"
    /\ AtAllocation(w)
    /\ LET entity == Returned(BatchSeenBy(w, Alloc(w).batch), Alloc(w).quantity)
       IN  h' = [h EXCEPT ![w] = [@ EXCEPT !.pc = "returnCompare", !.batch = entity]]
    /\ UNCHANGED <<batches, sales, refunds, requests, aborts>>

\* validateBatchAllocations, validateNewBatchAllocations: one allocation.
Allocatable(batch, product, alloc) ==
    ProductOf[alloc.batch] = product /\ batch.quantity >= alloc.quantity

ValidateAllocation(w) ==
    /\ h[w].pc = "validate"
    /\ AtAllocation(w)
    /\ IF Allocatable(BatchSeenBy(w, Alloc(w).batch), Head(h[w].todo).product, Alloc(w))
         THEN h' = [h EXCEPT ![w] = NextAllocation(w, "validate")]
         ELSE Answer(w, "failed")
    /\ UNCHANGED <<batches, sales, refunds, requests, aborts>>

\* Plausible bug: the earlier validation is trusted and nothing checked again.
DeductibleUnchecked(w, batch, n) == TRUE

\* deductBatchQuantity checks the quantity again; the transactional
\* processTransactionalAllocation of updateSale does not.
Deductible(w, batch, n) == InTransaction(w) \/ batch.quantity >= n

Deducted(batch, n) ==
    [quantity |-> batch.quantity - n,
     isActive |-> IF batch.quantity - n =< 0 THEN FALSE ELSE batch.isActive]

DeductFind(w) ==
    /\ h[w].pc = "deduct"
    /\ AtAllocation(w)
    /\ LET batch == BatchSeenBy(w, Alloc(w).batch)
       IN  IF Deductible(w, batch, Alloc(w).quantity)
             THEN h' = [h EXCEPT ![w] = [@ EXCEPT
                           !.pc = "deductCompare", !.batch = Deducted(batch, Alloc(w).quantity)]]
             ELSE Answer(w, "failed")
    /\ UNCHANGED <<batches, sales, refunds, requests, aborts>>

(***************************************************************************)
(* Saving a batch: SELECT, then UPDATE.                                    *)
(***************************************************************************)
BatchDiff(w) == Differing(BatchColumns, h[w].batch, BatchSeenBy(w, Alloc(w).batch))

CompareBatch(w) ==
    /\ h[w].pc \in {"returnCompare", "deductCompare"}
    /\ LET next == IF h[w].pc = "returnCompare" THEN "returnWrite" ELSE "deductWrite"
       IN  h' = [h EXCEPT ![w] = [@ EXCEPT !.pc = next, !.diff = BatchDiff(w)]]
    /\ UNCHANGED <<batches, sales, refunds, requests, aborts>>

\* The handler after the UPDATE; a transaction keeps what it wrote.
Written(w, pc, row) ==
    IF InTransaction(w) /\ h[w].diff # {}
      THEN [NextAllocation(w, pc) EXCEPT
               !.dirty = @ \cup {Alloc(w).batch},
               !.view[Alloc(w).batch] = row]
      ELSE NextAllocation(w, pc)

\* Plausible bug: batches are saved with the repository, not with the query
\* runner of the transaction.
WriteBatchAtOnce(w) ==
    /\ h[w].pc \in {"returnWrite", "deductWrite"}
    /\ h[w].diff # {} => BatchFree(w, Alloc(w).batch)
    /\ LET row == UpdatedBatch(BatchSeenBy(w, Alloc(w).batch), h[w].batch, h[w].diff)
       IN  /\ batches' = [batches EXCEPT ![Alloc(w).batch] = row]
           /\ h' = [h EXCEPT ![w] =
                       Written(w, IF h[w].pc = "returnWrite" THEN "return" ELSE "deduct", row)]
    /\ UNCHANGED <<sales, refunds, requests, aborts>>

WriteBatch(w) ==
    /\ h[w].pc \in {"returnWrite", "deductWrite"}
    /\ h[w].diff # {} => BatchFree(w, Alloc(w).batch)
    /\ LET row == UpdatedBatch(BatchSeenBy(w, Alloc(w).batch), h[w].batch, h[w].diff)
       IN  /\ IF InTransaction(w)
                THEN UNCHANGED batches
                ELSE batches' = [batches EXCEPT ![Alloc(w).batch] = row]
           /\ h' = [h EXCEPT ![w] =
                       Written(w, IF h[w].pc = "returnWrite" THEN "return" ELSE "deduct", row)]
    /\ UNCHANGED <<sales, refunds, requests, aborts>>

\* The check at the end of a line item.  Validation lets a sale or an edit
\* allocate less than requested; assigning and deducting must match exactly.
TotalAccepted(w) ==
    LET requested == Head(h[w].todo).requested
    IN  \/ h[w].pc = "return"
        \/ h[w].pc = "validate" /\ h[w].req.op # "assignBatches" /\ h[w].total =< requested
        \/ h[w].total = requested

EndItem(w) ==
    /\ h[w].pc \in {"return", "validate", "deduct"}
    /\ AtItemEnd(w)
    /\ IF TotalAccepted(w)
         THEN h' = [h EXCEPT ![w] = [@ EXCEPT !.todo = Tail(h[w].todo), !.total = 0]]
         ELSE Answer(w, "failed")
    /\ UNCHANGED <<batches, sales, refunds, requests, aborts>>

\* assignBatches: the item with its new allocations.
Assigned(w) ==
    LET i == IndexOf(h[w].row, h[w].req.lineItems[1].product)
    IN  [h[w].row.lineItems[i] EXCEPT !.alloc = h[w].req.lineItems[1].alloc]

\* What follows the last line item of each loop.
AfterReturn(w) ==
    CASE h[w].req.op = "updateSale" -> [h[w] EXCEPT !.pc = "validate", !.todo = h[w].req.lineItems]
      [] h[w].req.op = "assignBatches" -> [h[w] EXCEPT !.pc = "validate", !.todo = <<Assigned(w)>>]
      [] OTHER -> [h[w] EXCEPT !.pc = "save"]

AfterValidate(w) ==
    CASE h[w].req.op = "updateSale" ->
             [h[w] EXCEPT !.pc = "deduct", !.todo = h[w].req.lineItems, !.row.lineItems = h[w].req.lineItems]
      [] h[w].req.op = "assignBatches" ->
             [h[w] EXCEPT !.pc = "deduct", !.todo = <<Assigned(w)>>,
                          !.row.lineItems[IndexOf(h[w].row, h[w].req.lineItems[1].product)] = Assigned(w)]
      [] OTHER -> \* createSale deducts only for a sale that is not pending
             IF h[w].row.orderStatus # "PENDING"
               THEN [h[w] EXCEPT !.pc = "deduct", !.todo = h[w].row.lineItems]
               ELSE [h[w] EXCEPT !.pc = "save"]

EndLoop(w) ==
    /\ h[w].todo = <<>>
    /\ \/ h[w].pc = "return" /\ h' = [h EXCEPT ![w] = AfterReturn(w)]
       \/ h[w].pc = "validate" /\ h' = [h EXCEPT ![w] = AfterValidate(w)]
       \/ h[w].pc = "deduct" /\ h' = [h EXCEPT ![w].pc = "save"]
    /\ UNCHANGED <<batches, sales, refunds, requests, aborts>>

(***************************************************************************)
(* Saving the sale, mail, and the end of the request.                      *)
(***************************************************************************)
SaleDiff(w) ==
    IF sales[h[w].req.sale] = NoSale
      THEN SaleColumns \* an INSERT
      ELSE Differing(SaleColumns, h[w].row, sales[h[w].req.sale])

\* updateSale checks the statuses last, right before it saves.
MaySave(w) ==
    InTransaction(w) => ValidStatusChange(h[w].row, h[w].req.orderStatus, h[w].req.paymentStatus)

CompareSale(w) ==
    /\ h[w].pc = "save"
    /\ IF MaySave(w)
         THEN h' = [h EXCEPT ![w] = [@ EXCEPT !.pc = "saveWrite", !.diff = SaleDiff(w)]]
         ELSE Answer(w, "failed")
    /\ UNCHANGED <<batches, sales, refunds, requests, aborts>>

SavedSale(w) == UpdatedSale(sales[h[w].req.sale], h[w].row, h[w].diff)

WriteSale(w) ==
    /\ h[w].pc = "saveWrite"
    /\ h[w].diff # {} => SaleFree(w, h[w].req.sale)
    /\ IF InTransaction(w)
         THEN /\ h' = [h EXCEPT ![w] = [@ EXCEPT !.pc = "notify", !.dirtySale = h[w].diff # {}]]
              /\ UNCHANGED sales
         ELSE /\ sales' = [sales EXCEPT ![h[w].req.sale] = SavedSale(w)]
              /\ IF h[w].req.op \in {"createSale", "updateSaleStatus"}
                   THEN h' = [h EXCEPT ![w].pc = "notify"]
                   ELSE Answer(w, "ok")
    /\ UNCHANGED <<batches, refunds, requests, aborts>>

\* The mails: the status and the document.
Notify(w) ==
    /\ h[w].pc = "notify"
    /\ IF InTransaction(w) THEN h' = [h EXCEPT ![w].pc = "commit"]
                           ELSE Answer(w, "ok")
    /\ UNCHANGED <<batches, sales, refunds, requests, aborts>>

Commit(w) ==
    /\ h[w].pc = "commit"
    /\ batches' = [b \in Batches |-> BatchSeenBy(w, b)]
    /\ sales' = [sales EXCEPT ![h[w].req.sale] = SavedSale(w)]
    /\ Answer(w, "ok")
    /\ UNCHANGED <<refunds, requests, aborts>>

(***************************************************************************)
(* What can fail: an await that throws, or the process dying.  The writes  *)
(* of a transaction are rolled back; what was saved without one stays.     *)
(***************************************************************************)
Abort(w) ==
    /\ h[w].pc # "idle"
    /\ aborts < MaxAborts
    /\ aborts' = aborts + 1
    /\ Answer(w, "failed")
    /\ UNCHANGED <<batches, sales, refunds, requests>>

\* PostgreSQL fails one of two transactions that wait for each other.
WaitsFor(w, v) ==
    /\ h[w].diff # {}
    /\ \/ h[w].pc \in {"returnWrite", "deductWrite"} /\ Alloc(w).batch \in h[v].dirty
       \/ h[w].pc = "saveWrite" /\ h[v].dirtySale /\ h[v].req.sale = h[w].req.sale

Deadlocked(w) ==
    \E ring \in SUBSET Workers :
        w \in ring /\ \A u \in ring : \E v \in ring \ {u} : WaitsFor(u, v)

DeadlockAbort(w) ==
    /\ InTransaction(w)
    /\ Deadlocked(w)
    /\ Answer(w, "failed")
    /\ UNCHANGED <<batches, sales, refunds, requests, aborts>>

-----------------------------------------------------------------------------
\* Requests come from outside; nothing makes clients send one.
Arrive(w) ==
    \E r \in Requests :
        \/ CreateSale(w, r) \/ AddLineItem(w, r) \/ AssignBatches(w, r)
        \/ UpdateSale(w, r) \/ UpdateSaleStatus(w, r)
        \/ ConfirmDelivery(w, r)
        \/ CancelSaleByCustomer(w, r) \/ CancelSaleByAdmin(w, r) \/ CancelSale(w, r)

Step(w) ==
    \/ Refund(w) \/ RefundFails(w)
    \/ ReturnFind(w) \/ ValidateAllocation(w) \/ DeductFind(w)
    \/ CompareBatch(w) \/ WriteBatch(w)
    \/ EndItem(w) \/ EndLoop(w)
    \/ CompareSale(w) \/ WriteSale(w)
    \/ Notify(w) \/ Commit(w)
    \/ DeadlockAbort(w)

Next == \E w \in Workers : Arrive(w) \/ Step(w) \/ Abort(w)

Spec == Init /\ [][Next]_vars

\* The event loop and the database serve every handler; a client is owed nothing.
FairSpec == Spec /\ \A w \in Workers : WF_vars(Step(w))
-----------------------------------------------------------------------------
(***************************************************************************)
(* Properties.                                                             *)
(***************************************************************************)
Handler ==
    [pc : PC, result : {"none", "ok", "refused", "failed"},
     req : Request \cup {EmptyRequest}, row : SaleRow, todo : Seq(LineItem),
     total : Nat, batch : BatchRow, diff : SUBSET (BatchColumns \cup SaleColumns),
     dirty : SUBSET Batches, view : [Batches -> BatchRow], dirtySale : BOOLEAN]

\* The type invariant: every row and every handler is well formed, a handler
\* at work has a sale, and one inside a loop body has an allocation in hand.
TypeOK ==
    /\ batches \in [Batches -> BatchRow]
    /\ sales \in [Sales -> SaleRow \cup {NoSale}]
    /\ h \in [Workers -> Handler]
    /\ refunds \in [Sales -> Nat]
    /\ requests \in Nat
    /\ aborts \in Nat
    /\ \A w \in Workers :
          /\ h[w].pc # "idle" => h[w].req \in Requests
          /\ h[w].pc \in {"returnCompare", "returnWrite", "deductCompare", "deductWrite"}
                => AtAllocation(w)

Coherent(batch) == batch.isActive <=> batch.quantity > 0

\* A batch is offered for sale exactly while some of it is left (isActive is
\* kept by hand in every += and -= of the stock-management, line-item and
\* batches services, each with a test of its own).  This holds of handlers
\* that do not overlap; the two statements of a save break it between two.
BatchActiveIffStocked == \A b \in Batches : Coherent(batches[b])

\* deductBatchQuantity tests and subtracts on the same copy of the row, so a
\* lost update may forget a sale but never drives a batch below zero.
NoNegativeStock == \A b \in Batches : batches[b].quantity >= 0

\* An order that is being packed or is on its way has batches on every line
\* item: validateStatusChange asks for them on the way in, and no later
\* assignment, edit or cancellation takes them off.  This holds of handlers
\* that do not overlap, and of items that are added with their batches.
PackedSalesAllocated ==
    \A s \in Sales :
        (sales[s] # NoSale /\ sales[s].orderStatus \in {"PACKAGING", "IN_TRANSIT", "DELIVERED"})
            => \A i \in DOMAIN sales[s].lineItems : sales[s].lineItems[i].alloc # <<>>

\* As long as no await failed, and once nobody is working on a sale, money sent
\* back is on record: the sale reads refunded, and was refunded once.  This
\* holds of handlers that do not overlap, while nobody types in another payment
\* status on an order that was paid through Paystack.
\* (refundPayment comes before returnStock and save: an await that fails
\* between them leaves a paid sale whose money is gone.)
RefundIsRecorded ==
    \A s \in Sales :
        (aborts = 0 /\ refunds[s] > 0 /\ \A w \in Workers : h[w].req.sale # s)
            => refunds[s] = 1 /\ sales[s].paymentStatus = "REFUNDED"

\* Every request is answered: no handler waits for ever for a row that a
\* transaction locked, and no loop over allocations runs for ever.
EveryRequestAnswered == \A w \in Workers : h[w].pc # "idle" ~> h[w].pc = "idle"
=============================================================================
