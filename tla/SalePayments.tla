---------------------------- MODULE SalePayments ----------------------------
(***************************************************************************)
(* The money of one order: the row of the sale with its amounts, payment   *)
(* status and current payment reference, its records in "SalePayments",    *)
(* the Paystack transactions opened for it, and every handler that reads   *)
(* or writes them: checkout, "pay now", the Paystack webhook, the pages    *)
(* that confirm a payment, the payment records of the back office, the     *)
(* delivery cost, and cancellation with its refund.                        *)
(*                                                                         *)
(* As in SaleStock a step is the code between two awaits, a handler works  *)
(* on its own copy of the sale, and save is a SELECT followed by an UPDATE *)
(* of the columns in which the copy differs.  None of these handlers holds *)
(* a lock or a transaction across an await.                                *)
(*                                                                         *)
(* Handlers of different orders share nothing here (a reference contains a *)
(* fresh uuid), so one order is enough.  Money is counted in whole units,  *)
(* and null fees are 0 where the code reads them with "?? 0".              *)
(***************************************************************************)
EXTENDS Integers, Sequences, SequencesExt

CONSTANTS
    References,   \* payment references that may be generated
    Workers,      \* requests that may be in progress at the same time
    Requests,     \* what clients may ask, a subset of Request
    InitialSales, \* what the row may be at first: rows, or NoSale
    Fee(_),       \* calculateServiceFee: the fee on a subtotal
    MaxRequests,  \* bound on the number of client requests of a behaviour
    MaxAborts,    \* bound on the number of failing awaits of a behaviour
    MaxPayments,  \* bound on the payment records before webhooks stop arriving
    NoReference,  \* paymentReference is null
    NoFee,        \* serviceFee is null
    NoSale,       \* the order is not placed yet
    NoTransaction \* Paystack knows nothing of a reference

OrderStatus == {"PENDING", "PACKAGING", "CANCELLED"} \* later ones refuse to cancel

PaymentStatus ==
    {"INVOICE_REQUESTED", "AWAITING_DELIVERY", "PENDING_PAYMENT", "PAID", "REFUNDED"}

RecordStatus == {"PENDING", "CONFIRMED", "FAILED", "REFUNDED"}

SaleRow == [orderStatus : OrderStatus,
            paymentStatus : PaymentStatus,
            reference : References \cup {NoReference},
            amount : Nat,
            deliveryFee : Nat,
            serviceFee : Nat \cup {NoFee}]

SalePayment == [amount : Nat, status : RecordStatus,
                reference : References \cup {NoReference}]

Transaction == [amount : Nat, op : {"payForOrder", "payForGuestOrder", "initializeTransaction"}]

Request == [op : {"initializeTransaction", "payForOrder", "payForGuestOrder", "confirmPayment",
                  "recordPayment", "updatePaymentStatus", "updateDeliveryCost", "addLineItem",
                  "confirmDelivery", "cancelSaleByCustomer", "cancelSaleByAdmin"},
            amount : Nat,        \* of the cart, record, delivery or line item
            delivery : Nat \cup {-1}, \* initializeTransaction: its cost, or -1 for "unknown"
            record : Nat,        \* updatePaymentStatus: which record
            status : RecordStatus]

Webhook == [op : {"chargeSuccess", "refundProcessed"}, reference : References]

ASSUME RequestsAssumption == Requests \subseteq Request

ASSUME InitialAssumption ==
    /\ InitialSales \subseteq SaleRow \cup {NoSale}
    /\ NoSale \notin SaleRow
    /\ NoReference \notin References
    /\ NoFee \notin Nat
    /\ NoTransaction \notin Transaction

ASSUME FeeAssumption == \A n \in 0 .. 100 : Fee(n) \in Nat

ASSUME BoundsAssumption == {MaxRequests, MaxAborts, MaxPayments} \subseteq Nat

VARIABLES
    sale,      \* the row of table Sales
    payments,  \* table SalePayments, in the order of insertion
    generated, \* references handed out by generatePaymentReference
    opened,    \* Paystack: the transaction opened for each reference
    charged,   \* Paystack: the references whose customer has paid
    refunded,  \* Paystack: refunds accepted for each reference
    h,         \* the handler each worker runs
    requests,  \* client requests received so far
    aborts     \* awaits that failed so far

vars == <<sale, payments, generated, opened, charged, refunded, h, requests, aborts>>

paystack == <<opened, charged, refunded>>

PC == {"idle", "verify", "record", "update", "sync", "initialize", "refund", "save", "write"}

EmptyRow == [orderStatus |-> "PENDING", paymentStatus |-> "INVOICE_REQUESTED",
             reference |-> NoReference, amount |-> 0, deliveryFee |-> 0, serviceFee |-> 0]

Resting == [pc |-> "idle",
            req |-> [op |-> "none"], \* the request or webhook
            row |-> EmptyRow,        \* the Sale entity in memory
            diff |-> {},             \* the columns the UPDATE will set
            then |-> "idle"]         \* what follows the save

(***************************************************************************)
(* Amounts.                                                                *)
(***************************************************************************)
OrZero(fee) == IF fee = NoFee THEN 0 ELSE fee

\* calculateGrandTotal on the columns of a row.
GrandTotal(row) == row.amount + row.deliveryFee + OrZero(row.serviceFee)

TotalConfirmed ==
    FoldSeq(LAMBDA p, sum : sum + (IF p.status = "CONFIRMED" THEN p.amount ELSE 0), 0, payments)

\* A sale of nothing is never covered (grandTotal <= 0 returns early).
Covered(row) == row.amount + row.deliveryFee > 0 /\ TotalConfirmed >= GrandTotal(row)

Init ==
    /\ sale \in InitialSales
    /\ payments = <<>>
    /\ generated = IF sale = NoSale THEN {} ELSE {sale.reference} \ {NoReference}
    /\ opened = [ref \in References |->
                    IF ref \in generated
                      THEN [amount |-> GrandTotal(sale), op |-> "initializeTransaction"]
                      ELSE NoTransaction]
    /\ charged = {}
    /\ refunded = [ref \in References |-> 0]
    /\ h = [w \in Workers |-> Resting]
    /\ requests = 0
    /\ aborts = 0

(***************************************************************************)
(* Saving the sale.                                                        *)
(***************************************************************************)
Columns == {"orderStatus", "paymentStatus", "reference", "amount", "deliveryFee", "serviceFee"}

Keep(w, pc, row, then) == [h[w] EXCEPT !.pc = pc, !.row = row, !.then = then]

Save(w, row, then) == h' = [h EXCEPT ![w] = Keep(w, "save", row, then)]

Finish(w) == h' = [h EXCEPT ![w] = Resting]

Compare(w) ==
    /\ h[w].pc = "save"
    /\ h' = [h EXCEPT ![w] = [@ EXCEPT
                !.pc = "write", !.diff = {c \in Columns : h[w].row[c] # sale[c]}]]
    /\ UNCHANGED <<sale, payments, generated, paystack, requests, aborts>>

Column(w, c) == IF c \in h[w].diff THEN h[w].row[c] ELSE sale[c]

Write(w) ==
    /\ h[w].pc = "write"
    /\ sale' = [orderStatus |-> Column(w, "orderStatus"),
                paymentStatus |-> Column(w, "paymentStatus"),
                reference |-> Column(w, "reference"),
                amount |-> Column(w, "amount"),
                deliveryFee |-> Column(w, "deliveryFee"),
                serviceFee |-> Column(w, "serviceFee")]
    /\ IF h[w].then = "idle" THEN Finish(w)
                             ELSE h' = [h EXCEPT ![w] = [@ EXCEPT !.pc = h[w].then, !.diff = {}]]
    /\ UNCHANGED <<payments, generated, paystack, requests, aborts>>

(***************************************************************************)
(* Client requests.                                                        *)
(***************************************************************************)
Receive(w) ==
    /\ h[w].pc = "idle"
    /\ requests < MaxRequests
    /\ requests' = requests + 1
    /\ UNCHANGED <<payments, paystack, aborts>>

Start(w, r, pc, row, then) ==
    h' = [h EXCEPT ![w] = [Resting EXCEPT !.pc = pc, !.req = r, !.row = row, !.then = then]]

\* The handler throws, or returns without touching anything.
Decline(w) == Finish(w) /\ UNCHANGED <<sale, generated>>

\* generatePaymentReference: a fresh uuid.
Generate(ref) == ref \in References \ generated /\ generated' = generated \cup {ref}

\* The order is committed first, then the reference is saved on it.  An order
\* from abroad has no fees until its delivery cost is known.
InitializeTransaction(w, r) ==
    /\ r.op = "initializeTransaction"
    /\ Receive(w)
    /\ sale = NoSale
    /\ sale' = IF r.delivery = -1
                 THEN [EmptyRow EXCEPT !.paymentStatus = "AWAITING_DELIVERY",
                                       !.amount = r.amount, !.serviceFee = NoFee]
                 ELSE [EmptyRow EXCEPT !.paymentStatus = "PENDING_PAYMENT",
                                       !.amount = r.amount, !.deliveryFee = r.delivery,
                                       !.serviceFee = Fee(r.amount + r.delivery)]
    /\ \E ref \in References :
          Generate(ref) /\ Start(w, r, "save", [sale' EXCEPT !.reference = ref], "initialize")

MayPay(row) == row.paymentStatus \in {"INVOICE_REQUESTED", "PENDING_PAYMENT"}

\* Plausible bug: Paystack is called without recording the attempt.
PayForOrderUnrecorded(w, r) ==
    /\ r.op = "payForOrder"
    /\ Receive(w)
    /\ IF sale # NoSale /\ MayPay(sale)
         THEN /\ \E ref \in References :
                    Generate(ref) /\ Start(w, r, "save", [sale EXCEPT !.reference = ref], "initialize")
              /\ UNCHANGED sale
         ELSE Decline(w)

\* The page that tracks an order: the attempt is recorded before Paystack is
\* called.
PayForOrder(w, r) ==
    /\ r.op = "payForOrder"
    /\ Receive(w)
    /\ IF sale # NoSale /\ MayPay(sale)
         THEN LET fee == IF sale.serviceFee = NoFee THEN Fee(sale.amount + sale.deliveryFee)
                                                    ELSE sale.serviceFee
              IN  /\ \E ref \in References :
                        /\ Generate(ref)
                        /\ Start(w, r, "save",
                                 [sale EXCEPT !.reference = ref, !.serviceFee = fee], "record")
                  /\ UNCHANGED sale
         ELSE Decline(w)

\* The checkout page of a guest: no record, no missing fee.
PayForGuestOrder(w, r) ==
    /\ r.op = "payForGuestOrder"
    /\ Receive(w)
    /\ IF sale # NoSale /\ MayPay(sale)
         THEN /\ \E ref \in References :
                    Generate(ref) /\ Start(w, r, "save", [sale EXCEPT !.reference = ref], "initialize")
              /\ UNCHANGED sale
         ELSE Decline(w)

\* Plausible bug: a sale without a payment reference is not turned away.
ConfirmPaymentAnyway(w, r) ==
    /\ r.op = "confirmPayment"
    /\ Receive(w)
    /\ IF sale # NoSale /\ sale.paymentStatus # "PAID"
         THEN Start(w, r, "verify", sale, "idle") /\ UNCHANGED <<sale, generated>>
         ELSE Decline(w)

\* confirmPayment, confirmGuestPayment: the page Paystack sends customers to.
ConfirmPayment(w, r) ==
    /\ r.op = "confirmPayment"
    /\ Receive(w)
    /\ IF sale # NoSale /\ sale.paymentStatus # "PAID" /\ sale.reference # NoReference
         THEN Start(w, r, "verify", sale, "idle") /\ UNCHANGED <<sale, generated>>
         ELSE Decline(w)

RecordPayment(w, r) ==
    /\ r.op = "recordPayment"
    /\ Receive(w)
    /\ IF sale # NoSale /\ r.amount > 0
         THEN Start(w, r, "record", sale, "idle") /\ UNCHANGED <<sale, generated>>
         ELSE Decline(w)

UpdatePaymentStatus(w, r) ==
    /\ r.op = "updatePaymentStatus"
    /\ Receive(w)
    /\ IF sale # NoSale
         THEN Start(w, r, "update", sale, "idle") /\ UNCHANGED <<sale, generated>>
         ELSE Decline(w)

\* Plausible bug: the service fee is not recalculated.
UpdateDeliveryCostOnly(w, r) ==
    /\ r.op = "updateDeliveryCost"
    /\ Receive(w)
    /\ IF sale # NoSale
          /\ sale.paymentStatus \in {"INVOICE_REQUESTED", "PENDING_PAYMENT", "AWAITING_DELIVERY"}
         THEN /\ Start(w, r, "save", [sale EXCEPT !.deliveryFee = r.amount], "idle")
              /\ UNCHANGED <<sale, generated>>
         ELSE Decline(w)

UpdateDeliveryCost(w, r) ==
    /\ r.op = "updateDeliveryCost"
    /\ Receive(w)
    /\ IF sale # NoSale
          /\ sale.paymentStatus \in {"INVOICE_REQUESTED", "PENDING_PAYMENT", "AWAITING_DELIVERY"}
         THEN /\ Start(w, r, "save",
                       [sale EXCEPT
                           !.deliveryFee = r.amount,
                           !.serviceFee = Fee(sale.amount + r.amount),
                           !.paymentStatus = IF @ = "AWAITING_DELIVERY" THEN "PENDING_PAYMENT" ELSE @],
                       "idle")
              /\ UNCHANGED <<sale, generated>>
         ELSE Decline(w)

\* The amount is recalculated, the service fee is not.
AddLineItem(w, r) ==
    /\ r.op = "addLineItem"
    /\ Receive(w)
    /\ IF sale # NoSale /\ sale.paymentStatus # "PAID"
         THEN /\ Start(w, r, "save", [sale EXCEPT !.amount = @ + r.amount], "idle")
              /\ UNCHANGED <<sale, generated>>
         ELSE Decline(w)

\* Touches no column of this module, but saves the whole entity.
ConfirmDelivery(w, r) ==
    /\ r.op = "confirmDelivery"
    /\ Receive(w)
    /\ IF sale # NoSale
         THEN Start(w, r, "save", sale, "idle") /\ UNCHANGED <<sale, generated>>
         ELSE Decline(w)

MayCancel(row, op) ==
    \/ op = "cancelSaleByAdmin" /\ row.orderStatus # "CANCELLED"
    \/ row.orderStatus = "PENDING"
    \/ row.orderStatus = "PACKAGING" /\ row.paymentStatus = "PAID"

\* cancelSaleByCustomer, cancelSaleByAdmin: the refund comes first.
Cancel(w, r) ==
    /\ r.op \in {"cancelSaleByCustomer", "cancelSaleByAdmin"}
    /\ Receive(w)
    /\ IF sale # NoSale /\ MayCancel(sale, r.op)
         THEN /\ Start(w, r,
                       IF sale.paymentStatus = "PAID" /\ sale.reference # NoReference
                         THEN "refund" ELSE "save",
                       [sale EXCEPT !.orderStatus = "CANCELLED"], "idle")
              /\ UNCHANGED <<sale, generated>>
         ELSE Decline(w)

(***************************************************************************)
(* Paystack: customers pay on any link they were given; the webhook tells  *)
(* of charges and refunds, again and again until it is answered, and may   *)
(* tell of them once more after that.                                      *)
(***************************************************************************)
Pay(ref) ==
    /\ opened[ref] # NoTransaction /\ ref \notin charged
    /\ charged' = charged \cup {ref}
    /\ UNCHANGED <<sale, payments, generated, opened, refunded, h, requests, aborts>>

Deliver(w) ==
    /\ h[w].pc = "idle"
    /\ Len(payments) < MaxPayments
    /\ UNCHANGED <<payments, paystack, requests, aborts>>

\* Plausible bug: only sales whose status is "pending payment" are looked at.
ChargeSuccessPendingOnly(w, r) ==
    /\ r.op = "chargeSuccess"
    /\ r.reference \in charged
    /\ Deliver(w)
    /\ IF sale # NoSale /\ sale.reference = r.reference /\ sale.paymentStatus = "PENDING_PAYMENT"
         THEN Start(w, r, "verify", sale, "idle") /\ UNCHANGED <<sale, generated>>
         ELSE Decline(w)

\* Plausible bug: a sale that is paid already is not skipped.
ChargeSuccessTwice(w, r) ==
    /\ r.op = "chargeSuccess"
    /\ r.reference \in charged
    /\ Deliver(w)
    /\ IF sale # NoSale /\ sale.reference = r.reference
         THEN Start(w, r, "verify", sale, "idle") /\ UNCHANGED <<sale, generated>>
         ELSE Decline(w)

\* verifyAndMarkPaid: the sale that has the reference now, unless it is paid.
ChargeSuccess(w, r) ==
    /\ r.op = "chargeSuccess"
    /\ r.reference \in charged
    /\ Deliver(w)
    /\ IF sale # NoSale /\ sale.reference = r.reference /\ sale.paymentStatus # "PAID"
         THEN Start(w, r, "verify", sale, "idle") /\ UNCHANGED <<sale, generated>>
         ELSE Decline(w)

\* handleRefund.
RefundProcessed(w, r) ==
    /\ r.op = "refundProcessed"
    /\ refunded[r.reference] > 0
    /\ Deliver(w)
    /\ IF sale # NoSale /\ sale.reference = r.reference /\ sale.paymentStatus # "REFUNDED"
         THEN Start(w, r, "save", [sale EXCEPT !.paymentStatus = "REFUNDED"], "idle")
              /\ UNCHANGED <<sale, generated>>
         ELSE Decline(w)

(***************************************************************************)
(* The steps after an await.                                               *)
(***************************************************************************)
\* Plausible bug: what Paystack answers is not looked at.
VerifyNothing(w) ==
    /\ h[w].pc = "verify"
    /\ LET row == [h[w].row EXCEPT !.paymentStatus = "PAID"]
       IN  IF h[w].req.op = "chargeSuccess"
             THEN h' = [h EXCEPT ![w] = Keep(w, "record", row, "idle")]
             ELSE Save(w, row, "idle")
    /\ UNCHANGED <<sale, payments, generated, paystack, requests, aborts>>

\* verifyPayment asks Paystack for the reference the handler holds; what
\* Paystack answers for a charge it has refunded is open.
Verify(w) ==
    /\ h[w].pc = "verify"
    /\ \/ /\ h[w].row.reference \in charged
          /\ LET row == [h[w].row EXCEPT !.paymentStatus = "PAID"]
             IN  IF h[w].req.op = "chargeSuccess"
                   THEN h' = [h EXCEPT ![w] = Keep(w, "record", row, "idle")]
                   ELSE Save(w, row, "idle")
       \/ /\ h[w].row.reference \notin charged \/ refunded[h[w].row.reference] > 0
          /\ Finish(w)
    /\ UNCHANGED <<sale, payments, generated, paystack, requests, aborts>>

\* The record a handler inserts: an attempt of the grand total, a charge of
\* the amount of the sale, or what the back office typed in.
NewPayment(w) ==
    CASE h[w].req.op = "payForOrder" ->
             [amount |-> GrandTotal(h[w].row), status |-> "PENDING", reference |-> h[w].row.reference]
      [] h[w].req.op = "chargeSuccess" ->
             [amount |-> h[w].row.amount, status |-> "CONFIRMED", reference |-> h[w].req.reference]
      [] OTHER ->
             [amount |-> h[w].req.amount, status |-> h[w].req.status, reference |-> NoReference]

Record(w) ==
    /\ h[w].pc = "record"
    /\ payments' = Append(payments, NewPayment(w))
    /\ CASE h[w].req.op = "payForOrder" -> h' = [h EXCEPT ![w].pc = "initialize"]
         [] h[w].req.op = "chargeSuccess" -> Save(w, h[w].row, "idle")
         [] OTHER -> h' = [h EXCEPT ![w].pc = "sync"]
    /\ UNCHANGED <<sale, generated, paystack, requests, aborts>>

\* Plausible bug: the sale is not looked at after a record has changed.
UpdateWithoutSync(w) ==
    /\ h[w].pc = "update"
    /\ payments' = IF h[w].req.record \in DOMAIN payments
                     THEN [payments EXCEPT ![h[w].req.record].status = h[w].req.status]
                     ELSE payments
    /\ Finish(w)
    /\ UNCHANGED <<sale, generated, paystack, requests, aborts>>

\* updatePaymentStatus finds the record, sets its status and saves it.
Update(w) ==
    /\ h[w].pc = "update"
    /\ IF h[w].req.record \in DOMAIN payments
         THEN /\ payments' = [payments EXCEPT ![h[w].req.record].status = h[w].req.status]
              /\ h' = [h EXCEPT ![w].pc = "sync"]
         ELSE Finish(w) /\ UNCHANGED payments
    /\ UNCHANGED <<sale, generated, paystack, requests, aborts>>

\* Plausible bug: the sale is saved whether or not its status changed.
SyncAlwaysSaves(w) ==
    /\ h[w].pc = "sync"
    /\ Save(w, [h[w].row EXCEPT !.paymentStatus = IF Covered(h[w].row) THEN "PAID" ELSE @], "idle")
    /\ UNCHANGED <<sale, payments, generated, paystack, requests, aborts>>

\* syncSalePaymentStatus: the records as they are now, the sale as it was read.
Sync(w) ==
    /\ h[w].pc = "sync"
    /\ IF Covered(h[w].row) /\ h[w].row.paymentStatus # "PAID"
         THEN Save(w, [h[w].row EXCEPT !.paymentStatus = "PAID"], "idle")
         ELSE Finish(w)
    /\ UNCHANGED <<sale, payments, generated, paystack, requests, aborts>>

\* initializePayment; the pages that pay then save the new status.
Initialize(w) ==
    /\ h[w].pc = "initialize"
    /\ opened' = [opened EXCEPT ![h[w].row.reference] =
                     [amount |-> GrandTotal(h[w].row), op |-> h[w].req.op]]
    /\ IF h[w].req.op = "initializeTransaction"
         THEN Finish(w)
         ELSE Save(w, [h[w].row EXCEPT !.paymentStatus = "PENDING_PAYMENT"], "idle")
    /\ UNCHANGED <<sale, payments, generated, charged, refunded, requests, aborts>>

\* Plausible bug: a refund that Paystack refuses is taken for done.
RefundRefusalIgnored(w) ==
    /\ h[w].pc = "refund"
    /\ refunded' = IF h[w].row.reference \in charged
                     THEN [refunded EXCEPT ![h[w].row.reference] = @ + 1]
                     ELSE refunded
    /\ Save(w, [h[w].row EXCEPT !.paymentStatus = "REFUNDED"], "idle")
    /\ UNCHANGED <<sale, payments, generated, opened, charged, requests, aborts>>

\* refundPayment: Paystack refuses to refund what was never charged.
Refund(w) ==
    /\ h[w].pc = "refund"
    /\ IF h[w].row.reference \in charged
         THEN /\ refunded' = [refunded EXCEPT ![h[w].row.reference] = @ + 1]
              /\ Save(w, [h[w].row EXCEPT !.paymentStatus = "REFUNDED"], "idle")
         ELSE Finish(w) /\ UNCHANGED refunded
    /\ UNCHANGED <<sale, payments, generated, opened, charged, requests, aborts>>

\* An await that throws, or the process dying: nothing is undone.
Abort(w) ==
    /\ h[w].pc # "idle"
    /\ aborts < MaxAborts
    /\ aborts' = aborts + 1
    /\ Finish(w)
    /\ UNCHANGED <<sale, payments, generated, paystack, requests>>

-----------------------------------------------------------------------------
Arrive(w) ==
    \E r \in Requests :
        \/ InitializeTransaction(w, r)
        \/ PayForOrder(w, r) \/ PayForGuestOrder(w, r) \/ ConfirmPayment(w, r)
        \/ RecordPayment(w, r) \/ UpdatePaymentStatus(w, r)
        \/ UpdateDeliveryCost(w, r) \/ AddLineItem(w, r)
        \/ ConfirmDelivery(w, r) \/ Cancel(w, r)

Notice(w) == \E r \in Webhook : ChargeSuccess(w, r) \/ RefundProcessed(w, r)

Step(w) ==
    \/ Verify(w) \/ Record(w) \/ Update(w) \/ Sync(w)
    \/ Initialize(w) \/ Refund(w)
    \/ Compare(w) \/ Write(w)

Next ==
    \/ \E w \in Workers : Arrive(w) \/ Notice(w) \/ Step(w) \/ Abort(w)
    \/ \E ref \in References : Pay(ref)

Spec == Init /\ [][Next]_vars

\* The event loop serves every handler, and Paystack repeats a charge for as
\* long as its webhook has something to do.  Customers need not pay.
FairSpec ==
    /\ Spec
    /\ \A w \in Workers : WF_vars(Step(w))
    /\ \A ref \in References :
          SF_vars(\E w \in Workers : ChargeSuccess(w, [op |-> "chargeSuccess", reference |-> ref]))
-----------------------------------------------------------------------------
(***************************************************************************)
(* Properties.                                                             *)
(***************************************************************************)
Handler == [pc : PC, req : Request \cup Webhook \cup {Resting.req}, row : SaleRow,
            diff : SUBSET Columns, then : PC]

\* The type invariant: rows, records and handlers are well formed, and nobody
\* calls Paystack about a sale that has no reference.
TypeOK ==
    /\ sale \in SaleRow \cup {NoSale}
    /\ payments \in Seq(SalePayment)
    /\ generated \subseteq References
    /\ opened \in [References -> Transaction \cup {NoTransaction}]
    /\ charged \subseteq References
    /\ refunded \in [References -> Nat]
    /\ h \in [Workers -> Handler]
    /\ requests \in Nat
    /\ aborts \in Nat
    /\ \A w \in Workers :
          h[w].pc \in {"verify", "initialize", "refund"} => h[w].row.reference \in References

Quiet == \A w \in Workers : h[w].pc = "idle"

\* A sale is paid only if Paystack took the money or the confirmed records
\* reach the grand total.  For handlers that collect money, in any
\* interleaving (verifyAndMarkPaid, confirmPayment, syncSalePaymentStatus).
PaidIsEarned ==
    (sale # NoSale /\ sale.paymentStatus = "PAID") => charged # {} \/ Covered(sale)

\* Once nobody is at work, a sale whose confirmed records reach the grand total
\* is marked paid: of two instalments that arrive together the later one sees
\* both (class comment of SalePaymentService).
CoveredIsPaid ==
    (Quiet /\ aborts = 0 /\ sale # NoSale /\ Covered(sale))
        => sale.paymentStatus \in {"PAID", "REFUNDED"}

\* Handlers that collect money never take "paid" back, although each saves the
\* whole copy of the sale it read before.
PaidStays ==
    [][(sale # NoSale /\ sale.paymentStatus = "PAID") => sale'.paymentStatus = "PAID"]_vars

\* When a customer has paid on the reference the sale has now, the sale is
\* marked paid in the end, whatever was lost on the way: Paystack repeats the
\* webhook, and verifyAndMarkPaid skips only what is paid.
ChargedIsPaid ==
    (sale # NoSale /\ sale.reference \in charged) ~> (sale # NoSale /\ sale.paymentStatus = "PAID")

\* A sale reads refunded only if Paystack accepted a refund: the status comes
\* from cancellations whose refundPayment returned and from handleRefund.
RefundedIsBacked ==
    (sale # NoSale /\ sale.paymentStatus = "REFUNDED") => \E ref \in References : refunded[ref] > 0

\* The tracking page records the attempt before it goes to Paystack: a
\* transaction it opened has a record, whatever failed in between.
AttemptOnRecord ==
    \A ref \in References :
        (opened[ref] # NoTransaction /\ opened[ref].op = "payForOrder")
            => \E i \in DOMAIN payments : payments[i].reference = ref

Confirmations(ref) ==
    {i \in DOMAIN payments : payments[i].status = "CONFIRMED" /\ payments[i].reference = ref}

\* A charge is recorded once, however often its webhook arrives, if handlers do not
\* overlap and do not fail and nothing was refunded: the test for "paid" in
\* verifyAndMarkPaid is then enough.
ChargeRecordedOnceSerially ==
    (aborts = 0 /\ \A ref \in References : refunded[ref] = 0) =>
        \A ref \in References : \A i, j \in Confirmations(ref) : i = j

\* The service fee of a sale is the fee on its products and delivery, whether
\* checkout, the tracking page or updateDeliveryCost set it.  (addLineItem
\* changes the amount and leaves the fee, and is not among these requests.)
FeeMatchesSubtotal ==
    (sale # NoSale /\ sale.serviceFee # NoFee)
        => sale.serviceFee = Fee(sale.amount + sale.deliveryFee)
=============================================================================
