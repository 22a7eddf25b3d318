------------------------- MODULE SalePaymentsProofs -------------------------
(***************************************************************************)
(* What holds of the payments of an order for any number of handlers, any  *)
(* requests, and any interleaving, loss and repetition of webhooks.        *)
(***************************************************************************)
EXTENDS SalePayments, TLAPS, SequenceTheorems, Sums

(***************************************************************************)
(* The inductive invariant: types, and what a handler's place in its code  *)
(* says of the request it serves and of the copy it holds.                 *)
(***************************************************************************)
\* Fees are amounts of money.
FeesAreAmounts == \A n \in Nat : Fee(n) \in Nat

PayOps == {"payForOrder", "payForGuestOrder", "initializeTransaction"}

\* A handler g at work.
Engaged(g) ==
    /\ g.req \in Requests \cup Webhook
    /\ g.then \in {"idle", "record", "initialize"}
    /\ g.req.op \in PayOps => g.row.reference \in References
    /\ g.pc = "record" => g.req.op \in {"payForOrder", "chargeSuccess", "recordPayment"}
    /\ g.pc = "update" => g.req.op = "updatePaymentStatus"
    /\ g.then = "record" => g.req.op = "payForOrder"
    /\ g.then = "initialize" => g.req.op \in {"payForGuestOrder", "initializeTransaction"}
    /\ g.pc = "initialize" => g.req.op \in PayOps
    /\ g.pc \in {"verify", "refund"} => g.row.reference \in References

Tables ==
    /\ sale \in SaleRow \cup {NoSale}
    /\ payments \in Seq(SalePayment)
    /\ generated \subseteq References
    /\ opened \in [References -> Transaction \cup {NoTransaction}]
    /\ charged \subseteq References
    /\ refunded \in [References -> Nat]
    /\ requests \in Nat
    /\ aborts \in Nat

Handlers ==
    /\ h \in [Workers -> Handler]
    /\ \A w \in Workers : h[w].pc # "idle" => sale # NoSale /\ Engaged(h[w])

TypeInv == Tables /\ Handlers

USE DEF PC

LEMMA TypeInvIsTypeOK == TypeInv => TypeOK
  BY DEF TypeInv, Tables, Handlers, Engaged, TypeOK, PayOps

\* One worker's handler is replaced by g, and the tables stay well formed.
LEMMA Replace ==
    ASSUME TypeInv, NEW w \in Workers, NEW g \in Handler,
           h' = [h EXCEPT ![w] = g],
           Tables',
           sale # NoSale => sale' # NoSale,
           g.pc # "idle" => sale' # NoSale /\ Engaged(g)
    PROVE  TypeInv'
<1>1. h' \in [Workers -> Handler]
  BY DEF TypeInv, Handlers
<1>2. ASSUME NEW v \in Workers, h'[v].pc # "idle"
      PROVE  sale' # NoSale /\ Engaged(h'[v])
  <2>1. CASE v = w
    BY <2>1, <1>2 DEF TypeInv, Handlers
  <2>2. CASE v # w
    BY <2>2, <1>2 DEF TypeInv, Handlers
  <2> QED BY <2>1, <2>2
<1> QED BY <1>1, <1>2 DEF TypeInv, Handlers, Engaged

LEMMA RestingTyped == Resting \in Handler /\ Resting.pc = "idle"
<1>1. EmptyRow \in SaleRow
  BY DEF EmptyRow, SaleRow, OrderStatus, PaymentStatus
<1> QED BY <1>1 DEF Resting, Handler, Columns

\* A handler that ends.
LEMMA Ends ==
    ASSUME TypeInv, NEW w \in Workers, Finish(w), Tables', sale # NoSale => sale' # NoSale
    PROVE  TypeInv'
  BY Replace, RestingTyped DEF Finish

\* A handler that starts.
LEMMA Starts ==
    ASSUME TypeInv, NEW w \in Workers,
           NEW r \in Requests \cup Webhook, NEW pc \in PC, NEW row \in SaleRow, NEW then \in PC,
           Start(w, r, pc, row, then),
           Engaged([Resting EXCEPT !.pc = pc, !.req = r, !.row = row, !.then = then]),
           Tables', sale' # NoSale
    PROVE  TypeInv'
<1> DEFINE g == [Resting EXCEPT !.pc = pc, !.req = r, !.row = row, !.then = then]
<1>1. g \in Handler
  BY RequestsAssumption, RestingTyped DEF Handler, Resting
<1> QED BY <1>1, Replace DEF Start

LEMMA GrandTotalNat == ASSUME NEW row \in SaleRow PROVE GrandTotal(row) \in Nat
  BY InitialAssumption DEF GrandTotal, OrZero, SaleRow

(***************************************************************************)
(* Requests and webhooks.                                                  *)
(***************************************************************************)
\* The handler of a request begins, or the request is turned away, and the row
\* of the sale is as it was.
LEMMA Begins ==
    ASSUME TypeInv, NEW w \in Workers, NEW r \in Requests \cup Webhook,
           NEW pc \in PC \ {"initialize", "sync", "write"}, NEW row \in SaleRow,
           NEW then \in {"idle", "record", "initialize"},
           Start(w, r, pc, row, then), UNCHANGED sale, sale # NoSale,
           UNCHANGED <<payments, opened, charged, refunded>>,
           generated' \subseteq References, requests' \in Nat, aborts' \in Nat,
           r.op \in PayOps => row.reference \in References,
           pc = "record" => r.op = "recordPayment",
           pc = "update" => r.op = "updatePaymentStatus",
           then = "record" => r.op = "payForOrder",
           then = "initialize" => r.op = "payForGuestOrder",
           pc \in {"verify", "refund"} => row.reference \in References
    PROVE  TypeInv'
<1>1. Tables'
  BY DEF TypeInv, Tables
<1>2. Engaged([Resting EXCEPT !.pc = pc, !.req = r, !.row = row, !.then = then])
  BY DEF Engaged, Resting
<1> QED BY <1>1, <1>2, Starts

LEMMA Declines ==
    ASSUME TypeInv, NEW w \in Workers, Decline(w),
           UNCHANGED <<payments, opened, charged, refunded>>,
           requests' \in Nat, aborts' \in Nat
    PROVE  TypeInv'
<1>1. Tables'
  BY DEF TypeInv, Tables, Decline
<1> QED BY <1>1, Ends DEF Decline

LEMMA ArriveTyped ==
    ASSUME FeesAreAmounts, TypeInv, NEW w \in Workers, Arrive(w)
    PROVE  TypeInv'
<1> PICK r \in Requests :
        \/ InitializeTransaction(w, r)
        \/ PayForOrder(w, r) \/ PayForGuestOrder(w, r) \/ ConfirmPayment(w, r)
        \/ RecordPayment(w, r) \/ UpdatePaymentStatus(w, r)
        \/ UpdateDeliveryCost(w, r) \/ AddLineItem(w, r)
        \/ ConfirmDelivery(w, r) \/ Cancel(w, r)
  BY DEF Arrive
<1>a. r \in Request /\ r \in Requests \cup Webhook
  BY RequestsAssumption
<1>b. r.amount \in Nat /\ r.delivery \in Nat \cup {-1}
  BY <1>a DEF Request
<1>c. requests' \in Nat /\ aborts' \in Nat
      /\ UNCHANGED <<payments, opened, charged, refunded>>
  <2>1. Receive(w)
    BY DEF InitializeTransaction, PayForOrder, PayForGuestOrder, ConfirmPayment,
           RecordPayment, UpdatePaymentStatus, UpdateDeliveryCost, AddLineItem,
           ConfirmDelivery, Cancel
  <2> QED BY <2>1 DEF TypeInv, Tables, Receive, paystack
<1>d. generated \subseteq References /\ sale \in SaleRow \cup {NoSale}
  BY DEF TypeInv, Tables
<1>1. CASE InitializeTransaction(w, r)
  <2>1. sale' \in SaleRow /\ sale' # NoSale
    <3>1. EmptyRow \in SaleRow
      BY DEF EmptyRow, SaleRow, OrderStatus, PaymentStatus
    <3>2. CASE r.delivery = -1
      <4>1. sale' = [EmptyRow EXCEPT !.paymentStatus = "AWAITING_DELIVERY",
                                     !.amount = r.amount, !.serviceFee = NoFee]
        BY <1>1, <3>2 DEF InitializeTransaction
      <4> QED BY <4>1, <3>1, <1>b, InitialAssumption DEF SaleRow, PaymentStatus
    <3>3. CASE r.delivery # -1
      <4>1. sale' = [EmptyRow EXCEPT !.paymentStatus = "PENDING_PAYMENT",
                                     !.amount = r.amount, !.deliveryFee = r.delivery,
                                     !.serviceFee = Fee(r.amount + r.delivery)]
        BY <1>1, <3>3 DEF InitializeTransaction
      <4>2. r.delivery \in Nat /\ Fee(r.amount + r.delivery) \in Nat
        BY <3>3, <1>b DEF FeesAreAmounts
      <4> QED BY <4>1, <4>2, <3>1, <1>b, InitialAssumption DEF SaleRow, PaymentStatus
    <3> QED BY <3>2, <3>3
  <2>2. PICK ref \in References :
          Generate(ref) /\ Start(w, r, "save", [sale' EXCEPT !.reference = ref], "initialize")
    BY <1>1 DEF InitializeTransaction
  <2>3. Tables'
    BY <2>1, <2>2, <1>c, <1>d DEF TypeInv, Tables, Generate
  <2>4. [sale' EXCEPT !.reference = ref] \in SaleRow
        /\ [sale' EXCEPT !.reference = ref].reference = ref
    BY <2>1 DEF SaleRow
  <2>5. Engaged([Resting EXCEPT !.pc = "save", !.req = r,
                                !.row = [sale' EXCEPT !.reference = ref], !.then = "initialize"])
    BY <1>1, <1>a, <2>4 DEF Engaged, Resting, InitializeTransaction
  <2> QED BY <2>1, <2>2, <2>3, <2>4, <2>5, <1>a, Starts
<1>2. CASE PayForOrder(w, r)
  <2>1. CASE sale # NoSale /\ MayPay(sale)
    <3> DEFINE fee == IF sale.serviceFee = NoFee THEN Fee(sale.amount + sale.deliveryFee)
                                                 ELSE sale.serviceFee
    <3>1. PICK ref \in References :
            /\ Generate(ref)
            /\ Start(w, r, "save", [sale EXCEPT !.reference = ref, !.serviceFee = fee], "record")
      BY <1>2, <2>1 DEF PayForOrder
    <3>2. fee \in Nat
      BY <1>d, <2>1 DEF SaleRow, FeesAreAmounts
    <3> HIDE DEF fee
    <3>3. [sale EXCEPT !.reference = ref, !.serviceFee = fee] \in SaleRow
          /\ [sale EXCEPT !.reference = ref, !.serviceFee = fee].reference = ref
      BY <3>2, <2>1, <1>d DEF SaleRow
    <3>4. UNCHANGED sale /\ r.op = "payForOrder"
      BY <1>2, <2>1 DEF PayForOrder
    <3> QED BY <3>1, <3>3, <3>4, <1>a, <1>c, <1>d, <2>1, Begins DEF Generate
  <2>2. CASE ~(sale # NoSale /\ MayPay(sale))
    BY <2>2, <1>2, <1>c, Declines DEF PayForOrder
  <2> QED BY <2>1, <2>2
<1>3. CASE PayForGuestOrder(w, r)
  <2>1. CASE sale # NoSale /\ MayPay(sale)
    <3>1. PICK ref \in References :
            Generate(ref) /\ Start(w, r, "save", [sale EXCEPT !.reference = ref], "initialize")
      BY <1>3, <2>1 DEF PayForGuestOrder
    <3>2. [sale EXCEPT !.reference = ref] \in SaleRow
          /\ [sale EXCEPT !.reference = ref].reference = ref
      BY <2>1, <1>d DEF SaleRow
    <3>3. UNCHANGED sale /\ r.op = "payForGuestOrder"
      BY <1>3, <2>1 DEF PayForGuestOrder
    <3> QED BY <3>1, <3>2, <3>3, <1>a, <1>c, <1>d, <2>1, Begins DEF Generate
  <2>2. CASE ~(sale # NoSale /\ MayPay(sale))
    BY <2>2, <1>3, <1>c, Declines DEF PayForGuestOrder
  <2> QED BY <2>1, <2>2
<1>4. CASE ConfirmPayment(w, r)
  <2>1. CASE sale # NoSale /\ sale.paymentStatus # "PAID" /\ sale.reference # NoReference
    <3>1. sale.reference \in References
      BY <2>1, <1>d DEF SaleRow
    <3>2. Start(w, r, "verify", sale, "idle") /\ UNCHANGED <<sale, generated>>
          /\ r.op = "confirmPayment"
      BY <1>4, <2>1 DEF ConfirmPayment
    <3> QED BY <3>1, <3>2, <1>a, <1>c, <1>d, <2>1, Begins DEF PayOps
  <2>2. CASE ~(sale # NoSale /\ sale.paymentStatus # "PAID" /\ sale.reference # NoReference)
    BY <2>2, <1>4, <1>c, Declines DEF ConfirmPayment
  <2> QED BY <2>1, <2>2
<1>5. CASE RecordPayment(w, r)
  <2>1. CASE sale # NoSale /\ r.amount > 0
    <3>1. Start(w, r, "record", sale, "idle") /\ UNCHANGED <<sale, generated>>
          /\ r.op = "recordPayment"
      BY <1>5, <2>1 DEF RecordPayment
    <3> QED BY <3>1, <1>a, <1>c, <1>d, <2>1, Begins DEF PayOps
  <2>2. CASE ~(sale # NoSale /\ r.amount > 0)
    BY <2>2, <1>5, <1>c, Declines DEF RecordPayment
  <2> QED BY <2>1, <2>2
<1>6. CASE UpdatePaymentStatus(w, r)
  <2>1. CASE sale # NoSale
    <3>1. Start(w, r, "update", sale, "idle") /\ UNCHANGED <<sale, generated>>
          /\ r.op = "updatePaymentStatus"
      BY <1>6, <2>1 DEF UpdatePaymentStatus
    <3> QED BY <3>1, <1>a, <1>c, <1>d, <2>1, Begins DEF PayOps
  <2>2. CASE ~(sale # NoSale)
    BY <2>2, <1>6, <1>c, Declines DEF UpdatePaymentStatus
  <2> QED BY <2>1, <2>2
<1>7. CASE UpdateDeliveryCost(w, r)
  <2> DEFINE ok == sale # NoSale
               /\ sale.paymentStatus \in {"INVOICE_REQUESTED", "PENDING_PAYMENT", "AWAITING_DELIVERY"}
             row == [sale EXCEPT
                       !.deliveryFee = r.amount,
                       !.serviceFee = Fee(sale.amount + r.amount),
                       !.paymentStatus = IF @ = "AWAITING_DELIVERY" THEN "PENDING_PAYMENT" ELSE @]
  <2>1. CASE ok
    <3>1. Start(w, r, "save", row, "idle") /\ UNCHANGED <<sale, generated>>
          /\ r.op = "updateDeliveryCost"
      BY <1>7, <2>1 DEF UpdateDeliveryCost
    <3>2. row \in SaleRow
      <4>1. Fee(sale.amount + r.amount) \in Nat
        BY <1>b, <1>d, <2>1 DEF SaleRow, FeesAreAmounts
      <4> QED BY <4>1, <1>b, <1>d, <2>1 DEF SaleRow, PaymentStatus
    <3> HIDE DEF row
    <3> QED BY <3>1, <3>2, <1>a, <1>c, <1>d, <2>1, Begins DEF PayOps
  <2>2. CASE ~ok
    BY <2>2, <1>7, <1>c, Declines DEF UpdateDeliveryCost
  <2> QED BY <2>1, <2>2
<1>8. CASE AddLineItem(w, r)
  <2>1. CASE sale # NoSale /\ sale.paymentStatus # "PAID"
    <3>1. Start(w, r, "save", [sale EXCEPT !.amount = @ + r.amount], "idle")
          /\ UNCHANGED <<sale, generated>> /\ r.op = "addLineItem"
      BY <1>8, <2>1 DEF AddLineItem
    <3>2. [sale EXCEPT !.amount = @ + r.amount] \in SaleRow
      BY <1>b, <1>d, <2>1 DEF SaleRow
    <3> QED BY <3>1, <3>2, <1>a, <1>c, <1>d, <2>1, Begins DEF PayOps
  <2>2. CASE ~(sale # NoSale /\ sale.paymentStatus # "PAID")
    BY <2>2, <1>8, <1>c, Declines DEF AddLineItem
  <2> QED BY <2>1, <2>2
<1>9. CASE ConfirmDelivery(w, r)
  <2>1. CASE sale # NoSale
    <3>1. Start(w, r, "save", sale, "idle") /\ UNCHANGED <<sale, generated>>
          /\ r.op = "confirmDelivery"
      BY <1>9, <2>1 DEF ConfirmDelivery
    <3> QED BY <3>1, <1>a, <1>c, <1>d, <2>1, Begins DEF PayOps
  <2>2. CASE ~(sale # NoSale)
    BY <2>2, <1>9, <1>c, Declines DEF ConfirmDelivery
  <2> QED BY <2>1, <2>2
<1>10. CASE Cancel(w, r)
  <2> DEFINE row == [sale EXCEPT !.orderStatus = "CANCELLED"]
             pc == IF sale.paymentStatus = "PAID" /\ sale.reference # NoReference
                     THEN "refund" ELSE "save"
  <2>1. CASE sale # NoSale /\ MayCancel(sale, r.op)
    <3>1. Start(w, r, pc, row, "idle") /\ UNCHANGED <<sale, generated>>
          /\ r.op \in {"cancelSaleByCustomer", "cancelSaleByAdmin"}
      BY <1>10, <2>1 DEF Cancel
    <3>2. row \in SaleRow /\ (pc = "refund" => row.reference \in References)
      BY <1>d, <2>1 DEF SaleRow, OrderStatus
    <3>3. pc \in {"refund", "save"}
      OBVIOUS
    <3> HIDE DEF row, pc
    <3> QED BY <3>1, <3>2, <3>3, <1>a, <1>c, <1>d, <2>1, Begins DEF PayOps
  <2>2. CASE ~(sale # NoSale /\ MayCancel(sale, r.op))
    BY <2>2, <1>10, <1>c, Declines DEF Cancel
  <2> QED BY <2>1, <2>2
<1> QED BY <1>1, <1>2, <1>3, <1>4, <1>5, <1>6, <1>7, <1>8, <1>9, <1>10

LEMMA NoticeTyped ==
    ASSUME TypeInv, NEW w \in Workers, Notice(w)
    PROVE  TypeInv'
<1> PICK r \in Webhook : ChargeSuccess(w, r) \/ RefundProcessed(w, r)
  BY DEF Notice
<1>a. r.op \in {"chargeSuccess", "refundProcessed"} /\ r.reference \in References
  BY DEF Webhook
<1>b. requests' \in Nat /\ aborts' \in Nat
      /\ UNCHANGED <<payments, opened, charged, refunded>>
  <2>1. Deliver(w)
    BY DEF ChargeSuccess, RefundProcessed
  <2> QED BY <2>1 DEF TypeInv, Tables, Deliver, paystack
<1>c. generated \subseteq References /\ sale \in SaleRow \cup {NoSale}
  BY DEF TypeInv, Tables
<1>1. CASE ChargeSuccess(w, r)
  <2> DEFINE ok == sale # NoSale /\ sale.reference = r.reference /\ sale.paymentStatus # "PAID"
  <2>1. CASE ok
    <3>1. Start(w, r, "verify", sale, "idle") /\ UNCHANGED <<sale, generated>>
      BY <1>1, <2>1 DEF ChargeSuccess
    <3> QED BY <3>1, <1>a, <1>b, <1>c, <2>1, Begins DEF PayOps
  <2>2. CASE ~ok
    BY <2>2, <1>1, <1>b, Declines DEF ChargeSuccess
  <2> QED BY <2>1, <2>2
<1>2. CASE RefundProcessed(w, r)
  <2> DEFINE ok == sale # NoSale /\ sale.reference = r.reference /\ sale.paymentStatus # "REFUNDED"
             row == [sale EXCEPT !.paymentStatus = "REFUNDED"]
  <2>1. CASE ok
    <3>1. Start(w, r, "save", row, "idle") /\ UNCHANGED <<sale, generated>>
      BY <1>2, <2>1 DEF RefundProcessed
    <3>2. row \in SaleRow
      BY <1>c, <2>1 DEF SaleRow, PaymentStatus
    <3> HIDE DEF row
    <3> QED BY <3>1, <3>2, <1>a, <1>b, <1>c, <2>1, Begins DEF PayOps
  <2>2. CASE ~ok
    BY <2>2, <1>2, <1>b, Declines DEF RefundProcessed
  <2> QED BY <2>1, <2>2
<1> QED BY <1>1, <1>2

(***************************************************************************)
(* The steps after an await.                                               *)
(***************************************************************************)
LEMMA AtWork ==
    ASSUME TypeInv, NEW w \in Workers, h[w].pc # "idle"
    PROVE  /\ h[w] \in Handler /\ Engaged(h[w])
           /\ sale \in SaleRow /\ sale # NoSale
           /\ h[w].row \in SaleRow
           /\ h[w].req \in Requests \cup Webhook
  BY DEF TypeInv, Tables, Handlers, Handler, Engaged

\* A handler that goes on to save its copy.
LEMMA Saves ==
    ASSUME TypeInv, NEW w \in Workers, h[w].pc # "idle", Tables', sale' # NoSale,
           NEW row \in SaleRow, Save(w, row, "idle"), row.reference = h[w].row.reference
    PROVE  TypeInv'
<1> DEFINE g == Keep(w, "save", row, "idle")
<1>1. g = [h[w] EXCEPT !.pc = "save", !.row = row, !.then = "idle"]
  BY DEF Keep
<1> HIDE DEF g
<1>2. h[w] \in Handler /\ Engaged(h[w])
  BY AtWork
<1>3. g \in Handler
  BY <1>1, <1>2 DEF Handler
<1>4. Engaged(g)
  BY <1>1, <1>2 DEF Engaged, Handler
<1> QED BY <1>3, <1>4, Replace DEF Save, g

\* A handler that moves on with the copy it has.
LEMMA Moves ==
    ASSUME TypeInv, NEW w \in Workers, h[w].pc # "idle", Tables', sale' # NoSale,
           NEW pc \in PC, NEW diff \in SUBSET Columns,
           h' = [h EXCEPT ![w] = [@ EXCEPT !.pc = pc, !.diff = diff]],
           pc = "record" => h[w].req.op \in {"payForOrder", "chargeSuccess", "recordPayment"},
           pc = "initialize" => h[w].req.op \in PayOps,
           pc \notin {"update", "verify", "refund"}
    PROVE  TypeInv'
<1> DEFINE g == [h[w] EXCEPT !.pc = pc, !.diff = diff]
<1>1. h[w] \in Handler /\ Engaged(h[w])
  BY AtWork
<1>2. g \in Handler
  BY <1>1 DEF Handler
<1>3. Engaged(g)
  BY <1>1 DEF Engaged, Handler
<1>4. h' = [h EXCEPT ![w] = g]
  OBVIOUS
<1> HIDE DEF g
<1> QED BY <1>2, <1>3, <1>4, Replace

LEMMA CompareTyped == ASSUME TypeInv, NEW w \in Workers, Compare(w) PROVE TypeInv'
<1> DEFINE diff == {c \in Columns : h[w].row[c] # sale[c]}
<1>1. h[w].pc # "idle" /\ sale # NoSale
  BY AtWork DEF Compare
<1>2. Tables' /\ sale' # NoSale
  BY <1>1 DEF TypeInv, Tables, Compare, paystack
<1>3. h' = [h EXCEPT ![w] = [@ EXCEPT !.pc = "write", !.diff = diff]]
  BY DEF Compare
<1>4. diff \in SUBSET Columns
  OBVIOUS
<1> HIDE DEF diff
<1> QED BY <1>1, <1>2, <1>3, <1>4, Moves

LEMMA WriteTyped == ASSUME TypeInv, NEW w \in Workers, Write(w) PROVE TypeInv'
<1>1. h[w].pc # "idle" /\ sale \in SaleRow /\ h[w].row \in SaleRow /\ Engaged(h[w])
  BY AtWork DEF Write
<1>2. sale' \in SaleRow
  BY <1>1 DEF Write, Column, SaleRow
<1>3. Tables' /\ sale' # NoSale
  BY <1>2, InitialAssumption DEF TypeInv, Tables, Write, paystack
<1>4. CASE h[w].then = "idle"
  BY <1>3, <1>4, Ends DEF Write
<1>5. CASE h[w].then # "idle"
  <2>0. {} \in SUBSET Columns
    OBVIOUS
  <2>1. h[w].then \in {"record", "initialize"}
        /\ (h[w].then = "record" => h[w].req.op = "payForOrder")
        /\ (h[w].then = "initialize" => h[w].req.op \in PayOps)
    BY <1>1, <1>5 DEF Engaged, PayOps
  <2>2. h' = [h EXCEPT ![w] = [@ EXCEPT !.pc = h[w].then, !.diff = {}]]
    BY <1>5 DEF Write
  <2>3. CASE h[w].then = "record"
    <3>1. h' = [h EXCEPT ![w] = [@ EXCEPT !.pc = "record", !.diff = {}]]
      BY <2>2, <2>3
    <3>2. h[w].req.op \in {"payForOrder", "chargeSuccess", "recordPayment"}
      BY <2>1, <2>3
    <3> QED BY <1>1, <1>3, <2>0, <3>1, <3>2, Moves
  <2>4. CASE h[w].then = "initialize"
    <3>1. h' = [h EXCEPT ![w] = [@ EXCEPT !.pc = "initialize", !.diff = {}]]
      BY <2>2, <2>4
    <3>2. h[w].req.op \in PayOps
      BY <2>1, <2>4
    <3> QED BY <1>1, <1>3, <2>0, <3>1, <3>2, Moves
  <2> QED BY <2>1, <2>3, <2>4
<1> QED BY <1>4, <1>5

LEMMA VerifyTyped == ASSUME TypeInv, NEW w \in Workers, Verify(w) PROVE TypeInv'
<1>1. h[w].pc # "idle" /\ h[w].row \in SaleRow /\ Engaged(h[w]) /\ h[w] \in Handler
      /\ sale # NoSale
  BY AtWork DEF Verify
<1>2. Tables' /\ sale' # NoSale
  BY <1>1 DEF TypeInv, Tables, Verify, paystack
<1> DEFINE row == [h[w].row EXCEPT !.paymentStatus = "PAID"]
<1>3. row \in SaleRow /\ row.reference = h[w].row.reference
  BY <1>1 DEF SaleRow, PaymentStatus
<1>4. CASE h' = [h EXCEPT ![w] = Keep(w, "record", row, "idle")] /\ h[w].req.op = "chargeSuccess"
  <2> DEFINE g == [h[w] EXCEPT !.pc = "record", !.row = row, !.then = "idle"]
  <2>1. h' = [h EXCEPT ![w] = g]
    BY <1>4 DEF Keep
  <2>2. g \in Handler /\ Engaged(g)
    <3> HIDE DEF row
    <3>1. g \in Handler
      BY <1>1, <1>3 DEF Handler
    <3>2. Engaged(g)
      BY <1>1, <1>3, <1>4 DEF Handler, Engaged
    <3> QED BY <3>1, <3>2
  <2> HIDE DEF g
  <2> QED BY <2>1, <2>2, <1>2, Replace
<1>5. CASE Save(w, row, "idle")
  <2> HIDE DEF row
  <2> QED BY <1>1, <1>2, <1>3, <1>5, Saves
<1>6. CASE Finish(w)
  BY <1>2, <1>6, Ends
<1>7. Finish(w) \/ Save(w, row, "idle")
      \/ (h' = [h EXCEPT ![w] = Keep(w, "record", row, "idle")] /\ h[w].req.op = "chargeSuccess")
  BY DEF Verify
<1> QED BY <1>4, <1>5, <1>6, <1>7

LEMMA RecordTyped == ASSUME TypeInv, NEW w \in Workers, Record(w) PROVE TypeInv'
<1>1. h[w].pc # "idle" /\ h[w].row \in SaleRow /\ Engaged(h[w]) /\ h[w] \in Handler
      /\ sale # NoSale
  BY AtWork DEF Record
<1>2. h[w].req.op \in {"payForOrder", "chargeSuccess", "recordPayment"}
  BY <1>1 DEF Record, Engaged
<1>3. NewPayment(w) \in SalePayment
  <2>1. CASE h[w].req.op = "payForOrder"
    BY <2>1, <1>1, GrandTotalNat
       DEF NewPayment, SalePayment, RecordStatus, Engaged, PayOps
  <2>2. CASE h[w].req.op = "chargeSuccess"
    <3>1. h[w].req \in Webhook
      BY <2>2, <1>1, RequestsAssumption DEF Engaged, Request
    <3> QED BY <2>2, <3>1, <1>1 DEF NewPayment, SalePayment, RecordStatus, Webhook, SaleRow
  <2>3. CASE h[w].req.op = "recordPayment"
    <3>1. h[w].req \in Request
      BY <2>3, <1>1, RequestsAssumption DEF Engaged, Webhook
    <3> QED BY <2>3, <3>1 DEF NewPayment, SalePayment, Request
  <2> QED BY <1>2, <2>1, <2>2, <2>3
<1>4. Tables' /\ sale' # NoSale
  BY <1>1, <1>3 DEF TypeInv, Tables, Record, paystack
<1>5. CASE h[w].req.op = "payForOrder"
  <2>1. h' = [h EXCEPT ![w] = [@ EXCEPT !.pc = "initialize", !.diff = h[w].diff]]
    BY <1>1, <1>5 DEF Record, TypeInv, Handlers, Handler
  <2>2. h[w].diff \in SUBSET Columns
    BY <1>1 DEF Handler
  <2> QED BY <1>1, <1>4, <1>5, <2>1, <2>2, Moves DEF PayOps
<1>6. CASE h[w].req.op = "chargeSuccess"
  BY <1>1, <1>4, <1>6, Saves DEF Record
<1>7. CASE h[w].req.op = "recordPayment"
  <2>1. h' = [h EXCEPT ![w] = [@ EXCEPT !.pc = "sync", !.diff = h[w].diff]]
    BY <1>1, <1>7 DEF Record, TypeInv, Handlers, Handler
  <2>2. h[w].diff \in SUBSET Columns
    BY <1>1 DEF Handler
  <2> QED BY <1>1, <1>4, <2>1, <2>2, Moves
<1> QED BY <1>2, <1>5, <1>6, <1>7

LEMMA UpdateTyped == ASSUME TypeInv, NEW w \in Workers, Update(w) PROVE TypeInv'
<1>1. h[w].pc # "idle" /\ Engaged(h[w]) /\ h[w] \in Handler /\ sale # NoSale
  BY AtWork DEF Update
<1>2. h[w].req \in Request
  BY <1>1, RequestsAssumption DEF Engaged, Update, Webhook
<1>3. payments' \in Seq(SalePayment)
  <2>1. CASE h[w].req.record \in DOMAIN payments
    <3> DEFINE i == h[w].req.record
               p == [payments[i] EXCEPT !.status = h[w].req.status]
    <3>1. payments \in Seq(SalePayment) /\ i \in 1 .. Len(payments)
      BY <2>1 DEF TypeInv, Tables
    <3>2. p \in SalePayment
      <4>1. payments[i] \in SalePayment
        BY <3>1, ElementOfSeq
      <4>2. h[w].req.status \in RecordStatus
        BY <1>2 DEF Request
      <4> HIDE DEF i
      <4> QED BY <4>1, <4>2 DEF SalePayment
    <3>3. payments' = [payments EXCEPT ![i] = p]
      BY <2>1 DEF Update
    <3> HIDE DEF p, i
    <3> QED BY <3>1, <3>2, <3>3, ExceptSeq
  <2>2. CASE h[w].req.record \notin DOMAIN payments
    BY <2>2 DEF Update, TypeInv, Tables
  <2> QED BY <2>1, <2>2
<1>4. Tables' /\ sale' # NoSale
  BY <1>1, <1>3 DEF TypeInv, Tables, Update, paystack
<1>5. CASE Finish(w)
  BY <1>4, <1>5, Ends
<1>6. CASE h' = [h EXCEPT ![w].pc = "sync"]
  <2>1. h' = [h EXCEPT ![w] = [@ EXCEPT !.pc = "sync", !.diff = h[w].diff]]
    BY <1>1, <1>6 DEF TypeInv, Handlers, Handler
  <2>2. h[w].diff \in SUBSET Columns
    BY <1>1 DEF Handler
  <2> QED BY <1>1, <1>4, <2>1, <2>2, Moves
<1> QED BY <1>5, <1>6 DEF Update

LEMMA SyncTyped == ASSUME TypeInv, NEW w \in Workers, Sync(w) PROVE TypeInv'
<1>1. h[w].pc # "idle" /\ h[w].row \in SaleRow /\ sale # NoSale
  BY AtWork DEF Sync
<1>2. Tables' /\ sale' # NoSale
  BY <1>1 DEF TypeInv, Tables, Sync, paystack
<1> DEFINE row == [h[w].row EXCEPT !.paymentStatus = "PAID"]
<1>3. row \in SaleRow /\ row.reference = h[w].row.reference
  BY <1>1 DEF SaleRow, PaymentStatus
<1>4. Finish(w) \/ Save(w, row, "idle")
  BY DEF Sync
<1> HIDE DEF row
<1> QED BY <1>1, <1>2, <1>3, <1>4, Saves, Ends

LEMMA InitializeTyped == ASSUME TypeInv, NEW w \in Workers, Initialize(w) PROVE TypeInv'
<1>1. h[w].pc # "idle" /\ h[w].row \in SaleRow /\ Engaged(h[w]) /\ sale # NoSale
  BY AtWork DEF Initialize
<1>2. h[w].req.op \in PayOps /\ h[w].row.reference \in References
  BY <1>1 DEF Engaged, Initialize
<1>3. [amount |-> GrandTotal(h[w].row), op |-> h[w].req.op] \in Transaction
  BY <1>1, <1>2, GrandTotalNat DEF Transaction, PayOps
<1>4. Tables' /\ sale' # NoSale
  BY <1>1, <1>2, <1>3 DEF TypeInv, Tables, Initialize
<1> DEFINE row == [h[w].row EXCEPT !.paymentStatus = "PENDING_PAYMENT"]
<1>5. row \in SaleRow /\ row.reference = h[w].row.reference
  BY <1>1 DEF SaleRow, PaymentStatus
<1>6. Finish(w) \/ Save(w, row, "idle")
  BY DEF Initialize
<1> HIDE DEF row
<1> QED BY <1>1, <1>4, <1>5, <1>6, Saves, Ends

LEMMA RefundTyped == ASSUME TypeInv, NEW w \in Workers, Refund(w) PROVE TypeInv'
<1>1. h[w].pc # "idle" /\ h[w].row \in SaleRow /\ Engaged(h[w]) /\ sale # NoSale
  BY AtWork DEF Refund
<1>2. h[w].row.reference \in References
  BY <1>1 DEF Engaged, Refund
<1>3. Tables' /\ sale' # NoSale
  <2>1. refunded \in [References -> Nat]
    BY DEF TypeInv, Tables
  <2>2. refunded' = refunded \/ refunded' = [refunded EXCEPT ![h[w].row.reference] = @ + 1]
    BY DEF Refund
  <2>3. refunded' \in [References -> Nat]
    BY <2>1, <2>2, <1>2
  <2>4. UNCHANGED <<sale, payments, generated, opened, charged, requests, aborts>>
    BY DEF Refund
  <2> QED BY <2>3, <2>4, <1>1 DEF TypeInv, Tables
<1> DEFINE row == [h[w].row EXCEPT !.paymentStatus = "REFUNDED"]
<1>4. row \in SaleRow /\ row.reference = h[w].row.reference
  BY <1>1 DEF SaleRow, PaymentStatus
<1>5. Finish(w) \/ Save(w, row, "idle")
  BY DEF Refund
<1> HIDE DEF row
<1> QED BY <1>1, <1>3, <1>4, <1>5, Saves, Ends

LEMMA AbortTyped == ASSUME TypeInv, NEW w \in Workers, Abort(w) PROVE TypeInv'
<1>1. Tables' /\ sale' = sale
  BY DEF TypeInv, Tables, Abort, paystack
<1> QED BY <1>1, Ends DEF Abort

LEMMA PayTyped == ASSUME TypeInv, NEW ref \in References, Pay(ref) PROVE TypeInv'
  BY DEF TypeInv, Tables, Handlers, Engaged, Pay

LEMMA TypeInvPreserved == ASSUME FeesAreAmounts, TypeInv, [Next]_vars PROVE TypeInv'
<1>1. CASE UNCHANGED vars
  BY <1>1 DEF vars, TypeInv, Tables, Handlers, Engaged
<1>2. ASSUME NEW w \in Workers, Arrive(w) PROVE TypeInv'
  BY <1>2, ArriveTyped
<1>3. ASSUME NEW w \in Workers, Notice(w) PROVE TypeInv'
  BY <1>3, NoticeTyped
<1>4. ASSUME NEW w \in Workers, Step(w) PROVE TypeInv'
  BY <1>4, VerifyTyped, RecordTyped, UpdateTyped, SyncTyped, InitializeTyped, RefundTyped,
     CompareTyped, WriteTyped DEF Step
<1>5. ASSUME NEW w \in Workers, Abort(w) PROVE TypeInv'
  BY <1>5, AbortTyped
<1>6. ASSUME NEW ref \in References, Pay(ref) PROVE TypeInv'
  BY <1>6, PayTyped
<1> QED BY <1>1, <1>2, <1>3, <1>4, <1>5, <1>6 DEF Next

LEMMA TypeInvInit == ASSUME Init PROVE TypeInv
<1>1. sale \in SaleRow \cup {NoSale}
  BY InitialAssumption DEF Init
<1>2. generated \subseteq References
  BY <1>1 DEF Init, SaleRow
<1>3. opened \in [References -> Transaction \cup {NoTransaction}]
  <2>1. CASE sale = NoSale
    BY <2>1 DEF Init
  <2>2. CASE sale \in SaleRow
    <3>1. GrandTotal(sale) \in Nat
      BY <2>2, GrandTotalNat
    <3> QED BY <3>1 DEF Init, Transaction
  <2> QED BY <1>1, <2>1, <2>2
<1>4. Handlers
  BY RestingTyped DEF Init, Handlers
<1> QED BY <1>1, <1>2, <1>3, <1>4 DEF Init, TypeInv, Tables

\* Every reachable state of the payments of an order is well formed, and a
\* handler that calls Paystack holds a payment reference.
THEOREM TypeCorrect ==
    ASSUME FeesAreAmounts
    PROVE  Spec => []TypeOK
<1>1. Init => TypeInv
  BY TypeInvInit
<1>2. TypeInv /\ [Next]_vars => TypeInv'
  BY TypeInvPreserved
<1>3. TypeInv => TypeOK
  BY TypeInvIsTypeOK
<1> QED BY <1>1, <1>2, <1>3, PTL DEF Spec

(***************************************************************************)
(* Refunds.  The invariant has two phases: as long as Paystack accepted no *)
(* refund, neither the row nor the copy of any handler reads "refunded";   *)
(* once it accepted one, that stays so.  A save may bring back any status  *)
(* that some handler still holds, so the copies must be part of it.        *)
(***************************************************************************)
Backed == \E ref \in References : refunded[ref] > 0

Unrefunded ==
    /\ sale # NoSale => sale.paymentStatus # "REFUNDED"
    /\ \A w \in Workers : h[w].pc # "idle" => h[w].row.paymentStatus # "REFUNDED"

LEMMA UnrefundedReplace ==
    ASSUME TypeInv, Unrefunded, NEW w \in Workers, NEW g,
           h' = [h EXCEPT ![w] = g],
           g.pc # "idle" => g.row.paymentStatus # "REFUNDED",
           sale' # NoSale => sale'.paymentStatus # "REFUNDED"
    PROVE  Unrefunded'
<1>1. h \in [Workers -> Handler]
  BY DEF TypeInv, Handlers
<1>2. h'[w] = g /\ \A v \in Workers \ {w} : h'[v] = h[v]
  BY <1>1
<1> QED BY <1>2 DEF Unrefunded

LEMMA UnrefundedStart ==
    ASSUME TypeInv, Unrefunded, NEW w \in Workers, NEW r, NEW pc, NEW row, NEW then,
           Start(w, r, pc, row, then), row.paymentStatus # "REFUNDED",
           sale' # NoSale => sale'.paymentStatus # "REFUNDED"
    PROVE  Unrefunded'
<1>1. [Resting EXCEPT !.pc = pc, !.req = r, !.row = row, !.then = then].row = row
  BY DEF Resting
<1> QED BY <1>1, UnrefundedReplace DEF Start

LEMMA UnrefundedFinish ==
    ASSUME TypeInv, Unrefunded, NEW w \in Workers, Finish(w),
           sale' # NoSale => sale'.paymentStatus # "REFUNDED"
    PROVE  Unrefunded'
  BY UnrefundedReplace, RestingTyped DEF Finish

LEMMA UnrefundedSave ==
    ASSUME TypeInv, Unrefunded, NEW w \in Workers, NEW pc, NEW row, NEW then,
           h' = [h EXCEPT ![w] = Keep(w, pc, row, then)], row.paymentStatus # "REFUNDED",
           sale' # NoSale => sale'.paymentStatus # "REFUNDED"
    PROVE  Unrefunded'
<1>1. Keep(w, pc, row, then).row = row
  BY DEF Keep, TypeInv, Handlers, Handler
<1> QED BY <1>1, UnrefundedReplace

LEMMA UnrefundedArrive ==
    ASSUME TypeInv, Unrefunded, NEW w \in Workers, Arrive(w)
    PROVE  Unrefunded'
<1> PICK r \in Requests :
        \/ InitializeTransaction(w, r)
        \/ PayForOrder(w, r) \/ PayForGuestOrder(w, r) \/ ConfirmPayment(w, r)
        \/ RecordPayment(w, r) \/ UpdatePaymentStatus(w, r)
        \/ UpdateDeliveryCost(w, r) \/ AddLineItem(w, r)
        \/ ConfirmDelivery(w, r) \/ Cancel(w, r)
  BY DEF Arrive
<1>a. sale # NoSale => sale \in SaleRow /\ sale.paymentStatus # "REFUNDED"
  BY DEF TypeInv, Tables, Unrefunded
<1>1. CASE InitializeTransaction(w, r)
  <2>1. sale' \in [DOMAIN EmptyRow -> UNION {{sale'[x] : x \in DOMAIN EmptyRow}}]
        /\ sale'.paymentStatus # "REFUNDED"
    BY <1>1 DEF InitializeTransaction, EmptyRow
  <2>2. PICK ref \in References :
          Start(w, r, "save", [sale' EXCEPT !.reference = ref], "initialize")
    BY <1>1 DEF InitializeTransaction
  <2>3. [sale' EXCEPT !.reference = ref].paymentStatus # "REFUNDED"
    BY <2>1
  <2> QED BY <2>1, <2>2, <2>3, UnrefundedStart
<1>2. CASE PayForOrder(w, r)
  <2>1. CASE Decline(w)
    BY <2>1, <1>a, UnrefundedFinish DEF Decline
  <2>2. CASE sale # NoSale /\ UNCHANGED sale /\ \E ref \in References, fee \in {sale.serviceFee, Fee(sale.amount + sale.deliveryFee)} :
               Start(w, r, "save", [sale EXCEPT !.reference = ref, !.serviceFee = fee], "record")
    <3> PICK ref \in References, fee \in {sale.serviceFee, Fee(sale.amount + sale.deliveryFee)} :
               Start(w, r, "save", [sale EXCEPT !.reference = ref, !.serviceFee = fee], "record")
      BY <2>2
    <3>1. [sale EXCEPT !.reference = ref, !.serviceFee = fee].paymentStatus # "REFUNDED"
      BY <2>2, <1>a DEF SaleRow
    <3> QED BY <3>1, <2>2, <1>a, UnrefundedStart
  <2> QED BY <1>2, <2>1, <2>2 DEF PayForOrder
<1>3. CASE PayForGuestOrder(w, r)
  <2>1. CASE Decline(w)
    BY <2>1, <1>a, UnrefundedFinish DEF Decline
  <2>2. CASE sale # NoSale /\ UNCHANGED sale /\ \E ref \in References :
               Start(w, r, "save", [sale EXCEPT !.reference = ref], "initialize")
    <3> PICK ref \in References :
               Start(w, r, "save", [sale EXCEPT !.reference = ref], "initialize")
      BY <2>2
    <3>1. [sale EXCEPT !.reference = ref].paymentStatus # "REFUNDED"
      BY <2>2, <1>a DEF SaleRow
    <3> QED BY <3>1, <2>2, <1>a, UnrefundedStart
  <2> QED BY <1>3, <2>1, <2>2 DEF PayForGuestOrder
<1>4. CASE ConfirmPayment(w, r)
  BY <1>4, <1>a, UnrefundedStart, UnrefundedFinish DEF ConfirmPayment, Decline
<1>5. CASE RecordPayment(w, r)
  BY <1>5, <1>a, UnrefundedStart, UnrefundedFinish DEF RecordPayment, Decline
<1>6. CASE UpdatePaymentStatus(w, r)
  BY <1>6, <1>a, UnrefundedStart, UnrefundedFinish DEF UpdatePaymentStatus, Decline
<1>7. CASE UpdateDeliveryCost(w, r)
  <2> DEFINE row == [sale EXCEPT
                       !.deliveryFee = r.amount,
                       !.serviceFee = Fee(sale.amount + r.amount),
                       !.paymentStatus = IF @ = "AWAITING_DELIVERY" THEN "PENDING_PAYMENT" ELSE @]
  <2>1. sale # NoSale => row.paymentStatus # "REFUNDED"
    BY <1>a DEF SaleRow
  <2>2. Decline(w) \/ (sale # NoSale /\ UNCHANGED sale /\ Start(w, r, "save", row, "idle"))
    BY <1>7 DEF UpdateDeliveryCost
  <2> HIDE DEF row
  <2> QED BY <2>1, <2>2, <1>a, UnrefundedStart, UnrefundedFinish DEF Decline
<1>8. CASE AddLineItem(w, r)
  <2> DEFINE row == [sale EXCEPT !.amount = @ + r.amount]
  <2>1. sale # NoSale => row.paymentStatus # "REFUNDED"
    BY <1>a DEF SaleRow
  <2>2. Decline(w) \/ (sale # NoSale /\ UNCHANGED sale /\ Start(w, r, "save", row, "idle"))
    BY <1>8 DEF AddLineItem
  <2> HIDE DEF row
  <2> QED BY <2>1, <2>2, <1>a, UnrefundedStart, UnrefundedFinish DEF Decline
<1>9. CASE ConfirmDelivery(w, r)
  BY <1>9, <1>a, UnrefundedStart, UnrefundedFinish DEF ConfirmDelivery, Decline
<1>10. CASE Cancel(w, r)
  <2> DEFINE row == [sale EXCEPT !.orderStatus = "CANCELLED"]
             pc == IF sale.paymentStatus = "PAID" /\ sale.reference # NoReference
                     THEN "refund" ELSE "save"
  <2>1. sale # NoSale => row.paymentStatus # "REFUNDED"
    BY <1>a DEF SaleRow
  <2>2. Decline(w) \/ (sale # NoSale /\ UNCHANGED sale /\ Start(w, r, pc, row, "idle"))
    BY <1>10 DEF Cancel
  <2> HIDE DEF row, pc
  <2> QED BY <2>1, <2>2, <1>a, UnrefundedStart, UnrefundedFinish DEF Decline
<1> QED BY <1>1, <1>2, <1>3, <1>4, <1>5, <1>6, <1>7, <1>8, <1>9, <1>10

LEMMA UnrefundedNotice ==
    ASSUME TypeInv, Unrefunded, ~Backed, NEW w \in Workers, Notice(w)
    PROVE  Unrefunded'
<1> PICK r \in Webhook : ChargeSuccess(w, r) \/ RefundProcessed(w, r)
  BY DEF Notice
<1>1. ~RefundProcessed(w, r)
  BY DEF RefundProcessed, Backed, Webhook
<1>2. sale # NoSale => sale.paymentStatus # "REFUNDED"
  BY DEF Unrefunded
<1> QED BY <1>1, <1>2, UnrefundedStart, UnrefundedFinish DEF ChargeSuccess, Decline

LEMMA UnrefundedStep ==
    ASSUME TypeInv, Unrefunded, NEW w \in Workers, Step(w)
    PROVE  Backed' \/ Unrefunded'
<1>a. h[w].pc # "idle"
  BY DEF Step, Verify, Record, Update, Sync, Initialize, Refund, Compare, Write
<1>b. sale.paymentStatus # "REFUNDED" /\ h[w].row.paymentStatus # "REFUNDED"
      /\ sale \in SaleRow /\ h[w].row \in SaleRow /\ h[w] \in Handler /\ h[w].pc # "idle"
  BY <1>a, AtWork DEF Unrefunded
<1>c. [h[w].row EXCEPT !.paymentStatus = "PAID"].paymentStatus # "REFUNDED"
      /\ [h[w].row EXCEPT !.paymentStatus = "PENDING_PAYMENT"].paymentStatus # "REFUNDED"
  BY <1>b DEF SaleRow
<1>1. CASE Verify(w)
  BY <1>1, <1>b, <1>c, UnrefundedSave, UnrefundedFinish DEF Verify, Save
<1>2. CASE Record(w)
  <2>1. UNCHANGED sale /\ \/ Save(w, h[w].row, "idle")
                          \/ \E pc \in {"initialize", "sync"} : h' = [h EXCEPT ![w].pc = pc]
    BY <1>2 DEF Record
  <2>2. CASE Save(w, h[w].row, "idle")
    BY <2>1, <2>2, <1>b, UnrefundedSave DEF Save
  <2>3. ASSUME NEW pc \in {"initialize", "sync"}, h' = [h EXCEPT ![w] = [h[w] EXCEPT !.pc = pc]]
        PROVE  Unrefunded'
    <3>1. [h[w] EXCEPT !.pc = pc].row = h[w].row
      BY <1>b DEF Handler
    <3> QED BY <2>1, <2>3, <3>1, <1>b, UnrefundedReplace
  <2> QED BY <2>1, <2>2, <2>3
<1>3. CASE Update(w)
  <2>1. UNCHANGED sale /\ (Finish(w) \/ h' = [h EXCEPT ![w].pc = "sync"])
    BY <1>3 DEF Update
  <2>2. [h[w] EXCEPT !.pc = "sync"].row = h[w].row
    BY <1>b DEF Handler
  <2> QED BY <2>1, <2>2, <1>b, UnrefundedFinish, UnrefundedReplace
<1>4. CASE Sync(w)
  BY <1>4, <1>b, <1>c, UnrefundedSave, UnrefundedFinish DEF Sync, Save
<1>5. CASE Initialize(w)
  BY <1>5, <1>b, <1>c, UnrefundedSave, UnrefundedFinish DEF Initialize, Save
<1>6. CASE Refund(w)
  <2>1. CASE h[w].row.reference \in charged
    <3>1. h[w].row.reference \in References /\ refunded \in [References -> Nat]
      BY <1>6, <2>1, AtWork DEF Refund, Engaged, TypeInv, Tables
    <3>2. refunded' = [refunded EXCEPT ![h[w].row.reference] = @ + 1]
      BY <1>6, <2>1 DEF Refund
    <3>3. refunded'[h[w].row.reference] > 0
      BY <3>1, <3>2
    <3> QED BY <3>1, <3>3 DEF Backed
  <2>2. CASE h[w].row.reference \notin charged
    BY <1>6, <2>2, <1>b, UnrefundedFinish DEF Refund
  <2> QED BY <2>1, <2>2
<1>7. CASE Compare(w)
  <2>1. UNCHANGED sale
        /\ h' = [h EXCEPT ![w] = [h[w] EXCEPT
                   !.pc = "write", !.diff = {c \in Columns : h[w].row[c] # sale[c]}]]
    BY <1>7 DEF Compare
  <2>2. \A d : [h[w] EXCEPT !.pc = "write", !.diff = d].row = h[w].row
    BY <1>b DEF Handler
  <2> QED BY <2>1, <2>2, <1>b, UnrefundedReplace
<1>8. CASE Write(w)
  <2>1. sale'.paymentStatus # "REFUNDED"
    BY <1>8, <1>b DEF Write, Column
  <2>2. Finish(w) \/ h' = [h EXCEPT ![w] = [h[w] EXCEPT !.pc = h[w].then, !.diff = {}]]
    BY <1>8 DEF Write
  <2>3. [h[w] EXCEPT !.pc = h[w].then, !.diff = {}].row = h[w].row
    BY <1>b DEF Handler
  <2> QED BY <2>1, <2>2, <2>3, <1>b, UnrefundedReplace, UnrefundedFinish
<1> QED BY <1>1, <1>2, <1>3, <1>4, <1>5, <1>6, <1>7, <1>8 DEF Step

LEMMA BackedStays == ASSUME TypeInv, Backed, [Next]_vars PROVE Backed'
<1>1. CASE UNCHANGED refunded
  BY <1>1 DEF Backed
<1>2. CASE \E w \in Workers : Refund(w)
  <2> PICK w \in Workers : Refund(w)
    BY <1>2
  <2>1. refunded' = refunded \/ refunded' = [refunded EXCEPT ![h[w].row.reference] = @ + 1]
    BY DEF Refund
  <2>2. refunded \in [References -> Nat]
    BY DEF TypeInv, Tables
  <2>3. PICK ref \in References : refunded[ref] > 0
    BY DEF Backed
  <2>4. refunded'[ref] > 0
    BY <2>1, <2>2, <2>3
  <2> QED BY <2>4 DEF Backed
<1>3. UNCHANGED refunded \/ \E w \in Workers : Refund(w)
  <2>1. ASSUME NEW w \in Workers, Arrive(w) PROVE UNCHANGED refunded
    <3>1. Receive(w)
      BY <2>1 DEF Arrive, InitializeTransaction, PayForOrder, PayForGuestOrder,
             ConfirmPayment, RecordPayment, UpdatePaymentStatus, UpdateDeliveryCost,
             AddLineItem, ConfirmDelivery, Cancel
    <3> QED BY <3>1 DEF Receive, paystack
  <2>2. ASSUME NEW w \in Workers, Notice(w) PROVE UNCHANGED refunded
    BY <2>2 DEF Notice, ChargeSuccess, RefundProcessed, Deliver, paystack
  <2>3. ASSUME NEW w \in Workers, Step(w) PROVE UNCHANGED refunded \/ Refund(w)
    BY <2>3 DEF Step, Verify, Record, Update, Sync, Initialize, Compare, Write, paystack
  <2>4. ASSUME NEW w \in Workers, Abort(w) PROVE UNCHANGED refunded
    BY <2>4 DEF Abort, paystack
  <2>5. ASSUME NEW ref \in References, Pay(ref) PROVE UNCHANGED refunded
    BY <2>5 DEF Pay
  <2>6. UNCHANGED vars => UNCHANGED refunded
    BY DEF vars
  <2> QED BY <2>1, <2>2, <2>3, <2>4, <2>5, <2>6 DEF Next
<1> QED BY <1>1, <1>2, <1>3

\* No order starts out refunded.
StartsUnrefunded == \A row \in InitialSales : row # NoSale => row.paymentStatus # "REFUNDED"

\* If no order starts out refunded, one reads "refunded" only after Paystack
\* accepted a refund, whatever handlers overlap, fail or save a stale copy.
THEOREM RefundsBacked ==
    ASSUME FeesAreAmounts, StartsUnrefunded
    PROVE  Spec => []RefundedIsBacked
<1> DEFINE Inv == TypeInv /\ (Backed \/ Unrefunded)
<1>1. Init => Inv
  BY TypeInvInit, RestingTyped DEF Init, Unrefunded, StartsUnrefunded
<1>2. Inv /\ [Next]_vars => Inv'
  <2> SUFFICES ASSUME TypeInv, Backed \/ Unrefunded, [Next]_vars
               PROVE  Inv'
    OBVIOUS
  <2>1. TypeInv'
    BY TypeInvPreserved
  <2>2. CASE Backed
    BY <2>1, <2>2, BackedStays
  <2>3. CASE Unrefunded /\ ~Backed
    <3>1. ASSUME UNCHANGED vars
          PROVE  Unrefunded'
      BY <2>3, <3>1 DEF vars, Unrefunded
    <3>2. ASSUME NEW w \in Workers, Arrive(w) \/ Notice(w) \/ Step(w)
          PROVE  Backed' \/ Unrefunded'
      BY <2>3, <3>2, UnrefundedArrive, UnrefundedNotice, UnrefundedStep
    <3>3. ASSUME NEW w \in Workers, Abort(w)
          PROVE  Unrefunded'
      BY <2>3, <3>3, UnrefundedFinish DEF Abort, Unrefunded
    <3>4. ASSUME NEW ref \in References, Pay(ref)
          PROVE  Unrefunded'
      BY <2>3, <3>4 DEF Pay, Unrefunded
    <3> QED BY <2>1, <3>1, <3>2, <3>3, <3>4 DEF Next
  <2> QED BY <2>2, <2>3
<1>3. Inv => RefundedIsBacked
  BY DEF Backed, Unrefunded, RefundedIsBacked
<1> QED BY <1>1, <1>2, <1>3, PTL DEF Spec

(***************************************************************************)
(* Attempts.  A handler about to call Paystack for the tracking page has   *)
(* its record in the table, and records are never taken out of it.         *)
(***************************************************************************)
OnRecord(ref) == \E i \in DOMAIN payments : payments[i].reference = ref

AttemptInv ==
    /\ AttemptOnRecord
    /\ \A w \in Workers :
          h[w].pc = "initialize" /\ h[w].req.op = "payForOrder" => OnRecord(h[w].row.reference)

\* Steps that touch neither the records nor Paystack, and lead no handler of
\* the tracking page to Paystack.
LEMMA AttemptUndisturbed ==
    ASSUME AttemptInv, UNCHANGED <<payments, opened>>,
           \A v \in Workers :
              \/ h'[v] = h[v]
              \/ h'[v].pc # "initialize"
              \/ h'[v].req.op # "payForOrder"
    PROVE  AttemptInv'
  BY DEF AttemptInv, AttemptOnRecord, OnRecord

LEMMA Replaced ==
    ASSUME TypeInv, NEW w \in Workers, NEW g, h' = [h EXCEPT ![w] = g]
    PROVE  h'[w] = g /\ \A v \in Workers \ {w} : h'[v] = h[v]
  BY DEF TypeInv, Handlers

LEMMA StartsAway ==
    ASSUME TypeInv, NEW w \in Workers, NEW r, NEW pc, NEW row, NEW then,
           Start(w, r, pc, row, then), pc # "initialize"
    PROVE  \A v \in Workers : h'[v] = h[v] \/ h'[v].pc # "initialize"
<1> DEFINE g == [Resting EXCEPT !.pc = pc, !.req = r, !.row = row, !.then = then]
<1>1. g.pc = pc
  BY DEF Resting
<1>2. h' = [h EXCEPT ![w] = g]
  BY DEF Start
<1> HIDE DEF g
<1> QED BY <1>1, <1>2, Replaced

LEMMA FinishesAway ==
    ASSUME TypeInv, NEW w \in Workers, Finish(w)
    PROVE  \A v \in Workers : h'[v] = h[v] \/ h'[v].pc # "initialize"
  BY Replaced, RestingTyped DEF Finish

LEMMA SavesAway ==
    ASSUME TypeInv, NEW w \in Workers, NEW pc, NEW row, NEW then,
           h' = [h EXCEPT ![w] = Keep(w, pc, row, then)], pc # "initialize"
    PROVE  \A v \in Workers : h'[v] = h[v] \/ h'[v].pc # "initialize"
<1>1. Keep(w, pc, row, then).pc = pc
  BY DEF Keep, TypeInv, Handlers, Handler
<1> QED BY <1>1, Replaced

LEMMA AttemptArrive ==
    ASSUME TypeInv, AttemptInv, NEW w \in Workers, Arrive(w) \/ Notice(w)
    PROVE  AttemptInv'
<1> DEFINE Away == \A v \in Workers : h'[v] = h[v] \/ h'[v].pc # "initialize"
<1>1. CASE Arrive(w)
  <2> PICK r \in Requests :
          \/ InitializeTransaction(w, r)
          \/ PayForOrder(w, r) \/ PayForGuestOrder(w, r) \/ ConfirmPayment(w, r)
          \/ RecordPayment(w, r) \/ UpdatePaymentStatus(w, r)
          \/ UpdateDeliveryCost(w, r) \/ AddLineItem(w, r)
          \/ ConfirmDelivery(w, r) \/ Cancel(w, r)
    BY <1>1 DEF Arrive
  <2>1. UNCHANGED <<payments, opened>>
    <3>1. Receive(w)
      BY DEF InitializeTransaction, PayForOrder, PayForGuestOrder, ConfirmPayment,
             RecordPayment, UpdatePaymentStatus, UpdateDeliveryCost, AddLineItem,
             ConfirmDelivery, Cancel
    <3> QED BY <3>1 DEF Receive, paystack
  <2>2. InitializeTransaction(w, r) => Away
    BY StartsAway DEF InitializeTransaction
  <2>3. PayForOrder(w, r) => Away
    BY StartsAway, FinishesAway DEF PayForOrder, Decline
  <2>4. PayForGuestOrder(w, r) => Away
    BY StartsAway, FinishesAway DEF PayForGuestOrder, Decline
  <2>5. ConfirmPayment(w, r) => Away
    BY StartsAway, FinishesAway DEF ConfirmPayment, Decline
  <2>6. RecordPayment(w, r) => Away
    BY StartsAway, FinishesAway DEF RecordPayment, Decline
  <2>7. UpdatePaymentStatus(w, r) => Away
    BY StartsAway, FinishesAway DEF UpdatePaymentStatus, Decline
  <2>8. UpdateDeliveryCost(w, r) => Away
    BY StartsAway, FinishesAway DEF UpdateDeliveryCost, Decline
  <2>9. AddLineItem(w, r) => Away
    BY StartsAway, FinishesAway DEF AddLineItem, Decline
  <2>10. ConfirmDelivery(w, r) => Away
    BY StartsAway, FinishesAway DEF ConfirmDelivery, Decline
  <2>11. ASSUME Cancel(w, r) PROVE Away
    <3> DEFINE pc == IF sale.paymentStatus = "PAID" /\ sale.reference # NoReference
                       THEN "refund" ELSE "save"
    <3>1. Decline(w) \/ Start(w, r, pc, [sale EXCEPT !.orderStatus = "CANCELLED"], "idle")
      BY <2>11 DEF Cancel
    <3>2. pc # "initialize"
      OBVIOUS
    <3> HIDE DEF pc
    <3> QED BY <3>1, <3>2, StartsAway, FinishesAway DEF Decline
  <2>12. Away
    BY <2>2, <2>3, <2>4, <2>5, <2>6, <2>7, <2>8, <2>9, <2>10, <2>11
  <2> QED BY <2>1, <2>12, AttemptUndisturbed
<1>2. CASE Notice(w)
  <2> PICK r \in Webhook : ChargeSuccess(w, r) \/ RefundProcessed(w, r)
    BY <1>2 DEF Notice
  <2>1. UNCHANGED <<payments, opened>>
    BY DEF ChargeSuccess, RefundProcessed, Deliver, paystack
  <2>2. Away
    BY StartsAway, FinishesAway DEF ChargeSuccess, RefundProcessed, Decline
  <2> QED BY <2>1, <2>2, AttemptUndisturbed
<1> QED BY <1>1, <1>2

LEMMA RecordAppends ==
    ASSUME TypeInv, NEW w \in Workers, Record(w)
    PROVE  /\ \A ref \in References : OnRecord(ref) => OnRecord(ref)'
           /\ h[w].req.op = "payForOrder" => OnRecord(h[w].row.reference)'
<1>1. payments \in Seq(SalePayment) /\ payments' \in Seq(SalePayment)
  BY RecordTyped DEF TypeInv, Tables
<1>2. payments' = Append(payments, NewPayment(w))
  BY DEF Record
<1>3. /\ Len(payments') = Len(payments) + 1
      /\ \A i \in 1 .. Len(payments) : payments'[i] = payments[i]
      /\ payments'[Len(payments) + 1] = NewPayment(w)
  BY <1>1, <1>2
<1>4. DOMAIN payments = 1 .. Len(payments) /\ DOMAIN payments' = 1 .. Len(payments) + 1
  BY <1>1, <1>3
<1>5. Len(payments) \in Nat
  BY <1>1
<1>6. ASSUME NEW ref \in References, OnRecord(ref) PROVE OnRecord(ref)'
  BY <1>3, <1>4, <1>5, <1>6 DEF OnRecord
<1>7. ASSUME h[w].req.op = "payForOrder" PROVE OnRecord(h[w].row.reference)'
  <2>1. h'[w].row = h[w].row
    <3>1. h' = [h EXCEPT ![w] = [h[w] EXCEPT !.pc = "initialize"]]
      BY <1>7 DEF Record
    <3> QED BY <3>1, AtWork, Replaced DEF Record, Handler
  <2>2. NewPayment(w).reference = h[w].row.reference
    BY <1>7 DEF NewPayment
  <2>3. Len(payments) + 1 \in DOMAIN payments'
    BY <1>4, <1>5
  <2> QED BY <1>3, <2>1, <2>2, <2>3 DEF OnRecord
<1> QED BY <1>6, <1>7

LEMMA AttemptStep ==
    ASSUME TypeInv, AttemptInv, NEW w \in Workers, Step(w)
    PROVE  AttemptInv'
<1> DEFINE Away == \A v \in Workers : h'[v] = h[v] \/ h'[v].pc # "initialize"
<1>a. h[w].pc # "idle"
  BY DEF Step, Verify, Record, Update, Sync, Initialize, Refund, Compare, Write
<1>b. h[w] \in Handler /\ Engaged(h[w]) /\ h[w].row \in SaleRow
  BY <1>a, AtWork
<1>1. CASE Record(w)
  <2>1. UNCHANGED opened
    BY <1>1 DEF Record, paystack
  <2>2. ASSUME NEW ref \in References,
               opened[ref] # NoTransaction /\ opened[ref].op = "payForOrder"
        PROVE  OnRecord(ref)'
    BY <1>1, <2>2, RecordAppends DEF AttemptInv, AttemptOnRecord, OnRecord
  <2>3. PICK g : /\ h' = [h EXCEPT ![w] = g]
                 /\ g.pc = "initialize" => h[w].req.op = "payForOrder" /\ g.row = h[w].row
    <3>1. CASE h[w].req.op = "payForOrder"
      <4>1. h' = [h EXCEPT ![w] = [h[w] EXCEPT !.pc = "initialize"]]
        BY <1>1, <3>1 DEF Record
      <4>2. [h[w] EXCEPT !.pc = "initialize"].row = h[w].row
        BY <1>b DEF Handler
      <4> QED BY <3>1, <4>1, <4>2
    <3>2. CASE h[w].req.op = "chargeSuccess"
      <4>1. h' = [h EXCEPT ![w] = Keep(w, "save", h[w].row, "idle")]
        BY <1>1, <3>2 DEF Record, Save
      <4>2. Keep(w, "save", h[w].row, "idle").pc = "save"
        BY <1>b DEF Handler, Keep
      <4> QED BY <4>1, <4>2
    <3>3. CASE h[w].req.op \notin {"payForOrder", "chargeSuccess"}
      <4>1. h' = [h EXCEPT ![w] = [h[w] EXCEPT !.pc = "sync"]]
        BY <1>1, <3>3 DEF Record
      <4>2. [h[w] EXCEPT !.pc = "sync"].pc = "sync"
        BY <1>b DEF Handler
      <4> QED BY <4>1, <4>2
    <3> QED BY <3>1, <3>2, <3>3
  <2>4. ASSUME NEW v \in Workers, h'[v].pc = "initialize", h'[v].req.op = "payForOrder"
        PROVE  OnRecord(h[v].row.reference)' /\ h'[v].row = h[v].row
    <3>1. CASE v # w
      <4>1. h'[v] = h[v]
        BY <2>3, <3>1, Replaced
      <4>2. OnRecord(h[v].row.reference) /\ h[v].row.reference \in References
        BY <2>4, <4>1, AtWork DEF AttemptInv, Engaged, PayOps
      <4> QED BY <1>1, <4>1, <4>2, RecordAppends DEF OnRecord
    <3>2. CASE v = w
      <4>1. h[w].req.op = "payForOrder" /\ h'[w].row = h[w].row
        BY <2>3, <2>4, <3>2, Replaced
      <4> QED BY <1>1, <3>2, <4>1, RecordAppends DEF OnRecord
    <3> QED BY <3>1, <3>2
  <2> QED BY <2>1, <2>2, <2>4 DEF AttemptInv, AttemptOnRecord, OnRecord
<1>2. CASE Update(w)
  <2>1. UNCHANGED opened
    BY <1>2 DEF Update, paystack
  <2>2. \A ref : OnRecord(ref) => \E i \in DOMAIN payments' : payments'[i].reference = ref
    <3>1. payments \in Seq(SalePayment)
      BY DEF TypeInv, Tables
    <3>2. \/ payments' = payments
          \/ payments' = [payments EXCEPT ![h[w].req.record] =
                             [payments[h[w].req.record] EXCEPT !.status = h[w].req.status]]
      BY <1>2 DEF Update
    <3>3. DOMAIN payments' = DOMAIN payments
      BY <3>2
    <3>4. \A i \in DOMAIN payments : payments[i] \in SalePayment
      BY <3>1
    <3>5. \A i \in DOMAIN payments : payments'[i].reference = payments[i].reference
      BY <3>2, <3>4 DEF SalePayment
    <3> QED BY <3>3, <3>5 DEF OnRecord
  <2>3. Away
    <3>1. CASE Finish(w)
      BY <3>1, FinishesAway
    <3>2. CASE h' = [h EXCEPT ![w] = [h[w] EXCEPT !.pc = "sync"]]
      <4>1. [h[w] EXCEPT !.pc = "sync"].pc = "sync"
        BY <1>b DEF Handler
      <4> QED BY <3>2, <4>1, Replaced
    <3> QED BY <1>2, <3>1, <3>2 DEF Update
  <2>4. AttemptOnRecord'
    BY <2>1, <2>2 DEF AttemptInv, AttemptOnRecord, OnRecord
  <2>5. ASSUME NEW v \in Workers, h'[v].pc = "initialize", h'[v].req.op = "payForOrder"
        PROVE  OnRecord(h[v].row.reference)'
    <3>1. h'[v] = h[v]
      BY <2>3, <2>5
    <3>2. OnRecord(h[v].row.reference)
      BY <2>5, <3>1 DEF AttemptInv
    <3> QED BY <2>2, <3>1, <3>2 DEF OnRecord
  <2> QED BY <2>4, <2>5 DEF AttemptInv
<1>3. CASE Initialize(w)
  <2>1. UNCHANGED payments
    BY <1>3 DEF Initialize
  <2>2. Away
    BY <1>3, FinishesAway, SavesAway DEF Initialize, Save
  <2>3. ASSUME NEW ref \in References,
               opened'[ref] # NoTransaction, opened'[ref].op = "payForOrder"
        PROVE  OnRecord(ref)
    <3>1. CASE ref = h[w].row.reference
      <4>1. opened'[ref].op = h[w].req.op
        BY <1>3, <3>1 DEF Initialize, TypeInv, Tables
      <4> QED BY <1>3, <2>3, <3>1, <4>1 DEF Initialize, AttemptInv
    <3>2. CASE ref # h[w].row.reference
      <4>1. opened'[ref] = opened[ref]
        BY <1>3, <3>2 DEF Initialize, TypeInv, Tables
      <4> QED BY <2>3, <4>1 DEF AttemptInv, AttemptOnRecord, OnRecord
    <3> QED BY <3>1, <3>2
  <2> QED BY <2>1, <2>2, <2>3 DEF AttemptInv, AttemptOnRecord, OnRecord
<1>4. CASE Verify(w)
  <2>1. UNCHANGED <<payments, opened>>
    BY <1>4 DEF Verify, paystack
  <2>2. Away
    BY <1>4, FinishesAway, SavesAway DEF Verify, Save
  <2> QED BY <2>1, <2>2, AttemptUndisturbed
<1>5. CASE Sync(w)
  <2>1. UNCHANGED <<payments, opened>>
    BY <1>5 DEF Sync, paystack
  <2>2. Away
    BY <1>5, FinishesAway, SavesAway DEF Sync, Save
  <2> QED BY <2>1, <2>2, AttemptUndisturbed
<1>6. CASE Refund(w)
  <2>1. UNCHANGED <<payments, opened>>
    BY <1>6 DEF Refund
  <2>2. Away
    BY <1>6, FinishesAway, SavesAway DEF Refund, Save
  <2> QED BY <2>1, <2>2, AttemptUndisturbed
<1>7. CASE Compare(w)
  <2>1. UNCHANGED <<payments, opened>>
    BY <1>7 DEF Compare, paystack
  <2>2. Away
    <3> DEFINE g == [h[w] EXCEPT !.pc = "write", !.diff = {c \in Columns : h[w].row[c] # sale[c]}]
    <3>1. h' = [h EXCEPT ![w] = g] /\ g.pc = "write"
      BY <1>7, <1>b DEF Compare, Handler
    <3> HIDE DEF g
    <3> QED BY <3>1, Replaced
  <2> QED BY <2>1, <2>2, AttemptUndisturbed
<1>8. CASE Write(w)
  <2>1. UNCHANGED <<payments, opened>>
    BY <1>8 DEF Write, paystack
  <2>2. CASE h[w].then = "idle"
    BY <1>8, <2>1, <2>2, FinishesAway, AttemptUndisturbed DEF Write
  <2>3. CASE h[w].then # "idle"
    <3> DEFINE g == [h[w] EXCEPT !.pc = h[w].then, !.diff = {}]
    <3>1. h' = [h EXCEPT ![w] = g]
      BY <1>8, <2>3 DEF Write
    <3>2. g.pc = h[w].then /\ g.req = h[w].req
      BY <1>b DEF Handler
    <3>3. g.pc = "initialize" => g.req.op # "payForOrder"
      BY <1>b, <3>2 DEF Engaged
    <3> HIDE DEF g
    <3> QED BY <2>1, <3>1, <3>3, Replaced, AttemptUndisturbed
  <2> QED BY <2>2, <2>3
<1> QED BY <1>1, <1>2, <1>3, <1>4, <1>5, <1>6, <1>7, <1>8 DEF Step

\* A transaction the tracking page opened has its record, whatever failed,
\* overlapped or was repeated: payForOrder records before it calls Paystack.
THEOREM AttemptsRecorded ==
    ASSUME FeesAreAmounts
    PROVE  Spec => []AttemptOnRecord
<1> DEFINE Inv == TypeInv /\ AttemptInv
<1>1. Init => Inv
  <2>1. Init => TypeInv
    BY TypeInvInit
  <2>2. Init => AttemptInv
    BY RestingTyped DEF Init, AttemptInv, AttemptOnRecord, Resting
  <2> QED BY <2>1, <2>2
<1>2. Inv /\ [Next]_vars => Inv'
  <2> SUFFICES ASSUME TypeInv, AttemptInv, [Next]_vars
               PROVE  AttemptInv'
    BY TypeInvPreserved
  <2>1. CASE UNCHANGED vars
    BY <2>1 DEF vars, AttemptInv, AttemptOnRecord, OnRecord
  <2>2. ASSUME NEW w \in Workers, Arrive(w) \/ Notice(w) \/ Step(w)
        PROVE  AttemptInv'
    BY <2>2, AttemptArrive, AttemptStep
  <2>3. ASSUME NEW w \in Workers, Abort(w)
        PROVE  AttemptInv'
    BY <2>3, FinishesAway, AttemptUndisturbed DEF Abort, paystack
  <2>4. ASSUME NEW ref \in References, Pay(ref)
        PROVE  AttemptInv'
    BY <2>4, AttemptUndisturbed DEF Pay
  <2> QED BY <2>1, <2>2, <2>3, <2>4 DEF Next
<1>3. Inv => AttemptOnRecord
  BY DEF AttemptInv
<1> QED BY <1>1, <1>2, <1>3, PTL DEF Spec

(***************************************************************************)
(* The confirmed total, as a sum over the records.                         *)
(***************************************************************************)
\* TotalConfirmed of any records.
ConfirmedOf(ps) ==
    FoldSeq(LAMBDA p, sum : sum + (IF p.status = "CONFIRMED" THEN p.amount ELSE 0), 0, ps)

\* What each record adds.
Counted(ps) ==
    [i \in DOMAIN ps |-> IF ps[i].status = "CONFIRMED" THEN ps[i].amount ELSE 0]

LEMMA CountedNat ==
    ASSUME NEW ps \in Seq(SalePayment)
    PROVE  /\ DOMAIN ps = 1 .. Len(ps) /\ Len(ps) \in Nat
           /\ \A i \in DOMAIN ps : Counted(ps)[i] \in Nat
           /\ Summable(Counted(ps), DOMAIN ps)
<1>1. DOMAIN ps = 1 .. Len(ps) /\ Len(ps) \in Nat
  OBVIOUS
<1>2. \A i \in DOMAIN ps : ps[i].amount \in Nat
  <2>1. \A i \in DOMAIN ps : ps[i] \in SalePayment
    BY <1>1
  <2> QED BY <2>1 DEF SalePayment
<1>3. \A i \in DOMAIN ps :
          Counted(ps)[i] = IF ps[i].status = "CONFIRMED" THEN ps[i].amount ELSE 0
  BY DEF Counted
<1>4. \A i \in DOMAIN ps : Counted(ps)[i] \in Nat
  BY <1>2, <1>3
<1>5. IsFiniteSet(1 .. Len(ps))
  BY <1>1, FS_Interval
<1> QED BY <1>1, <1>4, <1>5 DEF Summable

LEMMA ConfirmedIsSum ==
    ASSUME NEW ps \in Seq(SalePayment)
    PROVE  ConfirmedOf(ps) = Sum(Counted(ps), DOMAIN ps)
<1> DEFINE D == DOMAIN ps
           Fold(g) == g = [T \in SUBSET D |->
               IF T = {} THEN 0
               ELSE g[T \ {First(T)}] + (IF ps[First(T)].status = "CONFIRMED"
                                           THEN ps[First(T)].amount ELSE 0)]
<1>1. ConfirmedOf(ps) = (CHOOSE g : Fold(g))[D]
  BY DEF ConfirmedOf, FoldSeq, FoldFunction, FoldFunctionOnSet, MapThenFoldSet, First
<1>2. Summable(Counted(ps), D)
  BY CountedNat
<1>3. ASSUME NEW g PROVE Fold(g) <=> FoldedAfter(g, Counted(ps), D)
  <2>1. ASSUME NEW T \in SUBSET D, T # {}
        PROVE  Counted(ps)[First(T)] = IF ps[First(T)].status = "CONFIRMED"
                                         THEN ps[First(T)].amount ELSE 0
    BY <2>1 DEF Counted, First
  <2> DEFINE A(T) == IF T = {} THEN 0 ELSE g[T \ {First(T)}] + Counted(ps)[First(T)]
             B(T) == IF T = {} THEN 0
                     ELSE g[T \ {First(T)}] + (IF ps[First(T)].status = "CONFIRMED"
                                                 THEN ps[First(T)].amount ELSE 0)
  <2>2. \A T \in SUBSET D : A(T) = B(T)
    BY <2>1
  <2>3. [T \in SUBSET D |-> A(T)] = [T \in SUBSET D |-> B(T)]
    <3> HIDE DEF A, B
    <3> QED BY <2>2
  <2> QED BY <2>3 DEF FoldedAfter
<1>4. \E g : Fold(g)
  BY <1>2, <1>3, FoldExists
<1>5. Fold(CHOOSE g : Fold(g))
  <2> HIDE DEF Fold
  <2> QED BY <1>4
<1>6. FoldedAfter(CHOOSE g : Fold(g), Counted(ps), D)
  BY <1>3, <1>5
<1> HIDE DEF Fold
<1> QED BY <1>1, <1>2, <1>6, FoldIsSum

LEMMA TotalIs ==
    /\ TotalConfirmed = ConfirmedOf(payments)
    /\ TotalConfirmed' = ConfirmedOf(payments')
  BY DEF TotalConfirmed, ConfirmedOf, FoldSeq, FoldFunction, FoldFunctionOnSet, MapThenFoldSet

\* Records that are kept, or become confirmed, do not lower the total.
LEMMA ConfirmedGrows ==
    ASSUME NEW ps \in Seq(SalePayment), NEW qs \in Seq(SalePayment), Len(ps) <= Len(qs),
           \A i \in 1 .. Len(ps) : Counted(ps)[i] <= Counted(qs)[i]
    PROVE  /\ ConfirmedOf(ps) \in Int /\ ConfirmedOf(qs) \in Int
           /\ ConfirmedOf(ps) <= ConfirmedOf(qs)
<1>1. DOMAIN ps \subseteq DOMAIN qs
  BY CountedNat
<1>2. \A i \in DOMAIN qs : Counted(qs)[i] >= 0
  BY CountedNat
<1>3. \A i \in DOMAIN ps : Counted(ps)[i] <= Counted(qs)[i]
  BY CountedNat
<1>4. Summable(Counted(ps), DOMAIN ps) /\ Summable(Counted(qs), DOMAIN qs)
  BY CountedNat
<1>5. Sum(Counted(ps), DOMAIN ps) <= Sum(Counted(qs), DOMAIN qs)
  BY <1>1, <1>2, <1>3, <1>4, SumMonotone
<1> QED BY <1>4, <1>5, ConfirmedIsSum, SumType

LEMMA ConfirmedOfNone == ConfirmedOf(<<>>) = 0
<1>1. <<>> \in Seq(SalePayment) /\ DOMAIN <<>> = {}
  OBVIOUS
<1> QED BY <1>1, ConfirmedIsSum, SumEmpty

LEMMA ConfirmedAppend ==
    ASSUME NEW ps \in Seq(SalePayment), NEW p \in SalePayment
    PROVE  ConfirmedOf(ps) <= ConfirmedOf(Append(ps, p))
<1>1. /\ Append(ps, p) \in Seq(SalePayment) /\ Len(ps) <= Len(Append(ps, p))
      /\ \A i \in 1 .. Len(ps) : i \in DOMAIN Append(ps, p) /\ Append(ps, p)[i] = ps[i]
  OBVIOUS
<1>2. \A i \in 1 .. Len(ps) : Counted(ps)[i] = Counted(Append(ps, p))[i]
  BY <1>1, CountedNat DEF Counted
<1>3. \A i \in 1 .. Len(ps) : Counted(ps)[i] <= Counted(Append(ps, p))[i]
  BY <1>2, CountedNat
<1> QED BY <1>1, <1>3, ConfirmedGrows

LEMMA ConfirmedUpdate ==
    ASSUME NEW ps \in Seq(SalePayment), NEW k \in DOMAIN ps
    PROVE  ConfirmedOf(ps) <= ConfirmedOf([ps EXCEPT ![k].status = "CONFIRMED"])
<1> DEFINE qs == [ps EXCEPT ![k].status = "CONFIRMED"]
<1>1. \A i \in DOMAIN ps : ps[i] \in SalePayment
  OBVIOUS
<1>2. qs = [ps EXCEPT ![k] = [ps[k] EXCEPT !.status = "CONFIRMED"]]
  OBVIOUS
<1>3. [ps[k] EXCEPT !.status = "CONFIRMED"] \in SalePayment
      /\ [ps[k] EXCEPT !.status = "CONFIRMED"].status = "CONFIRMED"
      /\ [ps[k] EXCEPT !.status = "CONFIRMED"].amount = ps[k].amount
  BY <1>1 DEF SalePayment, RecordStatus
<1>4. qs \in Seq(SalePayment) /\ Len(qs) = Len(ps) /\ DOMAIN qs = DOMAIN ps
  BY <1>2, <1>3
<1> HIDE DEF qs
<1>5. \A i \in DOMAIN ps : Counted(ps)[i] <= Counted(qs)[i]
  <2> SUFFICES ASSUME NEW i \in DOMAIN ps PROVE Counted(ps)[i] <= Counted(qs)[i]
    OBVIOUS
  <2>1. Counted(ps)[i] \in Nat /\ Counted(qs)[i] \in Nat /\ ps[i].amount \in Nat
    BY <1>1, <1>4, CountedNat DEF SalePayment
  <2>2. CASE i = k
    <3>1. qs[i].status = "CONFIRMED" /\ qs[i].amount = ps[i].amount
      BY <1>2, <1>3, <2>2
    <3>2. Counted(qs)[i] = ps[i].amount /\ Counted(ps)[i] \in {ps[i].amount, 0}
      BY <1>4, <3>1 DEF Counted
    <3> QED BY <2>1, <3>2
  <2>3. CASE i # k
    <3>1. qs[i] = ps[i]
      BY <1>2, <2>3
    <3>2. Counted(qs)[i] = Counted(ps)[i]
      BY <1>4, <3>1 DEF Counted
    <3> QED BY <2>1, <3>2
  <2> QED BY <2>2, <2>3
<1>6. ConfirmedOf(ps) <= ConfirmedOf(qs)
  <2>1. DOMAIN ps = 1 .. Len(ps) /\ Len(ps) <= Len(qs)
    BY <1>4, CountedNat
  <2> QED BY <1>4, <1>5, <2>1, ConfirmedGrows
<1> QED BY <1>6 DEF qs
(***************************************************************************)
(* Money that comes in.  When all that clients ask is to confirm a payment *)
(* or to record one, no handler changes more of the sale than its status,  *)
(* and that to "paid" only.                                                *)
(***************************************************************************)
CollectingOps == {"confirmPayment", "recordPayment", "updatePaymentStatus"}

CollectsOnly == \A r \in Requests : r.op \in CollectingOps

SameButStatus(row) ==
    /\ row.orderStatus = sale.orderStatus /\ row.reference = sale.reference
    /\ row.amount = sale.amount /\ row.deliveryFee = sale.deliveryFee
    /\ row.serviceFee = sale.serviceFee

\* A handler with its copy as it was read, and one that has made it paid.
Unpaid(g) ==
    \/ g.pc = "verify" /\ g.req.op \in {"confirmPayment", "chargeSuccess"}
    \/ g.pc = "record" /\ g.req.op = "recordPayment"
    \/ g.pc = "update" /\ g.req.op = "updatePaymentStatus"
    \/ g.pc = "sync" /\ g.req.op \in {"recordPayment", "updatePaymentStatus"}

Paying(g) ==
    /\ g.row.paymentStatus = "PAID"
    /\ \/ g.pc = "record" /\ g.req.op = "chargeSuccess"
       \/ g.pc = "save"
       \/ /\ g.pc = "write"
          /\ g.diff \subseteq {"paymentStatus"}
          /\ g.diff = {} => sale.paymentStatus = "PAID"

Collector(g) ==
    /\ g.then = "idle"
    /\ SameButStatus(g.row)
    /\ \/ Unpaid(g) /\ (g.row.paymentStatus = "PAID" => sale.paymentStatus = "PAID")
       \/ Paying(g)

CollectInv ==
    /\ \A ref \in References : refunded[ref] = 0
    /\ \A w \in Workers : h[w].pc # "idle" => Collector(h[w])

\* As long as nothing failed, a covered sale is paid or about to be.
CoveredInv ==
    (aborts = 0 /\ sale # NoSale /\ Covered(sale))
        => \/ sale.paymentStatus \in {"PAID", "REFUNDED"}
           \/ \E w \in Workers : h[w].pc \in {"sync", "save", "write"}

\* Whoever makes a sale paid has seen the money.
Earned == charged # {} \/ Covered(sale)

EarnedInv ==
    /\ (sale # NoSale /\ sale.paymentStatus = "PAID") => Earned
    /\ \A w \in Workers : h[w].pc # "idle" /\ Paying(h[w]) => Earned

(***************************************************************************)
(* What a step of worker w does in this case, g being its handler after it.*)
(***************************************************************************)
Opening(w, g) ==
    /\ h[w].pc = "idle" /\ sale # NoSale
    /\ g.pc # "idle" /\ g.row = sale /\ g.then = "idle"
    /\ Unpaid(g) /\ g.pc # "sync"
    /\ UNCHANGED <<sale, payments, charged, aborts>>

Closing(w, g) ==
    /\ g.pc = "idle"
    /\ UNCHANGED <<sale, payments, charged>>
    /\ \/ aborts' = aborts + 1
       \/ aborts' = aborts /\ h[w].pc \in {"idle", "verify", "update"}
       \/ /\ aborts' = aborts /\ h[w].pc = "sync"
          /\ ~(Covered(h[w].row) /\ h[w].row.paymentStatus # "PAID")

\* Verify and Sync make the copy paid.
Earning(w, g) ==
    /\ \/ /\ h[w].pc = "verify" /\ charged # {}
          /\ \/ g.pc = "record" /\ g.req.op = "chargeSuccess"
             \/ g.pc = "save"
       \/ h[w].pc = "sync" /\ Covered(h[w].row) /\ g.pc = "save"
    /\ g.row = [h[w].row EXCEPT !.paymentStatus = "PAID"] /\ g.then = "idle"
    /\ UNCHANGED <<sale, payments, charged, aborts>>

\* Record and Update.
Recording(w, g) ==
    /\ h[w].pc \in {"record", "update"}
    /\ g.row = h[w].row /\ g.then = "idle" /\ g.req = h[w].req
    /\ \/ g.pc = "save" /\ h[w].req.op = "chargeSuccess"
       \/ g.pc = "sync" /\ h[w].req.op \in {"recordPayment", "updatePaymentStatus"}
    /\ \/ payments' = Append(payments, NewPayment(w)) /\ NewPayment(w) \in SalePayment
       \/ /\ h[w].req \in Requests /\ h[w].req.op = "updatePaymentStatus"
          /\ h[w].req.record \in DOMAIN payments
          /\ payments' = [payments EXCEPT ![h[w].req.record].status = h[w].req.status]
    /\ UNCHANGED <<sale, charged, aborts>>

Comparing(w, g) ==
    /\ h[w].pc = "save" /\ g.pc = "write"
    /\ g.row = h[w].row /\ g.then = "idle"
    /\ g.diff = {c \in Columns : h[w].row[c] # sale[c]}
    /\ UNCHANGED <<sale, payments, charged, aborts>>

Writing(w, g) ==
    /\ h[w].pc = "write" /\ g.pc = "idle"
    /\ sale' \in SaleRow /\ SameButStatus(sale') /\ sale'.paymentStatus = "PAID"
    /\ UNCHANGED <<payments, charged, aborts>>

Effect(w, g) ==
    \/ Opening(w, g) \/ Closing(w, g) \/ Earning(w, g)
    \/ Recording(w, g) \/ Comparing(w, g) \/ Writing(w, g)

Moving(w) ==
    /\ \E g \in Handler : h' = [h EXCEPT ![w] = g] /\ Effect(w, g)
    /\ UNCHANGED refunded

LEMMA CollectArrive ==
    ASSUME CollectsOnly, TypeInv, NEW w \in Workers, Arrive(w)
    PROVE  Moving(w)
<1>1. PICK r \in Requests :
        \/ ConfirmPayment(w, r) \/ RecordPayment(w, r) \/ UpdatePaymentStatus(w, r)
  <2>1. PICK r \in Requests :
          \/ InitializeTransaction(w, r)
          \/ PayForOrder(w, r) \/ PayForGuestOrder(w, r) \/ ConfirmPayment(w, r)
          \/ RecordPayment(w, r) \/ UpdatePaymentStatus(w, r)
          \/ UpdateDeliveryCost(w, r) \/ AddLineItem(w, r)
          \/ ConfirmDelivery(w, r) \/ Cancel(w, r)
    BY DEF Arrive
  <2>2. r.op \in CollectingOps
    BY DEF CollectsOnly
  <2>a. ~InitializeTransaction(w, r)
    <3>1. InitializeTransaction(w, r) => r.op = "initializeTransaction"
      BY DEF InitializeTransaction
    <3> QED BY <2>2, <3>1 DEF CollectingOps
  <2>b. ~PayForOrder(w, r)
    <3>1. PayForOrder(w, r) => r.op = "payForOrder"
      BY Zenon DEF PayForOrder
    <3> QED BY <2>2, <3>1 DEF CollectingOps
  <2>3. ~PayForGuestOrder(w, r)
    <3>1. PayForGuestOrder(w, r) => r.op = "payForGuestOrder"
      BY DEF PayForGuestOrder
    <3> QED BY <2>2, <3>1 DEF CollectingOps
  <2>4. ~UpdateDeliveryCost(w, r) /\ ~AddLineItem(w, r) /\ ~ConfirmDelivery(w, r)
    BY <2>2 DEF CollectingOps, UpdateDeliveryCost, AddLineItem, ConfirmDelivery
  <2>5. ~Cancel(w, r)
    BY <2>2 DEF CollectingOps, Cancel
  <2> QED BY <2>1, <2>a, <2>b, <2>3, <2>4, <2>5
<1>2. h[w].pc = "idle" /\ UNCHANGED <<payments, charged, refunded, aborts>>
  BY <1>1 DEF ConfirmPayment, RecordPayment, UpdatePaymentStatus, Receive, paystack
<1>3. r \in Request /\ sale \in SaleRow \cup {NoSale}
  BY RequestsAssumption DEF TypeInv, Tables
<1> DEFINE G(pc) == [Resting EXCEPT !.pc = pc, !.req = r, !.row = sale, !.then = "idle"]
<1>4. ASSUME NEW pc \in {"verify", "record", "update"}, sale # NoSale,
             Start(w, r, pc, sale, "idle"), UNCHANGED sale,
             pc = "verify" => r.op = "confirmPayment",
             pc = "record" => r.op = "recordPayment",
             pc = "update" => r.op = "updatePaymentStatus"
      PROVE  Moving(w)
  <2>1. G(pc) \in Handler
    BY <1>3, <1>4, RestingTyped DEF Handler
  <2>2. G(pc).pc = pc /\ G(pc).req = r /\ G(pc).row = sale /\ G(pc).then = "idle"
    BY DEF Resting
  <2>3. h' = [h EXCEPT ![w] = G(pc)]
    BY <1>4 DEF Start
  <2> HIDE DEF G
  <2>4. Opening(w, G(pc))
    BY <1>2, <1>4, <2>2 DEF Opening, Unpaid
  <2> QED BY <1>2, <2>1, <2>3, <2>4 DEF Moving, Effect
<1>5. ASSUME Decline(w) PROVE Moving(w)
  <2>1. h' = [h EXCEPT ![w] = Resting] /\ UNCHANGED sale
    BY <1>5 DEF Decline, Finish
  <2>2. Closing(w, Resting)
    BY <1>2, <2>1, RestingTyped DEF Closing
  <2> QED BY <1>2, <2>1, <2>2, RestingTyped DEF Moving, Effect
<1>6. CASE ConfirmPayment(w, r)
  BY <1>4, <1>5, <1>6 DEF ConfirmPayment
<1>7. CASE RecordPayment(w, r)
  BY <1>4, <1>5, <1>7 DEF RecordPayment
<1>8. CASE UpdatePaymentStatus(w, r)
  BY <1>4, <1>5, <1>8 DEF UpdatePaymentStatus
<1> QED BY <1>1, <1>6, <1>7, <1>8

LEMMA CollectNotice ==
    ASSUME TypeInv, CollectInv, NEW w \in Workers, Notice(w)
    PROVE  Moving(w)
<1>1. PICK r \in Webhook : ChargeSuccess(w, r)
  BY DEF Notice, RefundProcessed, CollectInv, Webhook
<1>2. h[w].pc = "idle" /\ UNCHANGED <<payments, charged, refunded, aborts>>
  BY <1>1 DEF ChargeSuccess, Deliver, paystack
<1>3. r.op = "chargeSuccess" /\ sale \in SaleRow \cup {NoSale}
  BY <1>1 DEF ChargeSuccess, TypeInv, Tables
<1>4. CASE Decline(w)
  <2>1. h' = [h EXCEPT ![w] = Resting] /\ UNCHANGED sale
    BY <1>4 DEF Decline, Finish
  <2>2. Closing(w, Resting)
    BY <1>2, <2>1, RestingTyped DEF Closing
  <2> QED BY <1>2, <2>1, <2>2, RestingTyped DEF Moving, Effect
<1>5. CASE sale # NoSale /\ Start(w, r, "verify", sale, "idle") /\ UNCHANGED sale
  <2> DEFINE g == [Resting EXCEPT !.pc = "verify", !.req = r, !.row = sale, !.then = "idle"]
  <2>1. g \in Handler
    BY <1>3, <1>5, RestingTyped DEF Handler
  <2>2. g.pc = "verify" /\ g.req = r /\ g.row = sale /\ g.then = "idle"
    BY DEF Resting
  <2>3. h' = [h EXCEPT ![w] = g]
    BY <1>5 DEF Start
  <2> HIDE DEF g
  <2>4. Opening(w, g)
    BY <1>2, <1>3, <1>5, <2>2 DEF Opening, Unpaid
  <2> QED BY <1>2, <2>1, <2>3, <2>4 DEF Moving, Effect
<1> QED BY <1>1, <1>4, <1>5 DEF ChargeSuccess

LEMMA CollectStep ==
    ASSUME TypeInv, CollectInv, NEW w \in Workers, Step(w)
    PROVE  Moving(w)
<1>a. h[w].pc # "idle"
  BY DEF Step, Verify, Record, Update, Sync, Initialize, Refund, Compare, Write
<1>b. /\ h[w] \in Handler /\ Engaged(h[w]) /\ Collector(h[w]) /\ h[w].then = "idle"
      /\ h[w].row \in SaleRow /\ h[w].req \in Requests \cup Webhook /\ sale \in SaleRow
      /\ refunded \in [References -> Nat] /\ payments \in Seq(SalePayment)
  BY <1>a, AtWork DEF CollectInv, Collector, TypeInv, Tables
<1>c. [h[w].row EXCEPT !.paymentStatus = "PAID"] \in SaleRow
  BY <1>b DEF SaleRow, PaymentStatus
<1>d. ASSUME Finish(w), UNCHANGED <<sale, payments, charged, refunded, aborts>>,
             \/ h[w].pc \in {"verify", "update"}
             \/ h[w].pc = "sync" /\ ~(Covered(h[w].row) /\ h[w].row.paymentStatus # "PAID")
      PROVE  Moving(w)
  <2>1. Closing(w, Resting)
    BY <1>d, RestingTyped DEF Closing
  <2> QED BY <1>d, <2>1, RestingTyped DEF Moving, Effect, Finish
<1>e. ASSUME NEW g \in Handler, h' = [h EXCEPT ![w] = g], UNCHANGED refunded, Effect(w, g)
      PROVE  Moving(w)
  BY <1>e DEF Moving
<1> DEFINE paid == [h[w].row EXCEPT !.paymentStatus = "PAID"]
<1>1. CASE Verify(w)
  <2>1. h[w].pc = "verify" /\ UNCHANGED <<sale, payments, charged, refunded, aborts>>
    BY <1>1 DEF Verify, paystack
  <2>2. CASE Finish(w)
    BY <2>1, <2>2, <1>d
  <2>3. ASSUME NEW pc \in {"record", "save"}, charged # {}, h' = [h EXCEPT ![w] = Keep(w, pc, paid, "idle")],
               pc = "record" => h[w].req.op = "chargeSuccess"
        PROVE  Moving(w)
    <3> DEFINE g == Keep(w, pc, paid, "idle")
    <3> HIDE DEF paid
    <3>1. g \in Handler /\ g.pc = pc /\ g.row = paid /\ g.then = "idle" /\ g.req = h[w].req
      BY <1>b, <1>c DEF Keep, Handler, paid
    <3> HIDE DEF g
    <3>2. Earning(w, g)
      BY <2>1, <2>3, <3>1 DEF Earning, paid
    <3> QED BY <1>e, <2>1, <2>3, <3>1, <3>2 DEF Effect, g
  <2>4. CASE /\ charged # {}
             /\ \/ h[w].req.op = "chargeSuccess" /\ h' = [h EXCEPT ![w] = Keep(w, "record", paid, "idle")]
                \/ Save(w, paid, "idle")
    BY <2>3, <2>4 DEF Save
  <2> QED BY <1>1, <2>2, <2>4 DEF Verify
<1>2. CASE Record(w)
  <2>1. h[w].pc = "record" /\ UNCHANGED <<sale, charged, refunded, aborts>>
        /\ payments' = Append(payments, NewPayment(w))
    BY <1>2 DEF Record, paystack
  <2>2. h[w].req.op \in {"recordPayment", "chargeSuccess"}
    BY <1>b, <2>1 DEF Collector, Unpaid, Paying
  <2>3. NewPayment(w) \in SalePayment
    <3>1. Append(payments, NewPayment(w)) \in Seq(SalePayment)
      BY <1>2, <2>1, RecordTyped DEF TypeInv, Tables
    <3>2. Append(payments, NewPayment(w))[Len(payments) + 1] = NewPayment(w)
          /\ Len(payments) + 1 \in 1 .. Len(Append(payments, NewPayment(w)))
      BY <1>b
    <3>3. \A q \in Seq(SalePayment) : \A i \in 1 .. Len(q) : q[i] \in SalePayment
      OBVIOUS
    <3> HIDE DEF NewPayment
    <3> QED BY <3>1, <3>2, <3>3
  <2>4. CASE h[w].req.op = "chargeSuccess"
    <3> DEFINE g == Keep(w, "save", h[w].row, "idle")
    <3>1. h' = [h EXCEPT ![w] = g]
      BY <1>2, <2>4 DEF Record, Save
    <3>2. g \in Handler /\ g.pc = "save" /\ g.row = h[w].row /\ g.then = "idle" /\ g.req = h[w].req
      BY <1>b DEF Keep, Handler
    <3> HIDE DEF g
    <3>3. Recording(w, g)
      BY <2>1, <2>3, <2>4, <3>2 DEF Recording
    <3> QED BY <1>e, <2>1, <3>1, <3>2, <3>3 DEF Effect
  <2>5. CASE h[w].req.op = "recordPayment"
    <3> DEFINE g == [h[w] EXCEPT !.pc = "sync"]
    <3>1. h' = [h EXCEPT ![w] = g]
      BY <1>2, <2>5 DEF Record
    <3>2. g \in Handler /\ g.pc = "sync" /\ g.row = h[w].row /\ g.then = "idle" /\ g.req = h[w].req
      BY <1>b DEF Handler
    <3> HIDE DEF g
    <3>3. Recording(w, g)
      BY <2>1, <2>3, <2>5, <3>2 DEF Recording
    <3> QED BY <1>e, <2>1, <3>1, <3>2, <3>3 DEF Effect
  <2> QED BY <2>2, <2>4, <2>5
<1>3. CASE Update(w)
  <2>1. h[w].pc = "update" /\ UNCHANGED <<sale, charged, refunded, aborts>>
    BY <1>3 DEF Update, paystack
  <2>2. h[w].req.op = "updatePaymentStatus" /\ h[w].req \in Requests
    BY <1>b, <2>1 DEF Engaged, Webhook
  <2>3. CASE h[w].req.record \in DOMAIN payments
    <3> DEFINE g == [h[w] EXCEPT !.pc = "sync"]
    <3>1. h' = [h EXCEPT ![w] = g]
          /\ payments' = [payments EXCEPT ![h[w].req.record].status = h[w].req.status]
      BY <1>3, <2>3 DEF Update
    <3>2. g \in Handler /\ g.pc = "sync" /\ g.row = h[w].row /\ g.then = "idle" /\ g.req = h[w].req
      BY <1>b DEF Handler
    <3> HIDE DEF g
    <3>3. Recording(w, g)
      BY <2>1, <2>2, <2>3, <3>1, <3>2 DEF Recording
    <3> QED BY <1>e, <2>1, <3>1, <3>2, <3>3 DEF Effect
  <2>4. CASE h[w].req.record \notin DOMAIN payments
    BY <1>3, <1>d, <2>1, <2>4 DEF Update
  <2> QED BY <2>3, <2>4
<1>4. CASE Sync(w)
  <2>1. h[w].pc = "sync" /\ UNCHANGED <<sale, payments, charged, refunded, aborts>>
    BY <1>4 DEF Sync, paystack
  <2>2. CASE Covered(h[w].row) /\ h[w].row.paymentStatus # "PAID"
    <3> DEFINE g == Keep(w, "save", paid, "idle")
    <3>1. h' = [h EXCEPT ![w] = g]
      BY <1>4, <2>2 DEF Sync, Save
    <3> HIDE DEF paid
    <3>2. g \in Handler /\ g.pc = "save" /\ g.row = paid /\ g.then = "idle"
      BY <1>b, <1>c DEF Keep, Handler, paid
    <3> HIDE DEF g
    <3>3. Earning(w, g)
      BY <2>1, <2>2, <3>2 DEF Earning, paid
    <3> QED BY <1>e, <2>1, <3>1, <3>2, <3>3 DEF Effect
  <2>3. CASE ~(Covered(h[w].row) /\ h[w].row.paymentStatus # "PAID")
    BY <1>4, <1>d, <2>1, <2>3 DEF Sync
  <2> QED BY <2>2, <2>3
<1>5. CASE Compare(w)
  <2> DEFINE diff == {c \in Columns : h[w].row[c] # sale[c]}
             g == [h[w] EXCEPT !.pc = "write", !.diff = diff]
  <2>1. h' = [h EXCEPT ![w] = g] /\ h[w].pc = "save"
        /\ UNCHANGED <<sale, payments, charged, refunded, aborts>>
    BY <1>5 DEF Compare, paystack
  <2>0. diff \in SUBSET Columns
    OBVIOUS
  <2> HIDE DEF diff
  <2>2. g \in Handler /\ g.pc = "write" /\ g.row = h[w].row /\ g.then = "idle" /\ g.diff = diff
    BY <1>b, <2>0 DEF Handler
  <2> HIDE DEF g
  <2>3. Comparing(w, g)
    BY <2>1, <2>2 DEF Comparing, diff
  <2> QED BY <1>e, <2>1, <2>2, <2>3 DEF Effect
<1>6. CASE Write(w)
  <2>1. h[w].pc = "write" /\ UNCHANGED <<payments, charged, refunded, aborts>> /\ Finish(w)
    BY <1>6, <1>b DEF Write, paystack
  <2>2. /\ h[w].row.paymentStatus = "PAID" /\ h[w].diff \subseteq {"paymentStatus"}
        /\ h[w].diff = {} => sale.paymentStatus = "PAID"
    BY <1>b, <2>1 DEF Collector, Unpaid, Paying
  <2>3. SameButStatus(sale') /\ sale'.paymentStatus = "PAID" /\ sale' \in SaleRow
    <3>1. Column(w, "paymentStatus") = "PAID"
      BY <2>2 DEF Column
    <3>2. /\ Column(w, "orderStatus") = sale.orderStatus
          /\ Column(w, "reference") = sale.reference
          /\ Column(w, "amount") = sale.amount
          /\ Column(w, "deliveryFee") = sale.deliveryFee
          /\ Column(w, "serviceFee") = sale.serviceFee
      BY <2>2 DEF Column
    <3>3. sale' = [orderStatus |-> sale.orderStatus, paymentStatus |-> "PAID",
                   reference |-> sale.reference, amount |-> sale.amount,
                   deliveryFee |-> sale.deliveryFee, serviceFee |-> sale.serviceFee]
      BY <1>6, <3>1, <3>2 DEF Write
    <3> QED BY <1>b, <3>3 DEF SaleRow, PaymentStatus, SameButStatus
  <2>5. Writing(w, Resting)
    BY <2>1, <2>3, RestingTyped DEF Writing
  <2> QED BY <1>e, <2>1, <2>5, RestingTyped DEF Effect, Finish
<1>7. ~Initialize(w) /\ ~Refund(w)
  BY <1>b DEF Initialize, Refund, Collector, Unpaid, Paying
<1> QED BY <1>1, <1>2, <1>3, <1>4, <1>5, <1>6, <1>7 DEF Step

LEMMA CollectAbort ==
    ASSUME TypeInv, NEW w \in Workers, Abort(w)
    PROVE  Moving(w)
<1>1. Closing(w, Resting)
  BY RestingTyped DEF Abort, Closing, paystack
<1> QED BY <1>1, RestingTyped DEF Abort, Finish, Moving, Effect, paystack
\* What no step of a collecting handler touches.
Undisturbed == sale' = sale \/ (SameButStatus(sale') /\ sale'.paymentStatus = "PAID")

LEMMA EffectUndisturbed ==
    ASSUME NEW w \in Workers, NEW g \in Handler, Effect(w, g) PROVE Undisturbed
  BY DEF Effect, Opening, Closing, Earning, Recording, Comparing, Writing, Undisturbed

LEMMA CollectorStays ==
    ASSUME NEW g, Collector(g), Undisturbed PROVE Collector(g)'
  BY DEF Collector, Unpaid, Paying, SameButStatus, Undisturbed

LEMMA CollectMoves ==
    ASSUME TypeInv, CollectInv, NEW w \in Workers, Moving(w)
    PROVE  CollectInv'
<1>1. PICK g \in Handler : h' = [h EXCEPT ![w] = g] /\ Effect(w, g)
  BY DEF Moving
<1>2. Undisturbed
  BY <1>1, EffectUndisturbed
<1>3. /\ h[w] \in Handler /\ h[w].row \in SaleRow
      /\ h[w].pc # "idle" => Collector(h[w])
  BY DEF CollectInv, TypeInv, Handlers, Handler
<1>4. ASSUME g.pc # "idle" PROVE Collector(g)'
  <2>1. CASE Opening(w, g)
    BY <2>1 DEF Opening, Collector, SameButStatus
  <2>2. CASE Earning(w, g)
    <3>1. SameButStatus(h[w].row)
      BY <1>3, <2>2 DEF Earning, Collector
    <3>2. SameButStatus(g.row)' /\ g.row.paymentStatus = "PAID"
      BY <1>3, <2>2, <3>1 DEF Earning, SameButStatus, SaleRow
    <3> QED BY <2>2, <3>2 DEF Earning, Collector, Paying
  <2>3. CASE Recording(w, g)
    <3>1. Collector(h[w]) /\ h[w].pc \in {"record", "update"} /\ UNCHANGED sale
          /\ g.row = h[w].row /\ g.then = "idle" /\ g.req = h[w].req
      BY <1>3, <2>3 DEF Recording
    <3>2. CASE g.pc = "save" /\ h[w].req.op = "chargeSuccess"
      BY <3>1, <3>2 DEF Collector, Unpaid, Paying, SameButStatus
    <3>3. CASE g.pc = "sync" /\ h[w].req.op \in {"recordPayment", "updatePaymentStatus"}
      BY <3>1, <3>3 DEF Collector, Unpaid, Paying, SameButStatus
    <3> QED BY <2>3, <3>2, <3>3 DEF Recording
  <2>4. CASE Comparing(w, g)
    <3>1. SameButStatus(h[w].row) /\ h[w].row.paymentStatus = "PAID"
      BY <1>3, <2>4 DEF Comparing, Collector, Unpaid, Paying
    <3>2. g.diff \subseteq {"paymentStatus"}
      BY <2>4, <3>1 DEF Comparing, SameButStatus, Columns
    <3>3. g.diff = {} => sale.paymentStatus = "PAID"
      BY <2>4, <3>1 DEF Comparing, Columns
    <3> QED BY <2>4, <3>1, <3>2, <3>3 DEF Comparing, Collector, Paying, SameButStatus
  <2> QED BY <1>1, <1>4, <2>1, <2>2, <2>3, <2>4 DEF Effect, Closing, Writing
<1>5. ASSUME NEW v \in Workers, NEW x, x = h'[v], x.pc # "idle" PROVE Collector(x)'
  <2>1. CASE v = w
    <3>1. x = g
      BY <1>1, <1>5, <2>1 DEF TypeInv, Handlers
    <3> QED BY <1>4, <1>5, <3>1
  <2>2. CASE v # w
    <3>1. x = h[v]
      BY <1>1, <1>5, <2>2 DEF TypeInv, Handlers
    <3>2. Collector(x)
      BY <1>5, <3>1 DEF CollectInv
    <3> QED BY <1>2, <3>2, CollectorStays
  <2> QED BY <2>1, <2>2
<1> QED BY <1>5 DEF CollectInv, Moving, Collector, Unpaid, Paying, SameButStatus
LEMMA CollectPay ==
    ASSUME CollectInv, UNCHANGED <<sale, h, refunded>>
    PROVE  CollectInv'
  BY DEF CollectInv, Collector, Unpaid, Paying, SameButStatus

\* The confirmed money is the same for rows that differ in nothing but status.
LEMMA SameCover ==
    ASSUME NEW row, SameButStatus(row) PROVE Covered(row) <=> Covered(sale)
  BY DEF SameButStatus, Covered, GrandTotal

LEMMA StillCovered ==
    ASSUME UNCHANGED <<sale, payments>> PROVE Covered(sale)' <=> Covered(sale)
<1>1. TotalConfirmed' = TotalConfirmed
  BY TotalIs
<1> QED BY <1>1 DEF Covered, GrandTotal

LEMMA CoveredMoves ==
    ASSUME TypeInv, CollectInv, CoveredInv, NEW w \in Workers, Moving(w)
    PROVE  CoveredInv'
<1>1. PICK g \in Handler : h' = [h EXCEPT ![w] = g] /\ Effect(w, g)
  BY DEF Moving
<1>2. h'[w] = g /\ \A v \in Workers : v # w => h'[v] = h[v]
  BY <1>1 DEF TypeInv, Handlers
<1>3. /\ aborts \in Nat /\ sale \in SaleRow \cup {NoSale}
      /\ h[w].pc # "idle" => Collector(h[w])
  BY DEF CollectInv, TypeInv, Tables
<1> SUFFICES ASSUME aborts' = 0, sale' # NoSale, Covered(sale)'
             PROVE  \/ sale'.paymentStatus \in {"PAID", "REFUNDED"}
                    \/ \E v \in Workers : h'[v].pc \in {"sync", "save", "write"}
  BY DEF CoveredInv
<1>4. CASE g.pc \in {"sync", "save", "write"}
  BY <1>2, <1>4
<1>5. CASE Writing(w, g)
  BY <1>5 DEF Writing
<1>6. ASSUME UNCHANGED <<sale, payments, aborts>>, h[w].pc \notin {"sync", "save", "write"}
      PROVE  \/ sale'.paymentStatus \in {"PAID", "REFUNDED"}
             \/ \E v \in Workers : h'[v].pc \in {"sync", "save", "write"}
  <2>1. aborts = 0 /\ sale # NoSale /\ Covered(sale)
    BY <1>6, StillCovered
  <2>2. \/ sale.paymentStatus \in {"PAID", "REFUNDED"}
        \/ \E v \in Workers : h[v].pc \in {"sync", "save", "write"}
    BY <2>1 DEF CoveredInv
  <2>3. CASE sale.paymentStatus \in {"PAID", "REFUNDED"}
    BY <1>6, <2>3
  <2>4. ASSUME NEW v \in Workers, h[v].pc \in {"sync", "save", "write"}
        PROVE  h'[v].pc \in {"sync", "save", "write"}
    BY <1>2, <1>6, <2>4
  <2> QED BY <2>2, <2>3, <2>4
<1>7. CASE Closing(w, g)
  <2>1. UNCHANGED <<sale, payments, aborts>>
    BY <1>3, <1>7 DEF Closing
  <2>2. CASE h[w].pc = "sync" /\ ~(Covered(h[w].row) /\ h[w].row.paymentStatus # "PAID")
    <3>1. Covered(sale)
      BY <2>1, StillCovered
    <3>2. Collector(h[w]) /\ SameButStatus(h[w].row)
      BY <1>3, <2>2 DEF Collector
    <3>3. Covered(h[w].row)
      BY <3>1, <3>2, SameCover
    <3>4. sale.paymentStatus = "PAID"
      BY <2>2, <3>2, <3>3 DEF Collector, Paying
    <3> QED BY <2>1, <3>4
  <2>3. CASE h[w].pc \in {"idle", "verify", "update"}
    BY <1>6, <2>1, <2>3
  <2> QED BY <1>3, <1>7, <2>2, <2>3 DEF Closing
<1>8. CASE Opening(w, g)
  BY <1>6, <1>8 DEF Opening
<1>9. CASE Earning(w, g)
  BY <1>4, <1>6, <1>9 DEF Earning
<1>10. Recording(w, g) \/ Comparing(w, g) => g.pc \in {"sync", "save", "write"}
  BY DEF Recording, Comparing
<1> QED BY <1>1, <1>4, <1>5, <1>7, <1>8, <1>9, <1>10 DEF Effect

LEMMA CoveredPay ==
    ASSUME CoveredInv, UNCHANGED <<sale, payments, h, aborts>>
    PROVE  CoveredInv'
  BY StillCovered DEF CoveredInv

LEMMA CoveredInit ==
    ASSUME Init PROVE CoveredInv
<1>1. TotalConfirmed = 0
  <2>1. payments = <<>> /\ payments \in Seq(SalePayment)
    BY DEF Init
  <2> QED BY <2>1, TotalIs, ConfirmedOfNone
<1>2. sale # NoSale => sale \in SaleRow
  BY InitialAssumption DEF Init
<1>3. ASSUME sale \in SaleRow, Covered(sale) PROVE FALSE
  <2>1. /\ sale.amount \in Nat /\ sale.deliveryFee \in Nat /\ OrZero(sale.serviceFee) \in Nat
    BY <1>3, InitialAssumption DEF SaleRow, OrZero
  <2>2. sale.amount + sale.deliveryFee > 0
        /\ 0 >= sale.amount + sale.deliveryFee + OrZero(sale.serviceFee)
    BY <1>1, <1>3 DEF Covered, GrandTotal
  <2> QED BY <2>1, <2>2
<1> QED BY <1>2, <1>3 DEF CoveredInv

(***************************************************************************)
(* Records that are confirmed never lose their money when all that the     *)
(* back office does with a record is confirm it.                           *)
(***************************************************************************)
OnlyConfirms == \A r \in Requests : r.op = "updatePaymentStatus" => r.status = "CONFIRMED"

NothingPaidAtFirst == \A row \in InitialSales : row # NoSale => row.paymentStatus # "PAID"

LEMMA CoverStays ==
    ASSUME TypeInv, sale \in SaleRow, Undisturbed, payments' \in Seq(SalePayment),
           ConfirmedOf(payments) <= ConfirmedOf(payments'), Covered(sale)
    PROVE  Covered(sale)'
<1>1. sale'.amount = sale.amount /\ sale'.deliveryFee = sale.deliveryFee
      /\ sale'.serviceFee = sale.serviceFee
  BY DEF Undisturbed, SameButStatus
<1>2. payments \in Seq(SalePayment)
  BY DEF TypeInv, Tables
<1>3. TotalConfirmed = ConfirmedOf(payments) /\ TotalConfirmed' = ConfirmedOf(payments')
  BY <1>2, TotalIs
<1>4. ConfirmedOf(payments) \in Int /\ ConfirmedOf(payments') \in Int
  BY <1>2, ConfirmedIsSum, CountedNat, SumType
<1>5. GrandTotal(sale) \in Nat /\ GrandTotal(sale)' = GrandTotal(sale)
  BY <1>1, GrandTotalNat DEF GrandTotal
<1> QED BY <1>1, <1>3, <1>4, <1>5 DEF Covered

LEMMA EarnedStays ==
    ASSUME OnlyConfirms, TypeInv, TypeInv', sale \in SaleRow, NEW w \in Workers,
           NEW g \in Handler, Effect(w, g), Earned
    PROVE  Earned'
<1>1. payments \in Seq(SalePayment) /\ payments' \in Seq(SalePayment)
  BY DEF TypeInv, Tables
<1>2. charged' = charged
  BY DEF Effect, Opening, Closing, Earning, Recording, Comparing, Writing
<1>3. ConfirmedOf(payments) <= ConfirmedOf(payments')
  <2>1. CASE payments' = payments
    BY <1>1, <2>1, ConfirmedIsSum, CountedNat, SumType
  <2>2. CASE payments' = Append(payments, NewPayment(w)) /\ NewPayment(w) \in SalePayment
    BY <1>1, <2>2, ConfirmedAppend
  <2>3. CASE /\ h[w].req \in Requests /\ h[w].req.op = "updatePaymentStatus"
             /\ h[w].req.record \in DOMAIN payments
             /\ payments' = [payments EXCEPT ![h[w].req.record].status = h[w].req.status]
    <3>1. h[w].req.status = "CONFIRMED"
      BY <2>3 DEF OnlyConfirms
    <3> QED BY <1>1, <2>3, <3>1, ConfirmedUpdate
  <2>4. Recording(w, g) => \/ payments' = Append(payments, NewPayment(w)) /\ NewPayment(w) \in SalePayment
                           \/ /\ h[w].req \in Requests /\ h[w].req.op = "updatePaymentStatus"
                              /\ h[w].req.record \in DOMAIN payments
                              /\ payments' = [payments EXCEPT ![h[w].req.record].status = h[w].req.status]
    BY DEF Recording
  <2>5. ~Recording(w, g) => payments' = payments
    BY DEF Effect, Opening, Closing, Earning, Comparing, Writing
  <2> QED BY <2>1, <2>2, <2>3, <2>4, <2>5
<1>4. Undisturbed
  BY EffectUndisturbed
<1> QED BY <1>1, <1>2, <1>3, <1>4, CoverStays DEF Earned

LEMMA EarnedMoves ==
    ASSUME OnlyConfirms, TypeInv, TypeInv', CollectInv, EarnedInv, NEW w \in Workers, Moving(w)
    PROVE  EarnedInv'
<1>1. PICK g \in Handler : h' = [h EXCEPT ![w] = g] /\ Effect(w, g)
  BY DEF Moving
<1>2. /\ sale \in SaleRow \cup {NoSale}
      /\ \A v \in Workers : h[v].pc # "idle" => sale \in SaleRow /\ Collector(h[v])
  BY DEF CollectInv, TypeInv, Tables, Handlers
<1>3. sale \in SaleRow /\ Earned => Earned'
  BY <1>1, EarnedStays
<1>4. \A v \in Workers : h[v].pc # "idle" /\ Paying(h[v]) => Earned'
  BY <1>2, <1>3 DEF EarnedInv
<1>5. ASSUME sale' # NoSale, sale'.paymentStatus = "PAID" PROVE Earned'
  <2>1. CASE sale' = sale
    BY <1>2, <1>3, <1>5, <2>1 DEF EarnedInv
  <2>2. CASE Writing(w, g)
    <3>1. Paying(h[w])
      BY <1>2, <2>2 DEF Writing, Collector, Unpaid
    <3> QED BY <1>4, <2>2, <3>1 DEF Writing
  <2> QED BY <1>1, <2>1, <2>2 DEF Effect, Opening, Closing, Earning, Recording, Comparing
<1>6. ASSUME g.pc # "idle", Paying(g)' PROVE Earned'
  <2>0. g.pc \in {"record", "save", "write"} /\ (g.pc = "record" => g.req.op = "chargeSuccess")
    BY <1>6 DEF Paying
  <2>1. CASE Opening(w, g)
    BY <2>0, <2>1 DEF Opening, Unpaid
  <2>2. CASE Earning(w, g)
    <3>1. sale \in SaleRow /\ SameButStatus(h[w].row)
      BY <1>2, <2>2 DEF Earning, Collector
    <3>2. Earned
      BY <2>2, <3>1, SameCover DEF Earning, Earned
    <3> QED BY <1>3, <3>1, <3>2
  <2>3. CASE Recording(w, g)
    <3>1. h[w].pc = "record" /\ h[w].req.op = "chargeSuccess"
      BY <1>2, <2>0, <2>3 DEF Recording, Collector, Unpaid, Paying
    <3>2. Paying(h[w])
      BY <1>2, <3>1 DEF Collector, Unpaid
    <3> QED BY <1>4, <3>1, <3>2
  <2>4. CASE Comparing(w, g)
    <3>1. h[w].pc = "save" /\ Paying(h[w])
      BY <1>2, <2>4 DEF Comparing, Collector, Unpaid
    <3> QED BY <1>4, <3>1
  <2> QED BY <1>1, <1>6, <2>1, <2>2, <2>3, <2>4 DEF Effect, Closing, Writing
<1>7. ASSUME NEW v \in Workers, NEW x, x = h'[v], x.pc # "idle", Paying(x)' PROVE Earned'
  <2>1. CASE v = w
    <3>1. x = g
      BY <1>1, <1>7, <2>1 DEF TypeInv, Handlers
    <3> QED BY <1>6, <1>7, <3>1
  <2>2. CASE v # w
    <3>1. x = h[v]
      BY <1>1, <1>7, <2>2 DEF TypeInv, Handlers
    <3>2. Paying(x)
      <4>1. Collector(x)
        BY <1>2, <1>7, <3>1
      <4> QED BY <1>7, <4>1 DEF Collector, Unpaid, Paying
    <3> QED BY <1>4, <1>7, <3>1, <3>2
  <2> QED BY <2>1, <2>2
<1> QED BY <1>5, <1>7 DEF EarnedInv, Paying

LEMMA EarnedPay ==
    ASSUME EarnedInv, UNCHANGED <<sale, payments, h>>, charged \subseteq charged'
    PROVE  EarnedInv'
<1>1. Earned => Earned'
  BY StillCovered DEF Earned
<1> QED BY <1>1 DEF EarnedInv, Paying

(***************************************************************************)
(* The step of a specification in which clients only ask to collect money. *)
(***************************************************************************)
LEMMA CollectNext ==
    ASSUME CollectsOnly, TypeInv, CollectInv, [Next]_vars
    PROVE  \/ \E w \in Workers : Moving(w)
           \/ UNCHANGED <<sale, payments, h, refunded, aborts>> /\ charged \subseteq charged'
<1>1. CASE UNCHANGED vars
  BY <1>1 DEF vars
<1>2. ASSUME NEW w \in Workers, Arrive(w) \/ Notice(w) \/ Step(w) \/ Abort(w)
      PROVE  Moving(w)
  BY <1>2, CollectArrive, CollectNotice, CollectStep, CollectAbort
<1>3. ASSUME NEW ref \in References, Pay(ref)
      PROVE  UNCHANGED <<sale, payments, h, refunded, aborts>> /\ charged \subseteq charged'
  BY <1>3 DEF Pay
<1> QED BY <1>1, <1>2, <1>3 DEF Next

LEMMA CollectInit == ASSUME Init PROVE CollectInv
<1>1. \A w \in Workers : h[w].pc = "idle"
  BY DEF Init, Resting
<1> QED BY <1>1 DEF Init, CollectInv

\* Collecting money only ever adds money: a handler that writes back an old copy
\* of the sale never takes "paid" away (syncSalePaymentStatus, confirmPayment,
\* verifyAndMarkPaid, each with Sale.save of the copy it read).
THEOREM PaidIsKept ==
    ASSUME FeesAreAmounts, CollectsOnly
    PROVE  Spec => PaidStays
<1> DEFINE Inv == TypeInv /\ CollectInv
<1>1. Init => Inv
  BY TypeInvInit, CollectInit
<1>2. Inv /\ [Next]_vars => Inv'
  BY TypeInvPreserved, CollectNext, CollectMoves, CollectPay
<1>3. Inv /\ [Next]_vars =>
          [(sale # NoSale /\ sale.paymentStatus = "PAID") => sale'.paymentStatus = "PAID"]_vars
  <2> SUFFICES ASSUME Inv, [Next]_vars, sale # NoSale, sale.paymentStatus = "PAID"
               PROVE  sale'.paymentStatus = "PAID"
    OBVIOUS
  <2>1. ASSUME NEW w \in Workers, Moving(w) PROVE Undisturbed
    BY <2>1, EffectUndisturbed DEF Moving
  <2>2. Undisturbed \/ sale' = sale
    BY <2>1, CollectNext
  <2> QED BY <2>2 DEF Undisturbed
<1> QED BY <1>1, <1>2, <1>3, PTL DEF Spec, PaidStays

\* Of any number of instalments and webhooks that overlap, the last one to look
\* sees the whole sum: a covered sale is paid once no handler is left, if none
\* failed (syncSalePaymentStatus reads the records anew).
THEOREM InstalmentsAddUp ==
    ASSUME FeesAreAmounts, CollectsOnly
    PROVE  Spec => []CoveredIsPaid
<1> DEFINE Inv == TypeInv /\ CollectInv /\ CoveredInv
<1>1. Init => Inv
  BY TypeInvInit, CollectInit, CoveredInit
<1>2. Inv /\ [Next]_vars => Inv'
  BY TypeInvPreserved, CollectNext, CollectMoves, CollectPay, CoveredMoves, CoveredPay
<1>3. Inv => CoveredIsPaid
  BY DEF CoveredInv, CoveredIsPaid, Quiet
<1> QED BY <1>1, <1>2, <1>3, PTL DEF Spec

\* A sale is marked paid only by a handler that saw the money, at Paystack or in
\* the records, provided the back office confirms records and does not unconfirm
\* them (verifyPayment, syncSalePaymentStatus).
THEOREM PaidWasEarned ==
    ASSUME FeesAreAmounts, CollectsOnly, OnlyConfirms, NothingPaidAtFirst
    PROVE  Spec => []PaidIsEarned
<1> DEFINE Inv == TypeInv /\ CollectInv /\ EarnedInv
<1>1. Init => Inv
  <2> SUFFICES ASSUME Init PROVE Inv
    OBVIOUS
  <2>1. \A w \in Workers : h[w].pc = "idle"
    BY DEF Init, Resting
  <2>2. sale # NoSale => sale.paymentStatus # "PAID"
    BY DEF Init, NothingPaidAtFirst
  <2> QED BY <2>1, <2>2, TypeInvInit, CollectInit DEF EarnedInv
<1>2. Inv /\ [Next]_vars => Inv'
  BY TypeInvPreserved, CollectNext, CollectMoves, CollectPay, EarnedMoves, EarnedPay
<1>3. Inv => PaidIsEarned
  BY DEF EarnedInv, Earned, PaidIsEarned
<1> QED BY <1>1, <1>2, <1>3, PTL DEF Spec

(***************************************************************************)
(* One handler at a time.  What is on the sale is then what the handler    *)
(* before has written, and a handler's copy is never old.                  *)
(***************************************************************************)
OneAtATime == \A v, w \in Workers : v = w

\* The service fee of a row is the fee on its products and delivery.
Matching(row) == row.serviceFee # NoFee => row.serviceFee = Fee(row.amount + row.deliveryFee)

\* What the handlers that start have in common: the copy of the sale they start
\* with, and where they go first.
Entering(w, r, pc, row, then) ==
    /\ Start(w, r, pc, row, then)
    /\ pc \in {"save", "verify", "record", "update", "refund"} /\ row \in SaleRow
    /\ sale' # NoSale
    /\ sale' = sale \/ (sale = NoSale /\ Matching(sale') /\ sale'.paymentStatus # "PAID")
    /\ r.op # "addLineItem" => (Matching(sale') => Matching(row))
    /\ sale'.paymentStatus = "PAID" =>
           row.paymentStatus = "PAID" \/ \E ref \in References : refunded[ref] > 0
    /\ row.paymentStatus = "PAID" =>
           sale'.paymentStatus = "PAID" /\ then = "idle" /\ pc # "verify"
    /\ pc = "verify" => r.op \in {"confirmPayment", "chargeSuccess"}
    /\ pc = "record" => r.op = "recordPayment"
    /\ pc = "update" => r.op = "updatePaymentStatus"

Beginning(w) ==
    /\ h[w].pc = "idle"
    /\ UNCHANGED <<payments, refunded, aborts>>
    /\ \/ Finish(w) /\ UNCHANGED sale
       \/ \E r \in Requests \cup Webhook :
             \E pc \in PC : \E row \in SaleRow : \E then \in PC : Entering(w, r, pc, row, then)

LEMMA BeginningsArrive ==
    ASSUME FeesAreAmounts, TypeInv, NEW w \in Workers, Arrive(w)
    PROVE  Beginning(w)
<1> PICK r \in Requests :
        \/ InitializeTransaction(w, r)
        \/ PayForOrder(w, r) \/ PayForGuestOrder(w, r) \/ ConfirmPayment(w, r)
        \/ RecordPayment(w, r) \/ UpdatePaymentStatus(w, r)
        \/ UpdateDeliveryCost(w, r) \/ AddLineItem(w, r)
        \/ ConfirmDelivery(w, r) \/ Cancel(w, r)
  BY DEF Arrive
<1>a. r \in Requests \cup Webhook /\ r \in Request
  BY RequestsAssumption
<1>b. Receive(w)
  BY DEF InitializeTransaction, PayForOrder, PayForGuestOrder, ConfirmPayment,
         RecordPayment, UpdatePaymentStatus, UpdateDeliveryCost, AddLineItem,
         ConfirmDelivery, Cancel
<1>c. h[w].pc = "idle" /\ UNCHANGED <<payments, refunded, aborts>>
  BY <1>b DEF Receive, paystack
<1>d. sale \in SaleRow \cup {NoSale} /\ r.amount \in Nat
  BY <1>a DEF TypeInv, Tables, Request
<1>e. ASSUME Decline(w) PROVE Beginning(w)
  BY <1>c, <1>e DEF Decline, Beginning
<1>f. ASSUME NEW pc \in PC, NEW row \in SaleRow, NEW then \in PC, Entering(w, r, pc, row, then)
      PROVE  Beginning(w)
  BY <1>a, <1>c, <1>f DEF Beginning
<1>1. CASE InitializeTransaction(w, r)
  <2>1. PICK ref \in References :
          Start(w, r, "save", [sale' EXCEPT !.reference = ref], "initialize")
    BY <1>1 DEF InitializeTransaction
  <2>2. EmptyRow \in SaleRow
    BY RestingTyped DEF EmptyRow, SaleRow, OrderStatus, PaymentStatus
  <2>3. sale' \in SaleRow /\ sale'.paymentStatus # "PAID" /\ Matching(sale')
    <3>1. CASE r.delivery = -1
      <4>1. sale' = [EmptyRow EXCEPT !.paymentStatus = "AWAITING_DELIVERY",
                                     !.amount = r.amount, !.serviceFee = NoFee]
        BY <1>1, <3>1 DEF InitializeTransaction
      <4> QED BY <4>1, <2>2, <1>d DEF SaleRow, PaymentStatus, Matching
    <3>2. CASE r.delivery # -1
      <4>1. sale' = [EmptyRow EXCEPT !.paymentStatus = "PENDING_PAYMENT",
                                     !.amount = r.amount, !.deliveryFee = r.delivery,
                                     !.serviceFee = Fee(r.amount + r.delivery)]
        BY <1>1, <3>2 DEF InitializeTransaction
      <4>2. r.delivery \in Nat /\ Fee(r.amount + r.delivery) \in Nat
        BY <3>2, <1>a DEF FeesAreAmounts, Request
      <4> QED BY <4>1, <4>2, <2>2, <1>d DEF SaleRow, PaymentStatus, Matching
    <3> QED BY <3>1, <3>2
  <2> DEFINE row == [sale' EXCEPT !.reference = ref]
  <2>4. row \in SaleRow /\ row.paymentStatus # "PAID" /\ Matching(row)
    BY <2>3 DEF SaleRow, Matching
  <2>5. sale' # NoSale
    BY <2>3, InitialAssumption
  <2> HIDE DEF row
  <2>6. Entering(w, r, "save", row, "initialize")
    <3>1. sale = NoSale
      BY <1>1 DEF InitializeTransaction
    <3> QED BY <2>1, <2>3, <2>4, <2>5, <3>1 DEF Entering, row
  <2> QED BY <1>f, <2>4, <2>6
<1>2. ASSUME sale # NoSale, MayPay(sale), UNCHANGED sale,
             NEW ref \in References, NEW fee \in Nat \cup {NoFee}, NEW then \in {"record", "initialize"},
             Start(w, r, "save", [sale EXCEPT !.reference = ref, !.serviceFee = fee], then),
             fee = Fee(sale.amount + sale.deliveryFee) \/ fee = sale.serviceFee
      PROVE  Beginning(w)
  <2> DEFINE row == [sale EXCEPT !.reference = ref, !.serviceFee = fee]
  <2>1. sale \in SaleRow /\ sale.paymentStatus # "PAID"
    BY <1>2, <1>d DEF MayPay
  <2>2. row \in SaleRow /\ row.paymentStatus # "PAID" /\ (Matching(sale) => Matching(row))
    BY <1>2, <2>1 DEF SaleRow, Matching
  <2> HIDE DEF row
  <2>3. Matching(sale') = Matching(sale)
    BY <1>2 DEF Matching
  <2>4. Entering(w, r, "save", row, then)
    BY <1>2, <2>1, <2>2, <2>3 DEF Entering, row
  <2> QED BY <1>f, <2>2, <2>4
<1>3. CASE PayForOrder(w, r)
  <2>1. CASE sale # NoSale /\ MayPay(sale)
    <3> DEFINE fee == IF sale.serviceFee = NoFee THEN Fee(sale.amount + sale.deliveryFee)
                                                 ELSE sale.serviceFee
    <3>1. PICK ref \in References :
            Start(w, r, "save", [sale EXCEPT !.reference = ref, !.serviceFee = fee], "record")
      BY <1>3, <2>1 DEF PayForOrder
    <3>2. fee \in Nat /\ (fee = Fee(sale.amount + sale.deliveryFee) \/ fee = sale.serviceFee)
      BY <1>d, <2>1 DEF SaleRow, FeesAreAmounts
    <3>3. UNCHANGED sale
      BY <1>3, <2>1 DEF PayForOrder
    <3> HIDE DEF fee
    <3> QED BY <1>2, <2>1, <3>1, <3>2, <3>3
  <2>2. CASE ~(sale # NoSale /\ MayPay(sale))
    BY <1>e, <1>3, <2>2 DEF PayForOrder
  <2> QED BY <2>1, <2>2
<1>4. CASE PayForGuestOrder(w, r)
  <2>1. CASE sale # NoSale /\ MayPay(sale)
    <3>1. PICK ref \in References :
            Start(w, r, "save", [sale EXCEPT !.reference = ref], "initialize")
      BY <1>4, <2>1 DEF PayForGuestOrder
    <3>2. sale.serviceFee \in Nat \cup {NoFee} /\ UNCHANGED sale
          /\ [sale EXCEPT !.reference = ref]
               = [sale EXCEPT !.reference = ref, !.serviceFee = sale.serviceFee]
      BY <1>d, <1>4, <2>1 DEF SaleRow, PayForGuestOrder
    <3> QED BY <1>2, <2>1, <3>1, <3>2
  <2>2. CASE ~(sale # NoSale /\ MayPay(sale))
    BY <1>e, <1>4, <2>2 DEF PayForGuestOrder
  <2> QED BY <2>1, <2>2
<1>5. ASSUME sale # NoSale, UNCHANGED sale, NEW pc \in {"verify", "record", "update", "save"},
             Start(w, r, pc, sale, "idle"), pc = "verify" => sale.paymentStatus # "PAID",
             pc = "verify" => r.op = "confirmPayment",
             pc = "record" => r.op = "recordPayment",
             pc = "update" => r.op = "updatePaymentStatus"
      PROVE  Beginning(w)
  <2>1. sale \in SaleRow /\ Matching(sale') = Matching(sale)
    BY <1>5, <1>d DEF Matching
  <2>2. Entering(w, r, pc, sale, "idle")
    BY <1>5, <2>1 DEF Entering
  <2> QED BY <1>f, <2>1, <2>2
<1>6. CASE ConfirmPayment(w, r)
  BY <1>e, <1>5, <1>6 DEF ConfirmPayment
<1>7. CASE RecordPayment(w, r)
  BY <1>e, <1>5, <1>7 DEF RecordPayment
<1>8. CASE UpdatePaymentStatus(w, r)
  BY <1>e, <1>5, <1>8 DEF UpdatePaymentStatus
<1>9. CASE ConfirmDelivery(w, r)
  BY <1>e, <1>5, <1>9 DEF ConfirmDelivery
<1>10. CASE UpdateDeliveryCost(w, r)
  <2> DEFINE ok == sale # NoSale
               /\ sale.paymentStatus \in {"INVOICE_REQUESTED", "PENDING_PAYMENT", "AWAITING_DELIVERY"}
             row == [sale EXCEPT
                       !.deliveryFee = r.amount,
                       !.serviceFee = Fee(sale.amount + r.amount),
                       !.paymentStatus = IF @ = "AWAITING_DELIVERY" THEN "PENDING_PAYMENT" ELSE @]
  <2>1. CASE ok
    <3>1. Start(w, r, "save", row, "idle") /\ UNCHANGED sale
      BY <1>10, <2>1 DEF UpdateDeliveryCost
    <3>2. row \in SaleRow /\ row.paymentStatus # "PAID" /\ Matching(row)
      <4>1. Fee(sale.amount + r.amount) \in Nat
        BY <1>d, <2>1 DEF SaleRow, FeesAreAmounts
      <4> QED BY <4>1, <1>d, <2>1 DEF SaleRow, PaymentStatus, Matching
    <3>3. sale # NoSale /\ sale.paymentStatus # "PAID"
      BY <2>1
    <3> HIDE DEF row
    <3>4. Entering(w, r, "save", row, "idle")
      BY <3>1, <3>2, <3>3 DEF Entering
    <3> QED BY <1>f, <3>2, <3>4
  <2>2. CASE ~ok
    BY <1>e, <1>10, <2>2 DEF UpdateDeliveryCost
  <2> QED BY <2>1, <2>2
<1>11. CASE AddLineItem(w, r)
  <2> DEFINE row == [sale EXCEPT !.amount = @ + r.amount]
  <2>1. CASE sale # NoSale /\ sale.paymentStatus # "PAID"
    <3>1. Start(w, r, "save", row, "idle") /\ UNCHANGED sale /\ r.op = "addLineItem"
      BY <1>11, <2>1 DEF AddLineItem
    <3>2. row \in SaleRow /\ row.paymentStatus # "PAID"
      BY <1>d, <2>1 DEF SaleRow
    <3> HIDE DEF row
    <3>3. Entering(w, r, "save", row, "idle")
      BY <2>1, <3>1, <3>2 DEF Entering
    <3> QED BY <1>f, <3>2, <3>3
  <2>2. CASE ~(sale # NoSale /\ sale.paymentStatus # "PAID")
    BY <1>e, <1>11, <2>2 DEF AddLineItem
  <2> QED BY <2>1, <2>2
<1>12. CASE Cancel(w, r)
  <2> DEFINE row == [sale EXCEPT !.orderStatus = "CANCELLED"]
             pc == IF sale.paymentStatus = "PAID" /\ sale.reference # NoReference
                     THEN "refund" ELSE "save"
  <2>1. CASE sale # NoSale /\ MayCancel(sale, r.op)
    <3>1. Start(w, r, pc, row, "idle") /\ UNCHANGED sale
      BY <1>12, <2>1 DEF Cancel
    <3>2. row \in SaleRow /\ row.paymentStatus = sale.paymentStatus
          /\ (Matching(sale) => Matching(row))
      BY <1>d, <2>1 DEF SaleRow, OrderStatus, Matching
    <3>3. pc \in {"refund", "save"}
      OBVIOUS
    <3>4. Matching(sale') = Matching(sale)
      BY <3>1 DEF Matching
    <3> HIDE DEF row, pc
    <3>5. Entering(w, r, pc, row, "idle")
      BY <2>1, <3>1, <3>2, <3>3, <3>4 DEF Entering
    <3> QED BY <1>f, <3>2, <3>3, <3>5
  <2>2. CASE ~(sale # NoSale /\ MayCancel(sale, r.op))
    BY <1>e, <1>12, <2>2 DEF Cancel
  <2> QED BY <2>1, <2>2
<1> QED BY <1>1, <1>3, <1>4, <1>6, <1>7, <1>8, <1>9, <1>10, <1>11, <1>12

LEMMA BeginningsNotice ==
    ASSUME TypeInv, NEW w \in Workers, Notice(w)
    PROVE  Beginning(w)
<1> PICK r \in Webhook : ChargeSuccess(w, r) \/ RefundProcessed(w, r)
  BY DEF Notice
<1>1. h[w].pc = "idle" /\ UNCHANGED <<payments, refunded, aborts>>
  BY DEF ChargeSuccess, RefundProcessed, Deliver, paystack
<1>2. sale \in SaleRow \cup {NoSale} /\ r \in Requests \cup Webhook
  BY DEF TypeInv, Tables
<1>3. CASE Decline(w)
  BY <1>1, <1>3 DEF Decline, Beginning
<1>4. CASE /\ Start(w, r, "verify", sale, "idle") /\ UNCHANGED sale /\ r.op = "chargeSuccess"
           /\ sale # NoSale /\ sale.paymentStatus # "PAID"
  <2>1. sale \in SaleRow /\ Matching(sale') = Matching(sale)
    BY <1>2, <1>4 DEF Matching
  <2>2. Entering(w, r, "verify", sale, "idle")
    BY <1>4, <2>1 DEF Entering
  <2> QED BY <1>1, <1>2, <2>1, <2>2 DEF Beginning
<1>5. CASE /\ Start(w, r, "save", [sale EXCEPT !.paymentStatus = "REFUNDED"], "idle")
           /\ UNCHANGED sale /\ sale # NoSale /\ refunded[r.reference] > 0
  <2> DEFINE row == [sale EXCEPT !.paymentStatus = "REFUNDED"]
  <2>1. row \in SaleRow /\ row.paymentStatus # "PAID" /\ (Matching(sale) => Matching(row))
    BY <1>2, <1>5 DEF SaleRow, PaymentStatus, Matching
  <2>2. Matching(sale') = Matching(sale) /\ \E ref \in References : refunded[ref] > 0
    BY <1>5 DEF Matching, Webhook
  <2> HIDE DEF row
  <2>3. Entering(w, r, "save", row, "idle")
    BY <1>5, <2>1, <2>2 DEF Entering, row
  <2> QED BY <1>1, <1>2, <2>1, <2>3 DEF Beginning
<1> QED BY <1>3, <1>4, <1>5 DEF ChargeSuccess, RefundProcessed

\* A handler that is about to write has compared its copy with the sale as it is.
CopyInv ==
    \A w \in Workers : h[w].pc = "write" =>
        \A c \in Columns \ h[w].diff : h[w].row[c] = sale[c]

SameAmounts(row, old) ==
    /\ row.amount = old.amount /\ row.deliveryFee = old.deliveryFee
    /\ row.serviceFee = old.serviceFee

\* What the steps after an await have in common: only Write touches the sale,
\* and none of them touches an amount.
Going(w, g) ==
    /\ h[w].pc # "idle"
    /\ h' = [h EXCEPT ![w] = g]
    /\ sale' = sale \/ sale' = h[w].row
    /\ g.pc # "idle" => g.row \in SaleRow /\ SameAmounts(g.row, h[w].row)
    /\ g.pc = "write" => sale' = sale /\ \A c \in Columns \ g.diff : g.row[c] = sale[c]

LEMMA WrittenIsRow ==
    ASSUME TypeInv, CopyInv, NEW w \in Workers, Write(w)
    PROVE  sale' = h[w].row
<1>1. h[w].row \in SaleRow /\ h[w].pc = "write"
  BY AtWork DEF Write
<1>2. \A c \in Columns : Column(w, c) = h[w].row[c]
  BY <1>1 DEF Column, CopyInv
<1>3. /\ Column(w, "orderStatus") = h[w].row.orderStatus
      /\ Column(w, "paymentStatus") = h[w].row.paymentStatus
      /\ Column(w, "reference") = h[w].row.reference
      /\ Column(w, "amount") = h[w].row.amount
      /\ Column(w, "deliveryFee") = h[w].row.deliveryFee
      /\ Column(w, "serviceFee") = h[w].row.serviceFee
  BY <1>2 DEF Columns
<1>4. sale' = [orderStatus |-> h[w].row.orderStatus, paymentStatus |-> h[w].row.paymentStatus,
               reference |-> h[w].row.reference, amount |-> h[w].row.amount,
               deliveryFee |-> h[w].row.deliveryFee, serviceFee |-> h[w].row.serviceFee]
  BY <1>3 DEF Write
<1> QED BY <1>1, <1>4 DEF SaleRow

LEMMA StepGoes ==
    ASSUME TypeInv, CopyInv, NEW w \in Workers, Step(w)
    PROVE  \E g \in Handler : Going(w, g)
<1>a. h[w].pc # "idle"
  BY DEF Step, Verify, Record, Update, Sync, Initialize, Refund, Compare, Write
<1>b. h[w] \in Handler /\ h[w].row \in SaleRow
  BY <1>a, AtWork
<1>c. ASSUME Finish(w), UNCHANGED sale PROVE \E g \in Handler : Going(w, g)
  <2>1. Going(w, Resting)
    BY <1>a, <1>c, RestingTyped DEF Going, Finish
  <2> QED BY <2>1, RestingTyped
<1>d. ASSUME UNCHANGED sale, NEW st \in PaymentStatus, NEW pc \in PC \ {"write"},
             h' = [h EXCEPT ![w] = Keep(w, pc, [h[w].row EXCEPT !.paymentStatus = st], "idle")]
      PROVE  \E g \in Handler : Going(w, g)
  <2> DEFINE row == [h[w].row EXCEPT !.paymentStatus = st]
             g == Keep(w, pc, row, "idle")
  <2>1. row \in SaleRow /\ SameAmounts(row, h[w].row)
    BY <1>b DEF SaleRow, SameAmounts
  <2> HIDE DEF row
  <2>2. g \in Handler /\ g.pc = pc /\ g.row = row
    BY <1>b, <2>1 DEF Keep, Handler
  <2> HIDE DEF g
  <2>3. Going(w, g)
    BY <1>a, <1>d, <2>1, <2>2 DEF Going, g, row
  <2> QED BY <2>2, <2>3
<1>e. ASSUME UNCHANGED sale, NEW pc \in PC \ {"write"},
             h' = [h EXCEPT ![w] = [h[w] EXCEPT !.pc = pc]]
      PROVE  \E g \in Handler : Going(w, g)
  <2> DEFINE g == [h[w] EXCEPT !.pc = pc]
  <2>1. g \in Handler /\ g.pc = pc /\ g.row = h[w].row
    BY <1>b DEF Handler
  <2> HIDE DEF g
  <2>2. Going(w, g)
    BY <1>a, <1>b, <1>e, <2>1 DEF Going, SameAmounts, g
  <2> QED BY <2>1, <2>2
<1>f. {"PAID", "PENDING_PAYMENT", "REFUNDED"} \subseteq PaymentStatus
  BY DEF PaymentStatus
<1>1. CASE Verify(w)
  <2>1. \/ Finish(w)
        \/ h' = [h EXCEPT ![w] = Keep(w, "record", [h[w].row EXCEPT !.paymentStatus = "PAID"], "idle")]
        \/ h' = [h EXCEPT ![w] = Keep(w, "save", [h[w].row EXCEPT !.paymentStatus = "PAID"], "idle")]
    BY <1>1 DEF Verify, Save
  <2>2. UNCHANGED sale
    BY <1>1 DEF Verify
  <2> QED BY <1>c, <1>d, <1>f, <2>1, <2>2
<1>2. CASE Record(w)
  <2>1. UNCHANGED sale
    BY <1>2 DEF Record
  <2>2. CASE h[w].req.op = "chargeSuccess"
    <3>1. h' = [h EXCEPT ![w] = Keep(w, "save", h[w].row, "idle")]
      BY <1>2, <2>2 DEF Record, Save
    <3>2. h[w].row = [h[w].row EXCEPT !.paymentStatus = h[w].row.paymentStatus]
          /\ h[w].row.paymentStatus \in PaymentStatus
      BY <1>b DEF SaleRow
    <3> DEFINE st == h[w].row.paymentStatus
    <3>3. h' = [h EXCEPT ![w] = Keep(w, "save", [h[w].row EXCEPT !.paymentStatus = st], "idle")]
      BY <3>1, <3>2
    <3>4. st \in PaymentStatus
      BY <3>2
    <3> HIDE DEF st
    <3> QED BY <1>d, <2>1, <3>3, <3>4
  <2>3. CASE h[w].req.op # "chargeSuccess"
    <3>1. \/ h' = [h EXCEPT ![w] = [h[w] EXCEPT !.pc = "initialize"]]
          \/ h' = [h EXCEPT ![w] = [h[w] EXCEPT !.pc = "sync"]]
      BY <1>2, <2>3 DEF Record
    <3> QED BY <1>e, <2>1, <3>1
  <2> QED BY <2>2, <2>3
<1>3. CASE Update(w)
  <2>1. UNCHANGED sale /\ (Finish(w) \/ h' = [h EXCEPT ![w] = [h[w] EXCEPT !.pc = "sync"]])
    BY <1>3 DEF Update
  <2> QED BY <1>c, <1>e, <2>1
<1>4. CASE Sync(w)
  BY <1>4, <1>c, <1>d, <1>f DEF Sync, Save
<1>5. CASE Initialize(w)
  BY <1>5, <1>c, <1>d, <1>f DEF Initialize, Save
<1>6. CASE Refund(w)
  BY <1>6, <1>c, <1>d, <1>f DEF Refund, Save
<1>7. CASE Compare(w)
  <2> DEFINE diff == {c \in Columns : h[w].row[c] # sale[c]}
             g == [h[w] EXCEPT !.pc = "write", !.diff = diff]
  <2>1. h' = [h EXCEPT ![w] = g] /\ UNCHANGED sale
    BY <1>7 DEF Compare
  <2>2. diff \in SUBSET Columns /\ \A c \in Columns \ diff : h[w].row[c] = sale[c]
    OBVIOUS
  <2> HIDE DEF diff
  <2>3. g \in Handler /\ g.pc = "write" /\ g.row = h[w].row /\ g.diff = diff
    BY <1>b, <2>2 DEF Handler
  <2> HIDE DEF g
  <2>4. Going(w, g)
    BY <1>a, <1>b, <2>1, <2>2, <2>3 DEF Going, SameAmounts
  <2> QED BY <2>3, <2>4
<1>8. CASE Write(w)
  <2>1. sale' = h[w].row
    BY <1>8, WrittenIsRow
  <2>2. CASE h[w].then = "idle"
    <3>1. Going(w, Resting)
      BY <1>8, <1>a, <2>1, <2>2, RestingTyped DEF Write, Finish, Going
    <3> QED BY <3>1, RestingTyped
  <2>3. CASE h[w].then # "idle"
    <3> DEFINE g == [h[w] EXCEPT !.pc = h[w].then, !.diff = {}]
    <3>1. h' = [h EXCEPT ![w] = g]
      BY <1>8, <2>3 DEF Write
    <3>2. h[w].then \in {"record", "initialize"}
      BY <1>a, <2>3, AtWork DEF Engaged
    <3>3. g \in Handler /\ g.pc = h[w].then /\ g.row = h[w].row
      <4>1. {} \in SUBSET Columns
        OBVIOUS
      <4> QED BY <1>b, <3>2, <4>1 DEF Handler
    <3> HIDE DEF g
    <3>4. Going(w, g)
      BY <1>a, <1>b, <2>1, <3>1, <3>2, <3>3 DEF Going, SameAmounts
    <3> QED BY <3>3, <3>4
  <2> QED BY <2>2, <2>3
<1> QED BY <1>1, <1>2, <1>3, <1>4, <1>5, <1>6, <1>7, <1>8 DEF Step

\* The handler of the only worker is replaced.
LEMMA OnlyOne ==
    ASSUME OneAtATime, TypeInv, NEW w \in Workers, NEW g, h' = [h EXCEPT ![w] = g]
    PROVE  \A v \in Workers : v = w /\ h'[v] = g
  BY DEF OneAtATime, TypeInv, Handlers

LEMMA Started ==
    ASSUME OneAtATime, TypeInv, NEW w \in Workers, NEW r, NEW pc, NEW row, NEW then,
           Start(w, r, pc, row, then)
    PROVE  \A v \in Workers :
              v = w /\ h'[v].pc = pc /\ h'[v].req = r /\ h'[v].row = row /\ h'[v].then = then
<1> DEFINE g == [Resting EXCEPT !.pc = pc, !.req = r, !.row = row, !.then = then]
<1>1. g.pc = pc /\ g.req = r /\ g.row = row /\ g.then = then
  BY DEF Resting
<1>2. h' = [h EXCEPT ![w] = g]
  BY DEF Start
<1> HIDE DEF g
<1> QED BY <1>1, <1>2, OnlyOne

LEMMA Finished ==
    ASSUME OneAtATime, TypeInv, NEW w \in Workers, Finish(w)
    PROVE  \A v \in Workers : v = w /\ h'[v].pc = "idle"
  BY OnlyOne, RestingTyped DEF Finish

LEMMA CopyStays ==
    ASSUME FeesAreAmounts, OneAtATime, TypeInv, CopyInv, [Next]_vars
    PROVE  CopyInv'
<1>1. CASE UNCHANGED <<sale, h>>
  BY <1>1 DEF CopyInv
<1>2. ASSUME NEW w \in Workers, Arrive(w) \/ Notice(w) PROVE CopyInv'
  <2>1. Beginning(w)
    BY <1>2, BeginningsArrive, BeginningsNotice
  <2>2. CASE Finish(w)
    BY <2>2, Finished DEF CopyInv
  <2>3. ASSUME NEW r, NEW pc \in PC, NEW row \in SaleRow, NEW then \in PC,
               Entering(w, r, pc, row, then)
        PROVE  CopyInv'
    BY <2>3, Started DEF Entering, CopyInv
  <2> QED BY <2>1, <2>2, <2>3 DEF Beginning
<1>3. ASSUME NEW w \in Workers, Step(w) PROVE CopyInv'
  <2>1. PICK g \in Handler : Going(w, g)
    BY <1>3, StepGoes
  <2>2. \A v \in Workers : v = w /\ h'[v] = g
    BY <2>1, OnlyOne DEF Going
  <2>3. g.pc = "write" => \A c \in Columns \ g.diff : g.row[c] = sale'[c]
    BY <2>1 DEF Going
  <2> QED BY <2>2, <2>3 DEF CopyInv
<1>4. ASSUME NEW w \in Workers, Abort(w) PROVE CopyInv'
  BY <1>4, Finished DEF Abort, CopyInv
<1>5. ASSUME NEW ref \in References, Pay(ref) PROVE CopyInv'
  BY <1>1, <1>5 DEF Pay
<1> QED BY <1>1, <1>2, <1>3, <1>4, <1>5 DEF Next, vars

(***************************************************************************)
(* The service fee.                                                        *)
(***************************************************************************)
NoLineItems == \A r \in Requests : r.op # "addLineItem"

MatchingAtFirst == \A row \in InitialSales : row # NoSale => Matching(row)

FeeInv ==
    /\ sale # NoSale => Matching(sale)
    /\ \A w \in Workers : h[w].pc # "idle" => Matching(h[w].row)

LEMMA FeeStays ==
    ASSUME FeesAreAmounts, OneAtATime, NoLineItems, TypeInv, CopyInv, FeeInv, [Next]_vars
    PROVE  FeeInv'
<1>1. CASE UNCHANGED <<sale, h>>
  BY <1>1 DEF FeeInv, Matching
<1>2. ASSUME NEW w \in Workers, Arrive(w) \/ Notice(w) PROVE FeeInv'
  <2>1. Beginning(w)
    BY <1>2, BeginningsArrive, BeginningsNotice
  <2>2. CASE Finish(w) /\ UNCHANGED sale
    BY <2>2, Finished DEF FeeInv, Matching
  <2>3. ASSUME NEW r \in Requests \cup Webhook, NEW pc \in PC, NEW row \in SaleRow,
               NEW then \in PC, Entering(w, r, pc, row, then)
        PROVE  FeeInv'
    <3>1. Matching(sale')
      BY <2>3 DEF Entering, FeeInv, Matching
    <3>2. r.op # "addLineItem"
      BY DEF NoLineItems, Webhook
    <3>3. Matching(row)
      BY <2>3, <3>1, <3>2 DEF Entering
    <3> QED BY <2>3, <3>1, <3>3, Started DEF Entering, FeeInv, Matching
  <2> QED BY <2>1, <2>2, <2>3 DEF Beginning
<1>3. ASSUME NEW w \in Workers, Step(w) PROVE FeeInv'
  <2>1. PICK g \in Handler : Going(w, g)
    BY <1>3, StepGoes
  <2>2. \A v \in Workers : v = w /\ h'[v] = g
    BY <2>1, OnlyOne DEF Going
  <2>3. Matching(h[w].row) /\ (sale # NoSale => Matching(sale))
    BY <2>1 DEF FeeInv, Going
  <2>4. sale' # NoSale => Matching(sale')
    BY <2>1, <2>3 DEF Going
  <2>5. g.pc # "idle" => Matching(g.row)
    BY <2>1, <2>3 DEF Going, SameAmounts, Matching
  <2> QED BY <2>2, <2>4, <2>5 DEF FeeInv, Matching
<1>4. ASSUME NEW w \in Workers, Abort(w) PROVE FeeInv'
  BY <1>4, Finished DEF Abort, FeeInv, Matching
<1>5. ASSUME NEW ref \in References, Pay(ref) PROVE FeeInv'
  BY <1>1, <1>5 DEF Pay
<1> QED BY <1>1, <1>2, <1>3, <1>4, <1>5 DEF Next, vars

LEMMA CopyInit == ASSUME Init PROVE CopyInv
  BY DEF Init, Resting, CopyInv

\* While handlers do not overlap, whichever of checkout, the tracking page and
\* updateDeliveryCost set the service fee of a sale last, it is the fee on what
\* the sale costs, failures half way included; addLineItem is left out because
\* it raises the amount and keeps the fee.
THEOREM FeesMatchSerially ==
    ASSUME FeesAreAmounts, OneAtATime, NoLineItems, MatchingAtFirst
    PROVE  Spec => []FeeMatchesSubtotal
<1> DEFINE Inv == TypeInv /\ CopyInv /\ FeeInv
<1>1. Init => Inv
  <2> SUFFICES ASSUME Init PROVE Inv
    OBVIOUS
  <2>1. \A w \in Workers : h[w].pc = "idle"
    BY DEF Init, Resting
  <2>2. sale # NoSale => Matching(sale)
    BY DEF Init, MatchingAtFirst
  <2> QED BY <2>1, <2>2, TypeInvInit, CopyInit DEF FeeInv
<1>2. Inv /\ [Next]_vars => Inv'
  BY TypeInvPreserved, CopyStays, FeeStays
<1>3. Inv => FeeMatchesSubtotal
  BY DEF FeeInv, Matching, FeeMatchesSubtotal
<1> QED BY <1>1, <1>2, <1>3, PTL DEF Spec

(***************************************************************************)
(* One record for a charge.                                                *)
(***************************************************************************)
NoStatusUpdates == \A r \in Requests : r.op # "updatePaymentStatus"

\* Nothing failed, nothing was refunded.
Smooth == aborts = 0 /\ \A ref \in References : refunded[ref] = 0

Unrecorded == \A ref \in References : Confirmations(ref) = {}

Settled == sale # NoSale /\ sale.paymentStatus = "PAID"

Settling(g) == g.pc \in {"save", "write"} /\ g.row.paymentStatus = "PAID"

\* A handler g at work knows when the sale is paid, and a charge is about to be
\* recorded only if none is yet.
Settler(g, settled, unrecorded) ==
    /\ settled => g.row.paymentStatus = "PAID"
    /\ g.row.paymentStatus = "PAID" => g.then = "idle" /\ g.pc \notin {"initialize", "verify"}
    /\ g.pc = "record" /\ g.req.op = "chargeSuccess" => g.row.paymentStatus = "PAID"
    /\ g.pc = "record" /\ g.req.op = "payForOrder" => g.row.paymentStatus # "PAID"
    /\ g.pc \in {"verify", "record"} /\ g.req.op = "chargeSuccess" => unrecorded

RecordedOnce == \A ref \in References : \A i, j \in Confirmations(ref) : i = j

RecordedInv ==
    Smooth =>
        /\ RecordedOnce
        /\ Unrecorded \/ Settled \/ \E w \in Workers : Settling(h[w])
        /\ \A w \in Workers : h[w].pc # "idle" => Settler(h[w], Settled, Unrecorded)

LEMMA SmoothBefore ==
    ASSUME TypeInv, refunded' = refunded, aborts' = aborts, Smooth' PROVE Smooth
  BY DEF Smooth

\* The confirmations of a charge, for records that stay as they are and for
\* one that is added.
LEMMA ConfirmationsKept ==
    ASSUME UNCHANGED payments
    PROVE  (Unrecorded <=> Unrecorded') /\ (RecordedOnce => RecordedOnce')
  BY DEF Unrecorded, RecordedOnce, Confirmations

LEMMA ConfirmationsAppend ==
    ASSUME TypeInv, NEW p, payments' = Append(payments, p), NEW ref \in References
    PROVE  Confirmations(ref)' = IF p.status = "CONFIRMED" /\ p.reference = ref
                                   THEN Confirmations(ref) \cup {Len(payments) + 1}
                                   ELSE Confirmations(ref)
<1>1. payments \in Seq(SalePayment) /\ Len(payments) \in Nat
      /\ DOMAIN payments = 1 .. Len(payments)
  BY DEF TypeInv, Tables
<1>2. DOMAIN payments' = 1 .. (Len(payments) + 1)
  BY <1>1
<1>3. payments'[Len(payments) + 1] = p
      /\ \A i \in 1 .. Len(payments) : payments'[i] = payments[i]
  BY <1>1
<1>4. \A i : i \in 1 .. (Len(payments) + 1) <=> i \in 1 .. Len(payments) \/ i = Len(payments) + 1
  BY <1>1
<1> QED BY <1>1, <1>2, <1>3, <1>4 DEF Confirmations

\* The one worker's handler is replaced.
LEMMA RecordedReplace ==
    ASSUME OneAtATime, TypeInv, NEW w \in Workers, NEW g, h' = [h EXCEPT ![w] = g],
           Smooth' => /\ RecordedOnce'
                      /\ Unrecorded' \/ Settled' \/ Settling(g)
                      /\ g.pc # "idle" => Settler(g, Settled', Unrecorded')
    PROVE  RecordedInv'
<1>1. \A v \in Workers : v = w /\ h'[v] = g
  BY OnlyOne
<1> QED BY <1>1 DEF RecordedInv, Settling, Settler

LEMMA RecordedBegins ==
    ASSUME OneAtATime, TypeInv, RecordedInv, NEW w \in Workers, Beginning(w)
    PROVE  RecordedInv'
<1>1. h[w].pc = "idle" /\ UNCHANGED <<payments, refunded, aborts>>
  BY DEF Beginning
<1>2. Smooth' => /\ Smooth /\ RecordedOnce' /\ (Unrecorded <=> Unrecorded')
                 /\ Unrecorded \/ Settled
  <2>1. \A v \in Workers : v = w
    BY DEF OneAtATime
  <2>2. \A v \in Workers : ~Settling(h[v])
    BY <1>1, <2>1 DEF Settling
  <2> QED BY <1>1, <2>2, SmoothBefore, ConfirmationsKept DEF RecordedInv
<1>3. CASE Finish(w) /\ UNCHANGED sale
  <2>1. Settled' = Settled
    BY <1>3 DEF Settled
  <2> QED BY <1>2, <1>3, <2>1, RecordedReplace, RestingTyped DEF Finish
<1>4. ASSUME NEW r \in Requests \cup Webhook, NEW pc \in PC, NEW row \in SaleRow,
             NEW then \in PC, Entering(w, r, pc, row, then)
      PROVE  RecordedInv'
  <2> DEFINE g == [Resting EXCEPT !.pc = pc, !.req = r, !.row = row, !.then = then]
  <2>1. g.pc = pc /\ g.req = r /\ g.row = row /\ g.then = then
    BY DEF Resting
  <2>2. h' = [h EXCEPT ![w] = g]
    BY <1>4 DEF Entering, Start
  <2> HIDE DEF g
  <2>3. Settled => Settled'
    BY <1>4 DEF Entering, Settled
  <2> SUFFICES ASSUME Smooth'
               PROVE  /\ RecordedOnce'
                      /\ Unrecorded' \/ Settled' \/ Settling(g)
                      /\ g.pc # "idle" => Settler(g, Settled', Unrecorded')
    BY <2>2, RecordedReplace
  <2>4. \A ref \in References : ~(refunded[ref] > 0)
    BY <1>2 DEF Smooth
  <2>5. Settled' => row.paymentStatus = "PAID"
    BY <1>4, <2>4 DEF Entering, Settled
  <2>6. row.paymentStatus = "PAID" => then = "idle" /\ pc \notin {"initialize", "verify"}
    BY <1>4 DEF Entering
  <2>7. pc = "record" => r.op = "recordPayment"
    BY <1>4 DEF Entering
  <2>8. pc = "verify" => Unrecorded'
    <3>1. pc = "verify" => row.paymentStatus # "PAID"
      BY <2>6
    <3>2. pc = "verify" => ~Settled'
      BY <2>5, <3>1
    <3> QED BY <1>2, <2>3, <3>2
  <2>9. Settler(g, Settled', Unrecorded')
    BY <2>1, <2>5, <2>6, <2>7, <2>8 DEF Settler
  <2> QED BY <1>2, <2>3, <2>9
<1> QED BY <1>3, <1>4 DEF Beginning

LEMMA RecordedStep ==
    ASSUME OneAtATime, NoStatusUpdates, TypeInv, CopyInv, RecordedInv,
           NEW w \in Workers, Step(w)
    PROVE  RecordedInv'
<1>a. h[w].pc # "idle"
  BY DEF Step, Verify, Record, Update, Sync, Initialize, Refund, Compare, Write
<1>b. /\ h[w] \in Handler /\ h[w].row \in SaleRow /\ sale \in SaleRow /\ sale # NoSale
      /\ h[w].req \in Requests \cup Webhook /\ Engaged(h[w])
      /\ refunded \in [References -> Nat]
  BY <1>a, AtWork DEF TypeInv, Tables
<1>c. Smooth => /\ RecordedOnce /\ Settler(h[w], Settled, Unrecorded)
                /\ Unrecorded \/ Settled \/ Settling(h[w])
  <2>1. \A v \in Workers : v = w
    BY DEF OneAtATime
  <2> QED BY <1>a, <2>1 DEF RecordedInv
  \* Steps that leave the tables alone.
<1>d. ASSUME UNCHANGED <<sale, payments, refunded, aborts>>, NEW g, h' = [h EXCEPT ![w] = g],
             Smooth => /\ Settling(h[w]) => Settling(g)
                       /\ g.pc # "idle" =>
                             /\ Settled => g.row.paymentStatus = "PAID"
                             /\ g.row.paymentStatus = "PAID" =>
                                    g.then = "idle" /\ g.pc \notin {"initialize", "verify"}
                             /\ g.pc = "record" /\ g.req.op = "chargeSuccess" =>
                                    g.row.paymentStatus = "PAID"
                             /\ g.pc = "record" /\ g.req.op = "payForOrder" =>
                                    g.row.paymentStatus # "PAID"
                             /\ g.pc \in {"verify", "record"} /\ g.req.op = "chargeSuccess" =>
                                    Unrecorded
      PROVE  RecordedInv'
  <2>1. Smooth' => Smooth
    BY <1>d, SmoothBefore
  <2>2. (Unrecorded' <=> Unrecorded) /\ (RecordedOnce => RecordedOnce') /\ (Settled' <=> Settled)
    BY <1>d, ConfirmationsKept DEF Settled
  <2>3. Smooth /\ g.pc # "idle" => Settler(g, Settled', Unrecorded')
    BY <1>d, <2>2 DEF Settler
  <2> QED BY <1>c, <1>d, <2>1, <2>2, <2>3, RecordedReplace
<1>e. ASSUME UNCHANGED <<sale, payments, refunded, aborts>>, Finish(w), ~Settling(h[w])
      PROVE  RecordedInv'
  BY <1>d, <1>e, RestingTyped DEF Finish
  \* The copy becomes paid, and is saved.
<1>f. ASSUME UNCHANGED <<sale, payments, refunded, aborts>>,
             Save(w, [h[w].row EXCEPT !.paymentStatus = "PAID"], "idle")
      PROVE  RecordedInv'
  <2> DEFINE row == [h[w].row EXCEPT !.paymentStatus = "PAID"]
             g == Keep(w, "save", row, "idle")
  <2>1. row.paymentStatus = "PAID"
    BY <1>b DEF SaleRow
  <2> HIDE DEF row
  <2>2. g.pc = "save" /\ g.row = row /\ g.then = "idle"
    BY <1>b DEF Keep, Handler
  <2>3. h' = [h EXCEPT ![w] = g]
    BY <1>f DEF Save, row
  <2> HIDE DEF g
  <2> QED BY <1>d, <1>f, <2>1, <2>2, <2>3 DEF Settling
<1>1. CASE Verify(w)
  <2>1. h[w].pc = "verify" /\ UNCHANGED <<sale, payments, refunded, aborts>>
    BY <1>1 DEF Verify, paystack
  <2>2. CASE Finish(w)
    BY <1>e, <2>1, <2>2 DEF Settling
  <2>3. CASE Save(w, [h[w].row EXCEPT !.paymentStatus = "PAID"], "idle")
    BY <1>f, <2>1, <2>3
  <2>4. CASE /\ h[w].req.op = "chargeSuccess"
             /\ h' = [h EXCEPT ![w] =
                        Keep(w, "record", [h[w].row EXCEPT !.paymentStatus = "PAID"], "idle")]
    <3> DEFINE row == [h[w].row EXCEPT !.paymentStatus = "PAID"]
               g == Keep(w, "record", row, "idle")
    <3>1. row.paymentStatus = "PAID"
      BY <1>b DEF SaleRow
    <3> HIDE DEF row
    <3>2. g.pc = "record" /\ g.row = row /\ g.then = "idle" /\ g.req = h[w].req
      BY <1>b DEF Keep, Handler
    <3>3. h' = [h EXCEPT ![w] = g]
      BY <2>4 DEF row
    <3>4. Smooth => Unrecorded
      BY <1>c, <2>1, <2>4 DEF Settler
    <3> HIDE DEF g
    <3> QED BY <1>d, <2>1, <2>4, <3>1, <3>2, <3>3, <3>4 DEF Settling
  <2> QED BY <1>1, <2>2, <2>3, <2>4 DEF Verify
<1>2. CASE Record(w)
  <2> DEFINE p == NewPayment(w)
  <2>1. h[w].pc = "record" /\ payments' = Append(payments, p)
        /\ UNCHANGED <<sale, refunded, aborts>>
    BY <1>2 DEF Record, paystack
  <2>2. Smooth' => Smooth
    BY <2>1, SmoothBefore
  <2>3. Settled' <=> Settled
    BY <2>1 DEF Settled
  <2>4. h[w].req.op \in {"payForOrder", "chargeSuccess", "recordPayment"}
    BY <1>b, <2>1 DEF Engaged
  <2>5. CASE h[w].req.op = "chargeSuccess"
    <3> DEFINE g == Keep(w, "save", h[w].row, "idle")
    <3>1. h' = [h EXCEPT ![w] = g]
      BY <1>2, <2>5 DEF Record, Save
    <3>2. g.pc = "save" /\ g.row = h[w].row /\ g.then = "idle" /\ g.req = h[w].req
      BY <1>b DEF Keep, Handler
    <3> HIDE DEF g, p
    <3> SUFFICES ASSUME Smooth' PROVE RecordedOnce' /\ Settling(g) /\ Settler(g, Settled', Unrecorded')
      BY <3>1, RecordedReplace
    <3>3. Unrecorded /\ h[w].row.paymentStatus = "PAID"
      BY <1>c, <2>1, <2>2, <2>5 DEF Settler
    <3>4. \A ref \in References : Confirmations(ref)' \subseteq {Len(payments) + 1}
      BY <2>1, <3>3, ConfirmationsAppend DEF Unrecorded
    <3>5. RecordedOnce'
      BY <3>4 DEF RecordedOnce
    <3> QED BY <3>2, <3>3, <3>5 DEF Settling, Settler
  <2>6. CASE h[w].req.op # "chargeSuccess"
    <3> DEFINE pc == IF h[w].req.op = "payForOrder" THEN "initialize" ELSE "sync"
               g == [h[w] EXCEPT !.pc = pc]
    <3>1. h' = [h EXCEPT ![w] = g]
      BY <1>2, <2>6 DEF Record
    <3>2. g.pc = pc /\ g.row = h[w].row /\ g.then = h[w].then /\ g.req = h[w].req
      BY <1>b DEF Handler
    <3>3. p.status # "CONFIRMED" \/ p.reference \notin References
      BY <2>4, <2>6, InitialAssumption DEF NewPayment
    <3> HIDE DEF g, p
    <3>4. \A ref \in References : Confirmations(ref)' = Confirmations(ref)
      BY <2>1, <3>3, ConfirmationsAppend
    <3>5. (Unrecorded' <=> Unrecorded) /\ (RecordedOnce => RecordedOnce')
      BY <3>4 DEF Unrecorded, RecordedOnce
    <3>6. Smooth => Settler(g, Settled', Unrecorded') /\ (Unrecorded' \/ Settled')
      BY <1>c, <2>1, <2>3, <2>6, <3>2, <3>5 DEF Settling, Settler
    <3> QED BY <1>c, <2>2, <3>1, <3>5, <3>6, RecordedReplace
  <2> QED BY <2>5, <2>6
<1>3. ~Update(w)
  BY <1>b DEF Update, Engaged, NoStatusUpdates, Webhook
<1>4. CASE Sync(w)
  BY <1>4, <1>e, <1>f DEF Sync, paystack, Settling
<1>5. CASE Initialize(w)
  <2>1. h[w].pc = "initialize" /\ UNCHANGED <<sale, payments, refunded, aborts>>
    BY <1>5 DEF Initialize
  <2>2. CASE Finish(w)
    BY <1>e, <2>1, <2>2 DEF Settling
  <2>3. CASE Save(w, [h[w].row EXCEPT !.paymentStatus = "PENDING_PAYMENT"], "idle")
    <3> DEFINE row == [h[w].row EXCEPT !.paymentStatus = "PENDING_PAYMENT"]
               g == Keep(w, "save", row, "idle")
    <3>1. row.paymentStatus # "PAID"
      BY <1>b DEF SaleRow
    <3> HIDE DEF row
    <3>2. g.pc = "save" /\ g.row = row /\ g.then = "idle"
      BY <1>b DEF Keep, Handler
    <3>3. h' = [h EXCEPT ![w] = g]
      BY <2>3 DEF Save, row
    <3>4. Smooth => ~Settled
      BY <1>c, <2>1 DEF Settler
    <3> HIDE DEF g
    <3> QED BY <1>d, <2>1, <3>1, <3>2, <3>3, <3>4 DEF Settling
  <2> QED BY <1>5, <2>2, <2>3 DEF Initialize
<1>6. CASE Refund(w)
  <2>1. h[w].pc = "refund" /\ UNCHANGED <<sale, payments, aborts>> /\ h[w].row.reference \in References
    BY <1>6, <1>b DEF Refund, Engaged
  <2>2. CASE h[w].row.reference \in charged
    <3>1. refunded'[h[w].row.reference] = refunded[h[w].row.reference] + 1
      BY <1>6, <1>b, <2>1, <2>2 DEF Refund
    <3>2. refunded'[h[w].row.reference] # 0
      BY <1>b, <2>1, <3>1
    <3>3. ~Smooth'
      BY <2>1, <3>2 DEF Smooth
    <3> QED BY <3>3 DEF RecordedInv
  <2>3. CASE h[w].row.reference \notin charged
    BY <1>6, <1>e, <2>1, <2>3 DEF Refund, Settling
  <2> QED BY <2>2, <2>3
<1>7. CASE Compare(w)
  <2> DEFINE diff == {c \in Columns : h[w].row[c] # sale[c]}
             g == [h[w] EXCEPT !.pc = "write", !.diff = diff]
  <2>1. h[w].pc = "save" /\ h' = [h EXCEPT ![w] = g] /\ UNCHANGED <<sale, payments, refunded, aborts>>
    BY <1>7 DEF Compare, paystack
  <2> HIDE DEF diff
  <2>2. g.pc = "write" /\ g.row = h[w].row /\ g.then = h[w].then /\ g.req = h[w].req
    BY <1>b DEF Handler
  <2> HIDE DEF g
  <2> QED BY <1>c, <1>d, <2>1, <2>2 DEF Settling, Settler
<1>8. CASE Write(w)
  <2>1. h[w].pc = "write" /\ sale' = h[w].row /\ UNCHANGED <<payments, refunded, aborts>>
    BY <1>8, WrittenIsRow DEF Write, paystack
  <2>2. Smooth' => Smooth
    BY <2>1, SmoothBefore
  <2>3. (Unrecorded' <=> Unrecorded) /\ (RecordedOnce => RecordedOnce')
    BY <2>1, ConfirmationsKept
  <2>4. Settled' <=> h[w].row.paymentStatus = "PAID"
    BY <1>b, <2>1, InitialAssumption DEF Settled
  <2>5. Smooth => Unrecorded' \/ Settled'
    BY <1>c, <2>3, <2>4 DEF Settling, Settler
  <2>6. CASE h[w].then = "idle"
    <3>1. h' = [h EXCEPT ![w] = Resting]
      BY <1>8, <2>6 DEF Write, Finish
    <3> QED BY <1>c, <2>2, <2>3, <2>5, <3>1, RestingTyped, RecordedReplace
  <2>7. CASE h[w].then # "idle"
    <3> DEFINE g == [h[w] EXCEPT !.pc = h[w].then, !.diff = {}]
    <3>1. h' = [h EXCEPT ![w] = g]
      BY <1>8, <2>7 DEF Write
    <3>2. g.row = h[w].row /\ g.req = h[w].req /\ g.pc = h[w].then
      BY <1>b DEF Handler
    <3>3. g.pc \in {"record", "initialize"} /\ (g.pc = "record" => g.req.op # "chargeSuccess")
      BY <1>b, <2>7, <3>2 DEF Engaged
    <3>4. Smooth => h[w].row.paymentStatus # "PAID"
      BY <1>c, <2>7 DEF Settler
    <3> HIDE DEF g
    <3>5. Smooth => Settler(g, Settled', Unrecorded')
      BY <2>4, <3>2, <3>3, <3>4 DEF Settler
    <3> QED BY <1>c, <2>2, <2>3, <2>5, <3>1, <3>5, RecordedReplace
  <2> QED BY <2>6, <2>7
<1> QED BY <1>1, <1>2, <1>3, <1>4, <1>5, <1>6, <1>7, <1>8 DEF Step

LEMMA RecordedStays ==
    ASSUME FeesAreAmounts, OneAtATime, NoStatusUpdates, TypeInv, CopyInv, RecordedInv, [Next]_vars
    PROVE  RecordedInv'
<1>1. CASE UNCHANGED <<sale, payments, refunded, aborts, h>>
  <2>1. Smooth' <=> Smooth
    BY <1>1 DEF Smooth
  <2>2. (Unrecorded' <=> Unrecorded) /\ (RecordedOnce => RecordedOnce') /\ (Settled' <=> Settled)
    BY <1>1, ConfirmationsKept DEF Settled
  <2> QED BY <1>1, <2>1, <2>2 DEF RecordedInv, Settling, Settler
<1>2. ASSUME NEW w \in Workers, Arrive(w) \/ Notice(w) PROVE RecordedInv'
  BY <1>2, BeginningsArrive, BeginningsNotice, RecordedBegins
<1>3. ASSUME NEW w \in Workers, Step(w) PROVE RecordedInv'
  BY <1>3, RecordedStep
<1>4. ASSUME NEW w \in Workers, Abort(w) PROVE RecordedInv'
  <2>1. aborts' # 0
    BY <1>4 DEF Abort, TypeInv, Tables
  <2> QED BY <2>1 DEF RecordedInv, Smooth
<1>5. ASSUME NEW ref \in References, Pay(ref) PROVE RecordedInv'
  BY <1>1, <1>5 DEF Pay
<1> QED BY <1>1, <1>2, <1>3, <1>4, <1>5 DEF Next, vars

\* The test for "paid" in verifyAndMarkPaid is enough to record a charge once, as
\* often as Paystack repeats its webhook, for handlers that do not overlap and
\* do not fail, as long as nothing was refunded: whatever follows a recorded
\* charge leaves the sale paid.
THEOREM ChargesRecordedOnce ==
    ASSUME FeesAreAmounts, OneAtATime, NoStatusUpdates
    PROVE  Spec => []ChargeRecordedOnceSerially
<1> DEFINE Inv == TypeInv /\ CopyInv /\ RecordedInv
<1>1. Init => Inv
  <2> SUFFICES ASSUME Init PROVE Inv
    OBVIOUS
  <2>1. \A w \in Workers : h[w].pc = "idle"
    BY DEF Init, Resting
  <2>2. \A ref \in References : Confirmations(ref) = {}
    <3>1. DOMAIN payments = {}
      BY DEF Init
    <3> QED BY <3>1 DEF Confirmations
  <2> QED BY <2>1, <2>2, TypeInvInit, CopyInit DEF RecordedInv, RecordedOnce, Unrecorded
<1>2. Inv /\ [Next]_vars => Inv'
  BY TypeInvPreserved, CopyStays, RecordedStays
<1>3. Inv => ChargeRecordedOnceSerially
  BY DEF RecordedInv, RecordedOnce, Smooth, ChargeRecordedOnceSerially
<1> QED BY <1>1, <1>2, <1>3, PTL DEF Spec
=============================================================================
