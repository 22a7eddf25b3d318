--------------------------- MODULE SaleStockProofs ---------------------------
(***************************************************************************)
(* Proofs about the sales desk, for every number of batches, sales,        *)
(* workers and requests.                                                   *)
(***************************************************************************)
EXTENDS SaleStockLedger, Sums, SequenceTheorems, WellFoundedInduction, TLAPS

(***************************************************************************)
(* Type correctness.  A handler value g is sound if a request is behind    *)
(* it, an allocation is in hand inside a loop body, and assignBatches has  *)
(* found its line item.                                                    *)
(***************************************************************************)
InLoopBody == {"returnCompare", "returnWrite", "deductCompare", "deductWrite"}

Sound(g) ==
    /\ g \in Handler
    /\ g.pc # "idle" => g.req \in Requests
    /\ g.pc \in InLoopBody => g.todo # <<>> /\ Head(g.todo).alloc # <<>>
    /\ (g.pc \in {"return", "returnCompare", "returnWrite", "validate"}
          /\ g.req.op = "assignBatches")
            => IndexOf(g.row, g.req.lineItems[1].product) # 0
    /\ g.pc = "refund" => g.req.op # "assignBatches"

\* A handler about to write a sale that is not there writes every column.
WritesWhole(g, row) ==
    (g.pc \in {"saveWrite", "notify", "commit"} /\ row = NoSale) => g.diff = SaleColumns

Tables ==
    /\ batches \in [Batches -> BatchRow]
    /\ sales \in [Sales -> SaleRow \cup {NoSale}]
    /\ h \in [Workers -> Handler]
    /\ refunds \in [Sales -> Nat]
    /\ requests \in Nat
    /\ aborts \in Nat

TypeInv ==
    /\ Tables
    /\ \A w \in Workers : Sound(h[w]) /\ WritesWhole(h[w], sales[h[w].req.sale])

LEMMA MinimumExists ==
    ASSUME NEW T, T \subseteq Nat, T # {}
    PROVE  \E x \in T : \A y \in T : x =< y
<1> DEFINE less == OpToRel(<, Nat)
<1>1. \A i, j \in Nat : i < j => <<i, j>> \in less
  BY DEF OpToRel
<1>2. IsWellFoundedOn(less, Nat)
  BY NatLessThanWellFounded
<1> HIDE DEF less
<1>3. PICK x \in T : \A y \in T : ~(<<y, x>> \in less)
  BY <1>2, WFMin
<1>4. ASSUME NEW y \in T PROVE x =< y
  <2>1. x \in Nat /\ y \in Nat
    OBVIOUS
  <2>2. ~(y < x)
    BY <1>1, <1>3, <2>1
  <2> QED BY <2>1, <2>2
<1> QED BY <1>4

\* IndexOf returns a position of the line items or 0.
LEMMA IndexOfInDomain ==
    ASSUME NEW row \in SaleRow, NEW product, IndexOf(row, product) # 0
    PROVE  /\ IndexOf(row, product) \in DOMAIN row.lineItems
           /\ row.lineItems[IndexOf(row, product)] \in LineItem
<1> DEFINE matching == {i \in DOMAIN row.lineItems : row.lineItems[i].product = product}
<1>1. row.lineItems \in Seq(LineItem)
  BY DEF SaleRow
<1>2. matching \subseteq Nat
  BY <1>1
<1>3. matching # {}
  BY DEF IndexOf
<1>4. \E x \in matching : \A y \in matching : x =< y
  BY <1>2, <1>3, MinimumExists
<1>5. IndexOf(row, product) \in matching
  BY <1>3, <1>4 DEF IndexOf
<1> QED BY <1>1, <1>5

LEMMA RestingSound ==
    ASSUME NEW result \in {"none", "ok", "refused", "failed"}
    PROVE  Resting(result) \in Handler /\ Sound(Resting(result))
<1>1. EmptyRow \in SaleRow
  BY DEF EmptyRow, SaleRow, OrderStatus, PaymentStatus
<1>2. EmptyBatch \in BatchRow
  BY DEF EmptyBatch, BatchRow
<1>3. Resting(result) \in Handler
  BY <1>1, <1>2 DEF Resting, Handler, PC
<1> QED BY <1>3 DEF Resting, Sound, InLoopBody

LEMMA HandlingSound ==
    ASSUME NEW r \in Requests, NEW pc \in {"refund", "return", "validate", "save"},
           NEW row \in SaleRow, NEW todo \in Seq(LineItem),
           (pc \in {"return", "validate"} /\ r.op = "assignBatches")
              => IndexOf(row, r.lineItems[1].product) # 0,
           pc = "refund" => r.op # "assignBatches"
    PROVE  Sound(Handling(r, pc, row, todo))
<1>1. Resting("none") \in Handler
  BY RestingSound
<1>2. r \in Request
  BY RequestsAssumption
<1>3. Handling(r, pc, row, todo) \in Handler
  BY <1>1, <1>2 DEF Handling, Handler, PC
<1> QED BY <1>1, <1>3 DEF Handling, Sound, InLoopBody, Handler

LEMMA NextAllocationSound ==
    ASSUME TypeInv, NEW w \in Workers, AtAllocation(w),
           NEW pc \in {"return", "validate", "deduct"},
           h[w].pc # "idle",
           (pc \in {"return", "validate"} /\ h[w].req.op = "assignBatches")
              => IndexOf(h[w].row, h[w].req.lineItems[1].product) # 0
    PROVE  /\ NextAllocation(w, pc) \in Handler
           /\ Sound(NextAllocation(w, pc))
<1> DEFINE item == Head(h[w].todo)
<1>1. h[w] \in Handler /\ h[w].todo \in Seq(LineItem) /\ h[w].todo # <<>>
  BY DEF TypeInv, Tables, AtAllocation, Handler
<1>2. item \in LineItem /\ Tail(h[w].todo) \in Seq(LineItem)
  BY <1>1
<1>3. item.alloc \in Seq(Allocation) /\ item.alloc # <<>>
  BY <1>2 DEF LineItem, AtAllocation
<1>4. Head(item.alloc) \in Allocation /\ Tail(item.alloc) \in Seq(Allocation)
  BY <1>3
<1>5. [item EXCEPT !.alloc = Tail(item.alloc)] \in LineItem
  BY <1>2, <1>4 DEF LineItem
<1>6. Advanced(h[w].todo) \in Seq(LineItem)
  BY <1>2, <1>5 DEF Advanced
<1>7. EmptyBatch \in BatchRow /\ Alloc(w).quantity \in Nat
  BY <1>4 DEF EmptyBatch, BatchRow, Alloc, Allocation
<1>8. NextAllocation(w, pc) \in Handler
  <2>1. h[w].total + Alloc(w).quantity \in Nat
    BY <1>1, <1>7 DEF Handler
  <2> QED BY <1>1, <1>6, <1>7, <2>1 DEF NextAllocation, Handler, PC
<1>9. /\ NextAllocation(w, pc).pc = pc
      /\ NextAllocation(w, pc).req = h[w].req
      /\ NextAllocation(w, pc).row = h[w].row
  BY <1>1 DEF NextAllocation, Handler
<1>10. h[w].req \in Requests
  BY DEF TypeInv, Sound
<1> QED BY <1>8, <1>9, <1>10 DEF Sound, InLoopBody

LEMMA BatchSeenByType ==
    ASSUME TypeInv, NEW w \in Workers, NEW b \in Batches
    PROVE  BatchSeenBy(w, b) \in BatchRow
  BY DEF TypeInv, Tables, BatchSeenBy, Handler

LEMMA AllocType ==
    ASSUME TypeInv, NEW w \in Workers, AtAllocation(w)
    PROVE  /\ Head(h[w].todo) \in LineItem
           /\ Alloc(w) \in Allocation
           /\ Alloc(w).batch \in Batches
           /\ Alloc(w).quantity \in Nat \ {0}
<1>1. h[w].todo \in Seq(LineItem) /\ h[w].todo # <<>>
  BY DEF TypeInv, Tables, AtAllocation, Handler
<1>2. Head(h[w].todo) \in LineItem
  BY <1>1
<1>3. /\ Head(h[w].todo).alloc \in Seq(Allocation)
      /\ Head(h[w].todo).alloc # <<>>
  BY <1>2 DEF LineItem, AtAllocation
<1>4. Alloc(w) \in Allocation
  BY <1>3 DEF Alloc
<1> QED BY <1>2, <1>4 DEF Allocation

LEMMA ReturnedType ==
    ASSUME NEW batch \in BatchRow, NEW n \in Nat
    PROVE  Returned(batch, n) \in BatchRow /\ Deducted(batch, n) \in BatchRow
<1>1. batch.quantity \in Int /\ batch.isActive \in BOOLEAN
  BY DEF BatchRow
<1>2. batch.quantity + n \in Int /\ batch.quantity - n \in Int
  BY <1>1
<1>3. /\ (IF batch.quantity + n > 0 THEN TRUE ELSE batch.isActive) \in BOOLEAN
      /\ (IF batch.quantity - n =< 0 THEN FALSE ELSE batch.isActive) \in BOOLEAN
  BY <1>1, Zenon
<1> QED BY <1>2, <1>3 DEF Returned, Deducted, BatchRow

LEMMA UpdatedBatchType ==
    ASSUME NEW row \in BatchRow, NEW entity \in BatchRow, NEW diff
    PROVE  UpdatedBatch(row, entity, diff) \in BatchRow
  BY DEF UpdatedBatch, Set, BatchRow

LEMMA UpdatedSaleType ==
    ASSUME NEW row \in SaleRow \cup {NoSale}, NEW entity \in SaleRow, NEW diff,
           row = NoSale => diff = SaleColumns
    PROVE  UpdatedSale(row, entity, diff) \in SaleRow
<1>1. CASE row \in SaleRow
  BY <1>1 DEF UpdatedSale, Set, SaleRow
<1>2. CASE row = NoSale
  BY <1>2 DEF UpdatedSale, Set, SaleRow, SaleColumns
<1> QED BY <1>1, <1>2

LEMMA RequestType ==
    ASSUME NEW r \in Requests
    PROVE  /\ r \in Request
           /\ r.sale \in Sales
           /\ r.lineItems \in Seq(LineItem)
  BY RequestsAssumption DEF Request

\* A step of one handler; no row of the sale table goes away.
LEMMA TableStep ==
    ASSUME TypeInv, NEW w \in Workers, NEW g, Sound(g),
           WritesWhole(g, sales'[g.req.sale]),
           h' = [h EXCEPT ![w] = g],
           batches' \in [Batches -> BatchRow],
           sales' \in [Sales -> SaleRow \cup {NoSale}],
           \A s \in Sales : sales'[s] = NoSale => sales[s] = NoSale,
           refunds' \in [Sales -> Nat], requests' \in Nat, aborts' \in Nat
    PROVE  TypeInv'
<1>1. g \in Handler
  BY DEF Sound
<1>2. h' \in [Workers -> Handler]
  BY <1>1 DEF TypeInv, Tables
<1>3. Tables'
  BY <1>2 DEF Tables
<1>4. ASSUME NEW v \in Workers
      PROVE  Sound(h'[v]) /\ WritesWhole(h'[v], sales'[h'[v].req.sale])
  <2>1. CASE v = w
    BY <2>1 DEF TypeInv, Tables
  <2>2. CASE v # w
    <3>1. h'[v] = h[v] /\ Sound(h[v]) /\ WritesWhole(h[v], sales[h[v].req.sale])
      BY <2>2 DEF TypeInv, Tables
    <3>2. h[v].pc # "idle" => h[v].req.sale \in Sales
      BY <3>1, RequestType DEF Sound
    <3> QED BY <3>1, <3>2 DEF WritesWhole
  <2> QED BY <2>1, <2>2
<1>5. \A v \in Workers : Sound(h[v])' /\ WritesWhole(h[v], sales[h[v].req.sale])'
  BY <1>4 DEF Sound, WritesWhole
<1> QED BY <1>3, <1>5 DEF TypeInv

\* A step that changes one handler and no row.
LEMMA HandlerStep ==
    ASSUME TypeInv, NEW w \in Workers, NEW g, Sound(g),
           WritesWhole(g, sales[g.req.sale]),
           h' = [h EXCEPT ![w] = g],
           UNCHANGED <<batches, sales>>,
           refunds' \in [Sales -> Nat], requests' \in Nat, aborts' \in Nat
    PROVE  TypeInv'
<1>1. /\ batches' \in [Batches -> BatchRow]
      /\ sales' \in [Sales -> SaleRow \cup {NoSale}]
      /\ sales' = sales
  BY DEF TypeInv, Tables
<1> QED BY <1>1, TableStep

\* A step that answers a request and changes no row.
LEMMA AnswerStep ==
    ASSUME TypeInv, NEW w \in Workers,
           NEW result \in {"none", "ok", "refused", "failed"}, Answer(w, result),
           UNCHANGED <<batches, sales, refunds>>, requests' \in Nat, aborts' \in Nat
    PROVE  TypeInv'
<1>1. Sound(Resting(result))
  BY RestingSound
<1>2. WritesWhole(Resting(result), sales[Resting(result).req.sale])
  BY DEF WritesWhole, Resting
<1>3. refunds' \in [Sales -> Nat]
  BY DEF TypeInv, Tables
<1> QED BY <1>1, <1>2, <1>3, HandlerStep DEF Answer

LEMMA InitTypeInv == Init => TypeInv
<1> SUFFICES ASSUME Init PROVE TypeInv
  OBVIOUS
<1>1. Resting("none") \in Handler /\ Sound(Resting("none"))
  BY RestingSound
<1>2. Tables
  BY <1>1, InitialAssumption DEF Init, Tables
<1>3. \A w \in Workers : h[w] = Resting("none")
  BY DEF Init
<1>4. \A row : WritesWhole(Resting("none"), row)
  BY DEF WritesWhole, Resting
<1> QED BY <1>1, <1>2, <1>3, <1>4 DEF TypeInv

(***************************************************************************)
(* Requests arriving.                                                      *)
(***************************************************************************)
LEMMA RefuseStep ==
    ASSUME TypeInv, NEW w \in Workers, NEW r \in Requests, Receive(w, r), Refuse(w)
    PROVE  TypeInv'
<1>1. requests' \in Nat /\ aborts' \in Nat
  BY DEF TypeInv, Tables, Receive
<1> QED BY <1>1, AnswerStep DEF Refuse, Receive

LEMMA ProceedStep ==
    ASSUME TypeInv, NEW w \in Workers, NEW r \in Requests, Receive(w, r),
           NEW pc \in {"refund", "return", "validate", "save"},
           NEW row \in SaleRow, NEW todo \in Seq(LineItem),
           (pc \in {"return", "validate"} /\ r.op = "assignBatches")
              => IndexOf(row, r.lineItems[1].product) # 0,
           pc = "refund" => r.op # "assignBatches",
           Proceed(w, r, pc, row, todo)
    PROVE  TypeInv'
<1> DEFINE g == Handling(r, pc, row, todo)
<1>1. Sound(g)
  BY HandlingSound
<1>2. g.pc = pc
  BY RestingSound DEF Handling, Handler
<1>3. WritesWhole(g, sales[g.req.sale])
  BY <1>2 DEF WritesWhole
<1>4. refunds' \in [Sales -> Nat] /\ requests' \in Nat /\ aborts' \in Nat
  BY DEF TypeInv, Tables, Receive
<1>5. h' = [h EXCEPT ![w] = g] /\ UNCHANGED <<batches, sales>>
  BY DEF Proceed, Receive
<1> HIDE DEF g
<1> QED BY <1>1, <1>3, <1>4, <1>5, HandlerStep

LEMMA FoundType ==
    ASSUME TypeInv, NEW s \in Sales, Found(s)
    PROVE  sales[s] \in SaleRow /\ sales[s].lineItems \in Seq(LineItem)
  BY DEF TypeInv, Tables, Found, SaleRow

LEMMA CreateSaleStep ==
    ASSUME TypeInv, NEW w \in Workers, NEW r \in Requests, CreateSale(w, r)
    PROVE  TypeInv'
<1> DEFINE row == [EmptyRow EXCEPT
                      !.orderStatus = Chosen(r.orderStatus, "PENDING"),
                      !.paymentStatus = Chosen(r.paymentStatus, "INVOICE_REQUESTED"),
                      !.lineItems = r.lineItems]
<1>1. r \in Request /\ r.lineItems \in Seq(LineItem)
  BY RequestType
<1>2. row \in SaleRow
  BY <1>1 DEF EmptyRow, SaleRow, Chosen, Request, OrderStatus, PaymentStatus, Unset
<1>3. Receive(w, r) /\ Proceed(w, r, "validate", row, r.lineItems) /\ r.op = "createSale"
  BY DEF CreateSale
<1> HIDE DEF row
<1> QED BY <1>1, <1>2, <1>3, ProceedStep

LEMMA AddLineItemStep ==
    ASSUME TypeInv, NEW w \in Workers, NEW r \in Requests, AddLineItem(w, r)
    PROVE  TypeInv'
<1> DEFINE row == [sales[r.sale] EXCEPT !.lineItems = @ \o r.lineItems]
<1>1. Receive(w, r)
  BY DEF AddLineItem
<1>2. r.sale \in Sales /\ r.lineItems \in Seq(LineItem)
  BY RequestType
<1>3. CASE Found(r.sale) /\ sales[r.sale].paymentStatus # "PAID"
  <2>1. sales[r.sale] \in SaleRow /\ sales[r.sale].lineItems \in Seq(LineItem)
    BY <1>2, <1>3, FoundType
  <2>2. sales[r.sale].lineItems \o r.lineItems \in Seq(LineItem)
    BY <1>2, <2>1
  <2>3. row \in SaleRow
    BY <2>1, <2>2 DEF SaleRow
  <2>4. Proceed(w, r, "save", row, <<>>)
    BY <1>3 DEF AddLineItem
  <2>5. <<>> \in Seq(LineItem)
    OBVIOUS
  <2> HIDE DEF row
  <2> QED BY <1>1, <2>3, <2>4, <2>5, ProceedStep
<1>4. CASE ~(Found(r.sale) /\ sales[r.sale].paymentStatus # "PAID")
  BY <1>1, <1>4, RefuseStep DEF AddLineItem
<1> QED BY <1>3, <1>4

LEMMA AssignBatchesStep ==
    ASSUME TypeInv, NEW w \in Workers, NEW r \in Requests, AssignBatches(w, r)
    PROVE  TypeInv'
<1> DEFINE accepted == /\ Found(r.sale)
                       /\ sales[r.sale].paymentStatus # "PAID"
                       /\ IndexOf(sales[r.sale], r.lineItems[1].product) # 0
           item == sales[r.sale].lineItems[IndexOf(sales[r.sale], r.lineItems[1].product)]
<1>1. Receive(w, r) /\ r.sale \in Sales
  BY RequestType DEF AssignBatches
<1>2. CASE accepted
  <2>1. sales[r.sale] \in SaleRow
    BY <1>1, <1>2, FoundType
  <2>2. item \in LineItem
    BY <1>2, <2>1, IndexOfInDomain
  <2>3. Proceed(w, r, "return", sales[r.sale], <<item>>)
    BY <1>2 DEF AssignBatches
  <2>4. <<item>> \in Seq(LineItem)
    BY <2>2
  <2>5. IndexOf(sales[r.sale], r.lineItems[1].product) # 0
    BY <1>2
  <2> HIDE DEF item
  <2> QED BY <1>1, <2>1, <2>3, <2>4, <2>5, ProceedStep
<1>3. CASE ~accepted
  BY <1>1, <1>3, RefuseStep DEF AssignBatches
<1> QED BY <1>2, <1>3

LEMMA UpdateSaleStep ==
    ASSUME TypeInv, NEW w \in Workers, NEW r \in Requests, UpdateSale(w, r)
    PROVE  TypeInv'
<1> DEFINE accepted == /\ Found(r.sale)
                       /\ sales[r.sale].orderStatus \notin {"IN_TRANSIT", "DELIVERED"}
                       /\ r.deliveryFee => sales[r.sale].paymentStatus = "AWAITING_DELIVERY"
           pc == IF r.edits THEN "return" ELSE "save"
           row == [sales[r.sale] EXCEPT !.orderStatus = Chosen(r.orderStatus, @),
                                        !.paymentStatus = Chosen(r.paymentStatus, @)]
           todo == IF r.edits THEN sales[r.sale].lineItems ELSE <<>>
<1>1. Receive(w, r) /\ r \in Request /\ r.sale \in Sales /\ r.op = "updateSale"
  BY RequestType DEF UpdateSale
<1>2. CASE accepted
  <2>1. sales[r.sale] \in SaleRow /\ sales[r.sale].lineItems \in Seq(LineItem)
    BY <1>1, <1>2, FoundType
  <2>2. row \in SaleRow
    BY <1>1, <2>1 DEF SaleRow, Chosen, Request
  <2>3. todo \in Seq(LineItem) /\ pc \in {"return", "save"}
    BY <2>1
  <2>4. Proceed(w, r, pc, row, todo)
    BY <1>2 DEF UpdateSale
  <2> HIDE DEF row, todo, pc
  <2> QED BY <1>1, <2>2, <2>3, <2>4, ProceedStep
<1>3. CASE ~accepted
  BY <1>1, <1>3, RefuseStep DEF UpdateSale
<1> QED BY <1>2, <1>3

LEMMA UpdateSaleStatusStep ==
    ASSUME TypeInv, NEW w \in Workers, NEW r \in Requests, UpdateSaleStatus(w, r)
    PROVE  TypeInv'
<1> DEFINE accepted == /\ Found(r.sale)
                       /\ ValidStatusChange(sales[r.sale], r.orderStatus, r.paymentStatus)
           row == [sales[r.sale] EXCEPT !.orderStatus = Chosen(r.orderStatus, @),
                                        !.paymentStatus = Chosen(r.paymentStatus, @)]
<1>1. Receive(w, r) /\ r \in Request /\ r.sale \in Sales
  BY RequestType DEF UpdateSaleStatus
<1>2. CASE accepted
  <2>1. sales[r.sale] \in SaleRow
    BY <1>1, <1>2, FoundType
  <2>2. row \in SaleRow
    BY <1>1, <2>1 DEF SaleRow, Chosen, Request
  <2>3. Proceed(w, r, "save", row, <<>>)
    BY <1>2 DEF UpdateSaleStatus
  <2>4. <<>> \in Seq(LineItem)
    OBVIOUS
  <2> HIDE DEF row
  <2> QED BY <1>1, <2>2, <2>3, <2>4, ProceedStep
<1>3. CASE ~accepted
  BY <1>1, <1>3, RefuseStep DEF UpdateSaleStatus
<1> QED BY <1>2, <1>3

LEMMA ConfirmDeliveryStep ==
    ASSUME TypeInv, NEW w \in Workers, NEW r \in Requests, ConfirmDelivery(w, r)
    PROVE  TypeInv'
<1> DEFINE row == [sales[r.sale] EXCEPT !.confirmed = r.confirmed]
<1>1. Receive(w, r) /\ r \in Request /\ r.sale \in Sales
  BY RequestType DEF ConfirmDelivery
<1>2. CASE Found(r.sale)
  <2>1. sales[r.sale] \in SaleRow
    BY <1>1, <1>2, FoundType
  <2>2. row \in SaleRow
    BY <1>1, <2>1 DEF SaleRow, Request
  <2>3. Proceed(w, r, "save", row, <<>>)
    BY <1>2 DEF ConfirmDelivery
  <2>4. <<>> \in Seq(LineItem)
    OBVIOUS
  <2> HIDE DEF row
  <2> QED BY <1>1, <2>2, <2>3, <2>4, ProceedStep
<1>3. CASE ~Found(r.sale)
  BY <1>1, <1>3, RefuseStep DEF ConfirmDelivery
<1> QED BY <1>2, <1>3

LEMMA CancelFromStep ==
    ASSUME TypeInv, NEW w \in Workers, NEW r \in Requests, Receive(w, r),
           r.op \in {"cancelSaleByCustomer", "cancelSaleByAdmin"},
           Found(r.sale), CancelFrom(w, r)
    PROVE  TypeInv'
<1> DEFINE pc == IF sales[r.sale].paymentStatus = "PAID" /\ sales[r.sale].reference
                   THEN "refund" ELSE "return"
           row == [sales[r.sale] EXCEPT !.orderStatus = "CANCELLED"]
<1>1. r.sale \in Sales
  BY RequestType
<1>2. sales[r.sale] \in SaleRow /\ sales[r.sale].lineItems \in Seq(LineItem)
  BY <1>1, FoundType
<1>3. row \in SaleRow /\ pc \in {"refund", "return"}
  BY <1>2 DEF SaleRow, OrderStatus
<1>4. Proceed(w, r, pc, row, sales[r.sale].lineItems)
  BY DEF CancelFrom
<1> HIDE DEF row, pc
<1> QED BY <1>2, <1>3, <1>4, ProceedStep

LEMMA CancelSaleByCustomerStep ==
    ASSUME TypeInv, NEW w \in Workers, NEW r \in Requests, CancelSaleByCustomer(w, r)
    PROVE  TypeInv'
  BY CancelFromStep, RefuseStep DEF CancelSaleByCustomer

LEMMA CancelSaleByAdminStep ==
    ASSUME TypeInv, NEW w \in Workers, NEW r \in Requests, CancelSaleByAdmin(w, r)
    PROVE  TypeInv'
  BY CancelFromStep, RefuseStep DEF CancelSaleByAdmin

LEMMA CancelSaleStep ==
    ASSUME TypeInv, NEW w \in Workers, NEW r \in Requests, CancelSale(w, r)
    PROVE  TypeInv'
<1> DEFINE row == [sales[r.sale] EXCEPT !.orderStatus = "CANCELLED", !.deleted = TRUE]
<1>1. Receive(w, r) /\ r.sale \in Sales /\ r.op = "cancelSale"
  BY RequestType DEF CancelSale
<1>2. CASE Found(r.sale)
  <2>1. sales[r.sale] \in SaleRow /\ sales[r.sale].lineItems \in Seq(LineItem)
    BY <1>1, <1>2, FoundType
  <2>2. row \in SaleRow
    BY <2>1 DEF SaleRow, OrderStatus
  <2>3. Proceed(w, r, "return", row, sales[r.sale].lineItems)
    BY <1>2 DEF CancelSale
  <2> HIDE DEF row
  <2> QED BY <1>1, <2>1, <2>2, <2>3, ProceedStep
<1>3. CASE ~Found(r.sale)
  BY <1>1, <1>3, RefuseStep DEF CancelSale
<1> QED BY <1>2, <1>3

(***************************************************************************)
(* Handlers at work.                                                       *)
(***************************************************************************)
LEMMA RefundStep ==
    ASSUME TypeInv, NEW w \in Workers, Refund(w) \/ RefundFails(w)
    PROVE  TypeInv'
<1>1. CASE Refund(w)
  <2> DEFINE g == [h[w] EXCEPT !.pc = "return", !.row.paymentStatus = "REFUNDED"]
  <2>1. h[w] \in Handler /\ Sound(h[w]) /\ h[w].pc = "refund" /\ h[w].req \in Requests
    BY <1>1 DEF TypeInv, Tables, Sound, Refund
  <2>2. [h[w].row EXCEPT !.paymentStatus = "REFUNDED"] \in SaleRow
    BY <2>1 DEF Handler, SaleRow, PaymentStatus
  <2>3. g \in Handler
    BY <2>1, <2>2 DEF Handler, PC
  <2>4. g.pc = "return" /\ g.req = h[w].req
    BY <2>1 DEF Handler
  <2>5. Sound(g)
    BY <2>1, <2>3, <2>4 DEF Sound, InLoopBody
  <2>6. WritesWhole(g, sales[g.req.sale])
    BY <2>4 DEF WritesWhole
  <2>7. refunds' \in [Sales -> Nat] /\ requests' \in Nat /\ aborts' \in Nat
    <3>1. refunds \in [Sales -> Nat] /\ requests \in Nat /\ aborts \in Nat
      BY DEF TypeInv, Tables
    <3>2. /\ refunds' = [refunds EXCEPT ![h[w].req.sale] = refunds[h[w].req.sale] + 1]
          /\ UNCHANGED <<requests, aborts>>
      BY <1>1 DEF Refund
    <3>3. h[w].req.sale \in Sales
      BY <2>1, RequestType
    <3>4. refunds[h[w].req.sale] + 1 \in Nat
      BY <3>1, <3>3
    <3> QED BY <3>1, <3>2, <3>4
  <2>8. h' = [h EXCEPT ![w] = g] /\ UNCHANGED <<batches, sales>>
    BY <1>1 DEF Refund
  <2> HIDE DEF g
  <2> QED BY <2>5, <2>6, <2>7, <2>8, HandlerStep
<1>2. CASE RefundFails(w)
  BY <1>2, AnswerStep DEF RefundFails, TypeInv, Tables
<1> QED BY <1>1, <1>2

\* A step that only changes its own handler.
LEMMA LocalStep ==
    ASSUME TypeInv, NEW w \in Workers, NEW g, Sound(g),
           WritesWhole(g, sales[g.req.sale]),
           h' = [h EXCEPT ![w] = g],
           UNCHANGED <<batches, sales, refunds, requests, aborts>>
    PROVE  TypeInv'
<1>1. refunds' \in [Sales -> Nat] /\ requests' \in Nat /\ aborts' \in Nat
  BY DEF TypeInv, Tables
<1> QED BY <1>1, HandlerStep

LEMMA FailStep ==
    ASSUME TypeInv, NEW w \in Workers, Answer(w, "failed"),
           UNCHANGED <<batches, sales, refunds, requests, aborts>>
    PROVE  TypeInv'
<1>1. requests' \in Nat /\ aborts' \in Nat
  BY DEF TypeInv, Tables
<1> QED BY <1>1, AnswerStep

\* A handler at work, as the lemmas below use it.
LEMMA AtWork ==
    ASSUME TypeInv, NEW w \in Workers, h[w].pc # "idle"
    PROVE  /\ h[w] \in Handler
           /\ Sound(h[w])
           /\ h[w].req \in Requests
           /\ h[w].req \in Request
           /\ h[w].req.sale \in Sales
           /\ h[w].req.lineItems \in Seq(LineItem)
           /\ h[w].row \in SaleRow
           /\ h[w].todo \in Seq(LineItem)
<1>1. h[w] \in Handler /\ Sound(h[w]) /\ h[w].req \in Requests
  BY DEF TypeInv, Tables, Sound
<1> QED BY <1>1, RequestType DEF Handler

LEMMA ReturnFindStep ==
    ASSUME TypeInv, NEW w \in Workers, ReturnFind(w)
    PROVE  TypeInv'
<1> DEFINE entity == Returned(BatchSeenBy(w, Alloc(w).batch), Alloc(w).quantity)
           g == [h[w] EXCEPT !.pc = "returnCompare", !.batch = entity]
<1>1. h[w].pc = "return" /\ AtAllocation(w)
  BY DEF ReturnFind
<1>2. h[w] \in Handler /\ Sound(h[w])
  BY <1>1, AtWork
<1>3. entity \in BatchRow
  BY <1>1, AllocType, BatchSeenByType, ReturnedType
<1>4. /\ g \in Handler
      /\ g.pc = "returnCompare" /\ g.req = h[w].req
      /\ g.row = h[w].row /\ g.todo = h[w].todo
  <2> HIDE DEF entity
  <2> QED BY <1>2, <1>3 DEF Handler, PC
<1>5. Sound(g)
  BY <1>1, <1>2, <1>4 DEF Sound, InLoopBody, AtAllocation
<1>6. h' = [h EXCEPT ![w] = g] /\ UNCHANGED <<batches, sales, refunds, requests, aborts>>
  BY DEF ReturnFind
<1> HIDE DEF g
<1> QED BY <1>4, <1>5, <1>6, LocalStep DEF WritesWhole

LEMMA ValidateAllocationStep ==
    ASSUME TypeInv, NEW w \in Workers, ValidateAllocation(w)
    PROVE  TypeInv'
<1> DEFINE g == NextAllocation(w, "validate")
<1>1. /\ h[w].pc = "validate" /\ AtAllocation(w)
      /\ UNCHANGED <<batches, sales, refunds, requests, aborts>>
      /\ h' = [h EXCEPT ![w] = g] \/ Answer(w, "failed")
  BY DEF ValidateAllocation
<1>2. h[w] \in Handler /\ Sound(h[w])
  BY <1>1, AtWork
<1>3. Sound(g)
  BY <1>1, <1>2, NextAllocationSound DEF Sound
<1>4. g.pc = "validate"
  BY <1>2 DEF NextAllocation, Handler
<1> HIDE DEF g
<1> QED BY <1>1, <1>3, <1>4, LocalStep, FailStep DEF WritesWhole

LEMMA DeductFindStep ==
    ASSUME TypeInv, NEW w \in Workers, DeductFind(w)
    PROVE  TypeInv'
<1> DEFINE entity == Deducted(BatchSeenBy(w, Alloc(w).batch), Alloc(w).quantity)
           g == [h[w] EXCEPT !.pc = "deductCompare", !.batch = entity]
<1>1. h[w].pc = "deduct" /\ AtAllocation(w)
  BY DEF DeductFind
<1>2. h[w] \in Handler /\ Sound(h[w])
  BY <1>1, AtWork
<1>3. entity \in BatchRow
  BY <1>1, AllocType, BatchSeenByType, ReturnedType
<1>4. /\ g \in Handler
      /\ g.pc = "deductCompare" /\ g.req = h[w].req
      /\ g.row = h[w].row /\ g.todo = h[w].todo
  <2> HIDE DEF entity
  <2> QED BY <1>2, <1>3 DEF Handler, PC
<1>5. Sound(g)
  BY <1>1, <1>2, <1>4 DEF Sound, InLoopBody, AtAllocation
<1>6. /\ h' = [h EXCEPT ![w] = g] \/ Answer(w, "failed")
      /\ UNCHANGED <<batches, sales, refunds, requests, aborts>>
  BY DEF DeductFind
<1> HIDE DEF g
<1> QED BY <1>4, <1>5, <1>6, LocalStep, FailStep DEF WritesWhole

LEMMA CompareBatchStep ==
    ASSUME TypeInv, NEW w \in Workers, CompareBatch(w)
    PROVE  TypeInv'
<1> DEFINE next == IF h[w].pc = "returnCompare" THEN "returnWrite" ELSE "deductWrite"
           g == [h[w] EXCEPT !.pc = next, !.diff = BatchDiff(w)]
<1>1. h[w].pc \in {"returnCompare", "deductCompare"}
  BY DEF CompareBatch
<1>2. h[w] \in Handler /\ Sound(h[w])
  BY <1>1, AtWork
<1>3. BatchDiff(w) \subseteq BatchColumns \cup SaleColumns
  BY DEF BatchDiff, Differing
<1>4. /\ g \in Handler
      /\ g.pc = next /\ g.req = h[w].req
      /\ g.row = h[w].row /\ g.todo = h[w].todo
  BY <1>2, <1>3 DEF Handler, PC
<1>5. Sound(g)
  BY <1>1, <1>2, <1>4 DEF Sound, InLoopBody
<1>6. /\ h' = [h EXCEPT ![w] = g]
      /\ UNCHANGED <<batches, sales, refunds, requests, aborts>>
  BY DEF CompareBatch
<1> HIDE DEF g
<1> QED BY <1>4, <1>5, <1>6, LocalStep DEF WritesWhole

LEMMA WriteBatchStep ==
    ASSUME TypeInv, NEW w \in Workers, WriteBatch(w)
    PROVE  TypeInv'
<1> DEFINE pc == IF h[w].pc = "returnWrite" THEN "return" ELSE "deduct"
           b == Alloc(w).batch
           row == UpdatedBatch(BatchSeenBy(w, b), h[w].batch, h[w].diff)
           g == Written(w, pc, row)
           next == NextAllocation(w, pc)
<1>1. h[w].pc \in {"returnWrite", "deductWrite"}
  BY DEF WriteBatch
<1>2. h[w] \in Handler /\ Sound(h[w])
  BY <1>1, AtWork
<1>3. AtAllocation(w)
  BY <1>1, <1>2 DEF Sound, InLoopBody, AtAllocation
<1>4. b \in Batches
  BY <1>3, AllocType
<1>5. row \in BatchRow
  BY <1>2, <1>4, BatchSeenByType, UpdatedBatchType DEF Handler
<1>6. pc \in {"return", "deduct"}
  OBVIOUS
<1>7. (pc = "return" /\ h[w].req.op = "assignBatches")
         => IndexOf(h[w].row, h[w].req.lineItems[1].product) # 0
  BY <1>1, <1>2 DEF Sound
<1>8. next \in Handler /\ Sound(next) /\ next.pc = pc
  <2>1. next \in Handler /\ Sound(next)
    <3> HIDE DEF pc
    <3> QED BY <1>1, <1>3, <1>6, <1>7, NextAllocationSound
  <2>2. next.pc = pc
    BY <1>2 DEF NextAllocation, Handler
  <2> QED BY <2>1, <2>2
<1>9. Sound(g) /\ g.pc = pc
  <2> HIDE DEF pc, row, next
  <2>1. CASE ~(InTransaction(w) /\ h[w].diff # {})
    BY <1>8, <2>1 DEF Written, next
  <2>2. CASE InTransaction(w) /\ h[w].diff # {}
    <3>1. g = [next EXCEPT !.dirty = next.dirty \cup {b}, !.view = [next.view EXCEPT ![b] = row]]
      BY <2>2 DEF Written, next
    <3>2. next.dirty \cup {b} \in SUBSET Batches /\ [next.view EXCEPT ![b] = row] \in [Batches -> BatchRow]
      BY <1>4, <1>5, <1>8 DEF Handler
    <3> HIDE DEF b, g
    <3>3. /\ g \in Handler /\ g.pc = next.pc /\ g.req = next.req
          /\ g.row = next.row /\ g.todo = next.todo
      BY <1>8, <3>1, <3>2 DEF Handler
    <3> QED BY <1>8, <3>3 DEF Sound
  <2> QED BY <2>1, <2>2
<1>10. batches' \in [Batches -> BatchRow]
  <2>1. batches \in [Batches -> BatchRow]
    BY DEF TypeInv, Tables
  <2>2. batches' = batches \/ batches' = [batches EXCEPT ![b] = row]
    BY DEF WriteBatch
  <2> HIDE DEF row, b
  <2> QED BY <1>5, <2>1, <2>2
<1>11. /\ UNCHANGED <<sales, refunds, requests, aborts>>
       /\ h' = [h EXCEPT ![w] = g]
  BY DEF WriteBatch
<1>12. /\ sales \in [Sales -> SaleRow \cup {NoSale}] /\ refunds \in [Sales -> Nat]
       /\ requests \in Nat /\ aborts \in Nat
  BY DEF TypeInv, Tables
<1>13. WritesWhole(g, sales'[g.req.sale])
  <2> HIDE DEF g
  <2> QED BY <1>6, <1>9 DEF WritesWhole
<1> HIDE DEF g, pc
<1> QED BY <1>9, <1>10, <1>11, <1>12, <1>13, TableStep

LEMMA EndItemStep ==
    ASSUME TypeInv, NEW w \in Workers, EndItem(w)
    PROVE  TypeInv'
<1> DEFINE g == [h[w] EXCEPT !.todo = Tail(h[w].todo), !.total = 0]
<1>1. h[w].pc \in {"return", "validate", "deduct"} /\ h[w].todo # <<>>
  BY DEF EndItem, AtItemEnd
<1>2. h[w] \in Handler /\ Sound(h[w]) /\ Tail(h[w].todo) \in Seq(LineItem)
  BY <1>1, AtWork
<1>3. g \in Handler /\ g.pc = h[w].pc /\ g.req = h[w].req /\ g.row = h[w].row
  BY <1>2 DEF Handler
<1>4. Sound(g)
  BY <1>1, <1>2, <1>3 DEF Sound, InLoopBody
<1>5. /\ h' = [h EXCEPT ![w] = g] \/ Answer(w, "failed")
      /\ UNCHANGED <<batches, sales, refunds, requests, aborts>>
  BY DEF EndItem
<1> HIDE DEF g
<1> QED BY <1>1, <1>3, <1>4, <1>5, LocalStep, FailStep DEF WritesWhole

\* assignBatches: its line item with the new allocations.
LEMMA AssignedType ==
    ASSUME TypeInv, NEW w \in Workers, h[w].pc \in {"return", "validate"},
           h[w].req.op = "assignBatches"
    PROVE  Assigned(w) \in LineItem
<1>1. /\ h[w] \in Handler /\ Sound(h[w]) /\ h[w].row \in SaleRow
      /\ h[w].req.lineItems \in Seq(LineItem) /\ h[w].req \in Requests
  BY AtWork
<1>2. IndexOf(h[w].row, h[w].req.lineItems[1].product) # 0
  BY <1>1 DEF Sound
<1>3. h[w].row.lineItems[IndexOf(h[w].row, h[w].req.lineItems[1].product)] \in LineItem
  BY <1>1, <1>2, IndexOfInDomain
<1>4. Len(h[w].req.lineItems) = 1
  BY <1>1, RequestsAssumption
<1>5. h[w].req.lineItems[1] \in LineItem
  BY <1>1, <1>4
<1>6. h[w].req.lineItems[1].alloc \in Seq(Allocation)
  BY <1>5 DEF LineItem
<1> QED BY <1>3, <1>6 DEF Assigned, LineItem

LEMMA AfterReturnSound ==
    ASSUME TypeInv, NEW w \in Workers, h[w].pc = "return"
    PROVE  Sound(AfterReturn(w)) /\ AfterReturn(w).pc \in {"validate", "save"}
<1>1. /\ h[w] \in Handler /\ Sound(h[w])
      /\ h[w].req.lineItems \in Seq(LineItem)
  BY AtWork
<1>2. CASE h[w].req.op = "updateSale"
  <2> DEFINE g == [h[w] EXCEPT !.pc = "validate", !.todo = h[w].req.lineItems]
  <2>1. g \in Handler /\ g.pc = "validate" /\ g.req = h[w].req /\ g.row = h[w].row
    BY <1>1 DEF Handler, PC
  <2>2. AfterReturn(w) = g
    BY <1>2 DEF AfterReturn
  <2> HIDE DEF g
  <2> QED BY <1>1, <1>2, <2>1, <2>2 DEF Sound, InLoopBody
<1>3. CASE h[w].req.op = "assignBatches"
  <2> DEFINE g == [h[w] EXCEPT !.pc = "validate", !.todo = <<Assigned(w)>>]
  <2>1. <<Assigned(w)>> \in Seq(LineItem)
    BY <1>3, AssignedType
  <2>2. g \in Handler /\ g.pc = "validate" /\ g.req = h[w].req /\ g.row = h[w].row
    BY <1>1, <2>1 DEF Handler, PC
  <2>3. AfterReturn(w) = g
    BY <1>3 DEF AfterReturn
  <2> HIDE DEF g
  <2> QED BY <1>1, <1>3, <2>2, <2>3 DEF Sound, InLoopBody
<1>4. CASE h[w].req.op \notin {"updateSale", "assignBatches"}
  <2> DEFINE g == [h[w] EXCEPT !.pc = "save"]
  <2>1. g \in Handler /\ g.pc = "save" /\ g.req = h[w].req
    BY <1>1 DEF Handler, PC
  <2>2. AfterReturn(w) = g
    BY <1>4 DEF AfterReturn
  <2> HIDE DEF g
  <2> QED BY <1>1, <2>1, <2>2 DEF Sound, InLoopBody
<1> QED BY <1>2, <1>3, <1>4

LEMMA AfterValidateSound ==
    ASSUME TypeInv, NEW w \in Workers, h[w].pc = "validate"
    PROVE  Sound(AfterValidate(w)) /\ AfterValidate(w).pc \in {"deduct", "save"}
<1>1. /\ h[w] \in Handler /\ Sound(h[w]) /\ h[w].row \in SaleRow
      /\ h[w].req.lineItems \in Seq(LineItem)
      /\ h[w].row.lineItems \in Seq(LineItem)
  BY AtWork DEF SaleRow
<1>2. CASE h[w].req.op = "updateSale"
  <2> DEFINE row == [h[w].row EXCEPT !.lineItems = h[w].req.lineItems]
             g == [h[w] EXCEPT !.pc = "deduct", !.todo = h[w].req.lineItems, !.row = row]
  <2>1. row \in SaleRow
    BY <1>1 DEF SaleRow
  <2>2. AfterValidate(w) = g
    BY <1>2 DEF AfterValidate
  <2> HIDE DEF row
  <2>3. g \in Handler /\ g.pc = "deduct" /\ g.req = h[w].req
    BY <1>1, <2>1 DEF Handler, PC
  <2> HIDE DEF g
  <2> QED BY <1>1, <2>2, <2>3 DEF Sound, InLoopBody
<1>3. CASE h[w].req.op = "assignBatches"
  <2> DEFINE i == IndexOf(h[w].row, h[w].req.lineItems[1].product)
             items == [h[w].row.lineItems EXCEPT ![i] = Assigned(w)]
             row == [h[w].row EXCEPT !.lineItems = items]
             g == [h[w] EXCEPT !.pc = "deduct", !.todo = <<Assigned(w)>>, !.row = row]
  <2>1. Assigned(w) \in LineItem /\ <<Assigned(w)>> \in Seq(LineItem)
    BY <1>3, AssignedType
  <2>2. AfterValidate(w) = g
    BY <1>3 DEF AfterValidate
  <2>3. items \in Seq(LineItem)
    <3>1. i # 0
      BY <1>1, <1>3 DEF Sound
    <3>2. i \in DOMAIN h[w].row.lineItems
      BY <1>1, <3>1, IndexOfInDomain
    <3> HIDE DEF i
    <3>3. i \in 1 .. Len(h[w].row.lineItems)
      BY <1>1, <3>2
    <3> QED BY <1>1, <2>1, <3>3, ExceptSeq
  <2> HIDE DEF items
  <2>4. row \in SaleRow
    BY <1>1, <2>3 DEF SaleRow
  <2> HIDE DEF row
  <2>5. g \in Handler /\ g.pc = "deduct" /\ g.req = h[w].req
    BY <1>1, <2>1, <2>4 DEF Handler, PC
  <2> HIDE DEF g
  <2> QED BY <1>1, <2>2, <2>5 DEF Sound, InLoopBody
<1>4. CASE h[w].req.op \notin {"updateSale", "assignBatches"}
  <2>1. CASE h[w].row.orderStatus # "PENDING"
    <3> DEFINE g == [h[w] EXCEPT !.pc = "deduct", !.todo = h[w].row.lineItems]
    <3>1. g \in Handler /\ g.pc = "deduct" /\ g.req = h[w].req
      BY <1>1 DEF Handler, PC
    <3>2. AfterValidate(w) = g
      BY <1>4, <2>1 DEF AfterValidate
    <3> HIDE DEF g
    <3> QED BY <1>1, <3>1, <3>2 DEF Sound, InLoopBody
  <2>2. CASE h[w].row.orderStatus = "PENDING"
    <3> DEFINE g == [h[w] EXCEPT !.pc = "save"]
    <3>1. g \in Handler /\ g.pc = "save" /\ g.req = h[w].req
      BY <1>1 DEF Handler, PC
    <3>2. AfterValidate(w) = g
      BY <1>4, <2>2 DEF AfterValidate
    <3> HIDE DEF g
    <3> QED BY <1>1, <3>1, <3>2 DEF Sound, InLoopBody
  <2> QED BY <2>1, <2>2
<1> QED BY <1>2, <1>3, <1>4

LEMMA EndLoopStep ==
    ASSUME TypeInv, NEW w \in Workers, EndLoop(w)
    PROVE  TypeInv'
<1>1. UNCHANGED <<batches, sales, refunds, requests, aborts>>
  BY DEF EndLoop
<1>2. CASE h[w].pc = "return" /\ h' = [h EXCEPT ![w] = AfterReturn(w)]
  BY <1>1, <1>2, AfterReturnSound, LocalStep DEF WritesWhole
<1>3. CASE h[w].pc = "validate" /\ h' = [h EXCEPT ![w] = AfterValidate(w)]
  BY <1>1, <1>3, AfterValidateSound, LocalStep DEF WritesWhole
<1>4. CASE h[w].pc = "deduct" /\ h' = [h EXCEPT ![w].pc = "save"]
  <2> DEFINE g == [h[w] EXCEPT !.pc = "save"]
  <2>1. h[w] \in Handler /\ Sound(h[w])
    BY <1>4, AtWork
  <2>2. g \in Handler /\ g.pc = "save" /\ g.req = h[w].req
    BY <2>1 DEF Handler, PC
  <2>3. h' = [h EXCEPT ![w] = g]
    BY <1>4
  <2> HIDE DEF g
  <2>4. Sound(g)
    BY <1>4, <2>1, <2>2 DEF Sound, InLoopBody
  <2> QED BY <1>1, <2>2, <2>3, <2>4, LocalStep DEF WritesWhole
<1> QED BY <1>2, <1>3, <1>4 DEF EndLoop

LEMMA CompareSaleStep ==
    ASSUME TypeInv, NEW w \in Workers, CompareSale(w)
    PROVE  TypeInv'
<1> DEFINE g == [h[w] EXCEPT !.pc = "saveWrite", !.diff = SaleDiff(w)]
<1>1. h[w].pc = "save"
  BY DEF CompareSale
<1>2. h[w] \in Handler /\ Sound(h[w])
  BY <1>1, AtWork
<1>3. SaleDiff(w) \subseteq BatchColumns \cup SaleColumns
  BY DEF SaleDiff, Differing
<1>4. /\ g \in Handler /\ g.pc = "saveWrite" /\ g.req = h[w].req
      /\ g.diff = SaleDiff(w)
  BY <1>2, <1>3 DEF Handler, PC
<1>5. /\ h' = [h EXCEPT ![w] = g] \/ Answer(w, "failed")
      /\ UNCHANGED <<batches, sales, refunds, requests, aborts>>
  BY DEF CompareSale
<1> HIDE DEF g
<1>6. Sound(g)
  BY <1>1, <1>2, <1>4 DEF Sound, InLoopBody
<1>7. WritesWhole(g, sales[g.req.sale])
  BY <1>4 DEF WritesWhole, SaleDiff
<1> QED BY <1>5, <1>6, <1>7, LocalStep, FailStep

LEMMA SavedSaleType ==
    ASSUME TypeInv, NEW w \in Workers, h[w].pc \in {"saveWrite", "notify", "commit"}
    PROVE  SavedSale(w) \in SaleRow
<1>1. h[w].req.sale \in Sales /\ h[w].row \in SaleRow
  BY AtWork
<1>2. sales[h[w].req.sale] \in SaleRow \cup {NoSale}
  BY <1>1 DEF TypeInv, Tables
<1>3. sales[h[w].req.sale] = NoSale => h[w].diff = SaleColumns
  BY DEF TypeInv, WritesWhole
<1> QED BY <1>1, <1>2, <1>3, UpdatedSaleType DEF SavedSale

\* A sale row is written and the handler moves on to g.
LEMMA SaleStep ==
    ASSUME TypeInv, NEW w \in Workers, h[w].pc \in {"saveWrite", "notify", "commit"},
           NEW g, Sound(g),
           g.pc # "idle" => g.req.sale = h[w].req.sale,
           h' = [h EXCEPT ![w] = g],
           batches' \in [Batches -> BatchRow],
           sales' = [sales EXCEPT ![h[w].req.sale] = SavedSale(w)],
           UNCHANGED <<refunds, requests, aborts>>
    PROVE  TypeInv'
<1>1. SavedSale(w) \in SaleRow /\ SavedSale(w) # NoSale
  BY SavedSaleType, InitialAssumption
<1>2. h[w].req.sale \in Sales
  BY AtWork
<1>3. /\ sales \in [Sales -> SaleRow \cup {NoSale}] /\ refunds \in [Sales -> Nat]
      /\ requests \in Nat /\ aborts \in Nat
  BY DEF TypeInv, Tables
<1>4. sales' \in [Sales -> SaleRow \cup {NoSale}]
  BY <1>1, <1>3
<1>5. \A s \in Sales : sales'[s] = NoSale => sales[s] = NoSale
  BY <1>1, <1>3
<1>6. WritesWhole(g, sales'[g.req.sale])
  BY <1>1, <1>2, <1>3 DEF WritesWhole
<1> QED BY <1>3, <1>4, <1>5, <1>6, TableStep

LEMMA WriteSaleStep ==
    ASSUME TypeInv, NEW w \in Workers, WriteSale(w)
    PROVE  TypeInv'
<1>1. h[w].pc = "saveWrite" /\ UNCHANGED <<batches, refunds, requests, aborts>>
  BY DEF WriteSale
<1>2. h[w] \in Handler /\ Sound(h[w])
  BY <1>1, AtWork
<1>3. WritesWhole(h[w], sales[h[w].req.sale]) /\ batches' \in [Batches -> BatchRow]
  BY <1>1 DEF TypeInv, Tables
<1>4. CASE InTransaction(w)
  <2> DEFINE g == [h[w] EXCEPT !.pc = "notify", !.dirtySale = h[w].diff # {}]
  <2>1. /\ g \in Handler /\ g.pc = "notify" /\ g.req = h[w].req /\ g.diff = h[w].diff
    BY <1>2 DEF Handler, PC
  <2>2. h' = [h EXCEPT ![w] = g] /\ UNCHANGED sales
    BY <1>4 DEF WriteSale
  <2> HIDE DEF g
  <2>3. Sound(g)
    BY <1>1, <1>2, <2>1 DEF Sound, InLoopBody
  <2>4. WritesWhole(g, sales[g.req.sale])
    BY <1>1, <1>3, <2>1 DEF WritesWhole
  <2> QED BY <1>1, <2>2, <2>3, <2>4, LocalStep
<1>5. CASE ~InTransaction(w)
  <2>1. sales' = [sales EXCEPT ![h[w].req.sale] = SavedSale(w)]
    BY <1>5 DEF WriteSale
  <2>2. CASE h' = [h EXCEPT ![w].pc = "notify"]
    <3> DEFINE g == [h[w] EXCEPT !.pc = "notify"]
    <3>1. g \in Handler /\ g.pc = "notify" /\ g.req = h[w].req
      BY <1>2 DEF Handler, PC
    <3>2. h' = [h EXCEPT ![w] = g]
      BY <2>2
    <3> HIDE DEF g
    <3>3. Sound(g)
      BY <1>1, <1>2, <3>1 DEF Sound, InLoopBody
    <3> QED BY <1>1, <1>3, <2>1, <3>1, <3>2, <3>3, SaleStep
  <2>3. CASE Answer(w, "ok")
    <3>1. Sound(Resting("ok")) /\ Resting("ok").pc = "idle"
      BY RestingSound DEF Resting
    <3> QED BY <1>1, <1>3, <2>1, <2>3, <3>1, SaleStep DEF Answer
  <2> QED BY <1>5, <2>2, <2>3 DEF WriteSale
<1> QED BY <1>4, <1>5

LEMMA NotifyStep ==
    ASSUME TypeInv, NEW w \in Workers, Notify(w)
    PROVE  TypeInv'
<1>1. h[w].pc = "notify" /\ UNCHANGED <<batches, sales, refunds, requests, aborts>>
  BY DEF Notify
<1>2. h[w] \in Handler /\ Sound(h[w]) /\ WritesWhole(h[w], sales[h[w].req.sale])
  BY <1>1, AtWork DEF TypeInv
<1>3. CASE h' = [h EXCEPT ![w].pc = "commit"]
  <2> DEFINE g == [h[w] EXCEPT !.pc = "commit"]
  <2>1. g \in Handler /\ g.pc = "commit" /\ g.req = h[w].req /\ g.diff = h[w].diff
    BY <1>2 DEF Handler, PC
  <2>2. h' = [h EXCEPT ![w] = g]
    BY <1>3
  <2> HIDE DEF g
  <2>3. Sound(g)
    BY <1>1, <1>2, <2>1 DEF Sound, InLoopBody
  <2>4. WritesWhole(g, sales[g.req.sale])
    BY <1>1, <1>2, <2>1 DEF WritesWhole
  <2> QED BY <1>1, <2>2, <2>3, <2>4, LocalStep
<1>4. CASE Answer(w, "ok")
  <2>1. requests' \in Nat /\ aborts' \in Nat
    BY <1>1 DEF TypeInv, Tables
  <2> QED BY <1>1, <1>4, <2>1, AnswerStep
<1> QED BY <1>3, <1>4 DEF Notify

LEMMA CommitStep ==
    ASSUME TypeInv, NEW w \in Workers, Commit(w)
    PROVE  TypeInv'
<1>1. /\ h[w].pc = "commit" /\ UNCHANGED <<refunds, requests, aborts>>
      /\ sales' = [sales EXCEPT ![h[w].req.sale] = SavedSale(w)]
      /\ h' = [h EXCEPT ![w] = Resting("ok")]
  BY DEF Commit, Answer
<1>2. batches' \in [Batches -> BatchRow]
  BY BatchSeenByType DEF Commit
<1>3. Sound(Resting("ok")) /\ Resting("ok").pc = "idle"
  BY RestingSound DEF Resting
<1> QED BY <1>1, <1>2, <1>3, SaleStep

LEMMA AbortStep ==
    ASSUME TypeInv, NEW w \in Workers, Abort(w) \/ DeadlockAbort(w)
    PROVE  TypeInv'
<1>1. /\ Answer(w, "failed") /\ UNCHANGED <<batches, sales, refunds, requests>>
      /\ aborts' = aborts \/ aborts' = aborts + 1
  BY DEF Abort, DeadlockAbort
<1>2. requests' \in Nat /\ aborts' \in Nat
  BY <1>1 DEF TypeInv, Tables
<1> QED BY <1>1, <1>2, AnswerStep

LEMMA NextTypeInv == TypeInv /\ [Next]_vars => TypeInv'
<1> SUFFICES ASSUME TypeInv, [Next]_vars PROVE TypeInv'
  OBVIOUS
<1>1. ASSUME NEW w \in Workers, Arrive(w) PROVE TypeInv'
  BY <1>1, CreateSaleStep, AddLineItemStep, AssignBatchesStep, UpdateSaleStep,
     UpdateSaleStatusStep, ConfirmDeliveryStep, CancelSaleByCustomerStep,
     CancelSaleByAdminStep, CancelSaleStep DEF Arrive
<1>2. ASSUME NEW w \in Workers, Step(w) PROVE TypeInv'
  BY <1>2, RefundStep, ReturnFindStep, ValidateAllocationStep, DeductFindStep,
     CompareBatchStep, WriteBatchStep, EndItemStep, EndLoopStep, CompareSaleStep,
     WriteSaleStep, NotifyStep, CommitStep, AbortStep DEF Step
<1>3. ASSUME NEW w \in Workers, Abort(w) PROVE TypeInv'
  BY <1>3, AbortStep
<1>4. CASE UNCHANGED vars
  BY <1>4 DEF vars, TypeInv, Tables, Sound, WritesWhole
<1> QED BY <1>1, <1>2, <1>3, <1>4 DEF Next

LEMMA TypeInvImpliesTypeOK == TypeInv => TypeOK
<1> SUFFICES ASSUME TypeInv PROVE TypeOK
  OBVIOUS
<1>1. \A w \in Workers : /\ h[w].pc # "idle" => h[w].req \in Requests
                         /\ h[w].pc \in InLoopBody => AtAllocation(w)
  BY DEF TypeInv, Sound, AtAllocation
<1> QED BY <1>1 DEF TypeInv, Tables, TypeOK, InLoopBody

\* Every row and every handler stays well formed, and no loop body runs past
\* its allocations, whatever the handlers do to each other.
THEOREM TypeCorrect == Spec => []TypeOK
<1>1. Init => TypeInv
  BY InitTypeInv
<1>2. TypeInv /\ [Next]_vars => TypeInv'
  BY NextTypeInv
<1>3. TypeInv => TypeOK
  BY TypeInvImpliesTypeOK
<1> QED BY <1>1, <1>2, <1>3, PTL DEF Spec

(***************************************************************************)
(* Which steps are about batches: all others leave the batch table, and    *)
(* what a transaction wrote, alone.                                        *)
(***************************************************************************)
SameWrites(g, f) == g.dirty = {} \/ (g.dirty = f.dirty /\ g.view = f.view)

Aside(w) ==
    /\ UNCHANGED batches
    /\ \E g \in Handler :
          /\ h' = [h EXCEPT ![w] = g]
          /\ g.pc \notin InLoopBody
          /\ SameWrites(g, h[w])

LEMMA RestingAside ==
    ASSUME NEW w \in Workers, NEW result \in {"none", "ok", "refused", "failed"},
           Answer(w, result), UNCHANGED batches
    PROVE  Aside(w)
<1>1. Resting(result) \in Handler
  BY RestingSound
<1>2. Resting(result).pc \notin InLoopBody /\ Resting(result).dirty = {}
  BY DEF Resting, InLoopBody
<1> QED BY <1>1, <1>2 DEF Answer, Aside, SameWrites

LEMMA ArriveAside ==
    ASSUME TypeInv, NEW w \in Workers, Arrive(w)
    PROVE  Aside(w)
<1>1. UNCHANGED batches
  BY DEF Arrive, Receive, CreateSale, AddLineItem, AssignBatches, UpdateSale,
     UpdateSaleStatus, ConfirmDelivery, CancelSaleByCustomer, CancelSaleByAdmin, CancelSale
<1>2. \/ Refuse(w)
      \/ \E r \in Requests, pc \in {"refund", "return", "validate", "save"} : \E row, todo :
            Proceed(w, r, pc, row, todo)
  BY DEF Arrive, CreateSale, AddLineItem, AssignBatches, UpdateSale, UpdateSaleStatus,
     ConfirmDelivery, CancelSaleByCustomer, CancelSaleByAdmin, CancelSale, CancelFrom
<1>3. CASE Refuse(w)
  BY <1>1, <1>3, RestingAside DEF Refuse
<1>4. ASSUME NEW r \in Requests, NEW pc \in {"refund", "return", "validate", "save"},
             NEW row, NEW todo, Proceed(w, r, pc, row, todo)
      PROVE  Aside(w)
  <2> DEFINE g == Handling(r, pc, row, todo)
  <2>1. Resting("none") \in Handler /\ Resting("none").dirty = {}
    BY RestingSound DEF Resting
  <2>2. g.pc = pc /\ g.dirty = {}
    BY <2>1 DEF Handling, Handler
  <2>3. h' = [h EXCEPT ![w] = g]
    BY <1>4 DEF Proceed
  <2>4. TypeInv'
    BY NextTypeInv DEF Next
  <2>5. h \in [Workers -> Handler] /\ h' \in [Workers -> Handler]
    BY <2>4 DEF TypeInv, Tables
  <2>6. g \in Handler
    <3> HIDE DEF g
    <3> QED BY <2>3, <2>5
  <2> HIDE DEF g
  <2> QED BY <1>1, <2>2, <2>3, <2>6 DEF Aside, SameWrites, InLoopBody
<1> QED BY <1>2, <1>3, <1>4

LEMMA StepAside ==
    ASSUME TypeInv, NEW w \in Workers, Step(w) \/ Abort(w)
    PROVE  \/ ReturnFind(w) \/ DeductFind(w) \/ CompareBatch(w)
           \/ WriteBatch(w) \/ Commit(w) \/ Aside(w)
<1>0. h \in [Workers -> Handler] /\ h[w] \in Handler
  BY DEF TypeInv, Tables
<1>1. TypeInv' /\ h' \in [Workers -> Handler] /\ h'[w] \in Handler
  <2>1. TypeInv'
    BY NextTypeInv DEF Next
  <2> QED BY <2>1 DEF TypeInv, Tables
<1> DEFINE Quiet == /\ UNCHANGED batches
                    /\ h' = [h EXCEPT ![w] = h'[w]]
                    /\ h'[w].pc \notin InLoopBody
                    /\ h'[w].dirty = h[w].dirty /\ h'[w].view = h[w].view
<1>2. Quiet => Aside(w)
  BY <1>1 DEF Aside, SameWrites
<1>3. CASE Refund(w)
  <2>1. Quiet
    BY <1>0, <1>3 DEF Refund, InLoopBody, Handler
  <2> QED BY <1>2, <2>1
<1>4. CASE RefundFails(w) \/ DeadlockAbort(w) \/ Abort(w)
  BY <1>4, RestingAside DEF RefundFails, DeadlockAbort, Abort
<1>5. CASE ValidateAllocation(w)
  <2>1. CASE h' = [h EXCEPT ![w] = NextAllocation(w, "validate")]
    <3>1. Quiet
      BY <1>0, <1>5, <2>1 DEF ValidateAllocation, NextAllocation, InLoopBody, Handler
    <3> QED BY <1>2, <3>1
  <2>2. CASE Answer(w, "failed")
    BY <1>5, <2>2, RestingAside DEF ValidateAllocation
  <2> QED BY <1>5, <2>1, <2>2 DEF ValidateAllocation
<1>6. CASE EndItem(w)
  <2> DEFINE g == [h[w] EXCEPT !.todo = Tail(h[w].todo), !.total = 0]
  <2>1. CASE h' = [h EXCEPT ![w] = g]
    <3>1. Quiet
      BY <1>0, <1>6, <2>1 DEF EndItem, InLoopBody, Handler
    <3> QED BY <1>2, <3>1
  <2>2. CASE Answer(w, "failed")
    BY <1>6, <2>2, RestingAside DEF EndItem
  <2> QED BY <1>6, <2>1, <2>2 DEF EndItem
<1>7. CASE EndLoop(w)
  <2>1. CASE h' = [h EXCEPT ![w] = AfterReturn(w)]
    <3>1. Quiet
      BY <1>0, <1>7, <2>1 DEF EndLoop, AfterReturn, InLoopBody, Handler
    <3> QED BY <1>2, <3>1
  <2>2. CASE h' = [h EXCEPT ![w] = AfterValidate(w)]
    <3>1. Quiet
      BY <1>0, <1>7, <2>2 DEF EndLoop, AfterValidate, InLoopBody, Handler
    <3> QED BY <1>2, <3>1
  <2>3. CASE h' = [h EXCEPT ![w].pc = "save"]
    <3>1. Quiet
      BY <1>0, <1>7, <2>3 DEF EndLoop, InLoopBody, Handler
    <3> QED BY <1>2, <3>1
  <2> QED BY <1>7, <2>1, <2>2, <2>3 DEF EndLoop
<1>8. CASE CompareSale(w)
  <2> DEFINE g == [h[w] EXCEPT !.pc = "saveWrite", !.diff = SaleDiff(w)]
  <2>1. CASE h' = [h EXCEPT ![w] = g]
    <3>1. Quiet
      BY <1>0, <1>8, <2>1 DEF CompareSale, InLoopBody, Handler
    <3> QED BY <1>2, <3>1
  <2>2. CASE Answer(w, "failed")
    BY <1>8, <2>2, RestingAside DEF CompareSale
  <2> QED BY <1>8, <2>1, <2>2 DEF CompareSale
<1>9. CASE WriteSale(w)
  <2> DEFINE g == [h[w] EXCEPT !.pc = "notify", !.dirtySale = h[w].diff # {}]
  <2>1. CASE h' = [h EXCEPT ![w] = g]
    <3>1. Quiet
      BY <1>0, <1>9, <2>1 DEF WriteSale, InLoopBody, Handler
    <3> QED BY <1>2, <3>1
  <2>2. CASE h' = [h EXCEPT ![w].pc = "notify"]
    <3>1. Quiet
      BY <1>0, <1>9, <2>2 DEF WriteSale, InLoopBody, Handler
    <3> QED BY <1>2, <3>1
  <2>3. CASE Answer(w, "ok")
    BY <1>9, <2>3, RestingAside DEF WriteSale
  <2> QED BY <1>9, <2>1, <2>2, <2>3 DEF WriteSale
<1>10. CASE Notify(w)
  <2>1. CASE h' = [h EXCEPT ![w].pc = "commit"]
    <3>1. Quiet
      BY <1>0, <1>10, <2>1 DEF Notify, InLoopBody, Handler
    <3> QED BY <1>2, <3>1
  <2>2. CASE Answer(w, "ok")
    BY <1>10, <2>2, RestingAside DEF Notify
  <2> QED BY <1>10, <2>1, <2>2 DEF Notify
<1> QED BY <1>3, <1>4, <1>5, <1>6, <1>7, <1>8, <1>9, <1>10 DEF Step

(***************************************************************************)
(* What happens to a batch, in terms of the handler's copy of it.          *)
(***************************************************************************)
LEMMA FindShape ==
    ASSUME TypeInv, NEW w \in Workers, ReturnFind(w) \/ DeductFind(w)
    PROVE  LET b == Alloc(w).batch
               n == Alloc(w).quantity
           IN  /\ UNCHANGED batches
               /\ b \in Batches /\ n \in Nat \ {0}
               /\ \/ Aside(w)
                  \/ /\ h' = [h EXCEPT ![w] = h'[w]]
                     /\ h'[w].dirty = h[w].dirty /\ h'[w].view = h[w].view
                     /\ \/ h'[w].pc = "returnCompare" /\ h'[w].batch = Returned(BatchSeenBy(w, b), n)
                        \/ /\ h'[w].pc = "deductCompare"
                           /\ h'[w].batch = Deducted(BatchSeenBy(w, b), n)
                           /\ Deductible(w, BatchSeenBy(w, b), n)
<1> DEFINE b == Alloc(w).batch
           n == Alloc(w).quantity
<1>1. h \in [Workers -> Handler] /\ h[w] \in Handler
  BY DEF TypeInv, Tables
<1>2. b \in Batches /\ n \in Nat \ {0}
  BY AllocType DEF ReturnFind, DeductFind
<1>3. CASE ReturnFind(w)
  <2> DEFINE entity == Returned(BatchSeenBy(w, b), n)
             g == [h[w] EXCEPT !.pc = "returnCompare", !.batch = entity]
  <2>1. h' = [h EXCEPT ![w] = g] /\ UNCHANGED batches
    BY <1>3 DEF ReturnFind
  <2> HIDE DEF entity
  <2>2. /\ g.pc = "returnCompare" /\ g.batch = entity
        /\ g.dirty = h[w].dirty /\ g.view = h[w].view
    BY <1>1 DEF Handler
  <2> HIDE DEF g
  <2>3. h'[w] = g
    BY <1>1, <2>1
  <2> QED BY <1>2, <2>1, <2>2, <2>3 DEF entity
<1>4. CASE DeductFind(w)
  <2> DEFINE entity == Deducted(BatchSeenBy(w, b), n)
             g == [h[w] EXCEPT !.pc = "deductCompare", !.batch = entity]
  <2>1. UNCHANGED batches
    BY <1>4 DEF DeductFind
  <2>2. CASE Deductible(w, BatchSeenBy(w, b), n)
    <3>1. h' = [h EXCEPT ![w] = g]
      BY <1>4, <2>2 DEF DeductFind
    <3> HIDE DEF entity
    <3>2. /\ g.pc = "deductCompare" /\ g.batch = entity
          /\ g.dirty = h[w].dirty /\ g.view = h[w].view
      BY <1>1 DEF Handler
    <3> HIDE DEF g
    <3>3. h'[w] = g
      BY <1>1, <3>1
    <3> QED BY <1>2, <2>1, <2>2, <3>1, <3>2, <3>3 DEF entity
  <2>3. CASE ~Deductible(w, BatchSeenBy(w, b), n)
    <3>1. Answer(w, "failed")
      BY <1>4, <2>3 DEF DeductFind
    <3> QED BY <1>2, <2>1, <3>1, RestingAside
  <2> QED BY <2>2, <2>3
<1> QED BY <1>3, <1>4

LEMMA CompareShape ==
    ASSUME TypeInv, NEW w \in Workers, CompareBatch(w)
    PROVE  /\ UNCHANGED batches
           /\ h' = [h EXCEPT ![w] = h'[w]]
           /\ h[w].pc \in InLoopBody
           /\ h'[w].batch = h[w].batch /\ h'[w].diff = BatchDiff(w)
           /\ h'[w].todo = h[w].todo
           /\ h'[w].dirty = h[w].dirty /\ h'[w].view = h[w].view
<1>1. h \in [Workers -> Handler] /\ h[w] \in Handler
  BY DEF TypeInv, Tables
<1> QED BY <1>1 DEF CompareBatch, InLoopBody, Handler

LEMMA WriteShape ==
    ASSUME TypeInv, NEW w \in Workers, WriteBatch(w)
    PROVE  LET b == Alloc(w).batch
               row == UpdatedBatch(BatchSeenBy(w, b), h[w].batch, h[w].diff)
           IN  /\ h[w].pc \in {"returnWrite", "deductWrite"}
               /\ b \in Batches
               /\ h' = [h EXCEPT ![w] = h'[w]]
               /\ h'[w].pc \notin InLoopBody
               /\ \/ batches' = [batches EXCEPT ![b] = row]
                  \/ UNCHANGED batches
               /\ \/ h'[w].dirty = h[w].dirty /\ h'[w].view = h[w].view
                  \/ /\ InTransaction(w)
                     /\ h'[w].dirty = h[w].dirty \cup {b}
                     /\ h'[w].view = [h[w].view EXCEPT ![b] = row]
<1> DEFINE b == Alloc(w).batch
           row == UpdatedBatch(BatchSeenBy(w, b), h[w].batch, h[w].diff)
           pc == IF h[w].pc = "returnWrite" THEN "return" ELSE "deduct"
           next == NextAllocation(w, pc)
           g == Written(w, pc, row)
<1>1. /\ h \in [Workers -> Handler] /\ h[w] \in Handler /\ Sound(h[w])
      /\ h[w].pc \in {"returnWrite", "deductWrite"}
  BY DEF TypeInv, Tables, WriteBatch
<1>2. AtAllocation(w)
  BY <1>1 DEF Sound, InLoopBody, AtAllocation
<1>3. b \in Batches
  BY <1>2, AllocType
<1>4. /\ h' = [h EXCEPT ![w] = g]
      /\ batches' = [batches EXCEPT ![b] = row] \/ UNCHANGED batches
  BY DEF WriteBatch
<1>5. pc \in {"return", "deduct"}
  OBVIOUS
<1>6. next \in Handler
  <2>1. (pc = "return" /\ h[w].req.op = "assignBatches")
           => IndexOf(h[w].row, h[w].req.lineItems[1].product) # 0
    BY <1>1 DEF Sound
  <2> HIDE DEF pc
  <2> QED BY <1>1, <1>2, <1>5, <2>1, NextAllocationSound
<1>7. next.pc = pc /\ next.dirty = h[w].dirty /\ next.view = h[w].view
  <2> HIDE DEF pc
  <2> QED BY <1>1 DEF NextAllocation, Handler
<1> HIDE DEF row, next, pc, b
<1>8. /\ g.pc = pc
      /\ \/ g.dirty = h[w].dirty /\ g.view = h[w].view
         \/ /\ InTransaction(w)
            /\ g.dirty = h[w].dirty \cup {b}
            /\ g.view = [h[w].view EXCEPT ![b] = row]
  <2>1. CASE ~(InTransaction(w) /\ h[w].diff # {})
    BY <1>7, <2>1 DEF Written, next
  <2>2. CASE InTransaction(w) /\ h[w].diff # {}
    <3>1. g = [next EXCEPT !.dirty = next.dirty \cup {b}, !.view = [next.view EXCEPT ![b] = row]]
      BY <2>2 DEF Written, next, b
    <3>2. g.pc = next.pc /\ g.dirty = next.dirty \cup {b} /\ g.view = [next.view EXCEPT ![b] = row]
      <4> HIDE DEF g
      <4> QED BY <1>6, <3>1 DEF Handler
    <3> QED BY <1>7, <2>2, <3>2
  <2> QED BY <2>1, <2>2
<1> HIDE DEF g
<1>9. h'[w] = g /\ h' = [h EXCEPT ![w] = h'[w]]
  BY <1>1, <1>4
<1>10. g.pc \notin InLoopBody
  BY <1>5, <1>8 DEF InLoopBody
<1> QED BY <1>1, <1>3, <1>4, <1>8, <1>9, <1>10 DEF b, row

(***************************************************************************)
(* No batch goes below zero.  Invariant: a copy of a batch about to be     *)
(* saved is not negative, and without edits no write waits in a            *)
(* transaction.                                                            *)
(***************************************************************************)
NonNegative ==
    /\ NoNegativeStock
    /\ \A w \in Workers :
          /\ h[w].dirty = {}
          /\ h[w].pc \in InLoopBody => h[w].batch.quantity >= 0

NoEdits == \A r \in Requests : r.op # "updateSale"

StockedAtFirst == \A stock \in InitialStock : \A b \in Batches : stock[b].quantity >= 0

LEMMA NotInTransaction ==
    ASSUME NoEdits, TypeInv, NEW w \in Workers, h[w].pc # "idle"
    PROVE  ~InTransaction(w)
  BY AtWork DEF NoEdits, InTransaction

LEMMA NonNegativeStep ==
    ASSUME NoEdits, TypeInv, NonNegative, NEW w \in Workers,
           Arrive(w) \/ Step(w) \/ Abort(w)
    PROVE  NonNegative'
<1> DEFINE b == Alloc(w).batch
           n == Alloc(w).quantity
<1>1. /\ h \in [Workers -> Handler] /\ h[w] \in Handler
      /\ batches \in [Batches -> BatchRow]
  BY DEF TypeInv, Tables
<1>2. \A c \in Batches : BatchSeenBy(w, c) = batches[c] /\ batches[c].quantity \in Int
                         /\ batches[c].quantity >= 0
  BY <1>1 DEF NonNegative, NoNegativeStock, BatchSeenBy, BatchRow
\* It is enough to look at the handler that moved.
<1>3. ASSUME h' = [h EXCEPT ![w] = h'[w]], h'[w].dirty = {},
             h'[w].pc \in InLoopBody => h'[w].batch.quantity >= 0,
             \A c \in Batches : batches'[c].quantity >= 0
      PROVE  NonNegative'
  <2>1. ASSUME NEW v \in Workers
        PROVE  h'[v].dirty = {} /\ (h'[v].pc \in InLoopBody => h'[v].batch.quantity >= 0)
    <3>1. CASE v = w
      BY <1>3, <3>1
    <3>2. CASE v # w
      <4>1. h'[v] = h[v]
        BY <1>1, <1>3, <3>2
      <4> QED BY <4>1 DEF NonNegative
    <3> QED BY <3>1, <3>2
  <2> QED BY <1>3, <2>1 DEF NonNegative, NoNegativeStock
<1>4. CASE Aside(w)
  <2>1. PICK g \in Handler : /\ h' = [h EXCEPT ![w] = g]
                             /\ g.pc \notin InLoopBody
                             /\ SameWrites(g, h[w])
    BY <1>4 DEF Aside
  <2>2. h'[w] = g /\ g.dirty = {}
    BY <1>1, <2>1 DEF NonNegative, SameWrites
  <2> QED BY <1>2, <1>3, <1>4, <2>1, <2>2 DEF Aside
<1>5. CASE ReturnFind(w) \/ DeductFind(w)
  <2>1. CASE Aside(w)
    BY <1>4, <2>1
  <2>2. CASE ~Aside(w)
    <3>1. /\ UNCHANGED batches /\ b \in Batches /\ n \in Nat
          /\ h' = [h EXCEPT ![w] = h'[w]]
          /\ h'[w].dirty = h[w].dirty
          /\ \/ h'[w].batch = Returned(BatchSeenBy(w, b), n)
             \/ /\ h'[w].batch = Deducted(BatchSeenBy(w, b), n)
                /\ Deductible(w, BatchSeenBy(w, b), n)
      BY <1>5, <2>2, FindShape
    <3>2. ~InTransaction(w)
      BY <1>5, NotInTransaction DEF ReturnFind, DeductFind
    <3> HIDE DEF b, n
    <3>3. h'[w].batch.quantity >= 0
      <4>1. CASE h'[w].batch = Returned(batches[b], n)
        <5>1. h'[w].batch.quantity = batches[b].quantity + n
          BY <4>1 DEF Returned
        <5> QED BY <1>2, <3>1, <5>1
      <4>2. CASE /\ h'[w].batch = Deducted(batches[b], n)
                 /\ batches[b].quantity >= n
        <5>1. h'[w].batch.quantity = batches[b].quantity - n
          BY <4>2 DEF Deducted
        <5> QED BY <1>2, <3>1, <4>2, <5>1
      <4> QED BY <1>2, <3>1, <3>2, <4>1, <4>2 DEF Deductible
    <3> QED BY <1>2, <1>3, <3>1, <3>3 DEF NonNegative
  <2> QED BY <2>1, <2>2
<1>6. CASE CompareBatch(w)
  BY <1>2, <1>3, <1>6, CompareShape DEF NonNegative
<1>7. CASE WriteBatch(w)
  <2> DEFINE row == UpdatedBatch(BatchSeenBy(w, b), h[w].batch, h[w].diff)
  <2>1. /\ h[w].pc \in {"returnWrite", "deductWrite"} /\ b \in Batches
        /\ h' = [h EXCEPT ![w] = h'[w]]
        /\ h'[w].pc \notin InLoopBody
        /\ \/ batches' = [batches EXCEPT ![b] = row]
           \/ UNCHANGED batches
        /\ InTransaction(w) \/ h'[w].dirty = h[w].dirty
    BY <1>7, WriteShape
  <2>2. ~InTransaction(w)
    BY <2>1, NotInTransaction
  <2>3. h[w].batch.quantity >= 0
    BY <2>1 DEF NonNegative, InLoopBody
  <2>4. row.quantity >= 0
    BY <1>2, <2>1, <2>3 DEF UpdatedBatch, Set
  <2> HIDE DEF row, b
  <2>5. \A c \in Batches : batches'[c].quantity >= 0
    BY <1>1, <1>2, <2>1, <2>4
  <2> QED BY <1>3, <2>1, <2>2, <2>5 DEF NonNegative
<1>8. CASE Commit(w)
  <2>1. /\ batches' = [c \in Batches |-> BatchSeenBy(w, c)]
        /\ h' = [h EXCEPT ![w] = Resting("ok")]
    BY <1>8 DEF Commit, Answer
  <2>2. h'[w] = Resting("ok") /\ h'[w].dirty = {} /\ h'[w].pc \notin InLoopBody
    BY <1>1, <2>1 DEF Resting, InLoopBody
  <2>3. \A c \in Batches : batches'[c].quantity >= 0
    BY <1>2, <2>1
  <2> QED BY <1>3, <2>1, <2>2, <2>3
<1> QED BY <1>4, <1>5, <1>6, <1>7, <1>8, ArriveAside, StepAside

\* deductBatchQuantity: without edits of whole sales, no interleaving of
\* handlers, and no failure, sells more of a batch than there is.
THEOREM StockNeverNegative ==
    ASSUME NoEdits, StockedAtFirst
    PROVE  Spec => []NoNegativeStock
<1>1. Init => TypeInv /\ NonNegative
  <2> SUFFICES ASSUME Init PROVE NonNegative
    BY InitTypeInv
  <2>1. \A w \in Workers : h[w] = Resting("none")
    BY DEF Init
  <2>2. Resting("none").dirty = {} /\ Resting("none").pc \notin InLoopBody
    BY DEF Resting, InLoopBody
  <2>3. NoNegativeStock
    BY DEF Init, StockedAtFirst, NoNegativeStock
  <2> QED BY <2>1, <2>2, <2>3 DEF NonNegative
<1>2. (TypeInv /\ NonNegative) /\ [Next]_vars => (TypeInv /\ NonNegative)'
  <2> SUFFICES ASSUME TypeInv, NonNegative, [Next]_vars PROVE NonNegative'
    BY NextTypeInv
  <2>1. CASE UNCHANGED vars
    BY <2>1 DEF vars, NonNegative, NoNegativeStock
  <2> QED BY <2>1, NonNegativeStep DEF Next
<1>3. NonNegative => NoNegativeStock
  BY DEF NonNegative
<1> QED BY <1>1, <1>2, <1>3, PTL DEF Spec

(***************************************************************************)
(* isActive follows the quantity as long as handlers do not overlap.       *)
(* Invariant: the copies in memory and in a transaction are coherent, and  *)
(* the UPDATE will turn the row into the copy.                             *)
(***************************************************************************)
CoherentCopies ==
    /\ BatchActiveIffStocked
    /\ \A w \in Workers :
          /\ \A b \in h[w].dirty : Coherent(h[w].view[b])
          /\ h[w].pc \in InLoopBody => Coherent(h[w].batch)
          /\ h[w].pc \in {"returnWrite", "deductWrite"} =>
                UpdatedBatch(BatchSeenBy(w, Alloc(w).batch), h[w].batch, h[w].diff) = h[w].batch

OneAtATime == \A v, w \in Workers : v = w

CoherentAtFirst == \A stock \in InitialStock : \A b \in Batches : Coherent(stock[b])

\* Adding to and subtracting from a coherent batch keep it coherent.
LEMMA ReturnedCoherent ==
    ASSUME NEW batch \in BatchRow, Coherent(batch), NEW n \in Nat \ {0}
    PROVE  Coherent(Returned(batch, n)) /\ Coherent(Deducted(batch, n))
<1>1. batch.quantity \in Int /\ batch.isActive \in BOOLEAN
  BY DEF BatchRow
<1>2. Coherent(Returned(batch, n))
  <2>1. /\ Returned(batch, n).quantity = batch.quantity + n
        /\ Returned(batch, n).isActive = IF batch.quantity + n > 0 THEN TRUE ELSE batch.isActive
    BY DEF Returned
  <2>2. CASE batch.quantity + n > 0
    BY <2>1, <2>2 DEF Coherent
  <2>3. CASE ~(batch.quantity + n > 0)
    <3>1. ~(batch.quantity > 0)
      BY <1>1, <2>3
    <3>2. batch.isActive = FALSE
      BY <1>1, <3>1 DEF Coherent
    <3> QED BY <2>1, <2>3, <3>2 DEF Coherent
  <2> QED BY <2>2, <2>3
<1>3. Coherent(Deducted(batch, n))
  <2>1. /\ Deducted(batch, n).quantity = batch.quantity - n
        /\ Deducted(batch, n).isActive = IF batch.quantity - n =< 0 THEN FALSE ELSE batch.isActive
    BY DEF Deducted
  <2>2. CASE batch.quantity - n =< 0
    <3>1. ~(batch.quantity - n > 0)
      BY <1>1, <2>2
    <3> QED BY <2>1, <2>2, <3>1 DEF Coherent
  <2>3. CASE ~(batch.quantity - n =< 0)
    <3>1. batch.quantity > 0 /\ batch.quantity - n > 0
      BY <1>1, <2>3
    <3>2. batch.isActive = TRUE
      BY <1>1, <3>1 DEF Coherent
    <3> QED BY <2>1, <2>3, <3>1, <3>2 DEF Coherent
  <2> QED BY <2>2, <2>3
<1> QED BY <1>2, <1>3

\* An UPDATE of the columns that differ yields the entity.
LEMMA UpdateYieldsEntity ==
    ASSUME NEW row \in BatchRow, NEW entity \in BatchRow
    PROVE  UpdatedBatch(row, entity, Differing(BatchColumns, entity, row)) = entity
<1> DEFINE diff == Differing(BatchColumns, entity, row)
<1>1. Set("quantity", diff, entity, row) = entity.quantity
  BY DEF Set, Differing, BatchColumns
<1>2. Set("isActive", diff, entity, row) = entity.isActive
  BY DEF Set, Differing, BatchColumns
<1>3. entity = [quantity |-> entity.quantity, isActive |-> entity.isActive]
  BY DEF BatchRow
<1> QED BY <1>1, <1>2, <1>3 DEF UpdatedBatch

LEMMA SeenCoherent ==
    ASSUME TypeInv, CoherentCopies, NEW w \in Workers, NEW b \in Batches
    PROVE  Coherent(BatchSeenBy(w, b))
  BY DEF CoherentCopies, BatchActiveIffStocked, BatchSeenBy

LEMMA CoherentCopiesStep ==
    ASSUME OneAtATime, TypeInv, CoherentCopies, NEW w \in Workers,
           Arrive(w) \/ Step(w) \/ Abort(w)
    PROVE  CoherentCopies'
<1> DEFINE b == Alloc(w).batch
           n == Alloc(w).quantity
<1>1. /\ h \in [Workers -> Handler] /\ h[w] \in Handler
      /\ batches \in [Batches -> BatchRow]
  BY DEF TypeInv, Tables
<1>2. \A v \in Workers : v = w
  BY DEF OneAtATime
<1>3. \A c \in h[w].dirty : Coherent(h[w].view[c])
  BY DEF CoherentCopies
<1>4. \A c \in Batches : Coherent(batches[c])
  BY DEF CoherentCopies, BatchActiveIffStocked
\* The three clauses about the handler that moved.
<1>5. ASSUME \A c \in Batches : Coherent(batches'[c]),
             \A c \in h'[w].dirty : Coherent(h'[w].view[c]),
             h'[w].pc \in InLoopBody => Coherent(h'[w].batch),
             h'[w].pc \in {"returnWrite", "deductWrite"} =>
                UpdatedBatch(BatchSeenBy(w, Alloc(w).batch)', h'[w].batch, h'[w].diff) = h'[w].batch
      PROVE  CoherentCopies'
  BY <1>2, <1>5 DEF CoherentCopies, BatchActiveIffStocked, BatchSeenBy, Alloc, Coherent, UpdatedBatch, Set
<1>6. CASE Aside(w)
  <2>1. PICK g \in Handler : /\ h' = [h EXCEPT ![w] = g]
                             /\ g.pc \notin InLoopBody
                             /\ SameWrites(g, h[w])
                             /\ UNCHANGED batches
    BY <1>6 DEF Aside
  <2>2. h'[w] = g
    BY <1>1, <2>1
  <2>3. \A c \in g.dirty : Coherent(g.view[c])
    BY <1>3, <2>1 DEF SameWrites
  <2> QED BY <1>4, <1>5, <2>1, <2>2, <2>3 DEF InLoopBody
<1>7. CASE ReturnFind(w) \/ DeductFind(w)
  <2>1. CASE Aside(w)
    BY <1>6, <2>1
  <2>2. CASE ~Aside(w)
    <3>1. /\ UNCHANGED batches /\ b \in Batches /\ n \in Nat \ {0}
          /\ h'[w].pc \in {"returnCompare", "deductCompare"}
          /\ h'[w].dirty = h[w].dirty /\ h'[w].view = h[w].view
          /\ \/ h'[w].batch = Returned(BatchSeenBy(w, b), n)
             \/ h'[w].batch = Deducted(BatchSeenBy(w, b), n)
      BY <1>7, <2>2, FindShape
    <3> HIDE DEF b, n
    <3>2. BatchSeenBy(w, b) \in BatchRow /\ Coherent(BatchSeenBy(w, b))
      BY <3>1, BatchSeenByType, SeenCoherent
    <3>3. Coherent(h'[w].batch)
      BY <3>1, <3>2, ReturnedCoherent
    <3> QED BY <1>3, <1>4, <1>5, <3>1, <3>3
  <2> QED BY <2>1, <2>2
<1>8. CASE CompareBatch(w)
  <2>1. /\ UNCHANGED batches
        /\ h[w].pc \in InLoopBody
        /\ h'[w].batch = h[w].batch /\ h'[w].diff = BatchDiff(w)
        /\ h'[w].todo = h[w].todo
        /\ h'[w].dirty = h[w].dirty /\ h'[w].view = h[w].view
    BY <1>8, CompareShape
  <2>2. Coherent(h'[w].batch)
    BY <2>1 DEF CoherentCopies
  <2>3. AtAllocation(w)
    BY <2>1 DEF TypeInv, Sound, AtAllocation
  <2>4. BatchSeenBy(w, b) \in BatchRow /\ h[w].batch \in BatchRow
    BY <1>1, <2>3, AllocType, BatchSeenByType DEF Handler
  <2>5. BatchSeenBy(w, Alloc(w).batch)' = BatchSeenBy(w, b)
    BY <2>1 DEF BatchSeenBy, Alloc
  <2>6. UpdatedBatch(BatchSeenBy(w, b), h[w].batch, BatchDiff(w)) = h[w].batch
    BY <2>4, UpdateYieldsEntity DEF BatchDiff
  <2> HIDE DEF b
  <2> QED BY <1>3, <1>4, <1>5, <2>1, <2>2, <2>5, <2>6
<1>9. CASE WriteBatch(w)
  <2> DEFINE row == UpdatedBatch(BatchSeenBy(w, b), h[w].batch, h[w].diff)
  <2>1. /\ h[w].pc \in {"returnWrite", "deductWrite"} /\ b \in Batches
        /\ h'[w].pc \notin InLoopBody
        /\ \/ batches' = [batches EXCEPT ![b] = row]
           \/ UNCHANGED batches
        /\ \/ h'[w].dirty = h[w].dirty /\ h'[w].view = h[w].view
           \/ /\ h'[w].dirty = h[w].dirty \cup {b}
              /\ h'[w].view = [h[w].view EXCEPT ![b] = row]
    BY <1>9, WriteShape
  <2>2. row = h[w].batch /\ Coherent(row)
    BY <2>1 DEF CoherentCopies, InLoopBody
  <2>3. h[w].view \in [Batches -> BatchRow]
    BY <1>1 DEF Handler
  <2> HIDE DEF row, b
  <2>4. \A c \in Batches : Coherent(batches'[c])
    BY <1>1, <1>4, <2>1, <2>2
  <2>5. \A c \in h'[w].dirty : Coherent(h'[w].view[c])
    <3>1. h[w].dirty \subseteq Batches
      BY <1>1 DEF Handler
    <3> QED BY <1>3, <2>1, <2>2, <2>3, <3>1
  <2> QED BY <1>5, <2>1, <2>4, <2>5 DEF InLoopBody
<1>10. CASE Commit(w)
  <2>1. /\ batches' = [c \in Batches |-> BatchSeenBy(w, c)]
        /\ h' = [h EXCEPT ![w] = Resting("ok")]
    BY <1>10 DEF Commit, Answer
  <2>2. h'[w] = Resting("ok") /\ h'[w].dirty = {} /\ h'[w].pc = "idle"
    BY <1>1, <2>1 DEF Resting
  <2>3. \A c \in Batches : Coherent(batches'[c])
    BY <2>1, SeenCoherent
  <2> QED BY <1>5, <2>2, <2>3 DEF InLoopBody
<1> QED BY <1>6, <1>7, <1>8, <1>9, <1>10, ArriveAside, StepAside

\* Handlers that do not overlap keep isActive in step with the quantity,
\* through every loop, rollback and failure.
THEOREM ActiveIffStockedSerially ==
    ASSUME OneAtATime, CoherentAtFirst
    PROVE  Spec => []BatchActiveIffStocked
<1>1. Init => TypeInv /\ CoherentCopies
  <2> SUFFICES ASSUME Init PROVE CoherentCopies
    BY InitTypeInv
  <2>1. \A w \in Workers : h[w] = Resting("none")
    BY DEF Init
  <2>2. Resting("none").dirty = {} /\ Resting("none").pc = "idle"
    BY DEF Resting
  <2>3. BatchActiveIffStocked
    BY DEF Init, CoherentAtFirst, BatchActiveIffStocked
  <2> QED BY <2>1, <2>2, <2>3 DEF CoherentCopies, InLoopBody
<1>2. (TypeInv /\ CoherentCopies) /\ [Next]_vars => (TypeInv /\ CoherentCopies)'
  <2> SUFFICES ASSUME TypeInv, CoherentCopies, [Next]_vars PROVE CoherentCopies'
    BY NextTypeInv
  <2>1. CASE UNCHANGED vars
    BY <2>1 DEF vars, CoherentCopies, BatchActiveIffStocked, BatchSeenBy, Alloc
  <2> QED BY <2>1, CoherentCopiesStep DEF Next
<1>3. CoherentCopies => BatchActiveIffStocked
  BY DEF CoherentCopies
<1> QED BY <1>1, <1>2, <1>3, PTL DEF Spec

(***************************************************************************)
(* Handlers that do not overlap.  What a step does to the sale in the      *)
(* handler's hand and to the loop it is in.                                *)
(***************************************************************************)
Cancels == {"cancelSaleByCustomer", "cancelSaleByAdmin"}

ReturnLoop == {"return", "returnCompare", "returnWrite"}

DeductLoop == {"deduct", "deductCompare", "deductWrite"}

\* A step that stays in its loop changes neither the request nor the sale.
Turn(w) ==
    /\ h'[w].req = h[w].req /\ h'[w].row = h[w].row
    /\ \/ h[w].pc \in ReturnLoop /\ h'[w].pc \in ReturnLoop
       \/ h[w].pc = "validate" /\ h'[w].pc = "validate"
       \/ h[w].pc \in DeductLoop /\ h'[w].pc \in DeductLoop
    /\ \/ h'[w].todo = h[w].todo /\ h'[w].total = h[w].total /\ h'[w].pc \in InLoopBody
       \/ /\ AtAllocation(w)
          /\ h'[w].todo = Advanced(h[w].todo)
          /\ h'[w].total = h[w].total + Alloc(w).quantity
       \/ /\ AtItemEnd(w) /\ TotalAccepted(w)
          /\ h'[w].todo = Tail(h[w].todo) /\ h'[w].total = 0

InLoop(w) ==
    \/ ReturnFind(w) \/ ValidateAllocation(w) \/ DeductFind(w)
    \/ CompareBatch(w) \/ WriteBatch(w) \/ EndItem(w)

Failed(w) == h'[w] = Resting("failed")

LEMMA NextAllocationIs ==
    ASSUME TypeInv, NEW w \in Workers, NEW pc
    PROVE  /\ NextAllocation(w, pc).pc = pc
           /\ NextAllocation(w, pc).req = h[w].req
           /\ NextAllocation(w, pc).row = h[w].row
           /\ NextAllocation(w, pc).todo = Advanced(h[w].todo)
           /\ NextAllocation(w, pc).total = h[w].total + Alloc(w).quantity
<1>1. h[w] \in Handler
  BY DEF TypeInv, Tables
<1> QED BY <1>1 DEF NextAllocation, Handler

LEMMA AnswerIs ==
    ASSUME TypeInv, NEW w \in Workers, NEW result, Answer(w, result)
    PROVE  h'[w] = Resting(result) /\ h'[w].pc = "idle"
<1>1. w \in DOMAIN h
  BY DEF TypeInv, Tables
<1> QED BY <1>1 DEF Answer, Resting

LEMMA LoopShape ==
    ASSUME TypeInv, NEW w \in Workers, InLoop(w)
    PROVE  /\ UNCHANGED <<sales, refunds, requests, aborts>>
           /\ Turn(w) \/ (Failed(w) /\ h[w].pc \in {"validate", "deduct"})
<1>1. /\ h \in [Workers -> Handler] /\ h[w] \in Handler
      /\ UNCHANGED <<sales, refunds, requests, aborts>>
  BY DEF TypeInv, Tables, InLoop, ReturnFind, ValidateAllocation, DeductFind,
         CompareBatch, WriteBatch, EndItem
<1>2. CASE ReturnFind(w)
  <2> DEFINE entity == Returned(BatchSeenBy(w, Alloc(w).batch), Alloc(w).quantity)
             g == [h[w] EXCEPT !.pc = "returnCompare", !.batch = entity]
  <2>1. h'[w] = g /\ h[w].pc = "return"
    BY <1>1, <1>2 DEF ReturnFind
  <2> HIDE DEF entity
  <2>2. /\ g.pc = "returnCompare" /\ g.req = h[w].req /\ g.row = h[w].row
        /\ g.todo = h[w].todo /\ g.total = h[w].total
    BY <1>1 DEF Handler
  <2> HIDE DEF g
  <2> QED BY <1>1, <2>1, <2>2 DEF Turn, ReturnLoop, InLoopBody
<1>3. CASE ValidateAllocation(w)
  <2>1. /\ h[w].pc = "validate" /\ AtAllocation(w)
        /\ h' = [h EXCEPT ![w] = NextAllocation(w, "validate")] \/ Answer(w, "failed")
    BY <1>3 DEF ValidateAllocation
  <2>2. CASE h' = [h EXCEPT ![w] = NextAllocation(w, "validate")]
    <3>1. h'[w] = NextAllocation(w, "validate")
      BY <1>1, <2>2
    <3> QED BY <1>1, <2>1, <3>1, NextAllocationIs DEF Turn
  <2>3. CASE Answer(w, "failed")
    BY <1>1, <2>1, <2>3, AnswerIs DEF Failed
  <2> QED BY <2>1, <2>2, <2>3
<1>4. CASE DeductFind(w)
  <2> DEFINE entity == Deducted(BatchSeenBy(w, Alloc(w).batch), Alloc(w).quantity)
             g == [h[w] EXCEPT !.pc = "deductCompare", !.batch = entity]
  <2>1. /\ h[w].pc = "deduct"
        /\ h' = [h EXCEPT ![w] = g] \/ Answer(w, "failed")
    BY <1>4 DEF DeductFind
  <2> HIDE DEF entity
  <2>2. /\ g.pc = "deductCompare" /\ g.req = h[w].req /\ g.row = h[w].row
        /\ g.todo = h[w].todo /\ g.total = h[w].total
    BY <1>1 DEF Handler
  <2> HIDE DEF g
  <2>3. CASE h' = [h EXCEPT ![w] = g]
    <3>1. h'[w] = g
      BY <1>1, <2>3
    <3> QED BY <1>1, <2>1, <2>2, <3>1 DEF Turn, DeductLoop, InLoopBody
  <2>4. CASE Answer(w, "failed")
    BY <1>1, <2>1, <2>4, AnswerIs DEF Failed
  <2> QED BY <2>1, <2>3, <2>4
<1>5. CASE CompareBatch(w)
  <2> DEFINE next == IF h[w].pc = "returnCompare" THEN "returnWrite" ELSE "deductWrite"
             diff == BatchDiff(w)
             g == [h[w] EXCEPT !.pc = next, !.diff = diff]
  <2>1. h'[w] = g /\ h[w].pc \in {"returnCompare", "deductCompare"}
    BY <1>1, <1>5 DEF CompareBatch
  <2> HIDE DEF diff
  <2>2. /\ g.pc = next /\ g.req = h[w].req /\ g.row = h[w].row
        /\ g.todo = h[w].todo /\ g.total = h[w].total
    BY <1>1 DEF Handler
  <2> HIDE DEF g
  <2> QED BY <1>1, <2>1, <2>2 DEF Turn, ReturnLoop, DeductLoop, InLoopBody
<1>6. CASE WriteBatch(w)
  <2> DEFINE pc == IF h[w].pc = "returnWrite" THEN "return" ELSE "deduct"
             b == Alloc(w).batch
             row == UpdatedBatch(BatchSeenBy(w, b), h[w].batch, h[w].diff)
             next == NextAllocation(w, pc)
             g == Written(w, pc, row)
  <2>1. h'[w] = g /\ h[w].pc \in {"returnWrite", "deductWrite"}
    BY <1>1, <1>6 DEF WriteBatch
  <2>2. AtAllocation(w)
    BY <2>1 DEF TypeInv, Sound, InLoopBody, AtAllocation
  <2>3. next \in Handler
    <3>1. pc \in {"return", "deduct"}
      OBVIOUS
    <3>2. (pc = "return" /\ h[w].req.op = "assignBatches")
             => IndexOf(h[w].row, h[w].req.lineItems[1].product) # 0
      BY <2>1 DEF TypeInv, Sound
    <3> HIDE DEF pc
    <3> QED BY <2>1, <2>2, <3>1, <3>2, NextAllocationSound
  <2> HIDE DEF row, pc, b, next
  <2>4. g.pc = next.pc /\ g.req = next.req /\ g.row = next.row /\ g.todo = next.todo /\ g.total = next.total
    <3>1. CASE ~(InTransaction(w) /\ h[w].diff # {})
      BY <3>1 DEF Written, next
    <3>2. CASE InTransaction(w) /\ h[w].diff # {}
      <4>1. g = [next EXCEPT !.dirty = next.dirty \cup {b}, !.view = [next.view EXCEPT ![b] = row]]
        BY <3>2 DEF Written, next, b
      <4> HIDE DEF g
      <4> QED BY <2>3, <4>1 DEF Handler
    <3> QED BY <3>1, <3>2
  <2> HIDE DEF g
  <2>5. /\ g.pc = pc /\ g.req = h[w].req /\ g.row = h[w].row
        /\ g.todo = Advanced(h[w].todo) /\ g.total = h[w].total + Alloc(w).quantity
    BY <2>4, NextAllocationIs DEF next
  <2> QED BY <1>1, <2>1, <2>2, <2>5 DEF Turn, ReturnLoop, DeductLoop, pc
<1>7. CASE EndItem(w)
  <2> DEFINE g == [h[w] EXCEPT !.todo = Tail(h[w].todo), !.total = 0]
  <2>1. h[w].pc \in {"return", "validate", "deduct"} /\ AtItemEnd(w)
    BY <1>7 DEF EndItem
  <2>2. CASE TotalAccepted(w)
    <3>1. h'[w] = g
      BY <1>1, <1>7, <2>2 DEF EndItem
    <3>2. /\ g.pc = h[w].pc /\ g.req = h[w].req /\ g.row = h[w].row
          /\ g.todo = Tail(h[w].todo) /\ g.total = 0
      BY <1>1 DEF Handler
    <3> HIDE DEF g
    <3> QED BY <1>1, <2>1, <2>2, <3>1, <3>2 DEF Turn, ReturnLoop, DeductLoop
  <2>3. CASE ~TotalAccepted(w)
    <3>1. Answer(w, "failed") /\ h[w].pc # "return"
      BY <1>7, <2>3 DEF EndItem, TotalAccepted
    <3> QED BY <1>1, <2>1, <3>1, AnswerIs DEF Failed
  <2> QED BY <2>2, <2>3
<1> QED BY <1>2, <1>3, <1>4, <1>5, <1>6, <1>7 DEF InLoop

LEMMA HandlingIs ==
    ASSUME NEW r, NEW pc, NEW row, NEW todo
    PROVE  /\ Handling(r, pc, row, todo).pc = pc /\ Handling(r, pc, row, todo).req = r
           /\ Handling(r, pc, row, todo).row = row /\ Handling(r, pc, row, todo).todo = todo
           /\ Handling(r, pc, row, todo).total = 0
  BY DEF Handling, Resting

LEMMA ProceedIs ==
    ASSUME TypeInv, NEW w \in Workers, NEW r, NEW pc, NEW row, NEW todo,
           Proceed(w, r, pc, row, todo)
    PROVE  /\ h'[w].pc = pc /\ h'[w].req = r /\ h'[w].row = row
           /\ h'[w].todo = todo /\ h'[w].total = 0
<1>1. h'[w] = Handling(r, pc, row, todo)
  BY DEF TypeInv, Tables, Proceed
<1> QED BY <1>1, HandlingIs

\* A request is refused, or its handler has found the sale it copies.
Accepted(w, r) ==
    LET row == h'[w].row
        sale == sales[r.sale]
    IN  \/ /\ r.op = "createSale"
           /\ sale = NoSale /\ h'[w].pc = "validate" /\ ~row.reference
        \/ /\ r.op = "addLineItem" /\ Found(r.sale)
           /\ h'[w].pc = "save" /\ row = [sale EXCEPT !.lineItems = @ \o r.lineItems]
        \/ /\ r.op = "assignBatches" /\ Found(r.sale)
           /\ h'[w].pc = "return" /\ row = sale
        \/ /\ r.op = "updateSale" /\ Found(r.sale)
           /\ h'[w].pc \in {"return", "save"}
           /\ row = [sale EXCEPT !.orderStatus = Chosen(r.orderStatus, @),
                                 !.paymentStatus = Chosen(r.paymentStatus, @)]
        \/ /\ r.op = "updateSaleStatus" /\ Found(r.sale)
           /\ ValidStatusChange(sale, r.orderStatus, r.paymentStatus)
           /\ h'[w].pc = "save"
           /\ row = [sale EXCEPT !.orderStatus = Chosen(r.orderStatus, @),
                                 !.paymentStatus = Chosen(r.paymentStatus, @)]
        \/ /\ r.op = "confirmDelivery" /\ Found(r.sale)
           /\ h'[w].pc = "save" /\ row = [sale EXCEPT !.confirmed = r.confirmed]
        \/ /\ r.op \in Cancels /\ Found(r.sale)
           /\ h'[w].pc = IF sale.paymentStatus = "PAID" /\ sale.reference
                           THEN "refund" ELSE "return"
           /\ row = [sale EXCEPT !.orderStatus = "CANCELLED"]
        \/ /\ r.op = "cancelSale" /\ Found(r.sale)
           /\ h'[w].pc = "return"
           /\ row = [sale EXCEPT !.orderStatus = "CANCELLED", !.deleted = TRUE]

LEMMA ArriveShape ==
    ASSUME TypeInv, NEW w \in Workers, Arrive(w)
    PROVE  /\ UNCHANGED <<batches, sales, refunds, aborts>> /\ h[w].pc = "idle"
           /\ \/ h'[w] = Resting("refused")
              \/ \E r \in Requests :
                    /\ h'[w].req = r /\ h'[w].total = 0
                    /\ Accepted(w, r)
<1>1. PICK r \in Requests :
         \/ CreateSale(w, r) \/ AddLineItem(w, r) \/ AssignBatches(w, r)
         \/ UpdateSale(w, r) \/ UpdateSaleStatus(w, r)
         \/ ConfirmDelivery(w, r)
         \/ CancelSaleByCustomer(w, r) \/ CancelSaleByAdmin(w, r) \/ CancelSale(w, r)
  BY DEF Arrive
<1>2. Receive(w, r)
  BY <1>1 DEF CreateSale, AddLineItem, AssignBatches, UpdateSale, UpdateSaleStatus,
              ConfirmDelivery, CancelSaleByCustomer, CancelSaleByAdmin, CancelSale
<1>3. UNCHANGED <<batches, sales, refunds, aborts>> /\ h[w].pc = "idle"
  BY <1>2 DEF Receive
<1>4. CASE Refuse(w)
  BY <1>3, <1>4, AnswerIs DEF Refuse
<1>5. ASSUME ~Refuse(w)
      PROVE  h'[w].req = r /\ h'[w].total = 0 /\ Accepted(w, r)
  <2>1. CASE CreateSale(w, r)
    <3> DEFINE row == [EmptyRow EXCEPT
                          !.orderStatus = Chosen(r.orderStatus, "PENDING"),
                          !.paymentStatus = Chosen(r.paymentStatus, "INVOICE_REQUESTED"),
                          !.lineItems = r.lineItems]
    <3>1. r.op = "createSale" /\ sales[r.sale] = NoSale /\ Proceed(w, r, "validate", row, r.lineItems)
      BY <2>1 DEF CreateSale
    <3>2. row.reference = FALSE
      BY DEF EmptyRow
    <3> HIDE DEF row
    <3>3. h'[w].pc = "validate" /\ h'[w].req = r /\ h'[w].row = row /\ h'[w].total = 0
      BY <3>1, ProceedIs
    <3> QED BY <3>1, <3>2, <3>3 DEF Accepted
  <2>2. CASE AddLineItem(w, r)
    <3>1. Found(r.sale) /\ Proceed(w, r, "save", [sales[r.sale] EXCEPT !.lineItems = @ \o r.lineItems], <<>>)
      BY <1>5, <2>2 DEF AddLineItem
    <3> QED BY <2>2, <3>1, ProceedIs DEF AddLineItem, Accepted
  <2>3. CASE AssignBatches(w, r)
    <3>1. /\ Found(r.sale)
          /\ Proceed(w, r, "return", sales[r.sale],
                     <<sales[r.sale].lineItems[IndexOf(sales[r.sale], r.lineItems[1].product)]>>)
      BY <1>5, <2>3 DEF AssignBatches
    <3> QED BY <2>3, <3>1, ProceedIs DEF AssignBatches, Accepted
  <2>4. CASE UpdateSale(w, r)
    <3> DEFINE row == [sales[r.sale] EXCEPT !.orderStatus = Chosen(r.orderStatus, @),
                                            !.paymentStatus = Chosen(r.paymentStatus, @)]
               pc == IF r.edits THEN "return" ELSE "save"
               todo == IF r.edits THEN sales[r.sale].lineItems ELSE <<>>
    <3>1. Found(r.sale) /\ Proceed(w, r, pc, row, todo)
      BY <1>5, <2>4 DEF UpdateSale
    <3>2. pc \in {"return", "save"}
      OBVIOUS
    <3>3. h'[w].pc = pc /\ h'[w].req = r /\ h'[w].row = row /\ h'[w].total = 0
      <4> HIDE DEF pc, row, todo
      <4> QED BY <3>1, ProceedIs
    <3> QED BY <2>4, <3>1, <3>2, <3>3 DEF UpdateSale, Accepted
  <2>5. CASE UpdateSaleStatus(w, r)
    <3> DEFINE row == [sales[r.sale] EXCEPT !.orderStatus = Chosen(r.orderStatus, @),
                                            !.paymentStatus = Chosen(r.paymentStatus, @)]
    <3>1. /\ Found(r.sale) /\ ValidStatusChange(sales[r.sale], r.orderStatus, r.paymentStatus)
          /\ Proceed(w, r, "save", row, <<>>)
      BY <1>5, <2>5 DEF UpdateSaleStatus
    <3>2. h'[w].pc = "save" /\ h'[w].req = r /\ h'[w].row = row /\ h'[w].total = 0
      <4> HIDE DEF row
      <4> QED BY <3>1, ProceedIs
    <3> QED BY <2>5, <3>1, <3>2 DEF UpdateSaleStatus, Accepted
  <2>6. CASE ConfirmDelivery(w, r)
    <3>1. Found(r.sale) /\ Proceed(w, r, "save", [sales[r.sale] EXCEPT !.confirmed = r.confirmed], <<>>)
      BY <1>5, <2>6 DEF ConfirmDelivery
    <3> QED BY <2>6, <3>1, ProceedIs DEF ConfirmDelivery, Accepted
  <2>7. CASE CancelSaleByCustomer(w, r) \/ CancelSaleByAdmin(w, r)
    <3> DEFINE row == [sales[r.sale] EXCEPT !.orderStatus = "CANCELLED"]
               pc == IF sales[r.sale].paymentStatus = "PAID" /\ sales[r.sale].reference
                       THEN "refund" ELSE "return"
    <3>1. /\ r.op \in Cancels /\ Found(r.sale)
          /\ Proceed(w, r, pc, row, sales[r.sale].lineItems)
      BY <1>5, <2>7 DEF CancelSaleByCustomer, CancelSaleByAdmin, CancelFrom, Cancels
    <3>2. h'[w].pc = pc /\ h'[w].req = r /\ h'[w].row = row /\ h'[w].total = 0
      <4> HIDE DEF row, pc
      <4> QED BY <3>1, ProceedIs
    <3> QED BY <3>1, <3>2 DEF Accepted
  <2>8. CASE CancelSale(w, r)
    <3> DEFINE row == [sales[r.sale] EXCEPT !.orderStatus = "CANCELLED", !.deleted = TRUE]
    <3>1. Found(r.sale) /\ Proceed(w, r, "return", row, sales[r.sale].lineItems)
      BY <1>5, <2>8 DEF CancelSale
    <3>2. h'[w].pc = "return" /\ h'[w].req = r /\ h'[w].row = row /\ h'[w].total = 0
      <4> HIDE DEF row
      <4> QED BY <3>1, ProceedIs
    <3> QED BY <2>8, <3>1, <3>2 DEF CancelSale, Accepted
  <2> QED BY <1>1, <2>1, <2>2, <2>3, <2>4, <2>5, <2>6, <2>7, <2>8
<1> QED BY <1>3, <1>4, <1>5

(***************************************************************************)
(* With one handler at a time the UPDATE turns the row of the sale into    *)
(* the copy: nobody changes it after the SELECT.                           *)
(***************************************************************************)
Saving(w) ==
    h[w].pc \in {"saveWrite", "commit"} \/ (h[w].pc = "notify" /\ InTransaction(w))

SavesRow == \A w \in Workers : Saving(w) => SavedSale(w) = h[w].row

LEMMA UpdateYieldsSale ==
    ASSUME NEW row, NEW entity \in SaleRow, NEW diff,
           \/ diff = SaleColumns
           \/ diff = Differing(SaleColumns, entity, row)
    PROVE  UpdatedSale(row, entity, diff) = entity
<1>1. \A c \in SaleColumns : Set(c, diff, entity, row) = entity[c]
  BY DEF Set, Differing
<1>2. /\ Set("orderStatus", diff, entity, row) = entity.orderStatus
      /\ Set("paymentStatus", diff, entity, row) = entity.paymentStatus
      /\ Set("reference", diff, entity, row) = entity.reference
      /\ Set("confirmed", diff, entity, row) = entity.confirmed
      /\ Set("deleted", diff, entity, row) = entity.deleted
      /\ Set("lineItems", diff, entity, row) = entity.lineItems
  BY <1>1 DEF SaleColumns
<1>3. entity = [orderStatus |-> entity.orderStatus, paymentStatus |-> entity.paymentStatus,
                reference |-> entity.reference, confirmed |-> entity.confirmed,
                deleted |-> entity.deleted, lineItems |-> entity.lineItems]
  BY DEF SaleRow
<1> QED BY <1>2, <1>3 DEF UpdatedSale

\* The steps outside the loops, but for a request's arrival.
LEMMA RefundShape ==
    ASSUME TypeInv, NEW w \in Workers, Refund(w)
    PROVE  /\ h[w].pc = "refund" /\ h'[w].pc = "return"
           /\ h'[w].req = h[w].req /\ h'[w].todo = h[w].todo /\ h'[w].total = h[w].total
           /\ h'[w].row = [h[w].row EXCEPT !.paymentStatus = "REFUNDED"]
<1>1. h[w] \in Handler /\ h \in [Workers -> Handler]
  BY DEF TypeInv, Tables
<1> DEFINE g == [h[w] EXCEPT !.pc = "return", !.row.paymentStatus = "REFUNDED"]
<1>2. h'[w] = g /\ h[w].pc = "refund"
  BY <1>1 DEF Refund
<1>3. /\ g.pc = "return" /\ g.req = h[w].req /\ g.todo = h[w].todo /\ g.total = h[w].total
      /\ g.row = [h[w].row EXCEPT !.paymentStatus = "REFUNDED"]
  BY <1>1 DEF Handler
<1> HIDE DEF g
<1> QED BY <1>2, <1>3

LEMMA EndLoopShape ==
    ASSUME TypeInv, NEW w \in Workers, EndLoop(w)
    PROVE  /\ UNCHANGED <<batches, sales, refunds, requests, aborts>>
           /\ h[w].todo = <<>> /\ h'[w].req = h[w].req /\ h'[w].total = h[w].total
           /\ \/ /\ h[w].pc = "return" /\ h[w].req.op = "updateSale"
                 /\ h'[w].pc = "validate" /\ h'[w].row = h[w].row
              \/ /\ h[w].pc = "return" /\ h[w].req.op = "assignBatches"
                 /\ h'[w].pc = "validate" /\ h'[w].row = h[w].row
                 /\ h'[w].todo = <<Assigned(w)>>
              \/ /\ h[w].pc = "return" /\ h[w].req.op \notin {"updateSale", "assignBatches"}
                 /\ h'[w].pc = "save" /\ h'[w].row = h[w].row
              \/ /\ h[w].pc = "validate" /\ h[w].req.op = "updateSale"
                 /\ h'[w].pc = "deduct" /\ h'[w].todo = h[w].req.lineItems
                 /\ h'[w].row = [h[w].row EXCEPT !.lineItems = h[w].req.lineItems]
              \/ /\ h[w].pc = "validate" /\ h[w].req.op = "assignBatches"
                 /\ h'[w].pc = "deduct"
                 /\ h'[w].row = [h[w].row EXCEPT
                       !.lineItems[IndexOf(h[w].row, h[w].req.lineItems[1].product)] = Assigned(w)]
              \/ /\ h[w].pc = "validate" /\ h[w].req.op \notin {"updateSale", "assignBatches"}
                 /\ h'[w].row = h[w].row
                 /\ \/ h'[w].pc = "deduct" /\ h'[w].todo = h[w].row.lineItems
                    \/ h'[w].pc = "save" /\ h[w].row.orderStatus = "PENDING"
              \/ /\ h[w].pc = "deduct" /\ h'[w].pc = "save" /\ h'[w].row = h[w].row
<1>1. /\ h[w] \in Handler /\ h \in [Workers -> Handler] /\ h[w].todo = <<>>
      /\ UNCHANGED <<batches, sales, refunds, requests, aborts>>
  BY DEF TypeInv, Tables, EndLoop
<1>2. CASE h[w].pc = "return"
  <2>1. h'[w] = AfterReturn(w)
    BY <1>1, <1>2 DEF EndLoop
  <2>2. CASE h[w].req.op = "updateSale"
    <3>1. h'[w] = [h[w] EXCEPT !.pc = "validate", !.todo = h[w].req.lineItems]
      BY <2>1, <2>2 DEF AfterReturn
    <3> QED BY <1>1, <1>2, <2>2, <3>1 DEF Handler
  <2>3. CASE h[w].req.op = "assignBatches"
    <3> DEFINE item == Assigned(w)
    <3>1. h'[w] = [h[w] EXCEPT !.pc = "validate", !.todo = <<item>>]
      BY <2>1, <2>3 DEF AfterReturn
    <3> HIDE DEF item
    <3>2. /\ h'[w].pc = "validate" /\ h'[w].row = h[w].row /\ h'[w].req = h[w].req
          /\ h'[w].total = h[w].total /\ h'[w].todo = <<item>>
      BY <1>1, <3>1 DEF Handler
    <3> QED BY <1>1, <1>2, <2>3, <3>2 DEF item
  <2>4. CASE h[w].req.op \notin {"updateSale", "assignBatches"}
    <3>1. h'[w] = [h[w] EXCEPT !.pc = "save"]
      BY <2>1, <2>4 DEF AfterReturn
    <3> QED BY <1>1, <1>2, <2>4, <3>1 DEF Handler
  <2> QED BY <2>2, <2>3, <2>4
<1>3. CASE h[w].pc = "validate"
  <2>1. h'[w] = AfterValidate(w)
    BY <1>1, <1>3 DEF EndLoop
  <2>2. CASE h[w].req.op = "updateSale"
    <3>1. h'[w] = [h[w] EXCEPT !.pc = "deduct", !.todo = h[w].req.lineItems,
                               !.row.lineItems = h[w].req.lineItems]
      BY <2>1, <2>2 DEF AfterValidate
    <3> QED BY <1>1, <1>3, <2>2, <3>1 DEF Handler
  <2>3. CASE h[w].req.op = "assignBatches"
    <3> DEFINE item == Assigned(w)
               i == IndexOf(h[w].row, h[w].req.lineItems[1].product)
    <3>1. h'[w] = [h[w] EXCEPT !.pc = "deduct", !.todo = <<item>>, !.row.lineItems[i] = item]
      BY <2>1, <2>3 DEF AfterValidate
    <3> HIDE DEF item, i
    <3>2. /\ h'[w].pc = "deduct" /\ h'[w].req = h[w].req /\ h'[w].total = h[w].total
          /\ h'[w].row = [h[w].row EXCEPT !.lineItems[i] = item]
      BY <1>1, <3>1 DEF Handler
    <3> QED BY <1>1, <1>3, <2>3, <3>2 DEF item, i
  <2>4. CASE h[w].req.op \notin {"updateSale", "assignBatches"}
    <3>1. CASE h[w].row.orderStatus # "PENDING"
      <4>1. h'[w] = [h[w] EXCEPT !.pc = "deduct", !.todo = h[w].row.lineItems]
        BY <2>1, <2>4, <3>1 DEF AfterValidate
      <4> QED BY <1>1, <1>3, <2>4, <4>1 DEF Handler
    <3>2. CASE h[w].row.orderStatus = "PENDING"
      <4>1. h'[w] = [h[w] EXCEPT !.pc = "save"]
        BY <2>1, <2>4, <3>2 DEF AfterValidate
      <4> QED BY <1>1, <1>3, <2>4, <3>2, <4>1 DEF Handler
    <3> QED BY <3>1, <3>2
  <2> QED BY <2>2, <2>3, <2>4
<1>4. CASE h[w].pc = "deduct"
  <2>1. h'[w] = [h[w] EXCEPT !.pc = "save"]
    BY <1>1, <1>4 DEF EndLoop
  <2> QED BY <1>1, <1>4, <2>1 DEF Handler
<1> QED BY <1>2, <1>3, <1>4 DEF EndLoop

LEMMA SaveShape ==
    ASSUME TypeInv, NEW w \in Workers,
           CompareSale(w) \/ WriteSale(w) \/ Notify(w) \/ Commit(w)
    PROVE  /\ UNCHANGED <<refunds, requests, aborts>>
           /\ \/ /\ h[w].pc = "save" /\ InTransaction(w)
                 /\ UNCHANGED sales /\ Failed(w)
              \/ /\ h[w].pc = "save" /\ MaySave(w) /\ UNCHANGED sales
                 /\ h'[w].pc = "saveWrite" /\ h'[w].diff = SaleDiff(w)
                 /\ h'[w].req = h[w].req /\ h'[w].row = h[w].row
              \/ /\ InTransaction(w) /\ UNCHANGED sales
                 /\ \/ h[w].pc = "saveWrite" /\ h'[w].pc = "notify"
                    \/ h[w].pc = "notify" /\ h'[w].pc = "commit"
                 /\ h'[w].req = h[w].req /\ h'[w].row = h[w].row /\ h'[w].diff = h[w].diff
              \/ /\ h[w].pc \in {"saveWrite", "commit"}
                 /\ sales' = [sales EXCEPT ![h[w].req.sale] = SavedSale(w)]
                 /\ \/ h'[w] = Resting("ok")
                    \/ /\ h[w].req.op \in {"createSale", "updateSaleStatus"}
                       /\ h'[w].pc = "notify"
                       /\ h'[w].req = h[w].req /\ h'[w].row = h[w].row
              \/ /\ h[w].pc = "notify" /\ UNCHANGED sales /\ h'[w] = Resting("ok")
<1>1. h[w] \in Handler /\ h \in [Workers -> Handler]
  BY DEF TypeInv, Tables
<1>2. CASE CompareSale(w)
  <2>1. CASE MaySave(w)
    <3> DEFINE diff == SaleDiff(w)
               g == [h[w] EXCEPT !.pc = "saveWrite", !.diff = diff]
    <3>1. h'[w] = g
      BY <1>1, <1>2, <2>1 DEF CompareSale
    <3> HIDE DEF diff
    <3>2. g.pc = "saveWrite" /\ g.diff = diff /\ g.req = h[w].req /\ g.row = h[w].row
      BY <1>1 DEF Handler
    <3> HIDE DEF g
    <3> QED BY <1>2, <2>1, <3>1, <3>2 DEF CompareSale, diff
  <2>2. CASE ~MaySave(w)
    <3>1. Answer(w, "failed") /\ InTransaction(w)
      BY <1>2, <2>2 DEF CompareSale, MaySave
    <3> QED BY <1>2, <3>1, AnswerIs DEF CompareSale, Failed
  <2> QED BY <2>1, <2>2
<1>3. CASE WriteSale(w)
  <2>1. CASE InTransaction(w)
    <3> DEFINE g == [h[w] EXCEPT !.pc = "notify", !.dirtySale = h[w].diff # {}]
    <3>1. h'[w] = g
      BY <1>1, <1>3, <2>1 DEF WriteSale
    <3>2. g.pc = "notify" /\ g.diff = h[w].diff /\ g.req = h[w].req /\ g.row = h[w].row
      BY <1>1 DEF Handler
    <3> HIDE DEF g
    <3> QED BY <1>3, <2>1, <3>1, <3>2 DEF WriteSale
  <2>2. CASE ~InTransaction(w) /\ h[w].req.op \in {"createSale", "updateSaleStatus"}
    <3> DEFINE g == [h[w] EXCEPT !.pc = "notify"]
    <3>1. h'[w] = g
      BY <1>1, <1>3, <2>2 DEF WriteSale
    <3>2. g.pc = "notify" /\ g.req = h[w].req /\ g.row = h[w].row
      BY <1>1 DEF Handler
    <3> HIDE DEF g
    <3> QED BY <1>3, <2>2, <3>1, <3>2 DEF WriteSale
  <2>3. CASE ~InTransaction(w) /\ h[w].req.op \notin {"createSale", "updateSaleStatus"}
    BY <1>3, <2>3, AnswerIs DEF WriteSale
  <2> QED BY <2>1, <2>2, <2>3
<1>4. CASE Notify(w)
  <2>1. CASE InTransaction(w)
    <3> DEFINE g == [h[w] EXCEPT !.pc = "commit"]
    <3>1. h'[w] = g
      BY <1>1, <1>4, <2>1 DEF Notify
    <3>2. g.pc = "commit" /\ g.diff = h[w].diff /\ g.req = h[w].req /\ g.row = h[w].row
      BY <1>1 DEF Handler
    <3> HIDE DEF g
    <3> QED BY <1>4, <2>1, <3>1, <3>2 DEF Notify
  <2>2. CASE ~InTransaction(w)
    BY <1>4, <2>2, AnswerIs DEF Notify
  <2> QED BY <2>1, <2>2
<1>5. CASE Commit(w)
  BY <1>5, AnswerIs DEF Commit
<1> QED BY <1>2, <1>3, <1>4, <1>5

LEMMA FailShape ==
    ASSUME TypeInv, NEW w \in Workers,
           RefundFails(w) \/ DeadlockAbort(w) \/ Abort(w)
    PROVE  /\ UNCHANGED <<batches, sales, refunds, requests>> /\ Failed(w)
           /\ aborts' = aborts + 1 \/ (UNCHANGED aborts /\ (h[w].pc = "refund" \/ InTransaction(w)))
  BY AnswerIs DEF RefundFails, DeadlockAbort, Abort, Failed

LEMMA StepCases ==
    ASSUME NEW w \in Workers, Arrive(w) \/ Step(w) \/ Abort(w)
    PROVE  \/ Arrive(w) \/ InLoop(w) \/ EndLoop(w) \/ Refund(w)
           \/ CompareSale(w) \/ WriteSale(w) \/ Notify(w) \/ Commit(w)
           \/ RefundFails(w) \/ DeadlockAbort(w) \/ Abort(w)
  BY DEF Step, InLoop

LEMMA SavesRowStep ==
    ASSUME OneAtATime, TypeInv, SavesRow, NEW w \in Workers,
           Arrive(w) \/ Step(w) \/ Abort(w)
    PROVE  SavesRow'
<1>1. \A v \in Workers : v = w
  BY DEF OneAtATime
<1>2. SUFFICES ASSUME Saving(w)' PROVE SavedSale(w)' = h'[w].row
  BY <1>1 DEF SavesRow
<1>3. h'[w].pc \in {"saveWrite", "commit", "notify"} /\ (h'[w].pc = "notify" => h'[w].req.op = "updateSale")
  BY <1>2 DEF Saving, InTransaction
<1>4. CASE CompareSale(w) \/ WriteSale(w) \/ Notify(w) \/ Commit(w)
  <2>1. h[w].pc # "idle"
    BY <1>4 DEF CompareSale, WriteSale, Notify, Commit
  <2>2. h[w].row \in SaleRow
    BY <2>1, AtWork
  <2>3. CASE /\ h[w].pc = "save" /\ UNCHANGED sales /\ h'[w].diff = SaleDiff(w)
             /\ h'[w].req = h[w].req /\ h'[w].row = h[w].row
    <3>1. SavedSale(w)' = UpdatedSale(sales[h[w].req.sale], h[w].row, SaleDiff(w))
      BY <2>3 DEF SavedSale
    <3> QED BY <2>2, <2>3, <3>1, UpdateYieldsSale DEF SaleDiff
  <2>4. CASE /\ InTransaction(w) /\ UNCHANGED sales
             /\ h[w].pc \in {"saveWrite", "notify"}
             /\ h'[w].req = h[w].req /\ h'[w].row = h[w].row /\ h'[w].diff = h[w].diff
    <3>1. SavedSale(w)' = SavedSale(w)
      BY <2>4 DEF SavedSale
    <3> QED BY <2>4, <3>1 DEF SavesRow, Saving
  <2>5. h'[w] # Resting("ok") /\ h'[w] # Resting("failed")
    BY <1>3 DEF Resting
  <2> QED BY <1>3, <1>4, <2>3, <2>4, <2>5, SaveShape DEF Failed, InTransaction
<1>5. CASE Arrive(w)
  <2>1. h'[w] # Resting("refused")
    BY <1>3 DEF Resting
  <2>2. PICK r \in Requests : Accepted(w, r)
    BY <1>5, <2>1, ArriveShape
  <2>3. h'[w].pc \in {"validate", "save", "return", "refund"}
    BY <2>2 DEF Accepted
  <2> QED BY <1>3, <2>3
<1>6. CASE InLoop(w)
  <2>1. Resting("failed").pc = "idle"
    BY DEF Resting
  <2> QED BY <1>3, <1>6, <2>1, LoopShape DEF Turn, Failed, ReturnLoop, DeductLoop
<1>7. CASE EndLoop(w)
  BY <1>3, <1>7, EndLoopShape
<1>8. CASE Refund(w)
  BY <1>3, <1>8, RefundShape
<1>9. CASE RefundFails(w) \/ DeadlockAbort(w) \/ Abort(w)
  <2>1. Resting("failed").pc = "idle"
    BY DEF Resting
  <2> QED BY <1>3, <1>9, <2>1, FailShape DEF Failed
<1> QED BY <1>4, <1>5, <1>6, <1>7, <1>8, <1>9, StepCases

(***************************************************************************)
(* A refund is put on record.  Invariant, as long as nothing failed: a     *)
(* refunded sale reads refunded, or the handler that sent the money back   *)
(* holds a copy that does; any other copy agrees with the row, so that no  *)
(* save takes the refund off the record and no second one is sent.         *)
(***************************************************************************)
ThroughPaystack ==
    {s \in Sales : \E rows \in InitialSales : rows[s] # NoSale /\ rows[s].reference}

\* Nobody sets the payment status of an order that was paid through Paystack by
\* hand, unless to say that it was refunded.
NoPaymentByHand ==
    \A r \in Requests :
        r.op \in {"updateSale", "updateSaleStatus"} /\ r.sale \in ThroughPaystack
            => r.paymentStatus \in {Unset, "REFUNDED"}

RefundPending(g) ==
    /\ g.req.op \in Cancels /\ g.row.paymentStatus = "REFUNDED"
    /\ g.pc \in ReturnLoop \cup {"save", "saveWrite"}

OnRecord(s) ==
    \/ refunds[s] = 0
    \/ /\ refunds[s] = 1 /\ s \in ThroughPaystack /\ sales[s] # NoSale
       /\ \/ sales[s].paymentStatus = "REFUNDED"
          \/ \E w \in Workers : h[w].req.sale = s /\ RefundPending(h[w])

\* What a handler at work holds of the payment.
CopyOfPayment(w) ==
    LET s == h[w].req.sale
    IN  /\ h[w].row.reference => s \in ThroughPaystack
        /\ h[w].req.op = "createSale" => refunds[s] = 0
        /\ h[w].req.op # "createSale" =>
              /\ sales[s] # NoSale
              /\ s \in ThroughPaystack =>
                    h[w].row.paymentStatus \in {"REFUNDED", sales[s].paymentStatus}
        /\ h[w].pc = "refund" =>
              h[w].req.op \in Cancels /\ refunds[s] = 0 /\ s \in ThroughPaystack

\* Only the checkout's orders carry a Paystack reference.
Referenced ==
    /\ \A s \in Sales : (sales[s] # NoSale /\ sales[s].reference) => s \in ThroughPaystack
    /\ \A w \in Workers :
          (h[w].pc # "idle" /\ h[w].row.reference) => h[w].req.sale \in ThroughPaystack

RefundInv ==
    aborts = 0 =>
        /\ \A s \in Sales : OnRecord(s)
        /\ \A w \in Workers : h[w].pc # "idle" => CopyOfPayment(w)

LEMMA RestingIs ==
    ASSUME NEW result
    PROVE  Resting(result).pc = "idle"
  BY DEF Resting

\* A save with nobody in between.
LEMMA SavedRow ==
    ASSUME TypeInv, SavesRow, NEW w \in Workers, h[w].pc \in {"saveWrite", "commit"},
           sales' = [sales EXCEPT ![h[w].req.sale] = SavedSale(w)]
    PROVE  /\ h[w].req.sale \in Sales /\ h[w].row \in SaleRow /\ h[w].row # NoSale
           /\ sales'[h[w].req.sale] = h[w].row
           /\ \A s \in Sales : s # h[w].req.sale => sales'[s] = sales[s]
<1>1. h[w].req.sale \in Sales /\ h[w].row \in SaleRow
  BY AtWork
<1>2. SavedSale(w) = h[w].row
  BY DEF SavesRow, Saving
<1>3. sales \in [Sales -> SaleRow \cup {NoSale}]
  BY DEF TypeInv, Tables
<1> QED BY <1>1, <1>2, <1>3, InitialAssumption

LEMMA ReferencedStep ==
    ASSUME OneAtATime, TypeInv, SavesRow, Referenced, NEW w \in Workers,
           Arrive(w) \/ Step(w) \/ Abort(w)
    PROVE  Referenced'
<1>1. \A v \in Workers : v = w
  BY DEF OneAtATime
<1>2. h[w].pc # "idle" => h[w].row \in SaleRow /\ h[w].req.sale \in Sales
  BY AtWork
\* The handler's copy carries a reference if it did before, or the row does.
<1>3. ASSUME UNCHANGED sales,
             \/ h'[w].pc = "idle"
             \/ ~h'[w].row.reference
             \/ h'[w].req = h[w].req /\ h[w].pc # "idle" /\ h'[w].row.reference = h[w].row.reference
             \/ /\ h'[w].req.sale \in Sales /\ sales[h'[w].req.sale] # NoSale
                /\ h'[w].row.reference = sales[h'[w].req.sale].reference
      PROVE  Referenced'
  BY <1>1, <1>3 DEF Referenced
<1>4. CASE Arrive(w)
  <2>1. CASE h'[w] = Resting("refused")
    BY <1>3, <1>4, <2>1, ArriveShape, RestingIs
  <2>2. CASE h'[w] # Resting("refused")
    <3>1. PICK r \in Requests : h'[w].req = r /\ Accepted(w, r)
      BY <1>4, <2>2, ArriveShape
    <3>2. r.sale \in Sales /\ UNCHANGED sales
      BY <1>4, ArriveShape, RequestType
    <3>3. CASE r.op = "createSale"
      BY <1>3, <3>1, <3>2, <3>3 DEF Accepted, Cancels
    <3>4. CASE r.op # "createSale"
      <4>1. Found(r.sale)
        BY <3>1, <3>4 DEF Accepted
      <4>2. sales[r.sale] \in SaleRow /\ sales[r.sale] # NoSale
        BY <3>2, <4>1, FoundType DEF Found
      <4>3. h'[w].row.reference = sales[r.sale].reference
        BY <3>1, <3>4, <4>2 DEF Accepted, SaleRow
      <4> QED BY <1>3, <3>1, <3>2, <4>2, <4>3
    <3> QED BY <3>3, <3>4
  <2> QED BY <2>1, <2>2
<1>5. CASE InLoop(w)
  <2>1. h[w].pc # "idle" /\ UNCHANGED sales
    BY <1>5, LoopShape DEF Turn, ReturnLoop, DeductLoop
  <2> QED BY <1>3, <1>5, <2>1, LoopShape, RestingIs DEF Turn, Failed
<1>6. CASE EndLoop(w)
  <2>1. h[w].pc # "idle" /\ UNCHANGED sales /\ h'[w].req = h[w].req
    BY <1>6, EndLoopShape
  <2>2. h'[w].row.reference = h[w].row.reference
    BY <1>2, <1>6, <2>1, EndLoopShape DEF SaleRow
  <2> QED BY <1>3, <2>1, <2>2
<1>7. CASE Refund(w)
  <2>1. /\ h[w].pc = "refund" /\ h'[w].req = h[w].req /\ UNCHANGED sales
        /\ h'[w].row = [h[w].row EXCEPT !.paymentStatus = "REFUNDED"]
    BY <1>7, RefundShape DEF Refund
  <2>2. h'[w].row.reference = h[w].row.reference
    BY <1>2, <2>1 DEF SaleRow
  <2> QED BY <1>3, <2>1, <2>2
<1>8. CASE CompareSale(w) \/ WriteSale(w) \/ Notify(w) \/ Commit(w)
  <2>1. h[w].pc # "idle"
    BY <1>8 DEF CompareSale, WriteSale, Notify, Commit
  <2>2. CASE UNCHANGED sales
    <3>1. h'[w].pc = "idle" \/ (h'[w].req = h[w].req /\ h'[w].row = h[w].row)
      BY <1>8, SaveShape, RestingIs DEF Failed
    <3> QED BY <1>3, <2>1, <2>2, <3>1
  <2>3. CASE sales' # sales
    <3>1. /\ h[w].pc \in {"saveWrite", "commit"}
          /\ sales' = [sales EXCEPT ![h[w].req.sale] = SavedSale(w)]
          /\ h'[w].pc = "idle" \/ (h'[w].req = h[w].req /\ h'[w].row = h[w].row)
      BY <1>8, <2>3, SaveShape, RestingIs
    <3>2. /\ sales'[h[w].req.sale] = h[w].row
          /\ \A s \in Sales : s # h[w].req.sale => sales'[s] = sales[s]
      BY <3>1, SavedRow
    <3> QED BY <1>1, <2>1, <3>1, <3>2 DEF Referenced
  <2> QED BY <2>2, <2>3
<1>9. CASE RefundFails(w) \/ DeadlockAbort(w) \/ Abort(w)
  BY <1>3, <1>9, FailShape, RestingIs DEF Failed
<1> QED BY <1>4, <1>5, <1>6, <1>7, <1>8, <1>9, StepCases

LEMMA RefundInvStep ==
    ASSUME OneAtATime, NoPaymentByHand, TypeInv, SavesRow, Referenced, RefundInv,
           NEW w \in Workers, Arrive(w) \/ Step(w) \/ Abort(w)
    PROVE  RefundInv'
<1>1. \A v \in Workers : v = w
  BY DEF OneAtATime
<1>2. SUFFICES ASSUME aborts' = 0
               PROVE  /\ \A s \in Sales : OnRecord(s)'
                      /\ h'[w].pc # "idle" => CopyOfPayment(w)'
  BY <1>1 DEF RefundInv
<1>3. aborts = 0 /\ aborts' # aborts + 1
  <2>1. aborts \in Nat
    BY DEF TypeInv, Tables
  <2>2. UNCHANGED aborts \/ aborts' = aborts + 1
    BY ArriveShape, LoopShape, EndLoopShape, SaveShape, FailShape, StepCases DEF Refund
  <2> QED BY <1>2, <2>1, <2>2
<1>4. /\ \A s \in Sales : OnRecord(s)
      /\ h[w].pc # "idle" => CopyOfPayment(w)
  BY <1>3 DEF RefundInv
<1>5. h[w].pc # "idle" => h[w].row \in SaleRow /\ h[w].req.sale \in Sales
  BY AtWork
\* A refunded sale reads refunded, unless its handler is about to say so.
<1>6. ASSUME NEW s \in Sales, ~(h[w].req.sale = s /\ RefundPending(h[w]))
      PROVE  \/ refunds[s] = 0
             \/ /\ refunds[s] = 1 /\ s \in ThroughPaystack /\ sales[s] # NoSale
                /\ sales[s].paymentStatus = "REFUNDED"
  BY <1>1, <1>4, <1>6 DEF OnRecord
<1>7. ASSUME UNCHANGED <<sales, refunds>>,
             RefundPending(h[w]) => RefundPending(h'[w]) /\ h'[w].req = h[w].req
      PROVE  \A s \in Sales : OnRecord(s)'
  <2> SUFFICES ASSUME NEW s \in Sales PROVE OnRecord(s)'
    OBVIOUS
  <2>1. CASE h[w].req.sale = s /\ RefundPending(h[w])
    <3>1. OnRecord(s)
      BY <1>4
    <3> QED BY <1>7, <2>1, <3>1 DEF OnRecord, RefundPending
  <2>2. CASE ~(h[w].req.sale = s /\ RefundPending(h[w]))
    BY <1>6, <1>7, <2>2 DEF OnRecord
  <2> QED BY <2>1, <2>2
<1>8. CASE Arrive(w)
  <2>1. UNCHANGED <<sales, refunds>> /\ h[w].pc = "idle"
    BY <1>8, ArriveShape
  <2>2. ~RefundPending(h[w])
    BY <2>1 DEF RefundPending, ReturnLoop
  <2>3. \A s \in Sales : OnRecord(s)'
    BY <1>7, <2>1, <2>2
  <2>4. ASSUME h'[w].pc # "idle" PROVE CopyOfPayment(w)'
    <3>1. PICK r \in Requests : h'[w].req = r /\ Accepted(w, r)
      BY <1>8, <2>4, ArriveShape, RestingIs
    <3>2. r.sale \in Sales
      BY RequestType
    <3>3. CASE r.op = "createSale"
      <4>1. sales[r.sale] = NoSale /\ h'[w].pc = "validate" /\ ~h'[w].row.reference
        BY <3>1, <3>3 DEF Accepted, Cancels
      <4>2. refunds[r.sale] = 0
        BY <1>6, <2>2, <3>2, <4>1
      <4> QED BY <2>1, <3>1, <3>3, <4>1, <4>2 DEF CopyOfPayment
    <3>4. CASE r.op # "createSale"
      <4>1. Found(r.sale)
        BY <3>1, <3>4 DEF Accepted
      <4>2. sales[r.sale] \in SaleRow /\ sales[r.sale] # NoSale
        BY <3>2, <4>1, FoundType DEF Found
      <4>3. h'[w].row.reference = sales[r.sale].reference
        BY <3>1, <3>4, <4>2 DEF Accepted, SaleRow
      <4>4. h'[w].row.reference => r.sale \in ThroughPaystack
        BY <3>2, <4>2, <4>3 DEF Referenced
      <4>5. r.sale \in ThroughPaystack =>
               h'[w].row.paymentStatus \in {"REFUNDED", sales[r.sale].paymentStatus}
        BY <3>1, <3>4, <4>2 DEF Accepted, SaleRow, NoPaymentByHand, Chosen
      <4>6. h'[w].pc = "refund" =>
               r.op \in Cancels /\ sales[r.sale].paymentStatus = "PAID" /\ sales[r.sale].reference
        BY <3>1, <3>4 DEF Accepted
      <4>7. h'[w].pc = "refund" => refunds[r.sale] = 0
        BY <1>6, <2>2, <3>2, <4>6
      <4> QED BY <2>1, <3>1, <3>4, <4>2, <4>3, <4>4, <4>5, <4>6, <4>7 DEF CopyOfPayment
    <3> QED BY <3>3, <3>4
  <2> QED BY <2>3, <2>4
\* A step that leaves the payment of its copy alone.
<1>9. ASSUME UNCHANGED <<sales, refunds>>, h[w].pc # "idle",
             h'[w].req = h[w].req, h'[w].pc # "refund",
             h'[w].row.reference = h[w].row.reference,
             h'[w].row.paymentStatus = h[w].row.paymentStatus
      PROVE  CopyOfPayment(w)'
  BY <1>4, <1>9 DEF CopyOfPayment
<1>10. CASE InLoop(w)
  <2>1. UNCHANGED <<sales, refunds>> /\ h[w].pc \notin {"idle", "refund"}
    BY <1>10, LoopShape DEF Turn, ReturnLoop, DeductLoop
  <2>2. CASE Turn(w)
    <3>1. RefundPending(h[w]) => RefundPending(h'[w])
      BY <2>2 DEF Turn, RefundPending, ReturnLoop, DeductLoop
    <3>2. h'[w].pc # "refund" /\ h'[w].req = h[w].req /\ h'[w].row = h[w].row
      BY <2>2 DEF Turn, ReturnLoop, DeductLoop
    <3> QED BY <1>7, <1>9, <2>1, <3>1, <3>2
  <2>3. CASE Failed(w) /\ h[w].pc \in {"validate", "deduct"}
    <3>1. ~RefundPending(h[w])
      BY <2>3 DEF RefundPending, ReturnLoop
    <3> QED BY <1>7, <2>1, <2>3, <3>1, RestingIs DEF Failed
  <2> QED BY <1>10, <2>2, <2>3, LoopShape
<1>11. CASE EndLoop(w)
  <2>1. /\ UNCHANGED <<sales, refunds>> /\ h'[w].req = h[w].req
        /\ h[w].pc # "idle" /\ h'[w].pc # "refund"
    BY <1>11, EndLoopShape
  <2>2. /\ h'[w].row.reference = h[w].row.reference
        /\ h'[w].row.paymentStatus = h[w].row.paymentStatus
    BY <1>5, <1>11, <2>1, EndLoopShape DEF SaleRow
  <2>3. RefundPending(h[w]) => RefundPending(h'[w])
    BY <1>11, <2>1, <2>2, EndLoopShape DEF RefundPending, ReturnLoop, Cancels
  <2> QED BY <1>7, <1>9, <2>1, <2>2, <2>3
<1>12. CASE Refund(w)
  <2>1. /\ h[w].pc = "refund" /\ h'[w].req = h[w].req /\ h'[w].pc = "return"
        /\ h'[w].row = [h[w].row EXCEPT !.paymentStatus = "REFUNDED"]
        /\ UNCHANGED sales
        /\ refunds' = [refunds EXCEPT ![h[w].req.sale] = @ + 1]
    BY <1>12, RefundShape DEF Refund
  <2>2. CopyOfPayment(w) /\ h[w].row \in SaleRow /\ h[w].req.sale \in Sales
    BY <1>4, <1>5, <2>1
  <2>3. /\ h'[w].row.paymentStatus = "REFUNDED"
        /\ h'[w].row.reference = h[w].row.reference
    BY <2>1, <2>2 DEF SaleRow
  <2>4. /\ h[w].req.op \in Cancels /\ h[w].req.op # "createSale"
        /\ refunds[h[w].req.sale] = 0 /\ h[w].req.sale \in ThroughPaystack
        /\ sales[h[w].req.sale] # NoSale
    BY <2>1, <2>2 DEF CopyOfPayment, Cancels
  <2>5. RefundPending(h'[w])
    BY <2>1, <2>3, <2>4 DEF RefundPending, ReturnLoop
  <2>6. refunds \in [Sales -> Nat]
    BY DEF TypeInv, Tables
  <2>7. ASSUME NEW s \in Sales PROVE OnRecord(s)'
    <3>1. CASE s = h[w].req.sale
      <4>1. refunds'[s] = 1
        BY <2>1, <2>2, <2>4, <2>6, <3>1
      <4> QED BY <2>1, <2>4, <2>5, <3>1, <4>1 DEF OnRecord, RefundPending
    <3>2. CASE s # h[w].req.sale
      <4>1. refunds'[s] = refunds[s]
        BY <2>1, <2>6, <3>2
      <4> QED BY <1>6, <2>1, <3>2, <4>1 DEF OnRecord
    <3> QED BY <3>1, <3>2
  <2>8. CopyOfPayment(w)'
    BY <2>1, <2>2, <2>3, <2>4 DEF CopyOfPayment
  <2> QED BY <2>7, <2>8
<1>13. CASE CompareSale(w) \/ WriteSale(w) \/ Notify(w) \/ Commit(w)
  <2>1. h[w].pc \notin {"idle", "refund"} /\ UNCHANGED refunds
    BY <1>13 DEF CompareSale, WriteSale, Notify, Commit
  <2>2. CopyOfPayment(w) /\ h[w].row \in SaleRow /\ h[w].req.sale \in Sales
    BY <1>4, <1>5, <2>1
  <2>3. CASE ~(/\ h[w].pc \in {"saveWrite", "commit"}
               /\ sales' = [sales EXCEPT ![h[w].req.sale] = SavedSale(w)])
    <3>1. InTransaction(w) => ~RefundPending(h[w])
      BY DEF InTransaction, RefundPending, Cancels
    <3>2. CASE Failed(w) /\ InTransaction(w) /\ UNCHANGED sales
      BY <1>7, <2>1, <3>1, <3>2, RestingIs DEF Failed
    <3>3. CASE /\ h[w].pc = "save" /\ h'[w].pc = "saveWrite" /\ UNCHANGED sales
               /\ h'[w].req = h[w].req /\ h'[w].row = h[w].row
      <4>1. RefundPending(h[w]) => RefundPending(h'[w])
        BY <3>3 DEF RefundPending
      <4> QED BY <1>7, <1>9, <2>1, <3>3, <4>1
    <3>4. CASE /\ InTransaction(w) /\ UNCHANGED sales /\ h'[w].pc \in {"notify", "commit"}
               /\ h'[w].req = h[w].req /\ h'[w].row = h[w].row
      BY <1>7, <1>9, <2>1, <3>1, <3>4
    <3>5. CASE h[w].pc = "notify" /\ UNCHANGED sales /\ h'[w] = Resting("ok")
      <4>1. ~RefundPending(h[w])
        BY <3>5 DEF RefundPending, ReturnLoop
      <4> QED BY <1>7, <2>1, <3>5, <4>1, RestingIs
    <3> QED BY <1>13, <2>3, <3>2, <3>3, <3>4, <3>5, SaveShape
  <2>4. CASE h[w].pc \in {"saveWrite", "commit"} /\ sales' = [sales EXCEPT ![h[w].req.sale] = SavedSale(w)]
    <3>1. /\ h[w].row # NoSale /\ sales'[h[w].req.sale] = h[w].row
          /\ \A s \in Sales : s # h[w].req.sale => sales'[s] = sales[s]
      BY <2>4, SavedRow
    <3>2. ASSUME NEW s \in Sales PROVE OnRecord(s)'
      <4>1. CASE s # h[w].req.sale
        BY <1>6, <2>1, <3>1, <4>1 DEF OnRecord
      <4>2. CASE s = h[w].req.sale /\ RefundPending(h[w])
        BY <1>4, <2>1, <3>1, <4>2 DEF OnRecord, RefundPending
      <4>3. CASE s = h[w].req.sale /\ ~RefundPending(h[w])
        BY <1>6, <2>1, <2>2, <3>1, <4>3 DEF OnRecord, CopyOfPayment
      <4> QED BY <4>1, <4>2, <4>3
    <3>3. ASSUME h'[w].req = h[w].req, h'[w].row = h[w].row, h'[w].pc # "refund"
          PROVE  CopyOfPayment(w)'
      BY <2>1, <2>2, <3>1, <3>3 DEF CopyOfPayment
    <3>4. h'[w].pc = "idle" \/ (h'[w].req = h[w].req /\ h'[w].row = h[w].row /\ h'[w].pc # "refund")
      BY <1>13, <2>4, SaveShape, RestingIs DEF Failed
    <3> QED BY <3>2, <3>3, <3>4
  <2> QED BY <1>13, <2>3, <2>4, SaveShape
<1>14. CASE RefundFails(w) \/ DeadlockAbort(w) \/ Abort(w)
  <2>1. /\ UNCHANGED <<sales, refunds>> /\ h'[w].pc = "idle"
        /\ h[w].pc = "refund" \/ InTransaction(w)
    BY <1>3, <1>14, FailShape, RestingIs DEF Failed
  <2>2. ~RefundPending(h[w])
    BY <2>1 DEF RefundPending, InTransaction, ReturnLoop, Cancels
  <2> QED BY <1>7, <2>1, <2>2
<1> QED BY <1>8, <1>10, <1>11, <1>12, <1>13, <1>14, StepCases

\* Without a failure, and with one handler at a time, money sent back for an order is
\* on record and was sent once, however the order is edited, cancelled and read again.
THEOREM RefundsRecordedSerially ==
    ASSUME OneAtATime, NoPaymentByHand
    PROVE  Spec => []RefundIsRecorded
<1> DEFINE Inv == TypeInv /\ SavesRow /\ Referenced /\ RefundInv
<1>1. Init => Inv
  <2> SUFFICES ASSUME Init PROVE SavesRow /\ Referenced /\ RefundInv
    BY InitTypeInv
  <2>1. \A w \in Workers : h[w].pc = "idle"
    BY RestingIs DEF Init
  <2>2. SavesRow
    BY <2>1 DEF SavesRow, Saving
  <2>3. \A s \in Sales : (sales[s] # NoSale /\ sales[s].reference) => s \in ThroughPaystack
    BY DEF Init, ThroughPaystack
  <2>4. \A s \in Sales : refunds[s] = 0
    BY DEF Init
  <2> QED BY <2>1, <2>2, <2>3, <2>4 DEF Referenced, RefundInv, OnRecord
<1>2. Inv /\ [Next]_vars => Inv'
  <2> SUFFICES ASSUME Inv, [Next]_vars PROVE SavesRow' /\ Referenced' /\ RefundInv'
    BY NextTypeInv
  <2>1. CASE UNCHANGED vars
    <3>1. h' = h /\ sales' = sales /\ refunds' = refunds /\ aborts' = aborts
      BY <2>1 DEF vars
    <3> QED BY <3>1 DEF SavesRow, Saving, InTransaction, SavedSale, Referenced, RefundInv,
                        OnRecord, CopyOfPayment
  <2>2. CASE Next
    BY <2>2, SavesRowStep, ReferencedStep, RefundInvStep DEF Next
  <2> QED BY <2>1, <2>2
<1>3. Inv => RefundIsRecorded
  <2> SUFFICES ASSUME Inv, NEW s \in Sales,
                      aborts = 0, refunds[s] > 0, \A w \in Workers : h[w].req.sale # s
               PROVE  refunds[s] = 1 /\ sales[s].paymentStatus = "REFUNDED"
    BY DEF RefundIsRecorded
  <2> QED BY DEF RefundInv, OnRecord
<1> QED BY <1>1, <1>2, <1>3, PTL DEF Spec

(***************************************************************************)
(* An order that is being packed has batches on every item.  Invariant:    *)
(* the copies do too, and of a loop that validates or deducts, each item   *)
(* it has left behind does: what it counted is what was requested, which   *)
(* is never nothing.                                                       *)
(***************************************************************************)
Packed == {"PACKAGING", "IN_TRANSIT", "DELIVERED"}

Allocated(items) == \A i \in DOMAIN items : items[i].alloc # <<>>

PackedRow(row) == row.orderStatus \in Packed => Allocated(row.lineItems)

\* The loop over items has todo left, and has counted total of the first of them.
Covered(items, todo, total) ==
    \E n \in 0 .. Len(items) :
        /\ Len(todo) = Len(items) - n
        /\ \A i \in 1 .. n : items[i].alloc # <<>>
        /\ \A i \in 1 .. Len(todo) : todo[i].alloc # <<>> => items[n + i].alloc # <<>>
        /\ (todo # <<>> /\ total > 0) => items[n + 1].alloc # <<>>

PackedHandler(w) ==
    LET g == h[w]
    IN  /\ (g.pc \in {"refund", "return", "validate", "deduct"} /\ g.todo = <<>>) => g.total = 0
        /\ g.pc \in ReturnLoop \cup {"refund"} =>
              \/ g.req.op = "updateSale"
              \/ g.req.op = "assignBatches" /\ PackedRow(g.row)
              \/ g.row.orderStatus = "CANCELLED"
                   /\ g.req.op \in Cancels \cup {"cancelSale"}
        /\ g.pc = "validate" =>
              \/ g.req.op \in {"createSale", "updateSale"}
              \/ /\ g.req.op = "assignBatches"
                 /\ PackedRow(g.row) /\ Covered(<<Assigned(w)>>, g.todo, g.total)
        /\ g.pc \in DeductLoop =>
              \/ /\ g.req.op \in {"createSale", "updateSale"}
                 /\ Covered(g.row.lineItems, g.todo, g.total)
              \/ g.req.op = "assignBatches" /\ PackedRow(g.row)
        /\ g.pc = "save" =>
              \/ PackedRow(g.row)
              \/ g.req.op = "updateSale" /\ g.req.orderStatus \in Packed
        /\ Saving(w) => PackedRow(g.row)

PackedInv == PackedSalesAllocated /\ \A w \in Workers : PackedHandler(w)

ItemsComeAllocated == \A r \in Requests : r.op = "addLineItem" => Allocated(r.lineItems)

PackedAtFirst ==
    \A rows \in InitialSales : \A s \in Sales : rows[s] # NoSale => PackedRow(rows[s])

LEMMA AllocatedConcat ==
    ASSUME NEW s \in Seq(LineItem), NEW t \in Seq(LineItem), Allocated(s), Allocated(t)
    PROVE  Allocated(s \o t)
<1>1. Len(s) \in Nat /\ Len(t) \in Nat /\ DOMAIN (s \o t) = 1 .. Len(s) + Len(t)
  OBVIOUS
<1>2. SUFFICES ASSUME NEW i \in 1 .. Len(s) + Len(t) PROVE (s \o t)[i].alloc # <<>>
  BY <1>1 DEF Allocated
<1>3. CASE i =< Len(s)
  <2>1. i \in DOMAIN s /\ (s \o t)[i] = s[i]
    BY <1>1, <1>3
  <2> QED BY <2>1 DEF Allocated
<1>4. CASE ~(i =< Len(s))
  <2>1. i - Len(s) \in DOMAIN t /\ (s \o t)[i] = t[i - Len(s)]
    BY <1>1, <1>4
  <2> QED BY <2>1 DEF Allocated
<1> QED BY <1>3, <1>4

LEMMA CoveredAtFirst ==
    ASSUME NEW items \in Seq(LineItem)
    PROVE  Covered(items, items, 0)
<1>1. Len(items) \in Nat
  OBVIOUS
<1>2. 0 \in 0 .. Len(items) /\ Len(items) = Len(items) - 0
  BY <1>1
<1>3. \A i \in 1 .. Len(items) : items[0 + i] = items[i]
  OBVIOUS
<1>4. \A i \in 1 .. Len(items) : items[i].alloc # <<>> => items[0 + i].alloc # <<>>
  BY <1>3
<1>5. \A i \in 1 .. 0 : items[i].alloc # <<>>
  OBVIOUS
<1>6. ~(0 > 0)
  OBVIOUS
<1> SUFFICES \E n \in 0 .. Len(items) :
                /\ Len(items) = Len(items) - n
                /\ \A i \in 1 .. n : items[i].alloc # <<>>
                /\ \A i \in 1 .. Len(items) : items[i].alloc # <<>> => items[n + i].alloc # <<>>
                /\ (items # <<>> /\ 0 > 0) => items[n + 1].alloc # <<>>
  BY DEF Covered
<1> WITNESS 0 \in 0 .. Len(items)
<1> QED BY <1>2, <1>4, <1>5, <1>6

LEMMA CoveredAtLast ==
    ASSUME NEW items \in Seq(LineItem), NEW total, Covered(items, <<>>, total)
    PROVE  Allocated(items)
<1>1. PICK n \in 0 .. Len(items) :
         0 = Len(items) - n /\ \A i \in 1 .. n : items[i].alloc # <<>>
  BY DEF Covered
<1>2. n = Len(items)
  BY <1>1
<1> QED BY <1>1, <1>2 DEF Allocated

\* Counting an allocation of the first item.
LEMMA CoveredCounted ==
    ASSUME NEW items \in Seq(LineItem), NEW todo \in Seq(LineItem), NEW total \in Nat,
           NEW n \in Nat \ {0}, Covered(items, todo, total),
           todo # <<>>, Head(todo).alloc # <<>>
    PROVE  Covered(items, Advanced(todo), total + n)
<1> DEFINE next == Advanced(todo)
           first == [Head(todo) EXCEPT !.alloc = Tail(Head(todo).alloc)]
<1>1. PICK k \in 0 .. Len(items) :
        /\ Len(todo) = Len(items) - k
        /\ \A i \in 1 .. k : items[i].alloc # <<>>
        /\ \A i \in 1 .. Len(todo) : todo[i].alloc # <<>> => items[k + i].alloc # <<>>
  BY DEF Covered
<1>2. Len(todo) \in Nat \ {0} /\ Tail(todo) \in Seq(LineItem) /\ Len(Tail(todo)) = Len(todo) - 1
  OBVIOUS
<1>3. next = <<first>> \o Tail(todo)
  BY DEF Advanced
<1> HIDE DEF first, next
<1>4. Len(next) = Len(todo)
  BY <1>2, <1>3
<1>5. items[k + 1].alloc # <<>>
  <2>1. 1 \in 1 .. Len(todo) /\ todo[1] = Head(todo)
    BY <1>2
  <2> QED BY <1>1, <2>1
<1>6. ASSUME NEW i \in 1 .. Len(next), next[i].alloc # <<>> PROVE items[k + i].alloc # <<>>
  <2>1. CASE i = 1
    BY <1>5, <2>1
  <2>2. CASE i # 1
    <3>1. next[i] = Tail(todo)[i - 1] /\ Tail(todo)[i - 1] = todo[i]
      BY <1>2, <1>3, <1>4, <1>6, <2>2
    <3> QED BY <1>1, <1>4, <1>6, <3>1
  <2> QED BY <2>1, <2>2
<1> QED BY <1>1, <1>4, <1>5, <1>6 DEF Covered, next

\* Leaving an item behind of which as much was counted as was requested.
LEMMA CoveredLeft ==
    ASSUME NEW items \in Seq(LineItem), NEW todo \in Seq(LineItem), NEW total,
           Covered(items, todo, total), todo # <<>>, total = Head(todo).requested
    PROVE  Covered(items, Tail(todo), 0)
<1>1. PICK k \in 0 .. Len(items) :
        /\ Len(todo) = Len(items) - k
        /\ \A i \in 1 .. k : items[i].alloc # <<>>
        /\ \A i \in 1 .. Len(todo) : todo[i].alloc # <<>> => items[k + i].alloc # <<>>
        /\ total > 0 => items[k + 1].alloc # <<>>
  BY DEF Covered
<1>2. /\ Len(todo) \in Nat \ {0} /\ Tail(todo) \in Seq(LineItem)
      /\ Len(Tail(todo)) = Len(todo) - 1 /\ Head(todo) \in LineItem
      /\ \A i \in 1 .. Len(Tail(todo)) : Tail(todo)[i] = todo[i + 1] /\ i + 1 \in 1 .. Len(todo)
  OBVIOUS
<1>3. items[k + 1].alloc # <<>>
  <2>1. Head(todo).requested \in Nat \ {0}
    BY <1>2 DEF LineItem
  <2>2. total > 0
    BY <2>1
  <2> QED BY <1>1, <2>2
<1>4. k + 1 \in 0 .. Len(items) /\ Len(Tail(todo)) = Len(items) - (k + 1)
  BY <1>1, <1>2
<1>5. \A i \in 1 .. k + 1 : items[i].alloc # <<>>
  BY <1>1, <1>3
<1>6. ASSUME NEW i \in 1 .. Len(Tail(todo)), Tail(todo)[i].alloc # <<>>
      PROVE  items[(k + 1) + i].alloc # <<>>
  <2>1. (k + 1) + i = k + (i + 1)
    BY <1>1, <1>2
  <2> QED BY <1>1, <1>2, <1>6, <2>1
<1> QED BY <1>4, <1>5, <1>6 DEF Covered

LEMMA PackedInvStep ==
    ASSUME OneAtATime, ItemsComeAllocated, TypeInv, SavesRow, PackedInv,
           NEW w \in Workers, Arrive(w) \/ Step(w) \/ Abort(w)
    PROVE  PackedInv'
<1>1. \A v \in Workers : v = w
  BY DEF OneAtATime
<1>2. /\ \A s \in Sales : sales[s] # NoSale => PackedRow(sales[s])
      /\ PackedHandler(w)
  BY DEF PackedInv, PackedSalesAllocated, PackedRow, Packed, Allocated
<1>3. SUFFICES /\ \A s \in Sales : sales'[s] # NoSale => PackedRow(sales'[s])
               /\ PackedHandler(w)'
  BY <1>1 DEF PackedInv, PackedSalesAllocated, PackedRow, Packed, Allocated
<1>4. h[w].pc # "idle" => /\ h[w].row \in SaleRow /\ h[w].row.lineItems \in Seq(LineItem)
                          /\ h[w].todo \in Seq(LineItem) /\ h[w].total \in Nat
                          /\ h[w].req.lineItems \in Seq(LineItem)
  BY AtWork DEF SaleRow, Handler
<1>5. (h[w].pc \in {"return", "validate"} /\ h[w].req.op = "assignBatches")
         => <<Assigned(w)>> \in Seq(LineItem)
  BY AssignedType
<1>6. ASSUME h'[w].pc = "idle" PROVE PackedHandler(w)'
  BY <1>6 DEF PackedHandler, ReturnLoop, DeductLoop, Saving
<1>7. CASE Arrive(w)
  <2>1. CASE h'[w] = Resting("refused")
    BY <1>2, <1>6, <1>7, <2>1, ArriveShape, RestingIs
  <2>2. CASE h'[w] # Resting("refused")
    <3>1. PICK r \in Requests : h'[w].req = r /\ h'[w].total = 0 /\ Accepted(w, r)
      BY <1>7, <2>2, ArriveShape
    <3>2. r.sale \in Sales /\ r.lineItems \in Seq(LineItem) /\ UNCHANGED sales
      BY <1>7, ArriveShape, RequestType
    <3>3. Found(r.sale) => /\ sales[r.sale] \in SaleRow /\ PackedRow(sales[r.sale])
                           /\ sales[r.sale].lineItems \in Seq(LineItem)
      BY <1>2, <3>2, FoundType DEF Found
    <3>4. ~Saving(w)' /\ h'[w].pc \notin DeductLoop
      BY <3>1 DEF Accepted, Saving, DeductLoop
    <3>5. CASE r.op = "createSale"
      <4>1. h'[w].pc = "validate"
        BY <3>1, <3>5 DEF Accepted, Cancels
      <4> QED BY <1>2, <3>1, <3>2, <3>4, <3>5, <4>1 DEF PackedHandler, ReturnLoop
    <3>6. CASE r.op = "addLineItem"
      <4>1. /\ Found(r.sale) /\ h'[w].pc = "save"
            /\ h'[w].row = [sales[r.sale] EXCEPT !.lineItems = @ \o r.lineItems]
        BY <3>1, <3>6 DEF Accepted, Cancels
      <4>2. /\ h'[w].row.orderStatus = sales[r.sale].orderStatus
            /\ h'[w].row.lineItems = sales[r.sale].lineItems \o r.lineItems
        BY <3>3, <4>1 DEF SaleRow
      <4>3. Allocated(r.lineItems)
        BY <3>6 DEF ItemsComeAllocated
      <4>4. Allocated(sales[r.sale].lineItems) => Allocated(sales[r.sale].lineItems \o r.lineItems)
        BY <3>2, <3>3, <4>1, <4>3, AllocatedConcat
      <4>5. PackedRow(h'[w].row)
        BY <3>3, <4>1, <4>2, <4>4 DEF PackedRow
      <4> QED BY <1>2, <3>2, <3>4, <4>1, <4>5 DEF PackedHandler, ReturnLoop
    <3>7. CASE r.op = "assignBatches"
      <4>1. Found(r.sale) /\ h'[w].pc = "return" /\ h'[w].row = sales[r.sale]
        BY <3>1, <3>7 DEF Accepted, Cancels
      <4> QED BY <1>2, <3>1, <3>2, <3>3, <3>4, <3>7, <4>1 DEF PackedHandler
    <3>8. CASE r.op = "updateSale"
      <4>1. /\ Found(r.sale) /\ h'[w].pc \in {"return", "save"}
            /\ h'[w].row = [sales[r.sale] EXCEPT !.orderStatus = Chosen(r.orderStatus, @),
                                                 !.paymentStatus = Chosen(r.paymentStatus, @)]
        BY <3>1, <3>8 DEF Accepted, Cancels
      <4>2. /\ h'[w].row.orderStatus = Chosen(r.orderStatus, sales[r.sale].orderStatus)
            /\ h'[w].row.lineItems = sales[r.sale].lineItems
        BY <3>3, <4>1 DEF SaleRow
      <4>3. PackedRow(h'[w].row) \/ r.orderStatus \in Packed
        BY <3>3, <4>1, <4>2 DEF PackedRow, Chosen
      <4> QED BY <1>2, <3>1, <3>2, <3>4, <3>8, <4>1, <4>3 DEF PackedHandler
    <3>9. CASE r.op = "updateSaleStatus"
      <4>1. /\ Found(r.sale) /\ h'[w].pc = "save"
            /\ ValidStatusChange(sales[r.sale], r.orderStatus, r.paymentStatus)
            /\ h'[w].row = [sales[r.sale] EXCEPT !.orderStatus = Chosen(r.orderStatus, @),
                                                 !.paymentStatus = Chosen(r.paymentStatus, @)]
        BY <3>1, <3>9 DEF Accepted, Cancels
      <4>2. /\ h'[w].row.orderStatus = Chosen(r.orderStatus, sales[r.sale].orderStatus)
            /\ h'[w].row.lineItems = sales[r.sale].lineItems
        BY <3>3, <4>1 DEF SaleRow
      <4>3. PackedRow(h'[w].row)
        BY <3>3, <4>1, <4>2 DEF PackedRow, Packed, Allocated, Chosen, ValidStatusChange
      <4> QED BY <1>2, <3>2, <3>4, <4>1, <4>3 DEF PackedHandler, ReturnLoop
    <3>10. CASE r.op = "confirmDelivery"
      <4>1. /\ Found(r.sale) /\ h'[w].pc = "save"
            /\ h'[w].row = [sales[r.sale] EXCEPT !.confirmed = r.confirmed]
        BY <3>1, <3>10 DEF Accepted, Cancels
      <4>2. PackedRow(h'[w].row)
        BY <3>3, <4>1 DEF PackedRow, SaleRow
      <4> QED BY <1>2, <3>2, <3>4, <4>1, <4>2 DEF PackedHandler, ReturnLoop
    <3>11. CASE r.op \in Cancels \cup {"cancelSale"}
      <4>1. /\ Found(r.sale) /\ h'[w].pc \in {"return", "refund"}
            /\ \/ h'[w].row = [sales[r.sale] EXCEPT !.orderStatus = "CANCELLED"]
               \/ h'[w].row = [sales[r.sale] EXCEPT !.orderStatus = "CANCELLED", !.deleted = TRUE]
        BY <3>1, <3>11 DEF Accepted, Cancels
      <4>2. h'[w].row.orderStatus = "CANCELLED"
        BY <3>3, <4>1 DEF SaleRow
      <4> QED BY <1>2, <3>1, <3>2, <3>4, <3>11, <4>1, <4>2 DEF PackedHandler
    <3> QED BY <3>1, <3>5, <3>6, <3>7, <3>8, <3>9, <3>10, <3>11 DEF Accepted
  <2> QED BY <2>1, <2>2
<1>8. CASE InLoop(w)
  <2>1. UNCHANGED sales
    BY <1>8, LoopShape
  <2>2. CASE Turn(w)
    <3>1. h'[w].req = h[w].req /\ h'[w].row = h[w].row /\ h[w].pc # "idle"
      BY <2>2 DEF Turn, ReturnLoop, DeductLoop
    <3>2. Assigned(w)' = Assigned(w)
      BY <3>1 DEF Assigned
    <3>3. /\ ~Saving(w)' /\ h'[w].pc # "save" /\ h'[w].pc # "refund"
          /\ h'[w].pc \in ReturnLoop => h[w].pc \in ReturnLoop
          /\ h'[w].pc = "validate" => h[w].pc = "validate"
          /\ h'[w].pc \in DeductLoop => h[w].pc \in DeductLoop
      BY <2>2 DEF Turn, Saving, ReturnLoop, DeductLoop
    <3>4. (h'[w].pc \in {"refund", "return", "validate", "deduct"} /\ h'[w].todo = <<>>) => h'[w].total = 0
      <4>1. CASE h'[w].pc \in InLoopBody
        BY <4>1 DEF InLoopBody
      <4>2. CASE AtAllocation(w) /\ h'[w].todo = Advanced(h[w].todo)
        <5>1. Tail(h[w].todo) \in Seq(LineItem)
          BY <1>4, <3>1, <4>2 DEF AtAllocation
        <5>2. Advanced(h[w].todo) # <<>>
          BY <5>1 DEF Advanced
        <5> QED BY <4>2, <5>2
      <4> QED BY <2>2, <4>1, <4>2 DEF Turn
    \* What is covered stays covered in a loop that counts exactly.
    <3>5. ASSUME NEW items \in Seq(LineItem), Covered(items, h[w].todo, h[w].total),
                 TotalAccepted(w) => h[w].total = Head(h[w].todo).requested
          PROVE  Covered(items, h'[w].todo, h'[w].total)
      <4>1. CASE AtAllocation(w) /\ h'[w].todo = Advanced(h[w].todo)
                 /\ h'[w].total = h[w].total + Alloc(w).quantity
        <5>1. Alloc(w).quantity \in Nat \ {0}
          BY <4>1, AllocType
        <5> QED BY <1>4, <3>1, <3>5, <4>1, <5>1, CoveredCounted DEF AtAllocation
      <4>2. CASE AtItemEnd(w) /\ TotalAccepted(w) /\ h'[w].todo = Tail(h[w].todo) /\ h'[w].total = 0
        BY <1>4, <3>1, <3>5, <4>2, CoveredLeft DEF AtItemEnd
      <4> QED BY <2>2, <3>5, <4>1, <4>2 DEF Turn
    <3>6. CASE h[w].pc \in ReturnLoop
      BY <1>2, <2>1, <2>2, <3>1, <3>3, <3>4, <3>6 DEF PackedHandler, Turn, ReturnLoop, DeductLoop
    <3>7. CASE h[w].pc = "validate"
      <4>1. h'[w].pc = "validate"
        BY <2>2, <3>7 DEF Turn, ReturnLoop, DeductLoop
      <4>2. CASE h[w].req.op \in {"createSale", "updateSale"}
        BY <1>2, <2>1, <3>1, <3>3, <3>4, <4>1, <4>2 DEF PackedHandler, ReturnLoop, DeductLoop
      <4>3. CASE h[w].req.op \notin {"createSale", "updateSale"}
        <5>1. /\ h[w].req.op = "assignBatches" /\ PackedRow(h[w].row)
              /\ Covered(<<Assigned(w)>>, h[w].todo, h[w].total)
          BY <1>2, <3>7, <4>3 DEF PackedHandler
        <5>2. TotalAccepted(w) => h[w].total = Head(h[w].todo).requested
          BY <3>7, <5>1 DEF TotalAccepted
        <5>3. Covered(<<Assigned(w)>>, h'[w].todo, h'[w].total)
          BY <1>5, <3>5, <3>7, <5>1, <5>2
        <5> QED BY <1>2, <2>1, <3>1, <3>2, <3>3, <3>4, <4>1, <5>1, <5>3
            DEF PackedHandler, ReturnLoop, DeductLoop
      <4> QED BY <4>2, <4>3
    <3>8. CASE h[w].pc \in DeductLoop
      <4>1. h'[w].pc \in DeductLoop
        BY <2>2, <3>8 DEF Turn, ReturnLoop, DeductLoop
      <4>2. TotalAccepted(w) => h[w].total = Head(h[w].todo).requested
        BY <3>8 DEF TotalAccepted, DeductLoop
      <4>3. \/ /\ h[w].req.op \in {"createSale", "updateSale"}
               /\ Covered(h[w].row.lineItems, h'[w].todo, h'[w].total)
            \/ h[w].req.op = "assignBatches" /\ PackedRow(h[w].row)
        BY <1>2, <1>4, <3>1, <3>5, <3>8, <4>2 DEF PackedHandler
      <4> QED BY <1>2, <2>1, <3>1, <3>3, <3>4, <4>1, <4>3 DEF PackedHandler, ReturnLoop, DeductLoop
    <3> QED BY <2>2, <3>6, <3>7, <3>8 DEF Turn
  <2>3. CASE Failed(w)
    BY <1>2, <1>6, <2>1, <2>3, RestingIs DEF Failed
  <2> QED BY <1>8, <2>2, <2>3, LoopShape
<1>9. CASE EndLoop(w)
  <2>1. /\ UNCHANGED sales /\ h[w].todo = <<>> /\ h'[w].req = h[w].req
        /\ h[w].pc \in {"return", "validate", "deduct"} /\ h'[w].pc \in {"validate", "deduct", "save"}
    BY <1>9, EndLoopShape
  <2>2. h[w].total = 0 /\ h'[w].total = 0
    BY <1>2, <1>9, <2>1, EndLoopShape DEF PackedHandler
  <2>3. ~Saving(w)' /\ h'[w].pc \notin ReturnLoop \cup {"refund"}
        /\ (h'[w].pc \in DeductLoop => h'[w].pc = "deduct")
    BY <2>1 DEF Saving, ReturnLoop, DeductLoop
  \* It is enough to look at what the next loop starts with.
  <2>4. SUFFICES
          /\ h'[w].pc = "validate" =>
                \/ h'[w].req.op \in {"createSale", "updateSale"}
                \/ /\ h'[w].req.op = "assignBatches"
                   /\ PackedRow(h'[w].row) /\ Covered(<<Assigned(w)'>>, h'[w].todo, h'[w].total)
          /\ h'[w].pc = "deduct" =>
                \/ /\ h'[w].req.op \in {"createSale", "updateSale"}
                   /\ Covered(h'[w].row.lineItems, h'[w].todo, h'[w].total)
                \/ h'[w].req.op = "assignBatches" /\ PackedRow(h'[w].row)
          /\ h'[w].pc = "save" => PackedRow(h'[w].row)
    BY <1>2, <2>1, <2>2, <2>3 DEF PackedHandler
  <2>5. CASE h[w].pc = "return"
    <3>1. CASE h[w].req.op = "updateSale"
      <4>1. h'[w].pc = "validate"
        BY <1>9, <2>5, <3>1, EndLoopShape
      <4> QED BY <2>1, <3>1, <4>1
    <3>2. CASE h[w].req.op = "assignBatches"
      <4>1. h'[w].pc = "validate" /\ h'[w].row = h[w].row /\ h'[w].todo = <<Assigned(w)>>
        BY <1>9, <2>5, <3>2, EndLoopShape
      <4>2. Assigned(w)' = Assigned(w)
        BY <2>1, <4>1 DEF Assigned
      <4>3. Covered(<<Assigned(w)>>, <<Assigned(w)>>, 0)
        BY <1>5, <2>5, <3>2, CoveredAtFirst
      <4>4. PackedRow(h[w].row)
        BY <1>2, <2>5, <3>2 DEF PackedHandler, ReturnLoop, Cancels
      <4> QED BY <2>1, <2>2, <3>2, <4>1, <4>2, <4>3, <4>4
    <3>3. CASE h[w].req.op \notin {"updateSale", "assignBatches"}
      <4>1. h'[w].pc = "save" /\ h'[w].row = h[w].row
        BY <1>9, <2>5, <3>3, EndLoopShape
      <4>2. PackedRow(h[w].row)
        BY <1>2, <2>5, <3>3 DEF PackedHandler, ReturnLoop, PackedRow, Packed
      <4> QED BY <4>1, <4>2
    <3> QED BY <3>1, <3>2, <3>3
  <2>6. CASE h[w].pc = "validate"
    <3>1. CASE h[w].req.op = "updateSale"
      <4>1. /\ h'[w].pc = "deduct" /\ h'[w].todo = h[w].req.lineItems
            /\ h'[w].row = [h[w].row EXCEPT !.lineItems = h[w].req.lineItems]
        BY <1>9, <2>6, <3>1, EndLoopShape
      <4>2. h'[w].row.lineItems = h[w].req.lineItems
        BY <1>4, <2>6, <4>1 DEF SaleRow
      <4>3. Covered(h[w].req.lineItems, h[w].req.lineItems, 0)
        BY <1>4, <2>6, CoveredAtFirst
      <4> QED BY <2>1, <2>2, <3>1, <4>1, <4>2, <4>3
    <3>2. CASE h[w].req.op = "assignBatches"
      <4> DEFINE i == IndexOf(h[w].row, h[w].req.lineItems[1].product)
                 item == Assigned(w)
      <4>1. h'[w].pc = "deduct" /\ h'[w].row = [h[w].row EXCEPT !.lineItems[i] = item]
        BY <1>9, <2>6, <3>2, EndLoopShape
      <4>2. PackedRow(h[w].row) /\ Covered(<<item>>, <<>>, 0)
        BY <1>2, <2>1, <2>2, <2>6, <3>2 DEF PackedHandler
      <4>3. Allocated(<<item>>)
        BY <1>5, <2>6, <3>2, <4>2, CoveredAtLast
      <4> HIDE DEF i, item
      <4>4. item.alloc # <<>>
        <5>1. 1 \in DOMAIN <<item>> /\ <<item>>[1] = item
          OBVIOUS
        <5> QED BY <4>3, <5>1 DEF Allocated
      <4>5. /\ h'[w].row.orderStatus = h[w].row.orderStatus
            /\ h'[w].row.lineItems = [h[w].row.lineItems EXCEPT ![i] = item]
        BY <1>4, <2>6, <4>1 DEF SaleRow
      <4>6. Allocated(h[w].row.lineItems) => Allocated([h[w].row.lineItems EXCEPT ![i] = item])
        BY <4>4 DEF Allocated
      <4>7. PackedRow(h'[w].row)
        BY <4>2, <4>5, <4>6 DEF PackedRow
      <4> QED BY <2>1, <3>2, <4>1, <4>7
    <3>3. CASE h[w].req.op \notin {"updateSale", "assignBatches"}
      <4>1. /\ h'[w].row = h[w].row
            /\ \/ h'[w].pc = "deduct" /\ h'[w].todo = h[w].row.lineItems
               \/ h'[w].pc = "save" /\ h[w].row.orderStatus = "PENDING"
        BY <1>9, <2>6, <3>3, EndLoopShape
      <4>2. h[w].req.op = "createSale"
        BY <1>2, <2>6, <3>3 DEF PackedHandler
      <4>3. Covered(h[w].row.lineItems, h[w].row.lineItems, 0)
        BY <1>4, <2>6, CoveredAtFirst
      <4>4. h[w].row.orderStatus = "PENDING" => PackedRow(h[w].row)
        BY DEF PackedRow, Packed
      <4> QED BY <2>1, <2>2, <4>1, <4>2, <4>3, <4>4
    <3> QED BY <3>1, <3>2, <3>3
  <2>7. CASE h[w].pc = "deduct"
    <3>1. h'[w].pc = "save" /\ h'[w].row = h[w].row
      BY <1>9, <2>7, EndLoopShape
    <3>2. Covered(h[w].row.lineItems, <<>>, 0) \/ PackedRow(h[w].row)
      BY <1>2, <2>1, <2>2, <2>7 DEF PackedHandler, DeductLoop
    <3>3. PackedRow(h[w].row)
      BY <1>4, <2>7, <3>2, CoveredAtLast DEF PackedRow
    <3> QED BY <3>1, <3>3
  <2> QED BY <2>1, <2>5, <2>6, <2>7
<1>10. CASE Refund(w)
  <2>1. /\ h[w].pc = "refund" /\ h'[w].pc = "return" /\ h'[w].req = h[w].req
        /\ h'[w].todo = h[w].todo /\ h'[w].total = h[w].total /\ UNCHANGED sales
        /\ h'[w].row = [h[w].row EXCEPT !.paymentStatus = "REFUNDED"]
    BY <1>10, RefundShape DEF Refund
  <2>2. /\ h'[w].row.orderStatus = h[w].row.orderStatus
        /\ h'[w].row.lineItems = h[w].row.lineItems
    BY <1>4, <2>1 DEF SaleRow
  <2>3. PackedRow(h[w].row) => PackedRow(h'[w].row)
    BY <2>2 DEF PackedRow
  <2>4. ~Saving(w)' /\ h'[w].pc \notin DeductLoop
    BY <2>1 DEF Saving, DeductLoop
  <2> QED BY <1>2, <2>1, <2>2, <2>3, <2>4 DEF PackedHandler
<1>11. CASE CompareSale(w) \/ WriteSale(w) \/ Notify(w) \/ Commit(w)
  <2>1. ASSUME UNCHANGED sales, h'[w].pc \in {"saveWrite", "notify", "commit"},
               PackedRow(h'[w].row)
        PROVE  PackedHandler(w)' /\ \A s \in Sales : sales'[s] # NoSale => PackedRow(sales'[s])
    BY <1>2, <2>1 DEF PackedHandler, ReturnLoop, DeductLoop
  <2>2. CASE h'[w].pc = "idle" /\ UNCHANGED sales
    BY <1>2, <1>6, <2>2
  <2>3. CASE /\ h[w].pc = "save" /\ MaySave(w) /\ UNCHANGED sales
             /\ h'[w].pc = "saveWrite" /\ h'[w].row = h[w].row
    <3>1. \/ PackedRow(h[w].row)
          \/ h[w].req.op = "updateSale" /\ h[w].req.orderStatus \in Packed
      BY <1>2, <2>3 DEF PackedHandler
    <3>2. PackedRow(h[w].row)
      BY <2>3, <3>1 DEF MaySave, InTransaction, ValidStatusChange, PackedRow, Packed, Allocated
    <3> QED BY <2>1, <2>3, <3>2
  <2>4. CASE /\ InTransaction(w) /\ UNCHANGED sales
             /\ h[w].pc \in {"saveWrite", "notify"} /\ h'[w].pc \in {"notify", "commit"}
             /\ h'[w].row = h[w].row
    <3>1. PackedRow(h[w].row)
      BY <1>2, <2>4 DEF PackedHandler, Saving
    <3> QED BY <2>1, <2>4, <3>1
  <2>5. CASE /\ h[w].pc \in {"saveWrite", "commit"}
             /\ sales' = [sales EXCEPT ![h[w].req.sale] = SavedSale(w)]
             /\ \/ h'[w].pc = "idle"
                \/ /\ h[w].req.op \in {"createSale", "updateSaleStatus"}
                   /\ h'[w].pc = "notify" /\ h'[w].req = h[w].req
    <3>1. PackedRow(h[w].row)
      BY <1>2, <2>5 DEF PackedHandler, Saving
    <3>2. \A s \in Sales : sales'[s] # NoSale => PackedRow(sales'[s])
      BY <1>2, <2>5, <3>1, SavedRow
    <3>3. PackedHandler(w)'
      BY <1>6, <2>5 DEF PackedHandler, Saving, InTransaction, ReturnLoop, DeductLoop
    <3> QED BY <3>2, <3>3
  <2> QED BY <1>11, <2>2, <2>3, <2>4, <2>5, SaveShape, RestingIs DEF Failed
<1>12. CASE RefundFails(w) \/ DeadlockAbort(w) \/ Abort(w)
  BY <1>2, <1>6, <1>12, FailShape, RestingIs DEF Failed
<1> QED BY <1>7, <1>8, <1>9, <1>10, <1>11, <1>12, StepCases

\* With one handler at a time an order that is packed or on its way keeps batches on every
\* item, whatever loops fail half-way and whatever edits and assignments follow.
THEOREM PackedAllocatedSerially ==
    ASSUME OneAtATime, ItemsComeAllocated, PackedAtFirst
    PROVE  Spec => []PackedSalesAllocated
<1> DEFINE Inv == TypeInv /\ SavesRow /\ PackedInv
<1>1. Init => Inv
  <2> SUFFICES ASSUME Init PROVE SavesRow /\ PackedInv
    BY InitTypeInv
  <2>1. \A w \in Workers : h[w].pc = "idle"
    BY RestingIs DEF Init
  <2>2. PackedSalesAllocated
    BY DEF Init, PackedAtFirst, PackedSalesAllocated, PackedRow, Packed, Allocated
  <2> QED BY <2>1, <2>2 DEF SavesRow, Saving, PackedInv, PackedHandler, ReturnLoop, DeductLoop
<1>2. Inv /\ [Next]_vars => Inv'
  <2> SUFFICES ASSUME Inv, [Next]_vars PROVE SavesRow' /\ PackedInv'
    BY NextTypeInv
  <2>1. CASE UNCHANGED vars
    <3>1. h' = h /\ sales' = sales
      BY <2>1 DEF vars
    <3> QED BY <3>1 DEF SavesRow, Saving, InTransaction, SavedSale, PackedInv,
                        PackedSalesAllocated, PackedHandler, Assigned
  <2>2. CASE Next
    BY <2>2, SavesRowStep, PackedInvStep DEF Next
  <2> QED BY <2>1, <2>2
<1>3. Inv => PackedSalesAllocated
  BY DEF PackedInv
<1> QED BY <1>1, <1>2, <1>3, PTL DEF Spec

(***************************************************************************)
(* The history variable of the ledger.  Only a request that arrives opens  *)
(* a new page, and it changes no table while it does.                      *)
(***************************************************************************)
OpeningKept == opening' = [w \in Workers |-> IF Starts(w) THEN Book ELSE opening[w]]

\* What a handler does after it arrived.
LEMMA WorkShape ==
    ASSUME TypeInv, NEW w \in Workers, Step(w) \/ Abort(w)
    PROVE  /\ UNCHANGED requests /\ h[w].pc # "idle"
           /\ h'[w].pc # "idle" => h'[w].req = h[w].req
           /\ InTransaction(w) => UNCHANGED <<batches, sales>> \/ h'[w] = Resting("ok")
<1>0. UNCHANGED requests /\ h[w].pc # "idle"
  BY DEF Step, Abort, Refund, RefundFails, ReturnFind, ValidateAllocation, DeductFind,
         CompareBatch, WriteBatch, EndItem, EndLoop, CompareSale, WriteSale, Notify, Commit,
         DeadlockAbort, InTransaction, TypeInv, Sound, Deadlocked, WaitsFor
<1>1. \A result : Resting(result).pc = "idle"
  BY RestingIs
<1>2. CASE InLoop(w)
  <2>1. InTransaction(w) => UNCHANGED batches
    BY <1>2 DEF InLoop, ReturnFind, ValidateAllocation, DeductFind, CompareBatch, WriteBatch, EndItem
  <2>2. UNCHANGED sales /\ (Turn(w) \/ Failed(w))
    BY <1>2, LoopShape
  <2> QED BY <1>0, <1>1, <2>1, <2>2 DEF Turn, Failed
<1>3. CASE EndLoop(w)
  BY <1>0, <1>3, EndLoopShape
<1>4. CASE Refund(w)
  BY <1>0, <1>4, RefundShape DEF Refund
<1>5. CASE CompareSale(w) \/ WriteSale(w) \/ Notify(w)
  <2>1. UNCHANGED batches /\ (InTransaction(w) => UNCHANGED sales)
    BY <1>5 DEF CompareSale, WriteSale, Notify
  <2>2. h'[w].pc # "idle" => h'[w].req = h[w].req
    BY <1>1, <1>5, SaveShape DEF Failed
  <2> QED BY <1>0, <2>1, <2>2
<1>6. CASE Commit(w)
  <2>1. h'[w] = Resting("ok")
    BY <1>6, AnswerIs DEF Commit
  <2> QED BY <1>0, <1>1, <2>1
<1>7. CASE RefundFails(w) \/ DeadlockAbort(w) \/ Abort(w)
  BY <1>0, <1>1, <1>7, FailShape DEF Failed
<1> QED BY <1>0, <1>2, <1>3, <1>4, <1>5, <1>6, <1>7, StepCases, ArriveShape

(***************************************************************************)
(* A failed edit leaves no trace.  Invariant: while an edit is at work the *)
(* committed tables are those it started from.                             *)
(***************************************************************************)
NothingCommitted ==
    \A w \in Workers :
        (h[w].pc # "idle" /\ InTransaction(w))
            => batches = opening[w].batches /\ sales = opening[w].sales

LEMMA NothingCommittedStep ==
    ASSUME OneAtATime, TypeInv, NothingCommitted, NEW w \in Workers,
           Arrive(w) \/ Step(w) \/ Abort(w), OpeningKept
    PROVE  /\ NothingCommitted'
           /\ (Finishes(w, "failed") /\ h[w].req.op = "updateSale")
                 => batches' = opening[w].batches /\ sales' = opening[w].sales
<1>1. \A v \in Workers : v = w
  BY DEF OneAtATime
<1>2. opening'[w] = IF Starts(w) THEN Book ELSE opening[w]
  BY DEF OpeningKept
<1>3. CASE Arrive(w)
  <2>1. UNCHANGED <<batches, sales>> /\ h[w].pc = "idle"
    BY <1>3, ArriveShape
  <2>2. requests' = requests + 1 /\ requests \in Nat
    BY <1>3 DEF Arrive, CreateSale, AddLineItem, AssignBatches, UpdateSale, UpdateSaleStatus,
       ConfirmDelivery, CancelSaleByCustomer, CancelSaleByAdmin, CancelSale, Receive, TypeInv, Tables
  <2>3. h'[w].pc # "idle" => opening'[w] = Book
    BY <1>2, <2>1, <2>2 DEF Starts
  <2> QED BY <1>1, <2>1, <2>3 DEF NothingCommitted, Finishes, Book
<1>4. CASE Step(w) \/ Abort(w)
  <2>1. opening'[w] = opening[w] /\ h[w].pc # "idle"
    BY <1>2, <1>4, WorkShape DEF Starts
  <2>2. h'[w] = Resting("ok") => h'[w].pc = "idle" /\ h'[w].result # "failed"
    BY DEF Resting
  <2>3. ASSUME NEW v \in Workers, h'[v].pc # "idle", h'[v].req.op = "updateSale"
        PROVE  batches' = opening'[v].batches /\ sales' = opening'[v].sales
    <3>1. v = w /\ h[w].req.op = "updateSale"
      BY <1>1, <1>4, <2>3, WorkShape
    <3>2. UNCHANGED <<batches, sales>>
      BY <1>4, <2>2, <2>3, <3>1, WorkShape DEF InTransaction
    <3> QED BY <2>1, <3>1, <3>2 DEF NothingCommitted, InTransaction
  <2>4. ASSUME Finishes(w, "failed"), h[w].req.op = "updateSale"
        PROVE  batches' = opening[w].batches /\ sales' = opening[w].sales
    <3>1. UNCHANGED <<batches, sales>>
      BY <1>4, <2>2, <2>4, WorkShape DEF InTransaction, Finishes
    <3> QED BY <2>1, <2>4, <3>1 DEF NothingCommitted, InTransaction
  <2> QED BY <2>3, <2>4 DEF NothingCommitted, InTransaction
<1> QED BY <1>3, <1>4

\* With one handler at a time an edit that fails, at whichever step, leaves the batches and
\* the sales as it found them: what it returned, took and set goes with its transaction.
THEOREM FailedEditsLeaveNoTrace ==
    ASSUME OneAtATime
    PROVE  LedgerSpec => FailedEditLeavesNoTrace
<1> DEFINE Inv == TypeInv /\ NothingCommitted
           A == \A w \in Workers :
                   (Finishes(w, "failed") /\ h[w].req.op = "updateSale")
                       => batches' = opening[w].batches /\ sales' = opening[w].sales
<1>1. LedgerInit => Inv
  <2> SUFFICES ASSUME LedgerInit PROVE NothingCommitted
    BY InitTypeInv DEF LedgerInit
  <2>1. \A w \in Workers : h[w].pc = "idle"
    BY RestingIs DEF LedgerInit, Init
  <2> QED BY <2>1 DEF NothingCommitted
<1>2. Inv /\ [LedgerNext]_ledgerVars => Inv' /\ [A]_ledgerVars
  <2> SUFFICES ASSUME Inv, [LedgerNext]_ledgerVars
               PROVE  Inv' /\ (A \/ UNCHANGED ledgerVars)
    OBVIOUS
  <2>1. CASE UNCHANGED ledgerVars
    <3>1. h' = h /\ batches' = batches /\ sales' = sales /\ opening' = opening
      BY <2>1 DEF ledgerVars, vars
    <3>2. TypeInv'
      BY <2>1, NextTypeInv DEF ledgerVars
    <3> QED BY <2>1, <3>1, <3>2 DEF NothingCommitted, InTransaction
  <2>2. CASE LedgerNext
    <3>1. TypeInv'
      BY <2>2, NextTypeInv DEF LedgerNext
    <3>2. PICK w \in Workers : Arrive(w) \/ Step(w) \/ Abort(w)
      BY <2>2 DEF LedgerNext, Next
    <3>3. OpeningKept /\ \A v \in Workers : v = w
      BY <2>2 DEF LedgerNext, OpeningKept, OneAtATime
    <3>4. NothingCommitted' /\ A
      BY <3>2, <3>3, NothingCommittedStep
    <3> QED BY <3>1, <3>4
  <2> QED BY <2>1, <2>2
<1>3. FailedEditLeavesNoTrace <=> [][A]_ledgerVars
  BY DEF FailedEditLeavesNoTrace
<1> HIDE DEF A
<1> QED BY <1>1, <1>2, <1>3, PTL DEF LedgerSpec

(***************************************************************************)
(* What line items hold of a batch, and how it adds up.                    *)
(***************************************************************************)
Share(a, b) == IF a.batch = b THEN a.quantity ELSE 0

Shares(alloc, b) == [i \in DOMAIN alloc |-> Share(alloc[i], b)]

\* What HeldBy adds up for a sale that is not settled.
Held(items, b) == FoldSeq(LAMBDA item, sum : sum + AllocatedTo(item, b), 0, items)

Parts(items, b) == [i \in DOMAIN items |-> AllocatedTo(items[i], b)]

LEMMA SharesInt ==
    ASSUME NEW alloc \in Seq(Allocation), NEW b
    PROVE  Shares(alloc, b) \in Seq(Int) /\ DOMAIN Shares(alloc, b) = DOMAIN alloc
<1>1. DOMAIN alloc = 1 .. Len(alloc) /\ Len(alloc) \in Nat
  OBVIOUS
<1>2. ASSUME NEW i \in DOMAIN alloc PROVE Share(alloc[i], b) \in Int
  <2>1. alloc[i] \in Allocation
    BY <1>1
  <2> QED BY <2>1 DEF Allocation, Share
<1>3. Shares(alloc, b) \in [1 .. Len(alloc) -> Int]
  BY <1>1, <1>2 DEF Shares
<1>4. Shares(alloc, b) \in Seq(Int)
  BY <1>1, <1>3, SeqDef
<1> QED BY <1>4 DEF Shares

LEMMA AllocatedToIs ==
    ASSUME NEW item \in LineItem, NEW b
    PROVE  AllocatedTo(item, b) = Sum(Shares(item.alloc, b), DOMAIN item.alloc)
<1> DEFINE alloc == item.alloc
           D == DOMAIN alloc
           Fold(g) == g = [T \in SUBSET D |->
               IF T = {} THEN 0
               ELSE g[T \ {First(T)}] + (IF alloc[First(T)].batch = b
                                           THEN alloc[First(T)].quantity ELSE 0)]
<1>0. alloc \in Seq(Allocation)
  BY DEF LineItem
<1>1. AllocatedTo(item, b) = (CHOOSE g : Fold(g))[D]
  BY DEF AllocatedTo, FoldSeq, FoldFunction, FoldFunctionOnSet, MapThenFoldSet, First
<1>2. Summable(Shares(alloc, b), D)
  BY <1>0, SharesInt, SeqSummable
<1>3. ASSUME NEW g PROVE Fold(g) <=> FoldedAfter(g, Shares(alloc, b), D)
  <2>1. ASSUME NEW T \in SUBSET D, T # {}
        PROVE  Shares(alloc, b)[First(T)] = IF alloc[First(T)].batch = b
                                              THEN alloc[First(T)].quantity ELSE 0
    BY <2>1 DEF Shares, Share, First
  <2> DEFINE A(T) == IF T = {} THEN 0 ELSE g[T \ {First(T)}] + Shares(alloc, b)[First(T)]
             B(T) == IF T = {} THEN 0
                     ELSE g[T \ {First(T)}] + (IF alloc[First(T)].batch = b
                                                 THEN alloc[First(T)].quantity ELSE 0)
  <2>2. \A T \in SUBSET D : A(T) = B(T)
    BY <2>1
  <2>3. [T \in SUBSET D |-> A(T)] = [T \in SUBSET D |-> B(T)]
    <3> HIDE DEF A, B
    <3> QED BY <2>2
  <2> QED BY <2>3 DEF FoldedAfter
<1>4. \E g : Fold(g)
  BY <1>2, <1>3, FoldExists
<1>5. Fold(CHOOSE g : Fold(g))
  <2> HIDE DEF Fold
  <2> QED BY <1>4
<1>6. FoldedAfter(CHOOSE g : Fold(g), Shares(alloc, b), D)
  BY <1>3, <1>5
<1> HIDE DEF Fold
<1> QED BY <1>1, <1>2, <1>6, FoldIsSum

LEMMA AllocatedToInt ==
    ASSUME NEW item \in LineItem, NEW b
    PROVE  AllocatedTo(item, b) \in Int
<1>1. item.alloc \in Seq(Allocation)
  BY DEF LineItem
<1> QED BY <1>1, AllocatedToIs, SharesInt, SeqSummable, SumType

LEMMA NothingAllocated ==
    ASSUME NEW item \in LineItem, item.alloc = <<>>, NEW b
    PROVE  AllocatedTo(item, b) = 0
<1>1. DOMAIN item.alloc = {}
  OBVIOUS
<1> QED BY <1>1, AllocatedToIs, SumEmpty

\* An allocation struck from its item.
LEMMA AllocatedToHead ==
    ASSUME NEW item \in LineItem, item.alloc # <<>>, NEW b
    PROVE  /\ Head(item.alloc) \in Allocation
           /\ Share(Head(item.alloc), b) \in Int
           /\ [item EXCEPT !.alloc = Tail(item.alloc)] \in LineItem
           /\ AllocatedTo(item, b) = Share(Head(item.alloc), b)
                                       + AllocatedTo([item EXCEPT !.alloc = Tail(item.alloc)], b)
<1> DEFINE alloc == item.alloc
           rest == [item EXCEPT !.alloc = Tail(item.alloc)]
<1>1. /\ alloc \in Seq(Allocation) /\ Tail(alloc) \in Seq(Allocation) /\ Head(alloc) = alloc[1]
      /\ Head(alloc) \in Allocation /\ 1 \in DOMAIN alloc
      /\ DOMAIN Tail(alloc) = 1 .. Len(alloc) - 1
      /\ \A i \in DOMAIN Tail(alloc) : Tail(alloc)[i] = alloc[i + 1] /\ i + 1 \in DOMAIN alloc
  BY DEF LineItem
<1>2. rest \in LineItem /\ rest.alloc = Tail(alloc)
  BY <1>1 DEF LineItem
<1> HIDE DEF rest, alloc
<1> DEFINE q == Shares(alloc, b)
<1>3. /\ q \in Seq(Int) /\ DOMAIN q = DOMAIN alloc
      /\ \A i \in DOMAIN alloc : q[i] = Share(alloc[i], b)
  BY <1>1, SharesInt DEF Shares
<1>4. q # <<>> /\ Head(q) = Share(Head(alloc), b) /\ Len(q) = Len(alloc)
  <2> HIDE DEF q
  <2> QED BY <1>1, <1>3
<1>5. Tail(q) = Shares(Tail(alloc), b)
  <2> DEFINE k == Shares(Tail(alloc), b)
  <2>1. /\ k \in Seq(Int) /\ DOMAIN k = DOMAIN Tail(alloc)
        /\ \A i \in DOMAIN Tail(alloc) : k[i] = Share(Tail(alloc)[i], b)
    BY <1>1, SharesInt DEF Shares
  <2> HIDE DEF q, k
  <2>2. /\ Tail(q) \in Seq(Int) /\ Len(Tail(q)) = Len(alloc) - 1
        /\ \A i \in 1 .. Len(alloc) - 1 : Tail(q)[i] = q[i + 1]
    BY <1>3, <1>4
  <2>3. Len(k) = Len(alloc) - 1
    BY <1>1, <2>1
  <2>4. \A i \in 1 .. Len(alloc) - 1 : Tail(q)[i] = k[i]
    BY <1>1, <1>3, <2>1, <2>2
  <2>5. Tail(q) = k
    BY <2>1, <2>2, <2>3, <2>4, SeqEqual
  <2> QED BY <2>5 DEF k
<1>6. Sum(q, DOMAIN q) = Head(q) + Sum(Tail(q), DOMAIN Tail(q)) /\ Head(q) \in Int
  <2> HIDE DEF q
  <2> QED BY <1>3, <1>4, SeqSumHead
<1>7. Share(Head(alloc), b) \in Int
  BY <1>4, <1>6
<1>8. AllocatedTo(item, b) = Sum(q, DOMAIN q)
  BY <1>1, AllocatedToIs, SharesInt DEF alloc
<1>9. AllocatedTo(rest, b) = Sum(Tail(q), DOMAIN Tail(q))
  <2>1. DOMAIN Tail(q) = DOMAIN Tail(alloc)
    BY <1>1, <1>5, SharesInt
  <2> HIDE DEF q
  <2> QED BY <1>2, <1>5, <2>1, AllocatedToIs
<1> HIDE DEF q
<1> QED BY <1>1, <1>2, <1>4, <1>6, <1>7, <1>8, <1>9 DEF alloc, rest

LEMMA PartsInt ==
    ASSUME NEW items \in Seq(LineItem), NEW b
    PROVE  /\ Parts(items, b) \in Seq(Int) /\ DOMAIN Parts(items, b) = DOMAIN items
           /\ Summable(Parts(items, b), DOMAIN items)
<1>1. DOMAIN items = 1 .. Len(items) /\ Len(items) \in Nat /\ \A i \in DOMAIN items : items[i] \in LineItem
  OBVIOUS
<1>2. Parts(items, b) \in [1 .. Len(items) -> Int]
  BY <1>1, AllocatedToInt DEF Parts
<1>3. Parts(items, b) \in Seq(Int)
  BY <1>1, <1>2, SeqDef
<1> QED BY <1>3, SeqSummable DEF Parts

LEMMA HeldIs ==
    ASSUME NEW items \in Seq(LineItem), NEW b
    PROVE  Held(items, b) = Sum(Parts(items, b), DOMAIN items)
<1> DEFINE D == DOMAIN items
           Fold(g) == g = [T \in SUBSET D |->
               IF T = {} THEN 0 ELSE g[T \ {First(T)}] + AllocatedTo(items[First(T)], b)]
<1>1. Held(items, b) = (CHOOSE g : Fold(g))[D]
  BY DEF Held, FoldSeq, FoldFunction, FoldFunctionOnSet, MapThenFoldSet, First
<1>2. Summable(Parts(items, b), D)
  BY PartsInt
<1>3. ASSUME NEW g PROVE Fold(g) <=> FoldedAfter(g, Parts(items, b), D)
  <2>1. ASSUME NEW T \in SUBSET D, T # {}
        PROVE  Parts(items, b)[First(T)] = AllocatedTo(items[First(T)], b)
    BY <2>1 DEF Parts, First
  <2> DEFINE A(T) == IF T = {} THEN 0 ELSE g[T \ {First(T)}] + Parts(items, b)[First(T)]
             B(T) == IF T = {} THEN 0 ELSE g[T \ {First(T)}] + AllocatedTo(items[First(T)], b)
  <2>2. \A T \in SUBSET D : A(T) = B(T)
    BY <2>1
  <2>3. [T \in SUBSET D |-> A(T)] = [T \in SUBSET D |-> B(T)]
    <3> HIDE DEF A, B
    <3> QED BY <2>2
  <2> QED BY <2>3 DEF FoldedAfter
<1>4. \E g : Fold(g)
  BY <1>2, <1>3, FoldExists
<1>5. Fold(CHOOSE g : Fold(g))
  <2> HIDE DEF Fold
  <2> QED BY <1>4
<1>6. FoldedAfter(CHOOSE g : Fold(g), Parts(items, b), D)
  BY <1>3, <1>5
<1> HIDE DEF Fold
<1> QED BY <1>1, <1>2, <1>6, FoldIsSum

LEMMA HeldInt ==
    ASSUME NEW items \in Seq(LineItem), NEW b
    PROVE  Held(items, b) \in Int
  BY HeldIs, PartsInt, SumType

LEMMA HeldNone == ASSUME NEW b PROVE Held(<<>>, b) = 0
<1>1. <<>> \in Seq(LineItem) /\ DOMAIN <<>> = {}
  OBVIOUS
<1> QED BY <1>1, HeldIs, SumEmpty

LEMMA HeldHead ==
    ASSUME NEW items \in Seq(LineItem), items # <<>>, NEW b
    PROVE  Held(items, b) = AllocatedTo(Head(items), b) + Held(Tail(items), b)
<1> DEFINE q == Parts(items, b)
<1>1. /\ Tail(items) \in Seq(LineItem) /\ Head(items) = items[1] /\ 1 \in DOMAIN items
      /\ DOMAIN items = 1 .. Len(items)
      /\ DOMAIN Tail(items) = 1 .. Len(items) - 1
      /\ \A i \in DOMAIN Tail(items) : Tail(items)[i] = items[i + 1] /\ i + 1 \in DOMAIN items
  OBVIOUS
<1>2. /\ q \in Seq(Int) /\ DOMAIN q = DOMAIN items
      /\ \A i \in DOMAIN items : q[i] = AllocatedTo(items[i], b)
  BY PartsInt DEF Parts
<1> HIDE DEF q
<1>3. q # <<>> /\ Head(q) = AllocatedTo(Head(items), b)
  BY <1>1, <1>2
<1>4. Len(q) = Len(items)
  BY <1>1, <1>2
<1>5. /\ Tail(q) \in Seq(Int) /\ Len(Tail(q)) = Len(items) - 1
      /\ \A i \in 1 .. Len(items) - 1 : Tail(q)[i] = q[i + 1]
  BY <1>2, <1>3, <1>4
<1>6. Tail(q) = Parts(Tail(items), b)
  <2> DEFINE k == Parts(Tail(items), b)
  <2>1. /\ k \in Seq(Int) /\ DOMAIN k = DOMAIN Tail(items)
        /\ \A i \in DOMAIN Tail(items) : k[i] = AllocatedTo(Tail(items)[i], b)
    BY <1>1, PartsInt DEF Parts
  <2> HIDE DEF k
  <2>2. Len(k) = Len(items) - 1
    <3>1. Len(items) - 1 \in Nat /\ DOMAIN k = 1 .. Len(items) - 1
      BY <1>1, <2>1
    <3>2. DOMAIN k = 1 .. Len(k) /\ Len(k) \in Nat
      BY <2>1
    <3> QED BY <3>1, <3>2
  <2>3. \A i \in 1 .. Len(items) - 1 : Tail(q)[i] = k[i]
    BY <1>1, <1>2, <1>5, <2>1
  <2>4. Tail(q) = k
    BY <1>5, <2>1, <2>2, <2>3, SeqEqual
  <2> QED BY <2>4 DEF k
<1>7. Sum(q, DOMAIN q) = Head(q) + Sum(Tail(q), DOMAIN Tail(q))
  BY <1>2, <1>3, SeqSumHead
<1>8. Held(items, b) = Sum(q, DOMAIN q)
  BY <1>2, HeldIs DEF q
<1>9. Held(Tail(items), b) = Sum(Tail(q), DOMAIN Tail(q))
  BY <1>1, <1>6, HeldIs, PartsInt
<1> QED BY <1>3, <1>7, <1>8, <1>9

LEMMA HeldSingle ==
    ASSUME NEW item \in LineItem, NEW b
    PROVE  Held(<<item>>, b) = AllocatedTo(item, b)
<1>1. <<item>> \in Seq(LineItem) /\ <<item>> # <<>> /\ Head(<<item>>) = item /\ Tail(<<item>>) = <<>>
  OBVIOUS
<1>2. AllocatedTo(item, b) \in Int
  BY AllocatedToInt
<1>3. Held(<<item>>, b) = AllocatedTo(item, b) + Held(<<>>, b)
  <2> DEFINE one == <<item>>
  <2>1. one \in Seq(LineItem) /\ one # <<>> /\ Head(one) = item /\ Tail(one) = <<>>
    BY <1>1
  <2> HIDE DEF one
  <2>2. Held(one, b) = AllocatedTo(item, b) + Held(<<>>, b)
    BY <2>1, HeldHead
  <2> QED BY <2>2 DEF one
<1> QED BY <1>2, <1>3, HeldNone

\* One round of a loop over allocations.
LEMMA HeldAdvanced ==
    ASSUME NEW todo \in Seq(LineItem), todo # <<>>, Head(todo).alloc # <<>>, NEW b
    PROVE  /\ Advanced(todo) \in Seq(LineItem)
           /\ Share(Head(Head(todo).alloc), b) \in Int
           /\ Held(todo, b) = Share(Head(Head(todo).alloc), b) + Held(Advanced(todo), b)
<1> DEFINE item == Head(todo)
           rest == [item EXCEPT !.alloc = Tail(item.alloc)]
<1>1. item \in LineItem /\ Tail(todo) \in Seq(LineItem)
  OBVIOUS
<1>2. /\ rest \in LineItem /\ Share(Head(item.alloc), b) \in Int
      /\ AllocatedTo(item, b) = Share(Head(item.alloc), b) + AllocatedTo(rest, b)
  <2> HIDE DEF item
  <2> QED BY <1>1, AllocatedToHead DEF item
<1>3. Advanced(todo) = <<rest>> \o Tail(todo)
  BY DEF Advanced
<1> HIDE DEF rest, item
<1>4. /\ Advanced(todo) \in Seq(LineItem) /\ Advanced(todo) # <<>>
      /\ Head(Advanced(todo)) = rest /\ Tail(Advanced(todo)) = Tail(todo)
  <2>1. <<rest>> \in Seq(LineItem) /\ Len(<<rest>>) = 1
    BY <1>2
  <2> QED BY <1>1, <1>2, <1>3, <2>1
<1>5. Held(Advanced(todo), b) = AllocatedTo(rest, b) + Held(Tail(todo), b)
  BY <1>4, HeldHead
<1>6. Held(todo, b) = AllocatedTo(item, b) + Held(Tail(todo), b)
  BY HeldHead DEF item
<1>7. AllocatedTo(rest, b) \in Int /\ Held(Tail(todo), b) \in Int
  BY <1>1, <1>2, AllocatedToInt, HeldInt
<1> QED BY <1>2, <1>4, <1>5, <1>6, <1>7 DEF item

\* The end of an item all of whose allocations are done with.
LEMMA HeldTail ==
    ASSUME NEW todo \in Seq(LineItem), todo # <<>>, Head(todo).alloc = <<>>, NEW b
    PROVE  Held(Tail(todo), b) = Held(todo, b)
<1>1. Head(todo) \in LineItem /\ Tail(todo) \in Seq(LineItem)
  OBVIOUS
<1>2. AllocatedTo(Head(todo), b) = 0
  BY <1>1, NothingAllocated
<1>3. Held(todo, b) = AllocatedTo(Head(todo), b) + Held(Tail(todo), b)
  BY HeldHead
<1>4. Held(Tail(todo), b) \in Int
  BY <1>1, HeldInt
<1> QED BY <1>2, <1>3, <1>4

LEMMA HeldReplaced ==
    ASSUME NEW items \in Seq(LineItem), NEW i \in DOMAIN items, NEW item \in LineItem, NEW b
    PROVE  /\ [items EXCEPT ![i] = item] \in Seq(LineItem)
           /\ Held([items EXCEPT ![i] = item], b)
                 = Held(items, b) - AllocatedTo(items[i], b) + AllocatedTo(item, b)
<1> DEFINE items2 == [items EXCEPT ![i] = item]
           D == DOMAIN items
<1>1. /\ items2 \in Seq(LineItem) /\ DOMAIN items2 = D
      /\ items2[i] = item /\ \A j \in D : j # i => items2[j] = items[j]
  OBVIOUS
<1> HIDE DEF items2
<1>2. /\ Summable(Parts(items, b), D)
      /\ Parts(items, b)[i] = AllocatedTo(items[i], b)
      /\ Parts(items2, b)[i] = AllocatedTo(item, b)
      /\ \A j \in D : j # i => Parts(items2, b)[j] = Parts(items, b)[j]
  BY <1>1, PartsInt DEF Parts
<1>3. AllocatedTo(item, b) \in Int
  BY AllocatedToInt
<1>4. Sum(Parts(items2, b), D) = Sum(Parts(items, b), D) - Parts(items, b)[i] + Parts(items2, b)[i]
  BY <1>2, <1>3, SumChanged
<1> QED BY <1>1, <1>2, <1>4, HeldIs DEF items2

LEMMA HeldAppend ==
    ASSUME NEW items \in Seq(LineItem), NEW item \in LineItem, item.alloc = <<>>, NEW b
    PROVE  Held(Append(items, item), b) = Held(items, b)
<1> DEFINE items2 == Append(items, item)
           q == Parts(items, b)
<1>1. /\ items2 \in Seq(LineItem) /\ DOMAIN items2 = 1 .. Len(items) + 1
      /\ items2[Len(items) + 1] = item /\ DOMAIN items = 1 .. Len(items)
      /\ \A j \in 1 .. Len(items) : items2[j] = items[j]
      /\ Len(items) \in Nat
  OBVIOUS
<1> HIDE DEF items2
<1>2. q \in Seq(Int) /\ DOMAIN q = DOMAIN items /\ \A j \in DOMAIN items : q[j] = AllocatedTo(items[j], b)
  BY PartsInt DEF Parts
<1> HIDE DEF q
<1>3. Len(q) = Len(items)
  BY <1>1, <1>2
<1>4. AllocatedTo(item, b) = 0
  BY NothingAllocated
<1>5. /\ Append(q, 0) \in Seq(Int) /\ Len(Append(q, 0)) = Len(items) + 1
      /\ Append(q, 0)[Len(items) + 1] = 0
      /\ \A j \in 1 .. Len(items) : Append(q, 0)[j] = q[j]
  BY <1>2, <1>3
<1>6. Parts(items2, b) = Append(q, 0)
  <2> DEFINE k == Parts(items2, b)
  <2>1. /\ k \in Seq(Int) /\ DOMAIN k = DOMAIN items2
        /\ \A j \in DOMAIN items2 : k[j] = AllocatedTo(items2[j], b)
    BY <1>1, PartsInt DEF Parts
  <2> HIDE DEF k
  <2>2. Len(k) = Len(items) + 1
    BY <1>1, <2>1
  <2>3. \A j \in 1 .. Len(items) + 1 : k[j] = Append(q, 0)[j]
    <3> SUFFICES ASSUME NEW j \in 1 .. Len(items) + 1 PROVE k[j] = Append(q, 0)[j]
      OBVIOUS
    <3>1. j \in 1 .. Len(items) \/ j = Len(items) + 1
      BY <1>1
    <3> QED BY <1>1, <1>2, <1>4, <1>5, <2>1, <3>1
  <2>4. k = Append(q, 0)
    BY <1>5, <2>1, <2>2, <2>3, SeqEqual
  <2> QED BY <2>4 DEF k
<1>7. Sum(Append(q, 0), DOMAIN Append(q, 0)) = Sum(q, DOMAIN q) + 0 /\ Sum(q, DOMAIN q) \in Int
  BY <1>2, SeqSumAppend, SeqSummable, SumType
<1>8. Held(items2, b) = Sum(Append(q, 0), DOMAIN Append(q, 0))
  BY <1>1, <1>6, HeldIs, PartsInt
<1>9. Held(items, b) = Sum(q, DOMAIN q)
  BY <1>2, HeldIs DEF q
<1> QED BY <1>7, <1>8, <1>9 DEF items2

LEMMA HeldUnallocated ==
    ASSUME NEW items \in Seq(LineItem), \A i \in DOMAIN items : items[i].alloc = <<>>, NEW b
    PROVE  Held(items, b) = 0
<1>1. \A i \in DOMAIN items : items[i] \in LineItem
  OBVIOUS
<1>2. \A i \in DOMAIN items : Parts(items, b)[i] = 0
  BY <1>1, NothingAllocated DEF Parts
<1> QED BY <1>2, HeldIs, PartsInt, SumOfNothing DEF Summable

LEMMA HeldByIs ==
    ASSUME NEW row, NEW b
    PROVE  HeldBy(row, b) = IF row = NoSale THEN 0 ELSE Held(row.lineItems, b)
  BY DEF HeldBy, Held

LEMMA HeldByInt ==
    ASSUME NEW row \in SaleRow \cup {NoSale}, NEW b
    PROVE  HeldBy(row, b) \in Int
<1>1. CASE row # NoSale
  <2>1. row.lineItems \in Seq(LineItem)
    BY <1>1 DEF SaleRow
  <2> QED BY <1>1, <2>1, HeldByIs, HeldInt
<1>2. CASE row = NoSale
  BY <1>2, HeldByIs
<1> QED BY <1>1, <1>2

\* What the sales of a book together hold of a batch.
Booked(book, b) == FoldSet(LAMBDA s, sum : sum + Outstanding(book, s, b), 0, Sales)

LEMMA OutstandingInt ==
    ASSUME NEW book, book.sales \in [Sales -> SaleRow \cup {NoSale}], NEW s \in Sales, NEW b
    PROVE  Outstanding(book, s, b) \in Int
  BY HeldByInt DEF Outstanding

LEMMA BookedIs ==
    ASSUME IsFiniteSet(Sales), NEW book, book.sales \in [Sales -> SaleRow \cup {NoSale}], NEW b
    PROVE  /\ Summable([s \in Sales |-> Outstanding(book, s, b)], Sales)
           /\ Booked(book, b) = Sum([s \in Sales |-> Outstanding(book, s, b)], Sales)
<1> DEFINE f == [s \in Sales |-> Outstanding(book, s, b)]
           Fold(g) == g = [T \in SUBSET Sales |->
               IF T = {} THEN 0 ELSE g[T \ {First(T)}] + Outstanding(book, First(T), b)]
<1>1. Booked(book, b) = (CHOOSE g : Fold(g))[Sales]
  BY DEF Booked, FoldSet, MapThenFoldSet, First
<1>2. Summable(f, Sales)
  BY OutstandingInt DEF Summable
<1>3. ASSUME NEW g PROVE Fold(g) <=> FoldedAfter(g, f, Sales)
  <2>1. ASSUME NEW T \in SUBSET Sales, T # {}
        PROVE  f[First(T)] = Outstanding(book, First(T), b)
    BY <2>1 DEF First
  <2> DEFINE A(T) == IF T = {} THEN 0 ELSE g[T \ {First(T)}] + f[First(T)]
             B(T) == IF T = {} THEN 0 ELSE g[T \ {First(T)}] + Outstanding(book, First(T), b)
  <2>2. \A T \in SUBSET Sales : A(T) = B(T)
    BY <2>1
  <2>3. [T \in SUBSET Sales |-> A(T)] = [T \in SUBSET Sales |-> B(T)]
    <3> HIDE DEF A, B
    <3> QED BY <2>2
  <2> QED BY <2>3 DEF FoldedAfter
<1>4. \E g : Fold(g)
  BY <1>2, <1>3, FoldExists
<1>5. Fold(CHOOSE g : Fold(g))
  <2> HIDE DEF Fold
  <2> QED BY <1>4
<1>6. FoldedAfter(CHOOSE g : Fold(g), f, Sales)
  BY <1>3, <1>5
<1> HIDE DEF Fold
<1> QED BY <1>1, <1>2, <1>6, FoldIsSum

\* A page of the book that differs from an older one in what one sale holds.
LEMMA BookedChanges ==
    ASSUME IsFiniteSet(Sales),
           NEW old, old.sales \in [Sales -> SaleRow \cup {NoSale}],
           NEW new, new.sales \in [Sales -> SaleRow \cup {NoSale}],
           NEW s \in Sales, NEW b,
           \A t \in Sales \ {s} : Outstanding(new, t, b) = Outstanding(old, t, b)
    PROVE  /\ Booked(old, b) \in Int
           /\ Booked(new, b) = Booked(old, b) - Outstanding(old, s, b) + Outstanding(new, s, b)
<1> DEFINE f == [t \in Sales |-> Outstanding(old, t, b)]
           k == [t \in Sales |-> Outstanding(new, t, b)]
<1>1. Summable(f, Sales) /\ Booked(old, b) = Sum(f, Sales) /\ Booked(new, b) = Sum(k, Sales)
  BY BookedIs
<1>2. /\ k[s] = Outstanding(new, s, b) /\ f[s] = Outstanding(old, s, b) /\ k[s] \in Int
      /\ \A t \in Sales : t # s => k[t] = f[t]
  BY OutstandingInt
<1> HIDE DEF f, k
<1>3. Sum(k, Sales) = Sum(f, Sales) - f[s] + k[s]
  BY <1>1, <1>2, SumChanged
<1> QED BY <1>1, <1>2, <1>3, SumType

(***************************************************************************)
(* What each step does to the batches a handler sees.                      *)
(***************************************************************************)
LEMMA SeenKept ==
    ASSUME NEW w \in Workers, UNCHANGED batches,
           h'[w].dirty = h[w].dirty, h'[w].view = h[w].view
    PROVE  \A b : BatchSeenBy(w, b)' = BatchSeenBy(w, b)
  BY DEF BatchSeenBy

LEMMA WriteSeen ==
    ASSUME TypeInv, NEW w \in Workers, WriteBatch(w),
           InTransaction(w) \/ h[w].dirty = {},
           UpdatedBatch(BatchSeenBy(w, Alloc(w).batch), h[w].batch, h[w].diff) = h[w].batch
    PROVE  /\ AtAllocation(w)
           /\ h'[w].pc = IF h[w].pc = "returnWrite" THEN "return" ELSE "deduct"
           /\ h'[w].req = h[w].req /\ h'[w].row = h[w].row /\ h'[w].todo = Advanced(h[w].todo)
           /\ InTransaction(w) \/ h'[w].dirty = {}
           /\ \A b \in Batches :
                 BatchSeenBy(w, b)' = IF b = Alloc(w).batch THEN h[w].batch ELSE BatchSeenBy(w, b)
<1> DEFINE c == Alloc(w).batch
           row == UpdatedBatch(BatchSeenBy(w, c), h[w].batch, h[w].diff)
           pc == IF h[w].pc = "returnWrite" THEN "return" ELSE "deduct"
           next == NextAllocation(w, pc)
           g == Written(w, pc, row)
<1>1. /\ h \in [Workers -> Handler] /\ h[w] \in Handler /\ Sound(h[w])
      /\ h[w].pc \in {"returnWrite", "deductWrite"}
      /\ batches \in [Batches -> BatchRow]
  BY DEF TypeInv, Tables, WriteBatch
<1>2. AtAllocation(w)
  BY <1>1 DEF Sound, InLoopBody, AtAllocation
<1>3. c \in Batches
  BY <1>2, AllocType
<1>4. /\ h' = [h EXCEPT ![w] = g]
      /\ IF InTransaction(w) THEN UNCHANGED batches ELSE batches' = [batches EXCEPT ![c] = row]
  BY DEF WriteBatch
<1>5. next \in Handler
  <2>1. pc \in {"return", "deduct"}
    OBVIOUS
  <2>2. (pc = "return" /\ h[w].req.op = "assignBatches")
           => IndexOf(h[w].row, h[w].req.lineItems[1].product) # 0
    BY <1>1 DEF Sound
  <2> HIDE DEF pc
  <2> QED BY <1>1, <1>2, <2>1, <2>2, NextAllocationSound
<1>6. next.dirty = h[w].dirty /\ next.view = h[w].view
  <2> HIDE DEF pc
  <2> QED BY <1>1 DEF NextAllocation, Handler
<1>7. /\ next.pc = pc /\ next.req = h[w].req /\ next.row = h[w].row
      /\ next.todo = Advanced(h[w].todo)
  BY NextAllocationIs
<1>8. row = h[w].batch
  OBVIOUS
<1> HIDE DEF row, next, pc, c
<1>9. CASE ~InTransaction(w)
  <2>1. h'[w] = next
    BY <1>1, <1>4, <1>9 DEF Written, next
  <2>2. batches' = [batches EXCEPT ![c] = row] /\ h'[w].dirty = {}
    BY <1>4, <1>6, <1>9, <2>1
  <2>3. \A b \in Batches : BatchSeenBy(w, b)' = IF b = c THEN h[w].batch ELSE BatchSeenBy(w, b)
    BY <1>1, <1>3, <1>8, <1>9, <2>2 DEF BatchSeenBy
  <2> QED BY <1>2, <1>7, <2>1, <2>2, <2>3 DEF c, pc
<1>10. CASE InTransaction(w) /\ h[w].diff = {}
  <2>1. h'[w] = next /\ UNCHANGED batches
    BY <1>1, <1>4, <1>10 DEF Written, next
  <2>2. \A b : BatchSeenBy(w, b)' = BatchSeenBy(w, b)
    BY <1>6, <2>1, SeenKept
  <2>3. BatchSeenBy(w, c) = h[w].batch
    <3>1. BatchSeenBy(w, c) \in BatchRow
      BY <1>3, BatchSeenByType
    <3>2. row = [quantity |-> BatchSeenBy(w, c).quantity, isActive |-> BatchSeenBy(w, c).isActive]
      BY <1>10 DEF row, UpdatedBatch, Set
    <3> QED BY <1>8, <3>1, <3>2 DEF BatchRow
  <2> QED BY <1>2, <1>7, <1>10, <2>1, <2>2, <2>3 DEF c, pc
<1>11. CASE InTransaction(w) /\ h[w].diff # {}
  <2>1. g = [next EXCEPT !.dirty = next.dirty \cup {c}, !.view = [next.view EXCEPT ![c] = row]]
    BY <1>11 DEF Written, next, c
  <2>2. /\ g.dirty = next.dirty \cup {c} /\ g.view = [next.view EXCEPT ![c] = row]
        /\ g.pc = next.pc /\ g.req = next.req /\ g.row = next.row /\ g.todo = next.todo
    <3> HIDE DEF g
    <3> QED BY <1>5, <2>1 DEF Handler
  <2> HIDE DEF g
  <2>3. h'[w] = g /\ UNCHANGED batches
    BY <1>1, <1>4, <1>11
  <2>4. next.view \in [Batches -> BatchRow]
    BY <1>5 DEF Handler
  <2>5. \A b \in Batches : BatchSeenBy(w, b)' = IF b = c THEN h[w].batch ELSE BatchSeenBy(w, b)
    BY <1>3, <1>6, <1>8, <2>2, <2>3, <2>4 DEF BatchSeenBy
  <2> QED BY <1>2, <1>7, <1>11, <2>2, <2>3, <2>5 DEF c, pc
<1> QED BY <1>9, <1>10, <1>11

\* The other steps of the loops leave what the handler sees alone.
LEMMA LoopKeeps ==
    ASSUME TypeInv, NEW w \in Workers,
           ReturnFind(w) \/ ValidateAllocation(w) \/ DeductFind(w)
              \/ CompareBatch(w) \/ EndItem(w) \/ EndLoop(w),
           h'[w].pc # "idle"
    PROVE  UNCHANGED batches /\ h'[w].dirty = h[w].dirty /\ h'[w].view = h[w].view
<1>1. h \in [Workers -> Handler] /\ h[w] \in Handler
  BY DEF TypeInv, Tables
<1>2. ~Answer(w, "failed")
  BY AnswerIs
<1>3. UNCHANGED batches
  BY DEF ReturnFind, ValidateAllocation, DeductFind, CompareBatch, EndItem, EndLoop
<1> DEFINE Same(g) == g.dirty = h[w].dirty /\ g.view = h[w].view
<1>4. CASE ReturnFind(w)
  BY <1>1, <1>3, <1>4 DEF ReturnFind, Handler
<1>5. CASE ValidateAllocation(w)
  <2>1. h'[w] = NextAllocation(w, "validate")
    BY <1>1, <1>2, <1>5 DEF ValidateAllocation
  <2> QED BY <1>1, <1>3, <2>1 DEF NextAllocation, Handler
<1>6. CASE DeductFind(w)
  BY <1>1, <1>2, <1>3, <1>6 DEF DeductFind, Handler
<1>7. CASE CompareBatch(w)
  BY <1>3, <1>7, CompareShape
<1>8. CASE EndItem(w)
  BY <1>1, <1>2, <1>3, <1>8 DEF EndItem, Handler
<1>9. CASE EndLoop(w)
  <2>1. CASE h' = [h EXCEPT ![w] = AfterReturn(w)]
    BY <1>1, <1>3, <2>1 DEF AfterReturn, Handler
  <2>2. CASE h' = [h EXCEPT ![w] = AfterValidate(w)]
    BY <1>1, <1>3, <2>2 DEF AfterValidate, Handler
  <2>3. CASE h' = [h EXCEPT ![w].pc = "save"]
    BY <1>1, <1>3, <2>3 DEF Handler
  <2> QED BY <1>9, <2>1, <2>2, <2>3 DEF EndLoop
<1> QED BY <1>4, <1>5, <1>6, <1>7, <1>8, <1>9

\* What the loops start with.
LEMMA EndLoopTodo ==
    ASSUME TypeInv, NEW w \in Workers, EndLoop(w), h[w].pc = "validate",
           h[w].req.op = "assignBatches"
    PROVE  h'[w].todo = <<Assigned(w)>>
<1> DEFINE item == Assigned(w)
           i == IndexOf(h[w].row, h[w].req.lineItems[1].product)
<1>1. h[w] \in Handler /\ h \in [Workers -> Handler]
  BY DEF TypeInv, Tables
<1>2. h'[w] = AfterValidate(w)
  BY <1>1 DEF EndLoop
<1>3. h'[w] = [h[w] EXCEPT !.pc = "deduct", !.todo = <<item>>, !.row.lineItems[i] = item]
  BY <1>2 DEF AfterValidate
<1> HIDE DEF item, i
<1>4. h'[w].todo = <<item>>
  BY <1>1, <1>3 DEF Handler
<1> QED BY <1>4 DEF item

LEMMA HandlingClean ==
    ASSUME TypeInv, NEW w \in Workers, NEW r, NEW pc, NEW row, NEW todo,
           Proceed(w, r, pc, row, todo)
    PROVE  h'[w].dirty = {}
<1>1. h'[w] = Handling(r, pc, row, todo)
  BY DEF TypeInv, Tables, Proceed
<1> QED BY <1>1 DEF Handling, Resting

LEMMA ArriveTodo ==
    ASSUME TypeInv, NEW w \in Workers, Arrive(w), h'[w] # Resting("refused")
    PROVE  LET r == h'[w].req
           IN  /\ h'[w].dirty = {}
               /\ r.op = "assignBatches" =>
                     h'[w].todo = <<sales[r.sale].lineItems[IndexOf(sales[r.sale], r.lineItems[1].product)]>>
               /\ r.op \in Cancels \cup {"cancelSale"} => h'[w].todo = sales[r.sale].lineItems
               /\ (r.op = "updateSale" /\ h'[w].pc = "return") => h'[w].todo = sales[r.sale].lineItems
               /\ r.op = "createSale" =>
                     /\ h'[w].row.lineItems = r.lineItems
                     /\ h'[w].row.orderStatus = Chosen(r.orderStatus, "PENDING")
<1>1. PICK r \in Requests :
         \/ CreateSale(w, r) \/ AddLineItem(w, r) \/ AssignBatches(w, r)
         \/ UpdateSale(w, r) \/ UpdateSaleStatus(w, r)
         \/ ConfirmDelivery(w, r)
         \/ CancelSaleByCustomer(w, r) \/ CancelSaleByAdmin(w, r) \/ CancelSale(w, r)
  BY DEF Arrive
<1>2. ~Refuse(w)
  BY AnswerIs DEF Refuse
<1>3. CASE CreateSale(w, r)
  <2> DEFINE row == [EmptyRow EXCEPT
                        !.orderStatus = Chosen(r.orderStatus, "PENDING"),
                        !.paymentStatus = Chosen(r.paymentStatus, "INVOICE_REQUESTED"),
                        !.lineItems = r.lineItems]
  <2>1. r.op = "createSale" /\ Proceed(w, r, "validate", row, r.lineItems)
    BY <1>3 DEF CreateSale
  <2>2. row.lineItems = r.lineItems /\ row.orderStatus = Chosen(r.orderStatus, "PENDING")
    BY DEF EmptyRow
  <2> HIDE DEF row
  <2> QED BY <2>1, <2>2, ProceedIs, HandlingClean DEF Cancels
<1>4. CASE AddLineItem(w, r)
  <2>1. r.op = "addLineItem" /\ \E row : Proceed(w, r, "save", row, <<>>)
    BY <1>2, <1>4 DEF AddLineItem
  <2> QED BY <2>1, ProceedIs, HandlingClean DEF Cancels
<1>5. CASE AssignBatches(w, r)
  <2>1. /\ r.op = "assignBatches"
        /\ Proceed(w, r, "return", sales[r.sale],
                   <<sales[r.sale].lineItems[IndexOf(sales[r.sale], r.lineItems[1].product)]>>)
    BY <1>2, <1>5 DEF AssignBatches
  <2> QED BY <2>1, ProceedIs, HandlingClean DEF Cancels
<1>6. CASE UpdateSale(w, r)
  <2>1. /\ r.op = "updateSale"
        /\ \/ \E row : Proceed(w, r, "return", row, sales[r.sale].lineItems)
           \/ \E row : Proceed(w, r, "save", row, <<>>)
    BY <1>2, <1>6 DEF UpdateSale
  <2> QED BY <2>1, ProceedIs, HandlingClean DEF Cancels
<1>7. CASE UpdateSaleStatus(w, r)
  <2>1. r.op = "updateSaleStatus" /\ \E row : Proceed(w, r, "save", row, <<>>)
    BY <1>2, <1>7 DEF UpdateSaleStatus
  <2> QED BY <2>1, ProceedIs, HandlingClean DEF Cancels
<1>8. CASE ConfirmDelivery(w, r)
  <2>1. r.op = "confirmDelivery" /\ \E row : Proceed(w, r, "save", row, <<>>)
    BY <1>2, <1>8 DEF ConfirmDelivery
  <2> QED BY <2>1, ProceedIs, HandlingClean DEF Cancels
<1>9. CASE CancelSaleByCustomer(w, r) \/ CancelSaleByAdmin(w, r)
  <2>1. /\ r.op \in Cancels
        /\ \E pc, row : Proceed(w, r, pc, row, sales[r.sale].lineItems)
    BY <1>2, <1>9 DEF CancelSaleByCustomer, CancelSaleByAdmin, CancelFrom, Cancels
  <2> QED BY <2>1, ProceedIs, HandlingClean DEF Cancels
<1>10. CASE CancelSale(w, r)
  <2>1. r.op = "cancelSale" /\ \E row : Proceed(w, r, "return", row, sales[r.sale].lineItems)
    BY <1>2, <1>10 DEF CancelSale
  <2> QED BY <2>1, ProceedIs, HandlingClean DEF Cancels
<1> QED BY <1>1, <1>3, <1>4, <1>5, <1>6, <1>7, <1>8, <1>9, <1>10

(***************************************************************************)
(* The ledger is kept.  Invariant: what a batch shows to the handler, and  *)
(* what the sale it works on will hold of it once the handler is done, or  *)
(* is yet to give back, are together what the shelf and the sale had when  *)
(* the request arrived.                                                    *)
(***************************************************************************)
Replaced(w) == IndexOf(h[w].row, h[w].req.lineItems[1].product)

\* What the items hold that assignBatches does not touch.
Kept(w, b) ==
    IF h[w].req.op = "assignBatches"
      THEN Held(h[w].row.lineItems, b) - AllocatedTo(h[w].row.lineItems[Replaced(w)], b)
      ELSE 0

Promised(w, b) ==
    IF h[w].pc \in ReturnLoop \cup {"refund"} THEN Held(h[w].todo, b) + Kept(w, b)
    ELSE IF h[w].pc = "validate" THEN Kept(w, b)
    ELSE IF h[w].pc \in DeductLoop THEN Held(h[w].row.lineItems, b) - Held(h[w].todo, b)
    ELSE IF h[w].req.op \in Cancellations THEN 0
    ELSE HeldBy(h[w].row, b)

\* The handlers SuccessBalances speaks of.
Ordinary(w) ==
    /\ ~RecordsOnly(w)
    /\ h[w].req.sale \notin opening[w].settled

Saved(w) == h[w].pc = "notify" /\ ~InTransaction(w)

\* The batch in hand is the one the handler sees, with the allocation put back or taken off.
InHand(w) ==
    LET seen == BatchSeenBy(w, Alloc(w).batch)
    IN  /\ h[w].pc \in {"returnCompare", "returnWrite"} =>
              h[w].batch.quantity = seen.quantity + Alloc(w).quantity
        /\ h[w].pc \in {"deductCompare", "deductWrite"} =>
              h[w].batch.quantity = seen.quantity - Alloc(w).quantity
        /\ h[w].pc \in {"returnWrite", "deductWrite"} =>
              UpdatedBatch(seen, h[w].batch, h[w].diff) = h[w].batch

\* Which handlers go where.
OnCourse(w) ==
    LET op == h[w].req.op
        pc == h[w].pc
        was == opening[w].sales[h[w].req.sale]
    IN  /\ op = "createSale" =>
              /\ was = NoSale /\ h[w].row.lineItems = h[w].req.lineItems
              /\ pc \notin ReturnLoop \cup {"refund"}
        /\ op \in Cancellations => pc \notin DeductLoop \cup {"validate"}
        /\ op \in {"addLineItem", "confirmDelivery", "updateSaleStatus"} =>
              pc \in {"save", "saveWrite", "notify"}
        /\ op # "createSale" => was # NoSale
        /\ pc = "refund" => op \in Cancellations

AgreesWithOpening(w) ==
    /\ opening[w].batches \in [Batches -> BatchRow]
    /\ opening[w].sales \in [Sales -> SaleRow \cup {NoSale}]
    /\ sales = IF Saved(w) THEN [opening[w].sales EXCEPT ![h[w].req.sale] = h[w].row]
                           ELSE opening[w].sales
    /\ settled = opening[w].settled
    /\ InTransaction(w) \/ h[w].dirty = {}

Balanced(w) ==
    Ordinary(w) =>
        \A b \in Batches :
            BatchSeenBy(w, b).quantity + Promised(w, b)
               = opening[w].batches[b].quantity + HeldBy(opening[w].sales[h[w].req.sale], b)

LedgerInv ==
    \A w \in Workers :
        h[w].pc # "idle" => OnCourse(w) /\ InHand(w) /\ AgreesWithOpening(w) /\ Balanced(w)

\* A step that keeps the request and the status speaks of the same handler.
LEMMA OrdinaryKept ==
    ASSUME NEW w \in Workers, h'[w].req = h[w].req,
           h'[w].row.orderStatus = h[w].row.orderStatus, opening'[w] = opening[w]
    PROVE  Ordinary(w)' <=> Ordinary(w)
  BY DEF Ordinary, RecordsOnly, ArrivesAllocated

LEMMA ReplacedInDomain ==
    ASSUME TypeInv, NEW w \in Workers, h[w].req.op = "assignBatches",
           h[w].pc \in {"return", "returnCompare", "returnWrite", "validate"}
    PROVE  Replaced(w) \in DOMAIN h[w].row.lineItems
<1>1. /\ h[w].row \in SaleRow
      /\ IndexOf(h[w].row, h[w].req.lineItems[1].product) # 0
  BY AtWork DEF Sound
<1> QED BY <1>1, IndexOfInDomain DEF Replaced

LEMMA HandsInt ==
    ASSUME TypeInv, NEW w \in Workers, h[w].pc # "idle", NEW b
    PROVE  /\ Held(h[w].todo, b) \in Int /\ Held(h[w].row.lineItems, b) \in Int
           /\ h[w].pc \in ReturnLoop \cup {"validate"} => Kept(w, b) \in Int
<1>1. h[w].row \in SaleRow /\ h[w].todo \in Seq(LineItem)
  BY AtWork
<1>2. h[w].row.lineItems \in Seq(LineItem)
  BY <1>1 DEF SaleRow
<1>3. Held(h[w].todo, b) \in Int /\ Held(h[w].row.lineItems, b) \in Int
  BY <1>1, <1>2, HeldInt
<1>4. ASSUME h[w].pc \in ReturnLoop \cup {"validate"} PROVE Kept(w, b) \in Int
  <2>1. CASE h[w].req.op = "assignBatches"
    <3>1. Replaced(w) \in DOMAIN h[w].row.lineItems
      BY <1>4, <2>1, ReplacedInDomain DEF ReturnLoop
    <3>2. h[w].row.lineItems[Replaced(w)] \in LineItem
      BY <1>2, <3>1
    <3>3. AllocatedTo(h[w].row.lineItems[Replaced(w)], b) \in Int
      BY <3>2, AllocatedToInt
    <3> QED BY <1>3, <2>1, <3>3 DEF Kept
  <2>2. CASE h[w].req.op # "assignBatches"
    BY <2>2 DEF Kept
  <2> QED BY <2>1, <2>2
<1> QED BY <1>3, <1>4

LEMMA SeenInt ==
    ASSUME TypeInv, NEW w \in Workers, NEW b \in Batches
    PROVE  BatchSeenBy(w, b).quantity \in Int
  BY BatchSeenByType DEF BatchRow

(***************************************************************************)
(* A request arrives.                                                      *)
(***************************************************************************)
LEMMA LedgerArrives ==
    ASSUME TypeInv, TypeInv', NEW w \in Workers, Arrive(w),
           h'[w] # Resting("refused"), opening'[w] = Book, UNCHANGED settled
    PROVE  OnCourse(w)' /\ InHand(w)' /\ AgreesWithOpening(w)' /\ Balanced(w)'
<1> DEFINE r == h'[w].req
           was == sales[r.sale]
           row == h'[w].row
           pc == h'[w].pc
<1>0. row \in SaleRow
  BY DEF TypeInv, Tables, Handler
<1>1. r \in Requests /\ Accepted(w, r) /\ UNCHANGED <<batches, sales>>
  BY ArriveShape
<1>2. /\ r.sale \in Sales /\ r.lineItems \in Seq(LineItem)
      /\ Found(r.sale) => was \in SaleRow /\ was # NoSale /\ was.lineItems \in Seq(LineItem)
  <2>1. r.sale \in Sales /\ r.lineItems \in Seq(LineItem)
    BY <1>1, RequestType
  <2>2. Found(r.sale) => was \in SaleRow /\ was # NoSale
    BY <2>1, FoundType DEF Found
  <2> QED BY <2>1, <2>2 DEF SaleRow
<1>3. opening'[w].batches = batches /\ opening'[w].sales = sales /\ opening'[w].settled = settled
  BY DEF Book
<1>4. pc \in {"refund", "return", "validate", "save"} /\ (pc = "refund" => r.op \in Cancels)
  BY <1>1 DEF Accepted, Cancels
<1>5. r.op = "createSale" \/ Found(r.sale)
  BY <1>1 DEF Accepted
<1>6. was # NoSale => \A b : HeldBy(was, b) = Held(was.lineItems, b)
  BY HeldByIs
<1>7. batches \in [Batches -> BatchRow] /\ sales \in [Sales -> SaleRow \cup {NoSale}]
  BY DEF TypeInv, Tables
<1>8. h'[w].dirty = {}
  BY ArriveTodo
<1>9. InHand(w)'
  BY <1>4 DEF InHand
<1>10. AgreesWithOpening(w)'
  BY <1>1, <1>3, <1>4, <1>7, <1>8 DEF AgreesWithOpening, Saved
\* What each operation does to the line items.
<1>11. CASE r.op = "createSale"
  <2>1. was = NoSale /\ pc = "validate"
    BY <1>1, <1>11 DEF Accepted, Cancels
  <2>2. row.lineItems = r.lineItems /\ row.orderStatus = Chosen(r.orderStatus, "PENDING")
    BY <1>11, ArriveTodo
  <2>4. OnCourse(w)'
    BY <1>3, <1>11, <2>1, <2>2 DEF OnCourse, Cancellations, Cancels, ReturnLoop
  <2>5. ASSUME NEW b \in Batches
        PROVE  Promised(w, b)' = 0 /\ HeldBy(was, b) = 0
    <3>1. HeldBy(was, b) = 0
      BY <2>1, HeldByIs
    <3>2. Promised(w, b)' = 0
      BY <1>11, <2>1 DEF Promised, Kept, ReturnLoop
    <3> QED BY <3>1, <3>2
  <2>6. Balanced(w)'
    BY <1>1, <1>3, <1>8, <2>5 DEF Balanced, BatchSeenBy
  <2> QED BY <1>9, <1>10, <2>4, <2>6
<1>12. ASSUME r.op # "createSale",
              r.op \in Cancellations => pc # "validate",
              r.op \in {"addLineItem", "confirmDelivery", "updateSaleStatus"} => pc = "save",
              \A b \in Batches : Ordinary(w)' => Promised(w, b)' = HeldBy(was, b)
       PROVE  OnCourse(w)' /\ Balanced(w)'
  <2>1. was # NoSale
    BY <1>2, <1>5, <1>12
  <2>2. OnCourse(w)'
    BY <1>3, <1>4, <1>12, <2>1 DEF OnCourse, Cancellations, Cancels, DeductLoop
  <2>3. Balanced(w)'
    BY <1>1, <1>3, <1>8, <1>12 DEF Balanced, BatchSeenBy
  <2> QED BY <2>2, <2>3
<1>13. \A b : HeldBy(row, b) = Held(row.lineItems, b)
  BY <1>0, InitialAssumption, HeldByIs
<1>14. CASE r.op = "addLineItem"
  <2>1. Found(r.sale) /\ pc = "save" /\ row = [was EXCEPT !.lineItems = @ \o r.lineItems]
    BY <1>1, <1>14 DEF Accepted, Cancels
  <2>2. row.lineItems = was.lineItems \o r.lineItems
    BY <1>2, <2>1 DEF SaleRow
  <2>3. Len(r.lineItems) = 1
    BY <1>1, <1>14, RequestsAssumption
  <2>4. ASSUME NEW b \in Batches, Ordinary(w)' PROVE Promised(w, b)' = HeldBy(was, b)
    <3>1. r.lineItems[1].alloc = <<>>
      <4>1. 1 \in DOMAIN r.lineItems
        BY <1>2, <2>3
      <4> QED BY <1>14, <2>4, <4>1 DEF Ordinary, RecordsOnly, ArrivesAllocated
    <3>2. r.lineItems[1] \in LineItem /\ was.lineItems \o r.lineItems = Append(was.lineItems, r.lineItems[1])
      <4>1. r.lineItems[1] \in LineItem /\ r.lineItems = <<r.lineItems[1]>>
        BY <1>2, <2>3
      <4>2. was.lineItems \in Seq(LineItem)
        BY <1>2, <2>1
      <4> DEFINE item == r.lineItems[1]
                 items == was.lineItems
      <4>3. item \in LineItem /\ items \in Seq(LineItem) /\ r.lineItems = <<item>>
        BY <4>1, <4>2
      <4> HIDE DEF item, items
      <4>4. Append(items, item) = items \o <<item>>
        BY <4>3, AppendIsConcat
      <4> QED BY <4>3, <4>4 DEF item, items
    <3>3. Held(row.lineItems, b) = Held(was.lineItems, b)
      <4>1. was.lineItems \in Seq(LineItem) /\ row.lineItems = Append(was.lineItems, r.lineItems[1])
        BY <1>2, <2>1, <2>2, <3>2
      <4> DEFINE item == r.lineItems[1]
                 items == was.lineItems
      <4>2. item \in LineItem /\ items \in Seq(LineItem) /\ item.alloc = <<>>
        BY <3>1, <3>2, <4>1
      <4> HIDE DEF item, items
      <4>3. Held(Append(items, item), b) = Held(items, b)
        BY <4>2, HeldAppend
      <4> QED BY <4>1, <4>3 DEF item, items
    <3>5. Promised(w, b)' = HeldBy(row, b)
      BY <1>14, <2>1 DEF Promised, ReturnLoop, DeductLoop, Cancellations
    <3> QED BY <1>13, <1>2, <1>6, <2>1, <3>3, <3>5
  <2> QED BY <1>9, <1>10, <1>12, <1>14, <2>1, <2>4 DEF Cancellations
<1>15. CASE r.op = "assignBatches"
  <2> DEFINE i == IndexOf(was, r.lineItems[1].product)
  <2>1. Found(r.sale) /\ pc = "return" /\ row = was
    BY <1>1, <1>15 DEF Accepted, Cancels
  <2>2. h'[w].todo = <<was.lineItems[i]>>
    BY <1>15, ArriveTodo
  <2>3. i \in DOMAIN was.lineItems
    <3>1. IndexOf(row, r.lineItems[1].product) # 0
      BY <1>15, <2>1 DEF TypeInv, Sound
    <3> QED BY <1>2, <2>1, <3>1, IndexOfInDomain
  <2>4. ASSUME NEW b \in Batches, Ordinary(w)' PROVE Promised(w, b)' = HeldBy(was, b)
    <3>1. was.lineItems[i] \in LineItem
      BY <1>2, <2>1, <2>3
    <3>2. /\ Held(<<was.lineItems[i]>>, b) = AllocatedTo(was.lineItems[i], b)
          /\ AllocatedTo(was.lineItems[i], b) \in Int /\ Held(was.lineItems, b) \in Int
      BY <1>2, <2>1, <3>1, HeldSingle, AllocatedToInt, HeldInt
    <3>3. Kept(w, b)' = Held(was.lineItems, b) - AllocatedTo(was.lineItems[i], b)
      BY <1>15, <2>1 DEF Kept, Replaced
    <3>4. Promised(w, b)' = Held(<<was.lineItems[i]>>, b) + Kept(w, b)'
      BY <2>1, <2>2 DEF Promised, ReturnLoop
    <3>6. Promised(w, b)' = Held(was.lineItems, b)
      <4> HIDE DEF i, was
      <4> QED BY <3>2, <3>3, <3>4
    <3> QED BY <1>2, <1>6, <2>1, <3>6
  <2> QED BY <1>9, <1>10, <1>12, <1>15, <2>4 DEF Cancellations
<1>16. CASE r.op \in {"updateSale", "updateSaleStatus"}
  <2>1. /\ Found(r.sale) /\ pc \in {"return", "save"} /\ (r.op = "updateSaleStatus" => pc = "save")
        /\ row = [was EXCEPT !.orderStatus = Chosen(r.orderStatus, @),
                             !.paymentStatus = Chosen(r.paymentStatus, @)]
    BY <1>1, <1>16 DEF Accepted, Cancels
  <2>2. row.lineItems = was.lineItems
    BY <1>2, <2>1 DEF SaleRow
  <2>3. ASSUME NEW b \in Batches, Ordinary(w)' PROVE Promised(w, b)' = HeldBy(was, b)
    <3>1. CASE pc = "save"
      <4>1. Promised(w, b)' = HeldBy(row, b)
        BY <1>16, <3>1 DEF Promised, ReturnLoop, DeductLoop, Cancellations
      <4> QED BY <1>2, <1>6, <1>13, <2>1, <2>2, <4>1
    <3>2. CASE pc = "return"
      <4>1. r.op = "updateSale"
        BY <1>16, <2>1, <3>2
      <4>2. h'[w].todo = was.lineItems
        BY <3>2, <4>1, ArriveTodo
      <4>3. Kept(w, b)' = 0
        BY <4>1 DEF Kept
      <4>4. Promised(w, b)' = Held(was.lineItems, b) + 0
        BY <3>2, <4>2, <4>3 DEF Promised, ReturnLoop
      <4>5. Held(was.lineItems, b) \in Int
        BY <1>2, <2>1, HeldInt
      <4>6. HeldBy(was, b) = Held(was.lineItems, b)
        BY <1>2, <1>6, <2>1
      <4> HIDE DEF was
      <4> QED BY <4>4, <4>5, <4>6
    <3> QED BY <2>1, <3>1, <3>2
  <2> QED BY <1>9, <1>10, <1>12, <1>16, <2>1, <2>3 DEF Cancellations
<1>17. CASE r.op = "confirmDelivery"
  <2>1. Found(r.sale) /\ pc = "save" /\ row = [was EXCEPT !.confirmed = r.confirmed]
    BY <1>1, <1>17 DEF Accepted, Cancels
  <2>2. row.lineItems = was.lineItems
    BY <1>2, <2>1 DEF SaleRow
  <2>3. ASSUME NEW b \in Batches, Ordinary(w)' PROVE Promised(w, b)' = HeldBy(was, b)
    <3>1. Promised(w, b)' = HeldBy(row, b)
      BY <1>17, <2>1 DEF Promised, ReturnLoop, DeductLoop, Cancellations
    <3> QED BY <1>2, <1>6, <1>13, <2>1, <2>2, <3>1
  <2> QED BY <1>9, <1>10, <1>12, <1>17, <2>1, <2>3 DEF Cancellations
<1>18. CASE r.op \in Cancellations
  <2>1. Found(r.sale) /\ pc \in {"return", "refund"}
    BY <1>1, <1>18 DEF Accepted, Cancels, Cancellations
  <2>2. h'[w].todo = was.lineItems
    BY <1>18, ArriveTodo DEF Cancellations, Cancels
  <2>3. ASSUME NEW b \in Batches, Ordinary(w)' PROVE Promised(w, b)' = HeldBy(was, b)
    <3>1. Kept(w, b)' = 0
      BY <1>18 DEF Kept, Cancellations
    <3>2. Promised(w, b)' = Held(was.lineItems, b) + 0
      BY <2>1, <2>2, <3>1 DEF Promised, ReturnLoop
    <3>3. Held(was.lineItems, b) \in Int
      BY <1>2, <2>1, HeldInt
    <3>4. HeldBy(was, b) = Held(was.lineItems, b)
      BY <1>2, <1>6, <2>1
    <3> HIDE DEF was
    <3> QED BY <3>2, <3>3, <3>4
  <2>4. r.op # "createSale" /\ r.op \notin {"addLineItem", "confirmDelivery", "updateSaleStatus"}
    BY <1>18 DEF Cancellations
  <2> QED BY <1>9, <1>10, <1>12, <1>18, <2>1, <2>3, <2>4
<1>19. r.op \in {"createSale", "addLineItem", "assignBatches", "updateSale", "updateSaleStatus",
                 "confirmDelivery"} \cup Cancellations
  BY <1>1 DEF Accepted, Cancellations, Cancels
<1> QED BY <1>11, <1>14, <1>15, <1>16, <1>17, <1>18, <1>19

(***************************************************************************)
(* The loops.                                                              *)
(***************************************************************************)
LEMMA FindInHand ==
    ASSUME TypeInv, NEW w \in Workers, ReturnFind(w) \/ DeductFind(w), h'[w].pc # "idle"
    PROVE  LET c == Alloc(w).batch
               n == Alloc(w).quantity
           IN  /\ h'[w].todo = h[w].todo
               /\ \/ h'[w].pc = "returnCompare"
                     /\ h'[w].batch.quantity = BatchSeenBy(w, c).quantity + n
                  \/ h'[w].pc = "deductCompare"
                     /\ h'[w].batch.quantity = BatchSeenBy(w, c).quantity - n
<1>1. h \in [Workers -> Handler] /\ h[w] \in Handler
  BY DEF TypeInv, Tables
<1> DEFINE c == Alloc(w).batch
           n == Alloc(w).quantity
<1>2. CASE ReturnFind(w)
  <2> DEFINE entity == Returned(BatchSeenBy(w, c), n)
  <2>1. h' = [h EXCEPT ![w] = [h[w] EXCEPT !.pc = "returnCompare", !.batch = entity]]
    BY <1>2 DEF ReturnFind
  <2>2. entity.quantity = BatchSeenBy(w, c).quantity + n
    BY DEF Returned
  <2> HIDE DEF entity
  <2>3. h'[w].todo = h[w].todo /\ h'[w].pc = "returnCompare" /\ h'[w].batch = entity
    BY <1>1, <2>1 DEF Handler
  <2> QED BY <2>2, <2>3
<1>3. CASE DeductFind(w)
  <2> DEFINE entity == Deducted(BatchSeenBy(w, c), n)
  <2>1. h' = [h EXCEPT ![w] = [h[w] EXCEPT !.pc = "deductCompare", !.batch = entity]]
    BY <1>3, AnswerIs DEF DeductFind
  <2>2. entity.quantity = BatchSeenBy(w, c).quantity - n
    BY DEF Deducted
  <2> HIDE DEF entity
  <2>3. h'[w].todo = h[w].todo /\ h'[w].pc = "deductCompare" /\ h'[w].batch = entity
    BY <1>1, <2>1 DEF Handler
  <2> QED BY <2>2, <2>3
<1> QED BY <1>2, <1>3

LEMMA LoopInHand ==
    ASSUME TypeInv, NEW w \in Workers, InLoop(w), ~WriteBatch(w), h'[w].pc # "idle", InHand(w)
    PROVE  InHand(w)'
<1>1. \A b : BatchSeenBy(w, b)' = BatchSeenBy(w, b)
  BY LoopKeeps, SeenKept DEF InLoop
<1>2. h \in [Workers -> Handler] /\ h[w] \in Handler
  BY DEF TypeInv, Tables
<1>3. CASE ReturnFind(w) \/ DeductFind(w)
  <2>1. Alloc(w)' = Alloc(w)
    BY <1>3, FindInHand DEF Alloc
  <2> QED BY <1>1, <1>3, <2>1, FindInHand DEF InHand
<1>4. CASE CompareBatch(w)
  <2> DEFINE next == IF h[w].pc = "returnCompare" THEN "returnWrite" ELSE "deductWrite"
             seen == BatchSeenBy(w, Alloc(w).batch)
  <2>1. /\ h[w].pc \in {"returnCompare", "deductCompare"} /\ h'[w].todo = h[w].todo
        /\ h'[w].batch = h[w].batch /\ h'[w].diff = BatchDiff(w)
    BY <1>4, CompareShape DEF CompareBatch
  <2>2. h'[w].pc = next
    <3> DEFINE diff == BatchDiff(w)
    <3>1. h' = [h EXCEPT ![w] = [h[w] EXCEPT !.pc = next, !.diff = diff]]
      BY <1>4 DEF CompareBatch
    <3> HIDE DEF diff
    <3> QED BY <1>2, <3>1 DEF Handler
  <2>3. AtAllocation(w)
    BY <2>1 DEF TypeInv, Sound, InLoopBody, AtAllocation
  <2>4. seen \in BatchRow /\ h[w].batch \in BatchRow
    BY <1>2, <2>3, AllocType, BatchSeenByType DEF Handler
  <2>5. UpdatedBatch(seen, h[w].batch, BatchDiff(w)) = h[w].batch
    BY <2>4, UpdateYieldsEntity DEF BatchDiff
  <2>6. Alloc(w)' = Alloc(w) /\ BatchSeenBy(w, Alloc(w).batch)' = seen
    BY <1>1, <2>1 DEF Alloc, BatchSeenBy
  <2> QED BY <2>1, <2>2, <2>5, <2>6 DEF InHand
<1>5. CASE ValidateAllocation(w)
  <2>1. h'[w].pc = "validate"
    BY <1>2, <1>5, AnswerIs, NextAllocationIs DEF ValidateAllocation
  <2> QED BY <2>1 DEF InHand
<1>6. CASE EndItem(w)
  <2>1. h'[w].pc \in {"return", "validate", "deduct"}
    BY <1>2, <1>6, AnswerIs DEF EndItem, Handler
  <2> QED BY <2>1 DEF InHand
<1> QED BY <1>3, <1>4, <1>5, <1>6 DEF InLoop

\* Only a write changes what is in the balance, and it changes both sides.
LEMMA LoopPromised ==
    ASSUME TypeInv, NEW w \in Workers, InLoop(w), ~WriteBatch(w), Turn(w), NEW b
    PROVE  Promised(w, b)' = Promised(w, b)
<1>1. h'[w].req = h[w].req /\ h'[w].row = h[w].row
  BY DEF Turn
<1>2. Kept(w, b)' = Kept(w, b)
  BY <1>1 DEF Kept, Replaced
<1>3. h[w].pc # "idle" /\ h'[w].pc # "idle"
  BY DEF Turn, ReturnLoop, DeductLoop
<1>4. h[w].todo \in Seq(LineItem)
  BY <1>3, AtWork
<1>5. CASE h[w].pc = "validate"
  <2>1. h'[w].pc = "validate"
    BY <1>5 DEF Turn, ReturnLoop, DeductLoop
  <2> QED BY <1>2, <1>5, <2>1 DEF Promised, ReturnLoop
<1>6. CASE h[w].pc # "validate"
  <2>1. Held(h'[w].todo, b) = Held(h[w].todo, b)
    <3>1. CASE h'[w].todo = h[w].todo
      BY <3>1
    <3>2. CASE EndItem(w)
      <4>1. AtItemEnd(w) /\ h'[w].todo = Tail(h[w].todo)
        <5>1. h \in [Workers -> Handler] /\ h[w] \in Handler
          BY DEF TypeInv, Tables
        <5> QED BY <1>3, <3>2, <5>1, AnswerIs DEF EndItem, Handler
      <4> QED BY <1>4, <4>1, HeldTail DEF AtItemEnd
    <3> QED BY <1>3, <1>6, <3>1, <3>2, FindInHand, CompareShape DEF InLoop, ValidateAllocation
  <2>2. \/ h[w].pc \in ReturnLoop /\ h'[w].pc \in ReturnLoop
        \/ h[w].pc \in DeductLoop /\ h'[w].pc \in DeductLoop
    BY <1>6 DEF Turn
  <2>3. \A pc : ~(pc \in DeductLoop /\ (pc \in ReturnLoop \cup {"refund"} \/ pc = "validate"))
    BY DEF DeductLoop, ReturnLoop
  <2> QED BY <1>1, <1>2, <2>1, <2>2, <2>3 DEF Promised
<1> QED BY <1>5, <1>6

LEMMA LedgerLoops ==
    ASSUME TypeInv, NEW w \in Workers, InLoop(w), Turn(w), opening'[w] = opening[w], UNCHANGED settled,
           OnCourse(w), InHand(w), AgreesWithOpening(w), Balanced(w)
    PROVE  OnCourse(w)' /\ InHand(w)' /\ AgreesWithOpening(w)' /\ Balanced(w)'
<1>1. h'[w].req = h[w].req /\ h'[w].row = h[w].row /\ UNCHANGED sales
  BY LoopShape DEF Turn
<1>2. h[w].pc # "idle" /\ h'[w].pc # "idle" /\ ~Saved(w) /\ ~Saved(w)'
  BY DEF Turn, ReturnLoop, DeductLoop, Saved
<1>3. OnCourse(w)'
  <2>1. /\ h'[w].pc \in ReturnLoop \cup {"refund"} => h[w].pc \in ReturnLoop \cup {"refund"}
        /\ h'[w].pc \in DeductLoop \cup {"validate"} => h[w].pc \in DeductLoop \cup {"validate"}
        /\ h[w].pc \notin {"save", "saveWrite", "notify"} /\ h'[w].pc # "refund"
    BY DEF Turn, ReturnLoop, DeductLoop
  <2> QED BY <1>1, <2>1 DEF OnCourse
<1>4. Ordinary(w)' <=> Ordinary(w)
  BY <1>1, OrdinaryKept
<1>5. CASE WriteBatch(w)
  <2> DEFINE c == Alloc(w).batch
             n == Alloc(w).quantity
  <2>1. h[w].pc \in {"returnWrite", "deductWrite"}
    BY <1>5 DEF WriteBatch
  <2>2. UpdatedBatch(BatchSeenBy(w, c), h[w].batch, h[w].diff) = h[w].batch
    BY <2>1 DEF InHand
  <2>3. InTransaction(w) \/ h[w].dirty = {}
    BY DEF AgreesWithOpening
  <2>4. /\ AtAllocation(w) /\ h'[w].todo = Advanced(h[w].todo)
        /\ h'[w].pc = IF h[w].pc = "returnWrite" THEN "return" ELSE "deduct"
        /\ InTransaction(w) \/ h'[w].dirty = {}
        /\ \A b \in Batches :
              BatchSeenBy(w, b)' = IF b = c THEN h[w].batch ELSE BatchSeenBy(w, b)
    BY <1>5, <2>2, <2>3, WriteSeen
  <2>5. InHand(w)'
    BY <2>4 DEF InHand
  <2>6. AgreesWithOpening(w)'
    BY <1>1, <1>2, <2>4 DEF AgreesWithOpening, InTransaction
  <2>7. ASSUME Ordinary(w), NEW b \in Batches
        PROVE  BatchSeenBy(w, b)'.quantity + Promised(w, b)'
                  = BatchSeenBy(w, b).quantity + Promised(w, b)
    <3> DEFINE share == Share(Head(Head(h[w].todo).alloc), b)
               held == Held(h[w].todo, b)
               left == Held(h'[w].todo, b)
               whole == Held(h[w].row.lineItems, b)
               seen == BatchSeenBy(w, b).quantity
    <3>1. h[w].todo \in Seq(LineItem)
      BY <1>2, AtWork
    <3>2. share \in Int /\ held = share + left /\ left \in Int
      BY <2>4, <3>1, HeldAdvanced, HeldInt DEF AtAllocation
    <3>3. seen \in Int /\ whole \in Int
          /\ (h[w].pc = "returnWrite" => Kept(w, b) \in Int)
      BY <1>2, SeenInt, HandsInt DEF ReturnLoop
    <3>4. share = IF b = c THEN n ELSE 0
      BY DEF Share, Alloc
    <3>5. Kept(w, b)' = Kept(w, b)
      BY <1>1 DEF Kept, Replaced
    <3>6. CASE h[w].pc = "returnWrite"
      <4>1. BatchSeenBy(w, b)'.quantity = seen + share
        BY <2>4, <3>3, <3>4, <3>6 DEF InHand
      <4>2. Promised(w, b) = held + Kept(w, b) /\ Promised(w, b)' = left + Kept(w, b)
        BY <2>4, <3>5, <3>6 DEF Promised, ReturnLoop
      <4> HIDE DEF share, held, left, seen
      <4> QED BY <3>2, <3>3, <3>6, <4>1, <4>2 DEF seen
    <3>7. CASE h[w].pc = "deductWrite"
      <4>1. BatchSeenBy(w, b)'.quantity = seen - share
        BY <2>4, <3>3, <3>4, <3>7 DEF InHand
      <4>2. Promised(w, b) = whole - held /\ Promised(w, b)' = whole - left
        BY <1>1, <2>4, <3>7 DEF Promised, ReturnLoop, DeductLoop
      <4> HIDE DEF share, held, left, seen, whole
      <4> QED BY <3>2, <3>3, <3>7, <4>1, <4>2 DEF seen
    <3> QED BY <2>1, <3>6, <3>7
  <2>8. Balanced(w)'
    BY <1>1, <1>4, <2>7 DEF Balanced
  <2> QED BY <1>3, <2>5, <2>6, <2>8
<1>6. CASE ~WriteBatch(w)
  <2>1. /\ \A b : BatchSeenBy(w, b)' = BatchSeenBy(w, b)
        /\ h'[w].dirty = h[w].dirty
    BY <1>2, <1>6, LoopKeeps, SeenKept DEF InLoop
  <2>2. InHand(w)'
    BY <1>2, <1>6, LoopInHand
  <2>3. AgreesWithOpening(w)'
    BY <1>1, <1>2, <2>1 DEF AgreesWithOpening, InTransaction
  <2>4. \A b : Promised(w, b)' = Promised(w, b)
    BY <1>6, LoopPromised
  <2>5. Balanced(w)'
    BY <1>1, <1>4, <2>1, <2>4 DEF Balanced
  <2> QED BY <1>3, <2>2, <2>3, <2>5
<1> QED BY <1>5, <1>6

\* A step that changes no table and promises what was promised keeps the balance.
LEMMA BalanceKept ==
    ASSUME NEW w \in Workers, UNCHANGED <<batches, sales>>, opening'[w] = opening[w],
           h'[w].dirty = h[w].dirty, h'[w].view = h[w].view, h'[w].req = h[w].req,
           h'[w].row.orderStatus = h[w].row.orderStatus, ~Saved(w), ~Saved(w)', UNCHANGED settled,
           AgreesWithOpening(w), Balanced(w),
           \A b \in Batches : Ordinary(w) => Promised(w, b)' = Promised(w, b)
    PROVE  AgreesWithOpening(w)' /\ Balanced(w)'
<1>1. \A b : BatchSeenBy(w, b)' = BatchSeenBy(w, b)
  BY SeenKept
<1>2. Ordinary(w)' <=> Ordinary(w)
  BY OrdinaryKept
<1>3. AgreesWithOpening(w)'
  BY DEF AgreesWithOpening, InTransaction
<1>4. Balanced(w)'
  BY <1>1, <1>2 DEF Balanced
<1> QED BY <1>3, <1>4

(***************************************************************************)
(* From one loop to the next, and the refund.                              *)
(***************************************************************************)
Ops == {"createSale", "addLineItem", "assignBatches", "updateSale", "updateSaleStatus",
        "confirmDelivery", "cancelSaleByCustomer", "cancelSaleByAdmin", "cancelSale"}

LEMMA EndLoopPromised ==
    ASSUME TypeInv, NEW w \in Workers, EndLoop(w), OnCourse(w), Ordinary(w), NEW b
    PROVE  Promised(w, b)' = Promised(w, b)
<1> DEFINE items == h[w].row.lineItems
           op == h[w].req.op
<1>1. h[w].todo = <<>> /\ h[w].pc \in {"return", "validate", "deduct"} /\ h'[w].req = h[w].req
  BY EndLoopShape
<1>2. /\ h[w].row \in SaleRow /\ h[w].req \in Request /\ op \in Ops
      /\ h[w].req.lineItems \in Seq(LineItem) /\ items \in Seq(LineItem)
  BY <1>1, AtWork DEF Request, Ops, SaleRow
<1>3. Held(h[w].todo, b) = 0 /\ Held(items, b) \in Int
      /\ (h[w].pc \in {"return", "validate"} => Kept(w, b) \in Int)
  BY <1>1, HeldNone, HandsInt DEF ReturnLoop
<1>4. /\ h[w].pc = "return" => Promised(w, b) = Kept(w, b)
      /\ h[w].pc = "validate" => Promised(w, b) = Kept(w, b)
      /\ h[w].pc = "deduct" => Promised(w, b) = Held(items, b)
  BY <1>3 DEF Promised, ReturnLoop, DeductLoop
<1>5. CASE h[w].pc = "return" /\ op \in {"updateSale", "assignBatches"}
  <2>1. h'[w].pc = "validate" /\ h'[w].row = h[w].row
    BY <1>5, EndLoopShape
  <2>2. Kept(w, b)' = Kept(w, b)
    BY <1>1, <2>1 DEF Kept, Replaced
  <2> QED BY <1>4, <1>5, <2>1, <2>2 DEF Promised, ReturnLoop
<1>6. CASE h[w].pc = "return" /\ op \notin {"updateSale", "assignBatches"}
  <2>1. h'[w].pc = "save" /\ h'[w].row = h[w].row
    BY <1>6, EndLoopShape
  <2>2. op \in Cancellations
    BY <1>2, <1>6 DEF OnCourse, ReturnLoop, Cancellations, Cancels, Ops
  <2>4. Kept(w, b) = 0 /\ Promised(w, b)' = 0
    BY <1>1, <1>6, <2>1, <2>2 DEF Kept, Promised, ReturnLoop, DeductLoop
  <2> QED BY <1>4, <1>6, <2>4
<1>7. CASE h[w].pc = "validate" /\ op = "updateSale"
  <2>1. /\ h'[w].pc = "deduct" /\ h'[w].todo = h[w].req.lineItems
        /\ h'[w].row = [h[w].row EXCEPT !.lineItems = h[w].req.lineItems]
    BY <1>7, EndLoopShape
  <2>2. h'[w].row.lineItems = h[w].req.lineItems
    BY <1>2, <2>1 DEF SaleRow
  <2>3. Promised(w, b)' = Held(h[w].req.lineItems, b) - Held(h[w].req.lineItems, b)
    BY <2>1, <2>2 DEF Promised, ReturnLoop, DeductLoop
  <2>4. Kept(w, b) = 0 /\ Held(h[w].req.lineItems, b) \in Int
    BY <1>2, <1>7, HeldInt DEF Kept
  <2> QED BY <1>4, <1>7, <2>3, <2>4
<1>8. CASE h[w].pc = "validate" /\ op = "assignBatches"
  <2> DEFINE item == Assigned(w)
             i == Replaced(w)
  <2>1. /\ h'[w].pc = "deduct" /\ h'[w].todo = <<item>>
        /\ h'[w].row = [h[w].row EXCEPT !.lineItems[i] = item]
    BY <1>8, EndLoopShape, EndLoopTodo DEF Replaced
  <2>2. item \in LineItem /\ i \in DOMAIN items /\ items[i] \in LineItem
    BY <1>2, <1>8, AssignedType, ReplacedInDomain
  <2>3. Kept(w, b) = Held(items, b) - AllocatedTo(items[i], b)
    BY <1>8 DEF Kept
  <2> HIDE DEF item, i
  <2>4. h'[w].row.lineItems = [items EXCEPT ![i] = item]
    BY <1>2, <2>1 DEF SaleRow
  <2>5. Held([items EXCEPT ![i] = item], b)
           = Held(items, b) - AllocatedTo(items[i], b) + AllocatedTo(item, b)
    BY <1>2, <2>2, HeldReplaced
  <2>6. Held(<<item>>, b) = AllocatedTo(item, b) /\ AllocatedTo(item, b) \in Int
        /\ AllocatedTo(items[i], b) \in Int
    BY <2>2, HeldSingle, AllocatedToInt
  <2>7. Promised(w, b)' = Held(h'[w].row.lineItems, b) - Held(<<item>>, b)
    BY <2>1 DEF Promised, ReturnLoop, DeductLoop
  <2> QED BY <1>3, <1>4, <1>8, <2>3, <2>4, <2>5, <2>6, <2>7
<1>9. CASE h[w].pc = "validate" /\ op \notin {"updateSale", "assignBatches"}
  <2>1. op = "createSale"
    BY <1>2, <1>9 DEF OnCourse, Cancellations, Cancels, Ops
  <2>2. Kept(w, b) = 0
    BY <2>1 DEF Kept
  <2>3. CASE h'[w].pc = "deduct" /\ h'[w].todo = items /\ h'[w].row = h[w].row
    <3>1. Promised(w, b)' = Held(items, b) - Held(items, b)
      BY <2>3 DEF Promised, ReturnLoop, DeductLoop
    <3> QED BY <1>3, <1>4, <1>9, <2>2, <3>1
  <2>4. CASE h'[w].pc = "save" /\ h[w].row.orderStatus = "PENDING" /\ h'[w].row = h[w].row
    <3>1. ~ArrivesAllocated(w) /\ items = h[w].req.lineItems
      BY <2>1, <2>4 DEF Ordinary, RecordsOnly, OnCourse
    <3>2. \A j \in DOMAIN items : items[j].alloc = <<>>
      BY <3>1 DEF ArrivesAllocated
    <3>3. Held(items, b) = 0
      BY <1>2, <3>2, HeldUnallocated
    <3>4. HeldBy(h[w].row, b) = 0
      BY <3>3, HeldByIs
    <3>5. Promised(w, b)' = HeldBy(h[w].row, b)
      BY <1>1, <2>1, <2>4 DEF Promised, ReturnLoop, DeductLoop, Cancellations
    <3> QED BY <1>4, <1>9, <2>2, <3>4, <3>5
  <2> QED BY <1>9, <2>3, <2>4, EndLoopShape
<1>10. CASE h[w].pc = "deduct"
  <2>1. h'[w].pc = "save" /\ h'[w].row = h[w].row
    BY <1>10, EndLoopShape
  <2>2. op \notin Cancellations
    BY <1>10 DEF OnCourse, DeductLoop
  <2>3. h[w].row # NoSale
    BY <1>2, InitialAssumption
  <2>4. Promised(w, b)' = HeldBy(h[w].row, b)
    BY <1>1, <2>1, <2>2 DEF Promised, ReturnLoop, DeductLoop
  <2> QED BY <1>4, <1>10, <2>3, <2>4, HeldByIs
<1> QED BY <1>1, <1>5, <1>6, <1>7, <1>8, <1>9, <1>10

LEMMA LedgerEndLoops ==
    ASSUME TypeInv, NEW w \in Workers, EndLoop(w), opening'[w] = opening[w], UNCHANGED settled,
           OnCourse(w), AgreesWithOpening(w), Balanced(w)
    PROVE  OnCourse(w)' /\ InHand(w)' /\ AgreesWithOpening(w)' /\ Balanced(w)'
<1>1. /\ h[w].pc \in {"return", "validate", "deduct"}
      /\ h'[w].pc \in {"validate", "deduct", "save"} /\ h'[w].req = h[w].req
      /\ UNCHANGED <<batches, sales>>
  BY EndLoopShape
<1>2. h[w].row \in SaleRow
  BY <1>1, AtWork
<1>3. h'[w].row.orderStatus = h[w].row.orderStatus
      /\ (h[w].req.op \notin {"updateSale", "assignBatches"} => h'[w].row = h[w].row)
  <2>1. CASE h'[w].row = h[w].row
    BY <2>1
  <2>2. CASE /\ h'[w].row = [h[w].row EXCEPT !.lineItems = h[w].req.lineItems]
             /\ h[w].req.op = "updateSale"
    BY <1>2, <2>2 DEF SaleRow
  <2>3. CASE /\ h[w].req.op = "assignBatches"
             /\ h'[w].row = [h[w].row EXCEPT
                   !.lineItems[IndexOf(h[w].row, h[w].req.lineItems[1].product)] = Assigned(w)]
    <3> DEFINE i == IndexOf(h[w].row, h[w].req.lineItems[1].product)
               item == Assigned(w)
    <3> HIDE DEF i, item
    <3>1. h'[w].row = [h[w].row EXCEPT !.lineItems[i] = item]
      BY <2>3 DEF i, item
    <3> QED BY <1>2, <2>3, <3>1 DEF SaleRow
  <2> QED BY <2>1, <2>2, <2>3, EndLoopShape
<1>4. OnCourse(w)'
  <2>1. h[w].req \in Request /\ h[w].req.op \in Ops
    BY <1>1, AtWork DEF Request, Ops
  <2>2. h[w].pc = "return" => h[w].req.op # "createSale"
    BY DEF OnCourse, ReturnLoop
  <2>3. /\ h'[w].pc = "save" => h[w].pc \in {"return", "validate", "deduct"}
        /\ h'[w].pc # "save" /\ h[w].pc = "return" => h[w].req.op \notin Cancellations
    BY <1>1, EndLoopShape DEF Cancellations, Cancels
  <2>4. h[w].pc \in {"validate", "deduct"} => h[w].req.op \notin Cancellations
    BY DEF OnCourse, DeductLoop
  <2>5. h[w].req.op \notin {"addLineItem", "confirmDelivery", "updateSaleStatus"}
    BY <1>1 DEF OnCourse
  <2>6. h[w].req.op \in Cancellations => h'[w].pc = "save"
    BY <1>1, <2>3, <2>4
  <2> QED BY <1>1, <1>3, <2>5, <2>6 DEF OnCourse, ReturnLoop, DeductLoop
<1>5. InHand(w)'
  BY <1>1 DEF InHand
<1>6. h'[w].dirty = h[w].dirty /\ h'[w].view = h[w].view
  BY <1>1, LoopKeeps
<1>7. ~Saved(w) /\ ~Saved(w)'
  BY <1>1 DEF Saved
<1>8. \A b \in Batches : Ordinary(w) => Promised(w, b)' = Promised(w, b)
  BY EndLoopPromised
<1>9. AgreesWithOpening(w)' /\ Balanced(w)'
  BY <1>1, <1>3, <1>6, <1>7, <1>8, BalanceKept
<1> QED BY <1>4, <1>5, <1>9

LEMMA LedgerRefunds ==
    ASSUME TypeInv, NEW w \in Workers, Refund(w), opening'[w] = opening[w], UNCHANGED settled,
           OnCourse(w), AgreesWithOpening(w), Balanced(w)
    PROVE  OnCourse(w)' /\ InHand(w)' /\ AgreesWithOpening(w)' /\ Balanced(w)'
<1>1. /\ h[w].pc = "refund" /\ h'[w].pc = "return"
      /\ h'[w].req = h[w].req /\ h'[w].todo = h[w].todo
      /\ h'[w].row = [h[w].row EXCEPT !.paymentStatus = "REFUNDED"]
  BY RefundShape
<1>2. h[w].row \in SaleRow
  BY <1>1, AtWork
<1>3. h'[w].row.orderStatus = h[w].row.orderStatus /\ h'[w].row.lineItems = h[w].row.lineItems
  BY <1>1, <1>2 DEF SaleRow
<1>4. UNCHANGED <<batches, sales>> /\ h'[w].dirty = h[w].dirty /\ h'[w].view = h[w].view
  <2>1. h \in [Workers -> Handler] /\ h[w] \in Handler
    BY DEF TypeInv, Tables
  <2> QED BY <2>1 DEF Refund, Handler
<1>5. h[w].req.op \in Cancellations
  BY <1>1 DEF OnCourse
<1>6. OnCourse(w)'
  BY <1>1, <1>3, <1>5 DEF OnCourse, Cancellations, Cancels, ReturnLoop, DeductLoop
<1>7. InHand(w)'
  BY <1>1 DEF InHand
<1>8. ASSUME NEW b PROVE Promised(w, b)' = Promised(w, b)
  <2>1. Kept(w, b) = 0 /\ Kept(w, b)' = 0
    BY <1>1, <1>5 DEF Kept, Cancellations, Cancels
  <2> QED BY <1>1, <2>1 DEF Promised, ReturnLoop
<1>9. ~Saved(w) /\ ~Saved(w)'
  BY <1>1 DEF Saved
<1>10. AgreesWithOpening(w)' /\ Balanced(w)'
  BY <1>1, <1>3, <1>4, <1>8, <1>9, BalanceKept
<1> QED BY <1>6, <1>7, <1>10

(***************************************************************************)
(* The save of the sale, the mails and the commit.                         *)
(***************************************************************************)
LEMMA SaveKeeps ==
    ASSUME TypeInv, NEW w \in Workers,
           CompareSale(w) \/ WriteSale(w) \/ Notify(w) \/ Commit(w), h'[w].pc # "idle"
    PROVE  UNCHANGED batches /\ h'[w].dirty = h[w].dirty /\ h'[w].view = h[w].view
<1>1. h \in [Workers -> Handler] /\ h[w] \in Handler
  BY DEF TypeInv, Tables
<1>2. \A result : ~Answer(w, result)
  BY AnswerIs
<1>3. UNCHANGED batches
  BY <1>2 DEF CompareSale, WriteSale, Notify, Commit
<1>4. CASE CompareSale(w)
  <2> DEFINE diff == SaleDiff(w)
  <2>1. h' = [h EXCEPT ![w] = [h[w] EXCEPT !.pc = "saveWrite", !.diff = diff]]
    BY <1>2, <1>4 DEF CompareSale
  <2> HIDE DEF diff
  <2> QED BY <1>1, <1>3, <2>1 DEF Handler
<1>5. CASE WriteSale(w)
  <2>1. CASE h' = [h EXCEPT ![w] = [h[w] EXCEPT !.pc = "notify", !.dirtySale = h[w].diff # {}]]
    BY <1>1, <1>3, <2>1 DEF Handler
  <2>2. CASE h' = [h EXCEPT ![w].pc = "notify"]
    BY <1>1, <1>3, <2>2 DEF Handler
  <2> QED BY <1>2, <1>5, <2>1, <2>2 DEF WriteSale
<1>6. CASE Notify(w)
  <2>1. h' = [h EXCEPT ![w].pc = "commit"]
    BY <1>2, <1>6 DEF Notify
  <2> QED BY <1>1, <1>3, <2>1 DEF Handler
<1> QED BY <1>2, <1>4, <1>5, <1>6 DEF Commit

LEMMA LedgerSaves ==
    ASSUME TypeInv, SavesRow, NEW w \in Workers,
           CompareSale(w) \/ WriteSale(w) \/ Notify(w) \/ Commit(w), h'[w].pc # "idle",
           opening'[w] = opening[w], UNCHANGED settled,
           OnCourse(w), AgreesWithOpening(w), Balanced(w)
    PROVE  OnCourse(w)' /\ InHand(w)' /\ AgreesWithOpening(w)' /\ Balanced(w)'
<1>1. /\ h'[w].req = h[w].req /\ h'[w].row = h[w].row
      /\ h[w].pc \in {"save", "saveWrite", "notify", "commit"}
      /\ h'[w].pc \in {"saveWrite", "notify", "commit"}
      /\ h'[w].pc = "commit" => InTransaction(w)
      /\ \/ UNCHANGED sales /\ ~Saved(w) /\ ~Saved(w)'
         \/ /\ h[w].pc \in {"saveWrite", "commit"} /\ Saved(w)'
            /\ sales' = [sales EXCEPT ![h[w].req.sale] = SavedSale(w)]
  BY RestingIs, SaveShape DEF Failed, Saved, InTransaction
<1>2. UNCHANGED batches /\ h'[w].dirty = h[w].dirty /\ h'[w].view = h[w].view
  BY SaveKeeps
<1>3. OnCourse(w)'
  BY <1>1 DEF OnCourse, InTransaction, ReturnLoop, DeductLoop
<1>4. InHand(w)'
  BY <1>1 DEF InHand
<1>5. ASSUME NEW b PROVE Promised(w, b)' = Promised(w, b)
  BY <1>1 DEF Promised, ReturnLoop, DeductLoop
<1>6. CASE UNCHANGED sales /\ ~Saved(w) /\ ~Saved(w)'
  BY <1>1, <1>2, <1>3, <1>4, <1>5, <1>6, BalanceKept
<1>7. CASE /\ h[w].pc \in {"saveWrite", "commit"} /\ Saved(w)'
           /\ sales' = [sales EXCEPT ![h[w].req.sale] = SavedSale(w)]
  <2>1. SavedSale(w) = h[w].row
    BY <1>7 DEF SavesRow, Saving
  <2>2. ~Saved(w)
    BY <1>7 DEF Saved
  <2>3. AgreesWithOpening(w)'
    BY <1>1, <1>2, <1>7, <2>1, <2>2 DEF AgreesWithOpening, InTransaction
  <2>4. \A b : BatchSeenBy(w, b)' = BatchSeenBy(w, b)
    BY <1>2, SeenKept
  <2>5. Ordinary(w)' <=> Ordinary(w)
    BY <1>1, OrdinaryKept
  <2>6. Balanced(w)'
    BY <1>1, <1>5, <2>4, <2>5 DEF Balanced
  <2> QED BY <1>3, <1>4, <2>3, <2>6
<1> QED BY <1>1, <1>6, <1>7

\* Only a cancellation that answers with success settles its sale.
SettledKept == settled' = settled \cup {s \in Sales : Cancelled(s)}

\* A handler that answers with success has written its copy and shown its batches.
LEMMA SuccessShape ==
    ASSUME TypeInv, SavesRow, NEW w \in Workers, Arrive(w) \/ Step(w) \/ Abort(w),
           Finishes(w, "ok"), AgreesWithOpening(w)
    PROVE  /\ h[w].pc \in {"saveWrite", "notify", "commit"}
           /\ sales' = [opening[w].sales EXCEPT ![h[w].req.sale] = h[w].row]
           /\ \A b \in Batches : batches'[b] = BatchSeenBy(w, b)
<1>1. h[w].pc # "idle" /\ h'[w].pc = "idle" /\ h'[w].result = "ok"
  BY DEF Finishes
<1>2. h'[w] # Resting("failed")
  BY <1>1 DEF Resting
<1>3. CompareSale(w) \/ WriteSale(w) \/ Notify(w) \/ Commit(w)
  <2>1. ~Arrive(w)
    BY <1>1, ArriveShape DEF Arrive, CreateSale, AddLineItem, AssignBatches, UpdateSale,
       UpdateSaleStatus, ConfirmDelivery, CancelSaleByCustomer, CancelSaleByAdmin, CancelSale, Receive
  <2>2. ~InLoop(w)
    BY <1>1, <1>2, LoopShape DEF Turn, Failed, ReturnLoop, DeductLoop
  <2>3. ~EndLoop(w) /\ ~Refund(w)
    BY <1>1, EndLoopShape, RefundShape
  <2>4. ~(RefundFails(w) \/ DeadlockAbort(w) \/ Abort(w))
    BY <1>2, FailShape DEF Failed
  <2> QED BY <2>1, <2>2, <2>3, <2>4, StepCases
<1>4. batches \in [Batches -> BatchRow]
  BY DEF TypeInv, Tables
<1>5. ~CompareSale(w)
  <2>1. h \in [Workers -> Handler] /\ h[w] \in Handler
    BY DEF TypeInv, Tables
  <2>2. ~Answer(w, "failed")
    BY <1>2, AnswerIs
  <2> DEFINE diff == SaleDiff(w)
  <2>3. CASE h' = [h EXCEPT ![w] = [h[w] EXCEPT !.pc = "saveWrite", !.diff = diff]]
    <3> HIDE DEF diff
    <3>1. h'[w].pc = "saveWrite"
      BY <2>1, <2>3 DEF Handler
    <3> QED BY <1>1, <3>1
  <2> QED BY <2>2, <2>3 DEF CompareSale
<1>6. CASE WriteSale(w)
  <2>1. ~InTransaction(w)
    BY <1>1, <1>6 DEF WriteSale, TypeInv, Tables, Handler
  <2>2. h[w].pc = "saveWrite" /\ sales' = [sales EXCEPT ![h[w].req.sale] = SavedSale(w)]
        /\ UNCHANGED batches
    BY <1>6, <2>1 DEF WriteSale
  <2>3. SavedSale(w) = h[w].row /\ sales = opening[w].sales /\ h[w].dirty = {}
    BY <2>1, <2>2 DEF SavesRow, Saving, AgreesWithOpening, Saved
  <2> QED BY <2>2, <2>3 DEF BatchSeenBy
<1>7. CASE Notify(w)
  <2>1. ~InTransaction(w)
    BY <1>1, <1>7 DEF Notify, TypeInv, Tables, Handler
  <2>2. h[w].pc = "notify" /\ UNCHANGED <<batches, sales>>
    BY <1>7 DEF Notify
  <2>3. Saved(w) /\ h[w].dirty = {}
    BY <2>1, <2>2 DEF Saved, AgreesWithOpening
  <2> QED BY <2>2, <2>3 DEF BatchSeenBy, AgreesWithOpening
<1>8. CASE Commit(w)
  <2>1. /\ h[w].pc = "commit" /\ sales' = [sales EXCEPT ![h[w].req.sale] = SavedSale(w)]
        /\ batches' = [b \in Batches |-> BatchSeenBy(w, b)]
    BY <1>8 DEF Commit
  <2>2. SavedSale(w) = h[w].row /\ sales = opening[w].sales
    BY <2>1 DEF SavesRow, Saving, AgreesWithOpening, Saved
  <2> QED BY <2>1, <2>2
<1> QED BY <1>3, <1>5, <1>6, <1>7, <1>8

LEMMA SaveBalances ==
    ASSUME IsFiniteSet(Sales), TypeInv, SavesRow, NEW w \in Workers,
           Arrive(w) \/ Step(w) \/ Abort(w), Finishes(w, "ok"), Ordinary(w),
           SettledKept, \A v \in Workers : v = w, AgreesWithOpening(w), Balanced(w)
    PROVE  Balances(w)
<1> DEFINE s == h[w].req.sale
           row == h[w].row
           old == opening[w]
           new == Book'
           isCancel == h[w].req.op \in Cancellations
<1>1. h[w].pc \in {"saveWrite", "notify", "commit"} /\ sales' = [old.sales EXCEPT ![s] = row]
      /\ \A b \in Batches : batches'[b] = BatchSeenBy(w, b)
  BY SuccessShape
<1>2. s \in Sales /\ row \in SaleRow
  BY <1>1, AtWork
<1>3. old.sales \in [Sales -> SaleRow \cup {NoSale}] /\ old.batches \in [Batches -> BatchRow]
      /\ settled = old.settled
  BY DEF AgreesWithOpening
<1>4. new.batches = batches' /\ new.sales = sales' /\ new.settled = settled'
  BY DEF Book
<1>5. /\ s \notin old.settled
      /\ s \in new.settled <=> isCancel
      /\ \A t \in Sales \ {s} : t \in new.settled <=> t \in old.settled
  <2>1. s \notin old.settled
    BY DEF Ordinary
  <2>2. \A t : Cancelled(t) <=> isCancel /\ t = s
    BY DEF Cancelled
  <2>3. new.settled = old.settled \cup {t \in Sales : Cancelled(t)}
    BY <1>3, <1>4 DEF SettledKept
  <2> HIDE DEF new, old, s, isCancel
  <2> QED BY <1>2, <2>1, <2>2, <2>3
<1> HIDE DEF new
<1>6. ASSUME NEW b \in Batches
      PROVE  Ledger(new, b) = Ledger(old, b)
  <2> DEFINE left == IF isCancel THEN 0 ELSE HeldBy(row, b)
             held == HeldBy(old.sales[s], b)
             seen == BatchSeenBy(w, b).quantity
             was == old.batches[b].quantity
  <2>1. seen + left = was + held
    <3>1. Promised(w, b) = left
      BY <1>1 DEF Promised, ReturnLoop, DeductLoop
    <3> QED BY <3>1 DEF Balanced
  <2>2. new.sales \in [Sales -> SaleRow \cup {NoSale}]
        /\ new.sales[s] = row /\ \A t \in Sales \ {s} : new.sales[t] = old.sales[t]
    <3> HIDE DEF old, s, row
    <3> QED BY <1>1, <1>2, <1>3, <1>4
  <2>3. /\ Outstanding(old, s, b) = held
        /\ Outstanding(new, s, b) = left
        /\ \A t \in Sales \ {s} : Outstanding(new, t, b) = Outstanding(old, t, b)
    <3> HIDE DEF old, s, row, isCancel
    <3> QED BY <1>5, <2>2 DEF Outstanding
  <2>4. Booked(old, b) \in Int /\ Booked(new, b) = Booked(old, b) - held + left
    <3> HIDE DEF old, s, held, left
    <3> QED BY <1>2, <1>3, <2>2, <2>3, BookedChanges
  <2>5. Ledger(new, b) = seen + Booked(new, b) /\ Ledger(old, b) = was + Booked(old, b)
    BY <1>1, <1>4 DEF Ledger, Booked
  <2>6. seen \in Int /\ was \in Int /\ left \in Int /\ held \in Int
    BY <1>2, <1>3, SeenInt, HeldByInt DEF BatchRow
  <2> HIDE DEF seen, was, left, held
  <2> QED BY <2>1, <2>4, <2>5, <2>6
<1> QED BY <1>6 DEF Balances, new

LEMMA LedgerInvStep ==
    ASSUME OneAtATime, IsFiniteSet(Sales),
           TypeInv, TypeInv', SavesRow, LedgerInv, NEW w \in Workers,
           Arrive(w) \/ Step(w) \/ Abort(w), OpeningKept, SettledKept
    PROVE  /\ LedgerInv'
           /\ Finishes(w, "ok") /\ Ordinary(w) => Balances(w)
<1>1. \A v \in Workers : v = w
  BY DEF OneAtATime
<1>2. opening'[w] = IF Starts(w) THEN Book ELSE opening[w]
  BY DEF OpeningKept
<1>3. ASSUME Finishes(w, "ok"), Ordinary(w) PROVE Balances(w)
  <2>1. AgreesWithOpening(w) /\ Balanced(w)
    BY <1>3 DEF LedgerInv, Finishes
  <2> QED BY <1>1, <1>3, <2>1, SaveBalances
<1>4. SUFFICES ASSUME h'[w].pc # "idle"
               PROVE  OnCourse(w)' /\ InHand(w)' /\ AgreesWithOpening(w)' /\ Balanced(w)'
  BY <1>1, <1>3 DEF LedgerInv
<1>0. UNCHANGED settled
  <2>1. \A s : ~Cancelled(s)
    BY <1>1, <1>4 DEF Cancelled, Finishes
  <2> QED BY <2>1 DEF SettledKept
<1>5. CASE Arrive(w)
  <2>1. h[w].pc = "idle" /\ h'[w] # Resting("refused")
    BY <1>4, <1>5, RestingIs DEF Arrive, CreateSale, AddLineItem, AssignBatches, UpdateSale,
       UpdateSaleStatus, ConfirmDelivery, CancelSaleByCustomer, CancelSaleByAdmin, CancelSale, Receive
  <2>2. requests' = requests + 1 /\ requests \in Nat
    BY <1>5 DEF Arrive, CreateSale, AddLineItem, AssignBatches, UpdateSale, UpdateSaleStatus,
       ConfirmDelivery, CancelSaleByCustomer, CancelSaleByAdmin, CancelSale, Receive, TypeInv, Tables
  <2>3. opening'[w] = Book
    BY <1>2, <1>4, <2>1, <2>2 DEF Starts
  <2> QED BY <1>0, <1>5, <2>1, <2>3, LedgerArrives
<1>6. CASE Step(w) \/ Abort(w)
  <2>1. opening'[w] = opening[w] /\ h[w].pc # "idle"
    BY <1>2, <1>6, WorkShape DEF Starts
  <2>2. OnCourse(w) /\ InHand(w) /\ AgreesWithOpening(w) /\ Balanced(w)
    BY <2>1 DEF LedgerInv
  <2>3. CASE InLoop(w)
    <3>1. Turn(w)
      BY <1>4, <2>3, LoopShape, RestingIs DEF Failed
    <3> QED BY <1>0, <2>1, <2>2, <2>3, <3>1, LedgerLoops
  <2>4. CASE EndLoop(w)
    BY <1>0, <2>1, <2>2, <2>4, LedgerEndLoops
  <2>5. CASE Refund(w)
    BY <1>0, <2>1, <2>2, <2>5, LedgerRefunds
  <2>6. CASE CompareSale(w) \/ WriteSale(w) \/ Notify(w) \/ Commit(w)
    BY <1>0, <1>4, <2>1, <2>2, <2>6, LedgerSaves
  <2>7. ~(RefundFails(w) \/ DeadlockAbort(w) \/ Abort(w))
    BY <1>4, FailShape, RestingIs DEF Failed
  <2> QED BY <1>5, <1>6, <2>3, <2>4, <2>5, <2>6, <2>7, StepCases
<1> QED BY <1>5, <1>6

\* With one handler at a time every success keeps the ledger, whatever statuses clients type
\* in: a handler that answers well takes off the shelves what it writes on the sale and puts
\* back what it strikes from it, and a cancellation puts back all.  The handlers that only
\* record allocations, and those that find the sale settled already, are outside the rule.
THEOREM SuccessBalancesSerially ==
    ASSUME OneAtATime, IsFiniteSet(Sales)
    PROVE  LedgerSpec => SuccessBalances
<1> DEFINE Inv == TypeInv /\ SavesRow /\ LedgerInv
           A == \A w \in Workers :
                   (/\ Finishes(w, "ok")
                    /\ ~RecordsOnly(w)
                    /\ h[w].req.sale \notin opening[w].settled)
                       => Balances(w)
<1>1. LedgerInit => Inv
  <2> SUFFICES ASSUME LedgerInit PROVE SavesRow /\ LedgerInv
    BY InitTypeInv DEF LedgerInit
  <2>1. \A w \in Workers : h[w].pc = "idle"
    BY RestingIs DEF LedgerInit, Init
  <2> QED BY <2>1 DEF SavesRow, Saving, LedgerInv
<1>2. Inv /\ [LedgerNext]_ledgerVars => Inv' /\ [A]_ledgerVars
  <2> SUFFICES ASSUME Inv, [LedgerNext]_ledgerVars
               PROVE  Inv' /\ (A \/ UNCHANGED ledgerVars)
    OBVIOUS
  <2>1. CASE UNCHANGED ledgerVars
    <3>1. /\ h' = h /\ batches' = batches /\ sales' = sales
          /\ opening' = opening /\ settled' = settled
      BY <2>1 DEF ledgerVars, vars
    <3>2. TypeInv'
      BY <2>1, NextTypeInv DEF ledgerVars
    <3>3. SavesRow'
      BY <3>1 DEF SavesRow, Saving, InTransaction, SavedSale
    <3>4. ASSUME NEW w \in Workers, h'[w].pc # "idle"
          PROVE  OnCourse(w)' /\ InHand(w)' /\ AgreesWithOpening(w)' /\ Balanced(w)'
      <4>1. OnCourse(w) /\ InHand(w) /\ AgreesWithOpening(w) /\ Balanced(w)
        BY <3>1, <3>4 DEF LedgerInv
      <4>2. \A b : BatchSeenBy(w, b)' = BatchSeenBy(w, b) /\ Promised(w, b)' = Promised(w, b)
        BY <3>1 DEF BatchSeenBy, Promised, Kept, Replaced
      <4>3. (Ordinary(w)' <=> Ordinary(w)) /\ (Saved(w)' <=> Saved(w)) /\ Alloc(w)' = Alloc(w)
        BY <3>1 DEF Ordinary, RecordsOnly, ArrivesAllocated, Saved, InTransaction, Alloc
      <4>4. OnCourse(w)' /\ InHand(w)'
        BY <3>1, <4>1, <4>2, <4>3 DEF OnCourse, InHand
      <4>5. AgreesWithOpening(w)'
        BY <3>1, <4>1, <4>3 DEF AgreesWithOpening, InTransaction
      <4>6. Balanced(w)'
        BY <3>1, <4>1, <4>2, <4>3 DEF Balanced
      <4> QED BY <4>4, <4>5, <4>6
    <3> QED BY <2>1, <3>2, <3>3, <3>4 DEF LedgerInv
  <2>2. CASE LedgerNext
    <3>1. TypeInv'
      BY <2>2, NextTypeInv DEF LedgerNext
    <3>2. PICK w \in Workers : Arrive(w) \/ Step(w) \/ Abort(w)
      BY <2>2 DEF LedgerNext, Next
    <3>3. OpeningKept /\ SettledKept /\ \A v \in Workers : v = w
      BY <2>2 DEF LedgerNext, OpeningKept, SettledKept, OneAtATime
    <3>4. SavesRow'
      BY <3>2, SavesRowStep
    <3>5. LedgerInv' /\ (Finishes(w, "ok") /\ Ordinary(w) => Balances(w))
      BY <3>1, <3>2, <3>3, LedgerInvStep
    <3>6. A
      BY <3>3, <3>5 DEF Ordinary
    <3> QED BY <3>1, <3>4, <3>5, <3>6
  <2> QED BY <2>1, <2>2
<1>3. SuccessBalances <=> [][A]_ledgerVars
  BY DEF SuccessBalances
<1> HIDE DEF A
<1> QED BY <1>1, <1>2, <1>3, PTL DEF LedgerSpec
=============================================================================
