----------------------------- MODULE CartsProofs -----------------------------
(***************************************************************************)
(* Proofs about the carts, for every number of shoppers, products, rows,   *)
(* orders, workers and requests.                                           *)
(***************************************************************************)
EXTENDS Carts, FiniteSetTheorems, TLAPS, Sums

Rows == [CartIds -> Row \cup {NoRow}]

OrderLine == [cart : CartIds, product : Products, quantity : Nat \ {0}]

(***************************************************************************)
(* What a handler holds.                                                   *)
(***************************************************************************)
Handler ==
    [pc : PC,
     req : Request \cup {[op |-> "none"]},
     todo : Seq(Item),
     copies : Rows,
     id : CartIds \cup {NoRow}, row : Row \cup {NoRow},
     diff : SUBSET (Columns \cup {"id"}),
     item : CartIds \cup {NoRow},
     known : BOOLEAN,
     email : Emails \cup {NoEmail},
     order : Orders \cup {NoOne},
     links : [CartIds -> SUBSET (Columns \cup {"id"})],
     view : Rows]

Typed ==
    /\ carts \in Rows
    /\ orders \in [Orders -> SUBSET OrderLine]
    /\ customers \subseteq Emails
    /\ h \in [Workers -> Handler]

Saving(x) == x.pc \in {"compare", "write"}

\* No copy carries an order, a save that is no INSERT does not write one, and
\* what a checkout wrote is linked to its order.
Shape(x) ==
    /\ x.pc # "idle" => x.req \in Requests
    /\ x.pc = "sync" => x.req.op = "syncGuestCartWithUser"
    /\ Saving(x) => x.id \in CartIds /\ x.row \in Row /\ x.row.order = NoOne
    /\ Saving(x) /\ x.req.op \notin {"addQuantity", "syncGuestCartWithUser"} => x.todo # <<>>
    /\ x.pc = "write" /\ "order" \in x.diff => "id" \in x.diff
    /\ x.pc \in {"link", "linkWrite"} => x.order # NoOne
    /\ \A c \in CartIds :
          /\ x.copies[c] # NoRow => x.copies[c].order = NoOne
          /\ x.pc # "linkWrite" => x.links[c] = {} /\ x.view[c] = NoRow
          /\ x.links[c] # {} => x.copies[c] # NoRow /\ "order" \in x.links[c]
          /\ x.view[c] # NoRow => /\ x.copies[c] # NoRow
                                  /\ x.order # NoOne /\ x.view[c].order = x.order

\* A cart row is of one product for ever: p says of which, once the row was known.
ProductOf == [CartIds -> Products \cup {NoRow}]

RowsOf(rows, p) == \A c \in CartIds : rows[c] # NoRow => rows[c].product = p[c]

HandlerOf(x, p) ==
    /\ RowsOf(x.copies, p) /\ RowsOf(x.view, p)
    /\ Saving(x) => x.row.product = p[x.id]

Follows(p) == RowsOf(carts, p) /\ \A w \in Workers : HandlerOf(h[w], p)

Shaped == \A w \in Workers : Shape(h[w])

OneProductEach == \E p \in ProductOf : Follows(p)

\* The order a checkout is making lists nothing yet, and is its own.
OrdersApart ==
    /\ \A w \in Workers : h[w].order # NoOne => orders[h[w].order] = {}
    /\ \A v, w \in Workers : v # w /\ h[v].order = h[w].order => h[v].order = NoOne

IInv == Typed /\ Shaped /\ OneProductEach /\ OrdersApart /\ LinkedRowsOrdered

(***************************************************************************)
(* One handler at a time.                                                  *)
(***************************************************************************)
OneAtATime == \A v, w \in Workers : v = w

\* The row is of the shopper's open cart and holds the product.
OpenRow(rows, c, s, product) ==
    /\ rows[c] # NoRow /\ Owned(rows[c], s)
    /\ rows[c].order = NoOne /\ rows[c].product = product

Apart(rows) ==
    \A s \in Shoppers, product \in Products, c, d \in CartIds :
        OpenRow(rows, c, s, product) /\ OpenRow(rows, d, s, product) => c = d

\* A shopper starts with a product in one row.
OneRowAtFirst == \A rows \in InitialCarts : Apart(rows)

ListedIn(c) == \E o \in Orders : \E item \in orders[o] : item.cart = c

\* A row that was bought is gone, or linked.
BoughtIsClosed ==
    \A c \in CartIds : ListedIn(c) => carts[c] = NoRow \/ carts[c].order # NoOne

\* The owner of the row in hand has the product in no other open row, a row that is
\* inserted was never bought, and the columns that differ are known; the rows
\* read at the start are as open as they were, and linked one by one.
Exact(x) ==
    /\ Saving(x) /\ (carts[x.id] = NoRow \/ carts[x.id].order = NoOne) =>
          \A s \in Shoppers, d \in CartIds :
              Owned(x.row, s) /\ OpenRow(carts, d, s, x.row.product) => d = x.id
    /\ Saving(x) => carts[x.id] # NoRow \/ ~ListedIn(x.id)
    /\ x.pc = "write" /\ carts[x.id] # NoRow =>
          /\ "user" \in x.diff \/ x.row.user = carts[x.id].user
          /\ "session" \in x.diff \/ x.row.session = carts[x.id].session
    /\ \A c \in CartIds : x.copies[c] # NoRow =>
          /\ carts[c] # NoRow /\ carts[c].order = NoOne
          /\ x.pc = "linkWrite" => x.links[c] # {} \/ x.view[c] # NoRow

SInv == Apart(carts) /\ BoughtIsClosed /\ OrderedOnce /\ \A w \in Workers : Exact(h[w])

-----------------------------------------------------------------------------
(* Rows, requests, and what a handler starts with.                         *)

LEMMA Inputs ==
    /\ Requests \subseteq Request
    /\ NoRow \notin Row /\ NoOne \notin Shoppers /\ NoOne \notin Orders
    /\ NoEmail \notin Emails
  BY RequestsAssumption, InitialAssumption

LEMMA RequestIs ==
    ASSUME NEW r \in Requests
    PROVE  /\ r \in Request /\ r.shopper \in Shoppers /\ r.items \in Seq(Item)
           /\ r.cart \in CartIds /\ r.quantity \in Nat \ {0} /\ r.email \in Emails
           /\ r.session \in Sessions
           /\ r.op = "syncGuestCartWithUser" => r.shopper \in Users
<1>1. r \in Request
  BY Inputs
<1> QED BY <1>1, RequestsAssumption DEF Request

LEMMA RestingIs ==
    /\ Resting \in Handler /\ Resting.pc = "idle" /\ Resting.order = NoOne
    /\ \A c \in CartIds : /\ Resting.copies[c] = NoRow /\ Resting.view[c] = NoRow
                          /\ Resting.links[c] = {}
<1>1. <<>> \in Seq(Item)
  OBVIOUS
<1> QED BY <1>1 DEF Resting, Handler, PC, Rows

LEMMA RestingFits ==
    ASSUME NEW p
    PROVE  Shape(Resting) /\ HandlerOf(Resting, p)
  BY RestingIs DEF Shape, HandlerOf, RowsOf, Saving

LEMMA StartIs ==
    ASSUME NEW r \in Requests, NEW pc \in PC
    PROVE  /\ Start(r, pc) \in Handler /\ Start(r, pc).pc = pc /\ Start(r, pc).req = r
           /\ Start(r, pc).order = NoOne
           /\ \A c \in CartIds : /\ Start(r, pc).copies[c] = NoRow
                                 /\ Start(r, pc).view[c] = NoRow
                                 /\ Start(r, pc).links[c] = {}
<1>1. r \in Request
  BY RequestIs
<1> QED BY <1>1, RestingIs DEF Start, Handler

LEMMA LoadedIs ==
    ASSUME Typed, NEW c \in CartIds, carts[c] # NoRow
    PROVE  /\ carts[c] \in Row /\ Loaded(c) \in Row
           /\ Loaded(c).order = NoOne /\ Loaded(c).product = carts[c].product
           /\ Loaded(c).user = carts[c].user /\ Loaded(c).session = carts[c].session
           /\ Loaded(c).quantity = carts[c].quantity
  BY DEF Typed, Rows, Row, Loaded

LEMMA CopiesAre ==
    ASSUME Typed, NEW ids \in SUBSET CartIds, \A c \in ids : carts[c] # NoRow
    PROVE  /\ CopiesOf(ids) \in Rows
           /\ \A c \in CartIds : CopiesOf(ids)[c] # NoRow =>
                  /\ c \in ids /\ CopiesOf(ids)[c].order = NoOne
                  /\ CopiesOf(ids)[c].product = carts[c].product
<1>1. \A c \in CartIds : CopiesOf(ids)[c] = IF c \in ids THEN Loaded(c) ELSE NoRow
  BY DEF CopiesOf
<1>2. \A c \in ids : Loaded(c) \in Row
  BY LoadedIs
<1>3. CopiesOf(ids) \in Rows
  BY <1>2 DEF CopiesOf, Rows
<1> QED BY <1>1, <1>3, LoadedIs

LEMMA GrownIs ==
    ASSUME Typed, NEW c \in CartIds, carts[c] # NoRow, NEW n \in Nat
    PROVE  /\ Grown(c, n) \in Row /\ Grown(c, n).order = NoOne
           /\ Grown(c, n).product = carts[c].product
           /\ Grown(c, n).user = carts[c].user /\ Grown(c, n).session = carts[c].session
<1>1. carts[c].quantity \in Nat \ {0}
  BY LoadedIs DEF Row
<1>2. carts[c].quantity + n \in Nat \ {0}
  BY <1>1
<1> QED BY <1>2, LoadedIs DEF Grown, Row

\* A row that is saved keeps its product; only a save that says so changes its order.
LEMMA SavedIs ==
    ASSUME NEW rows \in Rows, NEW c \in CartIds, NEW entity \in Row,
           NEW diff \in SUBSET (Columns \cup {"id"}), carts = rows
    PROVE  /\ Saved(c, entity, diff) \in Row \cup {NoRow}
           /\ "id" \in diff => Saved(c, entity, diff) = entity
           /\ "id" \notin diff /\ carts[c] = NoRow => Saved(c, entity, diff) = NoRow
           /\ "id" \notin diff /\ carts[c] # NoRow =>
                 /\ Saved(c, entity, diff) \in Row
                 /\ Saved(c, entity, diff).product = carts[c].product
                 /\ Saved(c, entity, diff).user =
                        IF "user" \in diff THEN entity.user ELSE carts[c].user
                 /\ Saved(c, entity, diff).session =
                        IF "session" \in diff THEN entity.session ELSE carts[c].session
                 /\ Saved(c, entity, diff).order =
                        IF "order" \in diff THEN entity.order ELSE carts[c].order
<1>1. CASE "id" \in diff
  BY <1>1 DEF Saved
<1>2. CASE "id" \notin diff /\ carts[c] = NoRow
  BY <1>2 DEF Saved
<1>3. CASE "id" \notin diff /\ carts[c] # NoRow
  <2>1. carts[c] \in Row
    BY <1>3 DEF Rows
  <2>2. Saved(c, entity, diff) = Updated(carts[c], entity, diff)
    BY <1>3 DEF Saved
  <2>3. /\ Updated(carts[c], entity, diff).product = carts[c].product
        /\ Updated(carts[c], entity, diff).user = Set("user", diff, entity, carts[c])
        /\ Updated(carts[c], entity, diff).session = Set("session", diff, entity, carts[c])
        /\ Updated(carts[c], entity, diff).order = Set("order", diff, entity, carts[c])
    BY DEF Updated
  <2>4. /\ Set("user", diff, entity, carts[c]) = IF "user" \in diff THEN entity.user ELSE carts[c].user
        /\ Set("session", diff, entity, carts[c]) =
              IF "session" \in diff THEN entity.session ELSE carts[c].session
        /\ Set("quantity", diff, entity, carts[c]) =
              IF "quantity" \in diff THEN entity.quantity ELSE carts[c].quantity
        /\ Set("order", diff, entity, carts[c]) =
              IF "order" \in diff THEN entity.order ELSE carts[c].order
    BY DEF Set
  <2>5. Updated(carts[c], entity, diff) \in Row
    BY <2>1, <2>4 DEF Updated, Row
  <2> QED BY <1>3, <2>2, <2>3, <2>4, <2>5
<1> QED BY <1>1, <1>2, <1>3

\* What worker w holds after a step, where p says of which product each row is.
Steps(w, x, p) ==
    /\ x \in Handler /\ Shape(x) /\ HandlerOf(x, p)
    /\ h' = [h EXCEPT ![w] = x]
    /\ x.order # NoOne => \/ x.order = h[w].order
                          \/ orders[x.order] = {} /\ \A v \in Workers : h[v].order # x.order

LEMMA AnswerSteps ==
    ASSUME NEW w \in Workers, NEW p, Answer(w)
    PROVE  Steps(w, Resting, p)
  BY RestingIs, RestingFits DEF Steps, Answer

LEMMA HandlerIs ==
    ASSUME IInv, NEW w \in Workers, NEW p, Follows(p)
    PROVE  h[w] \in Handler /\ Shape(h[w]) /\ HandlerOf(h[w], p)
  BY DEF IInv, Typed, Shaped, Follows

-----------------------------------------------------------------------------
(* Requests arrive.                                                        *)

LEMMA OwnedRows ==
    ASSUME NEW s
    PROVE  /\ OwnedBy(s) \subseteq CartIds /\ \A c \in OwnedBy(s) : carts[c] # NoRow
           /\ Open(s) \subseteq CartIds /\ \A c \in Open(s) : carts[c] # NoRow
  BY DEF OwnedBy, Open

LEMMA AddToCartSteps ==
    ASSUME IInv, NEW w \in Workers, NEW r \in Requests, NEW p, AddToCart(w, r)
    PROVE  \E x : Steps(w, x, p)
<1> DEFINE x == [Start(r, "find") EXCEPT !.todo = r.items]
<1>1. /\ Start(r, "find") \in Handler /\ Start(r, "find").pc = "find"
      /\ Start(r, "find").req = r /\ Start(r, "find").order = NoOne
      /\ \A c \in CartIds : /\ Start(r, "find").copies[c] = NoRow
                            /\ Start(r, "find").view[c] = NoRow
                            /\ Start(r, "find").links[c] = {}
  BY StartIs DEF PC
<1>2. /\ x \in Handler /\ x.pc = "find" /\ x.req = r /\ x.order = NoOne
      /\ \A c \in CartIds : x.copies[c] = NoRow /\ x.view[c] = NoRow /\ x.links[c] = {}
  BY <1>1, RequestIs DEF Handler
<1>3. h' = [h EXCEPT ![w] = x]
  BY DEF AddToCart
<1> HIDE DEF x
<1>4. Shape(x) /\ HandlerOf(x, p)
  BY <1>2 DEF Shape, HandlerOf, RowsOf, Saving
<1> QED BY <1>2, <1>3, <1>4 DEF Steps

LEMMA AddQuantitySteps ==
    ASSUME IInv, NEW w \in Workers, NEW r \in Requests, NEW p, Follows(p), AddQuantity(w, r)
    PROVE  \E x : Steps(w, x, p)
<1>1. CASE Answer(w)
  BY <1>1, AnswerSteps
<1>2. CASE r.cart \in OwnedBy(r.shopper)
  <2> DEFINE row == [Loaded(r.cart) EXCEPT !.quantity = r.quantity]
             x == [Start(r, "compare") EXCEPT !.id = r.cart, !.row = row]
  <2>1. r.cart \in CartIds /\ carts[r.cart] # NoRow /\ r.quantity \in Nat \ {0}
    BY <1>2, RequestIs, OwnedRows
  <2>2. /\ Loaded(r.cart) \in Row /\ Loaded(r.cart).order = NoOne
        /\ Loaded(r.cart).product = p[r.cart]
    BY <2>1, LoadedIs DEF IInv, Follows, RowsOf
  <2>3. row \in Row /\ row.order = NoOne /\ row.product = p[r.cart]
    BY <2>1, <2>2 DEF Row
  <2> HIDE DEF row
  <2>4. /\ Start(r, "compare") \in Handler /\ Start(r, "compare").pc = "compare"
        /\ Start(r, "compare").req = r /\ Start(r, "compare").order = NoOne
        /\ \A c \in CartIds : /\ Start(r, "compare").copies[c] = NoRow
                              /\ Start(r, "compare").view[c] = NoRow
                              /\ Start(r, "compare").links[c] = {}
    BY StartIs DEF PC
  <2>5. /\ x \in Handler /\ x.pc = "compare" /\ x.req = r /\ x.order = NoOne
        /\ x.id = r.cart /\ x.row = row
        /\ \A c \in CartIds : x.copies[c] = NoRow /\ x.view[c] = NoRow /\ x.links[c] = {}
    BY <2>1, <2>3, <2>4 DEF Handler
  <2>6. h' = [h EXCEPT ![w] = x]
    BY <1>2 DEF AddQuantity, row
  <2>7. r.op = "addQuantity"
    BY DEF AddQuantity
  <2> HIDE DEF x
  <2>8. Shape(x)
    BY <2>1, <2>3, <2>5, <2>7 DEF Shape, Saving
  <2>9. HandlerOf(x, p)
    BY <2>3, <2>5 DEF HandlerOf, RowsOf, Saving
  <2> QED BY <2>5, <2>6, <2>8, <2>9 DEF Steps
<1> QED BY <1>1, <1>2 DEF AddQuantity

LEMMA RemoveSteps ==
    ASSUME IInv, NEW w \in Workers, NEW r \in Requests, NEW p,
           RemoveFromCart(w, r) \/ RemoveAllFromGuestCart(w, r)
    PROVE  \E x : Steps(w, x, p)
<1>1. CASE Answer(w)
  BY <1>1, AnswerSteps
<1>2. CASE h' = [h EXCEPT ![w] = Start(r, "delete")]
  <2> DEFINE x == Start(r, "delete")
  <2>1. /\ x \in Handler /\ x.pc = "delete" /\ x.req = r /\ x.order = NoOne
        /\ \A c \in CartIds : x.copies[c] = NoRow /\ x.view[c] = NoRow /\ x.links[c] = {}
    BY StartIs DEF PC
  <2>2. h' = [h EXCEPT ![w] = x]
    BY <1>2
  <2> HIDE DEF x
  <2>3. Shape(x) /\ HandlerOf(x, p)
    BY <2>1 DEF Shape, HandlerOf, RowsOf, Saving
  <2> QED BY <2>1, <2>2, <2>3 DEF Steps
<1> QED BY <1>1, <1>2 DEF RemoveFromCart, RemoveAllFromGuestCart

\* The rows a merge or a checkout reads at its start.
LEMMA CopyingSteps ==
    ASSUME IInv, NEW w \in Workers, NEW r \in Requests, NEW p, Follows(p),
           NEW pc \in {"sync", "customer"}, NEW ids \in SUBSET CartIds,
           \A c \in ids : carts[c] # NoRow, pc = "sync" => r.op = "syncGuestCartWithUser",
           h' = [h EXCEPT ![w] = [Start(r, pc) EXCEPT !.copies = CopiesOf(ids)]]
    PROVE  \E x : Steps(w, x, p)
<1> DEFINE x == [Start(r, pc) EXCEPT !.copies = CopiesOf(ids)]
<1>1. CopiesOf(ids) \in Rows
  BY CopiesAre DEF IInv
<1>2. /\ Start(r, pc) \in Handler /\ Start(r, pc).pc = pc /\ Start(r, pc).req = r
      /\ Start(r, pc).order = NoOne
      /\ \A c \in CartIds : /\ Start(r, pc).view[c] = NoRow /\ Start(r, pc).links[c] = {}
  BY StartIs DEF PC
<1>3. /\ x \in Handler /\ x.pc = pc /\ x.req = r /\ x.order = NoOne /\ x.copies = CopiesOf(ids)
      /\ \A c \in CartIds : x.view[c] = NoRow /\ x.links[c] = {}
  BY <1>1, <1>2 DEF Handler
<1>4. h' = [h EXCEPT ![w] = x]
  OBVIOUS
<1> HIDE DEF x
<1>5. \A c \in CartIds : x.copies[c] # NoRow =>
          c \in ids /\ x.copies[c].order = NoOne /\ x.copies[c].product = p[c]
  BY <1>3, CopiesAre DEF IInv, Follows, RowsOf
<1>6. Shape(x) /\ HandlerOf(x, p)
  BY <1>3, <1>5 DEF Shape, HandlerOf, RowsOf, Saving
<1> QED BY <1>3, <1>4, <1>6 DEF Steps

LEMMA ArriveSteps ==
    ASSUME IInv, NEW w \in Workers, NEW p, Follows(p), Arrive(w)
    PROVE  (\E x : Steps(w, x, p)) /\ UNCHANGED <<carts, orders, customers>>
<1>1. PICK r \in Requests :
        \/ AddToCart(w, r) \/ AddQuantity(w, r)
        \/ RemoveFromCart(w, r) \/ RemoveAllFromGuestCart(w, r)
        \/ SyncGuestCartWithUser(w, r) \/ Checkout(w, r)
  BY DEF Arrive
<1>2. UNCHANGED <<carts, orders, customers>>
  BY <1>1 DEF AddToCart, AddQuantity, RemoveFromCart, RemoveAllFromGuestCart,
              SyncGuestCartWithUser, Checkout, Receive
<1>3. CASE SyncGuestCartWithUser(w, r)
  <2>1. CASE Answer(w)
    BY <1>2, <2>1, AnswerSteps
  <2>2. CASE h' = [h EXCEPT ![w] = [Start(r, "sync") EXCEPT !.copies = CopiesOf(Open(r.session))]]
    BY <1>2, <1>3, <2>2, CopyingSteps, OwnedRows DEF SyncGuestCartWithUser
  <2> QED BY <1>3, <2>1, <2>2 DEF SyncGuestCartWithUser
<1>4. CASE Checkout(w, r)
  <2>1. CASE Answer(w)
    BY <1>2, <2>1, AnswerSteps
  <2>2. CASE h' = [h EXCEPT ![w] = [Start(r, "customer") EXCEPT !.copies = CopiesOf(Open(r.shopper))]]
    BY <1>2, <2>2, CopyingSteps, OwnedRows
  <2> QED BY <1>4, <2>1, <2>2 DEF Checkout, CartsForCheckout
<1> QED BY <1>1, <1>2, <1>3, <1>4, AddToCartSteps, AddQuantitySteps, RemoveSteps

-----------------------------------------------------------------------------
(* Adding items, and saving a row.                                         *)

LEMMA AskedIs ==
    ASSUME NEW item \in Item
    PROVE  Asked(item) \in Nat \ {0} /\ item.product \in Products
  BY DEF Asked, Item

LEMMA NewRowIs ==
    ASSUME NEW s \in Shoppers, NEW item \in Item
    PROVE  /\ NewRow(s, item) \in Row /\ NewRow(s, item).order = NoOne
           /\ NewRow(s, item).product = item.product
           /\ NewRow(s, item).user = IF s \in Users THEN s ELSE NoOne
           /\ NewRow(s, item).session = IF s \in Sessions THEN s ELSE NoOne
  BY AskedIs DEF NewRow, Row

\* A handler that takes a row to be saved.
LEMMA ToSaveIs ==
    ASSUME NEW w \in Workers, h[w] \in Handler,
           NEW c \in CartIds, NEW row \in Row, NEW i \in CartIds \cup {NoRow}
    PROVE  LET x == [ToSave(w, c, row) EXCEPT !.item = i]
           IN  /\ x \in Handler /\ x.pc = "compare" /\ x.id = c /\ x.row = row
               /\ x.req = h[w].req /\ x.todo = h[w].todo /\ x.copies = h[w].copies
               /\ x.order = h[w].order /\ x.links = h[w].links /\ x.view = h[w].view
               /\ x.item = i
  BY DEF ToSave, Handler, PC

LEMMA ToSaveSteps ==
    ASSUME IInv, NEW w \in Workers, NEW p, Follows(p),
           h[w].pc \in {"find", "sync"},
           h[w].req.op # "syncGuestCartWithUser" => h[w].todo # <<>>,
           NEW c \in CartIds, NEW row \in Row, row.order = NoOne, row.product = p[c],
           NEW i \in CartIds \cup {NoRow},
           h' = [h EXCEPT ![w] = [ToSave(w, c, row) EXCEPT !.item = i]]
    PROVE  \E x : Steps(w, x, p)
<1> DEFINE x == [ToSave(w, c, row) EXCEPT !.item = i]
<1>1. h[w] \in Handler /\ Shape(h[w]) /\ HandlerOf(h[w], p)
  BY HandlerIs
<1>2. /\ x \in Handler /\ x.pc = "compare" /\ x.id = c /\ x.row = row
      /\ x.req = h[w].req /\ x.todo = h[w].todo /\ x.copies = h[w].copies
      /\ x.order = h[w].order /\ x.links = h[w].links /\ x.view = h[w].view
  BY <1>1, ToSaveIs
<1>3. h' = [h EXCEPT ![w] = x]
  OBVIOUS
<1> HIDE DEF x
<1>4. Shape(x)
  BY <1>1, <1>2 DEF Shape, Saving
<1>5. HandlerOf(x, p)
  BY <1>1, <1>2 DEF HandlerOf, Saving
<1> QED BY <1>2, <1>3, <1>4, <1>5 DEF Steps

\* An id nobody knows may become a row of any product.
LEMMA FreshFollows ==
    ASSUME IInv, NEW p \in ProductOf, Follows(p),
           NEW c \in CartIds, Fresh(c), NEW product \in Products
    PROVE  LET q == [p EXCEPT ![c] = product]
           IN  q \in ProductOf /\ q[c] = product /\ Follows(q)
<1> DEFINE q == [p EXCEPT ![c] = product]
<1>1. q \in ProductOf /\ q[c] = product
  BY DEF ProductOf
<1>2. \A d \in CartIds : d # c => q[d] = p[d]
  BY DEF ProductOf
<1> HIDE DEF q
<1>3. RowsOf(carts, q)
  BY <1>2 DEF Fresh, Follows, RowsOf
<1>4. ASSUME NEW v \in Workers
      PROVE  HandlerOf(h[v], q)
  <2>1. h[v].id # c /\ h[v].copies[c] = NoRow
    BY DEF Fresh
  <2>2. Shape(h[v]) /\ HandlerOf(h[v], p)
    BY HandlerIs
  <2>3. h[v].view[c] = NoRow
    BY <2>1, <2>2 DEF Shape
  <2>4. Saving(h[v]) => h[v].id \in CartIds
    BY <2>2 DEF Shape
  <2> QED BY <1>2, <2>1, <2>2, <2>3, <2>4 DEF HandlerOf, RowsOf
<1> QED BY <1>1, <1>3, <1>4 DEF Follows, q

LEMMA ItemKept ==
    ASSUME IInv, NEW w \in Workers, NEW c, NEW row, h[w].item \in CartIds \cup {NoRow}
    PROVE  ToSave(w, c, row) = [ToSave(w, c, row) EXCEPT !.item = h[w].item]
<1>1. h[w] \in Handler
  BY DEF IInv, Typed
<1> QED BY <1>1 DEF ToSave, Handler

LEMMA FindCartSteps ==
    ASSUME IInv, NEW w \in Workers, NEW p \in ProductOf, Follows(p), FindCart(w)
    PROVE  \E x, q : q \in ProductOf /\ Follows(q) /\ Steps(w, x, q)
<1> DEFINE item == Head(h[w].todo)
<1>1. h[w] \in Handler /\ Shape(h[w]) /\ h[w].pc = "find" /\ h[w].todo # <<>>
  BY HandlerIs DEF FindCart
<1>2. item \in Item /\ h[w].req \in Requests /\ h[w].req.shopper \in Shoppers
  BY <1>1, RequestIs DEF Handler, Shape
<1>3. h[w].item \in CartIds \cup {NoRow}
  BY <1>1 DEF Handler
<1>4. ASSUME NEW c \in Holding(h[w].req.shopper, item.product),
             h' = [h EXCEPT ![w] = ToSave(w, c, Grown(c, Asked(item)))]
      PROVE  \E x : Steps(w, x, p)
  <2>1. c \in CartIds /\ carts[c] # NoRow /\ Asked(item) \in Nat
    BY <1>2, OwnedRows, AskedIs DEF Holding
  <2>2. /\ Grown(c, Asked(item)) \in Row /\ Grown(c, Asked(item)).order = NoOne
        /\ Grown(c, Asked(item)).product = p[c]
    BY <2>1, GrownIs DEF IInv, Follows, RowsOf
  <2>3. h' = [h EXCEPT ![w] = [ToSave(w, c, Grown(c, Asked(item))) EXCEPT !.item = h[w].item]]
    BY <1>3, <1>4, ItemKept
  <2> QED BY <1>1, <1>3, <2>1, <2>2, <2>3, ToSaveSteps
<1>5. CASE /\ FreshCarts # {}
           /\ h' = [h EXCEPT ![w] = ToSave(w, FreshCart, NewRow(h[w].req.shopper, item))]
  <2> DEFINE c == FreshCart
             row == NewRow(h[w].req.shopper, item)
             q == [p EXCEPT ![c] = item.product]
  <2>1. c \in CartIds /\ Fresh(c)
    BY <1>5 DEF FreshCarts, FreshCart
  <2>2. row \in Row /\ row.order = NoOne /\ row.product = item.product
    BY <1>2, NewRowIs
  <2>3. item.product \in Products
    BY <1>2, AskedIs
  <2>4. q \in ProductOf /\ q[c] = item.product /\ Follows(q)
    BY <2>1, <2>3, FreshFollows
  <2>5. h' = [h EXCEPT ![w] = [ToSave(w, c, row) EXCEPT !.item = h[w].item]]
    BY <1>3, <1>5, ItemKept
  <2> HIDE DEF c, row, q
  <2>6. \E x : Steps(w, x, q)
    BY <1>1, <1>3, <2>1, <2>2, <2>4, <2>5, ToSaveSteps
  <2> QED BY <2>4, <2>6
<1> QED BY <1>4, <1>5 DEF FindCart

LEMMA SyncItemSteps ==
    ASSUME IInv, NEW w \in Workers, NEW p \in ProductOf, Follows(p), SyncItem(w)
    PROVE  \E x : Steps(w, x, p)
<1>1. h[w] \in Handler /\ Shape(h[w]) /\ HandlerOf(h[w], p) /\ h[w].pc = "sync"
  BY HandlerIs DEF SyncItem
<1>2. PICK c \in CartIds :
        /\ h[w].copies[c] # NoRow
        /\ \/ \E mine \in Holding(h[w].req.shopper, h[w].copies[c].product) :
                 h' = [h EXCEPT ![w] =
                         [ToSave(w, mine, Grown(mine, h[w].copies[c].quantity)) EXCEPT !.item = c]]
           \/ h' = [h EXCEPT ![w] = [ToSave(w, c, TakeOver(h[w].copies[c], h[w].req.shopper))
                                       EXCEPT !.item = c]]
  BY DEF SyncItem
<1>3. /\ h[w].copies[c] \in Row /\ h[w].copies[c].order = NoOne
      /\ h[w].copies[c].product = p[c]
  BY <1>1, <1>2 DEF Handler, Rows, Shape, HandlerOf, RowsOf
<1>4. /\ h[w].pc \in {"find", "sync"} /\ h[w].req.op = "syncGuestCartWithUser"
      /\ c \in CartIds \cup {NoRow}
  BY <1>1 DEF Shape
<1>5. ASSUME NEW mine \in Holding(h[w].req.shopper, h[w].copies[c].product),
             h' = [h EXCEPT ![w] =
                     [ToSave(w, mine, Grown(mine, h[w].copies[c].quantity)) EXCEPT !.item = c]]
      PROVE  \E x : Steps(w, x, p)
  <2> DEFINE row == Grown(mine, h[w].copies[c].quantity)
  <2>1. mine \in CartIds /\ carts[mine] # NoRow /\ h[w].copies[c].quantity \in Nat
    BY <1>3, OwnedRows DEF Holding, Row
  <2>2. row \in Row /\ row.order = NoOne /\ row.product = p[mine]
    BY <2>1, GrownIs DEF IInv, Follows, RowsOf
  <2>3. h' = [h EXCEPT ![w] = [ToSave(w, mine, row) EXCEPT !.item = c]]
    BY <1>5
  <2> HIDE DEF row
  <2> QED BY <1>4, <2>1, <2>2, <2>3, ToSaveSteps
<1>6. CASE h' = [h EXCEPT ![w] = [ToSave(w, c, TakeOver(h[w].copies[c], h[w].req.shopper))
                                       EXCEPT !.item = c]]
  <2> DEFINE row == TakeOver(h[w].copies[c], h[w].req.shopper)
  <2>1. h[w].req.shopper \in Users
    BY <1>1, RequestIs DEF Shape
  <2>2. row \in Row /\ row.order = NoOne /\ row.product = p[c]
    BY <1>3, <2>1 DEF TakeOver, Row
  <2>3. h' = [h EXCEPT ![w] = [ToSave(w, c, row) EXCEPT !.item = c]]
    BY <1>6
  <2> HIDE DEF row
  <2> QED BY <1>4, <2>2, <2>3, ToSaveSteps
<1> QED BY <1>2, <1>5, <1>6

LEMMA CompareSteps ==
    ASSUME IInv, NEW w \in Workers, NEW p, Follows(p), Compare(w)
    PROVE  \E x : Steps(w, x, p)
<1> DEFINE diff == Differing(h[w].id, h[w].row, SavedColumns)
           x == [h[w] EXCEPT !.pc = "write", !.diff = diff]
<1>1. h[w] \in Handler /\ Shape(h[w]) /\ HandlerOf(h[w], p) /\ h[w].pc = "compare"
  BY HandlerIs DEF Compare
<1>2. /\ diff \in SUBSET (Columns \cup {"id"})
      /\ "order" \in diff => "id" \in diff
  BY DEF Differing, SavedColumns
<1>3. h' = [h EXCEPT ![w] = x]
  BY DEF Compare
<1> HIDE DEF diff
<1>4. /\ x \in Handler /\ x.pc = "write" /\ x.id = h[w].id /\ x.row = h[w].row
      /\ x.req = h[w].req /\ x.todo = h[w].todo /\ x.copies = h[w].copies /\ x.diff = diff
      /\ x.order = h[w].order /\ x.links = h[w].links /\ x.view = h[w].view
  BY <1>1, <1>2 DEF Handler, PC
<1> HIDE DEF x
<1>5. Shape(x)
  BY <1>1, <1>2, <1>4 DEF Shape, Saving
<1>6. HandlerOf(x, p)
  BY <1>1, <1>4 DEF HandlerOf, Saving
<1> QED BY <1>3, <1>4, <1>5, <1>6 DEF Steps

\* After a row is saved or skipped the handler has no new rows in hand.
LEMMA NextRowIs ==
    ASSUME IInv, NEW w \in Workers, NEW p, Follows(p), Saving(h[w])
    PROVE  /\ NextRow(w) \in Handler /\ Shape(NextRow(w)) /\ HandlerOf(NextRow(w), p)
           /\ NextRow(w).pc \in {"idle", "sync", "find"}
           /\ NextRow(w).order # NoOne => NextRow(w).order = h[w].order
           /\ \A c \in CartIds : NextRow(w).copies[c] # NoRow => h[w].copies[c] # NoRow
<1> DEFINE x == NextRow(w)
<1>1. /\ h[w] \in Handler /\ Shape(h[w]) /\ HandlerOf(h[w], p)
      /\ h[w].pc # "idle" /\ h[w].req \in Requests
  BY HandlerIs DEF Saving, Shape
<1>2. CASE h[w].req.op = "addQuantity"
  BY <1>2, RestingIs, RestingFits DEF NextRow
<1>3. CASE h[w].req.op = "syncGuestCartWithUser"
  <2> DEFINE copies == [h[w].copies EXCEPT ![h[w].item] = NoRow]
  <2>1. x = [h[w] EXCEPT !.pc = "sync", !.copies = copies,
                         !.item = NoRow, !.id = NoRow, !.row = NoRow, !.diff = {}]
    BY <1>3 DEF NextRow
  <2>2. /\ copies \in Rows
        /\ \A c \in CartIds : copies[c] # NoRow => copies[c] = h[w].copies[c]
    BY <1>1 DEF Handler, Rows
  <2> HIDE DEF copies
  <2>20. "sync" \in PC /\ {} \in SUBSET (Columns \cup {"id"})
    BY DEF PC
  <2>21. x \in Handler
    BY <1>1, <2>1, <2>2, <2>20 DEF Handler
  <2>3. /\ x \in Handler /\ x.pc = "sync" /\ x.req = h[w].req /\ x.copies = copies
        /\ x.order = h[w].order /\ x.links = h[w].links /\ x.view = h[w].view
    BY <1>1, <2>1, <2>21 DEF Handler
  <2> HIDE DEF x
  <2>4. \A c \in CartIds : x.links[c] = {} /\ x.view[c] = NoRow
    BY <1>1, <2>3 DEF Shape, Saving
  <2>5. Shape(x) /\ HandlerOf(x, p)
    BY <1>1, <1>3, <2>2, <2>3, <2>4 DEF Shape, HandlerOf, RowsOf, Saving
  <2> QED BY <2>2, <2>3, <2>5 DEF x
<1>4. CASE h[w].req.op \notin {"addQuantity", "syncGuestCartWithUser"}
  <2>1. x = [h[w] EXCEPT !.pc = "find", !.todo = Tail(h[w].todo),
                         !.id = NoRow, !.row = NoRow, !.diff = {}]
    BY <1>4 DEF NextRow
  <2>2. Tail(h[w].todo) \in Seq(Item)
    BY <1>1, <1>4 DEF Handler, Shape
  <2>3. /\ x \in Handler /\ x.pc = "find" /\ x.req = h[w].req /\ x.copies = h[w].copies
        /\ x.order = h[w].order /\ x.links = h[w].links /\ x.view = h[w].view
    BY <1>1, <2>1, <2>2 DEF Handler, PC
  <2> HIDE DEF x
  <2>4. \A c \in CartIds : x.links[c] = {} /\ x.view[c] = NoRow
    BY <1>1, <2>3 DEF Shape, Saving
  <2>5. Shape(x) /\ HandlerOf(x, p)
    BY <1>1, <2>3, <2>4 DEF Shape, HandlerOf, Saving
  <2> QED BY <2>3, <2>5 DEF x
<1> QED BY <1>2, <1>3, <1>4

-----------------------------------------------------------------------------
(* Checkout.                                                               *)

LEMMA CustomerSteps ==
    ASSUME IInv, NEW w \in Workers, NEW p, Follows(p), FindCustomer(w) \/ SaveCustomer(w)
    PROVE  \E x : Steps(w, x, p)
<1>1. CASE Answer(w)
  BY <1>1, AnswerSteps
<1>2. ASSUME NEW pc \in {"saveCustomer", "order"}, NEW known \in BOOLEAN,
             NEW email \in Emails \cup {NoEmail},
             h[w].pc \in {"customer", "saveCustomer"},
             h' = [h EXCEPT ![w] = [h[w] EXCEPT !.pc = pc, !.known = known, !.email = email]]
      PROVE  \E x : Steps(w, x, p)
  <2> DEFINE x == [h[w] EXCEPT !.pc = pc, !.known = known, !.email = email]
  <2>1. h[w] \in Handler /\ Shape(h[w]) /\ HandlerOf(h[w], p)
    BY HandlerIs
  <2>2. h' = [h EXCEPT ![w] = x]
    BY <1>2
  <2>3. /\ x \in Handler /\ x.pc = pc /\ x.req = h[w].req /\ x.copies = h[w].copies
        /\ x.order = h[w].order /\ x.links = h[w].links /\ x.view = h[w].view
    <3>1. pc \in PC
      BY DEF PC
    <3>2. x \in Handler
      BY <2>1, <3>1 DEF Handler
    <3> QED BY <2>1, <3>2 DEF Handler
  <2> HIDE DEF x
  <2>4. Shape(x) /\ HandlerOf(x, p)
    BY <1>2, <2>1, <2>3 DEF Shape, HandlerOf, Saving
  <2> QED BY <2>2, <2>3, <2>4 DEF Steps
<1>3. h[w] \in Handler /\ Shape(h[w])
  BY DEF IInv, Typed, Shaped
<1>4. CASE FindCustomer(w)
  <2> DEFINE known == h[w].req.email \in customers
  <2>1. [h[w] EXCEPT !.pc = "saveCustomer", !.known = known]
           = [h[w] EXCEPT !.pc = "saveCustomer", !.known = known, !.email = h[w].email]
    BY <1>3 DEF Handler
  <2>2. h[w].email \in Emails \cup {NoEmail} /\ known \in BOOLEAN
    BY <1>3 DEF Handler
  <2> HIDE DEF known
  <2> QED BY <1>2, <1>4, <2>1, <2>2 DEF FindCustomer, known
<1>5. CASE SaveCustomer(w)
  <2> DEFINE e == h[w].req.email
  <2>1. h[w].email \in Emails \cup {NoEmail} /\ h[w].known \in BOOLEAN /\ e \in Emails
    BY <1>3, <1>5, RequestIs DEF Handler, Shape, SaveCustomer
  <2>2. /\ [h[w] EXCEPT !.pc = "order"]
               = [h[w] EXCEPT !.pc = "order", !.known = h[w].known, !.email = h[w].email]
        /\ [h[w] EXCEPT !.pc = "order", !.email = e]
               = [h[w] EXCEPT !.pc = "order", !.known = h[w].known, !.email = e]
    BY <1>3 DEF Handler
  <2>3. CASE h' = [h EXCEPT ![w] = [h[w] EXCEPT !.pc = "order"]]
    BY <1>2, <1>5, <2>1, <2>2, <2>3 DEF SaveCustomer
  <2>4. CASE h' = [h EXCEPT ![w] = [h[w] EXCEPT !.pc = "order", !.email = e]]
    BY <1>2, <1>5, <2>1, <2>2, <2>4 DEF SaveCustomer
  <2> QED BY <1>1, <1>5, <2>3, <2>4 DEF SaveCustomer
<1> QED BY <1>4, <1>5

LEMMA CreateSaleSteps ==
    ASSUME IInv, NEW w \in Workers, NEW p, Follows(p), CreateSale(w)
    PROVE  \E x : Steps(w, x, p)
<1> DEFINE unused == {o \in Orders : orders[o] = {} /\ \A v \in Workers : h[v].order # o}
           order == CHOOSE o \in unused : TRUE
           x == [h[w] EXCEPT !.pc = "link", !.order = order]
<1>1. h[w] \in Handler /\ Shape(h[w]) /\ HandlerOf(h[w], p) /\ h[w].pc = "order"
  BY HandlerIs DEF CreateSale
<1>2. h' = [h EXCEPT ![w] = x]
  BY DEF CreateSale
<1>3. order \in unused
  BY DEF CreateSale
<1>4. order \in Orders /\ order # NoOne /\ orders[order] = {} /\ \A v \in Workers : h[v].order # order
  BY <1>3, Inputs
<1> HIDE DEF order
<1>5. /\ x \in Handler /\ x.pc = "link" /\ x.req = h[w].req /\ x.copies = h[w].copies
      /\ x.order = order /\ x.links = h[w].links /\ x.view = h[w].view
  BY <1>1, <1>4 DEF Handler, PC
<1> HIDE DEF x
<1>6. Shape(x) /\ HandlerOf(x, p)
  BY <1>1, <1>4, <1>5 DEF Shape, HandlerOf, Saving
<1> QED BY <1>2, <1>4, <1>5, <1>6 DEF Steps

\* No row is linked to an order that lists nothing.
LEMMA NoneLinked ==
    ASSUME IInv, NEW w \in Workers, h[w].order # NoOne, NEW c \in CartIds, carts[c] # NoRow
    PROVE  carts[c].order # h[w].order
<1>1. orders[h[w].order] = {}
  BY DEF IInv, OrdersApart
<1> QED BY <1>1 DEF IInv, LinkedRowsOrdered

LEMMA LinkedIs ==
    ASSUME IInv, NEW w \in Workers, NEW p, Follows(p), NEW c \in InCart(w), h[w].order # NoOne
    PROVE  /\ c \in CartIds /\ Linked(w, c) \in Row
           /\ Linked(w, c).order = h[w].order /\ Linked(w, c).product = p[c]
<1>1. h[w] \in Handler /\ HandlerOf(h[w], p)
  BY HandlerIs
<1>2. /\ c \in CartIds /\ h[w].copies[c] \in Row /\ h[w].copies[c].product = p[c]
      /\ h[w].order \in Orders \cup {NoOne}
  BY <1>1 DEF InCart, Handler, Rows, HandlerOf, RowsOf
<1> QED BY <1>2 DEF Linked, Row

LEMMA CompareCartsSteps ==
    ASSUME IInv, NEW w \in Workers, NEW p, Follows(p), CompareCarts(w)
    PROVE  \E x : Steps(w, x, p)
<1> DEFINE links == [c \in CartIds |->
                        IF c \in InCart(w) THEN Differing(c, Linked(w, c), Columns) ELSE {}]
           x == [h[w] EXCEPT !.pc = "linkWrite", !.links = links]
<1>1. h[w] \in Handler /\ Shape(h[w]) /\ HandlerOf(h[w], p) /\ h[w].pc = "link"
  BY HandlerIs DEF CompareCarts
<1>2. h' = [h EXCEPT ![w] = x]
  BY DEF CompareCarts
<1>3. links \in [CartIds -> SUBSET (Columns \cup {"id"})]
  BY DEF Differing
<1>4. h[w].order # NoOne
  BY <1>1 DEF Shape
<1>5. ASSUME NEW c \in CartIds, links[c] # {}
      PROVE  h[w].copies[c] # NoRow /\ "order" \in links[c]
  <2>1. c \in InCart(w) /\ links[c] = Differing(c, Linked(w, c), Columns)
    BY <1>5
  <2>2. CASE carts[c] = NoRow
    BY <2>1, <2>2 DEF Differing, Columns, InCart
  <2>3. CASE carts[c] # NoRow
    <3>1. Linked(w, c)["order"] # carts[c]["order"]
      BY <1>4, <2>1, <2>3, NoneLinked, LinkedIs
    <3> QED BY <2>1, <2>3, <3>1 DEF Differing, Columns, InCart
  <2> QED BY <2>2, <2>3
<1> HIDE DEF links
<1>6. /\ x \in Handler /\ x.pc = "linkWrite" /\ x.req = h[w].req /\ x.copies = h[w].copies
      /\ x.order = h[w].order /\ x.links = links /\ x.view = h[w].view
  BY <1>1, <1>3 DEF Handler, PC
<1> HIDE DEF x
<1>7. Shape(x) /\ HandlerOf(x, p)
  BY <1>1, <1>4, <1>5, <1>6 DEF Shape, HandlerOf, Saving
<1> QED BY <1>2, <1>6, <1>7 DEF Steps

LEMMA LinkCartSteps ==
    ASSUME IInv, NEW w \in Workers, NEW p, Follows(p), LinkCart(w)
    PROVE  \E x : Steps(w, x, p)
<1>1. h[w] \in Handler /\ Shape(h[w]) /\ HandlerOf(h[w], p) /\ h[w].pc = "linkWrite"
  BY HandlerIs DEF LinkCart
<1>2. PICK c \in CartIds :
        /\ h[w].links[c] # {}
        /\ \/ Answer(w)
           \/ h' = [h EXCEPT ![w] = [h[w] EXCEPT
                     !.links = [h[w].links EXCEPT ![c] = {}],
                     !.view = [h[w].view EXCEPT
                                  ![c] = Saved(c, Linked(w, c), h[w].links[c])]]]
  BY DEF LinkCart
<1>3. CASE Answer(w)
  BY <1>3, AnswerSteps
<1>4. CASE h' = [h EXCEPT ![w] = [h[w] EXCEPT
                     !.links = [h[w].links EXCEPT ![c] = {}],
                     !.view = [h[w].view EXCEPT
                                  ![c] = Saved(c, Linked(w, c), h[w].links[c])]]]
  <2> DEFINE row == Saved(c, Linked(w, c), h[w].links[c])
             links == [h[w].links EXCEPT ![c] = {}]
             view == [h[w].view EXCEPT ![c] = row]
             x == [h[w] EXCEPT !.links = links, !.view = view]
  <2>1. /\ h[w].copies[c] # NoRow /\ "order" \in h[w].links[c] /\ h[w].order # NoOne
        /\ c \in InCart(w) /\ h[w].links[c] \in SUBSET (Columns \cup {"id"})
    BY <1>1, <1>2 DEF Shape, InCart, Handler
  <2>2. /\ Linked(w, c) \in Row /\ Linked(w, c).order = h[w].order
        /\ Linked(w, c).product = p[c]
    BY <2>1, LinkedIs
  <2>3. carts \in Rows /\ (carts[c] # NoRow => carts[c].product = p[c])
    BY DEF IInv, Typed, Follows, RowsOf
  <2>4. /\ row \in Row \cup {NoRow}
        /\ row # NoRow => row.order = h[w].order /\ row.product = p[c]
    BY <2>1, <2>2, <2>3, SavedIs
  <2> HIDE DEF row
  <2>5. /\ links \in [CartIds -> SUBSET (Columns \cup {"id"})] /\ view \in Rows
        /\ \A d \in CartIds : /\ links[d] = IF d = c THEN {} ELSE h[w].links[d]
                              /\ view[d] = IF d = c THEN row ELSE h[w].view[d]
    BY <1>1, <2>4 DEF Handler, Rows
  <2>6. h' = [h EXCEPT ![w] = x]
    BY <1>4 DEF row
  <2> HIDE DEF links, view
  <2>7. /\ x \in Handler /\ x.pc = "linkWrite" /\ x.req = h[w].req /\ x.copies = h[w].copies
        /\ x.order = h[w].order /\ x.links = links /\ x.view = view
    BY <1>1, <2>5 DEF Handler
  <2> HIDE DEF x
  <2>8. Shape(x)
    BY <1>1, <2>1, <2>4, <2>5, <2>7 DEF Shape, Saving
  <2>9. HandlerOf(x, p)
    BY <1>1, <2>4, <2>5, <2>7 DEF HandlerOf, RowsOf, Saving
  <2> QED BY <2>6, <2>7, <2>8, <2>9 DEF Steps
<1> QED BY <1>2, <1>3, <1>4

-----------------------------------------------------------------------------
(* Steps that write the tables.                                            *)

\* Rows that stay keep product and order; new rows are open.
Kept ==
    /\ carts' \in Rows
    /\ \A c \in CartIds : carts'[c] # NoRow =>
          \/ carts'[c].order = NoOne /\ (carts[c] = NoRow \/ carts[c].order = NoOne)
          \/ /\ carts[c] # NoRow /\ carts'[c].product = carts[c].product
             /\ carts'[c].order = carts[c].order

LEMMA WriteEffect ==
    ASSUME IInv, NEW w \in Workers, NEW p, Follows(p), Write(w)
    PROVE  (\E x : Steps(w, x, p)) /\ RowsOf(carts', p) /\ Kept
<1> DEFINE id == h[w].id
           row == Saved(id, h[w].row, h[w].diff)
<1>1. /\ h[w] \in Handler /\ Shape(h[w]) /\ HandlerOf(h[w], p) /\ h[w].pc = "write" /\ Saving(h[w])
  BY HandlerIs DEF Write, Saving
<1>2. Steps(w, NextRow(w), p)
  BY <1>1, NextRowIs DEF Steps, Write
<1>3. /\ id \in CartIds /\ h[w].row \in Row /\ h[w].row.order = NoOne /\ h[w].row.product = p[id]
      /\ h[w].diff \in SUBSET (Columns \cup {"id"})
      /\ "order" \in h[w].diff => "id" \in h[w].diff
  BY <1>1 DEF Shape, HandlerOf, Handler
<1>4. carts \in Rows /\ RowsOf(carts, p) /\ carts' = [carts EXCEPT ![id] = row]
  BY DEF IInv, Typed, Follows, Write
<1>5. /\ row \in Row \cup {NoRow}
      /\ "id" \in h[w].diff => row = h[w].row /\ carts[id] = NoRow
      /\ "id" \notin h[w].diff /\ carts[id] = NoRow => row = NoRow
      /\ "id" \notin h[w].diff /\ carts[id] # NoRow =>
            row.product = carts[id].product /\ row.order = carts[id].order
  BY <1>3, <1>4, SavedIs DEF Write, Duplicate
<1>6. row # NoRow => row.product = p[id]
  BY <1>3, <1>4, <1>5 DEF RowsOf
<1> HIDE DEF row, id
<1>7. \A c \in CartIds : carts'[c] = IF c = id THEN row ELSE carts[c]
  BY <1>4 DEF Rows
<1>8. carts' \in Rows
  BY <1>4, <1>5 DEF Rows
<1>9. RowsOf(carts', p)
  BY <1>4, <1>6, <1>7 DEF RowsOf
<1>10. Kept
  BY <1>3, <1>5, <1>7, <1>8 DEF Kept
<1> QED BY <1>2, <1>9, <1>10

LEMMA DeleteEffect ==
    ASSUME IInv, NEW w \in Workers, NEW p, Follows(p), Delete(w) \/ SyncDelete(w)
    PROVE  (\E x : Steps(w, x, p)) /\ RowsOf(carts', p) /\ Kept
<1>1. Steps(w, Resting, p)
  BY AnswerSteps DEF Delete, SyncDelete
<1>2. PICK doomed : carts' = [c \in CartIds |-> IF c \in doomed THEN NoRow ELSE carts[c]]
  BY DEF Delete, SyncDelete
<1>3. carts \in Rows /\ RowsOf(carts, p)
  BY DEF IInv, Typed, Follows
<1> QED BY <1>1, <1>2, <1>3 DEF Rows, RowsOf, Kept

\* The lines of the order are the rows read at the start; the rows of the view
\* are among them.
LEMMA CommitEffect ==
    ASSUME IInv, NEW w \in Workers, NEW p \in ProductOf, Follows(p), Commit(w)
    PROVE  /\ Steps(w, Start(h[w].req, "notify"), p) /\ RowsOf(carts', p)
           /\ Start(h[w].req, "notify").order = NoOne
           /\ carts' \in Rows /\ orders' \in [Orders -> SUBSET OrderLine] /\ customers' \subseteq Emails
           /\ h[w].order \in Orders /\ h[w].order # NoOne
           /\ \A o \in Orders : orders'[o] = IF o = h[w].order THEN Ordered(w) ELSE orders[o]
           /\ \A c \in CartIds :
                 carts'[c] = IF h[w].view[c] # NoRow THEN h[w].view[c] ELSE carts[c]
           /\ \A c \in CartIds : h[w].view[c] # NoRow =>
                 /\ h[w].view[c].order = h[w].order
                 /\ \E item \in Ordered(w) : item.cart = c /\ item.product = h[w].view[c].product
<1>1. h[w] \in Handler /\ Shape(h[w]) /\ HandlerOf(h[w], p) /\ h[w].pc = "linkWrite"
  BY HandlerIs DEF Commit
<1> DEFINE x == Start(h[w].req, "notify")
<1>2. /\ x \in Handler /\ x.pc = "notify" /\ x.req = h[w].req /\ x.order = NoOne
      /\ h[w].req \in Requests
      /\ \A c \in CartIds : x.copies[c] = NoRow /\ x.view[c] = NoRow /\ x.links[c] = {}
  BY <1>1, StartIs DEF PC, Shape
<1>3. h' = [h EXCEPT ![w] = x]
  BY DEF Commit
<1> HIDE DEF x
<1>4. Steps(w, x, p)
  <2>1. Shape(x) /\ HandlerOf(x, p)
    BY <1>2 DEF Shape, HandlerOf, RowsOf, Saving
  <2> QED BY <1>2, <1>3, <2>1 DEF Steps
<1>5. carts \in Rows /\ RowsOf(carts, p) /\ orders \in [Orders -> SUBSET OrderLine]
      /\ customers \subseteq Emails
  BY DEF IInv, Typed, Follows
<1>6. /\ h[w].order \in Orders /\ h[w].order # NoOne /\ h[w].email \in Emails \cup {NoEmail}
      /\ h[w].view \in Rows /\ h[w].copies \in Rows
  BY <1>1 DEF Shape, Handler
<1>7. \A c \in CartIds : carts'[c] = IF h[w].view[c] # NoRow THEN h[w].view[c] ELSE carts[c]
  BY DEF Commit, Written
<1>8. carts' \in Rows /\ RowsOf(carts', p)
  <2>1. carts' = [c \in CartIds |-> IF h[w].view[c] # NoRow THEN h[w].view[c] ELSE carts[c]]
    BY DEF Commit, Written
  <2> QED BY <1>1, <1>5, <1>6, <2>1 DEF Rows, RowsOf, HandlerOf
<1>9. Ordered(w) \in SUBSET OrderLine
  <2>1. ASSUME NEW c \in InCart(w)
        PROVE  [cart |-> c, product |-> h[w].copies[c].product, quantity |-> h[w].copies[c].quantity]
                  \in OrderLine
    <3>1. c \in CartIds /\ h[w].copies[c] \in Row
      BY <1>6 DEF InCart, Rows
    <3> QED BY <3>1 DEF Row, OrderLine
  <2> QED BY <2>1 DEF Ordered
<1>10. orders' = [orders EXCEPT ![h[w].order] = Ordered(w)]
  BY DEF Commit
<1>11. orders' \in [Orders -> SUBSET OrderLine] /\ customers' \subseteq Emails
  BY <1>5, <1>6, <1>9, <1>10 DEF Commit
<1>12. \A o \in Orders : orders'[o] = IF o = h[w].order THEN Ordered(w) ELSE orders[o]
  BY <1>5, <1>6, <1>10
<1>13. ASSUME NEW c \in CartIds, h[w].view[c] # NoRow
       PROVE  /\ h[w].view[c].order = h[w].order
              /\ \E item \in Ordered(w) : item.cart = c /\ item.product = h[w].view[c].product
  <2> DEFINE item == [cart |-> c, product |-> h[w].copies[c].product,
                      quantity |-> h[w].copies[c].quantity]
  <2>1. h[w].copies[c] # NoRow /\ h[w].view[c].order = h[w].order
    BY <1>1, <1>13 DEF Shape
  <2>2. item \in Ordered(w)
    BY <2>1 DEF Ordered, InCart
  <2>3. item.cart = c /\ item.product = h[w].copies[c].product
    OBVIOUS
  <2>4. h[w].copies[c].product = h[w].view[c].product
    BY <1>1, <1>13, <2>1 DEF HandlerOf, RowsOf
  <2> HIDE DEF item
  <2> QED BY <2>1, <2>2, <2>3, <2>4
<1> QED BY <1>2, <1>4, <1>6, <1>7, <1>8, <1>11, <1>12, <1>13 DEF x

-----------------------------------------------------------------------------
(* The invariant.                                                          *)

\* All other steps change what the handler holds, and perhaps the customers.
LEMMA OtherSteps ==
    ASSUME IInv, NEW w \in Workers, NEW p \in ProductOf, Follows(p),
           \/ Arrive(w) \/ Skip(w) \/ Abort(w)
           \/ Step(w) /\ ~Write(w) /\ ~Delete(w) /\ ~SyncDelete(w) /\ ~Commit(w)
    PROVE  /\ \E x, q : q \in ProductOf /\ Follows(q) /\ Steps(w, x, q)
           /\ UNCHANGED <<carts, orders, customers>>
<1>1. CASE Arrive(w)
  BY <1>1, ArriveSteps
<1>2. CASE Skip(w)
  <2>1. Saving(h[w])
    BY <1>2 DEF Skip, Saving
  <2>2. Steps(w, NextRow(w), p)
    BY <1>2, <2>1, NextRowIs DEF Steps, Skip
  <2> QED BY <1>2, <2>2 DEF Skip
<1>3. CASE Abort(w) \/ FindDone(w) \/ Notify(w) \/ DeadlockAbort(w)
  <2>1. Steps(w, Resting, p)
    BY <1>3, AnswerSteps DEF Abort, FindDone, Notify, DeadlockAbort
  <2> QED BY <1>3, <2>1 DEF Abort, FindDone, Notify, DeadlockAbort
<1>4. CASE WriteFails(w)
  <2>1. Saving(h[w])
    BY <1>4 DEF WriteFails, Saving
  <2>2. Steps(w, NextRow(w), p) \/ Steps(w, Resting, p)
    BY <1>4, <2>1, NextRowIs, RestingIs, RestingFits DEF Steps, WriteFails
  <2> QED BY <1>4, <2>2 DEF WriteFails
<1>5. CASE FindCart(w)
  BY <1>5, FindCartSteps DEF FindCart
<1>6. CASE \/ Compare(w) \/ SyncItem(w) \/ FindCustomer(w) \/ SaveCustomer(w)
           \/ CreateSale(w) \/ CompareCarts(w) \/ LinkCart(w)
  <2>1. \E x : Steps(w, x, p)
    BY <1>6, CompareSteps, SyncItemSteps, CustomerSteps, CreateSaleSteps, CompareCartsSteps,
       LinkCartSteps
  <2>2. UNCHANGED <<carts, orders, customers>>
    BY <1>6 DEF Compare, SyncItem, FindCustomer, SaveCustomer, CreateSale, CompareCarts, LinkCart
  <2> QED BY <2>1, <2>2
<1> QED BY <1>1, <1>2, <1>3, <1>4, <1>5, <1>6 DEF Step

LEMMA HandlersKept ==
    ASSUME IInv, NEW w \in Workers, NEW x, NEW p \in ProductOf, Follows(p),
           Steps(w, x, p), carts' \in Rows, RowsOf(carts', p),
           orders' \in [Orders -> SUBSET OrderLine], customers' \subseteq Emails,
           \A v \in Workers : v # w /\ h[v].order # NoOne => orders'[h[v].order] = orders[h[v].order],
           x.order # NoOne => orders' = orders
    PROVE  Typed' /\ Shaped' /\ OneProductEach' /\ OrdersApart'
<1>1. h \in [Workers -> Handler]
  BY DEF IInv, Typed
<1>2. /\ h' \in [Workers -> Handler]
      /\ \A v \in Workers : h'[v] = IF v = w THEN x ELSE h[v]
  BY <1>1 DEF Steps
<1>3. Typed'
  BY <1>2 DEF Typed
<1>4. \A v \in Workers : Shape(h'[v]) /\ HandlerOf(h'[v], p)
  BY <1>2, HandlerIs DEF Steps
<1>5. Shaped'
  BY <1>4 DEF Shaped
<1>6. Follows(p)'
  BY <1>4 DEF Follows
<1>7. OneProductEach'
  BY <1>6 DEF OneProductEach
<1>8. OrdersApart'
  <2>1. \A v \in Workers : h'[v].order # NoOne => orders'[h'[v].order] = {}
    BY <1>2 DEF IInv, OrdersApart, Steps
  <2>2. ASSUME NEW u \in Workers, NEW v \in Workers, u # v, h'[u].order = h'[v].order
        PROVE  h'[u].order = NoOne
    BY <1>2, <2>2 DEF IInv, OrdersApart, Steps
  <2> QED BY <2>1, <2>2 DEF OrdersApart
<1> QED BY <1>3, <1>5, <1>7, <1>8

LEMMA LinksKept ==
    ASSUME IInv, Kept, orders' = orders
    PROVE  LinkedRowsOrdered'
<1> SUFFICES ASSUME NEW c \in CartIds, carts'[c] # NoRow, carts'[c].order # NoOne
             PROVE  \E item \in orders'[carts'[c].order] :
                       item.cart = c /\ item.product = carts'[c].product
  BY DEF LinkedRowsOrdered
<1>1. carts[c] # NoRow /\ carts'[c].product = carts[c].product /\ carts'[c].order = carts[c].order
  BY DEF Kept
<1> QED BY <1>1 DEF IInv, LinkedRowsOrdered

LEMMA TableStepKeeps ==
    ASSUME IInv, NEW w \in Workers, NEW p \in ProductOf, Follows(p),
           Write(w) \/ Delete(w) \/ SyncDelete(w)
    PROVE  IInv' /\ Kept /\ orders' = orders
<1>1. (\E x : Steps(w, x, p)) /\ RowsOf(carts', p) /\ Kept
  BY WriteEffect, DeleteEffect
<1>2. orders' = orders /\ customers' = customers
  BY DEF Write, Delete, SyncDelete
<1>3. /\ carts' \in Rows /\ orders' \in [Orders -> SUBSET OrderLine] /\ customers' \subseteq Emails
  BY <1>1, <1>2 DEF Kept, IInv, Typed
<1>4. Typed' /\ Shaped' /\ OneProductEach' /\ OrdersApart'
  BY <1>1, <1>2, <1>3, HandlersKept
<1>5. LinkedRowsOrdered'
  BY <1>1, <1>2, LinksKept
<1> QED BY <1>1, <1>2, <1>4, <1>5 DEF IInv

LEMMA CommitKeeps ==
    ASSUME IInv, NEW w \in Workers, NEW p \in ProductOf, Follows(p), Commit(w)
    PROVE  IInv'
<1> DEFINE x == Start(h[w].req, "notify")
<1>1. /\ Steps(w, x, p) /\ RowsOf(carts', p) /\ x.order = NoOne
      /\ carts' \in Rows /\ orders' \in [Orders -> SUBSET OrderLine] /\ customers' \subseteq Emails
      /\ h[w].order \in Orders /\ h[w].order # NoOne
      /\ \A o \in Orders : orders'[o] = IF o = h[w].order THEN Ordered(w) ELSE orders[o]
  BY CommitEffect
<1>2. \A v \in Workers : v # w /\ h[v].order # NoOne =>
         h[v].order \in Orders /\ h[v].order # h[w].order
  BY DEF IInv, OrdersApart, Typed, Handler
<1>3. Typed' /\ Shaped' /\ OneProductEach' /\ OrdersApart'
  <2> HIDE DEF x
  <2> QED BY <1>1, <1>2, HandlersKept
<1>4. LinkedRowsOrdered'
  <2> SUFFICES ASSUME NEW c \in CartIds, carts'[c] # NoRow, carts'[c].order # NoOne
               PROVE  \E item \in orders'[carts'[c].order] :
                         item.cart = c /\ item.product = carts'[c].product
    BY DEF LinkedRowsOrdered
  <2>1. CASE h[w].view[c] # NoRow
    <3>1. /\ carts'[c] = h[w].view[c] /\ h[w].view[c].order = h[w].order
          /\ \E item \in Ordered(w) : item.cart = c /\ item.product = h[w].view[c].product
      BY <2>1, CommitEffect
    <3> QED BY <1>1, <3>1
  <2>2. CASE h[w].view[c] = NoRow
    <3>1. carts'[c] = carts[c] /\ carts[c].order \in Orders
      BY <2>2, CommitEffect, Inputs DEF IInv, Typed, Rows, Row
    <3>2. carts[c].order # h[w].order
      BY <1>1, <3>1, NoneLinked
    <3>3. \E item \in orders[carts[c].order] : item.cart = c /\ item.product = carts[c].product
      BY <3>1 DEF IInv, LinkedRowsOrdered
    <3> QED BY <1>1, <3>1, <3>2, <3>3
  <2> QED BY <2>1, <2>2
<1> QED BY <1>3, <1>4 DEF IInv

LEMMA OtherStepsKeep ==
    ASSUME IInv, NEW w \in Workers, NEW p \in ProductOf, Follows(p),
           \/ Arrive(w) \/ Skip(w) \/ Abort(w)
           \/ Step(w) /\ ~Write(w) /\ ~Delete(w) /\ ~SyncDelete(w) /\ ~Commit(w)
    PROVE  IInv'
<1>1. PICK x, q : q \in ProductOf /\ Follows(q) /\ Steps(w, x, q)
  BY OtherSteps
<1>2. UNCHANGED <<carts, orders, customers>>
  BY OtherSteps
<1>3. /\ carts' \in Rows /\ RowsOf(carts', q) /\ orders' \in [Orders -> SUBSET OrderLine]
      /\ customers' \subseteq Emails
  BY <1>1, <1>2 DEF IInv, Typed, Follows
<1>4. Typed' /\ Shaped' /\ OneProductEach' /\ OrdersApart'
  BY <1>1, <1>2, <1>3, HandlersKept
<1>5. LinkedRowsOrdered'
  BY <1>2 DEF IInv, LinkedRowsOrdered
<1> QED BY <1>4, <1>5 DEF IInv

LEMMA InitIInv == Init => IInv
<1> SUFFICES ASSUME Init PROVE IInv
  OBVIOUS
<1>1. /\ carts \in Rows /\ h = [w \in Workers |-> Resting]
      /\ \A c \in CartIds : carts[c] # NoRow => carts[c].order = NoOne
      /\ orders = [o \in Orders |-> {}] /\ customers \subseteq Emails
  BY InitialAssumption DEF Init, Rows
<1>2. Typed
  BY <1>1, RestingIs DEF Typed
<1>3. Shaped /\ OrdersApart /\ LinkedRowsOrdered
  BY <1>1, RestingIs, RestingFits DEF Shaped, OrdersApart, LinkedRowsOrdered
<1>4. OneProductEach
  <2> DEFINE p == [c \in CartIds |-> IF carts[c] # NoRow THEN carts[c].product ELSE NoRow]
  <2>1. p \in ProductOf
    BY <1>1 DEF ProductOf, Rows, Row
  <2>2. RowsOf(carts, p)
    BY DEF RowsOf
  <2> HIDE DEF p
  <2>3. Follows(p)
    BY <1>1, <2>2, RestingFits DEF Follows
  <2> QED BY <2>1, <2>3 DEF OneProductEach
<1> QED BY <1>2, <1>3, <1>4 DEF IInv

LEMMA NextIInv == IInv /\ [Next]_vars => IInv'
<1> SUFFICES ASSUME IInv, [Next]_vars PROVE IInv'
  OBVIOUS
<1>1. PICK p \in ProductOf : Follows(p)
  BY DEF IInv, OneProductEach
<1>2. CASE UNCHANGED vars
  BY <1>2 DEF vars, IInv, Typed, Shaped, OneProductEach, Follows, OrdersApart, LinkedRowsOrdered
<1>3. ASSUME NEW w \in Workers, Arrive(w) \/ Step(w) \/ Skip(w) \/ Abort(w)
      PROVE  IInv'
  BY <1>1, <1>3, TableStepKeeps, CommitKeeps, OtherStepsKeep
<1> QED BY <1>2, <1>3 DEF Next

LEMMA IInvImpliesTypeOK == IInv => TypeOK
<1> SUFFICES ASSUME IInv PROVE TypeOK
  OBVIOUS
<1>1. /\ carts \in [CartIds -> Row \cup {NoRow}]
      /\ \A o \in Orders : orders[o] \subseteq
             [cart : CartIds, product : Products, quantity : Nat \ {0}]
      /\ customers \subseteq Emails
  BY DEF IInv, Typed, Rows, OrderLine
<1>2. \A w \in Workers :
          /\ h[w].pc \in PC
          /\ h[w].copies \in [CartIds -> Row \cup {NoRow}]
          /\ h[w].view \in [CartIds -> Row \cup {NoRow}]
          /\ h[w].row \in Row \cup {NoRow} /\ h[w].diff \subseteq Columns \cup {"id"}
          /\ h[w].order \in Orders \cup {NoOne}
  BY DEF IInv, Typed, Handler, Rows
<1> QED BY <1>1, <1>2 DEF TypeOK

\* CartService and TransactionService: no row of a cart and no copy of one ever has
\* an amount below one, and every table and handler stays well formed.
THEOREM TypeCorrect == Spec => []TypeOK
<1> QED BY InitIInv, NextIInv, IInvImpliesTypeOK, PTL DEF Spec

\* linkCartsToCheckout: a row is linked only to an order that lists it, whatever
\* saves, deletions, checkouts, failures and deadlocks come in between.
THEOREM LinksListed == Spec => []LinkedRowsOrdered
<1>1. IInv => LinkedRowsOrdered
  BY DEF IInv
<1> QED BY <1>1, InitIInv, NextIInv, PTL DEF Spec

\* An UPDATE never writes the link of a row that has one, and the DELETE that
\* ends a merge leaves ordered rows alone.
LEMMA OrderedRowsKept ==
    ASSUME IInv, NEW w \in Workers, Write(w) \/ SyncDelete(w),
           NEW c \in CartIds, carts[c] # NoRow, carts[c].order # NoOne
    PROVE  carts'[c] # NoRow /\ carts'[c].order # NoOne
<1>1. CASE SyncDelete(w)
  <2>1. c \notin Open(h[w].req.session)
    BY DEF Open
  <2> QED BY <1>1, <2>1 DEF SyncDelete
<1>2. CASE Write(w)
  <2> DEFINE id == h[w].id
             row == Saved(id, h[w].row, h[w].diff)
  <2>1. /\ id \in CartIds /\ h[w].row \in Row /\ h[w].diff \in SUBSET (Columns \cup {"id"})
        /\ "order" \in h[w].diff => "id" \in h[w].diff
    <3>1. h[w] \in Handler /\ Shape(h[w]) /\ h[w].pc = "write" /\ Saving(h[w])
      BY <1>2 DEF Write, Saving, IInv, Typed, Shaped
    <3> QED BY <3>1 DEF Shape, Handler
  <2>2. carts \in Rows /\ carts' = [carts EXCEPT ![id] = row] /\ ~Duplicate(id, h[w].diff)
    BY <1>2 DEF IInv, Typed, Write
  <2>3. ASSUME c = id
        PROVE  row \in Row /\ row.order = carts[id].order
    BY <2>1, <2>2, <2>3, SavedIs, Inputs DEF Duplicate
  <2> HIDE DEF row, id
  <2>4. carts'[c] = IF c = id THEN row ELSE carts[c]
    BY <2>2 DEF Rows
  <2> QED BY <2>3, <2>4, Inputs
<1> QED BY <1>1, <1>2

\* The lazy relation of Cart: as long as an ordered row is there it stays linked, whatever older
\* copies are saved and whoever checks out; only its owner's DELETE ends that.
THEOREM LinkOutlivesSaves == Spec => OrderedUntilRemoved
<1> DEFINE StillLinked(c) == carts'[c] # NoRow /\ carts'[c].order # NoOne
           Gone(c) == carts'[c] = NoRow /\ \E w \in Workers : Removes(w, c)
<1>1. ASSUME IInv, [Next]_vars, NEW c \in CartIds, carts[c] # NoRow, carts[c].order # NoOne
      PROVE  StillLinked(c) \/ Gone(c)
  <2>1. PICK p \in ProductOf : Follows(p)
    BY <1>1 DEF IInv, OneProductEach
  <2>2. CASE carts' = carts
    BY <1>1, <2>2
  <2>3. ASSUME NEW w \in Workers, Write(w) \/ SyncDelete(w)
        PROVE  StillLinked(c)
    BY <1>1, <2>3, OrderedRowsKept
  <2>4. ASSUME NEW w \in Workers, Commit(w)
        PROVE  StillLinked(c)
    <3>1. /\ carts' \in Rows /\ h[w].order # NoOne
          /\ carts'[c] = IF h[w].view[c] # NoRow THEN h[w].view[c] ELSE carts[c]
          /\ h[w].view[c] # NoRow => h[w].view[c].order = h[w].order
      BY <1>1, <2>1, <2>4, CommitEffect
    <3> QED BY <1>1, <3>1
  <2>5. ASSUME NEW w \in Workers, Delete(w)
        PROVE  StillLinked(c) \/ Gone(c)
    <3>1. carts'[c] = IF c \in Doomed(w) THEN NoRow ELSE carts[c]
      BY <2>5 DEF Delete
    <3>2. h[w].pc = "delete"
      BY <2>5 DEF Delete
    <3> QED BY <1>1, <3>1, <3>2 DEF Removes
  <2>6. ASSUME NEW w \in Workers, Arrive(w) \/ Step(w) \/ Skip(w) \/ Abort(w)
        PROVE  carts' = carts \/ Write(w) \/ Delete(w) \/ SyncDelete(w) \/ Commit(w)
    BY <1>1, <2>1, <2>6, OtherSteps
  <2> QED BY <1>1, <2>2, <2>3, <2>4, <2>5, <2>6 DEF Next, vars
<1>2. ASSUME IInv, [Next]_vars
      PROVE  [\A c \in CartIds :
                 carts[c] # NoRow /\ carts[c].order # NoOne =>
                    \/ carts'[c] # NoRow /\ carts'[c].order # NoOne
                    \/ carts'[c] = NoRow /\ \E w \in Workers : Removes(w, c)]_vars
  BY <1>1, <1>2
<1> QED BY <1>2, InitIInv, NextIInv, PTL DEF Spec, OrderedUntilRemoved

-----------------------------------------------------------------------------
(* One handler at a time.                                                  *)

LEMMA HoldingIs ==
    ASSUME NEW s, NEW product
    PROVE  Holding(s, product) = {c \in CartIds : OpenRow(carts, c, s, product)}
  BY DEF Holding, Open, OwnedBy, OpenRow

\* A handler that is neither saving nor linking.
LEMMA AtRest ==
    ASSUME NEW x, ~Saving(x), x.pc # "linkWrite",
           \A c \in CartIds : x.copies[c] # NoRow => carts[c] # NoRow /\ carts[c].order = NoOne
    PROVE  Exact(x)
  BY DEF Exact, Saving

\* Taking an open row, or a closed one, to change no more than its quantity.
LEMMA SameOwner ==
    ASSUME IInv, Apart(carts), NEW c \in CartIds, carts[c] # NoRow, NEW row \in Row,
           row.user = carts[c].user, row.session = carts[c].session, row.product = carts[c].product
    PROVE  carts[c] = NoRow \/ carts[c].order = NoOne =>
               \A s \in Shoppers, d \in CartIds :
                   Owned(row, s) /\ OpenRow(carts, d, s, row.product) => d = c
<1> SUFFICES ASSUME carts[c].order = NoOne, NEW s \in Shoppers, NEW d \in CartIds,
                    Owned(row, s), OpenRow(carts, d, s, row.product)
             PROVE  d = c
  OBVIOUS
<1>1. Owned(carts[c], s)
  BY DEF Owned
<1>2. OpenRow(carts, c, s, row.product) /\ row.product \in Products
  BY <1>1 DEF OpenRow, Row
<1> QED BY <1>2 DEF Apart

\* Taking a new row, or one that is taken over, for a shopper who has none.
LEMMA NewOwner ==
    ASSUME NEW u \in Shoppers, NEW row, NEW c, NEW product, row.product = product,
           Holding(u, product) = {},
           \A s \in Shoppers : Owned(row, s) => s = u
    PROVE  \A s \in Shoppers, d \in CartIds :
               Owned(row, s) /\ OpenRow(carts, d, s, row.product) => d = c
  BY HoldingIs

LEMMA ToSaveExact ==
    ASSUME IInv, NEW w \in Workers, Exact(h[w]), h[w].pc # "linkWrite",
           NEW c \in CartIds, NEW row \in Row, NEW i \in CartIds \cup {NoRow},
           carts[c] = NoRow \/ carts[c].order = NoOne =>
               \A s \in Shoppers, d \in CartIds :
                   Owned(row, s) /\ OpenRow(carts, d, s, row.product) => d = c,
           carts[c] # NoRow \/ ~ListedIn(c),
           h' = [h EXCEPT ![w] = [ToSave(w, c, row) EXCEPT !.item = i]]
    PROVE  Exact(h'[w])
<1> DEFINE x == [ToSave(w, c, row) EXCEPT !.item = i]
<1>1. h[w] \in Handler /\ h'[w] = x
  BY DEF IInv, Typed
<1>2. x.pc = "compare" /\ x.id = c /\ x.row = row /\ x.copies = h[w].copies
  BY <1>1, ToSaveIs
<1> HIDE DEF x
<1>3. Exact(x)
  BY <1>2 DEF Exact, Saving
<1> QED BY <1>1, <1>3

LEMMA FindCartExact ==
    ASSUME IInv, SInv, NEW w \in Workers, FindCart(w)
    PROVE  Exact(h'[w])
<1> DEFINE item == Head(h[w].todo)
           s == h[w].req.shopper
<1>1. h[w] \in Handler /\ Shape(h[w]) /\ h[w].pc = "find" /\ h[w].todo # <<>>
  BY DEF FindCart, IInv, Typed, Shaped
<1>2. item \in Item /\ s \in Shoppers
  BY <1>1, RequestIs DEF Handler, Shape
<1>3. h[w].item \in CartIds \cup {NoRow} /\ Exact(h[w]) /\ Apart(carts)
  BY <1>1 DEF Handler, SInv
<1>4. ASSUME NEW c \in Holding(s, item.product),
             h' = [h EXCEPT ![w] = ToSave(w, c, Grown(c, Asked(item)))]
      PROVE  Exact(h'[w])
  <2> DEFINE row == Grown(c, Asked(item))
  <2>1. c \in CartIds /\ carts[c] # NoRow /\ Asked(item) \in Nat
    BY <1>2, OwnedRows, AskedIs DEF Holding
  <2>2. /\ row \in Row /\ row.product = carts[c].product
        /\ row.user = carts[c].user /\ row.session = carts[c].session
    BY <2>1, GrownIs DEF IInv
  <2>3. h' = [h EXCEPT ![w] = [ToSave(w, c, row) EXCEPT !.item = h[w].item]]
    BY <1>3, <1>4, ItemKept
  <2> HIDE DEF row
  <2>4. carts[c] = NoRow \/ carts[c].order = NoOne =>
            \A t \in Shoppers, d \in CartIds :
                Owned(row, t) /\ OpenRow(carts, d, t, row.product) => d = c
    BY <1>3, <2>1, <2>2, SameOwner
  <2> QED BY <1>1, <1>3, <2>1, <2>2, <2>3, <2>4, ToSaveExact
<1>5. CASE /\ Holding(s, item.product) = {} /\ FreshCarts # {}
           /\ h' = [h EXCEPT ![w] = ToSave(w, FreshCart, NewRow(s, item))]
  <2> DEFINE c == FreshCart
             row == NewRow(s, item)
  <2>1. c \in CartIds /\ Fresh(c)
    BY <1>5 DEF FreshCarts, FreshCart
  <2>2. /\ row \in Row /\ row.product = item.product
        /\ row.user = IF s \in Users THEN s ELSE NoOne
        /\ row.session = IF s \in Sessions THEN s ELSE NoOne
    BY <1>2, NewRowIs
  <2>3. \A t \in Shoppers : Owned(row, t) => t = s
    BY <2>2, Inputs DEF Owned, Shoppers
  <2>4. ~ListedIn(c)
    BY <2>1 DEF Fresh, ListedIn
  <2>5. h' = [h EXCEPT ![w] = [ToSave(w, c, row) EXCEPT !.item = h[w].item]]
    BY <1>3, <1>5, ItemKept
  <2> HIDE DEF c, row
  <2>6. \A t \in Shoppers, d \in CartIds :
            Owned(row, t) /\ OpenRow(carts, d, t, row.product) => d = c
    BY <1>2, <1>5, <2>2, <2>3, NewOwner
  <2> QED BY <1>1, <1>3, <2>1, <2>2, <2>4, <2>5, <2>6, ToSaveExact
<1> QED BY <1>4, <1>5 DEF FindCart

LEMMA SyncItemExact ==
    ASSUME IInv, SInv, NEW w \in Workers, SyncItem(w)
    PROVE  Exact(h'[w])
<1>1. h[w] \in Handler /\ Shape(h[w]) /\ h[w].pc = "sync" /\ Exact(h[w]) /\ Apart(carts)
  BY DEF SyncItem, IInv, Typed, Shaped, SInv
<1> DEFINE user == h[w].req.shopper
<1>2. PICK c \in CartIds :
        /\ h[w].copies[c] # NoRow
        /\ \/ \E mine \in Holding(user, h[w].copies[c].product) :
                 h' = [h EXCEPT ![w] =
                         [ToSave(w, mine, Grown(mine, h[w].copies[c].quantity)) EXCEPT !.item = c]]
           \/ /\ Holding(user, h[w].copies[c].product) = {}
              /\ h' = [h EXCEPT ![w] = [ToSave(w, c, TakeOver(h[w].copies[c], user))
                                       EXCEPT !.item = c]]
  BY DEF SyncItem
<1>3. h[w].copies[c] \in Row /\ carts[c] # NoRow /\ user \in Users
  BY <1>1, <1>2, RequestIs DEF Handler, Rows, Exact, Shape
<1>4. ASSUME NEW mine \in Holding(user, h[w].copies[c].product),
             h' = [h EXCEPT ![w] =
                     [ToSave(w, mine, Grown(mine, h[w].copies[c].quantity)) EXCEPT !.item = c]]
      PROVE  Exact(h'[w])
  <2> DEFINE row == Grown(mine, h[w].copies[c].quantity)
  <2>1. mine \in CartIds /\ carts[mine] # NoRow /\ h[w].copies[c].quantity \in Nat
    BY <1>3, OwnedRows DEF Holding, Row
  <2>2. /\ row \in Row /\ row.product = carts[mine].product
        /\ row.user = carts[mine].user /\ row.session = carts[mine].session
    BY <2>1, GrownIs DEF IInv
  <2>3. h' = [h EXCEPT ![w] = [ToSave(w, mine, row) EXCEPT !.item = c]]
    BY <1>4
  <2> HIDE DEF row
  <2>4. carts[mine] = NoRow \/ carts[mine].order = NoOne =>
            \A t \in Shoppers, d \in CartIds :
                Owned(row, t) /\ OpenRow(carts, d, t, row.product) => d = mine
    BY <1>1, <2>1, <2>2, SameOwner
  <2> QED BY <1>1, <2>1, <2>2, <2>3, <2>4, ToSaveExact
<1>5. CASE /\ Holding(user, h[w].copies[c].product) = {}
           /\ h' = [h EXCEPT ![w] = [ToSave(w, c, TakeOver(h[w].copies[c], user))
                                       EXCEPT !.item = c]]
  <2> DEFINE row == TakeOver(h[w].copies[c], user)
  <2>1. /\ row \in Row /\ row.product = h[w].copies[c].product
        /\ row.user = user /\ row.session = NoOne
    BY <1>3 DEF TakeOver, Row
  <2>2. h' = [h EXCEPT ![w] = [ToSave(w, c, row) EXCEPT !.item = c]]
    BY <1>5
  <2> HIDE DEF row
  <2>3. user \in Shoppers /\ \A t \in Shoppers : Owned(row, t) => t = user
    BY <1>3, <2>1, Inputs DEF Owned, Shoppers
  <2>4. \A t \in Shoppers, d \in CartIds :
            Owned(row, t) /\ OpenRow(carts, d, t, row.product) => d = c
    BY <1>5, <2>1, <2>3, NewOwner
  <2> QED BY <1>1, <1>3, <2>1, <2>2, <2>4, ToSaveExact
<1> QED BY <1>2, <1>4, <1>5

LEMMA ArriveExact ==
    ASSUME IInv, SInv, NEW w \in Workers, Arrive(w)
    PROVE  Exact(h'[w])
<1>1. PICK r \in Requests :
        \/ AddToCart(w, r) \/ AddQuantity(w, r)
        \/ RemoveFromCart(w, r) \/ RemoveAllFromGuestCart(w, r)
        \/ SyncGuestCartWithUser(w, r) \/ Checkout(w, r)
  BY DEF Arrive
<1>2. h \in [Workers -> Handler] /\ Typed /\ Apart(carts)
  BY DEF IInv, Typed, SInv
<1>3. CASE h' = [h EXCEPT ![w] = Resting]
  <2>1. h'[w] = Resting
    BY <1>2, <1>3
  <2> QED BY <2>1, RestingIs, AtRest DEF Saving
<1>4. ASSUME NEW pc \in {"find", "delete"}, NEW todo,
             h' = [h EXCEPT ![w] = [Start(r, pc) EXCEPT !.todo = todo]]
      PROVE  Exact(h'[w])
  <2> DEFINE x == [Start(r, pc) EXCEPT !.todo = todo]
  <2>1. h'[w] = x
    BY <1>2, <1>4
  <2>2. /\ Start(r, pc) \in Handler /\ Start(r, pc).pc = pc
        /\ \A c \in CartIds : Start(r, pc).copies[c] = NoRow
    BY StartIs DEF PC
  <2>3. x.pc = pc /\ \A c \in CartIds : x.copies[c] = NoRow
    BY <2>2 DEF Handler
  <2> HIDE DEF x
  <2> QED BY <2>1, <2>3, AtRest DEF Saving
<1>5. ASSUME NEW pc \in {"sync", "customer"}, NEW s,
             h' = [h EXCEPT ![w] = [Start(r, pc) EXCEPT !.copies = CopiesOf(Open(s))]]
      PROVE  Exact(h'[w])
  <2> DEFINE x == [Start(r, pc) EXCEPT !.copies = CopiesOf(Open(s))]
  <2>1. h'[w] = x
    BY <1>2, <1>5
  <2>2. Start(r, pc) \in Handler /\ Start(r, pc).pc = pc
    BY StartIs DEF PC
  <2>3. x.pc = pc /\ x.copies = CopiesOf(Open(s))
    BY <2>2 DEF Handler
  <2>4. \A c \in CartIds : CopiesOf(Open(s))[c] # NoRow => c \in Open(s)
    BY <1>2, OwnedRows, CopiesAre
  <2>5. \A c \in Open(s) : carts[c] # NoRow /\ carts[c].order = NoOne
    BY OwnedRows DEF Open
  <2> HIDE DEF x
  <2> QED BY <2>1, <2>3, <2>4, <2>5, AtRest DEF Saving
<1>6. CASE AddToCart(w, r)
  BY <1>4, <1>6 DEF AddToCart
<1>7. CASE AddQuantity(w, r) /\ r.cart \in OwnedBy(r.shopper)
  <2> DEFINE c == r.cart
             row == [Loaded(c) EXCEPT !.quantity = r.quantity]
             x == [Start(r, "compare") EXCEPT !.id = c, !.row = row]
  <2>1. c \in CartIds /\ carts[c] # NoRow /\ r.quantity \in Nat \ {0}
    BY <1>7, RequestIs, OwnedRows
  <2>2. /\ row \in Row /\ row.product = carts[c].product
        /\ row.user = carts[c].user /\ row.session = carts[c].session
    BY <1>2, <2>1, LoadedIs DEF Row
  <2>3. h'[w] = x
    BY <1>2, <1>7 DEF AddQuantity
  <2>4. /\ Start(r, "compare") \in Handler /\ Start(r, "compare").pc = "compare"
        /\ \A d \in CartIds : Start(r, "compare").copies[d] = NoRow
    BY StartIs DEF PC
  <2> HIDE DEF row, c
  <2>5. x.pc = "compare" /\ x.id = c /\ x.row = row /\ \A d \in CartIds : x.copies[d] = NoRow
    BY <2>4 DEF Handler
  <2> HIDE DEF x
  <2>6. carts[c] = NoRow \/ carts[c].order = NoOne =>
            \A t \in Shoppers, d \in CartIds :
                Owned(row, t) /\ OpenRow(carts, d, t, row.product) => d = c
    BY <1>2, <2>1, <2>2, SameOwner
  <2>7. Exact(x)
    BY <2>1, <2>5, <2>6 DEF Exact, Saving
  <2> QED BY <2>3, <2>7
<1>8. CASE h' = [h EXCEPT ![w] = Start(r, "delete")]
  <2>1. /\ Start(r, "delete").pc = "delete"
        /\ \A c \in CartIds : Start(r, "delete").copies[c] = NoRow
    BY StartIs DEF PC
  <2>2. h'[w] = Start(r, "delete")
    BY <1>2, <1>8
  <2> QED BY <2>1, <2>2, AtRest DEF Saving
<1>9. CASE SyncGuestCartWithUser(w, r)
  BY <1>3, <1>5, <1>9 DEF SyncGuestCartWithUser, Answer
<1>10. CASE Checkout(w, r)
  BY <1>3, <1>5, <1>10 DEF Checkout, CartsForCheckout, Answer
<1> QED BY <1>1, <1>3, <1>6, <1>7, <1>8, <1>9, <1>10
        DEF AddQuantity, RemoveFromCart, RemoveAllFromGuestCart, Answer

LEMMA CompareExact ==
    ASSUME IInv, SInv, NEW w \in Workers, Compare(w)
    PROVE  Exact(h'[w])
<1> DEFINE diff == Differing(h[w].id, h[w].row, SavedColumns)
           x == [h[w] EXCEPT !.pc = "write", !.diff = diff]
<1>1. h[w] \in Handler /\ h[w].pc = "compare" /\ Exact(h[w])
  BY DEF Compare, IInv, Typed, SInv
<1>2. h'[w] = x
  BY DEF Compare, IInv, Typed
<1>3. carts[h[w].id] # NoRow =>
          /\ "user" \in diff \/ h[w].row.user = carts[h[w].id].user
          /\ "session" \in diff \/ h[w].row.session = carts[h[w].id].session
  BY DEF Differing, SavedColumns, Columns
<1> HIDE DEF diff
<1>4. /\ x.pc = "write" /\ x.id = h[w].id /\ x.row = h[w].row /\ x.diff = diff
      /\ x.copies = h[w].copies
  BY <1>1 DEF Handler
<1> HIDE DEF x
<1>5. Exact(x)
  BY <1>1, <1>3, <1>4 DEF Exact, Saving
<1> QED BY <1>2, <1>5

LEMMA CompareCartsExact ==
    ASSUME IInv, SInv, NEW w \in Workers, CompareCarts(w)
    PROVE  Exact(h'[w])
<1> DEFINE links == [c \in CartIds |->
                        IF c \in InCart(w) THEN Differing(c, Linked(w, c), Columns) ELSE {}]
           x == [h[w] EXCEPT !.pc = "linkWrite", !.links = links]
<1>1. h[w] \in Handler /\ Shape(h[w]) /\ h[w].pc = "link" /\ Exact(h[w])
  BY DEF CompareCarts, IInv, Typed, Shaped, SInv
<1>2. h'[w] = x
  BY DEF CompareCarts, IInv, Typed
<1>3. h[w].order # NoOne
  BY <1>1 DEF Shape
<1>4. PICK p \in ProductOf : Follows(p)
  BY DEF IInv, OneProductEach
<1>5. ASSUME NEW c \in CartIds, h[w].copies[c] # NoRow
      PROVE  links[c] # {}
  <2>1. c \in InCart(w) /\ carts[c] # NoRow
    BY <1>1, <1>5 DEF InCart, Exact
  <2>2. Linked(w, c)["order"] # carts[c]["order"]
    BY <1>3, <1>4, <2>1, NoneLinked, LinkedIs
  <2> QED BY <2>1, <2>2 DEF Differing, Columns
<1> HIDE DEF links
<1>6. x.pc = "linkWrite" /\ x.copies = h[w].copies /\ x.links = links
  BY <1>1 DEF Handler
<1> HIDE DEF x
<1>7. Exact(x)
  BY <1>1, <1>5, <1>6 DEF Exact, Saving
<1> QED BY <1>2, <1>7

LEMMA LinkCartExact ==
    ASSUME IInv, SInv, NEW w \in Workers, LinkCart(w)
    PROVE  Exact(h'[w])
<1>1. h[w] \in Handler /\ Shape(h[w]) /\ h[w].pc = "linkWrite" /\ Exact(h[w])
      /\ h \in [Workers -> Handler] /\ carts \in Rows
  BY DEF LinkCart, IInv, Typed, Shaped, SInv
<1>2. PICK c \in CartIds :
        /\ h[w].links[c] # {}
        /\ \/ Answer(w)
           \/ h' = [h EXCEPT ![w] = [h[w] EXCEPT
                     !.links = [h[w].links EXCEPT ![c] = {}],
                     !.view = [h[w].view EXCEPT
                                  ![c] = Saved(c, Linked(w, c), h[w].links[c])]]]
  BY DEF LinkCart
<1>3. CASE Answer(w)
  <2>1. h'[w] = Resting
    BY <1>1, <1>3 DEF Answer
  <2> QED BY <2>1, RestingIs, AtRest DEF Saving
<1>4. CASE h' = [h EXCEPT ![w] = [h[w] EXCEPT
                     !.links = [h[w].links EXCEPT ![c] = {}],
                     !.view = [h[w].view EXCEPT
                                  ![c] = Saved(c, Linked(w, c), h[w].links[c])]]]
  <2> DEFINE row == Saved(c, Linked(w, c), h[w].links[c])
             links == [h[w].links EXCEPT ![c] = {}]
             view == [h[w].view EXCEPT ![c] = row]
             x == [h[w] EXCEPT !.links = links, !.view = view]
  <2>1. PICK p \in ProductOf : Follows(p)
    BY DEF IInv, OneProductEach
  <2>2. /\ h[w].copies[c] # NoRow /\ h[w].order # NoOne /\ c \in InCart(w)
        /\ h[w].links[c] \in SUBSET (Columns \cup {"id"})
    BY <1>1, <1>2 DEF Shape, InCart, Handler
  <2>3. carts[c] # NoRow /\ Linked(w, c) \in Row
    BY <1>1, <2>1, <2>2, LinkedIs DEF Exact
  <2>4. row # NoRow
    BY <1>1, <2>2, <2>3, SavedIs, Inputs
  <2> HIDE DEF row
  <2>5. \A d \in CartIds : /\ links[d] = IF d = c THEN {} ELSE h[w].links[d]
                          /\ view[d] = IF d = c THEN row ELSE h[w].view[d]
    BY <1>1 DEF Handler, Rows
  <2>6. h'[w] = x
    BY <1>1, <1>4 DEF row
  <2> HIDE DEF links, view
  <2>7. x.pc = "linkWrite" /\ x.copies = h[w].copies /\ x.links = links /\ x.view = view
    BY <1>1 DEF Handler
  <2> HIDE DEF x
  <2>8. Exact(x)
    BY <1>1, <2>4, <2>5, <2>7 DEF Exact, Saving
  <2> QED BY <2>6, <2>8
<1> QED BY <1>2, <1>3, <1>4

\* The first steps of a checkout leave the copies as they are.
LEMMA CustomerExact ==
    ASSUME IInv, SInv, NEW w \in Workers, FindCustomer(w) \/ SaveCustomer(w) \/ CreateSale(w)
    PROVE  Exact(h'[w])
<1>1. h[w] \in Handler /\ Exact(h[w]) /\ h \in [Workers -> Handler]
  BY DEF IInv, Typed, SInv
<1>2. CASE Answer(w)
  <2>1. h'[w] = Resting
    BY <1>1, <1>2 DEF Answer
  <2> QED BY <2>1, RestingIs, AtRest DEF Saving
<1>3. ASSUME NEW x, h'[w] = x, x.pc \in {"saveCustomer", "order", "link"}, x.copies = h[w].copies
      PROVE  Exact(h'[w])
  BY <1>1, <1>3, AtRest DEF Exact, Saving
<1>4. CASE FindCustomer(w)
  <2> DEFINE x == [h[w] EXCEPT !.pc = "saveCustomer", !.known = h[w].req.email \in customers]
  <2>1. h'[w] = x /\ x.pc = "saveCustomer" /\ x.copies = h[w].copies
    BY <1>1, <1>4 DEF FindCustomer, Handler
  <2> HIDE DEF x
  <2> QED BY <1>3, <2>1
<1>5. CASE SaveCustomer(w) /\ ~Answer(w)
  <2> DEFINE x == [h[w] EXCEPT !.pc = "order"]
             y == [h[w] EXCEPT !.pc = "order", !.email = h[w].req.email]
  <2>1. /\ x.pc = "order" /\ x.copies = h[w].copies
        /\ y.pc = "order" /\ y.copies = h[w].copies
    BY <1>1 DEF Handler
  <2>2. h'[w] = x \/ h'[w] = y
    BY <1>1, <1>5 DEF SaveCustomer
  <2> HIDE DEF x, y
  <2> QED BY <1>3, <2>1, <2>2
<1>6. ASSUME NEW o, h' = [h EXCEPT ![w] = [h[w] EXCEPT !.pc = "link", !.order = o]]
      PROVE  Exact(h'[w])
  <2> DEFINE x == [h[w] EXCEPT !.pc = "link", !.order = o]
  <2>1. h'[w] = x /\ x.pc = "link" /\ x.copies = h[w].copies
    BY <1>1, <1>6 DEF Handler
  <2> HIDE DEF x
  <2> QED BY <1>3, <2>1
<1> QED BY <1>2, <1>4, <1>5, <1>6 DEF CreateSale

LEMMA RestExact ==
    ASSUME IInv, SInv, NEW w \in Workers,
           Skip(w) \/ Abort(w) \/ FindDone(w) \/ Notify(w) \/ DeadlockAbort(w) \/ WriteFails(w)
    PROVE  Exact(h'[w])
<1>1. Exact(h[w]) /\ h \in [Workers -> Handler]
  BY DEF IInv, Typed, SInv
<1>2. CASE h' = [h EXCEPT ![w] = Resting]
  <2>1. h'[w] = Resting
    BY <1>1, <1>2
  <2> QED BY <2>1, RestingIs, AtRest DEF Saving
<1>3. CASE Saving(h[w]) /\ h' = [h EXCEPT ![w] = NextRow(w)]
  <2>1. PICK p \in ProductOf : Follows(p)
    BY DEF IInv, OneProductEach
  <2>2. h'[w] = NextRow(w)
    BY <1>1, <1>3
  <2>3. /\ NextRow(w).pc \in {"idle", "sync", "find"}
        /\ \A c \in CartIds : NextRow(w).copies[c] # NoRow => h[w].copies[c] # NoRow
    BY <1>3, <2>1, NextRowIs
  <2>4. \A c \in CartIds : NextRow(w).copies[c] # NoRow => carts[c] # NoRow /\ carts[c].order = NoOne
    BY <1>1, <2>3 DEF Exact
  <2> QED BY <2>2, <2>3, <2>4, AtRest DEF Saving
<1> QED BY <1>2, <1>3
        DEF Skip, Abort, FindDone, Notify, DeadlockAbort, WriteFails, Answer, Saving

LEMMA OtherStepsSerial ==
    ASSUME OneAtATime, IInv, SInv, NEW w \in Workers,
           \/ Arrive(w) \/ Skip(w) \/ Abort(w)
           \/ Step(w) /\ ~Write(w) /\ ~Delete(w) /\ ~SyncDelete(w) /\ ~Commit(w)
    PROVE  SInv'
<1>1. PICK p \in ProductOf : Follows(p)
  BY DEF IInv, OneProductEach
<1>2. carts' = carts /\ orders' = orders
  BY <1>1, OtherSteps
<1>3. Exact(h'[w])
  BY ArriveExact, RestExact, FindCartExact, SyncItemExact, CompareExact, CompareCartsExact,
     LinkCartExact, CustomerExact DEF Step
<1>4. \A v \in Workers : v = w
  BY DEF OneAtATime
<1>5. (\A v \in Workers : Exact(h[v]))'
  BY <1>2, <1>3, <1>4 DEF Exact, ListedIn
<1>6. Apart(carts)' /\ BoughtIsClosed' /\ OrderedOnce'
  BY <1>2 DEF SInv, BoughtIsClosed, ListedIn, OrderedOnce
<1> QED BY <1>5, <1>6 DEF SInv

LEMMA WriteSerial ==
    ASSUME OneAtATime, IInv, SInv, NEW w \in Workers, Write(w)
    PROVE  SInv'
<1> DEFINE id == h[w].id
           entity == h[w].row
           row == Saved(id, entity, h[w].diff)
<1>1. PICK p \in ProductOf : Follows(p)
  BY DEF IInv, OneProductEach
<1>2. /\ h[w] \in Handler /\ Shape(h[w]) /\ HandlerOf(h[w], p) /\ Exact(h[w])
      /\ h[w].pc = "write" /\ Saving(h[w]) /\ h \in [Workers -> Handler]
  BY <1>1, HandlerIs DEF Write, Saving, SInv, IInv, Typed
<1>3. /\ id \in CartIds /\ entity \in Row /\ entity.order = NoOne /\ entity.product = p[id]
      /\ h[w].diff \in SUBSET (Columns \cup {"id"})
      /\ "order" \in h[w].diff => "id" \in h[w].diff
  BY <1>2 DEF Shape, HandlerOf, Handler
<1>4. carts \in Rows /\ RowsOf(carts, p) /\ orders' = orders
      /\ carts' = [carts EXCEPT ![id] = row] /\ h'[w] = NextRow(w)
  BY <1>1, <1>2 DEF IInv, Typed, Follows, Write
<1>5. /\ "id" \in h[w].diff => row = entity /\ carts[id] = NoRow
      /\ "id" \notin h[w].diff /\ carts[id] = NoRow => row = NoRow
      /\ "id" \notin h[w].diff /\ carts[id] # NoRow =>
            /\ row \in Row /\ row.product = carts[id].product /\ row.order = carts[id].order
            /\ row.user = IF "user" \in h[w].diff THEN entity.user ELSE carts[id].user
            /\ row.session = IF "session" \in h[w].diff THEN entity.session ELSE carts[id].session
  BY <1>3, <1>4, SavedIs DEF Write, Duplicate
<1>6. row # NoRow => /\ row.user = entity.user /\ row.session = entity.session
                     /\ row.product = entity.product
  BY <1>2, <1>3, <1>4, <1>5 DEF Exact, RowsOf
<1>7. row # NoRow /\ row.order = NoOne => carts[id] = NoRow \/ carts[id].order = NoOne
  BY <1>5
<1>8. carts[id] # NoRow => row # NoRow /\ row.order = carts[id].order
  BY <1>5, Inputs
<1>9. carts[id] = NoRow /\ row # NoRow => ~ListedIn(id)
  BY <1>2 DEF Exact
<1>10. row # NoRow /\ row.order = NoOne =>
           \A s \in Shoppers, d \in CartIds :
               Owned(row, s) /\ OpenRow(carts, d, s, row.product) => d = id
  <2>1. SUFFICES ASSUME row # NoRow, row.order = NoOne, NEW s \in Shoppers, NEW d \in CartIds,
                        Owned(row, s), OpenRow(carts, d, s, row.product)
                 PROVE  d = id
    OBVIOUS
  <2>2. Owned(entity, s) /\ row.product = entity.product
    BY <1>6, <2>1 DEF Owned
  <2> QED BY <1>2, <1>7, <2>1, <2>2 DEF Exact
<1> HIDE DEF row, entity, id
<1>11. \A c \in CartIds : carts'[c] = IF c = id THEN row ELSE carts[c]
  BY <1>4 DEF Rows
<1>12. Apart(carts)'
  <2> SUFFICES ASSUME NEW s \in Shoppers, NEW product \in Products,
                      NEW c \in CartIds, NEW d \in CartIds,
                      OpenRow(carts', c, s, product), OpenRow(carts', d, s, product)
               PROVE  c = d
    BY DEF Apart
  <2>1. \A e \in CartIds : e # id /\ OpenRow(carts', e, s, product) => OpenRow(carts, e, s, product)
    BY <1>11 DEF OpenRow
  <2>2. ASSUME NEW e \in CartIds, e # id, OpenRow(carts', e, s, product),
               OpenRow(carts', id, s, product)
        PROVE  FALSE
    <3>1. row # NoRow /\ row.order = NoOne /\ Owned(row, s) /\ row.product = product
      BY <1>3, <1>11, <2>2 DEF OpenRow
    <3> QED BY <1>10, <2>1, <2>2, <3>1
  <2> QED BY <1>3, <2>1, <2>2 DEF SInv, Apart
<1>13. BoughtIsClosed'
  BY <1>4, <1>8, <1>9, <1>11 DEF SInv, BoughtIsClosed, ListedIn
<1>14. OrderedOnce'
  BY <1>4 DEF SInv, OrderedOnce
<1>15. ASSUME NEW x, x = NextRow(w)
       PROVE  Exact(x)'
  <2>1. /\ x.pc \in {"idle", "sync", "find"}
        /\ \A c \in CartIds : x.copies[c] # NoRow => h[w].copies[c] # NoRow
    BY <1>1, <1>2, <1>15, NextRowIs
  <2>2. \A c \in CartIds : x.copies[c] # NoRow => carts'[c] # NoRow /\ carts'[c].order = NoOne
    BY <1>2, <1>8, <1>11, <2>1 DEF Exact
  <2> QED BY <2>1, <2>2 DEF Exact, Saving
<1>16. \A v \in Workers : v = w
  BY DEF OneAtATime
<1>17. (\A v \in Workers : Exact(h[v]))'
  BY <1>4, <1>15, <1>16
<1> QED BY <1>12, <1>13, <1>14, <1>17 DEF SInv

LEMMA DeleteSerial ==
    ASSUME OneAtATime, IInv, SInv, NEW w \in Workers, Delete(w) \/ SyncDelete(w)
    PROVE  SInv'
<1>1. PICK doomed : carts' = [c \in CartIds |-> IF c \in doomed THEN NoRow ELSE carts[c]]
  BY DEF Delete, SyncDelete
<1>2. orders' = orders /\ h'[w] = Resting
  BY DEF Delete, SyncDelete, Answer, IInv, Typed
<1>3. \A c \in CartIds : carts'[c] = NoRow \/ carts'[c] = carts[c]
  BY <1>1
<1>4. Apart(carts)'
  BY <1>3 DEF SInv, Apart, OpenRow
<1>5. BoughtIsClosed' /\ OrderedOnce'
  BY <1>2, <1>3 DEF SInv, BoughtIsClosed, ListedIn, OrderedOnce
<1>6. ASSUME NEW x, x = Resting
      PROVE  Exact(x)'
  BY <1>6, RestingIs DEF Exact, Saving
<1>7. \A v \in Workers : v = w
  BY DEF OneAtATime
<1>8. (\A v \in Workers : Exact(h[v]))'
  BY <1>2, <1>6, <1>7
<1> QED BY <1>4, <1>5, <1>8 DEF SInv

LEMMA CommitSerial ==
    ASSUME OneAtATime, IInv, SInv, NEW w \in Workers, Commit(w)
    PROVE  SInv'
<1>1. PICK p \in ProductOf : Follows(p)
  BY DEF IInv, OneProductEach
<1>2. /\ h[w] \in Handler /\ Shape(h[w]) /\ h[w].pc = "linkWrite" /\ Exact(h[w])
      /\ h[w].req \in Requests /\ h \in [Workers -> Handler]
      /\ \A c \in CartIds : h[w].links[c] = {}
  BY DEF Commit, SInv, IInv, Typed, Shaped, Shape
<1> DEFINE o == h[w].order
<1>3. /\ o \in Orders /\ o # NoOne
      /\ \A q \in Orders : orders'[q] = IF q = o THEN Ordered(w) ELSE orders[q]
      /\ \A c \in CartIds :
            carts'[c] = IF h[w].view[c] # NoRow THEN h[w].view[c] ELSE carts[c]
      /\ \A c \in CartIds : h[w].view[c] # NoRow => h[w].view[c].order = o
  BY <1>1, CommitEffect
<1>4. \A item \in Ordered(w) :
          /\ item.cart \in CartIds /\ h[w].view[item.cart] # NoRow
          /\ carts[item.cart] # NoRow /\ carts[item.cart].order = NoOne
  BY <1>2 DEF Ordered, InCart, Exact
<1>5. Apart(carts)'
  <2>1. \A c \in CartIds : \A s, product : OpenRow(carts', c, s, product) => OpenRow(carts, c, s, product)
    BY <1>3 DEF OpenRow
  <2> QED BY <2>1 DEF SInv, Apart
<1>6. BoughtIsClosed'
  <2> SUFFICES ASSUME NEW q \in Orders, NEW item \in orders'[q], item.cart \in CartIds
               PROVE  carts'[item.cart] = NoRow \/ carts'[item.cart].order # NoOne
    BY DEF BoughtIsClosed, ListedIn
  <2>1. CASE q = o
    BY <1>3, <1>4, <2>1
  <2>2. CASE q # o
    <3>1. item \in orders[q]
      BY <1>3, <2>2
    <3>2. carts[item.cart] = NoRow \/ carts[item.cart].order # NoOne
      BY <3>1 DEF SInv, BoughtIsClosed, ListedIn
    <3> QED BY <1>3, <3>2
  <2> QED BY <2>1, <2>2
<1>7. OrderedOnce'
  <2>1. \A q \in Orders, item \in Ordered(w) : q # o =>
            \A other \in orders[q] : other.cart # item.cart
    BY <1>4 DEF SInv, BoughtIsClosed, ListedIn
  <2> SUFFICES ASSUME NEW q \in Orders, NEW r \in Orders, q # r,
                      NEW item \in orders'[q], NEW other \in orders'[r],
                      item.cart = other.cart
               PROVE  FALSE
    BY DEF OrderedOnce
  <2>2. CASE q = o
    BY <1>3, <2>1, <2>2
  <2>3. CASE r = o
    BY <1>3, <2>1, <2>3
  <2>4. CASE q # o /\ r # o
    BY <1>3, <2>4 DEF SInv, OrderedOnce
  <2> QED BY <2>2, <2>3, <2>4
<1>8. ASSUME NEW x, x = Start(h[w].req, "notify")
      PROVE  Exact(x)'
  <2>1. x.pc = "notify" /\ \A c \in CartIds : x.copies[c] = NoRow
    BY <1>2, <1>8, StartIs DEF PC
  <2> QED BY <2>1 DEF Exact, Saving
<1>9. h'[w] = Start(h[w].req, "notify")
  BY <1>2 DEF Commit
<1>10. \A v \in Workers : v = w
  BY DEF OneAtATime
<1>11. (\A v \in Workers : Exact(h[v]))'
  BY <1>8, <1>9, <1>10
<1> QED BY <1>5, <1>6, <1>7, <1>11 DEF SInv

LEMMA InitSInv ==
    ASSUME OneRowAtFirst, Init
    PROVE  SInv
<1>1. carts \in InitialCarts /\ orders = [o \in Orders |-> {}] /\ h = [w \in Workers |-> Resting]
  BY DEF Init
<1>2. Apart(carts)
  BY <1>1 DEF OneRowAtFirst
<1>3. BoughtIsClosed /\ OrderedOnce
  BY <1>1 DEF BoughtIsClosed, ListedIn, OrderedOnce
<1>4. Exact(Resting)
  BY RestingIs, AtRest DEF Saving
<1> QED BY <1>1, <1>2, <1>3, <1>4 DEF SInv

LEMMA NextSInv ==
    ASSUME OneAtATime, IInv, SInv, [Next]_vars
    PROVE  SInv'
<1>1. CASE UNCHANGED vars
  <2>1. UNCHANGED <<carts, orders, h>>
    BY <1>1 DEF vars
  <2>2. Apart(carts)' /\ BoughtIsClosed' /\ OrderedOnce'
    BY <2>1 DEF SInv, BoughtIsClosed, ListedIn, OrderedOnce
  <2>3. (\A w \in Workers : Exact(h[w]))'
    BY <2>1 DEF SInv, Exact, ListedIn
  <2> QED BY <2>2, <2>3 DEF SInv
<1>2. ASSUME NEW w \in Workers, Arrive(w) \/ Step(w) \/ Skip(w) \/ Abort(w)
      PROVE  SInv'
  BY <1>2, WriteSerial, DeleteSerial, CommitSerial, OtherStepsSerial
<1> QED BY <1>1, <1>2 DEF Next

LEMMA SInvImpliesOneRow == SInv => OneRowPerProduct
<1> SUFFICES ASSUME SInv, NEW s \in Shoppers, NEW product \in Products
             PROVE  Cardinality(Holding(s, product)) <= 1
  BY DEF OneRowPerProduct
<1>1. \A c, d \in Holding(s, product) : c = d
  BY HoldingIs DEF SInv, Apart
<1>2. CASE Holding(s, product) = {}
  BY <1>2, FS_EmptySet
<1>3. CASE \E c : Holding(s, product) = {c}
  <2>1. PICK c : Holding(s, product) = {c}
    BY <1>3
  <2>2. Cardinality({c}) = 1
    BY FS_Singleton
  <2> QED BY <2>1, <2>2
<1> QED BY <1>1, <1>2, <1>3

\* findCart and the merge: with one handler at a time no product is ever in two
\* rows of an open cart, not even after a failure half way.
THEOREM OneRowSerially ==
    ASSUME OneAtATime, OneRowAtFirst
    PROVE  Spec => []OneRowPerProduct
<1>1. Init => IInv /\ SInv
  BY InitIInv, InitSInv
<1>2. IInv /\ SInv /\ [Next]_vars => (IInv /\ SInv)'
  BY NextIInv, NextSInv
<1> QED BY <1>1, <1>2, SInvImpliesOneRow, PTL DEF Spec

\* checkout: with one handler at a time no row of a cart is bought by two orders.
THEOREM OrderedOnceSerially ==
    ASSUME OneAtATime, OneRowAtFirst
    PROVE  Spec => []OrderedOnce
<1>1. Init => IInv /\ SInv
  BY InitIInv, InitSInv
<1>2. IInv /\ SInv /\ [Next]_vars => (IInv /\ SInv)'
  BY NextIInv, NextSInv
<1>3. SInv => OrderedOnce
  BY DEF SInv
<1> QED BY <1>1, <1>2, <1>3, PTL DEF Spec

-----------------------------------------------------------------------------
(***************************************************************************)
(* The merge of a guest's cart.                                            *)
(***************************************************************************)
\* There are finitely many ids, and no session has the name of a user.
FinitelyMany == IsFiniteSet(CartIds)
UsersApart == Users \cap Sessions = {}

\* A row is the user's or the session's.
OwnedOnce(row) == row.user = NoOne \/ row.session = NoOne

OneOwner(rows) == \A c \in CartIds : rows[c] # NoRow => OwnedOnce(rows[c])

OneOwnerAtFirst == \A rows \in InitialCarts : OneOwner(rows)

Merging(x) == x.req.op = "syncGuestCartWithUser"

\* The guest's row in hand is added to the user's row of the product, or taken over.
Moving(x) ==
    /\ x.item \in CartIds /\ x.copies[x.item] # NoRow
    /\ x.id \in CartIds /\ carts[x.id] # NoRow /\ carts[x.id].order = NoOne
    /\ \/ /\ carts[x.id].user = x.req.shopper
          /\ carts[x.id].product = x.copies[x.item].product
          /\ x.row = Grown(x.id, x.copies[x.item].quantity)
       \/ x.id = x.item /\ x.row = TakeOver(x.copies[x.item], x.req.shopper)
    /\ x.pc = "write" => x.diff = Differing(x.id, x.row, SavedColumns)

\* Nothing has changed the rows since they were copied.
Faithful(x) ==
    /\ \A c \in CartIds : x.copies[c] # NoRow => x.copies[c] = carts[c]
    /\ x.pc = "linkWrite" => OneOwner(x.view)
    /\ Saving(x) => OwnedOnce(x.row)
    /\ Saving(x) \/ x.pc = "find" => Merging(x) \/ \A c \in CartIds : x.copies[c] = NoRow
    /\ Merging(x) =>
          /\ x.pc = "sync" \/ Saving(x)
          /\ \A c \in CartIds : x.copies[c] # NoRow => carts[c].session = x.req.session
          /\ Saving(x) => Moving(x)

MInv == aborts \in Nat /\ OneOwner(carts) /\ \A w \in Workers : Faithful(h[w])

-----------------------------------------------------------------------------
LEMMA RestingFaithful == Faithful(Resting) /\ ~Merging(Resting)
<1>1. /\ Resting.pc = "idle" /\ Resting.req.op = "none"
      /\ \A c \in CartIds : Resting.copies[c] = NoRow
  BY DEF Resting
<1> QED BY <1>1 DEF Faithful, Merging, Saving

LEMMA ArriveFaithful ==
    ASSUME UsersApart, IInv, MInv, NEW w \in Workers, Arrive(w)
    PROVE  Faithful(h'[w])
<1>1. PICK r \in Requests :
        \/ AddToCart(w, r) \/ AddQuantity(w, r)
        \/ RemoveFromCart(w, r) \/ RemoveAllFromGuestCart(w, r)
        \/ SyncGuestCartWithUser(w, r) \/ Checkout(w, r)
  BY DEF Arrive
<1>2. h \in [Workers -> Handler] /\ Typed /\ OneOwner(carts)
  BY DEF IInv, Typed, MInv
<1>3. CASE h' = [h EXCEPT ![w] = Resting]
  <2>1. h'[w] = Resting
    BY <1>2, <1>3
  <2> QED BY <2>1, RestingFaithful
<1>4. CASE AddToCart(w, r)
  <2> DEFINE x == [Start(r, "find") EXCEPT !.todo = r.items]
  <2>1. h'[w] = x
    BY <1>2, <1>4 DEF AddToCart
  <2>2. /\ Start(r, "find") \in Handler /\ Start(r, "find").pc = "find"
        /\ Start(r, "find").req = r
        /\ \A c \in CartIds : Start(r, "find").copies[c] = NoRow
    BY StartIs DEF PC
  <2>3. x.pc = "find" /\ x.req = r /\ \A c \in CartIds : x.copies[c] = NoRow
    BY <2>2 DEF Handler
  <2> HIDE DEF x
  <2> QED BY <1>4, <2>1, <2>3 DEF Faithful, Saving, Merging, AddToCart
<1>5. ASSUME NEW pc \in {"sync", "customer"}, NEW s \in Shoppers,
             h' = [h EXCEPT ![w] = [Start(r, pc) EXCEPT !.copies = CopiesOf(Open(s))]],
             r.op = "syncGuestCartWithUser" => pc = "sync" /\ s = r.session
      PROVE  Faithful(h'[w])
  <2> DEFINE x == [Start(r, pc) EXCEPT !.copies = CopiesOf(Open(s))]
  <2>1. h'[w] = x
    BY <1>2, <1>5
  <2>2. Start(r, pc) \in Handler /\ Start(r, pc).pc = pc /\ Start(r, pc).req = r
    BY StartIs DEF PC
  <2>3. x.pc = pc /\ x.req = r /\ x.copies = CopiesOf(Open(s))
    BY <2>2 DEF Handler
  <2> HIDE DEF x
  <2>4. ASSUME NEW c \in CartIds, CopiesOf(Open(s))[c] # NoRow
        PROVE  CopiesOf(Open(s))[c] = carts[c] /\ c \in Open(s)
    <3>1. c \in Open(s) /\ CopiesOf(Open(s))[c] = Loaded(c)
      BY <2>4 DEF CopiesOf
    <3>2. carts[c] \in Row /\ carts[c].order = NoOne
      BY <1>2, <3>1 DEF Open, OwnedBy, Typed, Rows
    <3>3. Loaded(c) = carts[c]
      BY <3>2 DEF Loaded, Row
    <3> QED BY <3>1, <3>3
  <2>5. r.op = "syncGuestCartWithUser" => \A c \in Open(s) : carts[c].session = r.session
    BY <1>5, RequestIs DEF UsersApart, Open, OwnedBy, Owned
  <2> QED BY <1>5, <2>1, <2>3, <2>4, <2>5 DEF Faithful, Saving, Merging
<1>6. CASE AddQuantity(w, r) /\ r.cart \in OwnedBy(r.shopper)
  <2> DEFINE c == r.cart
             row == [Loaded(c) EXCEPT !.quantity = r.quantity]
             x == [Start(r, "compare") EXCEPT !.id = c, !.row = row]
  <2>1. c \in CartIds /\ carts[c] # NoRow
    BY <1>6, RequestIs, OwnedRows
  <2>2. row.user = carts[c].user /\ row.session = carts[c].session
    BY <1>2, <2>1, LoadedIs DEF Row
  <2>3. h'[w] = x
    BY <1>2, <1>6 DEF AddQuantity
  <2>4. /\ Start(r, "compare") \in Handler /\ Start(r, "compare").pc = "compare"
        /\ Start(r, "compare").req = r
        /\ \A d \in CartIds : Start(r, "compare").copies[d] = NoRow
    BY StartIs DEF PC
  <2>5. OwnedOnce(row)
    BY <1>2, <2>1, <2>2 DEF OneOwner, OwnedOnce
  <2> HIDE DEF row, c
  <2>6. x.pc = "compare" /\ x.req = r /\ x.row = row /\ \A d \in CartIds : x.copies[d] = NoRow
    BY <2>4 DEF Handler
  <2> HIDE DEF x
  <2> QED BY <1>6, <2>3, <2>5, <2>6 DEF Faithful, Saving, Merging, AddQuantity
<1>7. CASE /\ h' = [h EXCEPT ![w] = Start(r, "delete")]
           /\ r.op # "syncGuestCartWithUser"
  <2>1. /\ Start(r, "delete").pc = "delete" /\ Start(r, "delete").req = r
        /\ \A c \in CartIds : Start(r, "delete").copies[c] = NoRow
    BY StartIs DEF PC
  <2>2. h'[w] = Start(r, "delete")
    BY <1>2, <1>7
  <2> QED BY <1>7, <2>1, <2>2 DEF Faithful, Saving, Merging
<1>8. CASE SyncGuestCartWithUser(w, r)
  <2>1. r.session \in Shoppers
    BY RequestIs DEF Shoppers
  <2> QED BY <1>3, <1>5, <1>8, <2>1 DEF SyncGuestCartWithUser, Answer
<1>9. CASE Checkout(w, r)
  <2>1. r.shopper \in Shoppers /\ r.op # "syncGuestCartWithUser"
    BY <1>9, RequestIs DEF Checkout
  <2> QED BY <1>3, <1>5, <1>9, <2>1 DEF Checkout, CartsForCheckout, Answer
<1> QED BY <1>1, <1>3, <1>4, <1>6, <1>7, <1>8, <1>9
        DEF AddQuantity, RemoveFromCart, RemoveAllFromGuestCart, Answer

LEMMA FindCartFaithful ==
    ASSUME UsersApart, IInv, MInv, NEW w \in Workers, FindCart(w)
    PROVE  Faithful(h'[w])
<1> DEFINE item == Head(h[w].todo)
           s == h[w].req.shopper
<1>1. /\ h[w] \in Handler /\ Shape(h[w]) /\ h[w].pc = "find" /\ h[w].todo # <<>>
      /\ Faithful(h[w]) /\ OneOwner(carts)
  BY DEF FindCart, IInv, Typed, Shaped, MInv
<1>2. item \in Item /\ s \in Shoppers
  BY <1>1, RequestIs DEF Handler, Shape
<1>3. ~Merging(h[w]) /\ \A c \in CartIds : h[w].copies[c] = NoRow
  BY <1>1 DEF Faithful, Saving
<1>4. ASSUME NEW c \in CartIds, NEW row \in Row, OwnedOnce(row),
             h' = [h EXCEPT ![w] = ToSave(w, c, row)]
      PROVE  Faithful(h'[w])
  <2> DEFINE x == ToSave(w, c, row)
  <2>1. h'[w] = x
    BY <1>4 DEF IInv, Typed
  <2>2. x.pc = "compare" /\ x.req = h[w].req /\ x.copies = h[w].copies /\ x.row = row
    BY <1>1 DEF ToSave, Handler
  <2> HIDE DEF x
  <2> QED BY <1>3, <1>4, <2>1, <2>2 DEF Faithful, Saving, Merging
<1>5. ASSUME NEW c \in Holding(s, item.product),
             h' = [h EXCEPT ![w] = ToSave(w, c, Grown(c, Asked(item)))]
      PROVE  Faithful(h'[w])
  <2> DEFINE row == Grown(c, Asked(item))
  <2>1. c \in CartIds /\ carts[c] # NoRow /\ Asked(item) \in Nat
    BY <1>2, OwnedRows, AskedIs DEF Holding
  <2>2. row \in Row /\ row.user = carts[c].user /\ row.session = carts[c].session
    BY <2>1, GrownIs DEF IInv
  <2>3. h' = [h EXCEPT ![w] = ToSave(w, c, row)]
    BY <1>5
  <2> HIDE DEF row
  <2>4. OwnedOnce(row)
    BY <1>1, <2>1, <2>2 DEF OneOwner, OwnedOnce
  <2> QED BY <1>4, <2>1, <2>2, <2>3, <2>4
<1>6. CASE /\ FreshCarts # {}
           /\ h' = [h EXCEPT ![w] = ToSave(w, FreshCart, NewRow(s, item))]
  <2> DEFINE row == NewRow(s, item)
  <2>1. FreshCart \in CartIds
    BY <1>6 DEF FreshCarts, FreshCart
  <2>2. row \in Row /\ OwnedOnce(row)
    BY <1>2, NewRowIs DEF OwnedOnce, UsersApart
  <2>3. h' = [h EXCEPT ![w] = ToSave(w, FreshCart, row)]
    BY <1>6
  <2> HIDE DEF row
  <2> QED BY <1>4, <2>1, <2>2, <2>3
<1> QED BY <1>5, <1>6 DEF FindCart

\* The guest's row in hand is the session's, so it is not the user's row of the product.
LEMMA SyncItemFaithful ==
    ASSUME IInv, SInv, MInv, NEW w \in Workers, SyncItem(w)
    PROVE  Faithful(h'[w])
<1>1. /\ h[w] \in Handler /\ Shape(h[w]) /\ h[w].pc = "sync" /\ Exact(h[w])
      /\ Faithful(h[w]) /\ OneOwner(carts)
  BY DEF SyncItem, IInv, Typed, Shaped, SInv, MInv
<1> DEFINE user == h[w].req.shopper
<1>2. PICK c \in CartIds :
        /\ h[w].copies[c] # NoRow
        /\ \/ \E mine \in Holding(user, h[w].copies[c].product) :
                 h' = [h EXCEPT ![w] =
                         [ToSave(w, mine, Grown(mine, h[w].copies[c].quantity)) EXCEPT !.item = c]]
           \/ /\ Holding(user, h[w].copies[c].product) = {}
              /\ h' = [h EXCEPT ![w] = [ToSave(w, c, TakeOver(h[w].copies[c], user))
                                       EXCEPT !.item = c]]
  BY DEF SyncItem
<1>3. /\ h[w].copies[c] \in Row /\ carts[c] # NoRow /\ carts[c].order = NoOne
      /\ user \in Users /\ Merging(h[w])
  BY <1>1, <1>2, RequestIs DEF Handler, Rows, Exact, Shape, Merging
<1>4. ASSUME NEW id \in CartIds, NEW row \in Row, OwnedOnce(row),
             carts[id] # NoRow, carts[id].order = NoOne,
             \/ /\ carts[id].user = user
                /\ carts[id].product = h[w].copies[c].product
                /\ row = Grown(id, h[w].copies[c].quantity)
             \/ id = c /\ row = TakeOver(h[w].copies[c], user),
             h' = [h EXCEPT ![w] = [ToSave(w, id, row) EXCEPT !.item = c]]
      PROVE  Faithful(h'[w])
  <2> DEFINE x == [ToSave(w, id, row) EXCEPT !.item = c]
  <2>1. h'[w] = x
    BY <1>4 DEF IInv, Typed
  <2>2. /\ x.pc = "compare" /\ x.req = h[w].req /\ x.copies = h[w].copies
        /\ x.id = id /\ x.row = row /\ x.item = c
    BY <1>1 DEF ToSave, Handler
  <2> HIDE DEF x
  <2>3. Moving(x)
    BY <1>2, <1>4, <2>2 DEF Moving
  <2> QED BY <1>1, <1>3, <1>4, <2>1, <2>2, <2>3 DEF Faithful, Saving, Merging
<1>5. ASSUME NEW mine \in Holding(user, h[w].copies[c].product),
             h' = [h EXCEPT ![w] =
                     [ToSave(w, mine, Grown(mine, h[w].copies[c].quantity)) EXCEPT !.item = c]]
      PROVE  Faithful(h'[w])
  <2> DEFINE row == Grown(mine, h[w].copies[c].quantity)
  <2>1. /\ mine \in CartIds /\ carts[mine] # NoRow /\ carts[mine].order = NoOne
        /\ carts[mine].user = user /\ carts[mine].product = h[w].copies[c].product
        /\ h[w].copies[c].quantity \in Nat
    BY <1>3 DEF Holding, Open, OwnedBy, Owned, Row
  <2>2. row \in Row /\ row.user = carts[mine].user /\ row.session = carts[mine].session
    BY <2>1, GrownIs DEF IInv
  <2>3. OwnedOnce(row)
    BY <1>1, <2>1, <2>2 DEF OneOwner, OwnedOnce
  <2> QED BY <1>4, <1>5, <2>1, <2>2, <2>3
<1>6. CASE h' = [h EXCEPT ![w] = [ToSave(w, c, TakeOver(h[w].copies[c], user))
                                       EXCEPT !.item = c]]
  <2> DEFINE row == TakeOver(h[w].copies[c], user)
  <2>1. row \in Row /\ row.session = NoOne
    BY <1>3 DEF TakeOver, Row
  <2>2. OwnedOnce(row)
    BY <2>1 DEF OwnedOnce
  <2> QED BY <1>2, <1>3, <1>4, <1>6, <2>1, <2>2
<1> QED BY <1>2, <1>5, <1>6

LEMMA CompareFaithful ==
    ASSUME IInv, MInv, NEW w \in Workers, Compare(w)
    PROVE  Faithful(h'[w])
<1> DEFINE diff == Differing(h[w].id, h[w].row, SavedColumns)
           x == [h[w] EXCEPT !.pc = "write", !.diff = diff]
<1>1. h[w] \in Handler /\ h[w].pc = "compare" /\ Faithful(h[w])
  BY DEF Compare, IInv, Typed, MInv
<1>2. h'[w] = x
  BY DEF Compare, IInv, Typed
<1> HIDE DEF diff
<1>3. /\ x.pc = "write" /\ x.id = h[w].id /\ x.row = h[w].row /\ x.diff = diff
      /\ x.copies = h[w].copies /\ x.item = h[w].item /\ x.req = h[w].req
  BY <1>1 DEF Handler
<1> HIDE DEF x
<1>4. Moving(h[w]) => Moving(x)
  BY <1>3 DEF Moving, diff
<1> QED BY <1>1, <1>2, <1>3, <1>4 DEF Faithful, Saving, Merging

\* The steps of a checkout leave the copies as they are.
LEMMA CheckoutFaithful ==
    ASSUME IInv, MInv, NEW w \in Workers,
           FindCustomer(w) \/ SaveCustomer(w) \/ CreateSale(w) \/ CompareCarts(w)
    PROVE  Faithful(h'[w])
<1>1. /\ h[w] \in Handler /\ Shape(h[w]) /\ Faithful(h[w]) /\ h \in [Workers -> Handler]
      /\ h[w].pc \in {"customer", "saveCustomer", "order", "link"}
  BY DEF IInv, Typed, Shaped, MInv, FindCustomer, SaveCustomer, CreateSale, CompareCarts
<1>2. ~Merging(h[w]) /\ \A c \in CartIds : h[w].view[c] = NoRow
  BY <1>1 DEF Faithful, Saving, Shape
<1>3. CASE Answer(w)
  <2>1. h'[w] = Resting
    BY <1>1, <1>3 DEF Answer
  <2> QED BY <2>1, RestingFaithful
<1>4. ASSUME NEW x, h'[w] = x, x.pc \in {"saveCustomer", "order", "link", "linkWrite"},
             x.req = h[w].req, x.copies = h[w].copies, x.view = h[w].view
      PROVE  Faithful(h'[w])
  BY <1>1, <1>2, <1>4 DEF Faithful, Saving, Merging, OneOwner
<1>5. CASE FindCustomer(w)
  <2> DEFINE x == [h[w] EXCEPT !.pc = "saveCustomer", !.known = h[w].req.email \in customers]
  <2>1. h'[w] = x /\ x.pc = "saveCustomer" /\ x.req = h[w].req
        /\ x.copies = h[w].copies /\ x.view = h[w].view
    BY <1>1, <1>5 DEF FindCustomer, Handler
  <2> HIDE DEF x
  <2> QED BY <1>4, <2>1
<1>6. CASE SaveCustomer(w) /\ ~Answer(w)
  <2> DEFINE x == [h[w] EXCEPT !.pc = "order"]
             y == [h[w] EXCEPT !.pc = "order", !.email = h[w].req.email]
  <2>1. /\ x.pc = "order" /\ x.req = h[w].req /\ x.copies = h[w].copies /\ x.view = h[w].view
        /\ y.pc = "order" /\ y.req = h[w].req /\ y.copies = h[w].copies /\ y.view = h[w].view
    BY <1>1 DEF Handler
  <2>2. h'[w] = x \/ h'[w] = y
    BY <1>1, <1>6 DEF SaveCustomer
  <2> HIDE DEF x, y
  <2> QED BY <1>4, <2>1, <2>2
<1>7. ASSUME NEW o, h' = [h EXCEPT ![w] = [h[w] EXCEPT !.pc = "link", !.order = o]]
      PROVE  Faithful(h'[w])
  <2> DEFINE x == [h[w] EXCEPT !.pc = "link", !.order = o]
  <2>1. h'[w] = x /\ x.pc = "link" /\ x.req = h[w].req
        /\ x.copies = h[w].copies /\ x.view = h[w].view
    BY <1>1, <1>7 DEF Handler
  <2> HIDE DEF x
  <2> QED BY <1>4, <2>1
<1>8. ASSUME NEW links, h' = [h EXCEPT ![w] = [h[w] EXCEPT !.pc = "linkWrite", !.links = links]]
      PROVE  Faithful(h'[w])
  <2> DEFINE x == [h[w] EXCEPT !.pc = "linkWrite", !.links = links]
  <2>1. h'[w] = x /\ x.pc = "linkWrite" /\ x.req = h[w].req
        /\ x.copies = h[w].copies /\ x.view = h[w].view
    BY <1>1, <1>8 DEF Handler
  <2> HIDE DEF x
  <2> QED BY <1>4, <2>1
<1> QED BY <1>3, <1>5, <1>6, <1>7, <1>8 DEF CreateSale, CompareCarts

LEMMA LinkCartFaithful ==
    ASSUME IInv, MInv, NEW w \in Workers, LinkCart(w)
    PROVE  Faithful(h'[w])
<1>1. /\ h[w] \in Handler /\ Shape(h[w]) /\ h[w].pc = "linkWrite" /\ Faithful(h[w])
      /\ h \in [Workers -> Handler] /\ carts \in Rows /\ OneOwner(carts)
  BY DEF LinkCart, IInv, Typed, Shaped, MInv
<1>2. PICK c \in CartIds :
        /\ h[w].links[c] # {}
        /\ \/ Answer(w)
           \/ h' = [h EXCEPT ![w] = [h[w] EXCEPT
                     !.links = [h[w].links EXCEPT ![c] = {}],
                     !.view = [h[w].view EXCEPT
                                  ![c] = Saved(c, Linked(w, c), h[w].links[c])]]]
  BY DEF LinkCart
<1>3. CASE Answer(w)
  <2>1. h'[w] = Resting
    BY <1>1, <1>3 DEF Answer
  <2> QED BY <2>1, RestingFaithful
<1>4. CASE h' = [h EXCEPT ![w] = [h[w] EXCEPT
                     !.links = [h[w].links EXCEPT ![c] = {}],
                     !.view = [h[w].view EXCEPT
                                  ![c] = Saved(c, Linked(w, c), h[w].links[c])]]]
  <2> DEFINE row == Saved(c, Linked(w, c), h[w].links[c])
             links == [h[w].links EXCEPT ![c] = {}]
             view == [h[w].view EXCEPT ![c] = row]
             x == [h[w] EXCEPT !.links = links, !.view = view]
  <2>1. PICK p \in ProductOf : Follows(p)
    BY DEF IInv, OneProductEach
  <2>2. /\ h[w].copies[c] # NoRow /\ h[w].order # NoOne /\ c \in InCart(w)
        /\ h[w].links[c] \in SUBSET (Columns \cup {"id"})
    BY <1>1, <1>2 DEF Shape, InCart, Handler
  <2>3. /\ carts[c] # NoRow /\ Linked(w, c) \in Row /\ OwnedOnce(carts[c])
        /\ Linked(w, c).user = carts[c].user /\ Linked(w, c).session = carts[c].session
    <3>1. Linked(w, c) \in Row
      BY <2>1, <2>2, LinkedIs
    <3>2. h[w].copies[c] = carts[c] /\ carts[c] # NoRow /\ carts[c] \in Row
      BY <1>1, <2>2 DEF Faithful, Rows
    <3> QED BY <1>1, <3>1, <3>2 DEF OneOwner, Linked, Row
  <2>4. OwnedOnce(row)
    BY <1>1, <2>2, <2>3, SavedIs DEF OwnedOnce
  <2> HIDE DEF row
  <2>5. \A d \in CartIds : view[d] = IF d = c THEN row ELSE h[w].view[d]
    BY <1>1 DEF Handler, Rows
  <2>6. h'[w] = x
    BY <1>1, <1>4 DEF row
  <2> HIDE DEF links, view
  <2>7. x.pc = "linkWrite" /\ x.copies = h[w].copies /\ x.req = h[w].req /\ x.view = view
    BY <1>1 DEF Handler
  <2> HIDE DEF x
  <2>8. OneOwner(x.view)
    BY <1>1, <2>4, <2>5, <2>7 DEF Faithful, OneOwner
  <2> QED BY <1>1, <2>6, <2>7, <2>8 DEF Faithful, Saving, Merging
<1> QED BY <1>2, <1>3, <1>4

\* What a handler holds after a row was saved or skipped.
LEMMA NextRowHolds ==
    ASSUME IInv, MInv, NEW w \in Workers, Saving(h[w])
    PROVE  /\ Merging(h[w]) =>
                /\ NextRow(w).pc = "sync" /\ NextRow(w).req = h[w].req
                /\ NextRow(w).copies = [h[w].copies EXCEPT ![h[w].item] = NoRow]
           /\ ~Merging(h[w]) => /\ NextRow(w).pc \in {"idle", "find"} /\ ~Merging(NextRow(w))
                                /\ \A c \in CartIds : NextRow(w).copies[c] = NoRow
<1>1. h[w] \in Handler /\ Faithful(h[w])
  BY DEF IInv, Typed, MInv
<1>2. ~Merging(h[w]) => \A c \in CartIds : h[w].copies[c] = NoRow
  BY <1>1 DEF Faithful
<1>3. CASE h[w].req.op = "addQuantity"
  BY <1>3, RestingIs, RestingFaithful DEF NextRow, Merging
<1>4. CASE Merging(h[w])
  <2>1. NextRow(w) = [h[w] EXCEPT !.pc = "sync",
                          !.copies = [h[w].copies EXCEPT ![h[w].item] = NoRow],
                          !.item = NoRow, !.id = NoRow, !.row = NoRow, !.diff = {}]
    BY <1>4 DEF NextRow, Merging
  <2> QED BY <1>1, <1>4, <2>1 DEF Handler
<1>5. CASE h[w].req.op \notin {"addQuantity", "syncGuestCartWithUser"}
  <2>1. NextRow(w) = [h[w] EXCEPT !.pc = "find", !.todo = Tail(h[w].todo),
                         !.id = NoRow, !.row = NoRow, !.diff = {}]
    BY <1>5 DEF NextRow
  <2>2. NextRow(w).pc = "find" /\ NextRow(w).req = h[w].req /\ NextRow(w).copies = h[w].copies
    BY <1>1, <2>1 DEF Handler
  <2> QED BY <1>2, <1>5, <2>2 DEF Merging
<1> QED BY <1>3, <1>4, <1>5 DEF Merging

LEMMA RestFaithful ==
    ASSUME IInv, MInv, NEW w \in Workers,
           Skip(w) \/ Abort(w) \/ FindDone(w) \/ Notify(w) \/ DeadlockAbort(w) \/ WriteFails(w)
    PROVE  Faithful(h'[w])
<1>1. Faithful(h[w]) /\ h \in [Workers -> Handler] /\ h[w].copies \in Rows
  BY DEF IInv, Typed, MInv, Handler
<1>2. CASE h' = [h EXCEPT ![w] = Resting]
  <2>1. h'[w] = Resting
    BY <1>1, <1>2
  <2> QED BY <2>1, RestingFaithful
<1>3. CASE Saving(h[w]) /\ h' = [h EXCEPT ![w] = NextRow(w)]
  <2>1. h'[w] = NextRow(w)
    BY <1>1, <1>3
  <2>2. \A c \in CartIds :
            [h[w].copies EXCEPT ![h[w].item] = NoRow][c] # NoRow =>
                [h[w].copies EXCEPT ![h[w].item] = NoRow][c] = h[w].copies[c]
    BY <1>1 DEF Rows
  <2> QED BY <1>1, <1>3, <2>1, <2>2, NextRowHolds DEF Faithful, Saving, Merging
<1> QED BY <1>2, <1>3
        DEF Skip, Abort, FindDone, Notify, DeadlockAbort, WriteFails, Answer, Saving

\* The row that is saved has the owners and the product of the entity in hand.
LEMMA WriteIs ==
    ASSUME IInv, SInv, NEW w \in Workers, Write(w)
    PROVE  /\ h[w] \in Handler /\ Saving(h[w]) /\ h[w].pc = "write" /\ h[w].id \in CartIds
           /\ h[w].row \in Row /\ h'[w] = NextRow(w) /\ h[w].req \in Requests
           /\ \A c \in CartIds : carts'[c] = IF c = h[w].id
                                    THEN Saved(h[w].id, h[w].row, h[w].diff) ELSE carts[c]
           /\ carts'[h[w].id] # NoRow => /\ carts'[h[w].id].user = h[w].row.user
                                         /\ carts'[h[w].id].session = h[w].row.session
<1> DEFINE id == h[w].id
           row == Saved(id, h[w].row, h[w].diff)
<1>1. /\ h[w] \in Handler /\ Shape(h[w]) /\ Exact(h[w])
      /\ h[w].pc = "write" /\ Saving(h[w]) /\ h \in [Workers -> Handler] /\ carts \in Rows
  BY DEF Write, Saving, SInv, IInv, Typed, Shaped
<1>2. /\ id \in CartIds /\ h[w].row \in Row /\ h[w].req \in Requests
      /\ h[w].diff \in SUBSET (Columns \cup {"id"})
  BY <1>1 DEF Shape, Handler, Saving
<1>3. carts' = [carts EXCEPT ![id] = row] /\ h'[w] = NextRow(w)
  BY <1>1 DEF Write
<1>4. /\ "id" \in h[w].diff => row = h[w].row
      /\ "id" \notin h[w].diff /\ carts[id] = NoRow => row = NoRow
      /\ "id" \notin h[w].diff /\ carts[id] # NoRow =>
            /\ row.user = IF "user" \in h[w].diff THEN h[w].row.user ELSE carts[id].user
            /\ row.session = IF "session" \in h[w].diff THEN h[w].row.session ELSE carts[id].session
  BY <1>1, <1>2, SavedIs
<1>5. row # NoRow => row.user = h[w].row.user /\ row.session = h[w].row.session
  BY <1>1, <1>4 DEF Exact
<1> HIDE DEF row
<1>6. \A c \in CartIds : carts'[c] = IF c = id THEN row ELSE carts[c]
  BY <1>1, <1>2, <1>3 DEF Rows
<1> QED BY <1>1, <1>2, <1>3, <1>5, <1>6 DEF row

\* The guest's row in hand is not the row of the user it is added to.
LEMMA MovingIs ==
    ASSUME MInv, IInv, NEW w \in Workers, Merging(h[w]), Saving(h[w])
    PROVE  LET x == h[w]
               moved == x.copies[x.item]
           IN  /\ Moving(x) /\ x.item \in CartIds /\ moved = carts[x.item] /\ moved \in Row
               /\ x.id \in CartIds /\ carts[x.id] \in Row /\ carts[x.id].order = NoOne
               /\ x.req.shopper \in Users /\ x.req.session \in Sessions
               /\ moved.user = NoOne /\ moved.session = x.req.session
               /\ \/ /\ x.id # x.item /\ carts[x.id].user = x.req.shopper
                     /\ carts[x.id].session = NoOne
                     /\ carts[x.id].product = moved.product
                     /\ x.row = Grown(x.id, moved.quantity)
                  \/ x.id = x.item /\ x.row = TakeOver(moved, x.req.shopper)
<1> DEFINE x == h[w]
           moved == x.copies[x.item]
<1>1. /\ Faithful(x) /\ Moving(x) /\ Shape(x) /\ x.pc # "idle" /\ x.req.op = "syncGuestCartWithUser"
      /\ OneOwner(carts) /\ carts \in Rows /\ x.copies \in Rows
  BY DEF MInv, IInv, Typed, Shaped, Faithful, Saving, Merging, Handler
<1>2. x.req.shopper \in Users /\ x.req.session \in Sessions
  BY <1>1, RequestIs DEF Shape
<1>3. /\ x.item \in CartIds /\ moved # NoRow /\ moved \in Row /\ moved = carts[x.item]
      /\ moved.session = x.req.session
  BY <1>1 DEF Moving, Faithful, Rows, Merging
<1>4. moved.user = NoOne
  BY <1>1, <1>2, <1>3, Inputs DEF OneOwner, OwnedOnce, Shoppers
<1>5. /\ x.id \in CartIds /\ carts[x.id] # NoRow /\ carts[x.id].order = NoOne
      /\ carts[x.id] \in Row
      /\ \/ /\ carts[x.id].user = x.req.shopper
            /\ carts[x.id].product = moved.product
            /\ x.row = Grown(x.id, moved.quantity)
         \/ x.id = x.item /\ x.row = TakeOver(moved, x.req.shopper)
  BY <1>1 DEF Moving, Rows
<1>6. carts[x.id].user = x.req.shopper => carts[x.id].session = NoOne /\ x.id # x.item
  BY <1>1, <1>2, <1>3, <1>4, <1>5, Inputs DEF OneOwner, OwnedOnce, Shoppers
<1> QED BY <1>1, <1>2, <1>3, <1>4, <1>5, <1>6

LEMMA WriteFaithful ==
    ASSUME OneAtATime, IInv, SInv, MInv, NEW w \in Workers, Write(w)
    PROVE  MInv'
<1> DEFINE x == h[w]
<1>1. /\ x \in Handler /\ Saving(x) /\ x.id \in CartIds /\ h'[w] = NextRow(w)
      /\ \A c \in CartIds : c # x.id => carts'[c] = carts[c]
      /\ carts'[x.id] # NoRow => /\ carts'[x.id].user = x.row.user
                                 /\ carts'[x.id].session = x.row.session
  BY WriteIs
<1>2. Faithful(x) /\ OneOwner(carts) /\ aborts' \in Nat
  BY DEF MInv, Write
<1>3. OneOwner(carts')
  BY <1>1, <1>2 DEF Faithful, OneOwner, OwnedOnce
<1>4. ASSUME NEW y, y = NextRow(w)
      PROVE  Faithful(y)'
  <2>1. CASE Merging(x)
    <3>1. /\ x.item \in CartIds /\ x.copies \in Rows
          /\ \A c \in CartIds : x.copies[c] # NoRow /\ c # x.item => c # x.id
      <4>1. \A c \in CartIds : x.copies[c] # NoRow =>
                carts[c].session = x.req.session
        BY <1>2, <2>1 DEF Faithful
      <4>2. NoOne \notin Sessions
        BY Inputs DEF Shoppers
      <4> QED BY <1>1, <2>1, <4>1, <4>2, MovingIs DEF Handler
    <3>2. /\ y.pc = "sync" /\ y.req = x.req
          /\ \A c \in CartIds : y.copies[c] = IF c = x.item THEN NoRow ELSE x.copies[c]
      BY <1>1, <1>4, <2>1, <3>1, NextRowHolds DEF Rows
    <3>3. \A c \in CartIds : y.copies[c] # NoRow =>
              y.copies[c] = carts'[c] /\ carts'[c].session = y.req.session
      BY <1>1, <1>2, <2>1, <3>1, <3>2 DEF Faithful
    <3> QED BY <3>2, <3>3 DEF Faithful, Saving
  <2>2. CASE ~Merging(x)
    <3>1. /\ y.pc \in {"idle", "find"} /\ ~Merging(y)
          /\ \A c \in CartIds : y.copies[c] = NoRow
      BY <1>1, <1>4, <2>2, NextRowHolds
    <3> QED BY <3>1 DEF Faithful, Saving
  <2> QED BY <2>1, <2>2
<1>5. \A v \in Workers : v = w
  BY DEF OneAtATime
<1>6. (\A v \in Workers : Faithful(h[v]))'
  BY <1>1, <1>4, <1>5
<1> QED BY <1>2, <1>3, <1>6 DEF MInv, OneOwner

LEMMA DeleteFaithful ==
    ASSUME OneAtATime, IInv, MInv, NEW w \in Workers, Delete(w) \/ SyncDelete(w)
    PROVE  MInv'
<1>1. PICK doomed : carts' = [c \in CartIds |-> IF c \in doomed THEN NoRow ELSE carts[c]]
  BY DEF Delete, SyncDelete
<1>2. aborts' = aborts /\ h'[w] = Resting
  BY DEF Delete, SyncDelete, Answer, IInv, Typed
<1>3. OneOwner(carts')
  BY <1>1 DEF MInv, OneOwner
<1>4. ASSUME NEW x, x = Resting
      PROVE  Faithful(x)'
  <2>1. /\ x.pc = "idle" /\ ~Merging(x)
        /\ \A c \in CartIds : x.copies[c] = NoRow
    BY <1>4, RestingIs, RestingFaithful
  <2> QED BY <2>1 DEF Faithful, Saving
<1>5. \A v \in Workers : v = w
  BY DEF OneAtATime
<1>6. (\A v \in Workers : Faithful(h[v]))'
  BY <1>2, <1>4, <1>5
<1> QED BY <1>2, <1>3, <1>6 DEF MInv, OneOwner

LEMMA CommitFaithful ==
    ASSUME OneAtATime, IInv, MInv, NEW w \in Workers, Commit(w)
    PROVE  MInv'
<1>1. PICK p \in ProductOf : Follows(p)
  BY DEF IInv, OneProductEach
<1>2. /\ h[w] \in Handler /\ Shape(h[w]) /\ h[w].pc = "linkWrite" /\ Faithful(h[w])
      /\ h \in [Workers -> Handler] /\ h[w].req \in Requests /\ ~Merging(h[w])
      /\ OneOwner(h[w].view) /\ OneOwner(carts) /\ aborts' = aborts /\ aborts \in Nat
  BY DEF Commit, IInv, Typed, Shaped, MInv, Shape, Faithful, Saving
<1>3. \A c \in CartIds : carts'[c] = IF h[w].view[c] # NoRow THEN h[w].view[c] ELSE carts[c]
  BY <1>1, CommitEffect
<1>4. OneOwner(carts')
  BY <1>2, <1>3 DEF OneOwner
<1>5. ASSUME NEW x, x = Start(h[w].req, "notify")
      PROVE  Faithful(x)'
  <2>1. x.pc = "notify" /\ x.req = h[w].req /\ \A c \in CartIds : x.copies[c] = NoRow
    BY <1>2, <1>5, StartIs DEF PC
  <2> QED BY <1>2, <2>1 DEF Faithful, Saving, Merging
<1>6. h'[w] = Start(h[w].req, "notify")
  BY <1>2 DEF Commit
<1>7. \A v \in Workers : v = w
  BY DEF OneAtATime
<1>8. (\A v \in Workers : Faithful(h[v]))'
  BY <1>5, <1>6, <1>7
<1> QED BY <1>2, <1>4, <1>8 DEF MInv, OneOwner

LEMMA OtherStepsFaithful ==
    ASSUME OneAtATime, UsersApart, IInv, SInv, MInv, NEW w \in Workers,
           \/ Arrive(w) \/ Skip(w) \/ Abort(w)
           \/ Step(w) /\ ~Write(w) /\ ~Delete(w) /\ ~SyncDelete(w) /\ ~Commit(w)
    PROVE  MInv'
<1>1. PICK p \in ProductOf : Follows(p)
  BY DEF IInv, OneProductEach
<1>2. carts' = carts
  BY <1>1, OtherSteps
<1>3. aborts' \in Nat
  <2>1. aborts \in Nat
    BY DEF MInv
  <2>2. aborts' = aborts \/ aborts' = aborts + 1
    BY DEF Arrive, AddToCart, AddQuantity, RemoveFromCart, RemoveAllFromGuestCart,
           SyncGuestCartWithUser, Checkout, Receive, Skip, Abort, Step, FindCart, FindDone, Compare,
           WriteFails, SyncItem, FindCustomer, SaveCustomer, CreateSale, CompareCarts, LinkCart,
           Notify, DeadlockAbort
  <2> QED BY <2>1, <2>2
<1>4. Faithful(h'[w])
  BY ArriveFaithful, RestFaithful, FindCartFaithful, SyncItemFaithful, CompareFaithful,
     CheckoutFaithful, LinkCartFaithful DEF Step
<1>5. \A v \in Workers : v = w
  BY DEF OneAtATime
<1>6. ASSUME NEW x, Faithful(x)
      PROVE  Faithful(x)'
  <2>1. Moving(x) => Moving(x)'
    BY <1>2 DEF Moving, Grown, Loaded, Differing
  <2> QED BY <1>2, <1>6, <2>1 DEF Faithful
<1>7. (\A v \in Workers : Faithful(h[v]))'
  BY <1>4, <1>5, <1>6
<1>8. OneOwner(carts')
  BY <1>2 DEF MInv
<1> QED BY <1>3, <1>7, <1>8 DEF MInv, OneOwner

LEMMA InitMInv ==
    ASSUME OneOwnerAtFirst, Init
    PROVE  MInv
<1>1. carts \in InitialCarts /\ h = [w \in Workers |-> Resting] /\ aborts = 0
  BY DEF Init
<1> QED BY <1>1, RestingFaithful DEF MInv, OneOwnerAtFirst

LEMMA NextMInv ==
    ASSUME OneAtATime, UsersApart, IInv, SInv, MInv, [Next]_vars
    PROVE  MInv'
<1>1. CASE UNCHANGED vars
  <2>1. UNCHANGED <<carts, h, aborts>>
    BY <1>1 DEF vars
  <2>2. ASSUME NEW x, Faithful(x)
        PROVE  Faithful(x)'
    <3>1. Moving(x) => Moving(x)'
      BY <2>1 DEF Moving, Grown, Loaded, Differing
    <3> QED BY <2>1, <2>2, <3>1 DEF Faithful
  <2>3. (\A w \in Workers : Faithful(h[w]))'
    BY <2>1, <2>2 DEF MInv
  <2> QED BY <2>1, <2>3 DEF MInv, OneOwner
<1>2. ASSUME NEW w \in Workers, Arrive(w) \/ Step(w) \/ Skip(w) \/ Abort(w)
      PROVE  MInv'
  BY <1>2, WriteFaithful, DeleteFaithful, CommitFaithful, OtherStepsFaithful
<1> QED BY <1>1, <1>2 DEF Next

-----------------------------------------------------------------------------
(* Amounts as sums.                                                        *)

AmountIn(row, p) == IF row # NoRow /\ row.product = p THEN row.quantity ELSE 0

Present(rows) == {c \in CartIds : rows[c] # NoRow}

LEMMA AmountIsSum ==
    ASSUME FinitelyMany, NEW rows \in Rows, NEW p
    PROVE  LET f == [c \in CartIds |-> AmountIn(rows[c], p)]
           IN  Summable(f, Present(rows)) /\ Amount(rows, p) = Sum(f, Present(rows))
<1> DEFINE f == [c \in CartIds |-> AmountIn(rows[c], p)]
           D == Present(rows)
           Of(c) == IF rows[c].product = p THEN rows[c].quantity ELSE 0
           Fold(g) == g = [T \in SUBSET D |->
               IF T = {} THEN 0 ELSE Of(First(T)) + g[T \ {First(T)}]]
<1>1. Amount(rows, p) = (CHOOSE g : Fold(g))[D]
  BY DEF Amount, MapThenSumSet, MapThenFoldSet, First, Present
<1>2. D \in SUBSET CartIds /\ \A c \in D : f[c] = Of(c) /\ Of(c) \in Int
  <2>1. ASSUME NEW c \in D
        PROVE  c \in CartIds /\ rows[c] # NoRow /\ rows[c] \in Row
    BY DEF Rows, Present
  <2> QED BY <2>1 DEF AmountIn, Row, Present
<1>3. Summable(f, D)
  <2> HIDE DEF D, f, Of
  <2>1. IsFiniteSet(D)
    BY <1>2, FS_Subset DEF FinitelyMany
  <2> QED BY <1>2, <2>1 DEF Summable
<1>4. ASSUME NEW g PROVE Fold(g) <=> Folded(g, f, D)
  <2>1. ASSUME NEW T \in SUBSET D, T # {}
        PROVE  f[First(T)] = Of(First(T))
    <3>1. First(T) \in D
      BY <2>1 DEF First
    <3> QED BY <1>2, <3>1
  <2> HIDE DEF Of, f, D
  <2> DEFINE A(T) == IF T = {} THEN 0 ELSE f[First(T)] + g[T \ {First(T)}]
             B(T) == IF T = {} THEN 0 ELSE Of(First(T)) + g[T \ {First(T)}]
  <2>2. \A T \in SUBSET D : A(T) = B(T)
    BY <2>1
  <2>3. [T \in SUBSET D |-> A(T)] = [T \in SUBSET D |-> B(T)]
    <3> HIDE DEF A, B
    <3> QED BY <2>2
  <2> QED BY <2>3 DEF Folded
<1>5. \E g : Fold(g)
  <2> HIDE DEF f, D, Fold
  <2> QED BY <1>3, <1>4, FoldExists
<1>6. Fold(CHOOSE g : Fold(g))
  <2> HIDE DEF Fold
  <2> QED BY <1>5
<1>7. Folded(CHOOSE g : Fold(g), f, D)
  <2> HIDE DEF Fold, f, D
  <2> QED BY <1>4, <1>6
<1> HIDE DEF Fold, f, D
<1>8. Amount(rows, p) = Sum(f, D)
  BY <1>1, <1>3, <1>7, FoldIsSum
<1> QED BY <1>3, <1>8 DEF f, D

\* One row taken out.
LEMMA AmountTake ==
    ASSUME FinitelyMany, NEW rows \in Rows, NEW c \in CartIds, NEW p, NEW rest \in Rows,
           rest[c] = NoRow, \A d \in CartIds : d # c => rest[d] = rows[d]
    PROVE  /\ Amount(rest, p) \in Int
           /\ Amount(rows, p) = AmountIn(rows[c], p) + Amount(rest, p)
<1> DEFINE f == [d \in CartIds |-> AmountIn(rows[d], p)]
           g == [d \in CartIds |-> AmountIn(rest[d], p)]
<1>1. /\ Summable(f, Present(rows)) /\ Amount(rows, p) = Sum(f, Present(rows))
      /\ Summable(g, Present(rest)) /\ Amount(rest, p) = Sum(g, Present(rest))
  BY AmountIsSum
<1>2. /\ \A d \in Present(rest) : f[d] = g[d]
      /\ f[c] = AmountIn(rows[c], p)
  BY DEF Present
<1>3. rows[c] # NoRow => Present(rest) = Present(rows) \ {c} /\ c \in Present(rows)
  BY DEF Present
<1>4. rows[c] = NoRow => Present(rest) = Present(rows) /\ AmountIn(rows[c], p) = 0
  BY DEF Present, AmountIn
<1> HIDE DEF f, g
<1>5. Amount(rest, p) \in Int
  BY <1>1, SumType
<1>6. Sum(f, Present(rest)) = Sum(g, Present(rest))
  BY <1>1, <1>2, SumAgree
<1>7. CASE rows[c] # NoRow
  <2>1. Sum(f, Present(rows)) = f[c] + Sum(f, Present(rows) \ {c})
    BY <1>1, <1>3, <1>7, SumTake
  <2> QED BY <1>1, <1>2, <1>3, <1>5, <1>6, <1>7, <2>1
<1>8. CASE rows[c] = NoRow
  BY <1>1, <1>4, <1>5, <1>6, <1>8
<1> QED BY <1>5, <1>7, <1>8

\* Two tables that differ in one row.
LEMMA AmountMoves ==
    ASSUME FinitelyMany, NEW rows \in Rows, NEW rows2 \in Rows, NEW c \in CartIds, NEW p \in Products,
           \A d \in CartIds : d # c => rows2[d] = rows[d]
    PROVE  /\ Amount(rows, p) \in Int /\ Amount(rows2, p) \in Int
           /\ Amount(rows2, p) - AmountIn(rows2[c], p) = Amount(rows, p) - AmountIn(rows[c], p)
<1> DEFINE rest == [rows EXCEPT ![c] = NoRow]
<1>1. /\ rest \in Rows /\ rest[c] = NoRow
      /\ \A d \in CartIds : d # c => rest[d] = rows[d] /\ rest[d] = rows2[d]
  BY DEF Rows
<1>2. \A r \in Rows : AmountIn(r[c], p) \in Int
  BY DEF Rows, Row, AmountIn
<1> HIDE DEF rest
<1>3. /\ Amount(rest, p) \in Int
      /\ Amount(rows, p) = AmountIn(rows[c], p) + Amount(rest, p)
      /\ Amount(rows2, p) = AmountIn(rows2[c], p) + Amount(rest, p)
  BY <1>1, AmountTake
<1> QED BY <1>2, <1>3

\* The save of a merge writes the user's row of the product with both quantities.
LEMMA MoveWrites ==
    ASSUME IInv, SInv, MInv, NEW w \in Workers, Write(w), Merging(h[w])
    PROVE  LET x == h[w]
               moved == x.copies[x.item]
               row == carts'[x.id]
           IN  /\ row \in Row /\ row.user = x.req.shopper /\ row.session = NoOne
               /\ row.order = NoOne /\ row.product = moved.product
               /\ row.quantity = moved.quantity
                      + (IF x.id = x.item THEN 0 ELSE carts[x.id].quantity)
<1> DEFINE x == h[w]
           moved == x.copies[x.item]
           row == carts'[x.id]
<1>1. /\ x \in Handler /\ Saving(x) /\ x.pc = "write" /\ x.row \in Row
      /\ row = Saved(x.id, x.row, x.diff)
  BY WriteIs
<1>2. /\ Moving(x) /\ x.item \in CartIds /\ moved = carts[x.item] /\ moved \in Row
      /\ x.id \in CartIds /\ carts[x.id] \in Row /\ carts[x.id].order = NoOne
      /\ x.req.shopper \in Users
      /\ \/ /\ x.id # x.item /\ carts[x.id].user = x.req.shopper
            /\ carts[x.id].session = NoOne
            /\ carts[x.id].product = moved.product
            /\ x.row = Grown(x.id, moved.quantity)
         \/ x.id = x.item /\ x.row = TakeOver(moved, x.req.shopper)
  BY <1>1, MovingIs
<1>3. carts[x.id] # NoRow /\ x.diff = {k \in SavedColumns : x.row[k] # carts[x.id][k]}
  BY <1>1, <1>2, Inputs DEF Moving, Differing
<1>4. "id" \notin x.diff /\ "order" \notin x.diff
  BY <1>3 DEF SavedColumns, Columns
<1>5. row = Updated(carts[x.id], x.row, x.diff)
  BY <1>1, <1>3, <1>4 DEF Saved
<1>6. /\ "user" \in x.diff \/ x.row.user = carts[x.id].user
      /\ "session" \in x.diff \/ x.row.session = carts[x.id].session
      /\ "quantity" \in x.diff \/ x.row.quantity = carts[x.id].quantity
  BY <1>3 DEF SavedColumns, Columns
<1>7. /\ row.user = x.row.user /\ row.session = x.row.session
      /\ row.quantity = x.row.quantity /\ row.product = carts[x.id].product
      /\ row.order = NoOne
  BY <1>2, <1>4, <1>5, <1>6 DEF Updated, Set
<1>8. /\ x.row.user = x.req.shopper /\ x.row.session = NoOne
      /\ carts[x.id].product = moved.product
      /\ x.row.quantity = moved.quantity + (IF x.id = x.item THEN 0 ELSE carts[x.id].quantity)
  <2>1. CASE x.id # x.item
    <3>1. x.row = Grown(x.id, moved.quantity) /\ moved.quantity \in Nat
      BY <1>2, <2>1 DEF Row
    <3>2. \A n \in Nat : /\ Grown(x.id, n).quantity = carts[x.id].quantity + n
                          /\ Grown(x.id, n).user = carts[x.id].user
                          /\ Grown(x.id, n).session = carts[x.id].session
      BY <1>2, <1>3, LoadedIs DEF Grown, Row, IInv
    <3>3. carts[x.id].quantity \in Nat
      BY <1>2 DEF Row
    <3> HIDE DEF moved, x
    <3> QED BY <1>2, <2>1, <3>1, <3>2, <3>3
  <2>2. CASE x.id = x.item
    <3>1. x.row = TakeOver(moved, x.req.shopper) /\ moved \in Row /\ carts[x.id] = moved
      BY <1>2, <2>2, Inputs DEF Shoppers
    <3>2. \A r \in Row : \A u : /\ TakeOver(r, u).quantity = r.quantity /\ TakeOver(r, u).user = u
                                /\ TakeOver(r, u).session = NoOne
      BY DEF TakeOver, Row
    <3>3. moved.quantity \in Nat
      BY <1>2 DEF Row
    <3> HIDE DEF moved, x
    <3> QED BY <2>2, <3>1, <3>2, <3>3
  <2> QED BY <2>1, <2>2
<1>9. row \in Row
  BY <1>1, <1>2, <1>5, <1>6, <1>7 DEF Updated, Row
<1> QED BY <1>7, <1>8, <1>9

\* The rows of an open cart, as far as they are in a table.
OpenIn(rows, u) ==
    [c \in CartIds |-> IF rows[c] # NoRow /\ Owned(rows[c], u) /\ rows[c].order = NoOne
                       THEN rows[c] ELSE NoRow]

LEMMA OpenInIs ==
    ASSUME NEW u
    PROVE  OpenRows(u) = OpenIn(carts, u)
  BY DEF OpenRows, Open, OwnedBy, OpenIn

LEMMA MergedIs ==
    ASSUME NEW w \in Workers, NEW u, NEW p
    PROVE  /\ Merged(w, u, p) = Amount(OpenIn(carts, u), p) + Amount(h[w].copies, p)
           /\ Merged(w, u, p)' = Amount(OpenIn(carts', u), p) + Amount(h'[w].copies, p)
<1>1. Merged(w, u, p) = Amount(OpenIn(carts, u), p) + Amount(h[w].copies, p)
  BY OpenInIs DEF Merged
<1>2. OpenRows(u)' = OpenIn(carts', u)
  BY DEF OpenRows, Open, OwnedBy, OpenIn
<1>3. Merged(w, u, p)' = Amount(OpenRows(u)', p) + Amount(h'[w].copies, p)
  BY DEF Merged
<1> QED BY <1>1, <1>2, <1>3

\* The save moves the quantity of the guest's row into the user's cart.
LEMMA WriteConserves ==
    ASSUME FinitelyMany, IInv, SInv, MInv, NEW w \in Workers, Write(w), Merging(h[w]),
           NEW u, u = h[w].req.shopper, NEW p \in Products
    PROVE  Merged(w, u, p)' = Merged(w, u, p)
<1> DEFINE x == h[w]
           id == x.id
           item == x.item
           moved == x.copies[item]
           row == carts'[id]
<1>1. /\ x \in Handler /\ Saving(x) /\ h'[w] = NextRow(w) /\ id \in CartIds
      /\ \A c \in CartIds : c # id => carts'[c] = carts[c]
  BY WriteIs
<1>2. /\ row \in Row /\ row.user = u /\ row.order = NoOne /\ row.product = moved.product
      /\ row.quantity = moved.quantity + (IF id = item THEN 0 ELSE carts[id].quantity)
  BY MoveWrites
<1>3. /\ item \in CartIds /\ moved \in Row /\ moved = carts[item] /\ moved.user = NoOne
      /\ carts[id] \in Row /\ carts[id].order = NoOne /\ u \in Users
      /\ id # item => carts[id].user = u /\ carts[id].product = moved.product
  BY <1>1, MovingIs
<1>4. carts \in Rows /\ x.copies \in Rows
  BY <1>1 DEF IInv, Typed, Handler
<1>5. NoRow \notin Row /\ u # NoOne
  BY <1>3, Inputs DEF Shoppers
<1> DEFINE copies2 == [x.copies EXCEPT ![item] = NoRow]
<1>6. h'[w].copies = copies2
  BY <1>1, NextRowHolds
<1>7. copies2 \in Rows /\ copies2[item] = NoRow
      /\ \A c \in CartIds : c # item => copies2[c] = x.copies[c]
  BY <1>3, <1>4 DEF Rows
<1> DEFINE open == OpenIn(carts, u)
           open2 == OpenIn(carts', u)
<1>8. /\ open \in Rows /\ open2 \in Rows
      /\ \A c \in CartIds : c # id => open2[c] = open[c]
  <2>1. \A c \in CartIds : carts'[c] \in Row \cup {NoRow}
    BY <1>1, <1>2, <1>4 DEF Rows
  <2> QED BY <1>1, <1>4, <2>1 DEF OpenIn, Rows
<1>9. open2[id] = row
  BY <1>1, <1>2, <1>3, <1>5 DEF OpenIn, Owned
<1>10. open[id] = IF id = item THEN NoRow ELSE carts[id]
  BY <1>1, <1>3, <1>5 DEF OpenIn, Owned
<1>11. /\ moved.quantity \in Nat /\ carts[id].quantity \in Nat
  BY <1>3 DEF Row
<1> HIDE DEF open, open2, copies2, row, moved, item, id
<1>12. AmountIn(row, p) = AmountIn(open[id], p) + AmountIn(moved, p)
  BY <1>2, <1>3, <1>5, <1>10, <1>11 DEF AmountIn
<1>13. /\ AmountIn(row, p) \in Int /\ AmountIn(open[id], p) \in Int /\ AmountIn(moved, p) \in Int
       /\ AmountIn(NoRow, p) = 0
  BY <1>2, <1>3, <1>5, <1>10, <1>11 DEF AmountIn, Row
<1>14. /\ Amount(open, p) \in Int /\ Amount(open2, p) \in Int
       /\ Amount(open2, p) - AmountIn(row, p) = Amount(open, p) - AmountIn(open[id], p)
  BY <1>1, <1>8, <1>9, AmountMoves
<1>15. /\ Amount(x.copies, p) \in Int /\ Amount(copies2, p) \in Int
       /\ Amount(copies2, p) - AmountIn(NoRow, p) = Amount(x.copies, p) - AmountIn(moved, p)
  <2>1. x.copies[item] = moved
    BY DEF moved
  <2> HIDE DEF x
  <2> QED BY <1>3, <1>4, <1>7, <2>1, AmountMoves
<1>16. Amount(open2, p) + Amount(copies2, p) = Amount(open, p) + Amount(x.copies, p)
  <2>1. Amount(open2, p) = Amount(open, p) + AmountIn(moved, p)
    BY <1>12, <1>13, <1>14
  <2>2. Amount(copies2, p) = Amount(x.copies, p) - AmountIn(moved, p)
    <3> HIDE DEF x
    <3> QED BY <1>13, <1>15
  <2> HIDE DEF x
  <2> QED BY <1>13, <1>14, <1>15, <2>1, <2>2
<1>17. /\ Merged(w, u, p) = Amount(open, p) + Amount(x.copies, p)
       /\ Merged(w, u, p)' = Amount(open2, p) + Amount(copies2, p)
  BY <1>6, MergedIs DEF open, open2
<1> QED BY <1>16, <1>17

\* What the last DELETE takes are rows of the session, none of them the user's.
LEMMA SyncDeleteConserves ==
    ASSUME UsersApart, IInv, MInv, NEW w \in Workers, SyncDelete(w), Merging(h[w]),
           NEW u, u = h[w].req.shopper, NEW p
    PROVE  Merged(w, u, p)' = Merged(w, u, p)
<1>1. /\ h[w] \in Handler /\ Shape(h[w]) /\ h[w].pc = "sync" /\ OneOwner(carts)
      /\ h'[w] = Resting
      /\ \A c \in CartIds : h[w].copies[c] = NoRow
  BY DEF SyncDelete, IInv, Typed, Shaped, MInv, Answer
<1>2. u \in Users /\ h[w].req.session \in Sessions
  BY <1>1, RequestIs DEF Shape, Merging
<1>3. h'[w].copies = h[w].copies
  <2>1. h[w].copies = [c \in CartIds |-> h[w].copies[c]]
    BY <1>1 DEF Handler, Rows
  <2>2. Resting.copies = [c \in CartIds |-> NoRow]
    BY DEF Resting
  <2> QED BY <1>1, <2>1, <2>2
<1>4. ASSUME NEW c \in CartIds, carts[c] # NoRow, Owned(carts[c], u)
      PROVE  c \notin Open(h[w].req.session)
  BY <1>1, <1>2, <1>4, Inputs
     DEF OneOwner, OwnedOnce, Owned, Open, OwnedBy, UsersApart, Shoppers
<1>5. carts' = [c \in CartIds |-> IF c \in Open(h[w].req.session) THEN NoRow ELSE carts[c]]
  BY DEF SyncDelete
<1>6. OpenIn(carts', u) = OpenIn(carts, u)
  BY <1>4, <1>5 DEF OpenIn
<1> QED BY <1>3, <1>6, MergedIs

LEMMA MergeStep ==
    ASSUME OneAtATime, FinitelyMany, UsersApart, IInv, SInv, MInv,
           NEW w \in Workers, Arrive(w) \/ Step(w) \/ Skip(w) \/ Abort(w),
           Merging(h[w]), aborts' = aborts,
           NEW u, u = h[w].req.shopper, NEW p \in Products
    PROVE  Merged(w, u, p)' = Merged(w, u, p)
<1>1. /\ h[w] \in Handler /\ h \in [Workers -> Handler] /\ Faithful(h[w]) /\ aborts \in Nat
      /\ h[w].pc \in {"sync", "compare", "write"}
  BY DEF IInv, Typed, MInv, Faithful, Saving
<1>2. ~Skip(w) /\ ~Abort(w)
  <2>1. aborts' # aborts + 1
    BY <1>1
  <2> QED BY <2>1 DEF Skip, Abort
<1>3. ~WriteFails(w)
  <2> SUFFICES ASSUME h[w].pc = "write" PROVE ~Duplicate(h[w].id, h[w].diff)
    BY DEF WriteFails
  <2>1. carts[h[w].id] # NoRow /\ h[w].diff = Differing(h[w].id, h[w].row, SavedColumns)
    BY <1>1 DEF Faithful, Saving, Moving
  <2> QED BY <2>1 DEF Differing, SavedColumns, Columns, Duplicate
<1>4. ~DeadlockAbort(w)
  BY DEF DeadlockAbort, OneAtATime
<1>5. SyncItem(w) \/ Compare(w) \/ Write(w) \/ SyncDelete(w)
  BY <1>1, <1>2, <1>3, <1>4
     DEF Step, Arrive, AddToCart, AddQuantity, RemoveFromCart, RemoveAllFromGuestCart,
         SyncGuestCartWithUser, Checkout, Receive, FindCart, FindDone, Delete, FindCustomer,
         SaveCustomer, CreateSale, CompareCarts, LinkCart, Commit, Notify
<1>6. ASSUME h'[w].copies = h[w].copies, carts' = carts
      PROVE  Merged(w, u, p)' = Merged(w, u, p)
  BY <1>6, MergedIs
<1>7. CASE SyncItem(w)
  <2>1. ASSUME NEW id, NEW row, NEW c, h' = [h EXCEPT ![w] = [ToSave(w, id, row) EXCEPT !.item = c]]
        PROVE  h'[w].copies = h[w].copies
    <3> DEFINE x == [ToSave(w, id, row) EXCEPT !.item = c]
    <3>1. h'[w] = x
      BY <1>1, <2>1
    <3>2. x.copies = h[w].copies
      BY <1>1 DEF ToSave, Handler
    <3> QED BY <3>1, <3>2
  <2> QED BY <1>6, <1>7, <2>1 DEF SyncItem
<1>8. CASE Compare(w)
  <2> DEFINE diff == Differing(h[w].id, h[w].row, SavedColumns)
             x == [h[w] EXCEPT !.pc = "write", !.diff = diff]
  <2>1. h'[w] = x
    BY <1>1, <1>8 DEF Compare
  <2> HIDE DEF diff
  <2>2. x.copies = h[w].copies
    BY <1>1 DEF Handler
  <2> QED BY <1>6, <1>8, <2>1, <2>2 DEF Compare
<1> QED BY <1>5, <1>7, <1>8, WriteConserves, SyncDeleteConserves

\* syncGuestCartWithUser: with one handler at a time a merge neither loses nor doubles a
\* quantity of any product, from its first SELECT to its last DELETE.
THEOREM MergeConservesSerially ==
    ASSUME OneAtATime, OneRowAtFirst, OneOwnerAtFirst, FinitelyMany, UsersApart
    PROVE  Spec => MergeConserves
<1> DEFINE Inv == IInv /\ SInv /\ MInv
<1>1. Init => Inv
  BY InitIInv, InitSInv, InitMInv
<1>2. Inv /\ [Next]_vars => Inv'
  BY NextIInv, NextSInv, NextMInv
<1>3. ASSUME Inv, [Next]_vars
      PROVE  [\A w \in Workers, user \in Users, p \in Products :
                 /\ h[w].req.op = "syncGuestCartWithUser" /\ h[w].req.shopper = user
                 /\ aborts' = aborts
                 => Merged(w, user, p)' = Merged(w, user, p)]_vars
  <2> SUFFICES ASSUME Next, NEW w \in Workers, NEW user \in Users, NEW p \in Products,
                      Merging(h[w]), h[w].req.shopper = user, aborts' = aborts
               PROVE  Merged(w, user, p)' = Merged(w, user, p)
    BY <1>3 DEF Merging
  <2>1. Arrive(w) \/ Step(w) \/ Skip(w) \/ Abort(w)
    BY DEF Next, OneAtATime
  <2> QED BY <1>3, <2>1, MergeStep
<1> QED BY <1>1, <1>2, <1>3, PTL DEF Spec, MergeConserves
=============================================================================
