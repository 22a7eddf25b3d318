------------------------------- MODULE Carts -------------------------------
(***************************************************************************)
(* Carts of users and of guests, and the checkout that turns a cart into   *)
(* an order: the rows of "Carts", the customers and the orders (a Sale and *)
(* its Checkout), and the handlers of CartService and TransactionService.  *)
(*                                                                         *)
(* As in SaleStock a step is the code between two awaits, and a save is a  *)
(* SELECT followed by an UPDATE of the differing columns.  A row that is   *)
(* gone when save looks for it is inserted again.  Cart.checkout is a lazy *)
(* relation: an entity that was loaded does not carry it, so only checkout *)
(* itself writes that column.                                              *)
(*                                                                         *)
(* Checkout works in a database transaction and holds the rows it wrote    *)
(* until Commit; the carts it orders were read before.  What the order     *)
(* costs and how it is paid is in SalePayments.                            *)
(***************************************************************************)
EXTENDS Integers, Sequences, FiniteSets, FiniteSetsExt

CONSTANTS
    Users,        \* customers with an account
    Sessions,     \* browser sessions of guests
    Products,
    CartIds,      \* rows of table Carts, existing or still to be inserted
    Orders,       \* orders still to be placed
    Emails,       \* addresses customers give
    Workers,      \* requests that may be in progress at the same time
    Requests,     \* what clients may ask, a subset of Request
    InitialCarts, \* the tables the system may start with
    MaxRequests,  \* bound on the number of requests of a behaviour
    MaxAborts,    \* bound on the number of failing awaits of a behaviour
    NoRow,        \* the row does not exist
    NoOne,        \* userId, sessionId or checkoutId is null
    NoEmail       \* a transaction that holds no customer

Shoppers == Users \cup Sessions

Row == [user : Users \cup {NoOne}, session : Sessions \cup {NoOne},
        product : Products, quantity : Nat \ {0}, order : Orders \cup {NoOne}]

Item == [product : Products, quantity : Nat] \* 0: the quantity is left out

Request == [op : {"addToCart", "bulkAddToCart", "addQuantity", "removeFromCart",
                  "removeAllFromGuestCart", "syncGuestCartWithUser", "checkout"},
            shopper : Shoppers,
            session : Sessions,     \* syncGuestCartWithUser: the guest
            items : Seq(Item),
            cart : CartIds, quantity : Nat \ {0},
            email : Emails]         \* checkout

ASSUME RequestsAssumption ==
    /\ Requests \subseteq Request
    /\ \A r \in Requests :
          /\ r.op = "syncGuestCartWithUser" => r.shopper \in Users
          /\ r.op = "removeAllFromGuestCart" => r.shopper \in Sessions
          /\ r.op = "bulkAddToCart" =>  \* guests have no route to theirs
                r.shopper \in Users /\ \A i \in DOMAIN r.items : r.items[i].quantity > 0

ASSUME InitialAssumption ==
    /\ InitialCarts \subseteq [CartIds -> Row \cup {NoRow}]
    /\ \A rows \in InitialCarts, c \in CartIds :
          rows[c] # NoRow => rows[c].order = NoOne  \* no order is placed yet
    /\ NoRow \notin Row /\ NoOne \notin Shoppers \cup Orders /\ NoEmail \notin Emails

ASSUME BoundsAssumption == MaxRequests \in Nat /\ MaxAborts \in Nat

VARIABLES
    carts,     \* table Carts, committed rows
    orders,    \* for each order the cart rows it was made of, {} before
    customers, \* emails that have a row in table Customers
    h,         \* the handler each worker runs
    requests,  \* requests received so far
    aborts     \* awaits that failed so far

vars == <<carts, orders, customers, h, requests, aborts>>

PC == {"idle", "find", "compare", "write", "delete", "sync", "customer",
       "saveCustomer", "order", "link", "linkWrite", "notify"}

Resting ==
    [pc |-> "idle",
     req |-> [op |-> "none"],
     todo |-> <<>>,                         \* items still to be added
     copies |-> [c \in CartIds |-> NoRow],  \* rows read at the start
     id |-> NoRow, row |-> NoRow,           \* the entity to be saved
     diff |-> {},                           \* the columns the UPDATE will set
     item |-> NoRow,                        \* sync: the guest's row in hand
     known |-> FALSE,                       \* checkout: the customer was found
     email |-> NoEmail,                     \* the customer row it wrote
     order |-> NoOne,                       \* the order it is making
     links |-> [c \in CartIds |-> {}],      \* columns to be updated, by row
     view |-> [c \in CartIds |-> NoRow]]    \* rows its transaction wrote

Columns == {"user", "session", "product", "quantity", "order"}

Written(w) == {c \in CartIds : h[w].view[c] # NoRow}

\* No other transaction holds the row.
RowFree(w, c) == \A v \in Workers \ {w} : c \notin Written(v)

\* save, first half: the columns that differ, or a row that is to be inserted,
\* which sets the id as well.
Differing(c, entity, columns) ==
    IF carts[c] = NoRow THEN Columns \cup {"id"}
    ELSE {k \in columns : entity[k] # carts[c][k]}

Set(column, diff, entity, row) == IF column \in diff THEN entity[column] ELSE row[column]

Updated(row, entity, diff) ==
    [user |-> Set("user", diff, entity, row), session |-> Set("session", diff, entity, row),
     product |-> row.product, quantity |-> Set("quantity", diff, entity, row),
     order |-> Set("order", diff, entity, row)]

\* save, second half: an INSERT of the entity, or an UPDATE, which does nothing
\* when the row is gone.
Saved(c, entity, diff) ==
    IF "id" \in diff THEN entity
    ELSE IF carts[c] = NoRow THEN NoRow ELSE Updated(carts[c], entity, diff)

\* The INSERT finds that another handler has brought the row back.
Duplicate(c, diff) == "id" \in diff /\ carts[c] # NoRow

Init ==
    /\ carts \in InitialCarts
    /\ orders = [o \in Orders |-> {}]
    /\ customers \in SUBSET Emails
    /\ h = [w \in Workers |-> Resting]
    /\ requests = 0
    /\ aborts = 0

(***************************************************************************)
(* Requests, up to their first await after the shopper was found.          *)
(***************************************************************************)
Receive(w) ==
    /\ h[w].pc = "idle"
    /\ requests < MaxRequests
    /\ requests' = requests + 1
    /\ UNCHANGED <<carts, orders, customers, aborts>>

\* Plausible bug: a failed checkout gives its connection back without rollback.
AnswerKeepingLocks(w) ==
    h' = [h EXCEPT ![w] = [Resting EXCEPT !.view = h[w].view, !.email = h[w].email]]

Answer(w) == h' = [h EXCEPT ![w] = Resting]

Start(r, pc) == [Resting EXCEPT !.pc = pc, !.req = r]

\* userId or sessionId of the row; a row whose session was taken over has none.
Owned(row, shopper) == IF shopper \in Users THEN row.user = shopper ELSE row.session = shopper

OwnedBy(shopper) == {c \in CartIds : carts[c] # NoRow /\ Owned(carts[c], shopper)}

\* checkout: IsNull()
Open(shopper) == {c \in OwnedBy(shopper) : carts[c].order = NoOne}

\* An entity as it is loaded: without its lazy checkout.
Loaded(c) == [carts[c] EXCEPT !.order = NoOne]

CopiesOf(ids) == [c \in CartIds |-> IF c \in ids THEN Loaded(c) ELSE NoRow]

\* addToCart, addToGuestCart and their bulk forms: a loop over the items.
AddToCart(w, r) ==
    /\ r.op \in {"addToCart", "bulkAddToCart"}
    /\ Receive(w)
    /\ h' = [h EXCEPT ![w] = [Start(r, "find") EXCEPT !.todo = r.items]]

\* addQuantity, updateGuestCartQuantity: the new quantity of a row.
AddQuantity(w, r) ==
    /\ r.op = "addQuantity"
    /\ Receive(w)
    /\ IF r.cart \in OwnedBy(r.shopper)
         THEN h' = [h EXCEPT ![w] = [Start(r, "compare") EXCEPT
                       !.id = r.cart, !.row = [Loaded(r.cart) EXCEPT !.quantity = r.quantity]]]
         ELSE Answer(w)

RemoveFromCart(w, r) ==
    /\ r.op = "removeFromCart"
    /\ Receive(w)
    /\ IF r.cart \in OwnedBy(r.shopper)
         THEN h' = [h EXCEPT ![w] = Start(r, "delete")]
         ELSE Answer(w)

RemoveAllFromGuestCart(w, r) ==
    /\ r.op = "removeAllFromGuestCart"
    /\ Receive(w)
    /\ h' = [h EXCEPT ![w] = Start(r, "delete")]

\* syncGuestCartWithUser, when a guest signs in.
SyncGuestCartWithUser(w, r) ==
    /\ r.op = "syncGuestCartWithUser"
    /\ Receive(w)
    /\ IF Open(r.session) # {}
         THEN h' = [h EXCEPT ![w] = [Start(r, "sync") EXCEPT !.copies = CopiesOf(Open(r.session))]]
         ELSE Answer(w)

\* Plausible bug: the rows of earlier orders are ordered again.
CartsEverOwned(shopper) == OwnedBy(shopper)

CartsForCheckout(shopper) == Open(shopper)

\* placeOrder, initializeTransaction and their guest forms.
Checkout(w, r) ==
    /\ r.op = "checkout"
    /\ Receive(w)
    /\ LET cart == CartsForCheckout(r.shopper)
       IN  IF cart # {}
             THEN h' = [h EXCEPT ![w] = [Start(r, "customer") EXCEPT !.copies = CopiesOf(cart)]]
             ELSE Answer(w)

(***************************************************************************)
(* Adding items, and saving a row.                                         *)
(***************************************************************************)
\* A uuid nobody knows.
Fresh(c) ==
    /\ carts[c] = NoRow /\ \A o \in Orders : \A item \in orders[o] : item.cart # c
    /\ \A v \in Workers : h[v].id # c /\ h[v].copies[c] = NoRow

\* Which of the unused ids it is does not matter.
FreshCarts == {c \in CartIds : Fresh(c)}
FreshCart == CHOOSE c \in FreshCarts : TRUE

\* Plausible bug: a quantity that is left out is taken as it is.
AskedPlain(item) == item.quantity

\* quantity || 1
Asked(item) == IF item.quantity = 0 THEN 1 ELSE item.quantity

NewRow(shopper, item) ==
    [user |-> IF shopper \in Users THEN shopper ELSE NoOne,
     session |-> IF shopper \in Sessions THEN shopper ELSE NoOne,
     product |-> item.product, quantity |-> Asked(item), order |-> NoOne]

Holding(shopper, product) == {c \in Open(shopper) : carts[c].product = product}

\* existingCart.quantity += n
Grown(c, n) == [Loaded(c) EXCEPT !.quantity = carts[c].quantity + n]

ToSave(w, c, row) == [h[w] EXCEPT !.pc = "compare", !.id = c, !.row = row]

\* Plausible bug: a product that is in the cart already gets a second row.
FindCartAlwaysNew(w) ==
    /\ h[w].pc = "find" /\ h[w].todo # <<>>
    /\ FreshCarts # {}
    /\ h' = [h EXCEPT ![w] = ToSave(w, FreshCart, NewRow(h[w].req.shopper, Head(h[w].todo)))]
    /\ UNCHANGED <<carts, orders, customers, requests, aborts>>

\* findCart: the row of the product in the open cart, or a new one.
FindCart(w) ==
    /\ h[w].pc = "find" /\ h[w].todo # <<>>
    /\ LET item == Head(h[w].todo)
           existing == Holding(h[w].req.shopper, item.product)
       IN  \/ \E c \in existing :
                 h' = [h EXCEPT ![w] = ToSave(w, c, Grown(c, Asked(item)))]
           \/ /\ existing = {} /\ FreshCarts # {}
              /\ h' = [h EXCEPT ![w] = ToSave(w, FreshCart, NewRow(h[w].req.shopper, item))]
    /\ UNCHANGED <<carts, orders, customers, requests, aborts>>

FindDone(w) ==
    /\ h[w].pc = "find" /\ h[w].todo = <<>>
    /\ Answer(w)
    /\ UNCHANGED <<carts, orders, customers, requests, aborts>>

\* Plausible bug: the relation to the order is eager, and saved with the rest.
SavedColumnsEager == Columns

\* checkout is lazy: a loaded entity has no value for it to compare.
SavedColumns == Columns \ {"order"}

Compare(w) ==
    /\ h[w].pc = "compare"
    /\ h' = [h EXCEPT ![w] = [h[w] EXCEPT
                !.pc = "write", !.diff = Differing(h[w].id, h[w].row, SavedColumns)]]
    /\ UNCHANGED <<carts, orders, customers, requests, aborts>>

\* What a request does after a row is saved, or was skipped.
NextRow(w) ==
    CASE h[w].req.op = "addQuantity" -> Resting
      [] h[w].req.op = "syncGuestCartWithUser" ->
             [h[w] EXCEPT !.pc = "sync", !.copies = [h[w].copies EXCEPT ![h[w].item] = NoRow],
                          !.item = NoRow, !.id = NoRow, !.row = NoRow, !.diff = {}]
      [] OTHER ->
             [h[w] EXCEPT !.pc = "find", !.todo = Tail(h[w].todo),
                          !.id = NoRow, !.row = NoRow, !.diff = {}]

Write(w) ==
    /\ h[w].pc = "write"
    /\ h[w].diff # {} => RowFree(w, h[w].id)
    /\ ~Duplicate(h[w].id, h[w].diff)
    /\ carts' = [carts EXCEPT ![h[w].id] = Saved(h[w].id, h[w].row, h[w].diff)]
    /\ h' = [h EXCEPT ![w] = NextRow(w)]
    /\ UNCHANGED <<orders, customers, requests, aborts>>

WriteFails(w) ==
    /\ h[w].pc = "write"
    /\ Duplicate(h[w].id, h[w].diff)
    /\ h' = [h EXCEPT ![w] = IF h[w].req.op \in {"bulkAddToCart", "syncGuestCartWithUser"}
                               THEN NextRow(w) ELSE Resting]
    /\ UNCHANGED <<carts, orders, customers, requests, aborts>>

\* The bulk operations and the merge catch what fails for one item, be it its
\* first SELECT or its save, and skip it.
Skip(w) ==
    /\ aborts < MaxAborts
    /\ aborts' = aborts + 1
    /\ h[w].req.op \in {"bulkAddToCart", "syncGuestCartWithUser"}
    /\ h[w].pc \in {"compare", "write"}
    /\ h' = [h EXCEPT ![w] = NextRow(w)]
    /\ UNCHANGED <<carts, orders, customers, requests>>

\* A DELETE by id, or of all the rows of a session, ordered ones included.
Doomed(w) ==
    IF h[w].req.op = "removeFromCart" THEN {h[w].req.cart} ELSE OwnedBy(h[w].req.shopper)

Delete(w) ==
    /\ h[w].pc = "delete"
    /\ \A c \in Doomed(w) : RowFree(w, c)
    /\ carts' = [c \in CartIds |-> IF c \in Doomed(w) THEN NoRow ELSE carts[c]]
    /\ Answer(w)
    /\ UNCHANGED <<orders, customers, requests, aborts>>

(***************************************************************************)
(* Merging a guest's cart into the user's.                                 *)
(***************************************************************************)
\* Plausible bug: the row keeps its session, and is deleted with the rest.
TakeOverKeepingSession(row, user) == [row EXCEPT !.user = user]

TakeOver(row, user) == [row EXCEPT !.user = user, !.session = NoOne]

SyncItem(w) ==
    /\ h[w].pc = "sync"
    /\ \E c \in CartIds :
          /\ h[w].copies[c] # NoRow
          /\ LET guestItem == h[w].copies[c]
                 existing == Holding(h[w].req.shopper, guestItem.product)
             IN  \/ \E mine \in existing :
                       h' = [h EXCEPT ![w] =
                               [ToSave(w, mine, Grown(mine, guestItem.quantity)) EXCEPT !.item = c]]
                 \/ /\ existing = {}
                    /\ h' = [h EXCEPT ![w] =
                               [ToSave(w, c, TakeOver(guestItem, h[w].req.shopper)) EXCEPT !.item = c]]
    /\ UNCHANGED <<carts, orders, customers, requests, aborts>>

\* What is left of the guest's cart is deleted, skipped or not.
SyncDelete(w) ==
    /\ h[w].pc = "sync"
    /\ \A c \in CartIds : h[w].copies[c] = NoRow
    /\ \A c \in Open(h[w].req.session) : RowFree(w, c)
    /\ carts' = [c \in CartIds |-> IF c \in Open(h[w].req.session) THEN NoRow ELSE carts[c]]
    /\ Answer(w)
    /\ UNCHANGED <<orders, customers, requests, aborts>>

(***************************************************************************)
(* Checkout, in a transaction.                                             *)
(***************************************************************************)
CustomerFree(w, e) == \A v \in Workers \ {w} : h[v].email # e

\* findOrCreateCustomer, findOrCreateGuestCustomer: the SELECT.
FindCustomer(w) ==
    /\ h[w].pc = "customer"
    /\ h' = [h EXCEPT ![w] = [h[w] EXCEPT
                !.pc = "saveCustomer", !.known = h[w].req.email \in customers]]
    /\ UNCHANGED <<carts, orders, customers, requests, aborts>>

\* The save: nothing if no detail changed; otherwise the row stays locked.
\* The unique index on the email refuses a second INSERT.
SaveCustomer(w) ==
    /\ h[w].pc = "saveCustomer"
    /\ LET e == h[w].req.email
       IN  \/ h[w].known /\ h' = [h EXCEPT ![w] = [h[w] EXCEPT !.pc = "order"]]
           \/ /\ CustomerFree(w, e)
              /\ IF h[w].known \/ e \notin customers
                   THEN h' = [h EXCEPT ![w] = [h[w] EXCEPT !.pc = "order", !.email = e]]
                   ELSE Answer(w)
    /\ UNCHANGED <<carts, orders, customers, requests, aborts>>

\* createSale and createCheckout: INSERTs nobody sees before Commit.
CreateSale(w) ==
    /\ h[w].pc = "order"
    /\ LET unused == {o \in Orders : orders[o] = {} /\ \A v \in Workers : h[v].order # o}
       IN  /\ unused # {}
           /\ h' = [h EXCEPT ![w] = [h[w] EXCEPT
                       !.pc = "link", !.order = CHOOSE o \in unused : TRUE]]
    /\ UNCHANGED <<carts, orders, customers, requests, aborts>>

Linked(w, c) == [h[w].copies[c] EXCEPT !.order = h[w].order]

InCart(w) == {c \in CartIds : h[w].copies[c] # NoRow}

\* linkCartsToCheckout: the SELECT of its save, and the UPDATEs.
CompareCarts(w) ==
    /\ h[w].pc = "link"
    /\ LET links == [c \in CartIds |->
                        IF c \in InCart(w) THEN Differing(c, Linked(w, c), Columns) ELSE {}]
       IN  h' = [h EXCEPT ![w] = [h[w] EXCEPT !.pc = "linkWrite", !.links = links]]
    /\ UNCHANGED <<carts, orders, customers, requests, aborts>>

\* Plausible bug: the carts are saved with the repository, outside the transaction.
LinkCartAtOnce(w) ==
    /\ h[w].pc = "linkWrite"
    /\ \E c \in CartIds :
          /\ h[w].links[c] # {} /\ RowFree(w, c)
          /\ carts' = [carts EXCEPT ![c] = Linked(w, c)]
          /\ h' = [h EXCEPT ![w].links[c] = {}]
    /\ UNCHANGED <<orders, customers, requests, aborts>>

LinkCart(w) ==
    /\ h[w].pc = "linkWrite"
    /\ \E c \in CartIds :
          /\ h[w].links[c] # {} /\ RowFree(w, c)
          /\ IF Duplicate(c, h[w].links[c]) THEN Answer(w)
             ELSE h' = [h EXCEPT ![w] = [h[w] EXCEPT
                           !.links = [h[w].links EXCEPT ![c] = {}],
                           !.view = [h[w].view EXCEPT
                                        ![c] = Saved(c, Linked(w, c), h[w].links[c])]]]
    /\ UNCHANGED <<carts, orders, customers, requests, aborts>>

\* The line items of the order are the rows that were read at the start.
Ordered(w) ==
    {[cart |-> c, product |-> h[w].copies[c].product, quantity |-> h[w].copies[c].quantity] :
        c \in InCart(w)}

Commit(w) ==
    /\ h[w].pc = "linkWrite"
    /\ \A c \in CartIds : h[w].links[c] = {}
    /\ carts' = [c \in CartIds |-> IF c \in Written(w) THEN h[w].view[c] ELSE carts[c]]
    /\ orders' = [orders EXCEPT ![h[w].order] = Ordered(w)]
    /\ customers' = customers \cup ({h[w].email} \ {NoEmail})
    /\ h' = [h EXCEPT ![w] = Start(h[w].req, "notify")]
    /\ UNCHANGED <<requests, aborts>>

\* sendOrderNotifications and the mail to the customer.
Notify(w) ==
    /\ h[w].pc = "notify"
    /\ Answer(w)
    /\ UNCHANGED <<carts, orders, customers, requests, aborts>>

(***************************************************************************)
(* What can fail: an await that throws, or the process dying.              *)
(***************************************************************************)
Abort(w) ==
    /\ h[w].pc # "idle"
    /\ aborts < MaxAborts
    /\ aborts' = aborts + 1
    /\ Answer(w)
    /\ UNCHANGED <<carts, orders, customers, requests>>

\* PostgreSQL fails a transaction that waits in a ring of transactions.
WaitsFor(w, v) ==
    \/ h[w].pc = "saveCustomer" /\ h[v].email = h[w].req.email
    \/ h[w].pc = "linkWrite" /\ \E c \in Written(v) : h[w].links[c] # {}

DeadlockAbort(w) ==
    /\ \E ring \in SUBSET Workers :
          w \in ring /\ \A u \in ring : \E v \in ring \ {u} : WaitsFor(u, v)
    /\ Answer(w)
    /\ UNCHANGED <<carts, orders, customers, requests, aborts>>

-----------------------------------------------------------------------------
Arrive(w) ==
    \E r \in Requests :
        \/ AddToCart(w, r) \/ AddQuantity(w, r)
        \/ RemoveFromCart(w, r) \/ RemoveAllFromGuestCart(w, r)
        \/ SyncGuestCartWithUser(w, r) \/ Checkout(w, r)

Step(w) ==
    \/ FindCart(w) \/ FindDone(w)
    \/ Compare(w) \/ Write(w) \/ WriteFails(w)
    \/ Delete(w)
    \/ SyncItem(w) \/ SyncDelete(w)
    \/ FindCustomer(w) \/ SaveCustomer(w) \/ CreateSale(w)
    \/ CompareCarts(w) \/ LinkCart(w) \/ Commit(w) \/ Notify(w)
    \/ DeadlockAbort(w)

Next == \E w \in Workers : Arrive(w) \/ Step(w) \/ Skip(w) \/ Abort(w)

Spec == Init /\ [][Next]_vars

\* The event loop and the database serve every handler; a client is owed nothing.
FairSpec == Spec /\ \A w \in Workers : WF_vars(Step(w))

-----------------------------------------------------------------------------
(***************************************************************************)
(* Properties.                                                             *)
(***************************************************************************)
\* Types: above all, no cart row ever has an amount below one.
TypeOK ==
    /\ carts \in [CartIds -> Row \cup {NoRow}]
    /\ \A o \in Orders : orders[o] \subseteq
          [cart : CartIds, product : Products, quantity : Nat \ {0}]
    /\ customers \subseteq Emails
    /\ \A w \in Workers :
          /\ h[w].pc \in PC
          /\ h[w].copies \in [CartIds -> Row \cup {NoRow}]
          /\ h[w].view \in [CartIds -> Row \cup {NoRow}]
          /\ h[w].row \in Row \cup {NoRow} /\ h[w].diff \subseteq Columns \cup {"id"}
          /\ h[w].order \in Orders \cup {NoOne}

Removes(w, c) == h[w].pc = "delete" /\ c \in Doomed(w)

\* While a row that went into an order is there, it stays linked: no UPDATE
\* with an older copy, be it of CartService or of another checkout, takes the
\* link back, and no merge of a guest's cart deletes the row; only its owner's
\* DELETE does.  Once that has happened the property says no more: a save that
\* holds a copy of the deleted row inserts it again, as a row of an open cart.
OrderedUntilRemoved ==
    [][\A c \in CartIds :
          carts[c] # NoRow /\ carts[c].order # NoOne =>
             \/ carts'[c] # NoRow /\ carts'[c].order # NoOne
             \/ carts'[c] = NoRow /\ \E w \in Workers : Removes(w, c)]_vars

\* A row is linked only to an order that exists and that lists it: a checkout
\* that fails at any step leaves no cart half ordered.
LinkedRowsOrdered ==
    \A c \in CartIds :
        carts[c] # NoRow /\ carts[c].order # NoOne =>
           \E item \in orders[carts[c].order] : item.cart = c /\ item.product = carts[c].product

\* Every request is answered: no handler waits for a row lock for ever.
EveryRequestAnswered == \A w \in Workers : h[w].pc # "idle" ~> h[w].pc = "idle"

\* One request at a time: a cart holds a product in one row, however it was
\* filled (single, bulk, merged from a guest).
OneRowPerProduct ==
    \A s \in Shoppers, p \in Products : Cardinality(Holding(s, p)) <= 1

\* One request at a time: a row is bought once, by one order.
OrderedOnce ==
    \A o, p \in Orders : o # p =>
        {item.cart : item \in orders[o]} \cap {item.cart : item \in orders[p]} = {}

Amount(rows, p) ==
    LET Of(c) == IF rows[c].product = p THEN rows[c].quantity ELSE 0
    IN  MapThenSumSet(Of, {c \in CartIds : rows[c] # NoRow})

OpenRows(user) == [c \in CartIds |-> IF c \in Open(user) THEN carts[c] ELSE NoRow]

\* What the user has once the merge is through: the own rows and the guest's
\* rows still to be merged.
Merged(w, user, p) == Amount(OpenRows(user), p) + Amount(h[w].copies, p)

\* One request at a time: a merge of which no item is skipped neither loses
\* nor doubles a quantity, up to its last DELETE.
MergeConserves ==
    [][\A w \in Workers, user \in Users, p \in Products :
          /\ h[w].req.op = "syncGuestCartWithUser" /\ h[w].req.shopper = user
          /\ aborts' = aborts
          => Merged(w, user, p)' = Merged(w, user, p)]_vars
=============================================================================
