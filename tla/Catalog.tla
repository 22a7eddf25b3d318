------------------------------- MODULE Catalog -------------------------------
(***************************************************************************)
(* Catalog: the tables "Products" and "Batches" (their numbers; what is in *)
(* them is SaleStock's), the handlers of ProductCrudService with the mails *)
(* that follow them, the numbering of batches, and the recommendations of  *)
(* the home page, which read the products again and again while they may   *)
(* change.                                                                 *)
(*                                                                         *)
(* As in SaleStock a step is the code between two awaits, and a save is a  *)
(* SELECT followed by an UPDATE of the columns that differ; columns the    *)
(* handler set to undefined are left out.  Products are numbered as they   *)
(* were created.                                                           *)
(***************************************************************************)
EXTENDS Integers, FiniteSets, FiniteSetsExt

CONSTANTS
    Products,        \* 1 .. N, in the order of their creation
    Skus, Prices, Quantities,
    Category,        \* of each product
    SkuPrefix, NamePrefix, \* what batch numbers begin with: from a SKU, from a product's name
    Words,           \* endings of hand-made batch numbers that are no numbers
    MaxSequence,     \* bound on the numbers of batches
    Base, Width,     \* numbers are padded to Width digits in this base
    Limit,           \* how many products the home page asks for
    Requests, Workers, InitialTables,
    MaxRequests,     \* bound on the number of requests of a behaviour
    MaxAborts,       \* bound on the number of failing awaits of a behaviour
    Absent, NoProduct

\* price stands for wholesale and retail, active for the status.
Columns == {"sku", "price", "quantity", "box", "active", "featured", "favorite", "deleted"}

Boxes == {q * p : q \in Quantities, p \in Prices} \cup {Absent}

Row == [sku : Skus \cup {Absent}, price : Prices, quantity : Quantities \cup {Absent},
        box : Boxes, active : BOOLEAN, featured : BOOLEAN, favorite : BOOLEAN,
        deleted : BOOLEAN]

\* A partial update: what the client left out is Absent, but for the status and the
\* flag, which the class of the request sets to active and not featured.
Dto == [sku : Skus \cup {Absent}, price : Prices \cup {Absent},
        quantity : Quantities \cup {Absent}, box : Boxes,
        active : BOOLEAN, featured : BOOLEAN]

\* A new product has a price.
NewDto == [sku : Skus \cup {Absent}, price : Prices,
           quantity : Quantities \cup {Absent}, box : Boxes,
           active : BOOLEAN, featured : BOOLEAN]

Suffix == 1 .. MaxSequence \cup Words
Prefixes == {SkuPrefix[sku] : sku \in Skus} \cup {NamePrefix[p] : p \in Products}
Batch == [prefix : Prefixes, suffix : Suffix]

Request ==
    [op : {"create"}, product : Products, dto : NewDto]
        \cup [op : {"edit"}, product : Products, dto : Dto]
        \cup [op : {"status", "favorite", "delete"}, product : Products]
        \cup [op : {"batch"}, product : Products, suffix : Suffix \cup {Absent}]
        \cup [op : {"personal", "curated"}]

Interest == [bought : SUBSET Products, sold : SUBSET Products,
             cart : SUBSET Products, carts : SUBSET Products]

ASSUME InputsAssumption ==
    /\ IsFiniteSet(Products) /\ Products = 1 .. Cardinality(Products)
    /\ NoProduct \notin Row
    /\ Requests \subseteq Request
    /\ InitialTables \subseteq [products : [Products -> Row \cup {NoProduct}],
                                batches : SUBSET Batch, interest : Interest]
    /\ {Base, Width, Limit, MaxSequence, MaxRequests} \subseteq Nat \ {0} /\ MaxAborts \in Nat
    /\ Base > 1

VARIABLES
    products, batches,
    interest,        \* what the orders and carts refer to
    told,            \* the price the customers were told last, Absent when it was no number
    h,               \* the handler each worker runs
    requests, aborts,
    \* What happened, for the properties:
    steady,          \* products on sale since the handler of a worker began
    overlapped       \* two requests were in progress at the same time

tables == <<products, batches, told>>
vars == <<tables, interest, h, requests, aborts, steady, overlapped>>

Resting ==
    [pc |-> "idle", req |-> [op |-> "none"],
     old |-> Absent,                \* the price before an edit
     row |-> NoProduct, cols |-> {}, diff |-> {},
     prefix |-> Absent, suffix |-> Absent,
     purchased |-> {}, scored |-> {}, result |-> {}]  \* of a recommendation

Init ==
    /\ \E initial \in InitialTables :
          /\ products = initial.products /\ batches = initial.batches
          /\ interest = initial.interest
          /\ told = [p \in Products |-> IF products[p] = NoProduct THEN Absent
                                         ELSE products[p].price]
    /\ h = [w \in Workers |-> Resting]
    /\ requests = 0 /\ aborts = 0 /\ overlapped = FALSE
    /\ steady = [w \in Workers |-> {}]

Kept(p) == products[p] # NoProduct /\ ~products[p].deleted
OnSale(p) == Kept(p) /\ products[p].active
WithSku(sku) == {p \in Products : products[p] # NoProduct /\ products[p].sku = sku}

(***************************************************************************)
(* The beginning of every handler.                                         *)
(***************************************************************************)
Receive(w, r) ==
    /\ h[w].pc = "idle"
    /\ requests < MaxRequests
    /\ requests' = requests + 1
    /\ overlapped' = (overlapped \/ \E v \in Workers \ {w} : h[v].pc # "idle")
    /\ steady' = [steady EXCEPT ![w] = {p \in Products : OnSale(p)}]
    /\ UNCHANGED <<tables, interest, aborts>>

Doing(w, pc) == h[w].pc = pc /\ UNCHANGED <<interest, requests, aborts, overlapped>>

Answer(w) == h' = [h EXCEPT ![w] = Resting]

Continue(w, guard, handler) == h' = [h EXCEPT ![w] = IF guard THEN handler ELSE Resting]

Begin(pc, r) == [Resting EXCEPT !.pc = pc, !.req = r]

(***************************************************************************)
(* Products.                                                               *)
(***************************************************************************)
BoxOf(dto, given) ==
    IF dto.quantity # Absent /\ dto.price # Absent THEN dto.quantity * dto.price ELSE given

\* createProduct: a box price that is given is kept.
NewRow(dto) ==
    [sku |-> dto.sku, price |-> dto.price, quantity |-> dto.quantity,
     box |-> IF dto.box # Absent THEN dto.box ELSE BoxOf(dto, Absent),
     active |-> dto.active, featured |-> dto.featured, favorite |-> FALSE, deleted |-> FALSE]

CreateProduct(w, r) ==
    /\ r.op = "create"
    /\ products[r.product] = NoProduct
    /\ \A p \in Products : p < r.product => products[p] # NoProduct
    /\ \A v \in Workers : h[v].req.op = "create" => h[v].req.product # r.product
    /\ Receive(w, r)
    /\ Continue(w, r.dto.sku = Absent \/ \A p \in WithSku(r.dto.sku) : ~Kept(p),
                [Begin("insert", r) EXCEPT !.row = NewRow(r.dto)])

\* ProductsService.editProduct remembers the prices of a copy of its own.
EditProduct(w, r) ==
    /\ r.op = "edit"
    /\ Receive(w, r)
    /\ Continue(w, Kept(r.product), [Begin("load", r) EXCEPT !.old = products[r.product].price])

Named(dto) == {c \in {"sku", "price", "quantity"} : dto[c] # Absent}

\* Plausible repair gone wrong: what the client left out is kept from the copy.
DefinedKept(dto) == Columns

\* setProductFields sets what the client left out to undefined, but for the
\* status and the flag, which are always there; the columns it does not set,
\* favorite and deleted, are those of the copy and are saved with it.
Defined(dto) ==
    Named(dto) \cup {"active", "featured", "favorite", "deleted"}
        \cup (IF BoxOf(dto, dto.box) # Absent THEN {"box"} ELSE {})

SetProductFields(row, dto) ==
    [c \in Columns |->
        CASE c = "box" /\ BoxOf(dto, dto.box) # Absent -> BoxOf(dto, dto.box)
          [] c \in Named(dto) -> dto[c]
          [] c \in {"active", "featured"} -> dto[c]
          [] OTHER -> row[c]]

LoadProduct(w) ==
    /\ Doing(w, "load")
    /\ LET r == h[w].req
           other == r.dto.sku \notin {Absent, products[r.product].sku}
       IN  Continue(w, Kept(r.product),
                    [h[w] EXCEPT !.pc = IF other THEN "sku" ELSE "compare",
                                 !.row = SetProductFields(products[r.product], r.dto),
                                 !.cols = Defined(r.dto)])
    /\ UNCHANGED <<tables, steady>>

CheckSku(w) ==
    /\ Doing(w, "sku")
    /\ Continue(w, \A p \in WithSku(h[w].req.dto.sku) : ~Kept(p), [h[w] EXCEPT !.pc = "compare"])
    /\ UNCHANGED <<tables, steady>>

\* changeProductStatus, toggleFavorite and deleteProduct save their whole copy.
Toggle(w, r, op, column) ==
    /\ r.op = op
    /\ Receive(w, r)
    /\ Continue(w, Kept(r.product),
                [Begin("compare", r) EXCEPT
                    !.row = [products[r.product] EXCEPT ![column] = ~products[r.product][column]],
                    !.cols = Columns])

ChangeProductStatus(w, r) == Toggle(w, r, "status", "active")
ToggleFavorite(w, r) == Toggle(w, r, "favorite", "favorite")
DeleteProduct(w, r) == Toggle(w, r, "delete", "deleted")

\* save, first half.
Compare(w) ==
    /\ Doing(w, "compare")
    /\ h' = [h EXCEPT ![w] = [h[w] EXCEPT !.pc = "write",
                !.diff = {c \in h[w].cols : h[w].row[c] # products[h[w].req.product][c]}]]
    /\ UNCHANGED <<tables, steady>>

\* The unique index does not know of the deletion.
SkuTaken(p, sku) == sku # Absent /\ WithSku(sku) \ {p} # {}

Mended(row, entity, diff) == [c \in Columns |-> IF c \in diff THEN entity[c] ELSE row[c]]

OnSaleStill == [v \in Workers |-> {p \in steady[v] : OnSale(p)'}]

\* save, second half.
Write(w) ==
    /\ Doing(w, "write")
    /\ LET p == h[w].req.product
       IN  IF "sku" \in h[w].diff /\ SkuTaken(p, h[w].row.sku)
             THEN Answer(w) /\ UNCHANGED products
             ELSE /\ products' = [products EXCEPT ![p] = Mended(products[p], h[w].row, h[w].diff)]
                  /\ Continue(w, h[w].req.op = "edit", [h[w] EXCEPT !.pc = "mail"])
    /\ steady' = OnSaleStill
    /\ UNCHANGED <<batches, told>>

InsertProduct(w) ==
    /\ Doing(w, "insert")
    /\ IF SkuTaken(h[w].req.product, h[w].row.sku)
         THEN Answer(w) /\ UNCHANGED products
         ELSE /\ products' = [products EXCEPT ![h[w].req.product] = h[w].row]
              /\ h' = [h EXCEPT ![w] = [h[w] EXCEPT !.pc = "mail"]]
    /\ steady' = OnSaleStill
    /\ UNCHANGED <<batches, told>>

\* Plausible bug: the old price is read from the entity after it was changed.
PriceMailedLate(handler) == handler.row.price # handler.req.dto.price

\* detectAndNotifyPriceChanges; a price that was left out is not a number, and
\* differs from every number.
PriceMailed(handler) == handler.old # handler.req.dto.price

\* sendPriceChangeNotification: the new price, or what is no number when the edit
\* named none.
PriceInMail(handler) == handler.req.dto.price

\* The mails to the customers of a new product or a new price, after the answer.
SendMails(w) ==
    /\ Doing(w, "mail")
    /\ told' = IF h[w].req.op = "create" \/ PriceMailed(h[w])
                 THEN [told EXCEPT ![h[w].req.product] = PriceInMail(h[w])] ELSE told
    /\ Answer(w)
    /\ UNCHANGED <<products, batches, steady>>

(***************************************************************************)
(* Batch numbers.                                                          *)
(***************************************************************************)
\* The product's SKU, or else its name.
PrefixOf(p) == IF products[p].sku = Absent THEN NamePrefix[p] ELSE SkuPrefix[products[p].sku]

SuffixesOf(prefix) == {b.suffix : b \in {c \in batches : c.prefix = prefix}}

\* The place of a padded number among strings: a longer one comes after its
\* first digits, words come after digits.
Padded == Base ^ Width
StringKey(s) ==
    CASE s \in Words -> 2 * Base * Padded + 1
      [] s < Padded -> 2 * Base * s
      [] OTHER -> 2 * s + 1

\* Plausible bug: the number of batches there are.
NextByCount(prefix) == Cardinality(SuffixesOf(prefix)) + 1

\* generateBatchNumber: one more than the last in the order of strings; what
\* follows a word is not a number, and again a word.
NextSuffix(prefix) ==
    IF SuffixesOf(prefix) = {} THEN 1
    ELSE LET last == CHOOSE s \in SuffixesOf(prefix) :
                        \A t \in SuffixesOf(prefix) : StringKey(t) <= StringKey(s)
         IN  IF last \in Words THEN CHOOSE word \in Words : TRUE ELSE last + 1

\* The product may have been removed; its SKU is read once, here.  A number that was
\* chosen by hand is looked up, one that was counted is not.
CreateBatch(w, r) ==
    /\ r.op = "batch"
    /\ Receive(w, r)
    /\ Continue(w, products[r.product] # NoProduct,
                [Begin(IF r.suffix = Absent THEN "number" ELSE "lookup", r) EXCEPT
                    !.prefix = PrefixOf(r.product), !.suffix = r.suffix])

GenerateBatchNumber(w) ==
    /\ Doing(w, "number")
    /\ NextSuffix(h[w].prefix) \in Suffix
    /\ h' = [h EXCEPT ![w] = [h[w] EXCEPT !.pc = "save", !.suffix = NextSuffix(h[w].prefix)]]
    /\ UNCHANGED <<tables, steady>>

FindBatch(w) ==
    /\ Doing(w, "lookup")
    /\ Continue(w, h[w].suffix \notin SuffixesOf(h[w].prefix), [h[w] EXCEPT !.pc = "save"])
    /\ UNCHANGED <<tables, steady>>

\* The unique index refuses a number that is there: the set stays as it is.
SaveBatch(w) ==
    /\ Doing(w, "save")
    /\ batches' = batches \cup {[prefix |-> h[w].prefix, suffix |-> h[w].suffix]}
    /\ Answer(w)
    /\ UNCHANGED <<products, told, steady>>

(***************************************************************************)
(* Recommendations.  The scores decide the order, which the properties do  *)
(* not look at; which products have one is modelled.                       *)
(***************************************************************************)
InCart == {p \in interest.cart : products[p] # NoProduct /\ products[p].active}

\* The k best-selling products, in any order the quantities may give.
BestSellers(k) ==
    IF Cardinality(interest.sold) <= k THEN {interest.sold} ELSE kSubset(k, interest.sold)

\* One awaited query of a recommendation.
Gather(w, pc, next, purchased, scored) ==
    /\ Doing(w, pc)
    /\ h' = [h EXCEPT ![w] = [h[w] EXCEPT !.pc = next, !.purchased = purchased, !.scored = scored]]
    /\ UNCHANGED <<tables, steady>>

\* scoreProductsFromPurchases; the orders do not change meanwhile.
GetPersonalizedProducts(w, r) ==
    /\ r.op = "personal"
    /\ Receive(w, r)
    /\ h' = [h EXCEPT ![w] = [Begin("purchases", r) EXCEPT !.scored = interest.bought]]

\* scoreProductsFromCategoryPreferences: the categories of the products that were
\* bought and are still there; without one the second query is skipped.
FindPurchased(w) ==
    LET there == {q \in interest.bought : Kept(q)}
    IN  Gather(w, "purchases", IF there = {} THEN "cart" ELSE "categories", there, h[w].scored)

\* Products on sale in one of these categories, not bought yet.
FindPreferred(w) ==
    LET preferred == {p \in Products \ interest.bought :
                        OnSale(p) /\ \E q \in h[w].purchased : Category[q] = Category[p]}
    IN  Gather(w, "categories", "cart", h[w].purchased, h[w].scored \cup preferred)

\* scoreProductsFromCart; when few have a score, the best sellers are added.
FindInCart(w) ==
    LET personal == h[w].scored \cup InCart
    IN  \E best \in BestSellers(2 * Limit) :
            Gather(w, "cart", "ranked", h[w].purchased,
                   personal \cup (IF Cardinality(personal) < Limit THEN best ELSE {}))

GetCuratedProducts(w, r) ==
    /\ r.op = "curated"
    /\ Receive(w, r)
    /\ \E best \in BestSellers(3 * Limit) :
          h' = [h EXCEPT ![w] = [Begin("carts", r) EXCEPT !.scored = best]]

\* scoreProductsFromGlobalCartActivity, and the orders of the last month.
FindInCarts(w) ==
    Gather(w, "carts", "ranked", h[w].purchased,
           h[w].scored \cup {p \in interest.carts : OnSale(p)} \cup interest.sold)

AtMost(k, S) == IF Cardinality(S) < k THEN Cardinality(S) ELSE k

\* Plausible bug: the candidates are cut to what is missing before those that
\* were seen are left out.
FilledByCut(result, candidates) ==
    {result \cup X : X \in kSubset(AtMost(Limit - Cardinality(result), candidates), candidates)}

\* fillFromProducts, the candidates in any order.
Filled(result, candidates) ==
    LET unseen == candidates \ result
    IN  {result \cup X : X \in kSubset(AtMost(Limit - Cardinality(result), unseen), unseen)}

\* The newest of a set: what a query with an order and a take returns.
Newest(k, S) == {p \in S : Cardinality({q \in S : q > p}) < k}

AllOnSale == {p \in Products : OnSale(p)}

\* One tier of selectTopProducts: skipped when there is enough.
Tier(w, pc, next, outcomes) ==
    /\ Doing(w, pc)
    /\ \E result \in (IF Cardinality(h[w].result) < Limit THEN outcomes ELSE {h[w].result}) :
          h' = [h EXCEPT ![w] = [h[w] EXCEPT !.pc = next, !.result = result]]
    /\ UNCHANGED <<tables, steady>>

RankedTier(w) == Tier(w, "ranked", "featured", Filled({}, h[w].scored \cap AllOnSale))

\* Any Limit of the featured ones: the query has no order.
FeaturedTier(w) ==
    LET featured == {p \in AllOnSale : products[p].featured}
    IN  Tier(w, "featured", "newest",
             UNION {Filled(h[w].result, X) : X \in kSubset(AtMost(Limit, featured), featured)})

\* In their order: nothing that is left out is newer than something added.
NewestTier(w) ==
    LET newest == Newest(2 * Limit, AllOnSale)
    IN  Tier(w, "newest", "random",
             {result \in Filled(h[w].result, newest) :
                \A p \in newest \ result, q \in result \ h[w].result : q > p})

RandomTier(w) == Tier(w, "random", "show", Filled(h[w].result, AllOnSale))

Show(w) ==
    /\ Doing(w, "show")
    /\ Answer(w)
    /\ UNCHANGED <<tables, steady>>

\* An await throws; what was written stays.
Abort(w) ==
    /\ h[w].pc # "idle"
    /\ aborts < MaxAborts
    /\ aborts' = aborts + 1
    /\ Answer(w)
    /\ UNCHANGED <<tables, interest, requests, steady, overlapped>>

Arrive(w) ==
    \E r \in Requests :
        \/ CreateProduct(w, r) \/ EditProduct(w, r) \/ ChangeProductStatus(w, r)
        \/ ToggleFavorite(w, r) \/ DeleteProduct(w, r) \/ CreateBatch(w, r)
        \/ GetPersonalizedProducts(w, r) \/ GetCuratedProducts(w, r)

Step(w) ==
    \/ LoadProduct(w) \/ CheckSku(w) \/ Compare(w) \/ Write(w) \/ InsertProduct(w)
    \/ SendMails(w) \/ GenerateBatchNumber(w) \/ FindBatch(w) \/ SaveBatch(w)
    \/ FindPurchased(w) \/ FindPreferred(w) \/ FindInCart(w) \/ FindInCarts(w)
    \/ RankedTier(w) \/ FeaturedTier(w) \/ NewestTier(w) \/ RandomTier(w) \/ Show(w)

Next == \E w \in Workers : Arrive(w) \/ Step(w) \/ Abort(w)

Spec == Init /\ [][Next]_vars

(***************************************************************************)
(* Properties.                                                             *)
(***************************************************************************)
Pcs == {"idle", "load", "sku", "compare", "write", "insert", "mail", "number", "lookup",
        "save", "purchases", "categories", "cart", "carts", "ranked", "featured", "newest",
        "random", "show"}

Handler ==
    [pc : Pcs, req : Requests \cup {[op |-> "none"]}, old : Prices \cup {Absent},
     row : Row \cup {NoProduct}, cols : SUBSET Columns, diff : SUBSET Columns,
     prefix : Prefixes \cup {Absent}, suffix : Suffix \cup {Absent},
     purchased : SUBSET Products, scored : SUBSET Products, result : SUBSET Products]

\* Types: no product is ever without a price or with half a row, whatever a request
\* leaves out and however old the copy that is saved (product-crud.service.ts:208).
TypeOK ==
    /\ products \in [Products -> Row \cup {NoProduct}]
    /\ batches \subseteq Batch /\ interest \in Interest
    /\ told \in [Products -> Prices \cup {Absent}]
    /\ h \in [Workers -> Handler]
    /\ requests \in 0 .. MaxRequests /\ aborts \in 0 .. MaxAborts
    /\ steady \in [Workers -> SUBSET Products] /\ overlapped \in BOOLEAN

\* However edits, toggles and deletions overlap and however old the copy an edit
\* saves, it changes the SKU, the price and the quantity of its product only when
\* the client named them (product-crud.service.ts:71, 208).  Nothing is said of the
\* other columns: the status and the flag are what the request says or its class
\* fills in, favorite and deletedAt are those of the copy, so that an edit that
\* overlaps a toggle or a deletion takes it back.
EditKeepsUnnamed ==
    [][\A w \in Workers : h[w].pc = "write" /\ h'[w] # h[w] /\ h[w].req.op = "edit"
          => \A c \in {"sku", "price", "quantity"} :
                products'[h[w].req.product][c] # products[h[w].req.product][c]
                  => c \in Named(h[w].req.dto)]_vars

\* As long as requests do not overlap and no mail was cut short, the customers know
\* the price of every product, unless the last mail named none: the mail compares
\* the copy from before the edit with what was saved (products.service.ts:142,
\* product-notification.service.ts:124).
CustomersKnowPrices ==
    ~overlapped /\ aborts = 0 /\ (\A w \in Workers : h[w].pc = "idle")
      => \A p \in Products : products[p] # NoProduct => told[p] \in {products[p].price, Absent}

\* As long as requests do not overlap and the numbers of a product and day have
\* the width they are padded to, a number that was counted is free: no creation is
\* refused (batches.service.ts:44).
CountedNumberIsFree ==
    ~overlapped => \A w \in Workers :
        LET suffixes == SuffixesOf(h[w].prefix)
        IN  h[w].pc = "save" /\ h[w].req.suffix = Absent
              /\ (\A s \in suffixes : s \notin Words /\ s < Padded)
            => h[w].suffix \notin suffixes

\* Whatever happens to the products while a recommendation is computed: when it
\* shows less than it should, it shows every product that was on sale all the time
\* (product-recommendation.service.ts:419, "always guarantee `limit`").
RecommendationsComplete ==
    \A w \in Workers :
        h[w].pc = "show" =>
            \/ Cardinality(h[w].result) = Limit
            \/ Cardinality(h[w].result) < Limit /\ steady[w] \subseteq h[w].result
=============================================================================
