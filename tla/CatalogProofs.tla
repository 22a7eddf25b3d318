---------------------------- MODULE CatalogProofs ----------------------------
(***************************************************************************)
(* What holds of the catalogue for any products, prices, batch numbers,    *)
(* requests and handlers, and for any number of changes while a            *)
(* recommendation is computed.                                             *)
(***************************************************************************)
EXTENDS Catalog, TLAPS, FiniteSetTheorems, WellFoundedInduction

Known == {p \in Products : products[p] # NoProduct}

Toggles == {"status", "favorite", "delete"}

\* What a handler's place in its code says of its request and its copy.
Shape(x, known) ==
    /\ x.pc = "idle" => x = Resting
    /\ x.pc # "idle" => x.req \in Requests
    /\ x.pc \in {"load", "sku"} => x.req.op = "edit"
    /\ x.pc \in {"compare", "write"} => x.req.op \in Toggles \cup {"edit"}
    /\ x.pc \in {"sku", "compare", "write"} => x.row \in Row /\ x.req.product \in known
    /\ x.pc \in {"sku", "compare"} /\ x.req.op = "edit" => x.cols = Defined(x.req.dto)
    /\ x.pc = "write" /\ x.req.op = "edit" => x.diff \subseteq Defined(x.req.dto)
    /\ x.pc = "insert" => x.req.op = "create" /\ x.row = NewRow(x.req.dto)
    /\ x.pc = "mail" => x.req.op \in {"create", "edit"}
    /\ x.pc \in {"number", "lookup", "save"} => x.req.op = "batch"
    /\ x.pc = "number" => x.req.suffix = Absent
    /\ x.pc = "lookup" => x.req.suffix # Absent
    /\ x.pc \in {"lookup", "save"} => x.suffix \in Suffix
    /\ x.pc \in {"number", "lookup", "save"} => x.prefix \in Prefixes

TypeInv == TypeOK /\ \A w \in Workers : Shape(h[w], Known)

(***************************************************************************)
(* Inputs.                                                                 *)
(***************************************************************************)
LEMMA Inputs ==
    /\ IsFiniteSet(Products) /\ Products \subseteq Nat /\ NoProduct \notin Row
    /\ Requests \subseteq Request
    /\ Limit \in Nat \ {0} /\ Base \in Nat \ {0} /\ MaxSequence \in Nat
    /\ MaxRequests \in Nat /\ MaxAborts \in Nat
<1>1. Products = 1 .. Cardinality(Products) /\ Cardinality(Products) \in Nat
  BY InputsAssumption, FS_CardinalityType
<1> HIDE DEF Row
<1> QED BY <1>1, InputsAssumption

LEMMA RequestIs ==
    ASSUME NEW r \in Requests
    PROVE  /\ r.op = "create" => r.product \in Products /\ r.dto \in NewDto
           /\ r.op = "edit" => r.product \in Products /\ r.dto \in Dto
           /\ r.op \in Toggles => r.product \in Products
           /\ r.op = "batch" => r.product \in Products /\ r.suffix \in Suffix \cup {Absent}
  BY Inputs DEF Request, Toggles

LEMMA BoxTyped ==
    ASSUME NEW dto, dto.quantity \in Quantities \cup {Absent}, dto.price \in Prices \cup {Absent},
           NEW given \in Boxes
    PROVE  BoxOf(dto, given) \in Boxes
  BY DEF BoxOf, Boxes

LEMMA NewRowTyped ==
    ASSUME NEW dto \in NewDto
    PROVE  /\ NewRow(dto) \in Row
           /\ NewRow(dto).price = dto.price
<1>1. /\ dto.sku \in Skus \cup {Absent} /\ dto.price \in Prices
      /\ dto.quantity \in Quantities \cup {Absent} /\ dto.box \in Boxes
      /\ dto.active \in BOOLEAN /\ dto.featured \in BOOLEAN
  BY DEF NewDto
<1>2. Absent \in Boxes
  BY DEF Boxes
<1>3. BoxOf(dto, Absent) \in Boxes
  BY <1>1, <1>2, BoxTyped
<1> QED BY <1>1, <1>3 DEF NewRow, Row

LEMMA FieldsSet ==
    ASSUME NEW row \in Row, NEW dto \in Dto
    PROVE  /\ SetProductFields(row, dto) \in Row
           /\ SetProductFields(row, dto).price = IF dto.price # Absent THEN dto.price ELSE row.price
<1> DEFINE box == BoxOf(dto, dto.box)
           new == SetProductFields(row, dto)
<1>1. /\ dto.sku \in Skus \cup {Absent} /\ dto.price \in Prices \cup {Absent}
      /\ dto.quantity \in Quantities \cup {Absent} /\ dto.box \in Boxes
      /\ dto.active \in BOOLEAN /\ dto.featured \in BOOLEAN
  BY DEF Dto
<1>2. box \in Boxes
  BY <1>1, BoxTyped
<1> HIDE DEF box
<1>3. new = [c \in Columns |->
        CASE c = "box" /\ box # Absent -> box
          [] c \in Named(dto) -> dto[c]
          [] c \in {"active", "featured"} -> dto[c]
          [] OTHER -> row[c]]
  BY DEF SetProductFields, box
<1>4. /\ new.sku = (IF dto.sku # Absent THEN dto.sku ELSE row.sku)
      /\ new.price = (IF dto.price # Absent THEN dto.price ELSE row.price)
      /\ new.quantity = (IF dto.quantity # Absent THEN dto.quantity ELSE row.quantity)
      /\ new.box = (IF box # Absent THEN box ELSE row.box)
      /\ new.active = dto.active /\ new.featured = dto.featured
      /\ new.favorite = row.favorite /\ new.deleted = row.deleted
  BY <1>3 DEF Columns, Named
<1>5. new = [c \in Columns |-> new[c]]
  BY <1>3
<1> HIDE DEF new
<1>6. new \in Row
  BY <1>1, <1>2, <1>4, <1>5 DEF Row, Columns
<1> QED BY <1>4, <1>6 DEF new

LEMMA MendedIs ==
    ASSUME NEW row \in Row, NEW entity \in Row, NEW diff
    PROVE  /\ Mended(row, entity, diff) \in Row
           /\ \A c \in Columns : Mended(row, entity, diff)[c] = IF c \in diff THEN entity[c] ELSE row[c]
  BY DEF Mended, Row, Columns

LEMMA DefinedIs == ASSUME NEW dto PROVE Defined(dto) \subseteq Columns
  BY DEF Defined, Named, Columns

(***************************************************************************)
(* Handlers.                                                               *)
(***************************************************************************)
LEMMA RestingFits == Resting \in Handler /\ Resting.pc = "idle" /\ \A known : Shape(Resting, known)
<1>1. Resting \in Handler
  <2> HIDE DEF Row
  <2> QED BY DEF Resting, Handler, Pcs
<1>2. Resting.pc = "idle"
  BY DEF Resting
<1> QED BY <1>1, <1>2 DEF Shape

LEMMA BeginIs ==
    ASSUME NEW r \in Requests, NEW pc \in Pcs
    PROVE  /\ Begin(pc, r) \in Handler /\ Begin(pc, r).pc = pc /\ Begin(pc, r).req = r
           /\ Begin(pc, r).result = {}
<1> HIDE DEF Row
<1> QED BY RestingFits DEF Begin, Resting, Handler

LEMMA ContinueIs ==
    ASSUME NEW w \in Workers, NEW guard, NEW x, Continue(w, guard, x)
    PROVE  \/ guard /\ h' = [h EXCEPT ![w] = x]
           \/ ~guard /\ h' = [h EXCEPT ![w] = Resting]
  BY DEF Continue

LEMMA StateTyped ==
    ASSUME TypeInv
    PROVE  /\ h \in [Workers -> Handler]
           /\ \A w \in Workers : h[w] \in Handler /\ Shape(h[w], Known)
           /\ products \in [Products -> Row \cup {NoProduct}]
           /\ \A p \in Known : products[p] \in Row
           /\ Known \subseteq Products
  BY DEF TypeInv, TypeOK, Known

\* The next handler of worker w is x.
Moves(w, x) == x \in Handler /\ Shape(x, Known) /\ h' = [h EXCEPT ![w] = x]

Standing == UNCHANGED <<tables, interest, aborts>>

\* What a request is started with.
Fresh(x) ==
    \/ x.pc = "insert" /\ products[x.req.product] = NoProduct
    \/ /\ x.pc = "load" /\ x.req.product \in Known /\ x.old = products[x.req.product].price
    \/ /\ x.pc = "compare" /\ x.req.op \in Toggles
       /\ x.row.price = products[x.req.product].price
    \/ x.pc \in {"number", "lookup", "purchases", "carts"}

Starts(w, x) == Moves(w, x) /\ x.result = {} /\ (x = Resting \/ Fresh(x))

LEMMA RestingStarts ==
    ASSUME NEW w \in Workers, h' = [h EXCEPT ![w] = Resting] PROVE Starts(w, Resting)
  BY RestingFits DEF Starts, Moves, Resting

LEMMA CreateStarts ==
    ASSUME TypeInv, NEW w \in Workers, NEW r \in Requests, CreateProduct(w, r)
    PROVE  \E x : Starts(w, x)
<1> DEFINE x == [Begin("insert", r) EXCEPT !.row = NewRow(r.dto)]
           guard == r.dto.sku = Absent \/ \A p \in WithSku(r.dto.sku) : ~Kept(p)
<1>1. Continue(w, guard, x) /\ r.op = "create" /\ products[r.product] = NoProduct
  BY DEF CreateProduct
<1>2. NewRow(r.dto) \in Row
  BY <1>1, RequestIs, NewRowTyped
<1>3. /\ x \in Handler /\ x.pc = "insert" /\ x.req = r /\ x.result = {} /\ x.row = NewRow(r.dto)
  <2> HIDE DEF Row
  <2> QED BY <1>2, BeginIs DEF Handler, Pcs
<1> HIDE DEF x, guard
<1>4. Shape(x, Known) /\ Fresh(x)
  BY <1>1, <1>3 DEF Shape, Fresh
<1>5. h' = [h EXCEPT ![w] = x] \/ h' = [h EXCEPT ![w] = Resting]
  BY <1>1, ContinueIs
<1> QED BY <1>3, <1>4, <1>5, RestingStarts DEF Starts, Moves

LEMMA EditStarts ==
    ASSUME TypeInv, NEW w \in Workers, NEW r \in Requests, EditProduct(w, r)
    PROVE  \E x : Starts(w, x)
<1> DEFINE x == [Begin("load", r) EXCEPT !.old = products[r.product].price]
<1>1. Continue(w, Kept(r.product), x) /\ r.op = "edit"
  BY DEF EditProduct
<1> HIDE DEF x
<1>2. CASE h' = [h EXCEPT ![w] = Resting]
  BY <1>2, RestingStarts
<1>3. CASE Kept(r.product) /\ h' = [h EXCEPT ![w] = x]
  <2>1. r.product \in Known /\ products[r.product] \in Row
    BY <1>1, <1>3, RequestIs, StateTyped DEF Kept, Known
  <2>2. products[r.product].price \in Prices
    BY <2>1 DEF Row
  <2>3. /\ x \in Handler /\ x.pc = "load" /\ x.req = r /\ x.result = {}
        /\ x.old = products[r.product].price
    <3> HIDE DEF Row
    <3> QED BY <2>2, BeginIs DEF Handler, Pcs, x
  <2>4. Shape(x, Known) /\ Fresh(x)
    BY <1>1, <2>1, <2>3 DEF Shape, Fresh
  <2> QED BY <1>3, <2>3, <2>4 DEF Starts, Moves
<1> QED BY <1>1, <1>2, <1>3, ContinueIs

LEMMA ToggleStarts ==
    ASSUME TypeInv, NEW w \in Workers, NEW r \in Requests, NEW op \in Toggles,
           NEW column \in {"active", "favorite", "deleted"}, Toggle(w, r, op, column)
    PROVE  \E x : Starts(w, x)
<1> DEFINE row == [products[r.product] EXCEPT ![column] = ~products[r.product][column]]
           x == [Begin("compare", r) EXCEPT !.row = row, !.cols = Columns]
<1>1. Continue(w, Kept(r.product), x) /\ r.op = op
  BY DEF Toggle
<1> HIDE DEF x
<1>2. CASE h' = [h EXCEPT ![w] = Resting]
  BY <1>2, RestingStarts
<1>3. CASE Kept(r.product) /\ h' = [h EXCEPT ![w] = x]
  <2>1. r.product \in Known /\ products[r.product] \in Row
    BY <1>1, <1>3, RequestIs, StateTyped DEF Kept, Known
  <2>2. row \in Row /\ row.price = products[r.product].price
    <3> DEFINE turned == ~products[r.product][column]
    <3>1. turned \in BOOLEAN /\ row = [products[r.product] EXCEPT ![column] = turned]
      OBVIOUS
    <3> HIDE DEF turned, row
    <3> QED BY <2>1, <3>1 DEF Row
  <2> HIDE DEF row
  <2>3. /\ x \in Handler /\ x.pc = "compare" /\ x.req = r /\ x.result = {} /\ x.row = row
    <3> HIDE DEF Row
    <3>1. /\ Begin("compare", r) \in Handler /\ Begin("compare", r).pc = "compare"
          /\ Begin("compare", r).req = r /\ Begin("compare", r).result = {}
      BY BeginIs DEF Pcs
    <3>2. Columns \in SUBSET Columns
      OBVIOUS
    <3>3. x = [Begin("compare", r) EXCEPT !.row = row, !.cols = Columns]
      BY DEF x
    <3> HIDE DEF x
    <3> QED BY <2>2, <3>1, <3>2, <3>3 DEF Handler
  <2>4. Shape(x, Known) /\ Fresh(x)
    BY <1>1, <2>1, <2>2, <2>3 DEF Shape, Fresh, Toggles
  <2> QED BY <1>3, <2>3, <2>4 DEF Starts, Moves
<1> QED BY <1>1, <1>2, <1>3, ContinueIs

LEMMA PrefixIs ==
    ASSUME NEW p \in Products, products[p] \in Row PROVE PrefixOf(p) \in Prefixes
<1>1. products[p].sku \in Skus \cup {Absent}
  BY DEF Row
<1> QED BY <1>1 DEF PrefixOf, Prefixes

LEMMA BatchStarts ==
    ASSUME TypeInv, NEW w \in Workers, NEW r \in Requests, CreateBatch(w, r)
    PROVE  \E x : Starts(w, x)
<1> DEFINE pc == IF r.suffix = Absent THEN "number" ELSE "lookup"
           prefix == PrefixOf(r.product)
           x == [Begin(pc, r) EXCEPT !.prefix = prefix, !.suffix = r.suffix]
<1>1. Continue(w, products[r.product] # NoProduct, x) /\ r.op = "batch"
  BY DEF CreateBatch
<1>2. r.suffix \in Suffix \cup {Absent} /\ r.product \in Products
  BY <1>1, RequestIs
<1>3. pc \in {"number", "lookup"} /\ (pc = "number" <=> r.suffix = Absent)
  OBVIOUS
<1>4. CASE h' = [h EXCEPT ![w] = Resting]
  BY <1>4, RestingStarts
<1>5. CASE products[r.product] # NoProduct /\ h' = [h EXCEPT ![w] = x]
  <2>1. prefix \in Prefixes
    BY <1>2, <1>5, StateTyped, PrefixIs DEF Known
  <2> HIDE DEF pc, prefix
  <2>2. /\ x \in Handler /\ x.pc = pc /\ x.req = r /\ x.result = {}
        /\ x.prefix = prefix /\ x.suffix = r.suffix
    <3> HIDE DEF Row, Prefixes, Suffix
    <3>1. /\ Begin(pc, r) \in Handler /\ Begin(pc, r).pc = pc
          /\ Begin(pc, r).req = r /\ Begin(pc, r).result = {}
      BY <1>3, BeginIs DEF Pcs
    <3> QED BY <1>2, <2>1, <3>1 DEF Handler
  <2> HIDE DEF x
  <2>3. Shape(x, Known) /\ Fresh(x)
    BY <1>1, <1>2, <1>3, <2>1, <2>2 DEF Shape, Fresh
  <2> QED BY <1>5, <2>2, <2>3 DEF Starts, Moves
<1> HIDE DEF x
<1> QED BY <1>1, <1>4, <1>5, ContinueIs

LEMMA BestSold == ASSUME TypeInv, NEW k, NEW best \in BestSellers(k) PROVE best \subseteq Products
  BY DEF BestSellers, kSubset, TypeInv, TypeOK, Interest

LEMMA RecommendationStarts ==
    ASSUME TypeInv, NEW w \in Workers, NEW r \in Requests, NEW scored \in SUBSET Products,
           NEW pc \in {"purchases", "carts"},
           h' = [h EXCEPT ![w] = [Begin(pc, r) EXCEPT !.scored = scored]]
    PROVE  \E x : Starts(w, x)
<1> DEFINE x == [Begin(pc, r) EXCEPT !.scored = scored]
<1>1. x \in Handler /\ x.pc = pc /\ x.req = r /\ x.result = {}
  <2> HIDE DEF Row
  <2>1. /\ Begin(pc, r) \in Handler /\ Begin(pc, r).pc = pc
        /\ Begin(pc, r).req = r /\ Begin(pc, r).result = {}
    BY BeginIs DEF Pcs
  <2> QED BY <2>1 DEF Handler
<1>2. h' = [h EXCEPT ![w] = x]
  OBVIOUS
<1> HIDE DEF x
<1>3. Shape(x, Known) /\ Fresh(x)
  BY <1>1 DEF Shape, Fresh
<1> QED BY <1>1, <1>2, <1>3 DEF Starts, Moves

LEMMA ArriveEffect ==
    ASSUME TypeInv, NEW w \in Workers, Arrive(w)
    PROVE  /\ h[w].pc = "idle" /\ Standing /\ \E x : Starts(w, x)
           /\ requests < MaxRequests /\ requests' = requests + 1
           /\ overlapped' = (overlapped \/ \E v \in Workers \ {w} : h[v].pc # "idle")
           /\ steady' = [steady EXCEPT ![w] = {p \in Products : OnSale(p)}]
<1>1. PICK r \in Requests :
        \/ CreateProduct(w, r) \/ EditProduct(w, r) \/ ChangeProductStatus(w, r)
        \/ ToggleFavorite(w, r) \/ DeleteProduct(w, r) \/ CreateBatch(w, r)
        \/ GetPersonalizedProducts(w, r) \/ GetCuratedProducts(w, r)
  BY DEF Arrive
<1>2. Receive(w, r)
  BY <1>1 DEF CreateProduct, EditProduct, ChangeProductStatus, ToggleFavorite, DeleteProduct, Toggle,
              CreateBatch, GetPersonalizedProducts, GetCuratedProducts
<1>3. ASSUME ChangeProductStatus(w, r) \/ ToggleFavorite(w, r) \/ DeleteProduct(w, r)
      PROVE  \E x : Starts(w, x)
  BY <1>3, ToggleStarts DEF ChangeProductStatus, ToggleFavorite, DeleteProduct, Toggles
<1>4. ASSUME GetPersonalizedProducts(w, r) PROVE \E x : Starts(w, x)
  <2>1. h' = [h EXCEPT ![w] = [Begin("purchases", r) EXCEPT !.scored = interest.bought]]
    BY <1>4 DEF GetPersonalizedProducts
  <2>2. interest.bought \in SUBSET Products
    BY DEF TypeInv, TypeOK, Interest
  <2> QED BY <2>1, <2>2, RecommendationStarts
<1>5. ASSUME GetCuratedProducts(w, r) PROVE \E x : Starts(w, x)
  <2>1. PICK best \in BestSellers(3 * Limit) :
          h' = [h EXCEPT ![w] = [Begin("carts", r) EXCEPT !.scored = best]]
    BY <1>5 DEF GetCuratedProducts
  <2>2. best \in SUBSET Products
    BY BestSold
  <2> QED BY <2>1, <2>2, RecommendationStarts
<1>6. \E x : Starts(w, x)
  BY <1>1, <1>3, <1>4, <1>5, CreateStarts, EditStarts, BatchStarts
<1> QED BY <1>2, <1>6 DEF Receive, Standing

(***************************************************************************)
(* Steps.                                                                  *)
(***************************************************************************)
Quiet == UNCHANGED <<tables, steady, interest, requests, aborts, overlapped>>

\* What no step but those that set it changes of a handler.
Carries(w, x) == x.req = h[w].req /\ x.old = h[w].old /\ x.result = h[w].result

LEMMA LoadEffect ==
    ASSUME TypeInv, NEW w \in Workers, LoadProduct(w)
    PROVE  /\ h[w].pc = "load" /\ Quiet
           /\ \E x : /\ Moves(w, x)
                     /\ \/ x = Resting
                        \/ /\ x.pc \in {"sku", "compare"} /\ Carries(w, x)
                           /\ x.row.price = IF x.req.dto.price # Absent THEN x.req.dto.price
                                              ELSE products[x.req.product].price
<1> DEFINE r == h[w].req
           other == r.dto.sku \notin {Absent, products[r.product].sku}
           pc == IF other THEN "sku" ELSE "compare"
           row == SetProductFields(products[r.product], r.dto)
           cols == Defined(r.dto)
           x == [h[w] EXCEPT !.pc = pc, !.row = row, !.cols = cols]
<1>1. h[w].pc = "load" /\ Quiet /\ Continue(w, Kept(r.product), x)
  BY DEF LoadProduct, Doing, Quiet, tables
<1>2. r \in Requests /\ r.op = "edit" /\ h[w] \in Handler
  BY <1>1, StateTyped DEF Shape
<1>3. r.product \in Products /\ r.dto \in Dto
  BY <1>2, RequestIs
<1>4. pc \in {"sku", "compare"}
  OBVIOUS
<1>5. CASE h' = [h EXCEPT ![w] = Resting]
  BY <1>1, <1>5, RestingFits DEF Moves
<1>6. CASE Kept(r.product) /\ h' = [h EXCEPT ![w] = x]
  <2>1. r.product \in Known /\ products[r.product] \in Row
    BY <1>3, <1>6, StateTyped DEF Kept, Known
  <2>2. row \in Row
        /\ row.price = IF r.dto.price # Absent THEN r.dto.price ELSE products[r.product].price
    BY <2>1, <1>3, FieldsSet
  <2>3. cols \in SUBSET Columns
    BY DefinedIs
  <2> HIDE DEF row, pc, cols
  <2>4. x \in Handler /\ x.pc = pc /\ x.row = row /\ x.cols = cols /\ Carries(w, x)
    <3> HIDE DEF Row
    <3> QED BY <1>2, <1>4, <2>2, <2>3 DEF Handler, Pcs, Carries
  <2> HIDE DEF x
  <2>5. Shape(x, Known)
    BY <1>2, <1>4, <2>1, <2>2, <2>4 DEF Shape, Carries, cols
  <2>6. x.row.price = IF x.req.dto.price # Absent THEN x.req.dto.price
                        ELSE products[x.req.product].price
    BY <2>2, <2>4 DEF Carries
  <2>7. Moves(w, x) /\ x.pc \in {"sku", "compare"}
    BY <1>4, <1>6, <2>4, <2>5 DEF Moves
  <2> QED BY <1>1, <2>4, <2>6, <2>7
<1> QED BY <1>1, <1>5, <1>6, ContinueIs

LEMMA SkuEffect ==
    ASSUME TypeInv, NEW w \in Workers, CheckSku(w)
    PROVE  /\ h[w].pc = "sku" /\ Quiet
           /\ \E x : /\ Moves(w, x)
                     /\ \/ x = Resting
                        \/ x.pc = "compare" /\ Carries(w, x) /\ x.row = h[w].row
<1> DEFINE x == [h[w] EXCEPT !.pc = "compare"]
           guard == \A p \in WithSku(h[w].req.dto.sku) : ~Kept(p)
<1>1. h[w].pc = "sku" /\ Quiet /\ Continue(w, guard, x)
  BY DEF CheckSku, Doing, Quiet, tables
<1>2. h[w] \in Handler /\ Shape(h[w], Known)
  BY StateTyped
<1>3. /\ x \in Handler /\ x.pc = "compare" /\ x.row = h[w].row /\ x.cols = h[w].cols
      /\ Carries(w, x)
  <2> HIDE DEF Row
  <2> QED BY <1>2 DEF Handler, Pcs, Carries
<1> HIDE DEF x, guard
<1>4. Shape(x, Known)
  BY <1>1, <1>2, <1>3 DEF Shape, Carries
<1>5. h' = [h EXCEPT ![w] = x] \/ h' = [h EXCEPT ![w] = Resting]
  BY <1>1, ContinueIs
<1> QED BY <1>1, <1>3, <1>4, <1>5, RestingFits DEF Moves

LEMMA CompareEffect ==
    ASSUME TypeInv, NEW w \in Workers, Compare(w)
    PROVE  /\ h[w].pc = "compare" /\ Quiet
           /\ \E x : /\ Moves(w, x) /\ x.pc = "write" /\ Carries(w, x) /\ x.row = h[w].row
                     /\ x.diff = {c \in h[w].cols : h[w].row[c] # products[h[w].req.product][c]}
<1> DEFINE diff == {c \in h[w].cols : h[w].row[c] # products[h[w].req.product][c]}
           x == [h[w] EXCEPT !.pc = "write", !.diff = diff]
<1>1. h[w].pc = "compare" /\ Quiet /\ h' = [h EXCEPT ![w] = x]
  BY DEF Compare, Doing, Quiet, tables
<1>2. h[w] \in Handler /\ Shape(h[w], Known)
  BY StateTyped
<1>3. diff \subseteq h[w].cols
  OBVIOUS
<1> HIDE DEF diff
<1>4. /\ x \in Handler /\ x.pc = "write" /\ x.row = h[w].row /\ x.diff = diff
      /\ Carries(w, x)
  <2> HIDE DEF Row
  <2>1. h[w].cols \in SUBSET Columns
    BY <1>2 DEF Handler
  <2>2. diff \in SUBSET Columns
    BY <1>3, <2>1
  <2> QED BY <1>2, <2>2 DEF Handler, Pcs, Carries
<1> HIDE DEF x
<1>5. Shape(x, Known)
  BY <1>1, <1>2, <1>3, <1>4 DEF Shape, Carries
<1> QED BY <1>1, <1>4, <1>5 DEF Moves, diff

LEMMA WriteEffect ==
    ASSUME TypeInv, NEW w \in Workers, Write(w)
    PROVE  /\ h[w].pc = "write" /\ UNCHANGED <<batches, told, interest, requests, aborts, overlapped>>
           /\ steady' = OnSaleStill
           /\ \E x : /\ Moves(w, x)
                     /\ \/ x = Resting /\ UNCHANGED products
                        \/ /\ products' = [products EXCEPT ![h[w].req.product] =
                                 Mended(products[h[w].req.product], h[w].row, h[w].diff)]
                           /\ \/ x = Resting /\ h[w].req.op # "edit"
                              \/ h[w].req.op = "edit" /\ x.pc = "mail" /\ Carries(w, x)
<1> DEFINE x == [h[w] EXCEPT !.pc = "mail"]
           p == h[w].req.product
           after == [products EXCEPT ![p] = Mended(products[p], h[w].row, h[w].diff)]
<1>1. /\ h[w].pc = "write" /\ UNCHANGED <<batches, told, interest, requests, aborts, overlapped>>
      /\ steady' = OnSaleStill
  BY DEF Write, Doing, tables
<1>2. \/ Answer(w) /\ UNCHANGED products
      \/ products' = after /\ Continue(w, h[w].req.op = "edit", x)
  BY DEF Write
<1>3. h[w] \in Handler /\ Shape(h[w], Known)
  BY StateTyped
<1>4. x \in Handler /\ x.pc = "mail" /\ Carries(w, x)
  <2> HIDE DEF Row
  <2> QED BY <1>3 DEF Handler, Pcs, Carries
<1> HIDE DEF x, after
<1>5. ASSUME h[w].req.op = "edit" PROVE Shape(x, Known)
  BY <1>1, <1>3, <1>4, <1>5 DEF Shape, Carries
<1>6. \/ h' = [h EXCEPT ![w] = Resting] /\ UNCHANGED products
      \/ products' = after /\ h[w].req.op = "edit" /\ h' = [h EXCEPT ![w] = x]
      \/ products' = after /\ h[w].req.op # "edit" /\ h' = [h EXCEPT ![w] = Resting]
  BY <1>2, ContinueIs DEF Answer
<1>7. CASE /\ h' = [h EXCEPT ![w] = Resting]
           /\ UNCHANGED products \/ (products' = after /\ h[w].req.op # "edit")
  <2>1. Moves(w, Resting)
    BY <1>7, RestingFits DEF Moves
  <2> QED BY <1>1, <1>7, <2>1 DEF after
<1>8. CASE products' = after /\ h[w].req.op = "edit" /\ h' = [h EXCEPT ![w] = x]
  <2>1. Moves(w, x)
    BY <1>1, <1>4, <1>5, <1>8 DEF Moves
  <2> QED BY <1>1, <1>4, <1>8, <2>1 DEF after
<1> QED BY <1>6, <1>7, <1>8

LEMMA InsertEffect ==
    ASSUME TypeInv, NEW w \in Workers, InsertProduct(w)
    PROVE  /\ h[w].pc = "insert"
           /\ UNCHANGED <<batches, told, interest, requests, aborts, overlapped>>
           /\ steady' = OnSaleStill
           /\ \E x : /\ Moves(w, x)
                     /\ \/ x = Resting /\ UNCHANGED products
                        \/ /\ products' = [products EXCEPT ![h[w].req.product] = h[w].row]
                           /\ x.pc = "mail" /\ Carries(w, x)
<1> DEFINE x == [h[w] EXCEPT !.pc = "mail"]
<1>1. /\ h[w].pc = "insert"
      /\ UNCHANGED <<batches, told, interest, requests, aborts, overlapped>>
      /\ steady' = OnSaleStill
  BY DEF InsertProduct, Doing
<1>2. \/ h' = [h EXCEPT ![w] = Resting] /\ UNCHANGED products
      \/ /\ products' = [products EXCEPT ![h[w].req.product] = h[w].row]
         /\ h' = [h EXCEPT ![w] = x]
  BY DEF InsertProduct, Answer
<1>3. h[w] \in Handler /\ Shape(h[w], Known)
  BY StateTyped
<1>4. x \in Handler /\ x.pc = "mail" /\ Carries(w, x)
  <2> HIDE DEF Row
  <2> QED BY <1>3 DEF Handler, Pcs, Carries
<1> HIDE DEF x
<1>5. Shape(x, Known)
  BY <1>1, <1>3, <1>4 DEF Shape, Carries
<1> QED BY <1>1, <1>2, <1>4, <1>5, RestingFits DEF Moves

LEMMA MailEffect ==
    ASSUME TypeInv, NEW w \in Workers, SendMails(w)
    PROVE  /\ h[w].pc = "mail" /\ Moves(w, Resting)
           /\ UNCHANGED <<products, batches, steady, interest, requests, aborts, overlapped>>
           /\ \/ UNCHANGED told /\ h[w].req.op = "edit" /\ ~PriceMailed(h[w])
              \/ told' = [told EXCEPT ![h[w].req.product] = h[w].req.dto.price]
<1> DEFINE mailed == [told EXCEPT ![h[w].req.product] = h[w].req.dto.price]
<1>1. /\ h[w].pc = "mail" /\ h' = [h EXCEPT ![w] = Resting]
      /\ UNCHANGED <<products, batches, steady, interest, requests, aborts, overlapped>>
      /\ told' = IF h[w].req.op = "create" \/ PriceMailed(h[w]) THEN mailed ELSE told
  BY DEF SendMails, Doing, Answer, PriceInMail
<1>2. h[w].req.op \in {"create", "edit"}
  BY <1>1, StateTyped DEF Shape
<1> HIDE DEF mailed
<1>3. \/ UNCHANGED told /\ h[w].req.op = "edit" /\ ~PriceMailed(h[w])
      \/ told' = mailed
  BY <1>1, <1>2
<1> QED BY <1>1, <1>3, RestingFits DEF Moves, mailed

LEMMA NumberEffect ==
    ASSUME TypeInv, NEW w \in Workers, GenerateBatchNumber(w)
    PROVE  /\ h[w].pc = "number" /\ Quiet
           /\ \E x : /\ Moves(w, x) /\ x.pc = "save" /\ Carries(w, x)
                     /\ x.suffix = NextSuffix(x.prefix)
<1> DEFINE next == NextSuffix(h[w].prefix)
           x == [h[w] EXCEPT !.pc = "save", !.suffix = next]
<1>1. h[w].pc = "number" /\ Quiet /\ next \in Suffix /\ h' = [h EXCEPT ![w] = x]
  BY DEF GenerateBatchNumber, Doing, Quiet, tables
<1>2. h[w] \in Handler /\ Shape(h[w], Known)
  BY StateTyped
<1> HIDE DEF next
<1>3. /\ x \in Handler /\ x.pc = "save" /\ x.suffix = next /\ x.prefix = h[w].prefix
      /\ Carries(w, x)
  <2> HIDE DEF Row, Suffix, Prefixes
  <2> QED BY <1>1, <1>2 DEF Handler, Pcs, Carries
<1> HIDE DEF x
<1>4. Shape(x, Known)
  BY <1>1, <1>2, <1>3 DEF Shape, Carries
<1> QED BY <1>1, <1>3, <1>4 DEF Moves, Carries, next

LEMMA LookupEffect ==
    ASSUME TypeInv, NEW w \in Workers, FindBatch(w)
    PROVE  /\ h[w].pc = "lookup" /\ Quiet
           /\ \E x : /\ Moves(w, x)
                     /\ \/ x = Resting
                        \/ x.pc = "save" /\ Carries(w, x) /\ x.req.suffix # Absent
<1> DEFINE x == [h[w] EXCEPT !.pc = "save"]
           guard == h[w].suffix \notin SuffixesOf(h[w].prefix)
<1>1. h[w].pc = "lookup" /\ Quiet /\ Continue(w, guard, x)
  BY DEF FindBatch, Doing, Quiet, tables
<1>2. h[w] \in Handler /\ Shape(h[w], Known)
  BY StateTyped
<1>3. /\ x \in Handler /\ x.pc = "save" /\ x.suffix = h[w].suffix /\ x.prefix = h[w].prefix
      /\ Carries(w, x)
  <2> HIDE DEF Row, Suffix, Prefixes
  <2> QED BY <1>2 DEF Handler, Pcs, Carries
<1> HIDE DEF x, guard
<1>4. Shape(x, Known) /\ x.req.suffix # Absent
  BY <1>1, <1>2, <1>3 DEF Shape, Carries
<1>5. h' = [h EXCEPT ![w] = x] \/ h' = [h EXCEPT ![w] = Resting]
  BY <1>1, ContinueIs
<1> QED BY <1>1, <1>3, <1>4, <1>5, RestingFits DEF Moves

LEMMA SaveEffect ==
    ASSUME TypeInv, NEW w \in Workers, SaveBatch(w)
    PROVE  /\ h[w].pc = "save" /\ Moves(w, Resting) /\ batches' \subseteq Batch
           /\ UNCHANGED <<products, told, steady, interest, requests, aborts, overlapped>>
<1>1. /\ h[w].pc = "save" /\ h' = [h EXCEPT ![w] = Resting]
      /\ UNCHANGED <<products, told, steady, interest, requests, aborts, overlapped>>
      /\ batches' = batches \cup {[prefix |-> h[w].prefix, suffix |-> h[w].suffix]}
  BY DEF SaveBatch, Doing, Answer
<1>2. h[w].suffix \in Suffix /\ h[w].prefix \in Prefixes
  BY <1>1, StateTyped DEF Shape
<1>3. [prefix |-> h[w].prefix, suffix |-> h[w].suffix] \in Batch
  BY <1>2 DEF Batch
<1>4. batches \subseteq Batch
  BY DEF TypeInv, TypeOK
<1> QED BY <1>1, <1>3, <1>4, RestingFits DEF Moves

LEMMA FilledIs ==
    ASSUME NEW result \in SUBSET Products, NEW candidates \in SUBSET Products,
           NEW new \in Filled(result, candidates)
    PROVE  /\ new \in SUBSET Products
           /\ Cardinality(result) < Limit =>
                /\ Cardinality(new) <= Limit
                /\ Cardinality(new) = Limit \/ candidates \subseteq new
<1> DEFINE unseen == candidates \ result
           k == AtMost(Limit - Cardinality(result), unseen)
<1>1. PICK X \in kSubset(k, unseen) : new = result \cup X
  BY DEF Filled
<1>2. X \subseteq unseen /\ Cardinality(X) = k
  BY <1>1 DEF kSubset
<1>3. IsFiniteSet(result) /\ IsFiniteSet(unseen) /\ IsFiniteSet(X)
  BY <1>2, Inputs, FS_Subset
<1>4. /\ Cardinality(result) \in Nat /\ Cardinality(unseen) \in Nat /\ Cardinality(X) \in Nat
      /\ Limit \in Nat
  BY <1>3, Inputs, FS_CardinalityType
<1>5. result \cap X = {}
  BY <1>2
<1>6. Cardinality(new) = Cardinality(result) + Cardinality(X)
  BY <1>1, <1>3, <1>4, <1>5, FS_Union, FS_EmptySet
<1>7. k = IF Cardinality(unseen) < Limit - Cardinality(result) THEN Cardinality(unseen)
            ELSE Limit - Cardinality(result)
  BY DEF AtMost
<1>8. X = unseen \/ Cardinality(X) # Cardinality(unseen)
  BY <1>2, <1>3, FS_Subset
<1>9. ASSUME Cardinality(result) < Limit
      PROVE  Cardinality(new) <= Limit /\ (Cardinality(new) = Limit \/ X = unseen)
  <2> HIDE DEF unseen, k
  <2> QED BY <1>2, <1>4, <1>6, <1>7, <1>8, <1>9
<1>10. X = unseen => candidates \subseteq new
  BY <1>1
<1> QED BY <1>1, <1>2, <1>9, <1>10

LEMMA TierEffect ==
    ASSUME TypeInv, NEW w \in Workers, NEW outcomes \in SUBSET (SUBSET Products),
           NEW pc \in {"ranked", "featured", "newest", "random"},
           NEW next \in {"featured", "newest", "random", "show"}, Tier(w, pc, next, outcomes)
    PROVE  /\ h[w].pc = pc /\ Quiet
           /\ \E x : /\ Moves(w, x) /\ x.pc = next /\ x.req = h[w].req
                     /\ x.result \in IF Cardinality(h[w].result) < Limit THEN outcomes
                                       ELSE {h[w].result}
<1>1. /\ h[w].pc = pc /\ Quiet
      /\ \E result \in (IF Cardinality(h[w].result) < Limit THEN outcomes ELSE {h[w].result}) :
            h' = [h EXCEPT ![w] = [h[w] EXCEPT !.pc = next, !.result = result]]
  BY DEF Tier, Doing, Quiet, tables
<1>2. PICK result \in (IF Cardinality(h[w].result) < Limit THEN outcomes ELSE {h[w].result}) :
            h' = [h EXCEPT ![w] = [h[w] EXCEPT !.pc = next, !.result = result]]
  BY <1>1
<1>3. h[w] \in Handler /\ Shape(h[w], Known)
  BY StateTyped
<1>4. h[w].result \in SUBSET Products
  <2> HIDE DEF Row
  <2> QED BY <1>3 DEF Handler
<1>5. result \in SUBSET Products
  BY <1>2, <1>4
<1> DEFINE x == [h[w] EXCEPT !.pc = next, !.result = result]
<1>6. x \in Handler /\ x.pc = next /\ x.req = h[w].req /\ x.result = result
  <2> HIDE DEF Row
  <2> QED BY <1>3, <1>5 DEF Handler, Pcs
<1>7. h' = [h EXCEPT ![w] = x]
  BY <1>2
<1> HIDE DEF x
<1>8. h[w].req \in Requests
  BY <1>1, <1>3 DEF Shape
<1>9. Shape(x, Known)
  BY <1>6, <1>8 DEF Shape
<1> QED BY <1>1, <1>2, <1>6, <1>7, <1>9 DEF Moves

LEMMA GatherEffect ==
    ASSUME TypeInv, NEW w \in Workers, NEW pc \in {"purchases", "categories", "cart", "carts"},
           NEW next \in {"categories", "cart", "ranked"}, NEW purchased \in SUBSET Products,
           NEW scored \in SUBSET Products, Gather(w, pc, next, purchased, scored)
    PROVE  /\ h[w].pc = pc /\ Quiet
           /\ \E x : Moves(w, x) /\ x.pc = next /\ Carries(w, x)
<1> DEFINE x == [h[w] EXCEPT !.pc = next, !.purchased = purchased, !.scored = scored]
<1>1. h[w].pc = pc /\ Quiet /\ h' = [h EXCEPT ![w] = x]
  BY DEF Gather, Doing, Quiet, tables
<1>2. h[w] \in Handler /\ Shape(h[w], Known)
  BY StateTyped
<1>3. x \in Handler /\ x.pc = next /\ Carries(w, x)
  <2> HIDE DEF Row
  <2> QED BY <1>2 DEF Handler, Pcs, Carries
<1> HIDE DEF x
<1>4. Shape(x, Known)
  BY <1>1, <1>2, <1>3 DEF Shape, Carries
<1> QED BY <1>1, <1>3, <1>4 DEF Moves

\* The queries that give the products their scores.
Scoring(w) == FindPurchased(w) \/ FindPreferred(w) \/ FindInCart(w) \/ FindInCarts(w)

LEMMA ScoringEffect ==
    ASSUME TypeInv, NEW w \in Workers, Scoring(w)
    PROVE  /\ h[w].pc \in {"purchases", "categories", "cart", "carts"} /\ Quiet
           /\ \E x : /\ Moves(w, x) /\ x.pc \in {"categories", "cart", "ranked"}
                     /\ Carries(w, x)
<1>1. h[w].scored \in SUBSET Products /\ h[w].purchased \in SUBSET Products
  <2> HIDE DEF Row
  <2> QED BY StateTyped DEF Handler
<1>2. /\ interest.bought \in SUBSET Products /\ interest.sold \in SUBSET Products
      /\ interest.cart \in SUBSET Products /\ interest.carts \in SUBSET Products
  BY DEF TypeInv, TypeOK, Interest
<1>3. CASE FindPurchased(w)
  <2> DEFINE there == {q \in interest.bought : Kept(q)}
             next == IF there = {} THEN "cart" ELSE "categories"
  <2>1. Gather(w, "purchases", next, there, h[w].scored)
    BY <1>3 DEF FindPurchased
  <2>2. next \in {"categories", "cart"} /\ there \in SUBSET Products
    BY <1>2
  <2> HIDE DEF next, there
  <2> QED BY <1>1, <2>1, <2>2, GatherEffect
<1>4. CASE FindPreferred(w)
  <2> DEFINE preferred == {p \in Products \ interest.bought :
                        OnSale(p) /\ \E q \in h[w].purchased : Category[q] = Category[p]}
  <2>1. Gather(w, "categories", "cart", h[w].purchased, h[w].scored \cup preferred)
    BY <1>4 DEF FindPreferred
  <2>2. h[w].scored \cup preferred \in SUBSET Products
    BY <1>1
  <2> HIDE DEF preferred
  <2> QED BY <1>1, <2>1, <2>2, GatherEffect
<1>5. CASE FindInCart(w)
  <2> DEFINE personal == h[w].scored \cup InCart
  <2>1. PICK best \in BestSellers(2 * Limit) :
            Gather(w, "cart", "ranked", h[w].purchased,
                   personal \cup (IF Cardinality(personal) < Limit THEN best ELSE {}))
    BY <1>5 DEF FindInCart
  <2>2. personal \cup (IF Cardinality(personal) < Limit THEN best ELSE {}) \in SUBSET Products
    BY <1>1, <1>2, BestSold DEF InCart
  <2> HIDE DEF personal
  <2> QED BY <1>1, <2>1, <2>2, GatherEffect
<1>6. CASE FindInCarts(w)
  <2> DEFINE scored == h[w].scored \cup {p \in interest.carts : OnSale(p)} \cup interest.sold
  <2>1. Gather(w, "carts", "ranked", h[w].purchased, scored)
    BY <1>6 DEF FindInCarts
  <2>2. scored \in SUBSET Products
    BY <1>1, <1>2
  <2> HIDE DEF scored
  <2> QED BY <1>1, <2>1, <2>2, GatherEffect
<1> QED BY <1>3, <1>4, <1>5, <1>6 DEF Scoring

LEMMA SetsTyped ==
    ASSUME TypeInv, NEW w \in Workers
    PROVE  /\ AllOnSale \in SUBSET Products /\ h[w].result \in SUBSET Products
           /\ Cardinality(h[w].result) \in Nat
<1>1. h[w].result \in SUBSET Products
  <2> HIDE DEF Row
  <2> QED BY StateTyped DEF Handler
<1> QED BY <1>1, Inputs, FS_Subset, FS_CardinalityType DEF AllOnSale

LEMMA RankedEffect ==
    ASSUME TypeInv, NEW w \in Workers, RankedTier(w), Cardinality(h[w].result) <= Limit
    PROVE  /\ h[w].pc = "ranked" /\ Quiet
           /\ \E x : Moves(w, x) /\ x.pc = "featured" /\ x.req = h[w].req
                       /\ Cardinality(x.result) <= Limit
<1> DEFINE candidates == h[w].scored \cap AllOnSale
           outcomes == Filled({}, candidates)
           tried == IF Cardinality(h[w].result) < Limit THEN outcomes ELSE {h[w].result}
<1>1. {} \in SUBSET Products /\ candidates \in SUBSET Products
  BY SetsTyped
<1> HIDE DEF candidates
<1>2. /\ outcomes \in SUBSET (SUBSET Products)
      /\ \A new \in outcomes : Cardinality(new) <= Limit
  BY <1>1, FilledIs, FS_EmptySet, Inputs
<1>3. Tier(w, "ranked", "featured", outcomes)
  BY DEF RankedTier, candidates
<1> HIDE DEF outcomes
<1>4. \A new \in tried : Cardinality(new) <= Limit
  BY <1>2
<1>5. /\ h[w].pc = "ranked" /\ Quiet
      /\ \E x : Moves(w, x) /\ x.pc = "featured" /\ x.req = h[w].req /\ x.result \in tried
  BY <1>2, <1>3, TierEffect
<1> HIDE DEF tried
<1> QED BY <1>4, <1>5

LEMMA FeaturedEffect ==
    ASSUME TypeInv, NEW w \in Workers, FeaturedTier(w), Cardinality(h[w].result) <= Limit
    PROVE  /\ h[w].pc = "featured" /\ Quiet
           /\ \E x : Moves(w, x) /\ x.pc = "newest" /\ x.req = h[w].req
                       /\ Cardinality(x.result) <= Limit
<1> DEFINE featured == {p \in AllOnSale : products[p].featured}
           tops == kSubset(AtMost(Limit, featured), featured)
           outcomes == UNION {Filled(h[w].result, X) : X \in tops}
           tried == IF Cardinality(h[w].result) < Limit THEN outcomes ELSE {h[w].result}
<1>1. tops \subseteq SUBSET Products
  BY SetsTyped DEF kSubset
<1> HIDE DEF tops, featured
<1>2. \A new \in outcomes : \E X \in SUBSET Products : new \in Filled(h[w].result, X)
  BY <1>1
<1>3. /\ outcomes \in SUBSET (SUBSET Products)
      /\ \A new \in outcomes : Cardinality(h[w].result) < Limit => Cardinality(new) <= Limit
  BY <1>2, SetsTyped, FilledIs
<1>4. Tier(w, "featured", "newest", outcomes)
  BY DEF FeaturedTier, featured, tops
<1> HIDE DEF outcomes
<1>5. \A new \in tried : Cardinality(new) <= Limit
  BY <1>3
<1>6. /\ h[w].pc = "featured" /\ Quiet
      /\ \E x : Moves(w, x) /\ x.pc = "newest" /\ x.req = h[w].req /\ x.result \in tried
  BY <1>3, <1>4, TierEffect
<1> HIDE DEF tried
<1> QED BY <1>5, <1>6

LEMMA NewestEffect ==
    ASSUME TypeInv, NEW w \in Workers, NewestTier(w), Cardinality(h[w].result) <= Limit
    PROVE  /\ h[w].pc = "newest" /\ Quiet
           /\ \E x : Moves(w, x) /\ x.pc = "random" /\ x.req = h[w].req
                       /\ Cardinality(x.result) <= Limit
<1> DEFINE newest == Newest(2 * Limit, AllOnSale)
           outcomes == {result \in Filled(h[w].result, newest) :
                          \A p \in newest \ result, q \in result \ h[w].result : q > p}
           tried == IF Cardinality(h[w].result) < Limit THEN outcomes ELSE {h[w].result}
<1>1. newest \in SUBSET Products
  BY SetsTyped DEF Newest
<1> HIDE DEF newest
<1>2. outcomes \subseteq Filled(h[w].result, newest)
  OBVIOUS
<1>3. Tier(w, "newest", "random", outcomes)
  BY DEF NewestTier, newest
<1> HIDE DEF outcomes
<1>4. /\ outcomes \in SUBSET (SUBSET Products)
      /\ \A new \in outcomes : Cardinality(h[w].result) < Limit => Cardinality(new) <= Limit
  BY <1>1, <1>2, SetsTyped, FilledIs
<1>5. \A new \in tried : Cardinality(new) <= Limit
  BY <1>4
<1>6. /\ h[w].pc = "newest" /\ Quiet
      /\ \E x : Moves(w, x) /\ x.pc = "random" /\ x.req = h[w].req /\ x.result \in tried
  BY <1>3, <1>4, TierEffect
<1> HIDE DEF tried
<1> QED BY <1>5, <1>6

LEMMA RandomEffect ==
    ASSUME TypeInv, NEW w \in Workers, RandomTier(w), Cardinality(h[w].result) <= Limit
    PROVE  /\ h[w].pc = "random" /\ Quiet
           /\ \E x : /\ Moves(w, x) /\ x.pc = "show" /\ x.req = h[w].req
                     /\ Cardinality(x.result) <= Limit
                     /\ Cardinality(x.result) = Limit \/ AllOnSale \subseteq x.result
<1> DEFINE outcomes == Filled(h[w].result, AllOnSale)
           tried == IF Cardinality(h[w].result) < Limit THEN outcomes ELSE {h[w].result}
<1>1. outcomes \in SUBSET (SUBSET Products)
      /\ \A new \in outcomes : Cardinality(h[w].result) < Limit =>
            /\ Cardinality(new) <= Limit
            /\ Cardinality(new) = Limit \/ AllOnSale \subseteq new
  BY SetsTyped, FilledIs
<1>2. Tier(w, "random", "show", outcomes)
  BY DEF RandomTier
<1> HIDE DEF outcomes
<1>3. Cardinality(h[w].result) < Limit \/ Cardinality(h[w].result) = Limit
  BY SetsTyped, Inputs
<1>4. \A new \in tried : /\ Cardinality(new) <= Limit
                         /\ Cardinality(new) = Limit \/ AllOnSale \subseteq new
  BY <1>1, <1>3, Inputs
<1>5. /\ h[w].pc = "random" /\ Quiet
      /\ \E x : Moves(w, x) /\ x.pc = "show" /\ x.req = h[w].req /\ x.result \in tried
  BY <1>1, <1>2, TierEffect
<1> HIDE DEF tried
<1> QED BY <1>4, <1>5

(***************************************************************************)
(* Types.                                                                  *)
(***************************************************************************)
FewShown == \A w \in Workers : Cardinality(h[w].result) <= Limit

BaseInv == TypeInv /\ FewShown

LEMMA NothingShown == Cardinality(Resting.result) <= Limit /\ Resting.result = {}
<1>1. Resting.result = {}
  BY DEF Resting
<1> QED BY <1>1, FS_EmptySet, Inputs

\* The step leaves all but the handlers of the others as they may be.
TablesTyped ==
    /\ products' \in [Products -> Row \cup {NoProduct}]
    /\ \A p \in Known : products'[p] # NoProduct
    /\ batches' \subseteq Batch /\ told' \in [Products -> Prices \cup {Absent}]

LEMMA TablesKept ==
    ASSUME TypeInv, UNCHANGED tables PROVE TablesTyped
<1> HIDE DEF Row
<1> QED BY DEF TypeInv, TypeOK, TablesTyped, tables, Known

LEMMA NewTables ==
    ASSUME TypeInv, NEW p \in Products, NEW row \in Row,
           products' = [products EXCEPT ![p] = row], UNCHANGED <<batches, told>>
    PROVE  TablesTyped
<1> HIDE DEF Row
<1> QED BY Inputs DEF TypeInv, TypeOK, TablesTyped, Known

LEMMA TypesKept ==
    ASSUME BaseInv, NEW w \in Workers, NEW x, Moves(w, x), Cardinality(x.result) <= Limit,
           TablesTyped, UNCHANGED interest,
           requests' \in 0 .. MaxRequests, aborts' \in 0 .. MaxAborts,
           steady' \in [Workers -> SUBSET Products], overlapped' \in BOOLEAN
    PROVE  BaseInv'
<1> HIDE DEF Row
<1>1. /\ x \in Handler /\ Shape(x, Known) /\ h' = [h EXCEPT ![w] = x]
      /\ h \in [Workers -> Handler]
      /\ \A v \in Workers : h[v] \in Handler /\ Shape(h[v], Known)
  BY StateTyped DEF Moves, BaseInv
<1>2. /\ h' \in [Workers -> Handler]
      /\ \A v \in Workers : h'[v] = IF v = w THEN x ELSE h[v]
  BY <1>1
<1>3. Known \subseteq Known'
  BY DEF TablesTyped, Known
<1>4. ASSUME NEW v \in Workers PROVE Shape(h'[v], Known')
  <2>1. Shape(h'[v], Known)
    BY <1>1, <1>2
  <2>2. ASSUME NEW y, Shape(y, Known) PROVE Shape(y, Known')
    BY <1>3, <2>2 DEF Shape
  <2> QED BY <2>1, <2>2
<1>5. TypeOK'
  BY <1>2 DEF BaseInv, TypeInv, TypeOK, TablesTyped
<1>6. FewShown'
  BY <1>2 DEF BaseInv, FewShown
<1> QED BY <1>4, <1>5, <1>6 DEF BaseInv, TypeInv

LEMMA CarriedFew ==
    ASSUME BaseInv, NEW w \in Workers, NEW x, x = Resting \/ Carries(w, x)
    PROVE  Cardinality(x.result) <= Limit
  BY NothingShown DEF BaseInv, FewShown, Carries

LEMMA StepTyped ==
    ASSUME BaseInv, NEW w \in Workers, Step(w)
    PROVE  /\ \E x : Moves(w, x) /\ Cardinality(x.result) <= Limit
           /\ TablesTyped /\ UNCHANGED <<interest, requests, aborts, overlapped>>
           /\ steady' = steady \/ steady' = OnSaleStill
<1> DEFINE Goal == /\ \E x : Moves(w, x) /\ Cardinality(x.result) <= Limit
                   /\ TablesTyped /\ UNCHANGED <<interest, requests, aborts, overlapped>>
                   /\ steady' = steady \/ steady' = OnSaleStill
           Easy == Quiet /\ \E x : Moves(w, x) /\ Cardinality(x.result) <= Limit
<1>1. TypeInv /\ Cardinality(h[w].result) <= Limit
  BY DEF BaseInv, FewShown
<1>2. Easy => Goal
  BY <1>1, TablesKept DEF Quiet, tables
<1>3. CASE Write(w)
  <2> DEFINE p == h[w].req.product
             row == Mended(products[p], h[w].row, h[w].diff)
  <2>1. /\ h[w].pc = "write" /\ UNCHANGED <<batches, told, interest, requests, aborts, overlapped>>
        /\ steady' = OnSaleStill
        /\ \E x : Moves(w, x) /\ (x = Resting \/ Carries(w, x))
        /\ UNCHANGED products \/ products' = [products EXCEPT ![p] = row]
    BY <1>1, <1>3, WriteEffect
  <2>2. h[w].row \in Row /\ p \in Known
    BY <1>1, <2>1, StateTyped DEF Shape
  <2>3. p \in Products /\ row \in Row
    BY <1>1, <2>2, StateTyped, MendedIs
  <2> HIDE DEF row
  <2>4. TablesTyped
    BY <1>1, <2>1, <2>3, NewTables, TablesKept DEF tables
  <2> QED BY <2>1, <2>4, CarriedFew
<1>4. CASE InsertProduct(w)
  <2> DEFINE p == h[w].req.product
             row == h[w].row
  <2>1. /\ h[w].pc = "insert" /\ steady' = OnSaleStill
        /\ UNCHANGED <<batches, told, interest, requests, aborts, overlapped>>
        /\ \E x : Moves(w, x) /\ (x = Resting \/ Carries(w, x))
        /\ UNCHANGED products \/ products' = [products EXCEPT ![p] = row]
    BY <1>1, <1>4, InsertEffect
  <2>2. h[w].req \in Requests /\ h[w].req.op = "create" /\ row = NewRow(h[w].req.dto)
    BY <1>1, <2>1, StateTyped DEF Shape
  <2>3. p \in Products /\ row \in Row
    BY <2>2, RequestIs, NewRowTyped
  <2> HIDE DEF row
  <2>4. TablesTyped
    BY <1>1, <2>1, <2>3, NewTables, TablesKept DEF tables
  <2> QED BY <2>1, <2>4, CarriedFew
<1>5. CASE SendMails(w)
  <2>1. /\ h[w].pc = "mail" /\ Moves(w, Resting)
        /\ UNCHANGED <<products, batches, steady, interest, requests, aborts, overlapped>>
        /\ \/ UNCHANGED told
           \/ told' = [told EXCEPT ![h[w].req.product] = h[w].req.dto.price]
    BY <1>1, <1>5, MailEffect
  <2>2. h[w].req \in Requests /\ h[w].req.op \in {"create", "edit"}
    BY <1>1, <2>1, StateTyped DEF Shape
  <2>3. h[w].req.dto.price \in Prices \cup {Absent}
    BY <2>2, RequestIs DEF NewDto, Dto
  <2>4. told' \in [Products -> Prices \cup {Absent}]
    BY <1>1, <2>1, <2>3 DEF TypeInv, TypeOK
  <2>5. TablesTyped
    <3> HIDE DEF Row
    <3> QED BY <1>1, <2>1, <2>4 DEF TypeInv, TypeOK, TablesTyped, Known
  <2> QED BY <2>1, <2>5, NothingShown
<1>6. CASE SaveBatch(w)
  <2>1. /\ Moves(w, Resting) /\ batches' \subseteq Batch
        /\ UNCHANGED <<products, told, steady, interest, requests, aborts, overlapped>>
    BY <1>1, <1>6, SaveEffect
  <2>2. TablesTyped
    <3> HIDE DEF Row
    <3> QED BY <1>1, <2>1 DEF TypeInv, TypeOK, TablesTyped, Known
  <2> QED BY <2>1, <2>2, NothingShown
<1>7. CASE LoadProduct(w)
  BY <1>1, <1>2, <1>7, LoadEffect, CarriedFew
<1>8. CASE CheckSku(w)
  BY <1>1, <1>2, <1>8, SkuEffect, CarriedFew
<1>9. CASE Compare(w)
  BY <1>1, <1>2, <1>9, CompareEffect, CarriedFew
<1>10. CASE GenerateBatchNumber(w)
  BY <1>1, <1>2, <1>10, NumberEffect, CarriedFew
<1>11. CASE FindBatch(w)
  BY <1>1, <1>2, <1>11, LookupEffect, CarriedFew
<1>12. CASE RankedTier(w)
  BY <1>1, <1>2, <1>12, RankedEffect
<1>13. CASE FeaturedTier(w)
  BY <1>1, <1>2, <1>13, FeaturedEffect
<1>14. CASE NewestTier(w)
  BY <1>1, <1>2, <1>14, NewestEffect
<1>15. CASE RandomTier(w)
  BY <1>1, <1>2, <1>15, RandomEffect
<1>16. CASE Show(w)
  <2>1. Quiet /\ h' = [h EXCEPT ![w] = Resting]
    BY <1>16 DEF Show, Doing, Quiet, tables, Answer
  <2> QED BY <1>2, <2>1, RestingFits, NothingShown DEF Moves
<1>17. CASE Scoring(w)
  BY <1>1, <1>2, <1>17, ScoringEffect, CarriedFew
<1> QED
  BY <1>3, <1>4, <1>5, <1>6, <1>7, <1>8, <1>9, <1>10, <1>11, <1>12, <1>13, <1>14, <1>15, <1>16,
     <1>17 DEF Step, Scoring

LEMMA BaseStarts == ASSUME Init PROVE BaseInv
<1> HIDE DEF Row
<1>1. PICK initial \in InitialTables :
         /\ products = initial.products /\ batches = initial.batches
         /\ interest = initial.interest
         /\ told = [p \in Products |-> IF products[p] = NoProduct THEN Absent
                                         ELSE products[p].price]
  BY DEF Init
<1>2. /\ products \in [Products -> Row \cup {NoProduct}] /\ batches \subseteq Batch
      /\ interest \in Interest
  BY <1>1, InputsAssumption
<1>3. told \in [Products -> Prices \cup {Absent}]
  BY <1>1, <1>2 DEF Row
<1>4. /\ h \in [Workers -> Handler]
      /\ \A w \in Workers : Shape(h[w], Known) /\ h[w].result = {}
  BY RestingFits, NothingShown DEF Init
<1>5. requests \in 0 .. MaxRequests /\ aborts \in 0 .. MaxAborts /\ overlapped \in BOOLEAN
      /\ steady \in [Workers -> SUBSET Products]
  <2>1. requests = 0 /\ aborts = 0 /\ overlapped = FALSE /\ steady = [w \in Workers |-> {}]
    BY DEF Init
  <2>2. 0 \in 0 .. MaxRequests /\ 0 \in 0 .. MaxAborts
    BY Inputs
  <2>3. [w \in Workers |-> {}] \in [Workers -> SUBSET Products]
    OBVIOUS
  <2> QED BY <2>1, <2>2, <2>3
<1>6. FewShown
  BY <1>4, FS_EmptySet, Inputs DEF FewShown
<1> QED BY <1>2, <1>3, <1>4, <1>5, <1>6 DEF BaseInv, TypeInv, TypeOK

LEMMA AbortEffect ==
    ASSUME NEW w \in Workers, Abort(w)
    PROVE  /\ Moves(w, Resting) /\ UNCHANGED <<tables, interest, requests, steady, overlapped>>
           /\ aborts < MaxAborts /\ aborts' = aborts + 1
  BY RestingFits DEF Abort, Answer, Moves

LEMMA BaseKept == ASSUME BaseInv, [Next]_vars PROVE BaseInv'
<1> HIDE DEF Row
<1>1. /\ TypeInv /\ requests \in 0 .. MaxRequests /\ aborts \in 0 .. MaxAborts
      /\ steady \in [Workers -> SUBSET Products] /\ overlapped \in BOOLEAN
  BY DEF BaseInv, TypeInv, TypeOK
<1>2. ASSUME NEW w \in Workers, Arrive(w) PROVE BaseInv'
  <2>1. PICK x : Starts(w, x)
    BY <1>1, <1>2, ArriveEffect
  <2>2. /\ Standing /\ requests < MaxRequests /\ requests' = requests + 1
        /\ overlapped' \in BOOLEAN
        /\ steady' = [steady EXCEPT ![w] = {p \in Products : OnSale(p)}]
    BY <1>1, <1>2, ArriveEffect
  <2>3. Moves(w, x) /\ Cardinality(x.result) <= Limit
    BY <2>1, FS_EmptySet, Inputs DEF Starts
  <2>4. requests' \in 0 .. MaxRequests /\ aborts' \in 0 .. MaxAborts
    BY <1>1, <2>2, Inputs DEF Standing
  <2>5. steady' \in [Workers -> SUBSET Products]
    BY <1>1, <2>2
  <2>6. TablesTyped /\ UNCHANGED interest
    BY <1>1, <2>2, TablesKept DEF Standing
  <2> QED BY <2>2, <2>3, <2>4, <2>5, <2>6, TypesKept
<1>3. ASSUME NEW w \in Workers, Step(w) PROVE BaseInv'
  <2>1. PICK x : Moves(w, x) /\ Cardinality(x.result) <= Limit
    BY <1>3, StepTyped
  <2>2. /\ TablesTyped /\ UNCHANGED <<interest, requests, aborts, overlapped>>
        /\ steady' = steady \/ steady' = OnSaleStill
    BY <1>3, StepTyped
  <2>3. steady' \in [Workers -> SUBSET Products]
    BY <1>1, <2>2 DEF OnSaleStill
  <2> QED BY <1>1, <2>1, <2>2, <2>3, TypesKept
<1>4. ASSUME NEW w \in Workers, Abort(w) PROVE BaseInv'
  <2>1. /\ Moves(w, Resting) /\ UNCHANGED <<tables, interest, requests, steady, overlapped>>
        /\ aborts < MaxAborts /\ aborts' = aborts + 1
    BY <1>4, AbortEffect
  <2>2. aborts' \in 0 .. MaxAborts
    BY <1>1, <2>1, Inputs
  <2> QED BY <1>1, <2>1, <2>2, NothingShown, TablesKept, TypesKept
<1>5. CASE UNCHANGED vars
  BY <1>5 DEF vars, tables, BaseInv, TypeInv, TypeOK, FewShown, Known
<1> QED BY <1>2, <1>3, <1>4, <1>5 DEF Next

LEMMA BaseHolds == Spec => []BaseInv
<1>1. Init => BaseInv
  BY BaseStarts
<1>2. BaseInv /\ [Next]_vars => BaseInv'
  BY BaseKept
<1> QED BY <1>1, <1>2, PTL DEF Spec

\* Types: however the edits overlap and whatever a request leaves out, every
\* product that was created keeps a whole row with a price
\* (product-crud.service.ts:208).
THEOREM TypeCorrect == Spec => []TypeOK
<1>1. BaseInv => TypeOK
  BY DEF BaseInv, TypeInv
<1> QED BY <1>1, BaseHolds, PTL

(***************************************************************************)
(* Edits.                                                                  *)
(***************************************************************************)
LEMMA Writers == ASSUME NEW w \in Workers, Step(w), h[w].pc = "write" PROVE Write(w)
  BY DEF Step, LoadProduct, CheckSku, Compare, InsertProduct, SendMails, GenerateBatchNumber,
         FindBatch, SaveBatch, FindPurchased, FindPreferred, FindInCart, FindInCarts, Gather,
         RankedTier, FeaturedTier, NewestTier, RandomTier, Tier, Show, Doing

LEMMA ActorOnly ==
    ASSUME BaseInv, Next
    PROVE  \E v \in Workers, x \in Handler :
              h' = [h EXCEPT ![v] = x] /\ (Arrive(v) \/ Step(v) \/ Abort(v))
<1>1. PICK v \in Workers : Arrive(v) \/ Step(v) \/ Abort(v)
  BY DEF Next
<1>2. \E x : Moves(v, x)
  BY <1>1, ArriveEffect, StepTyped, AbortEffect DEF BaseInv, Starts
<1> QED BY <1>1, <1>2 DEF Moves

LEMMA WriteKeepsUnnamed ==
    ASSUME BaseInv, Next, NEW w \in Workers, h[w].pc = "write", h'[w] # h[w],
           h[w].req.op = "edit", NEW c \in {"sku", "price", "quantity"},
           products'[h[w].req.product][c] # products[h[w].req.product][c]
    PROVE  c \in Named(h[w].req.dto)
<1> DEFINE p == h[w].req.product
<1>1. TypeInv
  BY DEF BaseInv
<1>2. Arrive(w) \/ Step(w) \/ Abort(w)
  <2>1. PICK v \in Workers, x \in Handler :
              h' = [h EXCEPT ![v] = x] /\ (Arrive(v) \/ Step(v) \/ Abort(v))
    BY ActorOnly
  <2>2. v = w
    BY <1>1, <2>1, StateTyped
  <2> QED BY <2>1, <2>2
<1>3. ~Arrive(w)
  BY <1>1, ArriveEffect
<1>4. ~Abort(w)
  BY AbortEffect DEF tables
<1>5. Write(w)
  BY <1>2, <1>3, <1>4, Writers
<1>6. products' = [products EXCEPT ![p] = Mended(products[p], h[w].row, h[w].diff)]
  BY <1>1, <1>5, WriteEffect
<1>7. /\ h[w].row \in Row /\ p \in Products /\ products[p] \in Row
      /\ h[w].diff \subseteq Defined(h[w].req.dto)
  BY <1>1, StateTyped DEF Shape
<1>8. products'[p] = Mended(products[p], h[w].row, h[w].diff)
  <2> HIDE DEF Row
  <2> QED BY <1>1, <1>6, <1>7 DEF TypeInv, TypeOK
<1>9. c \in h[w].diff
  BY <1>7, <1>8, MendedIs DEF Columns
<1>10. c \in Defined(h[w].req.dto)
  BY <1>7, <1>9
<1> QED BY <1>10 DEF Defined

\* However edits, toggles and deletions of a product overlap, and however old the
\* copy that an edit saves, it changes neither the SKU, the price nor the quantity
\* of the product when its client did not name it (product-crud.service.ts:71, 208).
\* The other columns are not meant: favorite and deletedAt are saved from the copy.
THEOREM UnnamedKept == Spec => EditKeepsUnnamed
<1>1. BaseInv /\ [Next]_vars =>
        [\A w \in Workers : h[w].pc = "write" /\ h'[w] # h[w] /\ h[w].req.op = "edit"
          => \A c \in {"sku", "price", "quantity"} :
                products'[h[w].req.product][c] # products[h[w].req.product][c]
                  => c \in Named(h[w].req.dto)]_vars
  BY WriteKeepsUnnamed
<1> QED BY <1>1, BaseHolds, PTL DEF Spec, EditKeepsUnnamed

(***************************************************************************)
(* Recommendations.                                                        *)
(***************************************************************************)
Complete(result, shown) == Cardinality(result) = Limit \/ shown \subseteq result

RecommendInv ==
    \A w \in Workers :
        /\ steady[w] \subseteq AllOnSale
        /\ h[w].pc = "show" => Complete(h[w].result, steady[w])

LEMMA RecommendKept ==
    ASSUME BaseInv, RecommendInv, NEW w \in Workers, NEW x, h' = [h EXCEPT ![w] = x],
           \A v \in Workers : steady'[v] \subseteq AllOnSale',
           \A v \in Workers \ {w} : steady'[v] \subseteq steady[v],
           x.pc = "show" => Complete(x.result, steady'[w])
    PROVE  RecommendInv'
<1>1. \A v \in Workers : h'[v] = IF v = w THEN x ELSE h[v]
  BY StateTyped DEF BaseInv
<1> QED BY <1>1 DEF RecommendInv, Complete

LEMMA StepRecommends ==
    ASSUME BaseInv, NEW w \in Workers, Step(w)
    PROVE  /\ \E x : /\ h' = [h EXCEPT ![w] = x]
                     /\ x.pc = "show" => UNCHANGED steady /\ Complete(x.result, AllOnSale)
           /\ steady' = OnSaleStill \/ UNCHANGED <<products, steady>>
<1>1. TypeInv /\ Cardinality(h[w].result) <= Limit
  BY DEF BaseInv, FewShown
<1>2. CASE Write(w)
  BY <1>1, <1>2, WriteEffect, RestingFits DEF Moves
<1>3. CASE InsertProduct(w)
  BY <1>1, <1>3, InsertEffect, RestingFits DEF Moves
<1>4. CASE SendMails(w)
  BY <1>1, <1>4, MailEffect, RestingFits DEF Moves
<1>5. CASE SaveBatch(w)
  BY <1>1, <1>5, SaveEffect, RestingFits DEF Moves
<1>6. CASE LoadProduct(w)
  BY <1>1, <1>6, LoadEffect, RestingFits DEF Moves, Quiet, tables
<1>7. CASE CheckSku(w)
  BY <1>1, <1>7, SkuEffect, RestingFits DEF Moves, Quiet, tables
<1>8. CASE Compare(w)
  BY <1>1, <1>8, CompareEffect DEF Moves, Quiet, tables
<1>9. CASE GenerateBatchNumber(w)
  BY <1>1, <1>9, NumberEffect DEF Moves, Quiet, tables
<1>10. CASE FindBatch(w)
  BY <1>1, <1>10, LookupEffect, RestingFits DEF Moves, Quiet, tables
<1>11. CASE RankedTier(w)
  BY <1>1, <1>11, RankedEffect DEF Moves, Quiet, tables
<1>12. CASE FeaturedTier(w)
  BY <1>1, <1>12, FeaturedEffect DEF Moves, Quiet, tables
<1>13. CASE NewestTier(w)
  BY <1>1, <1>13, NewestEffect DEF Moves, Quiet, tables
<1>14. CASE RandomTier(w)
  BY <1>1, <1>14, RandomEffect DEF Moves, Quiet, tables, Complete
<1>15. CASE Show(w)
  BY <1>15, RestingFits DEF Show, Doing, Answer, tables
<1>16. CASE Scoring(w)
  BY <1>1, <1>16, ScoringEffect DEF Moves, Quiet, tables
<1> QED
  BY <1>2, <1>3, <1>4, <1>5, <1>6, <1>7, <1>8, <1>9, <1>10, <1>11, <1>12, <1>13, <1>14, <1>15,
     <1>16 DEF Step, Scoring

LEMMA RecommendStep == ASSUME BaseInv, RecommendInv, [Next]_vars PROVE RecommendInv'
<1>1. TypeInv /\ steady \in [Workers -> SUBSET Products]
  BY DEF BaseInv, TypeInv, TypeOK
<1>2. ASSUME UNCHANGED products PROVE AllOnSale' = AllOnSale
  BY <1>2 DEF AllOnSale, OnSale, Kept
<1>3. ASSUME NEW w \in Workers, Arrive(w) PROVE RecommendInv'
  <2>1. PICK x : Starts(w, x)
    BY <1>1, <1>3, ArriveEffect
  <2>2. UNCHANGED products /\ steady' = [steady EXCEPT ![w] = AllOnSale]
    BY <1>1, <1>3, ArriveEffect DEF Standing, tables, AllOnSale
  <2>3. h' = [h EXCEPT ![w] = x] /\ x.pc # "show"
    BY <2>1, RestingFits DEF Starts, Moves, Fresh
  <2> QED BY <1>1, <1>2, <2>2, <2>3, RecommendKept DEF RecommendInv
<1>4. ASSUME NEW w \in Workers, Step(w) PROVE RecommendInv'
  <2>1. PICK x : /\ h' = [h EXCEPT ![w] = x]
                 /\ x.pc = "show" => UNCHANGED steady /\ Complete(x.result, AllOnSale)
    BY <1>4, StepRecommends
  <2>2. \A v \in Workers : steady'[v] \subseteq AllOnSale' /\ steady'[v] \subseteq steady[v]
    <3>1. CASE steady' = OnSaleStill
      BY <1>1, <3>1 DEF OnSaleStill, AllOnSale
    <3>2. CASE UNCHANGED <<products, steady>>
      BY <1>2, <3>2 DEF RecommendInv
    <3> QED BY <1>4, <3>1, <3>2, StepRecommends
  <2>3. x.pc = "show" => Complete(x.result, steady'[w])
    BY <2>1 DEF RecommendInv, Complete
  <2> QED BY <2>1, <2>2, <2>3, RecommendKept
<1>5. ASSUME NEW w \in Workers, Abort(w) PROVE RecommendInv'
  <2>1. h' = [h EXCEPT ![w] = Resting] /\ UNCHANGED <<products, steady>>
    BY <1>5, AbortEffect DEF Moves, tables
  <2> QED BY <1>2, <2>1, RestingFits, RecommendKept DEF RecommendInv
<1>6. CASE UNCHANGED vars
  BY <1>2, <1>6 DEF vars, tables, RecommendInv
<1> QED BY <1>3, <1>4, <1>5, <1>6 DEF Next

\* Whatever is created, switched off or removed while a recommendation goes through
\* its tiers, it shows as many products as it was asked for, or every one that was
\* on sale all the time (product-recommendation.service.ts:419).
THEOREM Recommended == Spec => []RecommendationsComplete
<1>1. Init => RecommendInv
  BY RestingFits DEF Init, RecommendInv
<1>2. BaseInv /\ RecommendInv /\ [Next]_vars => RecommendInv'
  BY RecommendStep
<1>3. BaseInv /\ RecommendInv => RecommendationsComplete
  <2> SUFFICES ASSUME BaseInv, RecommendInv, NEW w \in Workers, h[w].pc = "show"
               PROVE  \/ Cardinality(h[w].result) = Limit
                      \/ Cardinality(h[w].result) < Limit /\ steady[w] \subseteq h[w].result
    BY DEF RecommendationsComplete
  <2>1. Cardinality(h[w].result) \in Nat /\ Cardinality(h[w].result) <= Limit
    BY SetsTyped DEF BaseInv, FewShown
  <2> QED BY <2>1, Inputs DEF RecommendInv, Complete
<1> QED BY <1>1, <1>2, <1>3, BaseHolds, PTL DEF Spec

(***************************************************************************)
(* One request at a time.                                                  *)
(***************************************************************************)
SerialInv ==
    ~overlapped =>
        \A v, w \in Workers : h[v].pc # "idle" /\ h[w].pc # "idle" => v = w

LEMMA StepFrom ==
    ASSUME NEW w \in Workers, Step(w)
    PROVE  h[w].pc # "idle" /\ UNCHANGED <<aborts, overlapped>>
  BY DEF Step, LoadProduct, CheckSku, Compare, Write, InsertProduct, SendMails, GenerateBatchNumber,
         FindBatch, SaveBatch, FindPurchased, FindPreferred, FindInCart, FindInCarts, Gather,
         RankedTier, FeaturedTier, NewestTier, RandomTier, Tier, Show, Doing

\* Before requests overlap only one worker has anything to do.
LEMMA OneActs ==
    ASSUME BaseInv, SerialInv, Next, ~overlapped'
    PROVE  /\ ~overlapped
           /\ \E w \in Workers : /\ Arrive(w) \/ Step(w) \/ Abort(w)
                                 /\ \A v \in Workers \ {w} : h[v].pc = "idle"
<1>1. PICK w \in Workers : Arrive(w) \/ Step(w) \/ Abort(w)
  BY DEF Next
<1>2. CASE Arrive(w)
  BY <1>2, ArriveEffect DEF BaseInv
<1>3. CASE Step(w)
  BY <1>3, StepFrom DEF SerialInv
<1>4. CASE Abort(w)
  BY <1>4 DEF Abort, SerialInv
<1> QED BY <1>1, <1>2, <1>3, <1>4

LEMMA OneMoves ==
    ASSUME BaseInv, NEW w \in Workers, Arrive(w) \/ Step(w) \/ Abort(w),
           \A v \in Workers \ {w} : h[v].pc = "idle"
    PROVE  \A v \in Workers \ {w} : h'[v] = h[v] /\ h'[v].pc = "idle"
<1>1. \E x : Moves(w, x)
  BY ArriveEffect, StepTyped, AbortEffect DEF BaseInv, Starts
<1> QED BY <1>1, StateTyped DEF Moves, BaseInv

LEMMA SerialStep == ASSUME BaseInv, SerialInv, [Next]_vars PROVE SerialInv'
<1>1. ASSUME Next, ~overlapped'
      PROVE  \A v, w \in Workers : h'[v].pc # "idle" /\ h'[w].pc # "idle" => v = w
  BY <1>1, OneActs, OneMoves
<1>2. CASE UNCHANGED vars
  BY <1>2 DEF vars, SerialInv
<1> QED BY <1>1, <1>2 DEF SerialInv

LEMMA SerialHolds == Spec => []SerialInv
<1>1. Init => SerialInv
  BY RestingFits DEF Init, SerialInv
<1>2. BaseInv /\ SerialInv /\ [Next]_vars => SerialInv'
  BY SerialStep
<1> QED BY <1>1, <1>2, BaseHolds, PTL DEF Spec

(***************************************************************************)
(* Batch numbers.                                                          *)
(***************************************************************************)
NumberInv ==
    ~overlapped =>
        \A w \in Workers : h[w].pc = "save" /\ h[w].req.suffix = Absent
                             => h[w].suffix = NextSuffix(h[w].prefix)

LEMMA Largest ==
    ASSUME NEW S \in SUBSET Nat, NEW n \in Nat, \A s \in S : s <= n, S # {}
    PROVE  \E m \in S : \A s \in S : s <= m
<1> DEFINE T == {n - s : s \in S}
<1>1. T \in SUBSET Nat /\ T # {}
  OBVIOUS
<1> HIDE DEF T
<1>2. \E t \in T : \A u \in T : ~(<<u, t>> \in OpToRel(<, Nat))
  BY <1>1, WFMin, NatLessThanWellFounded
<1>3. PICK t \in T : \A u \in T : ~(u < t)
  BY <1>1, <1>2 DEF OpToRel
<1>4. PICK m \in S : t = n - m
  BY DEF T
<1>5. ASSUME NEW s \in S PROVE s <= m
  <2>1. n - s \in T
    BY DEF T
  <2> QED BY <1>3, <1>4, <2>1
<1> QED BY <1>5

LEMMA Scaled ==
    ASSUME NEW k \in Nat \ {0}, NEW a \in Nat, NEW b \in Nat PROVE k * a <= k * b <=> a <= b
<1>1. ASSUME NEW c \in Nat, NEW d \in Nat PROVE k * (c + d) = k * c + k * d /\ k * d \in Nat
  OBVIOUS
<1>2. CASE a <= b
  <2>1. b - a \in Nat /\ b = a + (b - a)
    BY <1>2
  <2>2. k * b = k * a + k * (b - a) /\ k * (b - a) \in Nat
    BY <1>1, <2>1
  <2> QED BY <1>2, <2>2
<1>3. CASE b < a
  <2>1. a - b - 1 \in Nat /\ a = b + ((a - b - 1) + 1)
    BY <1>3
  <2>2. /\ k * a = k * b + k * ((a - b - 1) + 1) /\ k * (a - b - 1) \in Nat
        /\ k * ((a - b - 1) + 1) = k * (a - b - 1) + k
    BY <1>1, <2>1
  <2> QED BY <1>3, <2>2
<1> QED BY <1>2, <1>3

LEMMA NextIsFree ==
    ASSUME TypeInv, NEW p,
           \A s \in SuffixesOf(p) : s \notin Words /\ s < Padded
    PROVE  NextSuffix(p) \notin SuffixesOf(p)
<1> DEFINE S == SuffixesOf(p)
           IsLast(s) == \A t \in S : StringKey(t) <= StringKey(s)
           last == CHOOSE s \in S : IsLast(s)
<1>1. S \subseteq Suffix
  BY DEF SuffixesOf, TypeInv, TypeOK, Batch
<1>2. \A s \in S : s \in Nat /\ s <= MaxSequence /\ StringKey(s) = 2 * Base * s
  BY <1>1, Inputs DEF Suffix, StringKey
<1>3. CASE S = {}
  BY <1>3
<1>4. CASE S # {}
  <2>1. 2 * Base \in Nat \ {0}
    BY Inputs
  <2>2. PICK m \in S : \A s \in S : s <= m
    BY <1>2, <1>4, Inputs, Largest
  <2> HIDE DEF S
  <2>3. \A s, t \in S : StringKey(s) <= StringKey(t) <=> s <= t
    BY <1>2, <2>1, Scaled
  <2>4. IsLast(m)
    BY <2>2, <2>3
  <2> HIDE DEF IsLast
  <2>5. last \in S /\ IsLast(last)
    BY <2>2, <2>4
  <2> HIDE DEF last
  <2>6. \A s \in S : s <= last
    BY <2>3, <2>5 DEF IsLast
  <2>7. NextSuffix(p) = last + 1
    BY <1>4, <2>5 DEF NextSuffix, last, IsLast, S
  <2>8. last + 1 \notin S
    BY <1>2, <2>5, <2>6
  <2> QED BY <2>7, <2>8 DEF S
<1> QED BY <1>3, <1>4

LEMMA StepNumbers ==
    ASSUME BaseInv, NEW w \in Workers, Step(w)
    PROVE  \E x : /\ h' = [h EXCEPT ![w] = x]
                  /\ x.pc = "save" =>
                        /\ UNCHANGED batches
                        /\ x.req.suffix # Absent \/ x.suffix = NextSuffix(x.prefix)
<1>1. TypeInv /\ Cardinality(h[w].result) <= Limit
  BY DEF BaseInv, FewShown
<1>2. CASE Write(w)
  BY <1>1, <1>2, WriteEffect, RestingFits DEF Moves
<1>3. CASE InsertProduct(w)
  BY <1>1, <1>3, InsertEffect, RestingFits DEF Moves
<1>4. CASE SendMails(w)
  BY <1>1, <1>4, MailEffect, RestingFits DEF Moves
<1>5. CASE SaveBatch(w)
  BY <1>1, <1>5, SaveEffect, RestingFits DEF Moves
<1>6. CASE LoadProduct(w)
  BY <1>1, <1>6, LoadEffect, RestingFits DEF Moves
<1>7. CASE CheckSku(w)
  BY <1>1, <1>7, SkuEffect, RestingFits DEF Moves
<1>8. CASE Compare(w)
  BY <1>1, <1>8, CompareEffect DEF Moves
<1>9. CASE GenerateBatchNumber(w)
  BY <1>1, <1>9, NumberEffect DEF Moves, Quiet, tables
<1>10. CASE FindBatch(w)
  BY <1>1, <1>10, LookupEffect, RestingFits DEF Moves, Quiet, tables
<1>11. CASE RankedTier(w)
  BY <1>1, <1>11, RankedEffect DEF Moves
<1>12. CASE FeaturedTier(w)
  BY <1>1, <1>12, FeaturedEffect DEF Moves
<1>13. CASE NewestTier(w)
  BY <1>1, <1>13, NewestEffect DEF Moves
<1>14. CASE RandomTier(w)
  BY <1>1, <1>14, RandomEffect DEF Moves
<1>15. CASE Show(w)
  BY <1>15, RestingFits DEF Show, Doing, Answer
<1>16. CASE Scoring(w)
  BY <1>1, <1>16, ScoringEffect DEF Moves
<1> QED
  BY <1>2, <1>3, <1>4, <1>5, <1>6, <1>7, <1>8, <1>9, <1>10, <1>11, <1>12, <1>13, <1>14, <1>15,
     <1>16 DEF Step, Scoring

LEMMA NumberStep == ASSUME BaseInv, SerialInv, NumberInv, [Next]_vars PROVE NumberInv'
<1>1. ASSUME UNCHANGED batches PROVE \A p : NextSuffix(p)' = NextSuffix(p)
  BY <1>1 DEF NextSuffix, SuffixesOf
<1>2. ASSUME Next, ~overlapped', NEW v \in Workers, h'[v].pc = "save", h'[v].req.suffix = Absent
      PROVE  (h[v].suffix = NextSuffix(h[v].prefix))'
  <2>1. PICK w \in Workers : /\ Arrive(w) \/ Step(w) \/ Abort(w)
                             /\ \A u \in Workers \ {w} : h[u].pc = "idle"
    BY <1>2, OneActs
  <2>2. v = w
    BY <1>2, <2>1, OneMoves
  <2>3. ASSUME NEW x, h' = [h EXCEPT ![w] = x] PROVE h'[v] = x
    BY <2>2, <2>3, StateTyped DEF BaseInv
  <2>4. ~Arrive(w)
    BY <1>2, <2>3, ArriveEffect, RestingFits DEF BaseInv, Starts, Moves, Fresh
  <2>5. ~Abort(w)
    BY <1>2, <2>3, AbortEffect, RestingFits DEF Moves
  <2>6. Step(w)
    BY <2>1, <2>4, <2>5
  <2>7. PICK x : /\ h' = [h EXCEPT ![w] = x]
                 /\ x.pc = "save" =>
                        /\ UNCHANGED batches
                        /\ x.req.suffix # Absent \/ x.suffix = NextSuffix(x.prefix)
    BY <2>6, StepNumbers
  <2>8. h'[v] = x
    BY <2>3, <2>7
  <2>9. x.suffix = NextSuffix(x.prefix)'
    BY <1>1, <1>2, <2>7, <2>8
  <2> QED BY <2>8, <2>9
<1>3. CASE UNCHANGED vars
  BY <1>1, <1>3 DEF vars, tables, NumberInv
<1> QED BY <1>2, <1>3 DEF NumberInv

\* As long as requests do not overlap and the numbers of the product and day have
\* the width they are padded to, the order of the strings is the order of the
\* numbers, and a number that was counted is free (batches.service.ts:44).
THEOREM CountedIsFree == Spec => []CountedNumberIsFree
<1>1. Init => NumberInv
  BY RestingFits DEF Init, NumberInv
<1>2. BaseInv /\ SerialInv /\ NumberInv /\ [Next]_vars => NumberInv'
  BY NumberStep
<1>3. BaseInv /\ NumberInv => CountedNumberIsFree
  BY NextIsFree DEF BaseInv, NumberInv, CountedNumberIsFree
<1> QED BY <1>1, <1>2, <1>3, BaseHolds, SerialHolds, PTL DEF Spec

(***************************************************************************)
(* Prices.                                                                 *)
(***************************************************************************)
Agrees(p) == products[p] # NoProduct => told[p] \in {products[p].price, Absent}

\* The price a save of the handler leaves behind.
PriceAfter(x, old) ==
    IF x.req.op = "edit" /\ x.req.dto.price # Absent THEN x.req.dto.price ELSE old

\* What a handler that runs alone knows of the price of its product.
PriceFits(x) ==
    LET p == x.req.product
        price == products[p].price
    IN  /\ x.pc \in {"load", "sku", "compare", "write"} /\ x.req.op = "edit" => x.old = price
        /\ x.pc \in {"sku", "compare", "write"} => x.row.price = PriceAfter(x, price)
        /\ x.pc = "write" => "price" \in x.diff \/ x.row.price = price
        /\ x.pc = "mail" /\ x.req.op = "create" => price = x.req.dto.price
        /\ x.pc = "mail" /\ x.req.op = "edit" =>
              told[p] \in {x.old, Absent} /\ price = PriceAfter(x, x.old)

\* The customers know every price but the one whose mail is on its way.
PricesKnown(x) == \A p \in Products : Agrees(p) \/ (x.pc = "mail" /\ x.req.product = p)

PriceInv ==
    ~overlapped /\ aborts = 0 =>
        /\ \A w \in Workers : PriceFits(h[w])
        /\ \A p \in Products :
              Agrees(p) \/ \E w \in Workers : h[w].pc = "mail" /\ h[w].req.product = p

LEMMA PricesStable ==
    ASSUME UNCHANGED <<products, told>>, NEW x, PriceFits(x), PricesKnown(x)
    PROVE  PriceFits(x)' /\ PricesKnown(x)'
<1>1. PriceFits(x)'
  BY DEF PriceFits, PriceAfter
<1>2. PricesKnown(x)'
  BY DEF PricesKnown, Agrees
<1> QED BY <1>1, <1>2

LEMMA IdleFits == ASSUME NEW x, x.pc \notin {"load", "sku", "compare", "write", "mail"} PROVE PriceFits(x)
  BY DEF PriceFits

LEMMA StillKnown ==
    ASSUME NEW w \in Workers, PricesKnown(h[w]), NEW x, h[w].pc # "mail"
    PROVE  PricesKnown(x)
  BY DEF PricesKnown

LEMMA LoadPrices ==
    ASSUME BaseInv, NEW w \in Workers, LoadProduct(w), PriceFits(h[w]), PricesKnown(h[w])
    PROVE  \E x : h' = [h EXCEPT ![w] = x] /\ PriceFits(x)' /\ PricesKnown(x)'
<1>1. /\ h[w].pc = "load" /\ UNCHANGED <<products, told>>
      /\ \E x : /\ h' = [h EXCEPT ![w] = x] /\ Shape(x, Known)
                /\ \/ x = Resting
                   \/ /\ x.pc \in {"sku", "compare"} /\ Carries(w, x)
                      /\ x.row.price = IF x.req.dto.price # Absent THEN x.req.dto.price
                                         ELSE products[x.req.product].price
  BY LoadEffect DEF BaseInv, Moves, Quiet, tables
<1>2. h[w].req.op = "edit"
  BY <1>1, StateTyped DEF BaseInv, Shape
<1>3. PICK x : /\ h' = [h EXCEPT ![w] = x]
               /\ \/ x = Resting
                  \/ /\ x.pc \in {"sku", "compare"} /\ Carries(w, x)
                     /\ x.row.price = IF x.req.dto.price # Absent THEN x.req.dto.price
                                        ELSE products[x.req.product].price
  BY <1>1
<1>4. PricesKnown(x)
  BY <1>1, StillKnown
<1>5. PriceFits(x)
  <2>1. CASE x = Resting
    BY <2>1, RestingFits, IdleFits
  <2>2. CASE x.pc \in {"sku", "compare"} /\ Carries(w, x)
    BY <1>1, <1>2, <1>3, <2>2, RestingFits DEF PriceFits, PriceAfter, Carries
  <2> QED BY <1>3, <2>1, <2>2
<1> QED BY <1>1, <1>3, <1>4, <1>5, PricesStable

LEMMA SkuPrices ==
    ASSUME BaseInv, NEW w \in Workers, CheckSku(w), PriceFits(h[w]), PricesKnown(h[w])
    PROVE  \E x : h' = [h EXCEPT ![w] = x] /\ PriceFits(x)' /\ PricesKnown(x)'
<1>1. h[w].pc = "sku" /\ UNCHANGED <<products, told>>
  BY SkuEffect DEF BaseInv, Quiet, tables
<1>2. PICK x : /\ h' = [h EXCEPT ![w] = x]
               /\ \/ x = Resting
                  \/ x.pc = "compare" /\ Carries(w, x) /\ x.row = h[w].row
  BY SkuEffect DEF BaseInv, Moves
<1>3. PricesKnown(x)
  BY <1>1, StillKnown
<1>4. PriceFits(x)
  <2>1. CASE x = Resting
    BY <2>1, RestingFits, IdleFits
  <2>2. CASE x.pc = "compare" /\ Carries(w, x) /\ x.row = h[w].row
    BY <1>1, <2>2 DEF PriceFits, PriceAfter, Carries
  <2> QED BY <1>2, <2>1, <2>2
<1> QED BY <1>1, <1>2, <1>3, <1>4, PricesStable

LEMMA ComparePrices ==
    ASSUME BaseInv, NEW w \in Workers, Compare(w), PriceFits(h[w]), PricesKnown(h[w])
    PROVE  \E x : h' = [h EXCEPT ![w] = x] /\ PriceFits(x)' /\ PricesKnown(x)'
<1>1. h[w].pc = "compare" /\ UNCHANGED <<products, told>>
  BY CompareEffect DEF BaseInv, Quiet, tables
<1>2. PICK x : /\ h' = [h EXCEPT ![w] = x] /\ x.pc = "write" /\ Carries(w, x) /\ x.row = h[w].row
               /\ x.diff = {c \in h[w].cols : h[w].row[c] # products[h[w].req.product][c]}
  BY CompareEffect DEF BaseInv, Moves
<1>3. PricesKnown(x)
  BY <1>1, StillKnown
<1>4. /\ h[w].row.price = PriceAfter(h[w], products[h[w].req.product].price)
      /\ h[w].req.op = "edit" => h[w].old = products[h[w].req.product].price
  BY <1>1 DEF PriceFits
<1>5. h[w].req.op = "edit" => h[w].cols = Defined(h[w].req.dto)
  BY <1>1, StateTyped DEF BaseInv, Shape
<1>6. "price" \in x.diff \/ x.row.price = products[x.req.product].price
  <2>1. CASE h[w].req.op = "edit" /\ h[w].req.dto.price # Absent
    <3>1. "price" \in h[w].cols
      BY <1>5, <2>1 DEF Defined, Named
    <3> QED BY <1>2, <3>1 DEF Carries
  <2>2. CASE ~(h[w].req.op = "edit" /\ h[w].req.dto.price # Absent)
    BY <1>2, <1>4, <2>2 DEF PriceAfter, Carries
  <2> QED BY <2>1, <2>2
<1>7. PriceFits(x)
  BY <1>2, <1>4, <1>6 DEF PriceFits, PriceAfter, Carries
<1> QED BY <1>1, <1>2, <1>3, <1>7, PricesStable

LEMMA WritePrices ==
    ASSUME BaseInv, NEW w \in Workers, Write(w), PriceFits(h[w]), PricesKnown(h[w])
    PROVE  \E x : h' = [h EXCEPT ![w] = x] /\ PriceFits(x)' /\ PricesKnown(x)'
<1>0. PICK q : q = h[w].req.product
  OBVIOUS
<1> DEFINE row == h[w].row
           mended == Mended(products[q], row, h[w].diff)
<1>1. /\ h[w].pc = "write" /\ UNCHANGED told
      /\ \E x : /\ h' = [h EXCEPT ![w] = x]
                /\ \/ x = Resting /\ UNCHANGED products
                   \/ /\ products' = [products EXCEPT ![q] = mended]
                      /\ \/ x = Resting /\ h[w].req.op # "edit"
                         \/ h[w].req.op = "edit" /\ x.pc = "mail" /\ Carries(w, x)
  BY <1>0, WriteEffect DEF BaseInv, Moves
<1>2. /\ row \in Row /\ q \in Products /\ products[q] \in Row /\ q \in Known
      /\ products \in [Products -> Row \cup {NoProduct}]
  BY <1>0, <1>1, StateTyped DEF BaseInv, Shape
<1>3. /\ row.price = PriceAfter(h[w], products[q].price)
      /\ "price" \in h[w].diff \/ row.price = products[q].price
      /\ h[w].req.op = "edit" => h[w].old = products[q].price
  BY <1>0, <1>1 DEF PriceFits
<1>4. mended.price = row.price
  BY <1>2, <1>3, MendedIs DEF Columns
<1>5. \A p \in Products : Agrees(p)
  BY <1>1 DEF PricesKnown
<1>6. told[q] \in {products[q].price, Absent}
  BY <1>2, <1>5 DEF Agrees, Known
<1> HIDE DEF mended, row, Row
<1>7. CASE UNCHANGED products /\ h' = [h EXCEPT ![w] = Resting]
  <2>1. PriceFits(Resting) /\ PricesKnown(Resting)
    BY <1>1, RestingFits, IdleFits, StillKnown
  <2> QED BY <1>1, <1>7, <2>1, PricesStable
<1>8. ASSUME products' = [products EXCEPT ![q] = mended]
      PROVE  /\ products'[q] = mended
             /\ \A p \in Products \ {q} : products'[p] = products[p] /\ Agrees(p)'
  <2>1. products'[q] = mended /\ \A p \in Products \ {q} : products'[p] = products[p]
    BY <1>2, <1>8
  <2> QED BY <1>1, <1>5, <2>1 DEF Agrees
<1>9. ASSUME products' = [products EXCEPT ![q] = mended], h' = [h EXCEPT ![w] = Resting],
             h[w].req.op # "edit"
      PROVE  PriceFits(Resting)' /\ PricesKnown(Resting)'
  <2>1. Agrees(q)'
    BY <1>1, <1>3, <1>4, <1>6, <1>8, <1>9 DEF Agrees, PriceAfter
  <2>2. PricesKnown(Resting)'
    BY <1>8, <1>9, <2>1 DEF PricesKnown
  <2>3. PriceFits(Resting)'
    BY RestingFits DEF PriceFits
  <2> QED BY <2>2, <2>3
<1>10. ASSUME products' = [products EXCEPT ![q] = mended], h[w].req.op = "edit",
              NEW x, x.pc = "mail", Carries(w, x)
       PROVE  PriceFits(x)' /\ PricesKnown(x)'
  <2>1. products'[q].price = PriceAfter(x, x.old) /\ told'[q] \in {x.old, Absent}
    BY <1>1, <1>3, <1>4, <1>6, <1>8, <1>10 DEF PriceAfter, Carries
  <2>2. x.req.product = q /\ x.req.op = "edit"
    BY <1>0, <1>10 DEF Carries
  <2>3. PriceFits(x)'
    BY <1>10, <2>1, <2>2 DEF PriceFits, PriceAfter
  <2>4. PricesKnown(x)'
    BY <1>8, <1>10, <2>2 DEF PricesKnown
  <2> QED BY <2>3, <2>4
<1> QED BY <1>1, <1>7, <1>9, <1>10

LEMMA InsertPrices ==
    ASSUME BaseInv, NEW w \in Workers, InsertProduct(w), PriceFits(h[w]), PricesKnown(h[w])
    PROVE  \E x : h' = [h EXCEPT ![w] = x] /\ PriceFits(x)' /\ PricesKnown(x)'
<1> DEFINE q == h[w].req.product
           row == h[w].row
<1>1. /\ h[w].pc = "insert" /\ UNCHANGED told
      /\ \E x : /\ h' = [h EXCEPT ![w] = x]
                /\ \/ x = Resting /\ UNCHANGED products
                   \/ /\ products' = [products EXCEPT ![q] = row]
                      /\ x.pc = "mail" /\ Carries(w, x)
  BY InsertEffect DEF BaseInv, Moves
<1>2. h[w].req \in Requests /\ h[w].req.op = "create" /\ row = NewRow(h[w].req.dto)
  BY <1>1, StateTyped DEF BaseInv, Shape
<1>3. q \in Products /\ row.price = h[w].req.dto.price
  BY <1>2, RequestIs, NewRowTyped
<1>4. \A p \in Products : Agrees(p)
  BY <1>1 DEF PricesKnown
<1>5. products \in [Products -> Row \cup {NoProduct}]
  BY StateTyped DEF BaseInv
<1> HIDE DEF row, Row
<1>6. CASE UNCHANGED products /\ h' = [h EXCEPT ![w] = Resting]
  <2>1. PriceFits(Resting) /\ PricesKnown(Resting)
    BY <1>1, RestingFits, IdleFits, StillKnown
  <2> QED BY <1>1, <1>6, <2>1, PricesStable
<1>7. ASSUME products' = [products EXCEPT ![q] = row], NEW x, x.pc = "mail", Carries(w, x)
      PROVE  PriceFits(x)' /\ PricesKnown(x)'
  <2>1. products'[q] = row /\ \A p \in Products \ {q} : products'[p] = products[p]
    BY <1>3, <1>5, <1>7
  <2>2. x.req.product = q /\ x.req = h[w].req
    BY <1>7 DEF Carries
  <2>3. PriceFits(x)'
    BY <1>2, <1>3, <1>7, <2>1, <2>2 DEF PriceFits
  <2>4. \A p \in Products \ {q} : Agrees(p)'
    BY <1>1, <1>4, <2>1 DEF Agrees
  <2>5. PricesKnown(x)'
    BY <1>7, <2>2, <2>4 DEF PricesKnown
  <2> QED BY <2>3, <2>5
<1> QED BY <1>1, <1>6, <1>7

LEMMA MailPrices ==
    ASSUME BaseInv, NEW w \in Workers, SendMails(w), PriceFits(h[w]), PricesKnown(h[w])
    PROVE  \E x : h' = [h EXCEPT ![w] = x] /\ PriceFits(x)' /\ PricesKnown(x)'
<1>0. PICK q : q = h[w].req.product
  OBVIOUS
<1> DEFINE r == h[w].req
<1>1. /\ h[w].pc = "mail" /\ h' = [h EXCEPT ![w] = Resting] /\ UNCHANGED products
      /\ \/ UNCHANGED told /\ r.op = "edit" /\ ~PriceMailed(h[w])
         \/ told' = [told EXCEPT ![q] = r.dto.price]
  BY <1>0, MailEffect DEF BaseInv, Moves
<1>2. r \in Requests /\ r.op \in {"create", "edit"}
  BY <1>1, StateTyped DEF BaseInv, Shape
<1>3. q \in Products /\ told \in [Products -> Prices \cup {Absent}]
  BY <1>0, <1>2, RequestIs DEF BaseInv, TypeInv, TypeOK
<1>4. /\ r.op = "create" => products[q].price = r.dto.price
      /\ r.op = "edit" => /\ told[q] \in {h[w].old, Absent}
                          /\ products[q].price = PriceAfter(h[w], h[w].old)
  BY <1>0, <1>1 DEF PriceFits
<1>5. \A p \in Products \ {q} : Agrees(p)
  BY <1>0, <1>1 DEF PricesKnown
<1>6. \A p \in Products \ {q} : told'[p] = told[p]
  BY <1>1, <1>3
<1>7. Agrees(q)'
  <2>1. CASE UNCHANGED told /\ r.op = "edit" /\ ~PriceMailed(h[w])
    BY <1>1, <1>4, <2>1 DEF Agrees, PriceAfter, PriceMailed
  <2>2. CASE told' = [told EXCEPT ![q] = r.dto.price]
    <3>1. told'[q] = r.dto.price
      BY <1>3, <2>2
    <3> QED BY <1>1, <1>2, <1>4, <3>1 DEF Agrees, PriceAfter
  <2> QED BY <1>1, <2>1, <2>2
<1>8. \A p \in Products \ {q} : Agrees(p)'
  BY <1>1, <1>5, <1>6 DEF Agrees
<1>9. PricesKnown(Resting)'
  BY <1>7, <1>8 DEF PricesKnown
<1>10. PriceFits(Resting)'
  BY RestingFits DEF PriceFits
<1> QED BY <1>1, <1>9, <1>10

LEMMA StepPrices ==
    ASSUME BaseInv, NEW w \in Workers, Step(w), PriceFits(h[w]), PricesKnown(h[w])
    PROVE  \E x : h' = [h EXCEPT ![w] = x] /\ PriceFits(x)' /\ PricesKnown(x)'
<1>1. TypeInv /\ Cardinality(h[w].result) <= Limit
  BY DEF BaseInv, FewShown
<1> DEFINE Elsewhere(x) ==
        /\ h' = [h EXCEPT ![w] = x] /\ UNCHANGED <<products, told>> /\ h[w].pc # "mail"
        /\ x.pc \notin {"load", "sku", "compare", "write", "mail"}
<1>2. ASSUME NEW x, Elsewhere(x)
      PROVE  \E y : h' = [h EXCEPT ![w] = y] /\ PriceFits(y)' /\ PricesKnown(y)'
  BY <1>2, IdleFits, StillKnown, PricesStable
<1>3. CASE SaveBatch(w)
  BY <1>1, <1>2, <1>3, SaveEffect, RestingFits DEF Moves
<1>4. CASE GenerateBatchNumber(w)
  BY <1>1, <1>2, <1>4, NumberEffect DEF Moves, Quiet, tables
<1>5. CASE FindBatch(w)
  BY <1>1, <1>2, <1>5, LookupEffect, RestingFits DEF Moves, Quiet, tables
<1>6. CASE RankedTier(w)
  BY <1>1, <1>2, <1>6, RankedEffect DEF Moves, Quiet, tables
<1>7. CASE FeaturedTier(w)
  BY <1>1, <1>2, <1>7, FeaturedEffect DEF Moves, Quiet, tables
<1>8. CASE NewestTier(w)
  BY <1>1, <1>2, <1>8, NewestEffect DEF Moves, Quiet, tables
<1>9. CASE RandomTier(w)
  BY <1>1, <1>2, <1>9, RandomEffect DEF Moves, Quiet, tables
<1>10. CASE Show(w)
  <2>1. Elsewhere(Resting)
    BY <1>10, RestingFits DEF Show, Doing, Answer, tables
  <2> QED BY <1>2, <2>1
<1>11. CASE Scoring(w)
  BY <1>1, <1>2, <1>11, ScoringEffect DEF Moves, Quiet, tables
<1> HIDE DEF Elsewhere
<1> QED
  BY <1>3, <1>4, <1>5, <1>6, <1>7, <1>8, <1>9, <1>10, <1>11, LoadPrices, SkuPrices, ComparePrices,
     WritePrices, InsertPrices, MailPrices DEF Step, Scoring

LEMMA ArrivePrices ==
    ASSUME BaseInv, NEW w \in Workers, Arrive(w), PricesKnown(h[w])
    PROVE  \E x : h' = [h EXCEPT ![w] = x] /\ PriceFits(x)' /\ PricesKnown(x)'
<1>1. PICK x : Starts(w, x)
  BY ArriveEffect DEF BaseInv
<1>2. h[w].pc = "idle" /\ UNCHANGED <<products, told>>
  BY ArriveEffect DEF BaseInv, Standing, tables
<1>3. h' = [h EXCEPT ![w] = x] /\ (x = Resting \/ Fresh(x))
  BY <1>1 DEF Starts, Moves
<1>4. PriceFits(x)
  <2>1. CASE x = Resting
    BY <2>1, RestingFits, IdleFits
  <2>2. CASE Fresh(x)
    BY <2>2 DEF Fresh, PriceFits, PriceAfter, Toggles
  <2> QED BY <1>3, <2>1, <2>2
<1>5. PricesKnown(x)
  BY <1>2, StillKnown
<1> QED BY <1>2, <1>3, <1>4, <1>5, PricesStable

LEMMA PriceStep == ASSUME BaseInv, SerialInv, PriceInv, [Next]_vars PROVE PriceInv'
<1>1. ASSUME Next, ~overlapped', aborts' = 0
      PROVE  /\ \A v \in Workers : PriceFits(h[v])'
             /\ \A p \in Products :
                   Agrees(p)' \/ \E v \in Workers : h'[v].pc = "mail" /\ h'[v].req.product = p
  <2>1. PICK w \in Workers : /\ Arrive(w) \/ Step(w) \/ Abort(w)
                             /\ \A u \in Workers \ {w} : h[u].pc = "idle"
    BY <1>1, OneActs
  <2>2. ~overlapped
    BY <1>1, OneActs
  <2>3. ~Abort(w) /\ aborts = 0
    <3>1. aborts \in Nat
      BY Inputs DEF BaseInv, TypeInv, TypeOK
    <3>2. ~Abort(w)
      BY <1>1, <3>1, AbortEffect
    <3>3. aborts' = aborts
      BY <2>1, <3>2, StepFrom, ArriveEffect DEF BaseInv, Standing
    <3> QED BY <1>1, <3>2, <3>3
  <2>4. PriceFits(h[w]) /\ PricesKnown(h[w])
    BY <2>1, <2>2, <2>3 DEF PriceInv, PricesKnown
  <2>5. PICK x : h' = [h EXCEPT ![w] = x] /\ PriceFits(x)' /\ PricesKnown(x)'
    BY <2>1, <2>3, <2>4, StepPrices, ArrivePrices
  <2>6. h'[w] = x
    BY <2>5, StateTyped DEF BaseInv
  <2>7. PriceFits(h[w])' /\ PricesKnown(h[w])'
    BY <2>5, <2>6
  <2>8. \A v \in Workers \ {w} : h'[v].pc = "idle"
    BY <2>1, OneMoves
  <2>9. ASSUME NEW v \in Workers \ {w} PROVE PriceFits(h[v])'
    BY <2>8 DEF PriceFits
  <2> QED BY <2>7, <2>9 DEF PricesKnown
<1>2. CASE UNCHANGED vars
  BY <1>2 DEF vars, tables, PriceInv, PriceFits, PriceAfter, Agrees
<1> QED BY <1>1, <1>2 DEF PriceInv

\* As long as requests do not overlap and no mail was cut short, the customers know
\* the price of every product, or the last mail named none: the handler compares
\* the price from before the edit with what the client sent
\* (products.service.ts:142, product-notification.service.ts:124).
THEOREM PricesMailed == Spec => []CustomersKnowPrices
<1>1. Init => PriceInv
  <2> SUFFICES ASSUME Init PROVE PriceInv
    OBVIOUS
  <2>1. \A w \in Workers : h[w] = Resting
    BY DEF Init
  <2>2. \A w \in Workers : PriceFits(h[w])
    BY <2>1, RestingFits, IdleFits
  <2>3. \A p \in Products : Agrees(p)
    BY DEF Init, Agrees
  <2> QED BY <2>2, <2>3 DEF PriceInv
<1>2. BaseInv /\ SerialInv /\ PriceInv /\ [Next]_vars => PriceInv'
  BY PriceStep
<1>3. PriceInv => CustomersKnowPrices
  BY DEF PriceInv, CustomersKnowPrices, Agrees
<1> QED BY <1>1, <1>2, <1>3, BaseHolds, SerialHolds, PTL DEF Spec
=============================================================================
