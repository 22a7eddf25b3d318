------------------------------ MODULE MCCatalog ------------------------------
(* Four products, the last one still to come; the SKU of the first and the    *)
(* name of the second give their batches the same prefix, the first two share *)
(* the category.  Numbers have two binary digits.                             *)
EXTENDS Catalog

CONSTANTS s1, s2, word

MCCategory == <<"butter", "butter", "oil", "oil">>
MCNamePrefix == <<"BUTT", "SHEA", "OIL", "OIL">>
MCSkuPrefix == [s \in {s1, s2} |-> IF s = s1 THEN "SHEA" ELSE "OIL"]

Stored(sku, active, featured) ==
    [sku |-> sku, price |-> 1, quantity |-> Absent, box |-> Absent, active |-> active,
     featured |-> featured, favorite |-> FALSE, deleted |-> FALSE]

Tables(batch, bought, sold, cart, carts) ==
    [products |-> <<Stored(s1, TRUE, TRUE), Stored(Absent, TRUE, FALSE),
                    Stored(Absent, FALSE, TRUE), NoProduct>>,
     batches |-> batch,
     interest |-> [bought |-> bought, sold |-> sold, cart |-> cart, carts |-> carts]]

MCInitialTables ==
    {Tables({}, {}, {}, {}, {}),
     Tables({[prefix |-> "SHEA", suffix |-> 3]}, {1}, {1, 3}, {3}, {2})}

\* What the client left out of status and flag is filled in.
Changes(sku, price, quantity) ==
    [sku |-> sku, price |-> price, quantity |-> quantity, box |-> Absent,
     active |-> TRUE, featured |-> FALSE]

Hidden(change) == [change EXCEPT !.active = FALSE, !.featured = TRUE]

MCRequests ==
    {[op |-> "create", product |-> 4, dto |-> Changes(s2, 2, 2)],
     [op |-> "edit", product |-> 1, dto |-> Changes(Absent, 2, Absent)],
     [op |-> "edit", product |-> 1, dto |-> Changes(Absent, 1, 2)],
     [op |-> "edit", product |-> 1, dto |-> Hidden(Changes(s2, Absent, Absent))],
     [op |-> "status", product |-> 1], [op |-> "status", product |-> 3],
     [op |-> "favorite", product |-> 1], [op |-> "delete", product |-> 1],
     [op |-> "delete", product |-> 2],
     [op |-> "batch", product |-> 1, suffix |-> Absent],
     [op |-> "batch", product |-> 2, suffix |-> Absent],
     [op |-> "batch", product |-> 1, suffix |-> 2],
     [op |-> "batch", product |-> 1, suffix |-> word],
     [op |-> "personal"], [op |-> "curated"]}
=============================================================================
