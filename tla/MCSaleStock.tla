----------------------------- MODULE MCSaleStock -----------------------------
(***************************************************************************)
(* Small instances of the sales desk for TLC.                              *)
(***************************************************************************)
EXTENDS SaleStock, TLC

CONSTANTS b1, b2, s1, s2, p1

OneProduct == [b \in Batches |-> p1]

Take(b, n) == [batch |-> b, quantity |-> n]

Item(n, alloc) == [product |-> p1, requested |-> n, alloc |-> alloc]

Req(op, s, order, pay, edits, items) ==
    [op |-> op, sale |-> s, orderStatus |-> order, paymentStatus |-> pay,
     edits |-> edits, deliveryFee |-> FALSE, confirmed |-> op = "confirmDelivery", lineItems |-> items]

Plain(op, s) == Req(op, s, Unset, Unset, FALSE, <<>>)

Stock(n) == [quantity |-> n, isActive |-> n > 0]

\* Rows as checkout leaves them: no batches yet, paid through Paystack or not.
FromCheckout(pay, items) ==
    [EmptyRow EXCEPT !.paymentStatus = pay, !.reference = TRUE, !.lineItems = items]

(***************************************************************************)
(* Two handlers on one order and two batches.                              *)
(***************************************************************************)
RaceStock == {(b1 :> Stock(2) @@ b2 :> Stock(1))}

RaceSales ==
    {(s1 :> FromCheckout(pay, <<Item(1, <<>>)>>)) : pay \in {"PENDING_PAYMENT", "PAID"}}

RaceRequests ==
    {Req("assignBatches", s1, Unset, Unset, FALSE, <<Item(1, <<Take(b, 1)>>)>>) : b \in {b1, b2}}
    \cup {Req("updateSaleStatus", s1, st, Unset, FALSE, <<>>) : st \in {"PENDING", "PACKAGING"}}
    \cup {Plain("cancelSaleByCustomer", s1), Plain("cancelSale", s1), Plain("confirmDelivery", s1)}

(***************************************************************************)
(* Two edits of two orders whose items cross over two batches.             *)
(***************************************************************************)
EditStock == {(b1 :> Stock(1) @@ b2 :> Stock(1))}

EditSales ==
    {(s1 :> FromCheckout("PENDING_PAYMENT", <<Item(1, <<>>)>>) @@ s2 :> row) :
        row \in {NoSale, FromCheckout("PENDING_PAYMENT", <<Item(1, <<Take(b1, 1)>>)>>)}}

EditRequests ==
    {Req("updateSale", s1, Unset, Unset, TRUE, <<Item(2, <<Take(b1, 1), Take(b2, 1)>>)>>),
     Req("updateSale", s2, "PACKAGING", Unset, TRUE, <<Item(2, <<Take(b2, 1), Take(b1, 1)>>)>>),
     Req("updateSale", s2, "PACKAGING", Unset, FALSE, <<>>),
     Req("assignBatches", s1, Unset, Unset, FALSE, <<Item(1, <<Take(b2, 1)>>)>>),
     Req("createSale", s2, "PACKAGING", Unset, FALSE, <<Item(1, <<Take(b2, 1)>>)>>),
     Req("addLineItem", s1, Unset, Unset, FALSE, <<Item(1, <<>>)>>)}
    \cup {Plain("cancelSaleByAdmin", s2)}

(***************************************************************************)
(* One handler at a time: an order of the checkout, and one yet to create. *)
(***************************************************************************)
SerialStock == {(b1 :> Stock(2) @@ b2 :> Stock(1))}

SerialSales ==
    {(s1 :> FromCheckout(pay, <<Item(1, <<>>)>>) @@ s2 :> NoSale) :
        pay \in {"PENDING_PAYMENT", "PAID"}}
=============================================================================
