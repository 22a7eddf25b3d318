-------------------------- MODULE MCSaleStockLedger --------------------------
(***************************************************************************)
(* The desk with its ledger, one handler at a time.                        *)
(***************************************************************************)
EXTENDS SaleStockLedger, MCSaleStock

(***************************************************************************)
(* One handler at a time: every kind of request of the desk, on two orders *)
(* one of which is yet to be created, statuses typed in as cancelled       *)
(* included.  No payment status is typed in on the order that was paid     *)
(* through Paystack.                                                       *)
(***************************************************************************)
AllocLists == {<<>>, <<Take(b1, 1)>>, <<Take(b2, 1)>>, <<Take(b1, 1), Take(b2, 1)>>, <<Take(b2, 2)>>}

\* An edit that names a delivery fee.
FeeEdit(s) == [Plain("updateSale", s) EXCEPT !.deliveryFee = TRUE]

SerialRequests ==
    {Req("createSale", s2, st, Unset, FALSE, <<Item(n, al)>>) :
        st \in {Unset, "PACKAGING", "CANCELLED"}, n \in {1, 2}, al \in {<<>>, <<Take(b1, 1)>>}}
    \cup {Req("addLineItem", s, Unset, Unset, FALSE, <<Item(1, al)>>) :
             s \in {s1, s2}, al \in {<<Take(b1, 1)>>}}
    \cup {Req("assignBatches", s1, Unset, Unset, FALSE, <<Item(1, al)>>) : al \in AllocLists}
    \cup {Req("updateSale", s, st, Unset, TRUE, <<Item(n, al)>>) :
             s \in {s1, s2}, st \in {Unset, "PACKAGING"}, n \in {1, 2}, al \in AllocLists}
    \cup {Req("updateSale", s, "CANCELLED", Unset, TRUE, <<Item(1, <<Take(b1, 1)>>)>>) : s \in {s1, s2}}
    \cup {FeeEdit(s2)}
    \cup {Req("updateSaleStatus", s1, st, Unset, FALSE, <<>>) :
             st \in {"PACKAGING", "DELIVERED", "CANCELLED"}}
    \cup {Req("updateSaleStatus", s2, "CANCELLED", Unset, FALSE, <<>>),
          Req("updateSaleStatus", s2, Unset, "PAID", FALSE, <<>>),
          Req("updateSaleStatus", s2, Unset, "AWAITING_DELIVERY", FALSE, <<>>)}
    \cup {Plain(op, s) : op \in {"cancelSaleByCustomer", "cancelSaleByAdmin", "cancelSale", "confirmDelivery"},
                         s \in {s1, s2}}

=============================================================================
