---------------------------- MODULE MCSalePayments ----------------------------
(***************************************************************************)
(* Small instances of the payments of an order for TLC.                    *)
(***************************************************************************)
EXTENDS SalePayments, TLC

CONSTANTS r1, r2

\* One unit of fee for every two units of subtotal.
HalfFee(n) == (n + 1) \div 2

Ask(op) == [op |-> op, amount |-> 0, delivery |-> 0, record |-> 1, status |-> "PENDING"]

Placed(pay, ref, amount) ==
    [EmptyRow EXCEPT !.paymentStatus = pay, !.reference = ref, !.amount = amount,
                     !.serviceFee = HalfFee(amount)]

(***************************************************************************)
(* Money comes in from everywhere: subtotal 1, grand total 2.              *)
(***************************************************************************)
Collecting ==
    {Placed(pay, r1, 1) : pay \in {"INVOICE_REQUESTED", "PENDING_PAYMENT"}}
    \cup {Placed("PENDING_PAYMENT", NoReference, 1)}

CollectRequests ==
    {[Ask("recordPayment") EXCEPT !.amount = n, !.status = st] :
        n \in {1, 2}, st \in {"PENDING", "CONFIRMED"}}
    \cup {[Ask("updatePaymentStatus") EXCEPT !.record = i, !.status = "CONFIRMED"] : i \in {1, 2}}
    \cup {Ask("confirmPayment")}

(***************************************************************************)
(* Everything that can happen to the money of an order.                    *)
(***************************************************************************)
Orders == {Placed("PENDING_PAYMENT", r1, 1), NoSale,
           [Placed("AWAITING_DELIVERY", NoReference, 1) EXCEPT !.serviceFee = NoFee]}

KeepingFees ==
    {[Ask("initializeTransaction") EXCEPT !.amount = 1, !.delivery = d] : d \in {-1, 1}}
    \cup {[Ask("recordPayment") EXCEPT !.amount = 2, !.status = "CONFIRMED"]}
    \cup {[Ask("updateDeliveryCost") EXCEPT !.amount = n] : n \in {0, 2}}
    \cup {Ask(op) : op \in {"payForOrder", "payForGuestOrder", "confirmPayment",
                             "confirmDelivery", "cancelSaleByCustomer", "cancelSaleByAdmin"}}

AllRequests ==
    KeepingFees
    \cup {[Ask("addLineItem") EXCEPT !.amount = 1]}
    \cup {[Ask("updatePaymentStatus") EXCEPT !.status = "CONFIRMED"]}
=============================================================================
