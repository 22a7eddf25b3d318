------------------------------ MODULE MCCarts ------------------------------
(* Small shops for Carts: one or two shoppers, the carts they start with,  *)
(* and the requests they send.                                             *)
EXTENDS Carts, TLC

CONSTANTS user, guest, p1, p2, c1, c2, c3, c4, c5, o1, o2, o3, mail

OneOf(product, n) == [product |-> product, quantity |-> n]

Req(op, shopper, items, cart) ==
    [op |-> op, shopper |-> shopper, session |-> guest, items |-> items,
     cart |-> cart, quantity |-> 3, email |-> mail]

CartRow(u, s, p, n) ==
    [user |-> u, session |-> s, product |-> p, quantity |-> n, order |-> NoOne]

EmptyCarts == [c \in CartIds |-> NoRow]

\* The guest and the user both hold p1, the guest holds p2 as well.
FilledCarts ==
    [EmptyCarts EXCEPT ![c1] = CartRow(user, NoOne, p1, 1),
                       ![c2] = CartRow(NoOne, guest, p1, 2),
                       ![c3] = CartRow(NoOne, guest, p2, 1)]

\* The user holds two rows, the guest one.
RaceCarts ==
    {[EmptyCarts EXCEPT ![c1] = CartRow(user, NoOne, p1, 1),
                        ![c2] = CartRow(user, NoOne, p2, 1),
                        ![c3] = CartRow(NoOne, guest, p1, 1)]}

SerialCarts == {EmptyCarts, FilledCarts}

RaceRequests ==
    {Req("addQuantity", user, <<>>, c1),
     Req("removeFromCart", user, <<>>, c1),
     Req("syncGuestCartWithUser", user, <<>>, c1),
     Req("checkout", user, <<>>, c1)}

SerialRequests ==
    {Req("addToCart", user, <<OneOf(p1, 0)>>, c1),
     Req("addToCart", guest, <<OneOf(p1, 1)>>, c1),
     Req("bulkAddToCart", user, <<OneOf(p1, 1), OneOf(p2, 2), OneOf(p1, 1)>>, c1),
     Req("addQuantity", user, <<>>, c1),
     Req("addQuantity", guest, <<>>, c2),
     Req("removeFromCart", user, <<>>, c1),
     Req("removeAllFromGuestCart", guest, <<>>, c1),
     Req("syncGuestCartWithUser", user, <<>>, c1),
     Req("checkout", user, <<>>, c1),
     Req("checkout", guest, <<>>, c1)}

=============================================================================
