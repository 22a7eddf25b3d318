---------------------------- MODULE Notifications ----------------------------
(***************************************************************************)
(* Notifications: the table "notifications", the services that write to it *)
(* and push to whoever is connected, and the clients that scroll through   *)
(* their list while new ones arrive.                                       *)
(*                                                                         *)
(* The clients are not in this repository: one connects, then loads its    *)
(* list page by page as far as it is told there is more, and shows what it *)
(* loads and what is pushed.  There is one process, which holds the        *)
(* connections; nothing a client sends comes between its connection and    *)
(* its joining the room of its user.                                       *)
(***************************************************************************)
EXTENDS Naturals, Sequences, FiniteSets, SequencesExt

CONSTANTS
    Users, Clients, UserOf,  \* UserOf is the user of each client
    Senders,    \* handlers that notify at the same time
    Customers, Admins, \* users; Admins is a sequence
    Stored,     \* how many notifications each user has at the beginning
    Limit,      \* size of a page
    MaxNotes, MaxLosses \* bounds on notifications and on lost connections and failures

ASSUME InputsAssumption ==
    /\ UserOf \in [Clients -> Users]
    /\ Customers \subseteq Users /\ Admins \in Seq(Users) \ {<<>>}
    /\ Stored \in [Users -> Nat]
    /\ Limit \in Nat \ {0} /\ {MaxNotes, MaxLosses} \subseteq Nat

VARIABLES
    rows,     \* of each user, in the order they were saved
    h,        \* what each sender is at
    clients,
    notes,    \* the number of notifications begun
    losses,
    \* What happened, for the properties:
    before    \* of each client, what was saved when it loaded its first page

vars == <<rows, h, clients, notes, losses, before>>

Resting == [queue |-> <<>>, stage |-> 0, note |-> 0]

\* shown: what the client shows; page: the last it loaded; more: what the server
\* says of further pages.
Fresh == [connected |-> FALSE, shown |-> {}, page |-> 0, more |-> TRUE, counting |-> FALSE]

\* The id of a row: of the i-th of the beginning, and of what notification n saves
\* for the user who has k recipients left, counting themselves.
Id(u, n, k) == <<u, n, k>>

Old(u) == [i \in 1 .. Stored[u] |-> Id(u, i, 0)]

Init ==
    /\ rows = [u \in Users |-> Old(u)]
    /\ h = [w \in Senders |-> Resting]
    /\ clients = [c \in Clients |-> Fresh]
    /\ notes = 0 /\ losses = 0
    /\ before = [c \in Clients |-> {}]

Saved(u) == ToSet(rows[u])

(***************************************************************************)
(* Senders.                                                                *)
(***************************************************************************)
\* Plausible bug: the push does not wait for the row.
StagesEager == <<"emit", "save">>

\* sendInAppNotification: the row first, then the push.
Stages == <<"save", "emit">>

\* notifyOrderCreated, notifyOrderCancelled, notifyPaymentReceived: the customer,
\* unless a guest, and then the administrators.
OrderEvents == {<<u>> \o Admins : u \in Customers} \cup {Admins}

\* notifyOrderStatusUpdated, notifyOrderDelivered: an order's customer; the same
\* of its delivery cost and of a new password.
StatusEvents == {<<u>> : u \in Customers}

\* notifyReviewSubmitted, notifyContactFormSubmitted.
AdminEvents == {Admins}

\* The recipient a sender is at, and what it has for them.
To(w) == Head(h[w].queue)
Note(w) == Id(To(w), h[w].note, Len(h[w].queue))

\* A handler of orders, payments, reviews or mails to the enterprise.
Notify(w, event) ==
    /\ h[w] = Resting
    /\ notes < MaxNotes
    /\ notes' = notes + 1
    /\ h' = [h EXCEPT ![w] = [queue |-> event, stage |-> 1, note |-> notes + 1]]
    /\ UNCHANGED <<rows, clients, losses, before>>

At(w, stage) == h[w].queue # <<>> /\ Stages[h[w].stage] = stage

\* The loop of sendInAppNotificationToMultipleUsers.
Proceeded(sender) ==
    IF sender.stage < Len(Stages) THEN [sender EXCEPT !.stage = sender.stage + 1]
    ELSE IF Len(sender.queue) = 1 THEN Resting
    ELSE [sender EXCEPT !.queue = Tail(sender.queue), !.stage = 1]

Proceed(w) == h' = [h EXCEPT ![w] = Proceeded(h[w])]

Save(w) ==
    /\ At(w, "save")
    /\ rows' = [rows EXCEPT ![To(w)] = Append(@, Note(w))]
    /\ Proceed(w)
    /\ UNCHANGED <<clients, notes, losses, before>>

\* To the room of the user: every connection of theirs.
Emit(w) ==
    /\ At(w, "emit")
    /\ clients' = [c \in Clients |->
          IF clients[c].connected /\ UserOf[c] = To(w)
            THEN [clients[c] EXCEPT !.shown = @ \cup {Note(w)}]
            ELSE clients[c]]
    /\ Proceed(w)
    /\ UNCHANGED <<rows, notes, losses, before>>

\* The row is refused: the error is swallowed, and who is left in the queue is not
\* notified.
Fail(w) ==
    /\ At(w, "save")
    /\ losses < MaxLosses
    /\ losses' = losses + 1
    /\ h' = [h EXCEPT ![w] = Resting]
    /\ UNCHANGED <<rows, clients, notes, before>>

(***************************************************************************)
(* Clients.                                                                *)
(***************************************************************************)
\* handleConnection.
Connect(c) ==
    /\ ~clients[c].connected
    /\ clients' = [clients EXCEPT ![c] = [Fresh EXCEPT !.connected = TRUE]]
    /\ before' = [before EXCEPT ![c] = {}]
    /\ UNCHANGED <<rows, h, notes, losses>>

Disconnect(c) ==
    /\ clients[c].connected
    /\ losses < MaxLosses
    /\ losses' = losses + 1
    /\ clients' = [clients EXCEPT ![c].connected = FALSE]
    /\ UNCHANGED <<rows, h, notes, before>>

\* The n-th page of a user's notifications, the latest first.  The query orders by
\* createdAt alone; stamps are taken as distinct, so that rows of one microsecond,
\* which may swap places between two pages, are left out.
Page(u, n) ==
    LET last == Len(rows[u]) - (n - 1) * Limit
    IN  {rows[u][i] : i \in {j \in DOMAIN rows[u] : j <= last /\ j + Limit > last}}

\* getUserNotifications: the page in one query.
LoadPage(c) ==
    /\ clients[c].more /\ ~clients[c].counting
    /\ LET n == clients[c].page + 1
           u == UserOf[c]
       IN  /\ clients' = [clients EXCEPT ![c].shown = @ \cup Page(u, n), ![c].page = n,
                                         ![c].counting = TRUE]
           /\ before' = IF n = 1 THEN [before EXCEPT ![c] = Saved(u)] ELSE before
    /\ UNCHANGED <<rows, h, notes, losses>>

\* Plausible bug: rounded down.
TotalPagesFloor(total) == total \div Limit

TotalPages(total) == (total + Limit - 1) \div Limit

\* And what there is in all in another.
CountRows(c) ==
    /\ clients[c].counting
    /\ clients' = [clients EXCEPT ![c].counting = FALSE,
                      ![c].more = clients[c].page < TotalPages(Len(rows[UserOf[c]]))]
    /\ UNCHANGED <<rows, h, notes, losses, before>>

\* The process goes down with its senders and connections, and comes up again.
Crash ==
    /\ losses < MaxLosses
    /\ losses' = losses + 1
    /\ h' = [w \in Senders |-> Resting]
    /\ clients' = [c \in Clients |-> [clients[c] EXCEPT !.connected = FALSE]]
    /\ UNCHANGED <<rows, notes, before>>

Next ==
    \/ \E w \in Senders :
          \/ \E event \in OrderEvents \cup StatusEvents \cup AdminEvents : Notify(w, event)
          \/ Save(w) \/ Emit(w) \/ Fail(w)
    \/ \E c \in Clients : Connect(c) \/ Disconnect(c) \/ LoadPage(c) \/ CountRows(c)
    \/ Crash

Spec == Init /\ [][Next]_vars

(***************************************************************************)
(* Properties.                                                             *)
(***************************************************************************)
AtTheEnd(c) == ~clients[c].more /\ ~clients[c].counting

\* What is saved and is about to be pushed.
Underway(u) == {Note(w) : w \in {v \in Senders : At(v, "emit") /\ To(v) = u}}

Inbox(u) == Saved(u) \ Underway(u)

\* A client that is connected and has scrolled to the end.
Attending == {c \in Clients : clients[c].connected /\ AtTheEnd(c)}

Promise ==
    INSTANCE Feed WITH
        inbox <- [u \in Users |-> Inbox(u)],
        attending <- Attending,
        view <- [c \in Clients |->
                    IF c \in Attending THEN clients[c].shown \cap Inbox(UserOf[c]) ELSE {}]

\* However senders, pages, connections and crashes overlap, the service implements
\* the feed: a client that is connected and has scrolled to the end shows every
\* notification of its user, and each new one from the moment it is pushed, because
\* the row is saved before (notification.service.ts:430).
LosslessFeed == Promise!Spec

\* Whatever arrives while a client scrolls and shifts the pages, connected or not:
\* at the end it shows every notification that was there when it began
\* (notification.service.ts:531, 545).
ScrollMissesNothing ==
    \A c \in Clients : AtTheEnd(c) => before[c] \subseteq clients[c].shown
=============================================================================
