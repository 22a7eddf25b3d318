------------------------- MODULE NotificationsProofs -------------------------
(***************************************************************************)
(* Proofs about the notifications, for every number of users, clients,     *)
(* senders and failures, every size of page and every list of              *)
(* administrators, among whom the customer of an order may be.             *)
(***************************************************************************)
EXTENDS Notifications, TLAPS, FiniteSetTheorems, SequenceTheorems

Ids == Users \X Nat \X Nat

Handler == [queue : Seq(Users), stage : {0, 1, 2}, note : Nat]

Client == [connected : BOOLEAN, shown : SUBSET Ids, page : Nat, more : BOOLEAN,
           counting : BOOLEAN]

Typed ==
    /\ rows \in [Users -> Seq(Ids)]
    /\ h \in [Senders -> Handler]
    /\ clients \in [Clients -> Client]
    /\ notes \in Nat /\ losses \in Nat
    /\ before \in [Clients -> SUBSET Ids]

(***************************************************************************)
(* Senders.  A row has an id no other row had: what a sender has still to  *)
(* save is not there, and two senders are never at the same notification.  *)
(***************************************************************************)
Sending(w) == h[w].queue # <<>>

SendersAtWork ==
    /\ \A w \in Senders :
          IF Sending(w) THEN h[w].stage \in {1, 2} /\ h[w].note \in 1 .. notes
                        ELSE h[w] = Resting
    /\ \A v, w \in Senders : v # w /\ Sending(v) /\ Sending(w) => h[v].note # h[w].note

Emitting(w) == Sending(w) /\ h[w].stage = 2

IdsUnique ==
    /\ \A u \in Users, n \in Nat, k \in Nat \ {0} : Id(u, n, k) \in Saved(u) => n <= notes
    /\ \A w \in Senders, u \in Users, k \in Nat \ {0} :
          Sending(w) /\ k <= Len(h[w].queue) /\ Id(u, h[w].note, k) \in Saved(u)
            => Emitting(w) /\ k = Len(h[w].queue)
    /\ \A w \in Senders : Emitting(w) => Note(w) \in Saved(To(w))

(***************************************************************************)
(* Clients.  A row that is within the pages a client has loaded, counted   *)
(* from the latest row there is now, is shown if it was there when the     *)
(* client began; and if the client is connected, it is shown unless it is  *)
(* about to be pushed.                                                     *)
(***************************************************************************)
Within(c, i) == i > Len(rows[UserOf[c]]) - clients[c].page * Limit

ShownTo(c) ==
    \A i \in DOMAIN rows[UserOf[c]] :
        LET row == rows[UserOf[c]][i]
        IN  Within(c, i) =>
              /\ row \in before[c] => row \in clients[c].shown
              /\ clients[c].connected /\ row \notin Underway(UserOf[c])
                    => row \in clients[c].shown

PagesShown == \A c \in Clients : ShownTo(c)

BeforeSaved == \A c \in Clients : before[c] \subseteq Saved(UserOf[c])

AttendingShowAll ==
    \A c \in Attending : Inbox(UserOf[c]) \subseteq clients[c].shown

IInv ==
    /\ Typed /\ SendersAtWork /\ IdsUnique
    /\ PagesShown /\ BeforeSaved /\ ScrollMissesNothing /\ AttendingShowAll

-----------------------------------------------------------------------------
(* What the steps of a sender do.                                          *)

LEMMA Inputs ==
    /\ UserOf \in [Clients -> Users]
    /\ Limit \in Nat /\ Limit > 0
    /\ \A u \in Users : Stored[u] \in Nat
  BY InputsAssumption

\* Events name at least one recipient.
LEMMA EventType ==
    ASSUME NEW event \in OrderEvents \cup StatusEvents \cup AdminEvents
    PROVE  event \in Seq(Users) /\ event # <<>>
<1>1. Admins \in Seq(Users) /\ Admins # <<>> /\ Customers \subseteq Users
  BY InputsAssumption
<1>2. ASSUME NEW u \in Users
      PROVE  <<u>> \o Admins \in Seq(Users) /\ <<u>> \o Admins # <<>>
  <2>1. <<u>> \in Seq(Users) /\ Len(<<u>>) = 1
    OBVIOUS
  <2>2. Len(<<u>> \o Admins) = Len(<<u>>) + Len(Admins) /\ Len(Admins) \in Nat
    BY <1>1, <2>1
  <2> QED BY <1>1, <2>1, <2>2
<1>3. \A u \in Users : <<u>> \in Seq(Users) /\ <<u>> # <<>>
  OBVIOUS
<1> QED BY <1>1, <1>2, <1>3 DEF OrderEvents, StatusEvents, AdminEvents

\* The two stages of a recipient.
LEMMA StageAt ==
    ASSUME Typed, SendersAtWork, NEW w \in Senders
    PROVE  /\ At(w, "save") <=> Sending(w) /\ h[w].stage = 1
           /\ At(w, "emit") <=> Emitting(w)
  BY DEF Typed, SendersAtWork, At, Stages, Sending, Emitting, Handler

\* The recipient in hand.
LEMMA ToType ==
    ASSUME Typed, SendersAtWork, NEW w \in Senders, Sending(w)
    PROVE  /\ To(w) \in Users
           /\ Len(h[w].queue) \in Nat \ {0}
           /\ Note(w) \in Ids
<1>1. h[w].queue \in Seq(Users) /\ h[w].queue # <<>> /\ h[w].note \in Nat
  BY DEF Typed, Handler, Sending
<1> QED BY <1>1 DEF To, Note, Id, Ids

\* What is left of a queue.
LEMMA TailType ==
    ASSUME NEW S, NEW s \in Seq(S), s # <<>>
    PROVE  /\ Tail(s) \in Seq(S)
           /\ Len(Tail(s)) = Len(s) - 1
           /\ Len(s) # 1 => Tail(s) # <<>>
<1>1. Tail(s) \in Seq(S) /\ Len(Tail(s)) = Len(s) - 1
  BY HeadTailProperties
<1>2. Len(s) # 1 => Len(Tail(s)) # 0
  BY <1>1, LenProperties
<1> QED BY <1>1, <1>2, EmptySeq

LEMMA ToSetAppend ==
    ASSUME NEW S, NEW s \in Seq(S), NEW e \in S
    PROVE  ToSet(Append(s, e)) = ToSet(s) \cup {e}
<1>1. DOMAIN Append(s, e) = DOMAIN s \cup {Len(s) + 1}
  OBVIOUS
<1>2. \A i \in DOMAIN s : Append(s, e)[i] = s[i]
  OBVIOUS
<1>3. Append(s, e)[Len(s) + 1] = e
  OBVIOUS
<1>4. Len(s) + 1 \notin DOMAIN s
  OBVIOUS
<1> QED BY <1>1, <1>2, <1>3, <1>4 DEF ToSet

\* Saving: the row is there, and the sender about to push it.
LEMMA SaveEffect ==
    ASSUME Typed, SendersAtWork, NEW w \in Senders, Save(w)
    PROVE  /\ Sending(w) /\ h[w].stage = 1
           /\ h' = [h EXCEPT ![w] = [h[w] EXCEPT !.stage = 2]]
           /\ rows' = [rows EXCEPT ![To(w)] = Append(rows[To(w)], Note(w))]
           /\ UNCHANGED <<clients, notes, losses, before>>
<1>1. Sending(w) /\ h[w].stage = 1
  BY StageAt DEF Save
<1>2. h' = [h EXCEPT ![w] = [h[w] EXCEPT !.stage = 2]]
  BY <1>1 DEF Save, Proceed, Proceeded, Stages, Typed, Handler
<1> QED BY <1>1, <1>2 DEF Save

\* Pushing: on to the next recipient, if there is one.
LEMMA EmitEffect ==
    ASSUME Typed, SendersAtWork, NEW w \in Senders, Emit(w)
    PROVE  /\ Emitting(w)
           /\ h' = [h EXCEPT ![w] = Proceeded(h[w])]
           /\ UNCHANGED <<rows, notes, losses, before>>
<1>1. Emitting(w)
  BY StageAt DEF Emit
<1>2. h' = [h EXCEPT ![w] = Proceeded(h[w])]
  BY <1>1 DEF Emit, Proceed
<1> QED BY <1>1, <1>2 DEF Emit

\* A page holds ids.
LEMMA PageType ==
    ASSUME Typed, NEW c \in Clients, NEW n \in Nat
    PROVE  Page(UserOf[c], n) \subseteq Ids
<1>1. rows[UserOf[c]] \in Seq(Ids)
  BY Inputs DEF Typed
<1> QED BY <1>1 DEF Page

LEMMA SavedType ==
    ASSUME Typed, NEW u \in Users
    PROVE  Saved(u) \subseteq Ids
<1>1. rows[u] \in Seq(Ids)
  BY DEF Typed
<1> QED BY <1>1 DEF Saved, ToSet

LEMMA RestingType == Resting \in Handler
  BY DEF Resting, Handler

LEMMA FreshType == Fresh \in Client
  BY DEF Fresh, Client

LEMMA DisconnectedType ==
    ASSUME Typed, NEW c \in Clients
    PROVE  [clients[c] EXCEPT !.connected = FALSE] \in Client
<1>1. clients[c] \in Client
  BY DEF Typed
<1> QED BY <1>1 DEF Client

LEMMA TypedStep ==
    ASSUME Typed, SendersAtWork, [Next]_vars
    PROVE  Typed'
<1>1. ASSUME NEW w \in Senders, NEW event \in OrderEvents \cup StatusEvents \cup AdminEvents,
             Notify(w, event)
      PROVE  Typed'
  BY <1>1, EventType DEF Typed, Notify, Handler
<1>2. ASSUME NEW w \in Senders, Save(w)
      PROVE  Typed'
  <2>1. To(w) \in Users /\ Note(w) \in Ids
    BY <1>2, SaveEffect, ToType
  <2>2. [h[w] EXCEPT !.stage = 2] \in Handler
    <3>1. h[w] \in Handler
      BY DEF Typed
    <3> QED BY <3>1 DEF Handler
  <2>3. Append(rows[To(w)], Note(w)) \in Seq(Ids)
    BY <2>1 DEF Typed
  <2> QED BY <1>2, <2>1, <2>2, <2>3, SaveEffect DEF Typed
<1>3. ASSUME NEW w \in Senders, Emit(w)
      PROVE  Typed'
  <2>1. To(w) \in Users /\ Note(w) \in Ids /\ Len(h[w].queue) \in Nat \ {0}
    BY <1>3, EmitEffect, ToType DEF Emitting
  <2>2. Proceeded(h[w]) \in Handler
    <3>1. h[w] \in Handler /\ h[w].queue # <<>>
      BY <1>3, EmitEffect DEF Typed, Emitting, Sending
    <3>2. Tail(h[w].queue) \in Seq(Users)
      BY <3>1 DEF Handler
    <3>3. [h[w] EXCEPT !.queue = Tail(h[w].queue), !.stage = 1] \in Handler
      BY <3>1, <3>2 DEF Handler
    <3>4. ~(h[w].stage < Len(Stages))
      BY <1>3, EmitEffect DEF Emitting, Stages
    <3> QED BY <3>3, <3>4, RestingType DEF Proceeded
  <2>3. clients' \in [Clients -> Client]
    <3>1. \A c \in Clients : [clients[c] EXCEPT !.shown = @ \cup {Note(w)}] \in Client
      BY <2>1 DEF Typed, Client
    <3> QED BY <1>3, <3>1 DEF Typed, Emit
  <2> QED BY <1>3, <2>2, <2>3, EmitEffect DEF Typed
<1>4. ASSUME NEW w \in Senders, Fail(w)
      PROVE  Typed'
  BY <1>4, RestingType DEF Typed, Fail
<1>5. ASSUME NEW c \in Clients, Connect(c)
      PROVE  Typed'
  BY <1>5, FreshType DEF Typed, Connect, Client
<1>6. ASSUME NEW c \in Clients, Disconnect(c)
      PROVE  Typed'
  <2>1. [clients[c] EXCEPT !.connected = FALSE] \in Client
    BY DisconnectedType
  <2> QED BY <1>6, <2>1 DEF Typed, Disconnect
<1>7. ASSUME NEW c \in Clients, LoadPage(c)
      PROVE  Typed'
  <2>1. clients[c].page + 1 \in Nat /\ UserOf[c] \in Users
    BY Inputs DEF Typed, Client
  <2>2. Page(UserOf[c], clients[c].page + 1) \subseteq Ids /\ Saved(UserOf[c]) \subseteq Ids
    BY <2>1, PageType, SavedType
  <2> QED BY <1>7, <2>1, <2>2 DEF Typed, LoadPage, Client
<1>8. ASSUME NEW c \in Clients, CountRows(c)
      PROVE  Typed'
  <2>1. (clients[c].page < TotalPages(Len(rows[UserOf[c]]))) \in BOOLEAN
    OBVIOUS
  <2> QED BY <1>8, <2>1 DEF Typed, CountRows, Client
<1>9. ASSUME Crash
      PROVE  Typed'
  BY <1>9, RestingType, DisconnectedType DEF Typed, Crash
<1>10. CASE UNCHANGED vars
  BY <1>10 DEF Typed, vars
<1> QED BY <1>1, <1>2, <1>3, <1>4, <1>5, <1>6, <1>7, <1>8, <1>9, <1>10 DEF Next

LEMMA SendersAtWorkStep ==
    ASSUME Typed, SendersAtWork, [Next]_vars
    PROVE  SendersAtWork'
<1>1. ASSUME NEW w \in Senders, NEW event \in OrderEvents \cup StatusEvents \cup AdminEvents,
             Notify(w, event)
      PROVE  SendersAtWork'
  BY <1>1, EventType DEF Typed, SendersAtWork, Sending, Notify, Handler
<1>2. ASSUME NEW w \in Senders, Save(w)
      PROVE  SendersAtWork'
  <2>1. /\ h'[w].queue = h[w].queue /\ h'[w].note = h[w].note /\ h'[w].stage = 2
        /\ \A v \in Senders \ {w} : h'[v] = h[v]
        /\ notes' = notes
    BY <1>2, SaveEffect DEF Typed, Handler
  <2>2. Sending(w) /\ (\A v \in Senders : Sending(v)' <=> Sending(v))
    BY <1>2, <2>1, SaveEffect DEF Sending
  <2> QED BY <2>1, <2>2 DEF SendersAtWork
<1>3. ASSUME NEW w \in Senders, Emit(w)
      PROVE  SendersAtWork'
  <2>1. h[w].queue \in Seq(Users) /\ h[w].queue # <<>>
    BY <1>3, EmitEffect DEF Typed, Emitting, Sending, Handler
  <2>2. h' = [h EXCEPT ![w] = Proceeded(h[w])] /\ h[w].stage = 2 /\ notes' = notes
    BY <1>3, EmitEffect DEF Emitting
  <2>3. /\ \A v \in Senders \ {w} : h'[v] = h[v]
        /\ \/ h'[w] = Resting
           \/ Len(h[w].queue) # 1 /\ h'[w] = [h[w] EXCEPT !.queue = Tail(h[w].queue), !.stage = 1]
    BY <2>2 DEF Typed, Proceeded, Stages
  <2>4. CASE h'[w] = Resting
    BY <2>2, <2>3, <2>4 DEF SendersAtWork, Sending, Resting
  <2>5. CASE /\ Len(h[w].queue) # 1
             /\ h'[w] = [h[w] EXCEPT !.queue = Tail(h[w].queue), !.stage = 1]
    <3>1. Tail(h[w].queue) # <<>>
      BY <2>1, <2>5, TailType
    <3>2. h[w] \in Handler
      BY DEF Typed
    <3>3. h'[w].queue = Tail(h[w].queue) /\ h'[w].stage = 1 /\ h'[w].note = h[w].note
      BY <2>5, <3>2 DEF Handler
    <3>4. Sending(w) /\ (\A v \in Senders : Sending(v)' <=> Sending(v))
      BY <2>1, <2>3, <3>1, <3>3 DEF Sending
    <3>5. \A v \in Senders : h'[v].note = h[v].note /\ (v # w => h'[v] = h[v])
      BY <2>3, <3>3
    <3> QED BY <2>2, <3>3, <3>4, <3>5 DEF SendersAtWork
  <2> QED BY <2>3, <2>4, <2>5
<1>4. ASSUME NEW w \in Senders, Fail(w)
      PROVE  SendersAtWork'
  BY <1>4 DEF Typed, SendersAtWork, Sending, Fail, Resting
<1>5. ASSUME Crash
      PROVE  SendersAtWork'
  BY <1>5 DEF Typed, SendersAtWork, Sending, Crash, Resting
<1>6. CASE UNCHANGED <<h, notes>>
  BY <1>6 DEF SendersAtWork, Sending
<1> QED BY <1>1, <1>2, <1>3, <1>4, <1>5, <1>6
        DEF Next, vars, Connect, Disconnect, LoadPage, CountRows

LEMMA SavedAfterSave ==
    ASSUME Typed, SendersAtWork, NEW w \in Senders, Save(w)
    PROVE  \A u \in Users :
              Saved(u)' = IF u = To(w) THEN Saved(u) \cup {Note(w)} ELSE Saved(u)
<1>1. Sending(w) /\ rows' = [rows EXCEPT ![To(w)] = Append(rows[To(w)], Note(w))]
  BY SaveEffect
<1>2. To(w) \in Users /\ Note(w) \in Ids
  BY <1>1, ToType
<1>3. rows[To(w)] \in Seq(Ids)
  BY <1>2 DEF Typed
<1>4. ToSet(Append(rows[To(w)], Note(w))) = ToSet(rows[To(w)]) \cup {Note(w)}
  BY <1>2, <1>3, ToSetAppend
<1>5. /\ rows'[To(w)] = Append(rows[To(w)], Note(w))
      /\ \A u \in Users : u # To(w) => rows'[u] = rows[u]
  BY <1>1, <1>2 DEF Typed
<1>6. ToSet(rows'[To(w)]) = ToSet(rows[To(w)]) \cup {Note(w)}
  BY <1>4, <1>5
<1> QED BY <1>5, <1>6 DEF Saved

LEMMA NotSavedYet ==
    ASSUME Typed, SendersAtWork, IdsUnique, NEW w \in Senders, Sending(w), h[w].stage = 1
    PROVE  Note(w) \notin Saved(To(w))
<1>1. To(w) \in Users /\ Len(h[w].queue) \in Nat \ {0}
  BY ToType
<1> QED BY <1>1 DEF IdsUnique, Note, Emitting

LEMMA IdsUniqueStep ==
    ASSUME Typed, SendersAtWork, IdsUnique, [Next]_vars, Typed', SendersAtWork'
    PROVE  IdsUnique'
<1>1. ASSUME NEW w \in Senders, NEW event \in OrderEvents \cup StatusEvents \cup AdminEvents,
             Notify(w, event)
      PROVE  IdsUnique'
  <2>1. /\ notes' = notes + 1 /\ notes \in Nat
        /\ h'[w].note = notes + 1 /\ h'[w].stage = 1
        /\ \A v \in Senders : v # w => h'[v] = h[v]
        /\ \A u \in Users : Saved(u)' = Saved(u)
    BY <1>1 DEF Notify, Typed, Saved
  <2>2. ASSUME NEW u \in Users, NEW n \in Nat, NEW k \in Nat \ {0}, (Id(u, n, k) \in Saved(u))'
        PROVE  n <= notes
    BY <2>1, <2>2 DEF IdsUnique, Id
  <2>3. ASSUME NEW v \in Senders, NEW u \in Users, NEW k \in Nat \ {0}, Sending(v)',
               k <= Len(h'[v].queue), (Id(u, h[v].note, k) \in Saved(u))'
        PROVE  v # w /\ Emitting(v)' /\ k = Len(h'[v].queue)
    <3>1. v # w
      <4>1. h'[v].note \in Nat
        BY <2>3 DEF Typed, Handler
      <4>2. h'[v].note <= notes
        BY <2>2, <2>3, <4>1
      <4> QED BY <2>1, <4>2
    <3> QED BY <2>1, <2>3, <3>1 DEF IdsUnique, Sending, Emitting, Id
  <2>4. ASSUME NEW v \in Senders, Emitting(v)'
        PROVE  (Note(v) \in Saved(To(v)))'
    <3>1. v # w
      BY <2>1, <2>4 DEF Emitting
    <3>2. Emitting(v) /\ To(v)' = To(v) /\ Note(v)' = Note(v)
      BY <2>1, <2>4, <3>1 DEF Emitting, Sending, To, Note, Id
    <3>3. To(v) \in Users
      BY <3>2, ToType DEF Emitting
    <3> QED BY <2>1, <3>2, <3>3 DEF IdsUnique
  <2> QED BY <2>1, <2>2, <2>3, <2>4 DEF IdsUnique
<1>2. ASSUME NEW w \in Senders, Save(w)
      PROVE  IdsUnique'
  <2>1. /\ Sending(w) /\ h[w].stage = 1
        /\ h' = [h EXCEPT ![w] = [h[w] EXCEPT !.stage = 2]]
        /\ notes' = notes
    BY <1>2, SaveEffect
  <2>2. h[w] \in Handler /\ h[w].note \in 1 .. notes
    BY <2>1 DEF Typed, SendersAtWork
  <2>3. /\ h'[w].queue = h[w].queue /\ h'[w].note = h[w].note /\ h'[w].stage = 2
        /\ \A v \in Senders : v # w => h'[v] = h[v]
    BY <2>1, <2>2 DEF Typed, Handler
  <2>4. \A v \in Senders : (Sending(v)' <=> Sending(v)) /\ To(v)' = To(v) /\ Note(v)' = Note(v)
                           /\ (v # w => (Emitting(v)' <=> Emitting(v)))
    BY <2>3 DEF Sending, Emitting, To, Note, Id
  <2>5. Emitting(w)'
    BY <2>1, <2>3, <2>4 DEF Emitting
  <2>6. \A u \in Users :
           Saved(u)' = IF u = To(w) THEN Saved(u) \cup {Note(w)} ELSE Saved(u)
    BY <1>2, SavedAfterSave
  <2>7. To(w) \in Users /\ Len(h[w].queue) \in Nat \ {0}
    BY <2>1, ToType
  <2>8. ASSUME NEW u \in Users, NEW n \in Nat, NEW k \in Nat \ {0}, (Id(u, n, k) \in Saved(u))'
        PROVE  Id(u, n, k) \in Saved(u) \/ (n = h[w].note /\ k = Len(h[w].queue))
    BY <2>6, <2>8 DEF Id, Note
  <2>9. ASSUME NEW u \in Users, NEW n \in Nat, NEW k \in Nat \ {0}, (Id(u, n, k) \in Saved(u))'
        PROVE  n <= notes'
    BY <2>1, <2>2, <2>8, <2>9 DEF IdsUnique, Id
  <2>10. ASSUME NEW v \in Senders, NEW u \in Users, NEW k \in Nat \ {0}, Sending(v)',
               k <= Len(h'[v].queue), (Id(u, h[v].note, k) \in Saved(u))'
        PROVE  Emitting(v)' /\ k = Len(h'[v].queue)
    <3>1. h'[v].note = h[v].note /\ h'[v].queue = h[v].queue /\ h[v].note \in Nat
      BY <2>3 DEF Typed, Handler
    <3>2. CASE Id(u, h[v].note, k) \in Saved(u)
      <4>1. Emitting(v) /\ k = Len(h[v].queue)
        BY <2>4, <2>10, <3>1, <3>2 DEF IdsUnique
      <4> QED BY <2>4, <2>5, <3>1, <4>1
    <3>3. CASE h[v].note = h[w].note /\ k = Len(h[w].queue)
      <4>1. v = w
        BY <2>1, <2>4, <2>10, <3>3 DEF SendersAtWork
      <4> QED BY <2>5, <3>1, <3>3, <4>1
    <3>4. Id(u, h[v].note, k) \in Saved(u)'
      BY <2>10, <3>1 DEF Id
    <3> QED BY <2>8, <3>1, <3>2, <3>3, <3>4 DEF Id
  <2>11. ASSUME NEW v \in Senders, Emitting(v)'
         PROVE  (Note(v) \in Saved(To(v)))'
    <3>1. To(v) \in Users
      BY <2>4, <2>11, ToType DEF Emitting
    <3>2. Note(v) \in Saved(To(v)) \/ v = w
      BY <2>4, <2>11 DEF IdsUnique
    <3>3. \A u \in Users : u = To(v) => Note(v) \in Saved(u)'
      BY <2>4, <2>6, <3>2
    <3>4. To(v) = To(v)' /\ Note(v) = Note(v)'
      BY <2>4
    <3> QED BY <3>1, <3>3, <3>4 DEF Saved
  <2> QED BY <2>9, <2>10, <2>11 DEF IdsUnique
<1>3. ASSUME NEW w \in Senders, Emit(w)
      PROVE  IdsUnique'
  <2>1. /\ Emitting(w) /\ h' = [h EXCEPT ![w] = Proceeded(h[w])]
        /\ UNCHANGED <<rows, notes>>
    BY <1>3, EmitEffect
  <2>2. h[w] \in Handler /\ h[w].queue # <<>> /\ h[w].stage = 2
    BY <2>1 DEF Typed, Emitting, Sending
  <2>3. /\ \A v \in Senders : v # w => h'[v] = h[v]
        /\ \/ h'[w] = Resting
           \/ h'[w] = [h[w] EXCEPT !.queue = Tail(h[w].queue), !.stage = 1]
    BY <2>1, <2>2 DEF Typed, Proceeded, Stages
  <2>4. \A v \in Senders : v # w =>
           /\ Sending(v)' <=> Sending(v)
           /\ Emitting(v)' <=> Emitting(v)
           /\ To(v)' = To(v) /\ Note(v)' = Note(v)
    BY <2>3 DEF Sending, Emitting, To, Note, Id
  <2>5. ~Emitting(w)'
    <3>1. h'[w] = Resting \/ h'[w].stage = 1
      BY <2>2, <2>3 DEF Handler
    <3> QED BY <3>1 DEF Emitting, Sending, Resting
  <2>6. \A u \in Users : Saved(u)' = Saved(u)
    BY <2>1 DEF Saved
  <2>7. ASSUME NEW u \in Users, NEW k \in Nat \ {0}, Sending(w)',
               k <= Len(h'[w].queue), (Id(u, h[w].note, k) \in Saved(u))'
        PROVE  FALSE
    <3>1. h'[w] = [h[w] EXCEPT !.queue = Tail(h[w].queue), !.stage = 1]
      BY <2>3, <2>7 DEF Sending, Resting
    <3>2. h'[w].queue = Tail(h[w].queue) /\ h'[w].note = h[w].note
      BY <2>2, <3>1 DEF Handler
    <3>3. h[w].queue \in Seq(Users)
      BY <2>2 DEF Handler
    <3>4. Len(h'[w].queue) = Len(h[w].queue) - 1 /\ Len(h[w].queue) \in Nat
      BY <2>2, <3>2, <3>3, TailType
    <3>5. Id(u, h[w].note, k) \in Saved(u)
      BY <2>6, <2>7, <3>2 DEF Id
    <3>6. k <= Len(h[w].queue) /\ Sending(w)
      BY <2>1, <2>7, <3>4 DEF Emitting
    <3>7. k = Len(h[w].queue)
      BY <3>5, <3>6 DEF IdsUnique
    <3> QED BY <2>7, <3>4, <3>7
  <2>8. ASSUME NEW v \in Senders, NEW u \in Users, NEW k \in Nat \ {0}, Sending(v)',
               k <= Len(h'[v].queue), (Id(u, h[v].note, k) \in Saved(u))'
        PROVE  Emitting(v)' /\ k = Len(h'[v].queue)
    BY <2>3, <2>4, <2>6, <2>7, <2>8 DEF IdsUnique, Id
  <2>9. ASSUME NEW v \in Senders, Emitting(v)'
        PROVE  (Note(v) \in Saved(To(v)))'
    <3>1. v # w
      BY <2>5, <2>9
    <3>2. To(v) \in Users
      BY <2>4, <2>9, <3>1, ToType DEF Emitting
    <3> QED BY <2>4, <2>6, <2>9, <3>1, <3>2 DEF IdsUnique
  <2>10. \A u \in Users, n \in Nat, k \in Nat \ {0} : (Id(u, n, k) \in Saved(u))' => n <= notes'
    BY <2>1, <2>6 DEF IdsUnique, Id
  <2> QED BY <2>8, <2>9, <2>10 DEF IdsUnique
<1>4. ASSUME UNCHANGED <<rows, notes>>, \A v \in Senders : h'[v] = h[v] \/ h'[v] = Resting
      PROVE  IdsUnique'
  <2>1. \A u \in Users : Saved(u)' = Saved(u)
    BY <1>4 DEF Saved
  <2>2. ASSUME NEW v \in Senders, Sending(v)'
        PROVE  /\ Sending(v) /\ h'[v] = h[v]
               /\ Emitting(v)' <=> Emitting(v)
               /\ To(v)' = To(v) /\ Note(v)' = Note(v)
    BY <1>4, <2>2 DEF Sending, Emitting, To, Note, Id, Resting
  <2>3. ASSUME NEW v \in Senders, Emitting(v)'
        PROVE  (Note(v) \in Saved(To(v)))'
    <3>1. Sending(v)'
      BY <2>3 DEF Emitting
    <3>2. To(v) \in Users
      BY <2>2, <3>1, ToType
    <3> QED BY <2>1, <2>2, <2>3, <3>1, <3>2 DEF IdsUnique
  <2>4. \A u \in Users, n \in Nat, k \in Nat \ {0} : (Id(u, n, k) \in Saved(u))' => n <= notes'
    BY <1>4, <2>1 DEF IdsUnique, Id
  <2>5. ASSUME NEW v \in Senders, NEW u \in Users, NEW k \in Nat \ {0}, Sending(v)',
               k <= Len(h'[v].queue), (Id(u, h[v].note, k) \in Saved(u))'
        PROVE  Emitting(v)' /\ k = Len(h'[v].queue)
    BY <2>1, <2>2, <2>5 DEF IdsUnique, Id
  <2> QED BY <2>3, <2>4, <2>5 DEF IdsUnique
<1>5. ASSUME NEW w \in Senders, Fail(w)
      PROVE  IdsUnique'
  BY <1>4, <1>5 DEF Fail, Typed
<1>6. ASSUME Crash
      PROVE  IdsUnique'
  BY <1>4, <1>6 DEF Crash
<1>7. CASE UNCHANGED <<rows, h, notes>>
  BY <1>4, <1>7
<1> QED BY <1>1, <1>2, <1>3, <1>5, <1>6, <1>7
        DEF Next, vars, Connect, Disconnect, LoadPage, CountRows

-----------------------------------------------------------------------------
(* What is about to be pushed, and what a user has received.               *)

LEMMA UnderwayIs ==
    ASSUME Typed, SendersAtWork, NEW u
    PROVE  Underway(u) = {Note(w) : w \in {v \in Senders : Emitting(v) /\ To(v) = u}}
  BY StageAt DEF Underway

LEMMA UnderwayIsNext ==
    ASSUME Typed', SendersAtWork', NEW u
    PROVE  Underway(u)' = {Note(w)' : w \in {v \in Senders : Emitting(v)' /\ To(v)' = u}}
<1>1. \A w \in Senders : At(w, "emit")' <=> Emitting(w)'
  BY DEF Typed, SendersAtWork, At, Stages, Sending, Emitting, Handler
<1> QED BY <1>1 DEF Underway

\* Two senders push different rows.
LEMMA NotesDistinct ==
    ASSUME SendersAtWork, NEW v \in Senders, NEW w \in Senders, v # w, Sending(v), Sending(w)
    PROVE  Note(v) # Note(w)
  BY DEF SendersAtWork, Note, Id

\* A row that is saved is about to be pushed, and not received yet.
LEMMA SaveUnderway ==
    ASSUME IInv, Typed', SendersAtWork', NEW w \in Senders, Save(w), NEW u \in Users
    PROVE  /\ Underway(u)' = IF u = To(w) THEN Underway(u) \cup {Note(w)} ELSE Underway(u)
           /\ Inbox(u)' = Inbox(u)
<1> USE DEF IInv
<1>1. /\ Sending(w) /\ h[w].stage = 1
      /\ h' = [h EXCEPT ![w] = [h[w] EXCEPT !.stage = 2]]
  BY SaveEffect
<1>2. h[w] \in Handler
  BY DEF Typed
<1>3. /\ h'[w].queue = h[w].queue /\ h'[w].note = h[w].note /\ h'[w].stage = 2
      /\ \A v \in Senders : v # w => h'[v] = h[v]
  BY <1>1, <1>2 DEF Typed, Handler
<1>4. \A v \in Senders : /\ Emitting(v)' <=> Emitting(v) \/ v = w
                         /\ To(v)' = To(v) /\ Note(v)' = Note(v)
  BY <1>1, <1>3 DEF Sending, Emitting, To, Note, Id
<1>5. Underway(u)' = {Note(v)' : v \in {x \in Senders : Emitting(x)' /\ To(x)' = u}}
  BY UnderwayIsNext
<1>6. Underway(u) = {Note(v) : v \in {x \in Senders : Emitting(x) /\ To(x) = u}}
  BY UnderwayIs
<1>7. Underway(u)' = IF u = To(w) THEN Underway(u) \cup {Note(w)} ELSE Underway(u)
  BY <1>4, <1>5, <1>6
<1>8. Note(w) \notin Saved(To(w))
  BY <1>1, NotSavedYet
<1>9. Saved(u)' = IF u = To(w) THEN Saved(u) \cup {Note(w)} ELSE Saved(u)
  BY SavedAfterSave
<1> QED BY <1>7, <1>8, <1>9 DEF Inbox

\* The row that is pushed is received.
LEMMA EmitUnderway ==
    ASSUME IInv, Typed', SendersAtWork', NEW w \in Senders, Emit(w), NEW u \in Users
    PROVE  /\ Underway(u)' = IF u = To(w) THEN Underway(u) \ {Note(w)} ELSE Underway(u)
           /\ Inbox(u)' = IF u = To(w) THEN Inbox(u) \cup {Note(w)} ELSE Inbox(u)
           /\ Note(w) \notin Inbox(To(w))
<1> USE DEF IInv
<1>1. /\ Emitting(w) /\ h' = [h EXCEPT ![w] = Proceeded(h[w])] /\ rows' = rows
  BY EmitEffect
<1>2. h[w] \in Handler /\ h[w].stage = 2
  BY <1>1 DEF Typed, Emitting
<1>3. /\ \A v \in Senders : v # w => h'[v] = h[v]
      /\ \/ h'[w] = Resting
         \/ h'[w] = [h[w] EXCEPT !.queue = Tail(h[w].queue), !.stage = 1]
  BY <1>1, <1>2 DEF Typed, Proceeded, Stages
<1>4. ~Emitting(w)'
  <2>1. h'[w] = Resting \/ h'[w].stage = 1
    BY <1>2, <1>3 DEF Handler
  <2> QED BY <2>1 DEF Emitting, Sending, Resting
<1>5. \A v \in Senders : v # w => /\ Emitting(v)' <=> Emitting(v)
                                  /\ To(v)' = To(v) /\ Note(v)' = Note(v)
  BY <1>3 DEF Sending, Emitting, To, Note, Id
<1>6. \A v \in Senders : v # w /\ Emitting(v) => Note(v) # Note(w)
  BY <1>1, NotesDistinct DEF Emitting
<1>7. Underway(u)' = {Note(v)' : v \in {x \in Senders : Emitting(x)' /\ To(x)' = u}}
  BY UnderwayIsNext
<1>8. Underway(u) = {Note(v) : v \in {x \in Senders : Emitting(x) /\ To(x) = u}}
  BY UnderwayIs
<1>9. Underway(u)' = IF u = To(w) THEN Underway(u) \ {Note(w)} ELSE Underway(u)
  BY <1>1, <1>4, <1>5, <1>6, <1>7, <1>8
<1>10. Note(w) \in Saved(To(w)) /\ Note(w) \in Underway(To(w))
  BY <1>1, UnderwayIs DEF IdsUnique
<1>11. Saved(u)' = Saved(u)
  BY <1>1 DEF Saved
<1> QED BY <1>9, <1>10, <1>11 DEF Inbox

\* A handler that begins or fails changes nothing there.
LEMMA OthersUnderway ==
    ASSUME Typed, SendersAtWork, Typed', SendersAtWork', NEW u \in Users, rows' = rows,
           \/ h' = h
           \/ \E w \in Senders : /\ h[w] = Resting \/ h[w].stage = 1
                                 /\ h'[w] = Resting \/ h'[w].stage = 1
                                 /\ \A v \in Senders : v # w => h'[v] = h[v]
    PROVE  Underway(u)' = Underway(u) /\ Inbox(u)' = Inbox(u)
<1>1. \A v \in Senders : /\ Emitting(v)' <=> Emitting(v)
                         /\ Emitting(v) => To(v)' = To(v) /\ Note(v)' = Note(v)
  BY DEF Sending, Emitting, To, Note, Id, Resting
<1>2. Underway(u)' = {Note(v)' : v \in {x \in Senders : Emitting(x)' /\ To(x)' = u}}
  BY UnderwayIsNext
<1>3. Underway(u) = {Note(v) : v \in {x \in Senders : Emitting(x) /\ To(x) = u}}
  BY UnderwayIs
<1>4. Underway(u)' = Underway(u)
  BY <1>1, <1>2, <1>3
<1> QED BY <1>4 DEF Inbox, Saved

\* When the process comes up again every row it saved is received.
LEMMA CrashUnderway ==
    ASSUME Typed, SendersAtWork, Typed', SendersAtWork', Crash, NEW u \in Users
    PROVE  Underway(u)' = {} /\ Inbox(u)' = Saved(u) /\ Inbox(u) \subseteq Saved(u)
<1>1. \A v \in Senders : ~Emitting(v)'
  BY DEF Crash, Emitting, Sending, Resting
<1>2. Underway(u)' = {Note(v)' : v \in {x \in Senders : Emitting(x)' /\ To(x)' = u}}
  BY UnderwayIsNext
<1>3. Saved(u)' = Saved(u)
  BY DEF Crash, Saved
<1> QED BY <1>1, <1>2, <1>3 DEF Inbox

-----------------------------------------------------------------------------
(* What a client shows.                                                    *)

\* A page that is not the last but covers what is left of the rows.
LEMMA PagesCover ==
    ASSUME NEW p \in Nat, NEW total \in Nat, ~(p < TotalPages(total))
    PROVE  total <= p * Limit
<1> DEFINE q == (total + Limit - 1) \div Limit
<1>1. Limit \in Nat /\ Limit > 0
  BY Inputs
<1>2. total + Limit - 1 \in Nat
  BY <1>1
<1>3. q \in Nat /\ total + Limit - 1 < (q + 1) * Limit
  BY <1>1, <1>2
<1>4. p >= q
  BY <1>3 DEF TotalPages
<1> HIDE DEF q
<1>5. (p - q) * Limit >= 0 /\ (p - q) * Limit = p * Limit - q * Limit
  BY <1>1, <1>3, <1>4
<1>6. (q + 1) * Limit = q * Limit + Limit
  BY <1>1, <1>3
<1>7. p * Limit \in Nat /\ q * Limit \in Nat
  BY <1>1, <1>3
<1> QED BY <1>1, <1>3, <1>5, <1>6, <1>7

\* The arithmetic of a page: its bounds.
LEMMA PageBounds ==
    ASSUME NEW p \in Nat, NEW total \in Nat, NEW i \in Nat,
           i > total - (p + 1) * Limit, i <= total - p * Limit
    PROVE  i <= total - ((p + 1) - 1) * Limit /\ i + Limit > total - ((p + 1) - 1) * Limit
<1>1. Limit \in Nat
  BY Inputs
<1>2. (p + 1) * Limit = p * Limit + Limit /\ p * Limit \in Nat /\ (p + 1) - 1 = p
  BY <1>1
<1> QED BY <1>1, <1>2

\* The rows that come within reach when a page is loaded are on that page.
LEMMA PageReaches ==
    ASSUME Typed, NEW c \in Clients, NEW i \in DOMAIN rows[UserOf[c]],
           i > Len(rows[UserOf[c]]) - (clients[c].page + 1) * Limit
    PROVE  Within(c, i) \/ rows[UserOf[c]][i] \in Page(UserOf[c], clients[c].page + 1)
<1>1. UserOf[c] \in Users /\ Limit \in Nat
  BY Inputs
<1>2. clients[c].page \in Nat
  BY DEF Typed, Client
<1>3. Len(rows[UserOf[c]]) \in Nat /\ i \in Nat
  BY <1>1 DEF Typed
<1>4. clients[c].page * Limit \in Nat
  BY <1>1, <1>2
<1>5. CASE i > Len(rows[UserOf[c]]) - clients[c].page * Limit
  BY <1>5 DEF Within
<1>6. CASE i <= Len(rows[UserOf[c]]) - clients[c].page * Limit
  BY <1>2, <1>3, <1>6, PageBounds DEF Page
<1> QED BY <1>3, <1>4, <1>5, <1>6

\* A step that changes no row and takes nothing from what a client shows.
LEMMA ShownStays ==
    ASSUME NEW c \in Clients, ShownTo(c), rows' = rows,
           clients'[c].page = clients[c].page,
           clients[c].shown \subseteq clients'[c].shown,
           before'[c] = before[c],
           clients'[c].connected =>
              /\ clients[c].connected
              /\ Underway(UserOf[c]) \subseteq Underway(UserOf[c])' \cup clients'[c].shown
    PROVE  ShownTo(c)'
  BY DEF ShownTo, Within

LEMMA PagesShownStep ==
    ASSUME IInv, [Next]_vars, Typed', SendersAtWork'
    PROVE  PagesShown'
<1> USE DEF IInv
<1>1. ASSUME NEW w \in Senders, NEW event \in OrderEvents \cup StatusEvents \cup AdminEvents,
             Notify(w, event)
      PROVE  PagesShown'
  <2>1. /\ rows' = rows /\ clients' = clients /\ before' = before
        /\ h[w] = Resting /\ h'[w].stage = 1 /\ \A v \in Senders : v # w => h'[v] = h[v]
    BY <1>1 DEF Notify, Typed
  <2>2. \A u \in Users : Underway(u)' = Underway(u)
    BY <2>1, OthersUnderway
  <2> QED BY <2>1, <2>2, ShownStays, Inputs DEF PagesShown
<1>2. ASSUME NEW w \in Senders, Fail(w)
      PROVE  PagesShown'
  <2>1. /\ rows' = rows /\ clients' = clients /\ before' = before
        /\ h[w].stage = 1 /\ h'[w] = Resting /\ \A v \in Senders : v # w => h'[v] = h[v]
    BY <1>2, StageAt DEF Fail, Typed
  <2>2. \A u \in Users : Underway(u)' = Underway(u)
    BY <2>1, OthersUnderway
  <2> QED BY <2>1, <2>2, ShownStays, Inputs DEF PagesShown
<1>3. ASSUME NEW w \in Senders, Emit(w)
      PROVE  PagesShown'
  <2>1. rows' = rows /\ before' = before
    BY <1>3 DEF Emit
  <2>2. ASSUME NEW c \in Clients
        PROVE  /\ clients'[c].page = clients[c].page
               /\ clients'[c].connected = clients[c].connected
               /\ clients[c].shown \subseteq clients'[c].shown
               /\ clients[c].connected /\ UserOf[c] = To(w) => Note(w) \in clients'[c].shown
    BY <1>3 DEF Emit, Typed, Client
  <2>3. \A u \in Users :
            Underway(u)' = IF u = To(w) THEN Underway(u) \ {Note(w)} ELSE Underway(u)
    BY <1>3, EmitUnderway
  <2>4. ASSUME NEW c \in Clients
        PROVE  clients'[c].connected =>
                 /\ clients[c].connected
                 /\ Underway(UserOf[c]) \subseteq Underway(UserOf[c])' \cup clients'[c].shown
    BY <2>2, <2>3, Inputs
  <2> QED BY <2>1, <2>2, <2>4, ShownStays DEF PagesShown
<1>4. ASSUME NEW w \in Senders, Save(w), NEW c \in Clients
      PROVE  ShownTo(c)'
  <2>1. /\ rows' = [rows EXCEPT ![To(w)] = Append(rows[To(w)], Note(w))]
        /\ clients' = clients /\ before' = before /\ Sending(w) /\ h[w].stage = 1
    BY <1>4, SaveEffect
  <2>2. To(w) \in Users /\ Note(w) \in Ids /\ UserOf[c] \in Users
    BY <2>1, ToType, Inputs
  <2>3. Underway(UserOf[c])' = IF UserOf[c] = To(w) THEN Underway(UserOf[c]) \cup {Note(w)}
                                                    ELSE Underway(UserOf[c])
    BY <1>4, <2>2, SaveUnderway
  <2>4. CASE UserOf[c] # To(w)
    <3>1. rows'[UserOf[c]] = rows[UserOf[c]]
      BY <2>1, <2>2, <2>4 DEF Typed
    <3> QED BY <2>1, <2>3, <2>4, <3>1 DEF PagesShown, ShownTo, Within
  <2>5. CASE UserOf[c] = To(w)
    <3> DEFINE old == rows[UserOf[c]]
    <3>1. old \in Seq(Ids) /\ rows'[UserOf[c]] = Append(old, Note(w))
      BY <2>1, <2>2, <2>5 DEF Typed
    <3>2. Len(old) \in Nat /\ Len(rows'[UserOf[c]]) = Len(old) + 1
      BY <2>2, <3>1
    <3>3. clients[c].page * Limit \in Nat
      BY Inputs DEF Typed, Client
    <3>4. Note(w) \notin before[c]
      BY <2>1, <2>5, NotSavedYet DEF BeforeSaved
    <3>5. ASSUME NEW i \in DOMAIN old, i > Len(old) + 1 - clients[c].page * Limit
          PROVE  /\ rows'[UserOf[c]][i] = old[i] /\ Within(c, i)
      BY <3>1, <3>2, <3>3, <3>5 DEF Within
    <3>6. \A i \in DOMAIN rows'[UserOf[c]] : i \in DOMAIN old \/ rows'[UserOf[c]][i] = Note(w)
      BY <2>2, <3>1
    <3> HIDE DEF old
    <3>7. \A i \in DOMAIN old : Within(c, i) =>
              /\ old[i] \in before[c] => old[i] \in clients[c].shown
              /\ clients[c].connected /\ old[i] \notin Underway(UserOf[c])
                    => old[i] \in clients[c].shown
      BY DEF PagesShown, ShownTo, old
    <3>8. ASSUME NEW i \in DOMAIN rows'[UserOf[c]],
                 i > Len(rows'[UserOf[c]]) - clients[c].page * Limit
          PROVE  /\ rows'[UserOf[c]][i] \in before[c] => rows'[UserOf[c]][i] \in clients[c].shown
                 /\ clients[c].connected /\ rows'[UserOf[c]][i] \notin Underway(UserOf[c])'
                      => rows'[UserOf[c]][i] \in clients[c].shown
      <4>1. CASE rows'[UserOf[c]][i] = Note(w)
        BY <2>3, <2>5, <3>4, <4>1
      <4>2. CASE i \in DOMAIN old
        <5>1. rows'[UserOf[c]][i] = old[i] /\ Within(c, i)
          <6>1. i > Len(old) + 1 - clients[c].page * Limit
            BY <3>2, <3>3, <3>8
          <6> QED BY <3>5, <4>2, <6>1
        <5> QED BY <2>3, <2>5, <3>7, <4>2, <5>1
      <4> QED BY <3>6, <4>1, <4>2
    <3> QED BY <2>1, <3>8 DEF ShownTo, Within
  <2> QED BY <2>4, <2>5
<1>5. ASSUME NEW c \in Clients, Connect(c)
      PROVE  PagesShown'
  <2>1. /\ clients'[c].page = 0 /\ rows' = rows /\ h' = h
        /\ \A d \in Clients : d # c => clients'[d] = clients[d] /\ before'[d] = before[d]
    BY <1>5 DEF Connect, Fresh, Typed
  <2>2. ShownTo(c)'
    <3>1. Len(rows[UserOf[c]]) \in Nat /\ DOMAIN rows[UserOf[c]] = 1 .. Len(rows[UserOf[c]])
      BY Inputs DEF Typed
    <3>2. 0 * Limit = 0
      BY Inputs
    <3>3. \A i \in DOMAIN rows[UserOf[c]] : ~(i > Len(rows[UserOf[c]]) - 0)
      BY <3>1
    <3> QED BY <2>1, <3>2, <3>3 DEF ShownTo, Within
  <2>3. \A u \in Users : Underway(u)' = Underway(u)
    BY <2>1, OthersUnderway
  <2> QED BY <2>1, <2>2, <2>3, ShownStays, Inputs DEF PagesShown
<1>6. ASSUME NEW c \in Clients, Disconnect(c)
      PROVE  PagesShown'
  <2>1. /\ rows' = rows /\ h' = h /\ before' = before
        /\ \A d \in Clients : /\ clients'[d].page = clients[d].page
                              /\ clients'[d].shown = clients[d].shown
                              /\ clients'[d].connected => clients[d].connected
    BY <1>6 DEF Disconnect, Typed, Client
  <2>2. \A u \in Users : Underway(u)' = Underway(u)
    BY <2>1, OthersUnderway
  <2> QED BY <2>1, <2>2, ShownStays, Inputs DEF PagesShown
<1>7. ASSUME NEW c \in Clients, CountRows(c)
      PROVE  PagesShown'
  <2>1. /\ rows' = rows /\ h' = h /\ before' = before
        /\ \A d \in Clients : /\ clients'[d].page = clients[d].page
                              /\ clients'[d].shown = clients[d].shown
                              /\ clients'[d].connected => clients[d].connected
    BY <1>7 DEF CountRows, Typed, Client
  <2>2. \A u \in Users : Underway(u)' = Underway(u)
    BY <2>1, OthersUnderway
  <2> QED BY <2>1, <2>2, ShownStays, Inputs DEF PagesShown
<1>8. ASSUME NEW c \in Clients, LoadPage(c)
      PROVE  PagesShown'
  <2>1. /\ rows' = rows /\ h' = h
        /\ \A d \in Clients : d # c => clients'[d] = clients[d] /\ before'[d] = before[d]
    BY <1>8 DEF LoadPage, Typed
  <2>2. /\ clients'[c].page = clients[c].page + 1
        /\ clients'[c].shown = clients[c].shown \cup Page(UserOf[c], clients[c].page + 1)
        /\ clients'[c].connected = clients[c].connected
        /\ clients[c].page \in Nat
    BY <1>8 DEF LoadPage, Typed, Client
  <2>3. \A u \in Users : Underway(u)' = Underway(u)
    BY <2>1, OthersUnderway
  <2>4. ASSUME NEW i \in DOMAIN rows[UserOf[c]],
               i > Len(rows[UserOf[c]]) - (clients[c].page + 1) * Limit
        PROVE  Within(c, i) \/ rows[UserOf[c]][i] \in clients'[c].shown
    BY <2>2, <2>4, PageReaches
  <2>5. \A i \in DOMAIN rows[UserOf[c]] : Within(c, i) => before'[c] = before[c]
    <3>1. CASE clients[c].page = 0
      <4>1. Len(rows[UserOf[c]]) \in Nat /\ DOMAIN rows[UserOf[c]] = 1 .. Len(rows[UserOf[c]])
        BY Inputs DEF Typed
      <4>2. Limit \in Nat
        BY Inputs
      <4> QED BY <3>1, <4>1, <4>2 DEF Within
    <3>2. CASE clients[c].page # 0
      BY <1>8, <2>2, <3>2 DEF LoadPage
    <3> QED BY <3>1, <3>2
  <2>6. ShownTo(c)'
    <3>1. UserOf[c] \in Users
      BY Inputs
    <3> QED BY <2>1, <2>2, <2>3, <2>4, <2>5, <3>1 DEF PagesShown, ShownTo, Within
  <2> QED BY <2>1, <2>3, <2>6, ShownStays, Inputs DEF PagesShown
<1>9. ASSUME Crash
      PROVE  PagesShown'
  <2>1. /\ rows' = rows /\ before' = before
        /\ \A d \in Clients : /\ clients'[d].page = clients[d].page
                              /\ clients'[d].shown = clients[d].shown
                              /\ ~clients'[d].connected
    BY <1>9 DEF Crash, Typed, Client
  <2> QED BY <2>1, ShownStays DEF PagesShown
<1>10. CASE UNCHANGED vars
  <2>1. \A u \in Users : Underway(u)' = Underway(u)
    BY <1>10, OthersUnderway DEF vars
  <2> QED BY <1>10, <2>1, ShownStays, Inputs DEF vars, PagesShown
<1> QED BY <1>1, <1>2, <1>3, <1>4, <1>5, <1>6, <1>7, <1>8, <1>9, <1>10 DEF Next, PagesShown

\* Rows stay.
LEMMA SavedGrows ==
    ASSUME Typed, SendersAtWork, [Next]_vars, NEW u \in Users
    PROVE  Saved(u) \subseteq Saved(u)'
<1>1. ASSUME NEW w \in Senders, Save(w)
      PROVE  Saved(u) \subseteq Saved(u)'
  BY <1>1, SavedAfterSave
<1>2. CASE rows' = rows
  BY <1>2 DEF Saved
<1> QED BY <1>1, <1>2 DEF Next, vars, Notify, Emit, Fail, Connect, Disconnect, LoadPage,
                          CountRows, Crash

LEMMA BeforeSavedStep ==
    ASSUME IInv, [Next]_vars
    PROVE  BeforeSaved'
<1> USE DEF IInv
<1> SUFFICES ASSUME NEW c \in Clients
             PROVE  before'[c] \subseteq Saved(UserOf[c])'
  BY DEF BeforeSaved
<1>1. before[c] \subseteq Saved(UserOf[c]) /\ Saved(UserOf[c]) \subseteq Saved(UserOf[c])'
  BY SavedGrows, Inputs DEF BeforeSaved
<1>2. before'[c] \in {before[c], Saved(UserOf[c]), {}}
  <2>1. CASE before' = before
    BY <2>1
  <2>2. ASSUME NEW d \in Clients, Connect(d)
        PROVE  before'[c] \in {before[c], {}}
    BY <2>2 DEF Connect, Typed
  <2>3. ASSUME NEW d \in Clients, LoadPage(d)
        PROVE  before'[c] \in {before[c], Saved(UserOf[c])}
    BY <2>3 DEF LoadPage, Typed
  <2> QED BY <2>1, <2>2, <2>3
          DEF Next, vars, Notify, Save, Emit, Fail, Disconnect, CountRows, Crash
<1> QED BY <1>1, <1>2

\* When a client is told there is no more, it has loaded every row.
LEMMA CountedAll ==
    ASSUME IInv, NEW c \in Clients, CountRows(c), ~clients'[c].more,
           NEW row \in Saved(UserOf[c])
    PROVE  /\ row \in before[c] => row \in clients[c].shown
           /\ clients[c].connected /\ row \notin Underway(UserOf[c])
                => row \in clients[c].shown
<1> USE DEF IInv
<1>1. UserOf[c] \in Users /\ Limit \in Nat
  BY Inputs
<1>2. rows[UserOf[c]] \in Seq(Ids) /\ clients[c].page \in Nat
  BY <1>1 DEF Typed, Client
<1>3. Len(rows[UserOf[c]]) \in Nat
  BY <1>2
<1>4. ~(clients[c].page < TotalPages(Len(rows[UserOf[c]])))
  BY DEF CountRows, Typed, Client
<1>5. Len(rows[UserOf[c]]) <= clients[c].page * Limit
  BY <1>2, <1>3, <1>4, PagesCover
<1>6. clients[c].page * Limit \in Nat
  BY <1>1, <1>2
<1>7. PICK i \in DOMAIN rows[UserOf[c]] : row = rows[UserOf[c]][i]
  BY DEF Saved, ToSet
<1>8. i \in 1 .. Len(rows[UserOf[c]])
  BY <1>2
<1>9. Within(c, i)
  BY <1>3, <1>5, <1>6, <1>8 DEF Within
<1> QED BY <1>7, <1>9 DEF PagesShown, ShownTo

\* A client comes to the end by counting only, and shows no less afterwards.
LEMMA EndReached ==
    ASSUME Typed, [Next]_vars, NEW c \in Clients, AtTheEnd(c)'
    PROVE  /\ clients[c].shown \subseteq clients'[c].shown
           /\ before'[c] = before[c]
           /\ clients'[c].connected => clients[c].connected
           /\ \/ AtTheEnd(c)
              \/ CountRows(c) /\ ~clients'[c].more
<1>1. ASSUME NEW w \in Senders, Emit(w)
      PROVE  /\ clients[c].shown \subseteq clients'[c].shown
             /\ before'[c] = before[c]
             /\ clients'[c].connected => clients[c].connected
             /\ AtTheEnd(c)
  BY <1>1 DEF Emit, Typed, Client, AtTheEnd
<1>2. ASSUME NEW d \in Clients, Connect(d)
      PROVE  clients'[c] = clients[c] /\ before'[c] = before[c]
  BY <1>2 DEF Connect, Typed, Fresh, AtTheEnd
<1>3. ASSUME NEW d \in Clients, Disconnect(d)
      PROVE  /\ clients'[c].shown = clients[c].shown
             /\ before'[c] = before[c]
             /\ clients'[c].connected => clients[c].connected
             /\ AtTheEnd(c)
  BY <1>3 DEF Disconnect, Typed, Client, AtTheEnd
<1>4. ASSUME NEW d \in Clients, LoadPage(d)
      PROVE  clients'[c] = clients[c] /\ before'[c] = before[c]
  BY <1>4 DEF LoadPage, Typed, Client, AtTheEnd
<1>5. ASSUME NEW d \in Clients, CountRows(d)
      PROVE  /\ clients'[c].shown = clients[c].shown
             /\ before'[c] = before[c]
             /\ clients'[c].connected => clients[c].connected
             /\ AtTheEnd(c) \/ (d = c /\ ~clients'[c].more)
  BY <1>5 DEF CountRows, Typed, Client, AtTheEnd
<1>6. ASSUME Crash
      PROVE  /\ clients'[c].shown = clients[c].shown
             /\ before'[c] = before[c]
             /\ ~clients'[c].connected
             /\ AtTheEnd(c)
  BY <1>6 DEF Crash, Typed, Client, AtTheEnd
<1>7. CASE UNCHANGED <<clients, before>>
  BY <1>7 DEF AtTheEnd
<1> QED BY <1>1, <1>2, <1>3, <1>4, <1>5, <1>6, <1>7 DEF Next, vars, Notify, Save, Fail, AtTheEnd

LEMMA ScrollStep ==
    ASSUME IInv, [Next]_vars
    PROVE  ScrollMissesNothing'
<1> USE DEF IInv
<1> SUFFICES ASSUME NEW c \in Clients, AtTheEnd(c)'
             PROVE  before'[c] \subseteq clients'[c].shown
  BY DEF ScrollMissesNothing
<1>1. /\ clients[c].shown \subseteq clients'[c].shown /\ before'[c] = before[c]
      /\ AtTheEnd(c) \/ (CountRows(c) /\ ~clients'[c].more)
  BY EndReached
<1>2. CASE AtTheEnd(c)
  BY <1>1, <1>2 DEF ScrollMissesNothing
<1>3. CASE CountRows(c) /\ ~clients'[c].more
  <2>1. before[c] \subseteq clients[c].shown
    BY <1>3, CountedAll DEF BeforeSaved
  <2> QED BY <1>1, <2>1
<1> QED BY <1>1, <1>2, <1>3

\* What the steps do to inboxes.
LEMMA InboxStep ==
    ASSUME IInv, [Next]_vars, Typed', SendersAtWork', ~Crash, NEW u \in Users
    PROVE  \/ Inbox(u)' = Inbox(u)
           \/ \E w \in Senders : Emit(w) /\ u = To(w) /\ Inbox(u)' = Inbox(u) \cup {Note(w)}
<1> USE DEF IInv
<1>1. ASSUME NEW w \in Senders, NEW event \in OrderEvents \cup StatusEvents \cup AdminEvents,
             Notify(w, event)
      PROVE  Inbox(u)' = Inbox(u)
  <2>1. /\ rows' = rows
        /\ h[w] = Resting /\ h'[w].stage = 1 /\ \A v \in Senders : v # w => h'[v] = h[v]
    BY <1>1 DEF Notify, Typed
  <2> QED BY <2>1, OthersUnderway
<1>2. ASSUME NEW w \in Senders, Fail(w)
      PROVE  Inbox(u)' = Inbox(u)
  <2>1. /\ rows' = rows
        /\ h[w].stage = 1 /\ h'[w] = Resting /\ \A v \in Senders : v # w => h'[v] = h[v]
    BY <1>2, StageAt DEF Fail, Typed
  <2> QED BY <2>1, OthersUnderway
<1>3. ASSUME NEW w \in Senders, Save(w)
      PROVE  Inbox(u)' = Inbox(u)
  BY <1>3, SaveUnderway
<1>4. ASSUME NEW w \in Senders, Emit(w)
      PROVE  \/ Inbox(u)' = Inbox(u)
             \/ u = To(w) /\ Inbox(u)' = Inbox(u) \cup {Note(w)}
  BY <1>4, EmitUnderway
<1>5. CASE UNCHANGED <<rows, h>>
  BY <1>5, OthersUnderway
<1> QED BY <1>1, <1>2, <1>3, <1>4, <1>5
        DEF Next, vars, Connect, Disconnect, LoadPage, CountRows

LEMMA AttendingStep ==
    ASSUME IInv, [Next]_vars, Typed', SendersAtWork'
    PROVE  AttendingShowAll'
<1> USE DEF IInv
<1> SUFFICES ASSUME NEW c \in Clients, clients'[c].connected, AtTheEnd(c)'
             PROVE  Inbox(UserOf[c])' \subseteq clients'[c].shown
  BY DEF AttendingShowAll, Attending
<1>1. /\ clients[c].shown \subseteq clients'[c].shown
      /\ clients[c].connected
      /\ AtTheEnd(c) \/ (CountRows(c) /\ ~clients'[c].more)
  BY EndReached
<1>2. UserOf[c] \in Users
  BY Inputs
<1>3. ~Crash
  BY DEF Crash, Typed, Client
<1>4. CASE AtTheEnd(c)
  <2>1. Inbox(UserOf[c]) \subseteq clients[c].shown
    BY <1>1, <1>4 DEF AttendingShowAll, Attending
  <2>2. ASSUME NEW w \in Senders, Emit(w), UserOf[c] = To(w)
        PROVE  Note(w) \in clients'[c].shown
    BY <1>1, <2>2 DEF Emit, Typed, Client
  <2> QED BY <1>1, <1>2, <1>3, <2>1, <2>2, InboxStep
<1>5. CASE CountRows(c) /\ ~clients'[c].more
  <2>1. Inbox(UserOf[c]) \subseteq clients[c].shown
    BY <1>1, <1>5, CountedAll DEF Inbox
  <2>2. UNCHANGED <<rows, h>>
    BY <1>5 DEF CountRows
  <2>3. Inbox(UserOf[c])' = Inbox(UserOf[c])
    BY <1>2, <2>2, OthersUnderway
  <2> QED BY <1>1, <2>1, <2>3
<1> QED BY <1>1, <1>4, <1>5

-----------------------------------------------------------------------------
(* The invariant.                                                          *)

LEMMA InitIInv == Init => IInv
<1> SUFFICES ASSUME Init
             PROVE  IInv
  OBVIOUS
<1>1. \A u \in Users : Old(u) \in Seq(Ids)
  <2>1. \A u \in Users : Stored[u] \in Nat
    BY Inputs
  <2>2. \A u \in Users : \A i \in 1 .. Stored[u] : Id(u, i, 0) \in Ids
    BY <2>1 DEF Id, Ids
  <2>3. \A u \in Users : Old(u) \in [1 .. Stored[u] -> Ids]
    BY <2>2 DEF Old
  <2> QED BY <2>1, <2>3, SeqDef
<1>2. Typed
  BY <1>1, FreshType, RestingType DEF Init, Typed
<1>3. SendersAtWork
  BY DEF Init, SendersAtWork, Sending, Resting
<1>4. IdsUnique
  <2>1. \A u \in Users, n \in Nat, k \in Nat \ {0} : Id(u, n, k) \notin Saved(u)
    BY DEF Init, Saved, ToSet, Old, Id
  <2> QED BY <2>1 DEF Init, IdsUnique, Emitting, Sending, Resting
<1>5. PagesShown
  <2> SUFFICES ASSUME NEW c \in Clients
               PROVE  ShownTo(c)
    BY DEF PagesShown
  <2>1. Len(rows[UserOf[c]]) \in Nat /\ DOMAIN rows[UserOf[c]] = 1 .. Len(rows[UserOf[c]])
    BY <1>2, Inputs DEF Typed
  <2>2. clients[c].page = 0 /\ 0 * Limit = 0
    BY Inputs DEF Init, Fresh
  <2>3. \A i \in DOMAIN rows[UserOf[c]] : ~(i > Len(rows[UserOf[c]]) - 0)
    BY <2>1
  <2> QED BY <2>2, <2>3 DEF ShownTo, Within
<1>6. BeforeSaved /\ ScrollMissesNothing
  BY DEF Init, BeforeSaved, ScrollMissesNothing
<1>7. AttendingShowAll
  BY DEF Init, AttendingShowAll, Attending, Fresh
<1> QED BY <1>2, <1>3, <1>4, <1>5, <1>6, <1>7 DEF IInv

LEMMA StepIInv == IInv /\ [Next]_vars => IInv'
<1> SUFFICES ASSUME IInv, [Next]_vars
             PROVE  IInv'
  OBVIOUS
<1>1. Typed' /\ SendersAtWork'
  BY TypedStep, SendersAtWorkStep DEF IInv
<1>2. IdsUnique'
  BY <1>1, IdsUniqueStep DEF IInv
<1>3. PagesShown' /\ BeforeSaved' /\ ScrollMissesNothing' /\ AttendingShowAll'
  BY <1>1, PagesShownStep, BeforeSavedStep, ScrollStep, AttendingStep
<1> QED BY <1>1, <1>2, <1>3 DEF IInv

LEMMA Invariant == Spec => []IInv
  BY InitIInv, StepIInv, PTL DEF Spec

\* Whatever arrives while a client scrolls, it has seen at the end every notification
\* that was there when it began (getUserNotifications).
THEOREM NothingMissed == Spec => []ScrollMissesNothing
<1>1. IInv => ScrollMissesNothing
  BY DEF IInv
<1> QED BY <1>1, Invariant, PTL

-----------------------------------------------------------------------------
(* The refinement: a push is the post of the feed, a page count that ends  *)
(* the scrolling is the moment a client attends, a crash is the restart;   *)
(* every other step stutters.                                              *)

Inboxes == [u \in Users |-> Inbox(u)]

View == [c \in Clients |-> IF c \in Attending THEN clients[c].shown \cap Inbox(UserOf[c]) ELSE {}]

\* A client that attends shows its inbox, the whole of it.
LEMMA ViewIs ==
    ASSUME AttendingShowAll
    PROVE  View = [c \in Clients |-> IF c \in Attending THEN Inbox(UserOf[c]) ELSE {}]
  BY DEF View, AttendingShowAll

LEMMA ViewIsNext ==
    ASSUME AttendingShowAll'
    PROVE  View' = [c \in Clients |-> IF c \in Attending' THEN Inbox(UserOf[c])' ELSE {}]
  BY DEF View, AttendingShowAll

LEMMA SavedFinite ==
    ASSUME Typed, NEW u \in Users
    PROVE  IsFiniteSet(Inbox(u))
<1>1. DOMAIN rows[u] = 1 .. Len(rows[u]) /\ Len(rows[u]) \in Nat
  BY DEF Typed
<1>2. IsFiniteSet(DOMAIN rows[u])
  BY <1>1, FS_Interval
<1>3. [i \in DOMAIN rows[u] |-> rows[u][i]] \in Surjection(DOMAIN rows[u], Saved(u))
  BY DEF Surjection, Saved, ToSet
<1>4. IsFiniteSet(Saved(u))
  BY <1>2, <1>3, FS_Surjection
<1> QED BY <1>4, FS_Subset DEF Inbox

LEMMA InitFeed == Init => Promise!Init
<1> SUFFICES ASSUME Init
             PROVE  Promise!Init
  OBVIOUS
<1>1. Typed /\ Attending = {}
  BY InitIInv DEF IInv, Init, Attending, Fresh
<1>2. \A u \in Users : IsFiniteSet(Inbox(u))
  BY <1>1, SavedFinite
<1>3. View = [c \in Clients |-> {}]
  BY <1>1 DEF View
<1>4. \A u \in Users : Promise!IsFiniteSet([v \in Users |-> Inbox(v)][u])
  BY <1>2 DEF IsFiniteSet, Promise!IsFiniteSet
<1> QED BY <1>1, <1>3, <1>4 DEF Promise!Init, View

\* Steps that leave the inboxes and who attends stutter.
LEMMA Stutter ==
    ASSUME AttendingShowAll, AttendingShowAll', Attending' = Attending,
           \A u \in Users : Inbox(u)' = Inbox(u)
    PROVE  UNCHANGED <<Inboxes, Attending, View>>
  BY ViewIs, ViewIsNext, Inputs DEF Inboxes

LEMMA EmitPosts ==
    ASSUME IInv, IInv', NEW w \in Senders, Emit(w), NEW r \in Users, r = To(w)
    PROVE  Promise!Post(r)
<1> USE DEF IInv
<1>1. Note(w) \notin Inbox(To(w))
  BY EmitUnderway
<1>2. \A u \in Users : Inbox(u)' = IF u = r THEN Inbox(u) \cup {Note(w)} ELSE Inbox(u)
  BY EmitUnderway
<1>3. Attending' = Attending
  BY DEF Emit, Typed, Client, Attending, AtTheEnd
<1>4. Inboxes' = [Inboxes EXCEPT ![r] = @ \cup {Note(w)}]
  BY <1>2 DEF Inboxes
<1>5. Inboxes'[r] \ Inboxes[r] = {Note(w)}
  BY <1>1, <1>4 DEF Inboxes
<1>6. View' = [c \in Clients |-> IF c \in Attending /\ UserOf[c] = r THEN View[c] \cup {Note(w)}
                                 ELSE View[c]]
  BY <1>2, <1>3, ViewIs, ViewIsNext, Inputs
<1> QED BY <1>3, <1>4, <1>5, <1>6 DEF Promise!Post, Inboxes, View

LEMMA CountAttends ==
    ASSUME IInv, IInv', NEW c \in Clients, CountRows(c)
    PROVE  Promise!Attend(c) \/ UNCHANGED <<Inboxes, Attending, View>>
<1> USE DEF IInv
<1>1. c \notin Attending /\ (Attending' = Attending \/ Attending' = Attending \cup {c})
  BY DEF CountRows, Typed, Client, Attending, AtTheEnd
<1>2. \A u \in Users : Inbox(u)' = Inbox(u)
  BY OthersUnderway DEF CountRows
<1>3. CASE Attending' = Attending
  BY <1>2, <1>3, Stutter
<1>4. CASE Attending' = Attending \cup {c}
  <2>1. Inboxes' = Inboxes
    BY <1>2 DEF Inboxes
  <2>2. View' = [View EXCEPT ![c] = Inboxes[UserOf[c]]]
    BY <1>2, <1>4, ViewIs, ViewIsNext, Inputs DEF Inboxes
  <2> QED BY <1>1, <1>4, <2>1, <2>2 DEF Promise!Attend, Inboxes, View
<1> QED BY <1>1, <1>3, <1>4

LEMMA DisconnectLeaves ==
    ASSUME IInv, IInv', NEW c \in Clients, Disconnect(c)
    PROVE  Promise!Leave(c) \/ UNCHANGED <<Inboxes, Attending, View>>
<1> USE DEF IInv
<1>1. Attending' = Attending \ {c}
  BY DEF Disconnect, Typed, Client, Attending, AtTheEnd
<1>2. \A u \in Users : Inbox(u)' = Inbox(u)
  BY OthersUnderway DEF Disconnect
<1>3. CASE c \notin Attending
  BY <1>1, <1>2, <1>3, Stutter
<1>4. CASE c \in Attending
  <2>1. Inboxes' = Inboxes
    BY <1>2 DEF Inboxes
  <2>2. View' = [View EXCEPT ![c] = {}]
    BY <1>1, <1>2, ViewIs, ViewIsNext, Inputs
  <2> QED BY <1>1, <1>4, <2>1, <2>2 DEF Promise!Leave, Inboxes, View
<1> QED BY <1>3, <1>4

LEMMA CrashRestarts ==
    ASSUME IInv, IInv', Crash
    PROVE  Promise!Restart
<1> USE DEF IInv
<1>1. \A u \in Users : Inbox(u) \subseteq Inbox(u)'
  BY CrashUnderway
<1>2. Attending' = {}
  BY DEF Crash, Typed, Client, Attending
<1> QED BY <1>1, <1>2 DEF Promise!Restart

LEMMA StepFeed ==
    ASSUME IInv, IInv', [Next]_vars
    PROVE  [Promise!Next]_(Promise!vars)
<1> USE DEF IInv
<1>1. ASSUME NEW w \in Senders, Emit(w)
      PROVE  Promise!Next
  <2>1. To(w) \in Users
    BY <1>1, EmitEffect, ToType DEF Emitting
  <2>2. \A r \in Users : r = To(w) => Promise!Post(r)
    BY <1>1, EmitPosts
  <2>3. \E r \in Users : Promise!Post(r)
    BY <2>1, <2>2
  <2> QED BY <2>3 DEF Promise!Next
<1>2. ASSUME NEW c \in Clients, CountRows(c)
      PROVE  Promise!Next \/ UNCHANGED <<Inboxes, Attending, View>>
  BY <1>2, CountAttends DEF Promise!Next
<1>3. ASSUME NEW c \in Clients, Disconnect(c)
      PROVE  Promise!Next \/ UNCHANGED <<Inboxes, Attending, View>>
  BY <1>3, DisconnectLeaves DEF Promise!Next
<1>4. ASSUME Crash
      PROVE  Promise!Next
  BY <1>4, CrashRestarts DEF Promise!Next
<1>5. ASSUME ~Crash, \A w \in Senders : ~Emit(w), Attending' = Attending
      PROVE  UNCHANGED <<Inboxes, Attending, View>>
  <2>1. \A u \in Users : Inbox(u)' = Inbox(u)
    BY <1>5, InboxStep
  <2> QED BY <1>5, <2>1, Stutter
<1>6. ASSUME clients' = clients
      PROVE  Attending' = Attending
  BY <1>6 DEF Attending, AtTheEnd
<1>7. ASSUME NEW c \in Clients, Connect(c)
      PROVE  Attending' = Attending
  <2>1. ~clients[c].connected /\ clients'[c].more
    BY <1>7 DEF Connect, Fresh, Typed
  <2>2. \A d \in Clients : d # c => clients'[d] = clients[d]
    BY <1>7 DEF Connect, Typed
  <2> QED BY <2>1, <2>2 DEF Attending, AtTheEnd
<1>8. ASSUME NEW c \in Clients, LoadPage(c)
      PROVE  Attending' = Attending
  <2>1. clients[c].more /\ clients'[c].counting
    BY <1>8 DEF LoadPage, Typed, Client
  <2>2. \A d \in Clients : d # c => clients'[d] = clients[d]
    BY <1>8 DEF LoadPage, Typed
  <2> QED BY <2>1, <2>2 DEF Attending, AtTheEnd
<1>9. \/ Crash
      \/ \E w \in Senders : Emit(w)
      \/ \E c \in Clients : CountRows(c) \/ Disconnect(c)
      \/ Attending' = Attending
  BY <1>6, <1>7, <1>8 DEF Next, vars, Notify, Save, Fail
<1>10. Promise!Next \/ UNCHANGED <<Inboxes, Attending, View>>
  BY <1>1, <1>2, <1>3, <1>4, <1>5, <1>9
<1> QED BY <1>10 DEF Promise!vars, Inboxes, View

\* The service implements the feed: a client that is connected and has scrolled to the
\* end shows every notification of its user, and each new one from the moment it is
\* pushed (sendInAppNotification saves before it emits).
THEOREM FeedImplemented == Spec => LosslessFeed
<1>1. IInv /\ IInv' /\ [Next]_vars => [Promise!Next]_(Promise!vars)
  BY StepFeed
<1> QED BY <1>1, InitFeed, Invariant, PTL DEF Spec, LosslessFeed, Promise!Spec
=============================================================================
