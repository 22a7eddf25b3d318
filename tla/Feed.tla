-------------------------------- MODULE Feed --------------------------------
(***************************************************************************)
(* Feed: what the notifications promise.  A client that attends shows the  *)
(* inbox of its user, no less at any moment; a post enters the inbox and   *)
(* what every attending client shows in one step.  Only a restart of the   *)
(* server may post without telling, and then nobody attends any more.      *)
(***************************************************************************)
EXTENDS FiniteSets

CONSTANTS Users, Clients, UserOf

VARIABLES
    inbox,      \* of each user
    attending,  \* clients
    view        \* what each attending client shows

vars == <<inbox, attending, view>>

Init ==
    /\ \A u \in Users : IsFiniteSet(inbox[u])
    /\ attending = {}
    /\ view = [c \in Clients |-> {}]

\* What is new arrives in the inbox and before everybody who attends.
Post(u) ==
    LET new == inbox'[u] \ inbox[u]
    IN  /\ new # {}
        /\ inbox' = [inbox EXCEPT ![u] = @ \cup new]
        /\ view' = [c \in Clients |-> IF c \in attending /\ UserOf[c] = u THEN view[c] \cup new
                                      ELSE view[c]]
        /\ UNCHANGED attending

Attend(c) ==
    /\ c \notin attending
    /\ attending' = attending \cup {c}
    /\ view' = [view EXCEPT ![c] = inbox[UserOf[c]]]
    /\ UNCHANGED inbox

Leave(c) ==
    /\ c \in attending
    /\ attending' = attending \ {c}
    /\ view' = [view EXCEPT ![c] = {}]
    /\ UNCHANGED inbox

Restart ==
    /\ \A u \in Users : inbox[u] \subseteq inbox'[u]
    /\ attending' = {}
    /\ view' = [c \in Clients |-> {}]

Next ==
    \/ \E u \in Users : Post(u)
    \/ \E c \in Clients : Attend(c) \/ Leave(c)
    \/ Restart

Spec == Init /\ [][Next]_vars
=============================================================================
