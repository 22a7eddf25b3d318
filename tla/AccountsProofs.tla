---------------------------- MODULE AccountsProofs ----------------------------
(***************************************************************************)
(* Proofs about the accounts, for every number of users, links, workers    *)
(* and requests, every clock and every lifetime of a token.                *)
(***************************************************************************)
EXTENDS Accounts, TLAPS

Known(u) == users[u] # NoRow \/ u \in gone

(***************************************************************************)
(* What a handler holds.                                                   *)
(***************************************************************************)
Pcs == {"idle", "insert", "unlink", "link", "mark", "compare", "write", "delete",
        "invalidate", "store"}

Handler ==
    [pc : Pcs,
     req : Request \cup {[op |-> "none"]},
     id : Users \cup {NoRow}, row : Row \cup {NoRow},
     cols : SUBSET Columns, diff : SUBSET (Columns \cup {"id"}),
     link : Links \cup {NoLink}, token : Token \cup {NoToken}]

Typed ==
    /\ users \in [Users -> Row \cup {NoRow}]
    /\ links \in [Links -> Link \cup {NoLink}]
    /\ stored \in [Users -> Token \cup {NoToken}]
    /\ cookies \subseteq Token
    /\ access \in [Users -> Time \cup {NoToken}]
    /\ now \in Time
    /\ requests \in 0 .. MaxRequests /\ aborts \in 0 .. MaxAborts
    /\ h \in [Workers -> Handler]
    /\ gone \subseteq Users /\ proved \subseteq Users
    /\ signedOut \subseteq Users
    /\ used \subseteq [token : Token, at : Time]
    /\ overlapped \in BOOLEAN

\* Handlers that hold a token to be given out.
Issuing(x) == x.pc = "store" \/ (x.pc = "invalidate" /\ x.req.op = "refresh")

Saving(x) == x.pc \in {"compare", "write"}

\* A copy carries a password only where the client gave one, and is inserted only
\* if it carries one.
Shape(x) ==
    /\ x.pc = "idle" => x = Resting
    /\ x.pc # "idle" => x.id \in Users
    /\ x.pc = "insert" \/ Saving(x) => x.row \in Row
    /\ Saving(x) /\ "password" \in x.cols =>
          x.req.op \in PasswordOps /\ x.row.password = x.req.password
    /\ x.pc = "write" /\ "password" \in x.diff => "password" \in x.cols
    /\ x.pc = "write" /\ "id" \in x.diff => "password" \in x.cols
    /\ Issuing(x) => x.token \in Token /\ x.token.user = x.id
    /\ x.pc = "store" => x.req.op \in SessionOps

\* Only a user who is there, or was, is saved or deleted; a user to be inserted
\* never was; and what a handler knows to be verified has been proved (P).
Grounded(x, P) ==
    /\ x.pc = "insert" => ~Known(x.id)
    /\ Saving(x) \/ x.pc = "delete" => Known(x.id)
    /\ x.pc \in {"unlink", "mark"} /\ x.req.op = "verifyEmail" => x.id \in P
    /\ Saving(x) /\ x.row.verified => x.id \in P

Handlers == \A w \in Workers : Shape(h[w]) /\ Grounded(h[w], proved)

InsertersApart ==
    \A v, w \in Workers : v # w /\ h[v].pc = "insert" /\ h[w].pc = "insert" => h[v].id # h[w].id

(***************************************************************************)
(* Links are of users who are there, and of the past.                      *)
(***************************************************************************)
LinksOwned ==
    \A t \in Links : links[t] # NoLink => users[links[t].user] # NoRow /\ links[t].since <= now

IInv == Typed /\ Handlers /\ InsertersApart /\ LinksOwned /\ VerifiedByOwnMail

(***************************************************************************)
(* Tokens.  What is stored is never older than an exchange, as long as one *)
(* handler runs at a time.                                                 *)
(***************************************************************************)
OneAtATime == \A v, w \in Workers : v # w => h[v].pc = "idle" \/ h[w].pc = "idle"

TokensInOrder ==
    /\ \A u \in Users : stored[u] # NoToken => stored[u].user = u /\ stored[u].iat <= now
    /\ \A x \in used : x.token.iat <= x.at /\ x.at <= now
    /\ \A x \in used : stored[x.token.user] # NoToken => x.at <= stored[x.token.user].iat
    /\ \A w \in Workers : Issuing(h[w]) =>
          /\ h[w].token.iat <= now
          /\ stored[h[w].id] # NoToken => stored[h[w].id].iat <= h[w].token.iat
          /\ \A x \in used : x.token.user = h[w].id => x.at <= h[w].token.iat

Serial == ~overlapped => OneAtATime /\ TokensInOrder

(***************************************************************************)
(* Log-outs.  Nobody is about to store a token for a user who logged out.  *)
(***************************************************************************)
LogoutsHold ==
    \A u \in signedOut : stored[u] = NoToken /\ \A w \in Workers : ~SigningIn(h[w], u)

-----------------------------------------------------------------------------
(* Requests.                                                               *)

LEMMA Inputs ==
    /\ Requests \subseteq Request
    /\ NoRow \notin Row /\ NoLink \notin Link /\ NoToken \notin Token
    /\ {SecondsPerMinute, MinutesPerHour} \subseteq Nat \ {0}
    /\ MaxTime \in Nat /\ ResetMinutes \in Nat
  BY InputsAssumption, ClockAssumption

\* What a request of each kind carries.
LEMMA RequestFields ==
    ASSUME NEW r \in Requests
    PROVE  /\ r \in Request
           /\ r.op \in {"signUp", "createAdmin"} => r.email \in Emails /\ r.password \in Passwords
           /\ r.op = "signUp" => r.role \in Roles
           /\ r.op \in PasswordOps => r.password \in Passwords
           /\ r.op \in {"changePassword", "editUser", "remove", "verifyPhone"} => r.user \in Users
           /\ r.op = "editUser" => \/ r.column = "email" /\ r.value \in Emails
                                   \/ r.column = "role" /\ r.value \in Roles
                                   \/ r.column = "profile" /\ r.value = "new"
<1>1. r \in Request
  BY Inputs
<1> QED BY <1>1 DEF Request, PasswordOps

LEMMA RestingFits ==
    ASSUME NEW P
    PROVE  /\ Resting \in Handler /\ Resting.pc = "idle"
           /\ Shape(Resting) /\ Grounded(Resting, P) /\ ~Issuing(Resting)
           /\ Resting.req.op = "none"
  BY DEF Resting, Handler, Pcs, Shape, Grounded, Saving, Issuing

LEMMA BeginIs ==
    ASSUME NEW pc \in Pcs, NEW r \in Request, NEW u \in Users
    PROVE  /\ Begin(pc, r, u) \in Handler
           /\ Begin(pc, r, u).pc = pc /\ Begin(pc, r, u).req = r /\ Begin(pc, r, u).id = u
<1>1. Resting \in Handler
  BY RestingFits
<1> QED BY <1>1 DEF Begin, Handler

\* What worker w holds once it received a request.
Arrives(w, x) ==
    /\ x \in Handler /\ Shape(x) /\ Grounded(x, proved')
    /\ h' = [h EXCEPT ![w] = x]
    /\ x.pc # "write"
    /\ x.pc = "insert" => \A v \in Workers : h[v].id # x.id
    /\ Issuing(x) => x.token.iat = now
    /\ x.req.op = "refresh" => stored[x.id] # NoToken

LEMMA AnswerArrives ==
    ASSUME NEW w \in Workers, Answer(w)
    PROVE  Arrives(w, Resting)
  BY RestingFits DEF Answer, Arrives

LEMMA NewRowType ==
    ASSUME NEW r \in Requests, r.op \in {"signUp", "createAdmin"}
    PROVE  NewRow(r) \in Row
  BY RequestFields DEF NewRow, Row, Roles

LEMMA FreshIs ==
    ASSUME Typed, NEW u \in FreshUsers
    PROVE  u \in Users /\ ~Known(u) /\ \A v \in Workers : h[v].id # u
  BY DEF FreshUsers, Known

LEMMA InsertArrives ==
    ASSUME Typed, NEW w \in Workers, NEW r \in Requests, r.op \in {"signUp", "createAdmin"},
           NEW u \in FreshUsers, NEW guard \in BOOLEAN,
           h' = [h EXCEPT ![w] = IF guard THEN [Begin("insert", r, u) EXCEPT !.row = NewRow(r)]
                                          ELSE Resting]
    PROVE  \E x : Arrives(w, x)
<1> DEFINE x == [Begin("insert", r, u) EXCEPT !.row = NewRow(r)]
<1>1. CASE ~guard
  BY <1>1, RestingFits DEF Arrives
<1>2. CASE guard
  <2>1. NewRow(r) \in Row /\ r \in Request /\ u \in Users
    BY NewRowType, RequestFields, FreshIs
  <2>2. Begin("insert", r, u) \in Handler /\ Begin("insert", r, u).pc = "insert"
            /\ Begin("insert", r, u).id = u /\ Begin("insert", r, u).req = r
    BY <2>1, BeginIs DEF Pcs
  <2>3. x \in Handler /\ x.pc = "insert" /\ x.id = u /\ x.row = NewRow(r) /\ x.req.op # "refresh"
    BY <2>1, <2>2 DEF Handler
  <2>4. Shape(x) /\ Grounded(x, proved') /\ ~Issuing(x)
    BY <2>1, <2>3, FreshIs DEF Shape, Grounded, Saving, Issuing
  <2>5. h' = [h EXCEPT ![w] = x]
    BY <1>2
  <2> HIDE DEF x
  <2> QED BY <2>3, <2>4, <2>5, FreshIs DEF Arrives
<1> QED BY <1>1, <1>2

LEMMA SignUpArrives ==
    ASSUME Typed, NEW w \in Workers, NEW r \in Requests, SignUp(w, r) \/ CreateAdmin(w, r)
    PROVE  (\E x : Arrives(w, x)) /\ proved' = proved
<1> DEFINE u == CHOOSE v \in FreshUsers : TRUE
<1>1. CASE SignUp(w, r)
  <2>1. u \in FreshUsers
    BY <1>1 DEF SignUp
  <2> QED BY <1>1, <2>1, InsertArrives DEF SignUp, Continue
<1>2. CASE CreateAdmin(w, r)
  <2>1. u \in FreshUsers
    BY <1>2 DEF CreateAdmin
  <2> QED BY <1>2, <2>1, InsertArrives DEF CreateAdmin, Continue
<1> QED BY <1>1, <1>2

LEMMA BeginArrives ==
    ASSUME Typed, NEW w \in Workers, NEW r \in Requests, NEW u \in Users,
           NEW pc \in {"unlink", "link", "mark", "delete", "invalidate"},
           NEW guard \in BOOLEAN,
           pc \in {"unlink", "mark"} => r.op # "verifyEmail", r.op # "refresh",
           pc = "delete" /\ guard => Known(u),
           h' = [h EXCEPT ![w] = IF guard THEN Begin(pc, r, u) ELSE Resting]
    PROVE  \E x : Arrives(w, x)
<1> DEFINE x == Begin(pc, r, u)
<1>1. CASE ~guard
  BY <1>1, RestingFits DEF Arrives
<1>2. CASE guard
  <2>1. x \in Handler /\ x.pc = pc /\ x.req = r /\ x.id = u
    BY BeginIs, RequestFields DEF Pcs
  <2>2. h' = [h EXCEPT ![w] = x]
    BY <1>2
  <2> HIDE DEF x
  <2>3. Shape(x) /\ Grounded(x, proved') /\ ~Issuing(x)
    BY <1>2, <2>1 DEF Shape, Grounded, Saving, Issuing
  <2> QED BY <2>1, <2>2, <2>3 DEF Arrives
<1> QED BY <1>1, <1>2

LEMMA IssueArrives ==
    ASSUME Typed, NEW w \in Workers, NEW r \in Requests, NEW u \in Users,
           NEW pc \in {"store", "invalidate"}, NEW long \in BOOLEAN, NEW guard \in BOOLEAN,
           r.op \in SessionOps, r.op = "refresh" /\ guard => stored[u] # NoToken,
           h' = [h EXCEPT ![w] = IF guard
                   THEN [Begin(pc, r, u) EXCEPT !.token = [user |-> u, iat |-> now, long |-> long]]
                   ELSE Resting]
    PROVE  \E x : Arrives(w, x)
<1> DEFINE token == [user |-> u, iat |-> now, long |-> long]
           x == [Begin(pc, r, u) EXCEPT !.token = token]
<1>1. CASE ~guard
  BY <1>1, RestingFits DEF Arrives
<1>2. CASE guard
  <2>1. token \in Token /\ token.user = u /\ token.iat = now
    BY DEF Typed, Token
  <2>2. /\ Begin(pc, r, u) \in Handler /\ Begin(pc, r, u).pc = pc /\ Begin(pc, r, u).id = u
        /\ Begin(pc, r, u).req = r
    BY BeginIs, RequestFields DEF Pcs
  <2>3. h' = [h EXCEPT ![w] = x]
    BY <1>2
  <2> HIDE DEF token
  <2>4. x \in Handler /\ x.pc = pc /\ x.id = u /\ x.token = token /\ x.req = r
    BY <2>1, <2>2 DEF Handler
  <2> HIDE DEF x
  <2>5. Shape(x) /\ Grounded(x, proved') /\ x.token.iat = now
    BY <2>1, <2>4 DEF Shape, Grounded, Saving, Issuing
  <2> QED BY <1>2, <2>3, <2>4, <2>5 DEF Arrives
<1> QED BY <1>1, <1>2

LEMMA SavingArrives ==
    ASSUME Typed, NEW w \in Workers, NEW r \in Requests, NEW u \in Users,
           NEW row, NEW cols \in SUBSET Columns, NEW guard \in BOOLEAN, r.op # "refresh",
           guard => /\ row \in Row /\ Known(u)
                    /\ row.verified => u \in proved'
                    /\ "password" \in cols => r.op \in PasswordOps /\ row.password = r.password,
           h' = [h EXCEPT ![w] = IF guard THEN [Begin("compare", r, u) EXCEPT !.row = row, !.cols = cols]
                                          ELSE Resting]
    PROVE  \E x : Arrives(w, x)
<1> DEFINE x == [Begin("compare", r, u) EXCEPT !.row = row, !.cols = cols]
<1>1. CASE ~guard
  BY <1>1, RestingFits DEF Arrives
<1>2. CASE guard
  <2>1. /\ Begin("compare", r, u) \in Handler /\ Begin("compare", r, u).pc = "compare"
        /\ Begin("compare", r, u).id = u /\ Begin("compare", r, u).req = r
    BY BeginIs, RequestFields DEF Pcs
  <2>2. h' = [h EXCEPT ![w] = x]
    BY <1>2
  <2>3. /\ x \in Handler /\ x.pc = "compare" /\ x.id = u /\ x.req = r
        /\ x.row = row /\ x.cols = cols
    BY <1>2, <2>1 DEF Handler
  <2> HIDE DEF x
  <2>4. Shape(x) /\ Grounded(x, proved') /\ ~Issuing(x)
    BY <1>2, <2>3 DEF Shape, Grounded, Saving, Issuing
  <2> QED BY <2>2, <2>3, <2>4 DEF Arrives
<1> QED BY <1>1, <1>2

LEMMA SignInArrives ==
    ASSUME Typed, NEW w \in Workers, NEW r \in Requests, SignIn(w, r)
    PROVE  (\E x : Arrives(w, x)) /\ proved' = proved
<1>1. CASE Continue(w, FALSE, Resting)
  BY <1>1, RestingFits DEF Continue, Arrives
<1>2. ASSUME NEW u \in Users,
             Continue(w, MaySignIn(u, r),
                      [Begin("store", r, u) EXCEPT !.token = [user |-> u, iat |-> now, long |-> TRUE]])
      PROVE  (\E x : Arrives(w, x)) /\ proved' = proved
  <2>1. MaySignIn(u, r) \in BOOLEAN /\ r.op = "signIn"
    BY DEF MaySignIn, SignIn
  <2> QED BY <1>2, <2>1, IssueArrives DEF Continue, SessionOps
<1> QED BY <1>1, <1>2 DEF SignIn, Registered

LEMMA RefreshArrives ==
    ASSUME Typed, NEW w \in Workers, NEW r \in Requests, NEW token \in cookies,
           Refresh(w, r, token)
    PROVE  (\E x : Arrives(w, x)) /\ proved' = proved
<1>1. CASE Answer(w)
  BY <1>1, AnswerArrives DEF Refresh
<1>2. CASE /\ Accepted(token)
           /\ h' = [h EXCEPT ![w] = [Begin("invalidate", r, token.user) EXCEPT
                       !.token = [user |-> token.user, iat |-> now, long |-> FALSE]]]
  <2>1. token.user \in Users /\ r.op = "refresh" /\ stored[token.user] # NoToken
    BY <1>2, Inputs DEF Typed, Token, Accepted, Refresh
  <2>2. h' = [h EXCEPT ![w] = IF TRUE THEN [Begin("invalidate", r, token.user) EXCEPT
                       !.token = [user |-> token.user, iat |-> now, long |-> FALSE]] ELSE Resting]
    BY <1>2
  <2> QED BY <2>1, <2>2, IssueArrives DEF Refresh, SessionOps
<1> QED BY <1>1, <1>2 DEF Refresh

LEMMA LogoutArrives ==
    ASSUME Typed, NEW w \in Workers, NEW r \in Requests, NEW u \in Users, Logout(w, r, u)
    PROVE  (\E x : Arrives(w, x)) /\ proved' = proved
<1>1. Guarded(u, Roles) \in BOOLEAN
  BY DEF Guarded
<1> QED BY <1>1, BeginArrives DEF Logout, Continue

LEMMA VerifyEmailArrives ==
    ASSUME Typed, NEW w \in Workers, NEW r \in Requests, NEW u \in Users, NEW t \in Links,
           VerifyEmail(w, r, u, t)
    PROVE  (\E x : Arrives(w, x)) /\ proved \subseteq proved' /\ proved' \subseteq Users
<1>1. CASE Answer(w) /\ UNCHANGED proved
  BY <1>1, AnswerArrives DEF Typed
<1>2. CASE /\ links[t] # NoLink /\ links[t].user = u
           /\ h' = [h EXCEPT ![w] = [Begin("unlink", r, u) EXCEPT !.link = t]]
           /\ proved' = proved \cup {links[t].user}
  <2> DEFINE x == [Begin("unlink", r, u) EXCEPT !.link = t]
  <2>1. /\ Begin("unlink", r, u) \in Handler /\ Begin("unlink", r, u).pc = "unlink"
        /\ Begin("unlink", r, u).id = u /\ Begin("unlink", r, u).req = r
    BY BeginIs, RequestFields DEF Pcs
  <2>2. x \in Handler /\ x.pc = "unlink" /\ x.id = u /\ x.req.op # "refresh"
    BY <2>1 DEF Handler, VerifyEmail
  <2>3. h' = [h EXCEPT ![w] = x]
    BY <1>2
  <2> HIDE DEF x
  <2>4. Shape(x) /\ Grounded(x, proved') /\ ~Issuing(x)
    BY <1>2, <2>2 DEF Shape, Grounded, Saving, Issuing
  <2>5. Arrives(w, x)
    BY <2>2, <2>3, <2>4 DEF Arrives
  <2> QED BY <1>2, <2>5 DEF Typed
<1> QED BY <1>1, <1>2 DEF VerifyEmail, LinkFits

LEMMA MailArrives ==
    ASSUME Typed, NEW w \in Workers, NEW r \in Requests,
           ForgotPassword(w, r) \/ ResendVerification(w, r)
    PROVE  (\E x : Arrives(w, x)) /\ proved' = proved
<1>1. CASE Continue(w, FALSE, Resting)
  BY <1>1, RestingFits DEF Continue, Arrives
<1>2. ASSUME NEW u \in Users, r.op = "forgotPassword", Continue(w, TRUE, Begin("link", r, u))
      PROVE  (\E x : Arrives(w, x)) /\ proved' = proved
  BY <1>2, BeginArrives DEF Continue
<1>3. ASSUME NEW u \in Users, users[u] # NoRow, r.op = "resendVerification",
             Continue(w, ~users[u].verified, Begin("unlink", r, u))
      PROVE  (\E x : Arrives(w, x)) /\ proved' = proved
  <2>1. (~users[u].verified) \in BOOLEAN
    OBVIOUS
  <2> QED BY <1>3, <2>1, BeginArrives DEF Continue
<1> QED BY <1>1, <1>2, <1>3 DEF ForgotPassword, ResendVerification, Registered

LEMMA ResetPasswordArrives ==
    ASSUME Typed, LinksOwned, VerifiedByOwnMail, NEW w \in Workers, NEW r \in Requests,
           NEW t \in Links, ResetPassword(w, r, t)
    PROVE  (\E x : Arrives(w, x)) /\ proved' = proved
<1> DEFINE u == links[t].user
           row == [users[u] EXCEPT !.password = r.password]
           guard == links[t] # NoLink /\ ~ResetExpired(links[t].since)
<1>1. CASE ~guard
  <2>1. h' = [h EXCEPT ![w] = Resting] /\ proved' = proved
    BY <1>1 DEF ResetPassword, Continue
  <2> QED BY <2>1, RestingFits DEF Arrives
<1>2. CASE guard
  <2>1. u \in Users /\ users[u] \in Row /\ users[u] # NoRow
    BY <1>2 DEF Typed, Link, LinksOwned
  <2>2. r.password \in Passwords /\ r.op \in PasswordOps
    BY RequestFields DEF ResetPassword, PasswordOps
  <2>3. /\ h' = [h EXCEPT ![w] = IF TRUE THEN [Begin("compare", r, u) EXCEPT !.row = row, !.cols = Columns]
                                 ELSE Resting]
        /\ proved' = proved
    BY <1>2 DEF ResetPassword, Continue, Whole
  <2> HIDE DEF u
  <2>4. row \in Row /\ row.password = r.password /\ row.verified = users[u].verified
    BY <2>1, <2>2 DEF Row
  <2>5. users[u].verified => u \in proved'
    BY <2>1, <2>3 DEF VerifiedByOwnMail
  <2> HIDE DEF row
  <2> QED BY <2>1, <2>2, <2>3, <2>4, <2>5, SavingArrives DEF Known, PasswordOps
<1> QED BY <1>1, <1>2

LEMMA ChangePasswordArrives ==
    ASSUME Typed, VerifiedByOwnMail, NEW w \in Workers, NEW r \in Requests, ChangePassword(w, r)
    PROVE  (\E x : Arrives(w, x)) /\ proved' = proved
<1> DEFINE u == r.user
           row == [users[u] EXCEPT !.password = r.password, !.mustChange = FALSE]
           guard == /\ Guarded(r.actor, Roles) /\ users[u] # NoRow
                    /\ users[u].password = r.current
<1>1. CASE ~guard
  <2>1. h' = [h EXCEPT ![w] = Resting] /\ proved' = proved
    BY <1>1 DEF ChangePassword, Continue
  <2> QED BY <2>1, RestingFits DEF Arrives
<1>2. CASE guard
  <2>1. r.password \in Passwords /\ r.op \in PasswordOps /\ u \in Users
    BY RequestFields DEF ChangePassword, PasswordOps
  <2>2. users[u] \in Row /\ users[u] # NoRow
    BY <1>2, <2>1 DEF Typed
  <2>3. /\ h' = [h EXCEPT ![w] = IF TRUE THEN [Begin("compare", r, u) EXCEPT !.row = row, !.cols = Columns]
                                 ELSE Resting]
        /\ proved' = proved
    BY <1>2 DEF ChangePassword, Continue, Whole
  <2> HIDE DEF u
  <2>4. row \in Row /\ row.password = r.password /\ row.verified = users[u].verified
    BY <2>1, <2>2 DEF Row
  <2>5. users[u].verified => u \in proved'
    BY <2>1, <2>2, <2>3 DEF VerifiedByOwnMail
  <2> HIDE DEF row
  <2> QED BY <2>1, <2>2, <2>3, <2>4, <2>5, SavingArrives DEF Known, PasswordOps
<1> QED BY <1>1, <1>2

LEMMA EditUserArrives ==
    ASSUME Typed, VerifiedByOwnMail, NEW w \in Workers, NEW r \in Requests, EditUser(w, r)
    PROVE  (\E x : Arrives(w, x)) /\ proved' = proved
<1> DEFINE u == r.user
           row == Edited(users[u], r)
           guard == /\ Guarded(r.actor, IF r.actor = r.user /\ r.column = "profile"
                                          THEN Roles ELSE {"SuperAdmin"})
                    /\ users[u] # NoRow
<1>1. CASE ~guard
  <2>1. h' = [h EXCEPT ![w] = Resting] /\ proved' = proved
    BY <1>1 DEF EditUser, Continue
  <2> QED BY <2>1, RestingFits DEF Arrives
<1>2. CASE guard
  <2>1. u \in Users /\ \/ r.column = "email" /\ r.value \in Emails
                       \/ r.column = "role" /\ r.value \in Roles
                       \/ r.column = "profile" /\ r.value = "new"
    BY RequestFields DEF EditUser
  <2>2. users[u] \in Row /\ users[u] # NoRow
    BY <1>2, <2>1 DEF Typed
  <2>3. /\ h' = [h EXCEPT ![w] = IF TRUE THEN [Begin("compare", r, u) EXCEPT !.row = row, !.cols = LoadedColumns]
                                 ELSE Resting]
        /\ proved' = proved
    BY <1>2 DEF EditUser, Continue
  <2> HIDE DEF u
  <2>4. row \in Row /\ row.verified = users[u].verified
    BY <2>1, <2>2 DEF Row, Edited
  <2>5. users[u].verified => u \in proved'
    BY <2>1, <2>2, <2>3 DEF VerifiedByOwnMail
  <2>6. LoadedColumns \in SUBSET Columns /\ "password" \notin LoadedColumns
    BY DEF LoadedColumns
  <2> HIDE DEF row
  <2> QED BY <2>1, <2>2, <2>3, <2>4, <2>5, <2>6, SavingArrives DEF Known, EditUser
<1> QED BY <1>1, <1>2

LEMMA OthersArrive ==
    ASSUME Typed, NEW w \in Workers, NEW r \in Requests, PhoneVerification(w, r) \/ Remove(w, r)
    PROVE  (\E x : Arrives(w, x)) /\ proved' = proved
<1>1. CASE PhoneVerification(w, r)
  <2>1. r.user \in Users /\ r.op = "verifyPhone" /\ Guarded(r.actor, {"User"}) \in BOOLEAN
    BY <1>1, RequestFields DEF PhoneVerification, Guarded
  <2> QED BY <1>1, <2>1, BeginArrives DEF PhoneVerification, Continue
<1>2. CASE Remove(w, r)
  <2> DEFINE guard == Guarded(r.actor, {"SuperAdmin"}) /\ users[r.user] # NoRow
  <2>1. r.user \in Users /\ guard \in BOOLEAN /\ (guard => Known(r.user)) /\ r.op = "remove"
    BY <1>2, RequestFields DEF Remove, Guarded, Known
  <2>2. h' = [h EXCEPT ![w] = IF guard THEN Begin("delete", r, r.user) ELSE Resting]
        /\ proved' = proved
    BY <1>2 DEF Remove, Continue
  <2> HIDE DEF guard
  <2> QED BY <2>1, <2>2, BeginArrives
<1> QED BY <1>1, <1>2

\* A request changes what its worker holds, and what has been proved.
LEMMA ArriveEffect ==
    ASSUME IInv, NEW w \in Workers, Arrive(w)
    PROVE  /\ \E x : Arrives(w, x)
           /\ proved \subseteq proved' /\ proved' \subseteq Users
           /\ Receive(w)
<1> USE DEF IInv
<1>1. PICK r \in Requests :
        \/ SignUp(w, r) \/ CreateAdmin(w, r) \/ SignIn(w, r) \/ ForgotPassword(w, r)
        \/ ResendVerification(w, r) \/ ChangePassword(w, r) \/ EditUser(w, r) \/ Remove(w, r)
        \/ PhoneVerification(w, r)
        \/ \E token \in cookies : Refresh(w, r, token)
        \/ \E u \in Users : Logout(w, r, u)
        \/ \E t \in Links : ResetPassword(w, r, t)
        \/ \E u \in Users, t \in Links : VerifyEmail(w, r, u, t)
  BY DEF Arrive
<1>2. (\E x : Arrives(w, x)) /\ proved \subseteq proved' /\ proved' \subseteq Users
  <2>1. proved \subseteq Users
    BY DEF Typed
  <2> QED BY <1>1, <2>1, SignUpArrives, SignInArrives, MailArrives, ChangePasswordArrives,
             EditUserArrives, OthersArrive, RefreshArrives, LogoutArrives,
             ResetPasswordArrives, VerifyEmailArrives
<1>3. Receive(w)
  BY <1>1 DEF SignUp, CreateAdmin, SignIn, ForgotPassword, ResendVerification, ChangePassword,
              EditUser, Remove, PhoneVerification, Refresh, Logout, ResetPassword, VerifyEmail
<1> QED BY <1>2, <1>3

-----------------------------------------------------------------------------
(* The steps of a handler.                                                 *)

\* What worker w holds after a step.
Steps(w, x) ==
    /\ x \in Handler /\ Shape(x) /\ Grounded(x, proved)
    /\ h' = [h EXCEPT ![w] = x]
    /\ x.pc # "insert"
    /\ x.pc # "idle" => x.req = h[w].req /\ x.id = h[w].id
    /\ Issuing(x) => \/ h[w].pc = "write" /\ x.token.iat = now
                     \/ /\ h[w].pc = "invalidate" /\ Issuing(h[w])
                        /\ x.token = h[w].token /\ x.id = h[w].id

LEMMA AnswerSteps ==
    ASSUME NEW w \in Workers, Answer(w)
    PROVE  Steps(w, Resting)
  BY RestingFits DEF Answer, Steps, Resting

LEMMA HandlerIs ==
    ASSUME IInv, NEW w \in Workers
    PROVE  h[w] \in Handler /\ Shape(h[w]) /\ Grounded(h[w], proved)
  BY DEF IInv, Typed, Handlers

LEMMA UnlinkSteps ==
    ASSUME IInv, NEW w \in Workers, Unlink(w)
    PROVE  \E x : Steps(w, x)
<1> DEFINE x == [h[w] EXCEPT !.pc = IF h[w].req.op = "verifyEmail" THEN "mark" ELSE "link"]
<1>1. h[w] \in Handler /\ Shape(h[w]) /\ Grounded(h[w], proved) /\ h[w].pc = "unlink"
  BY HandlerIs DEF Unlink, Doing
<1>2. h' = [h EXCEPT ![w] = x]
  BY <1>1 DEF Unlink, IInv, Typed
<1>3. /\ x \in Handler /\ x.id = h[w].id /\ x.req = h[w].req
      /\ x.pc = IF h[w].req.op = "verifyEmail" THEN "mark" ELSE "link"
  BY <1>1 DEF Handler, Pcs
<1> HIDE DEF x
<1>4. Shape(x) /\ Grounded(x, proved)
  BY <1>1, <1>3 DEF Shape, Grounded, Saving, Issuing
<1> QED BY <1>2, <1>3, <1>4 DEF Steps, Issuing

LEMMA MarkSteps ==
    ASSUME IInv, NEW w \in Workers, Mark(w)
    PROVE  \E x : Steps(w, x)
<1> DEFINE row == Marked(h[w].req.op, users[h[w].id])
           x == [h[w] EXCEPT !.pc = "compare", !.cols = LoadedColumns, !.row = row]
<1>1. h[w] \in Handler /\ Shape(h[w]) /\ Grounded(h[w], proved) /\ h[w].pc = "mark"
  BY HandlerIs DEF Mark, Doing
<1>2. CASE Answer(w)
  BY <1>2, AnswerSteps
<1>3. CASE users[h[w].id] # NoRow
  <2>1. h[w].id \in Users /\ users[h[w].id] \in Row
    BY <1>1, <1>3 DEF Shape, IInv, Typed
  <2>2. row \in Row /\ row.verified \in {users[h[w].id].verified, h[w].req.op = "verifyEmail"}
    BY <2>1 DEF Marked, Row
  <2>3. row.verified => h[w].id \in proved
    <3>1. h[w].req.op = "verifyEmail" => h[w].id \in proved
      BY <1>1 DEF Grounded
    <3>2. users[h[w].id].verified => h[w].id \in proved
      BY <1>3, <2>1 DEF IInv, VerifiedByOwnMail
    <3> QED BY <2>2, <3>1, <3>2
  <2>4. h' = [h EXCEPT ![w] = x]
    BY <1>1, <1>3 DEF Mark, IInv, Typed
  <2>5. LoadedColumns \in SUBSET Columns /\ "password" \notin LoadedColumns
    BY DEF LoadedColumns
  <2> HIDE DEF row
  <2>6. /\ x \in Handler /\ x.id = h[w].id /\ x.pc = "compare" /\ x.cols = LoadedColumns
        /\ x.row = row /\ x.req = h[w].req
    BY <1>1, <2>2, <2>5 DEF Handler, Pcs
  <2> HIDE DEF x
  <2>7. Shape(x) /\ Grounded(x, proved)
    BY <1>3, <2>1, <2>2, <2>3, <2>5, <2>6 DEF Shape, Grounded, Saving, Issuing, Known
  <2> QED BY <2>4, <2>6, <2>7 DEF Steps, Issuing
<1> QED BY <1>2, <1>3 DEF Mark

LEMMA CompareSteps ==
    ASSUME IInv, NEW w \in Workers, Compare(w)
    PROVE  \E x : Steps(w, x)
<1> DEFINE diff == IF users[h[w].id] = NoRow THEN Columns \cup {"id"}
                   ELSE Differing(h[w].row, users[h[w].id], h[w].cols)
           x == [h[w] EXCEPT !.pc = "write", !.diff = diff]
<1>1. h[w] \in Handler /\ Shape(h[w]) /\ Grounded(h[w], proved) /\ h[w].pc = "compare"
  BY HandlerIs DEF Compare, Doing
<1>2. CASE Answer(w)
  BY <1>2, AnswerSteps
<1>3. CASE ~(users[h[w].id] = NoRow /\ ~Insertable(h[w].cols))
  <2>1. h[w].cols \in SUBSET Columns
    BY <1>1 DEF Handler
  <2>2. /\ diff \in SUBSET (Columns \cup {"id"})
        /\ "password" \in diff => "password" \in h[w].cols
        /\ "id" \in diff => "password" \in h[w].cols
    BY <1>3, <2>1 DEF Differing, Insertable, Columns
  <2>3. h' = [h EXCEPT ![w] = x]
    BY <1>1, <1>3 DEF Compare, IInv, Typed
  <2> HIDE DEF diff
  <2>4. /\ x \in Handler /\ x.id = h[w].id /\ x.pc = "write" /\ x.cols = h[w].cols
        /\ x.row = h[w].row /\ x.diff = diff /\ x.req = h[w].req
    BY <1>1, <2>2 DEF Handler, Pcs
  <2> HIDE DEF x
  <2>5. Shape(x) /\ Grounded(x, proved)
    BY <1>1, <2>2, <2>4 DEF Shape, Grounded, Saving, Issuing
  <2> QED BY <2>3, <2>4, <2>5 DEF Steps, Issuing
<1> QED BY <1>2, <1>3 DEF Compare

LEMMA WriteSteps ==
    ASSUME IInv, NEW w \in Workers, Write(w)
    PROVE  \E x : Steps(w, x)
<1>1. h[w] \in Handler /\ Shape(h[w]) /\ Grounded(h[w], proved) /\ h[w].pc = "write"
  BY HandlerIs DEF Write, Doing
<1>2. CASE Answer(w)
  BY <1>2, AnswerSteps
<1>3. CASE ~Answer(w)
  <2> DEFINE u == h[w].id
             token == [user |-> u, iat |-> now, long |-> FALSE]
             x == [Begin("store", h[w].req, u) EXCEPT !.token = token]
  <2>1. h' = [h EXCEPT ![w] = x] /\ h[w].req.op = "verifyEmail"
    BY <1>3 DEF Write
  <2>2. u \in Users /\ h[w].req \in Request
    BY <1>1, <2>1 DEF Shape, Handler
  <2>3. token \in Token /\ token.user = u /\ token.iat = now
    BY <2>2 DEF IInv, Typed, Token
  <2> HIDE DEF u
  <2>4. /\ Begin("store", h[w].req, u) \in Handler /\ Begin("store", h[w].req, u).pc = "store"
        /\ Begin("store", h[w].req, u).id = u /\ Begin("store", h[w].req, u).req = h[w].req
    BY <2>2, BeginIs DEF Pcs
  <2> HIDE DEF token
  <2>5. x \in Handler /\ x.pc = "store" /\ x.id = u /\ x.token = token /\ x.req = h[w].req
    BY <2>3, <2>4 DEF Handler
  <2> HIDE DEF x
  <2>6. Shape(x) /\ Grounded(x, proved)
    BY <2>1, <2>2, <2>3, <2>5 DEF Shape, Grounded, Saving, Issuing, SessionOps
  <2>7. x.id = h[w].id
    BY <2>5 DEF u
  <2> QED BY <1>1, <2>1, <2>3, <2>5, <2>6, <2>7 DEF Steps
<1> QED BY <1>2, <1>3

LEMMA InvalidateSteps ==
    ASSUME IInv, NEW w \in Workers, Invalidate(w)
    PROVE  \E x : Steps(w, x)
<1>1. h[w] \in Handler /\ Shape(h[w]) /\ Grounded(h[w], proved) /\ h[w].pc = "invalidate"
  BY HandlerIs DEF Invalidate, Doing
<1>2. CASE Answer(w)
  BY <1>2, AnswerSteps
<1>3. CASE h[w].req.op = "refresh" /\ h' = [h EXCEPT ![w].pc = "store"]
  <2> DEFINE x == [h[w] EXCEPT !.pc = "store"]
  <2>1. h' = [h EXCEPT ![w] = x]
    BY <1>1, <1>3 DEF IInv, Typed
  <2>2. x \in Handler /\ x.pc = "store" /\ x.id = h[w].id /\ x.token = h[w].token /\ x.req = h[w].req
    BY <1>1 DEF Handler, Pcs
  <2> HIDE DEF x
  <2>3. Shape(x) /\ Grounded(x, proved)
    BY <1>1, <1>3, <2>2 DEF Shape, Grounded, Saving, Issuing, SessionOps
  <2> QED BY <1>1, <1>3, <2>1, <2>2, <2>3 DEF Steps, Issuing
<1> QED BY <1>2, <1>3 DEF Invalidate

LEMMA StepSteps ==
    ASSUME IInv, NEW w \in Workers, Step(w) \/ Abort(w)
    PROVE  \E x : Steps(w, x)
<1>1. CASE Insert(w) \/ SendLink(w) \/ Delete(w) \/ Store(w) \/ Abort(w)
  <2>1. Answer(w)
    BY <1>1 DEF Insert, SendLink, Delete, Store, Abort
  <2> QED BY <2>1, AnswerSteps
<1>2. CASE Unlink(w)
  BY <1>2, UnlinkSteps
<1>3. CASE Mark(w)
  BY <1>3, MarkSteps
<1>4. CASE Compare(w)
  BY <1>4, CompareSteps
<1>5. CASE Write(w)
  BY <1>5, WriteSteps
<1>6. CASE Invalidate(w)
  BY <1>6, InvalidateSteps
<1> QED BY <1>1, <1>2, <1>3, <1>4, <1>5, <1>6 DEF Step

-----------------------------------------------------------------------------
(* The tables.                                                             *)

LEMMA MendedIs ==
    ASSUME NEW row \in Row, NEW entity \in Row, NEW diff
    PROVE  /\ Mended(row, entity, diff) \in Row
           /\ Mended(row, entity, diff).password
                = IF "password" \in diff THEN entity.password ELSE row.password
           /\ Mended(row, entity, diff).verified \in {row.verified, entity.verified}
  BY DEF Mended, Row

LEMMA NewLinkIs ==
    ASSUME Typed, NEW u \in Users
    PROVE  /\ NewLink(u) \in [Links -> Link \cup {NoLink}]
           /\ \A t \in Links : NewLink(u)[t] \in {links[t], [user |-> u, since |-> now]}
<1> DEFINE t0 == CHOOSE t \in UnseenLinks : TRUE
<1>1. CASE UnseenLinks = {}
  BY <1>1 DEF NewLink, Typed
<1>2. CASE UnseenLinks # {}
  <2>1. t0 \in Links
    BY <1>2 DEF UnseenLinks
  <2>2. [user |-> u, since |-> now] \in Link
    BY DEF Typed, Link
  <2>3. NewLink(u) = [links EXCEPT ![t0] = [user |-> u, since |-> now]]
    BY <1>2 DEF NewLink
  <2> HIDE DEF t0
  <2> QED BY <2>1, <2>2, <2>3 DEF Typed
<1> QED BY <1>1, <1>2

LEMMA LinksWithoutIs ==
    ASSUME Typed, NEW u
    PROVE  /\ LinksWithout(u) \in [Links -> Link \cup {NoLink}]
           /\ \A t \in Links : LinksWithout(u)[t] # NoLink =>
                 LinksWithout(u)[t] = links[t] /\ links[t].user # u
  BY DEF Typed, LinksWithout

\* What a save writes: nothing, the copy as it is, or the columns it sets.
LEMMA WriteEffect ==
    ASSUME IInv, NEW w \in Workers, Write(w)
    PROVE  /\ h[w].pc = "write" /\ h[w].id \in Users /\ h[w].row \in Row
           /\ \/ users' = users
              \/ /\ "id" \in h[w].diff /\ users[h[w].id] = NoRow
                 /\ users' = [users EXCEPT ![h[w].id] = h[w].row]
              \/ /\ users[h[w].id] \in Row /\ users[h[w].id] # NoRow
                 /\ users' = [users EXCEPT ![h[w].id] =
                                 Mended(users[h[w].id], h[w].row, h[w].diff)]
<1>1. h[w].pc = "write" /\ Shape(h[w])
  BY HandlerIs DEF Write, Doing
<1>2. h[w].id \in Users /\ h[w].row \in Row
  BY <1>1 DEF Shape, Saving
<1>3. users[h[w].id] # NoRow => users[h[w].id] \in Row
  BY <1>2 DEF IInv, Typed
<1> QED BY <1>1, <1>2, <1>3 DEF Write

LEMMA InsertEffect ==
    ASSUME IInv, NEW w \in Workers, Insert(w)
    PROVE  /\ h[w].pc = "insert" /\ h[w].id \in Users /\ h[w].row \in Row
           /\ ~Known(h[w].id)
           /\ \/ UNCHANGED <<users, links, proved>>
              \/ /\ users' = [users EXCEPT ![h[w].id] = h[w].row]
                 /\ links' \in {links, NewLink(h[w].id)}
                 /\ proved' = IF h[w].row.verified THEN proved \cup {h[w].id} ELSE proved
<1>1. h[w].pc = "insert" /\ Shape(h[w]) /\ Grounded(h[w], proved)
  BY HandlerIs DEF Insert, Doing
<1> QED BY <1>1 DEF Insert, Shape, Grounded

LEMMA TypedStep ==
    ASSUME IInv, [Next]_vars
    PROVE  Typed'
<1> USE DEF IInv
<1>1. ASSUME NEW w \in Workers, Arrive(w)
      PROVE  Typed'
  <2>1. PICK x : Arrives(w, x)
    BY <1>1, ArriveEffect
  <2>2. h' \in [Workers -> Handler]
    BY <2>1 DEF Arrives, Typed
  <2>3. requests' \in 0 .. MaxRequests /\ overlapped' \in BOOLEAN
        /\ UNCHANGED <<tables, now, aborts, gone, used>> /\ signedOut' \subseteq Users
    <3>1. Receive(w)
      BY <1>1, ArriveEffect
    <3>2. (\E v \in Workers \ {w} : h[v].pc # "idle") \in BOOLEAN
      OBVIOUS
    <3>3. MaxRequests \in Nat
      BY ClockAssumption
    <3>4. signedOut' \subseteq signedOut
      BY <1>1 DEF Arrive
    <3> QED BY <3>1, <3>2, <3>3, <3>4 DEF Receive, Typed
  <2>4. proved' \subseteq Users
    BY <1>1, ArriveEffect
  <2> QED BY <2>2, <2>3, <2>4 DEF Typed, tables
<1>2. ASSUME NEW w \in Workers, Step(w) \/ Abort(w)
      PROVE  h' \in [Workers -> Handler]
  <2>1. PICK x : Steps(w, x)
    BY <1>2, StepSteps
  <2> QED BY <2>1 DEF Steps, Typed
<1>3. ASSUME NEW w \in Workers, Insert(w)
      PROVE  Typed'
  <2>1. h' \in [Workers -> Handler]
    BY <1>2, <1>3 DEF Step
  <2>2. users' \in [Users -> Row \cup {NoRow}] /\ proved' \subseteq Users
    BY <1>3, InsertEffect DEF Typed
  <2>3. links' \in [Links -> Link \cup {NoLink}]
    BY <1>3, InsertEffect, NewLinkIs DEF Typed
  <2> QED BY <1>3, <2>1, <2>2, <2>3 DEF Insert, Doing, Typed
<1>4. ASSUME NEW w \in Workers, Unlink(w) \/ SendLink(w)
      PROVE  Typed'
  <2>1. h' \in [Workers -> Handler]
    BY <1>2, <1>4 DEF Step
  <2>2. h[w].id \in Users
    BY <1>4, HandlerIs DEF Unlink, SendLink, Doing, Shape
  <2>3. links' \in [Links -> Link \cup {NoLink}]
    BY <1>4, <2>2, NewLinkIs, LinksWithoutIs DEF Typed, Unlink, SendLink
  <2> QED BY <1>4, <2>1, <2>3 DEF Unlink, SendLink, Doing, Typed
<1>5. ASSUME NEW w \in Workers, Mark(w) \/ Compare(w) \/ Abort(w)
      PROVE  Typed'
  <2>1. h' \in [Workers -> Handler]
    BY <1>2, <1>5 DEF Step
  <2>2. aborts' \in 0 .. MaxAborts
    BY <1>5, ClockAssumption DEF Mark, Compare, Abort, Doing, Typed
  <2> QED BY <1>5, <2>1, <2>2 DEF Mark, Compare, Abort, Doing, tables, history, Typed
<1>6. ASSUME NEW w \in Workers, Write(w)
      PROVE  Typed'
  <2>1. h' \in [Workers -> Handler]
    BY <1>2, <1>6 DEF Step
  <2>2. users' \in [Users -> Row \cup {NoRow}]
    BY <1>6, WriteEffect, MendedIs DEF Typed
  <2> QED BY <1>6, <2>1, <2>2 DEF Write, Doing, Typed
<1>7. ASSUME NEW w \in Workers, Delete(w)
      PROVE  Typed'
  <2>1. h' \in [Workers -> Handler]
    BY <1>2, <1>7 DEF Step
  <2>2. h[w].id \in Users
    BY <1>7, HandlerIs DEF Delete, Doing, Shape
  <2>3. links' \in [Links -> Link \cup {NoLink}] /\ users' \in [Users -> Row \cup {NoRow}]
    BY <1>7, <2>2, LinksWithoutIs DEF Typed, Delete
  <2> QED BY <1>7, <2>1, <2>2, <2>3 DEF Delete, Doing, Typed
<1>8. ASSUME NEW w \in Workers, Invalidate(w)
      PROVE  Typed'
  <2>1. h' \in [Workers -> Handler]
    BY <1>2, <1>8 DEF Step
  <2>2. h[w].id \in Users /\ (h[w].req.op = "refresh" => h[w].token \in Token)
    BY <1>8, HandlerIs DEF Invalidate, Doing, Shape, Issuing
  <2>3. used' \subseteq [token : Token, at : Time]
    BY <1>8, <2>2 DEF Invalidate, Typed, Token
  <2> QED BY <1>8, <2>1, <2>2, <2>3 DEF Invalidate, Doing, Typed
<1>9. ASSUME NEW w \in Workers, Store(w)
      PROVE  Typed'
  <2>1. h' \in [Workers -> Handler]
    BY <1>2, <1>9 DEF Step
  <2>2. h[w].id \in Users /\ h[w].token \in Token /\ h[w].token.iat \in Time
    BY <1>9, HandlerIs DEF Store, Doing, Shape, Issuing, Token
  <2> QED BY <1>9, <2>1, <2>2 DEF Store, Doing, Typed
<1>10. CASE Tick
  BY <1>10, Inputs DEF Tick, tables, history, Typed, Time
<1>11. CASE UNCHANGED vars
  BY <1>11 DEF vars, tables, history, Typed
<1> QED BY <1>1, <1>3, <1>4, <1>5, <1>6, <1>7, <1>8, <1>9, <1>10, <1>11 DEF Next, Step

\* A user who is there or was remains so, and only the handler of a new account adds one.
LEMMA KnownStep ==
    ASSUME IInv, [Next]_vars
    PROVE  /\ proved \subseteq proved'
           /\ \A u \in Users : Known(u) => Known(u)'
           /\ \A u \in Users : ~Known(u) /\ Known(u)' =>
                 \E w \in Workers : h[w].pc = "insert" /\ h[w].id = u /\ Answer(w)
<1> USE DEF IInv
<1>1. ASSUME NEW w \in Workers, Insert(w)
      PROVE  /\ proved \subseteq proved'
             /\ \A u \in Users : Known(u) => Known(u)'
             /\ \A u \in Users : ~Known(u) /\ Known(u)' => h[w].pc = "insert" /\ h[w].id = u /\ Answer(w)
  <2>1. /\ h[w].pc = "insert" /\ h[w].id \in Users /\ h[w].row \in Row /\ h[w].row # NoRow
        /\ users' = users \/ users' = [users EXCEPT ![h[w].id] = h[w].row]
        /\ gone' = gone /\ Answer(w) /\ proved \subseteq proved'
    BY <1>1, InsertEffect, Inputs DEF Insert
  <2> QED BY <2>1 DEF Known, Typed
<1>2. ASSUME NEW w \in Workers, Write(w)
      PROVE  proved' = proved /\ \A u \in Users : Known(u)' <=> Known(u)
  <2>1. h[w].id \in Users /\ h[w].row \in Row /\ Known(h[w].id)
    BY <1>2, WriteEffect, HandlerIs DEF Grounded, Saving
  <2>2. proved' = proved /\ gone' = gone
    BY <1>2 DEF Write
  <2>3. ASSUME NEW r \in Row, users' = [users EXCEPT ![h[w].id] = r]
        PROVE  \A u \in Users : Known(u)' <=> Known(u)
    BY <2>1, <2>2, <2>3, Inputs DEF Known, Typed
  <2>4. CASE users' = users
    BY <2>2, <2>4 DEF Known
  <2> QED BY <1>2, <2>1, <2>2, <2>3, <2>4, WriteEffect, MendedIs
<1>3. ASSUME NEW w \in Workers, Delete(w)
      PROVE  proved' = proved /\ \A u \in Users : Known(u)' <=> Known(u)
  <2>1. h[w].id \in Users /\ Known(h[w].id)
    BY <1>3, HandlerIs DEF Delete, Doing, Shape, Grounded
  <2> QED BY <1>3, <2>1 DEF Delete, Known, Typed
<1>4. ASSUME NEW w \in Workers, Arrive(w)
      PROVE  proved \subseteq proved' /\ UNCHANGED <<users, gone>>
  BY <1>4, ArriveEffect DEF Receive, tables
<1>5. CASE UNCHANGED <<users, gone, proved>>
  BY <1>5 DEF Known
<1>6. CASE proved \subseteq proved' /\ UNCHANGED <<users, gone>>
  BY <1>6 DEF Known
<1>7. \/ \E w \in Workers : Insert(w) \/ Write(w) \/ Delete(w) \/ Arrive(w)
      \/ UNCHANGED <<users, gone, proved>>
  BY DEF Next, Step, vars, tables, history, Unlink, SendLink, Mark, Compare, Invalidate, Store,
         Abort, Tick
<1> QED BY <1>1, <1>2, <1>3, <1>4, <1>5, <1>6, <1>7

\* Of each worker: it holds what it held, or what a request or a step left it with.
LEMMA WorkerStep ==
    ASSUME IInv, [Next]_vars
    PROVE  \/ h' = h
           \/ \E w \in Workers : \E x : Arrives(w, x) \/ Steps(w, x)
<1>1. ASSUME NEW w \in Workers, Arrive(w)
      PROVE  \E x : Arrives(w, x)
  BY <1>1, ArriveEffect
<1>2. ASSUME NEW w \in Workers, Step(w) \/ Abort(w)
      PROVE  \E x : Steps(w, x)
  BY <1>2, StepSteps
<1>3. CASE Tick \/ UNCHANGED vars
  BY <1>3 DEF Tick, vars
<1> QED BY <1>1, <1>2, <1>3 DEF Next

\* What is grounded stays so, of a handler that does not step.
LEMMA GroundedStays ==
    ASSUME IInv, [Next]_vars, NEW x, x.id \in Users \/ x.pc = "idle", Shape(x),
           Grounded(x, proved) \/ Grounded(x, proved'),
           x.pc = "insert" => \A w \in Workers : ~(h[w].pc = "insert" /\ h[w].id = x.id /\ Answer(w))
    PROVE  Grounded(x, proved)'
<1>1. x.pc = "idle" \/ (Known(x.id) => Known(x.id)')
  BY KnownStep
<1>2. x.pc = "insert" /\ ~Known(x.id) => ~Known(x.id)'
  BY KnownStep DEF Shape
<1>3. proved \subseteq proved'
  BY KnownStep
<1> QED BY <1>1, <1>2, <1>3 DEF Grounded, Saving

LEMMA HandlersStep ==
    ASSUME IInv, [Next]_vars
    PROVE  Handlers'
<1> USE DEF IInv
<1> SUFFICES ASSUME NEW v \in Workers, NEW x, x = h'[v]
             PROVE  Shape(x) /\ Grounded(x, proved)'
  BY DEF Handlers
<1>1. CASE x = h[v]
  <2>1. Shape(x) /\ Grounded(x, proved) /\ (x.id \in Users \/ x.pc = "idle")
    BY <1>1, HandlerIs DEF Shape
  <2>2. x.pc = "insert" => \A w \in Workers : ~(h[w].pc = "insert" /\ h[w].id = x.id /\ Answer(w))
    <3>1. ASSUME x.pc = "insert", Answer(v)
          PROVE  FALSE
      <4>1. h'[v] = Resting
        BY <3>1 DEF Answer, Typed
      <4> QED BY <3>1, <4>1, RestingFits
    <3> QED BY <1>1, <3>1 DEF InsertersApart
  <2> QED BY <2>1, <2>2, GroundedStays
<1>2. ASSUME NEW y, Arrives(v, y)
      PROVE  Shape(x) /\ Grounded(x, proved)'
  <2>1. x = y /\ Shape(x) /\ Grounded(x, proved') /\ (x.id \in Users \/ x.pc = "idle")
    BY <1>2 DEF Arrives, Typed, Shape
  <2>2. x.pc = "insert" => \A w \in Workers : ~(h[w].pc = "insert" /\ h[w].id = x.id /\ Answer(w))
    BY <1>2, <2>1 DEF Arrives
  <2> QED BY <2>1, <2>2, GroundedStays
<1>3. ASSUME NEW y, Steps(v, y)
      PROVE  Shape(x) /\ Grounded(x, proved)'
  <2>1. /\ x = y /\ Shape(x) /\ Grounded(x, proved) /\ (x.id \in Users \/ x.pc = "idle")
        /\ x.pc # "insert"
    BY <1>3 DEF Steps, Typed, Shape
  <2> QED BY <2>1, GroundedStays
<1>4. \/ x = h[v]
      \/ \E y : Arrives(v, y) \/ Steps(v, y)
  BY WorkerStep DEF Arrives, Steps, Typed
<1> QED BY <1>1, <1>2, <1>3, <1>4

LEMMA InsertersApartStep ==
    ASSUME IInv, [Next]_vars
    PROVE  InsertersApart'
<1> USE DEF IInv
<1>1. CASE h' = h
  BY <1>1 DEF InsertersApart
<1>2. ASSUME NEW w \in Workers, NEW x, Arrives(w, x)
      PROVE  InsertersApart'
  BY <1>2 DEF Arrives, InsertersApart, Typed
<1>3. ASSUME NEW w \in Workers, NEW x, Steps(w, x)
      PROVE  InsertersApart'
  BY <1>3 DEF Steps, InsertersApart, Typed
<1> QED BY <1>1, <1>2, <1>3, WorkerStep

LEMMA LinksOwnedStep ==
    ASSUME IInv, [Next]_vars
    PROVE  LinksOwned'
<1> USE DEF IInv
<1>0. now \in Nat
  BY DEF Typed, Time
<1>1. ASSUME NEW w \in Workers, Insert(w)
      PROVE  LinksOwned'
  <2>1. /\ h[w].id \in Users /\ h[w].row # NoRow /\ now' = now
        /\ \/ UNCHANGED <<users, links>>
           \/ /\ users' = [users EXCEPT ![h[w].id] = h[w].row]
              /\ links' \in {links, NewLink(h[w].id)}
    BY <1>1, InsertEffect, Inputs DEF Insert, Doing
  <2>2. \A u \in Users : users[u] # NoRow => users'[u] # NoRow
    BY <2>1 DEF Typed
  <2>3. CASE links' = links
    BY <2>1, <2>2, <2>3 DEF LinksOwned, Typed, Link
  <2>4. CASE /\ users' = [users EXCEPT ![h[w].id] = h[w].row]
             /\ links' = NewLink(h[w].id)
    <3>1. \A t \in Links : links'[t] \in {links[t], [user |-> h[w].id, since |-> now]}
      BY <2>1, <2>4, NewLinkIs
    <3>2. users'[h[w].id] # NoRow
      BY <2>1, <2>4 DEF Typed
    <3>3. ASSUME NEW t \in Links, links'[t] # NoLink
          PROVE  users'[links'[t].user] # NoRow /\ links'[t].since <= now
      BY <1>0, <2>2, <3>1, <3>2, <3>3 DEF LinksOwned, Typed, Link
    <3> QED BY <2>1, <3>3 DEF LinksOwned
  <2> QED BY <2>1, <2>3, <2>4
<1>2. ASSUME NEW w \in Workers, SendLink(w)
      PROVE  LinksOwned'
  <2>1. h[w].id \in Users /\ users' = users /\ now' = now
    BY <1>2, HandlerIs DEF SendLink, Doing, Shape
  <2>2. CASE links' = links
    BY <2>1, <2>2 DEF LinksOwned
  <2>3. CASE users[h[w].id] # NoRow /\ links' = NewLink(h[w].id)
    <3>1. \A t \in Links : links'[t] \in {links[t], [user |-> h[w].id, since |-> now]}
      BY <2>1, <2>3, NewLinkIs
    <3>2. ASSUME NEW t \in Links, links'[t] # NoLink
          PROVE  users[links'[t].user] # NoRow /\ links'[t].since <= now
      BY <1>0, <2>3, <3>1, <3>2 DEF LinksOwned
    <3> QED BY <2>1, <3>2 DEF LinksOwned
  <2> QED BY <1>2, <2>2, <2>3 DEF SendLink
<1>3. ASSUME NEW w \in Workers, Unlink(w)
      PROVE  LinksOwned'
  <2>1. users' = users /\ now' = now /\ \A t \in Links : links'[t] \in {links[t], NoLink}
    BY <1>3, LinksWithoutIs DEF Unlink, Doing, Typed
  <2> QED BY <2>1 DEF LinksOwned
<1>4. ASSUME NEW w \in Workers, Write(w)
      PROVE  LinksOwned'
  <2>1. links' = links /\ now' = now
    BY <1>4 DEF Write, Doing
  <2>2. \A u \in Users : users[u] # NoRow => users'[u] # NoRow
    BY <1>4, WriteEffect, MendedIs, Inputs DEF Typed
  <2> QED BY <2>1, <2>2 DEF LinksOwned, Typed, Link
<1>5. ASSUME NEW w \in Workers, Delete(w)
      PROVE  LinksOwned'
  <2>1. /\ h[w].id \in Users /\ now' = now /\ links' = LinksWithout(h[w].id)
        /\ users' = [users EXCEPT ![h[w].id] = NoRow]
    BY <1>5, HandlerIs DEF Delete, Doing, Shape
  <2>2. ASSUME NEW t \in Links, links'[t] # NoLink
        PROVE  users'[links'[t].user] # NoRow /\ links'[t].since <= now
    <3>1. links'[t] = links[t] /\ links[t].user # h[w].id
      BY <2>1, <2>2, LinksWithoutIs
    <3> QED BY <2>1, <2>2, <3>1 DEF LinksOwned, Typed, Link
  <2> QED BY <2>1, <2>2 DEF LinksOwned
<1>6. CASE Tick
  BY <1>0, <1>6 DEF Tick, tables, LinksOwned, Typed, Link, Time
<1>7. CASE UNCHANGED <<users, links, now>>
  BY <1>7 DEF LinksOwned
<1>8. ASSUME NEW w \in Workers, Arrive(w)
      PROVE  UNCHANGED <<users, links, now>>
  BY <1>8, ArriveEffect DEF Receive, tables
<1> QED BY <1>1, <1>2, <1>3, <1>4, <1>5, <1>6, <1>7, <1>8
        DEF Next, Step, vars, tables, history, Mark, Compare, Invalidate, Store, Abort, Doing

LEMMA VerifiedStep ==
    ASSUME IInv, [Next]_vars
    PROVE  VerifiedByOwnMail'
<1> USE DEF IInv
<1>1. proved \subseteq proved'
  BY KnownStep
<1>2. ASSUME NEW w \in Workers, Insert(w)
      PROVE  VerifiedByOwnMail'
  BY <1>1, <1>2, InsertEffect DEF VerifiedByOwnMail, Typed
<1>3. ASSUME NEW w \in Workers, Write(w)
      PROVE  VerifiedByOwnMail'
  <2>1. h[w].id \in Users /\ h[w].row \in Row /\ (h[w].row.verified => h[w].id \in proved)
    BY <1>3, WriteEffect, HandlerIs DEF Grounded, Saving
  <2>2. CASE users' = users
    BY <1>1, <2>2 DEF VerifiedByOwnMail
  <2>3. CASE users' = [users EXCEPT ![h[w].id] = h[w].row]
    BY <1>1, <2>1, <2>3 DEF VerifiedByOwnMail, Typed
  <2>4. CASE /\ users[h[w].id] \in Row /\ users[h[w].id] # NoRow
             /\ users' = [users EXCEPT ![h[w].id] = Mended(users[h[w].id], h[w].row, h[w].diff)]
    <3> DEFINE row == Mended(users[h[w].id], h[w].row, h[w].diff)
    <3>1. row.verified \in {users[h[w].id].verified, h[w].row.verified}
      BY <2>1, <2>4, MendedIs
    <3>2. row.verified => h[w].id \in proved
      BY <2>1, <2>4, <3>1 DEF VerifiedByOwnMail
    <3>3. users' = [users EXCEPT ![h[w].id] = row]
      BY <2>4
    <3> HIDE DEF row
    <3> QED BY <1>1, <2>1, <3>2, <3>3 DEF VerifiedByOwnMail, Typed
  <2> QED BY <1>3, <2>2, <2>3, <2>4, WriteEffect
<1>4. ASSUME NEW w \in Workers, Delete(w)
      PROVE  VerifiedByOwnMail'
  BY <1>1, <1>4 DEF Delete, VerifiedByOwnMail, Typed
<1>5. CASE users' = users
  BY <1>1, <1>5 DEF VerifiedByOwnMail
<1>6. ASSUME NEW w \in Workers, Arrive(w)
      PROVE  users' = users
  BY <1>6, ArriveEffect DEF Receive, tables
<1> QED BY <1>2, <1>3, <1>4, <1>5, <1>6
        DEF Next, Step, vars, tables, history, Unlink, SendLink, Mark, Compare, Invalidate, Store,
            Abort, Tick

-----------------------------------------------------------------------------
(* The invariant.                                                          *)

LEMMA InitIInv == Init => IInv
<1> SUFFICES ASSUME Init
             PROVE  IInv
  OBVIOUS
<1>1. /\ InitialUsers \subseteq [Users -> Row \cup {NoRow}] /\ SignedIn \subseteq Users
      /\ MaxTime \in Nat /\ MaxRequests \in Nat /\ MaxAborts \in Nat
  BY InputsAssumption, ClockAssumption
<1>2. 0 \in Time /\ \A u \in Users : IssuedAtStart(u) \in Token
  BY <1>1 DEF IssuedAtStart, Time, Token
<1>3. Typed
  <2>1. h \in [Workers -> Handler]
    BY RestingFits DEF Init
  <2>2. /\ stored \in [Users -> Token \cup {NoToken}] /\ signedOut = {}
        /\ cookies \subseteq Token
        /\ access \in [Users -> Time \cup {NoToken}]
    BY <1>1, <1>2 DEF Init
  <2>3. users \in [Users -> Row \cup {NoRow}] /\ links \in [Links -> Link \cup {NoLink}]
    BY <1>1 DEF Init
  <2>4. now \in Time /\ requests \in 0 .. MaxRequests /\ aborts \in 0 .. MaxAborts
    BY <1>1, <1>2 DEF Init
  <2>5. proved \subseteq Users
    BY DEF Init
  <2>6. gone = {} /\ used = {} /\ overlapped \in BOOLEAN
    BY DEF Init
  <2> QED BY <2>1, <2>2, <2>3, <2>4, <2>5, <2>6 DEF Typed
<1>4. Handlers /\ InsertersApart
  BY RestingFits DEF Init, Handlers, InsertersApart
<1>5. LinksOwned /\ VerifiedByOwnMail
  BY DEF Init, LinksOwned, VerifiedByOwnMail
<1> QED BY <1>3, <1>4, <1>5 DEF IInv

LEMMA StepIInv == IInv /\ [Next]_vars => IInv'
<1> SUFFICES ASSUME IInv, [Next]_vars
             PROVE  IInv'
  OBVIOUS
<1> QED BY TypedStep, HandlersStep, InsertersApartStep, LinksOwnedStep, VerifiedStep DEF IInv

LEMMA Invariant == Spec => []IInv
  BY InitIInv, StepIInv, PTL DEF Spec

\* Type correctness.
THEOREM TypeCorrect == Spec => []TypeOK
<1>1. IInv => TypeOK
  BY HandlerIs DEF IInv, Typed, TypeOK, Handler, Pcs
<1> QED BY <1>1, Invariant, PTL

\* Nobody is verified without a link from their own mail, whatever stale copies of
\* a row are saved.
THEOREM VerifiedOwnMail == Spec => []VerifiedByOwnMail
<1>1. IInv => VerifiedByOwnMail
  BY DEF IInv
<1> QED BY <1>1, Invariant, PTL

\* What a step writes to a row that is there: a password only by a handler that
\* carries the one it was asked for.
LEMMA PasswordStep ==
    ASSUME IInv, [Next]_vars, NEW u \in Users,
           users[u] # NoRow, users'[u] # NoRow, users[u].password # users'[u].password
    PROVE  \E w \in Workers : /\ h[w].id = u /\ h[w].pc = "write"
                              /\ h[w].req.op \in PasswordOps
                              /\ users'[u].password = h[w].req.password
<1> USE DEF IInv
<1>1. ASSUME NEW w \in Workers, Insert(w)
      PROVE  FALSE
  <2>1. users[h[w].id] = NoRow
    BY <1>1, InsertEffect DEF Known
  <2> QED BY <1>1, <2>1, InsertEffect DEF Typed
<1>2. ASSUME NEW w \in Workers, Delete(w)
      PROVE  FALSE
  BY <1>2 DEF Delete, Typed
<1>3. ASSUME NEW w \in Workers, Write(w)
      PROVE  /\ h[w].id = u /\ h[w].pc = "write"
             /\ h[w].req.op \in PasswordOps
             /\ users'[u].password = h[w].req.password
  <2>1. h[w].pc = "write" /\ h[w].id \in Users /\ h[w].row \in Row /\ Shape(h[w])
    BY <1>3, WriteEffect, HandlerIs
  <2>2. /\ users[h[w].id] \in Row
        /\ users' = [users EXCEPT ![h[w].id] = Mended(users[h[w].id], h[w].row, h[w].diff)]
        /\ h[w].id = u
    BY <1>3, WriteEffect DEF Typed
  <2>3. users'[u].password
          = IF "password" \in h[w].diff THEN h[w].row.password ELSE users[u].password
    BY <2>1, <2>2, MendedIs DEF Typed
  <2>4. "password" \in h[w].diff /\ users'[u].password = h[w].row.password
    BY <2>3
  <2> QED BY <2>1, <2>2, <2>4 DEF Shape, Saving
<1>4. CASE users' = users
  BY <1>4
<1>5. ASSUME NEW w \in Workers, Arrive(w)
      PROVE  users' = users
  BY <1>5, ArriveEffect DEF Receive, tables
<1> QED BY <1>1, <1>2, <1>3, <1>4, <1>5
        DEF Next, Step, vars, tables, history, Unlink, SendLink, Mark, Compare, Invalidate, Store,
            Abort, Tick

\* A password changes only where its owner knew the old one or came with a link from
\* the mail: no save of an old copy takes a new password back.
THEOREM PasswordsNeedSecrets == Spec => PasswordNeedsSecret
<1>1. IInv /\ [Next]_vars =>
        [\A u \in Users :
          users[u] # NoRow /\ users'[u] # NoRow /\ users[u].password # users'[u].password
            => \E w \in Workers : /\ h[w].id = u /\ h[w].pc = "write"
                                  /\ h[w].req.op \in PasswordOps
                                  /\ users'[u].password = h[w].req.password]_vars
  BY PasswordStep
<1> QED BY <1>1, Invariant, PTL DEF Spec, PasswordNeedsSecret

LEMMA RemovedStep ==
    ASSUME IInv, [Next]_vars, NEW u \in gone, users[u] = NoRow, users'[u] # NoRow
    PROVE  \E w \in Workers : h[w].id = u /\ h[w].req.op \in PasswordOps
<1> USE DEF IInv
<1>0. u \in Users
  BY DEF Typed
<1>1. ASSUME NEW w \in Workers, Insert(w)
      PROVE  FALSE
  <2>1. h[w].id # u
    BY <1>1, InsertEffect DEF Known
  <2> QED BY <1>0, <1>1, <2>1, InsertEffect DEF Typed
<1>2. ASSUME NEW w \in Workers, Delete(w)
      PROVE  FALSE
  BY <1>0, <1>2 DEF Delete, Typed
<1>3. ASSUME NEW w \in Workers, Write(w)
      PROVE  h[w].id = u /\ h[w].req.op \in PasswordOps
  <2>1. h[w].pc = "write" /\ h[w].id \in Users /\ Shape(h[w])
    BY <1>3, WriteEffect, HandlerIs
  <2>2. h[w].id = u /\ "id" \in h[w].diff
    BY <1>0, <1>3, WriteEffect DEF Typed
  <2> QED BY <2>1, <2>2 DEF Shape, Saving
<1>4. CASE users' = users
  BY <1>4
<1>5. ASSUME NEW w \in Workers, Arrive(w)
      PROVE  users' = users
  BY <1>5, ArriveEffect DEF Receive, tables
<1> QED BY <1>1, <1>2, <1>3, <1>4, <1>5
        DEF Next, Step, vars, tables, history, Unlink, SendLink, Mark, Compare, Invalidate, Store,
            Abort, Tick

\* A user who was removed comes back only by a password handler.
THEOREM RemovedStays == Spec => RemovedStaysRemoved
<1>1. IInv /\ [Next]_vars =>
        [\A u \in gone :
          users[u] = NoRow /\ users'[u] # NoRow
            => \E w \in Workers : h[w].id = u /\ h[w].req.op \in PasswordOps]_vars
  BY RemovedStep
<1> QED BY <1>1, Invariant, PTL DEF Spec, RemovedStaysRemoved

-----------------------------------------------------------------------------
(* The hour on the clock.                                                  *)

LEMMA DivMonotone ==
    ASSUME NEW x \in Nat, NEW y \in Nat, NEW d \in Nat \ {0}, x <= y
    PROVE  x \div d <= y \div d
<1> DEFINE a == x \div d
           b == y \div d
<1>1. a \in Nat /\ b \in Nat
  OBVIOUS
<1>2. a * d <= x /\ y < (b + 1) * d
  OBVIOUS
<1> HIDE DEF a, b
<1>3. ASSUME b < a
      PROVE  FALSE
  <2>1. a - (b + 1) \in Nat
    BY <1>1, <1>3
  <2>2. (a - (b + 1)) * d \in Nat
    BY <2>1
  <2>3. (a - (b + 1)) * d = a * d - (b + 1) * d
    BY <1>1
  <2>4. a * d \in Nat /\ (b + 1) * d \in Nat
    BY <1>1
  <2> QED BY <1>2, <2>2, <2>3, <2>4
<1> QED BY <1>1, <1>3 DEF a, b

\* The hand moves no further than the time.
LEMMA HandMoves ==
    ASSUME NEW a \in Nat, NEW b \in Nat, NEW m \in Nat \ {0}, b <= a
    PROVE  (a % m) - (b % m) <= a - b
<1> DEFINE p == a \div m
           q == b \div m
<1>1. p \in Nat /\ q \in Nat /\ q <= p
  BY DivMonotone
<1>2. a % m = a - m * p
  BY Z3
<1>3. b % m = b - m * q
  BY Z3
<1> HIDE DEF p, q
<1>4. p - q \in Nat
  BY <1>1
<1>5. m * (p - q) \in Nat
  BY <1>4
<1>6. m * (p - q) = m * p - m * q /\ m * p \in Nat /\ m * q \in Nat
  BY <1>1
<1> QED BY <1>2, <1>3, <1>5, <1>6

\* A link that is young enough is never refused, though only the minutes of the hour are
\* compared (users.service.ts:300).
THEOREM YoungLinks == Spec => []YoungLinkHonoured
<1>1. ASSUME IInv, NEW t \in Links, links[t] # NoLink,
             now \div SecondsPerMinute - links[t].since \div SecondsPerMinute <= ResetMinutes
      PROVE  ~ResetExpired(links[t].since)
  <2> DEFINE a == now \div SecondsPerMinute
             b == links[t].since \div SecondsPerMinute
  <2>1. now \in Nat /\ links[t].since \in Nat /\ links[t].since <= now
    BY <1>1 DEF IInv, Typed, Link, Time, LinksOwned
  <2>2. SecondsPerMinute \in Nat \ {0} /\ MinutesPerHour \in Nat \ {0} /\ ResetMinutes \in Nat
    BY Inputs
  <2>3. a \in Nat /\ b \in Nat
    BY <2>1, <2>2
  <2>4. b <= a
    BY <2>1, <2>2, DivMonotone
  <2>5. a - b <= ResetMinutes
    BY <1>1
  <2>9. MinuteOfHour(now) = a % MinutesPerHour /\ MinuteOfHour(links[t].since) = b % MinutesPerHour
    BY DEF MinuteOfHour
  <2> HIDE DEF a, b
  <2>6. (a % MinutesPerHour) - (b % MinutesPerHour) <= a - b
    BY <2>2, <2>3, <2>4, HandMoves
  <2>7. a % MinutesPerHour \in Int /\ b % MinutesPerHour \in Int
    BY <2>2, <2>3
  <2>8. ~((a % MinutesPerHour) - (b % MinutesPerHour) > ResetMinutes)
    BY <2>2, <2>3, <2>5, <2>6, <2>7
  <2>10. ~(MinuteOfHour(now) - MinuteOfHour(links[t].since) > ResetMinutes)
    BY <2>8, <2>9
  <2> QED BY <2>10 DEF ResetExpired
<1>2. IInv => YoungLinkHonoured
  BY <1>1 DEF YoungLinkHonoured
<1> QED BY <1>2, Invariant, PTL

-----------------------------------------------------------------------------
(* Tokens.                                                                 *)

LEMMA SerialInit == Init => Serial
<1> SUFFICES ASSUME Init
             PROVE  Serial
  OBVIOUS
<1>1. OneAtATime
  BY RestingFits DEF Init, OneAtATime
<1>2. TokensInOrder
  <2>1. \A w \in Workers : ~Issuing(h[w])
    BY RestingFits DEF Init
  <2>2. used = {} /\ now = 0
    BY DEF Init
  <2>3. \A u \in Users : stored[u] # NoToken => stored[u].user = u /\ stored[u].iat = 0
    BY DEF Init, IssuedAtStart
  <2> QED BY <2>1, <2>2, <2>3 DEF TokensInOrder
<1> QED BY <1>1, <1>2 DEF Serial

\* A request that finds nobody at work leaves one at work; a step adds nobody.
LEMMA OneStep ==
    ASSUME IInv, [Next]_vars, ~overlapped', overlapped \/ OneAtATime
    PROVE  ~overlapped /\ OneAtATime'
<1> USE DEF IInv
<1>1. ASSUME NEW w \in Workers, Arrive(w)
      PROVE  ~overlapped /\ OneAtATime'
  <2>1. PICK x : Arrives(w, x)
    BY <1>1, ArriveEffect
  <2>2. ~overlapped /\ \A v \in Workers \ {w} : h[v].pc = "idle"
    BY <1>1, ArriveEffect DEF Receive
  <2>3. \A v \in Workers : v # w => h'[v].pc = "idle"
    BY <2>1, <2>2 DEF Arrives, Typed
  <2> QED BY <2>2, <2>3 DEF OneAtATime
<1>2. ASSUME NEW w \in Workers, Step(w) \/ Abort(w)
      PROVE  ~overlapped /\ OneAtATime'
  <2>1. overlapped' = overlapped /\ h[w].pc # "idle"
    BY <1>2 DEF Step, Insert, Unlink, SendLink, Mark, Compare, Write, Delete, Invalidate, Store,
                Doing, Abort, history
  <2>2. PICK x : Steps(w, x)
    BY <1>2, StepSteps
  <2>3. \A v \in Workers : v # w => h[v].pc = "idle" /\ h'[v] = h[v]
    BY <2>1, <2>2 DEF OneAtATime, Steps, Typed
  <2> QED BY <2>1, <2>3 DEF OneAtATime
<1>3. CASE Tick \/ UNCHANGED vars
  BY <1>3 DEF Tick, vars, history, OneAtATime
<1> QED BY <1>1, <1>2, <1>3 DEF Next

\* The tables and the clock as they were, and no token but one issued now.
LEMMA IssueStep ==
    ASSUME IInv, TokensInOrder, UNCHANGED <<stored, used, now>>,
           \A v \in Workers : Issuing(h'[v]) =>
              \/ h'[v] = h[v]
              \/ h'[v].id \in Users /\ h'[v].token.iat = now
    PROVE  TokensInOrder'
<1>1. now \in Nat
  BY DEF IInv, Typed, Time
<1>2. ASSUME NEW v \in Workers, Issuing(h'[v])
      PROVE  /\ h'[v].token.iat <= now
             /\ stored[h'[v].id] # NoToken => stored[h'[v].id].iat <= h'[v].token.iat
             /\ \A x \in used : x.token.user = h'[v].id => x.at <= h'[v].token.iat
  BY <1>1, <1>2 DEF TokensInOrder
<1> QED BY <1>2 DEF TokensInOrder

LEMMA TokensStep ==
    ASSUME IInv, ~overlapped, OneAtATime, TokensInOrder, [Next]_vars
    PROVE  TokensInOrder'
<1> USE DEF IInv
<1>1. ASSUME NEW w \in Workers, Arrive(w)
      PROVE  TokensInOrder'
  <2>1. PICK x : Arrives(w, x)
    BY <1>1, ArriveEffect
  <2>2. UNCHANGED <<stored, used, now>>
    BY <1>1, ArriveEffect DEF Receive, tables
  <2>3. \A v \in Workers : v # w => h'[v] = h[v]
    BY <2>1 DEF Arrives, Typed
  <2>4. Issuing(h'[w]) => h'[w].id \in Users /\ h'[w].token.iat = now
    BY <2>1 DEF Arrives, Typed, Shape, Issuing
  <2> QED BY <2>2, <2>3, <2>4, IssueStep
<1>2. ASSUME NEW w \in Workers, Step(w) \/ Abort(w), UNCHANGED <<stored, used, now>>,
             h[w].pc # "invalidate"
      PROVE  TokensInOrder'
  <2>1. PICK x : Steps(w, x)
    BY <1>2, StepSteps
  <2>2. \A v \in Workers : v # w => h'[v] = h[v]
    BY <2>1 DEF Steps, Typed
  <2>3. Issuing(h'[w]) => h'[w].id \in Users /\ h'[w].token.iat = now
    BY <1>2, <2>1 DEF Steps, Typed, Shape, Issuing
  <2> QED BY <1>2, <2>2, <2>3, IssueStep
<1>3. ASSUME NEW w \in Workers, Invalidate(w)
      PROVE  TokensInOrder'
  <2>1. PICK x : Steps(w, x)
    BY <1>3, StepSteps DEF Step
  <2>2. /\ h[w].pc = "invalidate" /\ h[w].id \in Users /\ now' = now
        /\ stored' = [stored EXCEPT ![h[w].id] = NoToken]
    BY <1>3, HandlerIs DEF Invalidate, Doing, Shape
  <2>3. /\ \A v \in Workers : v # w => ~Issuing(h'[v])
        /\ h'[w] = x
    BY <2>1, <2>2 DEF Steps, Typed, OneAtATime, Issuing
  <2>4. CASE h[w].req.op # "refresh"
    <3>1. used' = used /\ ~Issuing(h'[w])
      BY <1>3, <2>1, <2>3, <2>4 DEF Invalidate, Steps, Issuing, Answer, Resting, Typed
    <3> QED BY <2>2, <2>3, <3>1 DEF TokensInOrder, Typed, Token
  <2>5. CASE h[w].req.op = "refresh"
    <3> DEFINE old == stored[h[w].id]
               at == h[w].token.iat
    <3>1. Issuing(h[w]) /\ at \in Nat
      BY <2>2, <2>5, HandlerIs DEF Issuing, Shape, Token, Time
    <3>2. used' = used \cup {[token |-> t, at |-> at] : t \in {old} \ {NoToken}}
      BY <1>3, <2>5 DEF Invalidate
    <3>3. /\ at <= now
          /\ old # NoToken => old.iat <= at /\ old.user = h[w].id
          /\ \A y \in used : y.token.user = h[w].id => y.at <= at
      BY <2>2, <3>1 DEF TokensInOrder
    <3>4. Issuing(x) => x.token.iat = at /\ x.id = h[w].id
      BY <2>1, <2>2 DEF Steps
    <3> HIDE DEF old, at
    <3>5. \A y \in used' : y \in used \/ (y.token = old /\ old # NoToken /\ y.at = at)
      BY <3>2
    <3>6. \A u \in Users : stored'[u] # NoToken => u # h[w].id /\ stored'[u] = stored[u]
      BY <2>2 DEF Typed
    <3>7. \A y \in used : y.token.user \in Users
      BY DEF Typed, Token
    <3>8. \A u \in Users : stored'[u] # NoToken => stored'[u].user = u /\ stored'[u].iat <= now
      BY <3>6 DEF TokensInOrder
    <3>9. \A y \in used' : y.token.iat <= y.at /\ y.at <= now
      BY <3>3, <3>5 DEF TokensInOrder
    <3>10. \A y \in used' : stored'[y.token.user] # NoToken => y.at <= stored'[y.token.user].iat
      BY <2>2, <3>3, <3>5, <3>6, <3>7 DEF TokensInOrder
    <3>11. ASSUME NEW v \in Workers, Issuing(h'[v])
           PROVE  /\ h'[v].token.iat <= now
                  /\ stored'[h'[v].id] # NoToken => stored'[h'[v].id].iat <= h'[v].token.iat
                  /\ \A y \in used' : y.token.user = h'[v].id => y.at <= h'[v].token.iat
      <4>1. v = w /\ h'[v].token.iat = at /\ h'[v].id = h[w].id
        BY <2>3, <3>4, <3>11
      <4> QED BY <2>2, <3>1, <3>3, <3>5, <3>6, <4>1
    <3> QED BY <2>2, <3>8, <3>9, <3>10, <3>11 DEF TokensInOrder
  <2> QED BY <2>4, <2>5
<1>4. ASSUME NEW w \in Workers, Store(w)
      PROVE  TokensInOrder'
  <2>1. /\ h[w].pc = "store" /\ h[w].id \in Users /\ h[w].token.user = h[w].id
        /\ stored' = [stored EXCEPT ![h[w].id] = h[w].token]
        /\ used' = used /\ now' = now /\ h' = [h EXCEPT ![w] = Resting]
    BY <1>4, HandlerIs DEF Store, Doing, Shape, Issuing, Answer
  <2>2. \A v \in Workers : ~Issuing(h'[v])
    BY <2>1, RestingFits DEF Typed, OneAtATime, Issuing
  <2>3. Issuing(h[w])
    BY <2>1 DEF Issuing
  <2> QED BY <2>1, <2>2, <2>3 DEF TokensInOrder, Typed, Token
<1>5. CASE Tick
  <2>1. UNCHANGED <<stored, used, h>> /\ now' = now + 1 /\ now \in Nat
    BY <1>5 DEF Tick, tables, history, Typed, Time
  <2>2. /\ \A u \in Users : stored[u] # NoToken => stored[u].iat \in Nat
        /\ \A y \in used : y.at \in Nat
        /\ \A v \in Workers : Issuing(h[v]) => h[v].token.iat \in Nat
    BY HandlerIs DEF Typed, Token, Time, Shape
  <2> QED BY <2>1, <2>2 DEF TokensInOrder
<1>6. CASE UNCHANGED vars
  BY <1>6 DEF vars, tables, history, TokensInOrder, Issuing
<1>7. ASSUME NEW w \in Workers, Step(w) \/ Abort(w)
      PROVE  \/ Invalidate(w) \/ Store(w)
             \/ h[w].pc # "invalidate" /\ UNCHANGED <<stored, used, now>>
             \/ Abort(w) /\ Answer(w) /\ UNCHANGED <<stored, used, now>>
  BY <1>7 DEF Step, Insert, Unlink, SendLink, Mark, Compare, Write, Delete, Doing, Abort, tables,
              history
<1>8. ASSUME NEW w \in Workers, Answer(w), UNCHANGED <<stored, used, now>>
      PROVE  TokensInOrder'
  BY <1>8, RestingFits, IssueStep DEF Answer, Typed
<1> QED BY <1>1, <1>2, <1>3, <1>4, <1>5, <1>6, <1>7, <1>8 DEF Next

LEMMA SerialInvariant == Spec => []Serial
<1>1. IInv /\ Serial /\ [Next]_vars => Serial'
  <2> SUFFICES ASSUME IInv, Serial, [Next]_vars, ~overlapped'
               PROVE  OneAtATime' /\ TokensInOrder'
    BY DEF Serial
  <2>1. ~overlapped /\ OneAtATime'
    BY OneStep DEF Serial
  <2> QED BY <2>1, TokensStep DEF Serial
<1> QED BY <1>1, SerialInit, Invariant, PTL DEF Spec

\* As long as requests do not overlap, a refresh token that was exchanged is not good
\* again, unless it was exchanged in the second it was issued.
THEOREM ExchangedDies == Spec => []ExchangedIsDead
<1>1. ASSUME IInv, Serial, ~overlapped, NEW x \in used, Accepted(x.token)
      PROVE  x.token.iat = x.at
  <2>1. x.token \in Token /\ x.token.user \in Users /\ x.token.iat \in Nat /\ x.at \in Nat
    BY <1>1 DEF IInv, Typed, Token, Time
  <2>2. stored[x.token.user] = x.token /\ x.token # NoToken
    BY <1>1, <2>1, Inputs DEF Accepted
  <2>3. x.at <= x.token.iat /\ x.token.iat <= x.at
    BY <1>1, <2>2 DEF Serial, TokensInOrder
  <2> QED BY <2>1, <2>3
<1>2. IInv /\ Serial => ExchangedIsDead
  BY <1>1 DEF ExchangedIsDead
<1> QED BY <1>2, Invariant, SerialInvariant, PTL

-----------------------------------------------------------------------------
(* Log-outs.                                                               *)

\* A request for a session of somebody who logged out is a sign-in or a link, and
\* ends the log-out.
LEMMA LogoutsArrive ==
    ASSUME IInv, LogoutsHold, NEW w \in Workers, Arrive(w)
    PROVE  LogoutsHold'
<1>1. PICK x : Arrives(w, x)
  BY ArriveEffect
<1>2. /\ stored' = stored /\ signedOut' = {u \in signedOut : ~ComesBack(h'[w], u)}
      /\ h' = [h EXCEPT ![w] = x] /\ h \in [Workers -> Handler]
  BY <1>1, ArriveEffect DEF Arrive, Receive, tables, Arrives, IInv, Typed
<1>3. ASSUME NEW u \in signedOut'
      PROVE  ~SigningIn(x, u)
  <2>1. u \in signedOut /\ ~ComesBack(x, u)
    BY <1>2
  <2>2. stored[u] = NoToken
    BY <2>1 DEF LogoutsHold
  <2> QED BY <1>1, <2>1, <2>2 DEF Arrives, ComesBack, SigningIn
<1> QED BY <1>2, <1>3 DEF LogoutsHold

LEMMA LogoutsStep ==
    ASSUME IInv, LogoutsHold, NEW w \in Workers, Step(w) \/ Abort(w)
    PROVE  LogoutsHold'
<1>1. PICK x : Steps(w, x)
  BY StepSteps
<1>2. /\ h' = [h EXCEPT ![w] = x] /\ h \in [Workers -> Handler] /\ signedOut \subseteq Users
      /\ stored \in [Users -> Token \cup {NoToken}]
  BY <1>1 DEF Steps, IInv, Typed
<1>3. ASSUME NEW u, ~SigningIn(h[w], u), h[w].id # NoRow \/ u \in Users
      PROVE  ~SigningIn(x, u)
  <2>1. CASE x.pc = "idle"
    <3>1. x.req.op = "none"
      BY <1>1, <2>1, RestingFits DEF Steps, Shape
    <3> QED BY <3>1 DEF SigningIn, SessionOps
  <2>2. CASE x.pc # "idle"
    BY <1>1, <1>3, <2>2 DEF Steps, SigningIn
  <2> QED BY <2>1, <2>2
<1>4. CASE UNCHANGED <<stored, signedOut>>
  BY <1>2, <1>3, <1>4 DEF LogoutsHold
<1>5. CASE Store(w)
  <2>1. /\ h[w].pc = "store" /\ h[w].id \in Users /\ h[w].req.op \in SessionOps
        /\ signedOut' = signedOut
        /\ \A u \in Users : u # h[w].id => stored'[u] = stored[u]
    BY <1>2, <1>5, HandlerIs DEF Store, Doing, Shape
  <2>2. h[w].id \notin signedOut
    BY <2>1 DEF LogoutsHold, SigningIn
  <2> QED BY <1>2, <1>3, <2>1, <2>2 DEF LogoutsHold
<1>6. CASE Invalidate(w)
  <2>1. /\ h[w].id \in Users /\ stored' = [stored EXCEPT ![h[w].id] = NoToken]
        /\ \A u \in Users : u \in signedOut' =>
              \/ u \in signedOut
              \/ u = h[w].id /\ \A v \in Workers : ~SigningIn(h[v], u)
        /\ signedOut' \subseteq Users
    BY <1>2, <1>6, HandlerIs DEF Invalidate, Doing, Shape
  <2> QED BY <1>2, <1>3, <2>1 DEF LogoutsHold
<1> QED BY <1>4, <1>5, <1>6
        DEF Step, Insert, Unlink, SendLink, Mark, Compare, Write, Delete, Abort, tables, history

\* authentication.service.ts: a log-out holds against every cookie the user was ever given
\* and any number of refreshes, until a sign-in or a verified link.
THEOREM LogoutHolds == Spec => []SignedOutStaysOut
<1>1. Init => LogoutsHold
  BY DEF Init, LogoutsHold
<1>2. IInv /\ LogoutsHold /\ [Next]_vars => LogoutsHold'
  <2> SUFFICES ASSUME IInv, LogoutsHold, [Next]_vars
               PROVE  LogoutsHold'
    OBVIOUS
  <2>1. CASE Tick \/ UNCHANGED vars
    BY <2>1 DEF Tick, vars, tables, history, LogoutsHold, SigningIn
  <2> QED BY <2>1, LogoutsArrive, LogoutsStep DEF Next
<1>3. ASSUME IInv, LogoutsHold, NEW t \in cookies, t.user \in signedOut
      PROVE  ~Accepted(t)
  <2>1. t \in Token /\ stored[t.user] = NoToken
    BY <1>3 DEF IInv, Typed, LogoutsHold
  <2> QED BY <2>1, Inputs DEF Accepted
<1>4. IInv /\ LogoutsHold => SignedOutStaysOut
  BY <1>3 DEF SignedOutStaysOut
<1> QED BY <1>1, <1>2, <1>4, Invariant, PTL DEF Spec
=============================================================================
