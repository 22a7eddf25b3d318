------------------------------ MODULE Accounts ------------------------------
(***************************************************************************)
(* Accounts: the rows of "users", the links mailed to verify an address or *)
(* to reset a password ("verifications"), the refresh tokens kept in Redis *)
(* and the handlers of AuthenticationService and UsersService.             *)
(*                                                                         *)
(* As in SaleStock a step is the code between two awaits, and a save is a  *)
(* SELECT followed by an UPDATE of the columns that differ.  The password  *)
(* is not selected by default: an entity carries it only when a query asks *)
(* for it, or when the handler sets it.                                    *)
(*                                                                         *)
(* The clock counts seconds.  A signed token is its contents: two that are *)
(* issued to one user in one second for one lifetime are the same token.   *)
(***************************************************************************)
EXTENDS Integers, FiniteSets

CONSTANTS
    Users,           \* ids, of existing accounts or still to be given
    Emails, Passwords,
    Links,           \* tokens sent by mail
    Workers,         \* requests that may be in progress at the same time
    Requests,        \* what clients may ask, a subset of Request
    InitialUsers,    \* the tables the system may start with
    SignedIn,        \* users who hold tokens at the start
    SecondsPerMinute, MinutesPerHour,
    ResetMinutes,    \* a reset link is good for so long
    AccessLife, ShortLife, LongLife, \* lifetimes of signed tokens, in seconds
    MaxTime,         \* bound on the clock
    MaxRequests,     \* bound on the number of requests of a behaviour
    MaxAborts,       \* bound on the number of failing awaits of a behaviour
    NoRow, NoLink, NoToken

Roles == {"User", "Admin", "SuperAdmin"}

\* profile stands for the columns no code reads: name, phone, avatar, status.
Row == [email : Emails, password : Passwords, role : Roles,
        verified : BOOLEAN, mustChange : BOOLEAN, profile : {"old", "new"}]

Columns == {"email", "password", "role", "verified", "mustChange", "profile"}

Time == 0 .. MaxTime
Link == [user : Users, since : Time]
Token == [user : Users, iat : Time, long : BOOLEAN]

PasswordOps == {"changePassword", "resetPassword"}

\* The requests that end with a refresh token for their user.
SessionOps == {"signIn", "verifyEmail", "refresh"}

Request ==
    [op : {"signUp"}, email : Emails, password : Passwords, role : Roles]
        \cup [op : {"createAdmin"}, actor : Users, email : Emails, password : Passwords]
        \cup [op : {"signIn"}, email : Emails, password : Passwords]
        \cup [op : {"forgotPassword", "resendVerification"}, email : Emails]
        \cup [op : {"changePassword"}, actor : Users, user : Users,
              current : Passwords, password : Passwords]
        \cup [op : {"resetPassword"}, password : Passwords]
        \cup [op : {"editUser"}, actor : Users, user : Users, column : {"email"}, value : Emails]
        \cup [op : {"editUser"}, actor : Users, user : Users, column : {"role"}, value : Roles]
        \cup [op : {"editUser"}, actor : Users, user : Users, column : {"profile"}, value : {"new"}]
        \cup [op : {"remove"}, actor : Users, user : Users]
        \cup [op : {"verifyPhone"}, actor : Users, user : Users]
        \cup [op : {"verifyEmail", "refresh", "logout"}]

ASSUME InputsAssumption ==
    /\ Requests \subseteq Request
    /\ InitialUsers \subseteq [Users -> Row \cup {NoRow}]
    /\ SignedIn \subseteq Users
    /\ NoRow \notin Row /\ NoLink \notin Link /\ NoToken \notin Token \cup Time

ASSUME ClockAssumption ==
    /\ {SecondsPerMinute, MinutesPerHour} \subseteq Nat \ {0}
    /\ {ResetMinutes, AccessLife, ShortLife, LongLife, MaxTime, MaxRequests, MaxAborts} \subseteq Nat

VARIABLES
    users,      \* table users
    links,      \* table verifications, by token
    stored,     \* the refresh token Redis holds for each user
    cookies,    \* refresh tokens clients were given
    access,     \* when the last access token of each user was issued
    now,        \* the clock
    h,          \* the handler each worker runs
    requests, aborts,
    \* What happened, for the properties:
    gone,       \* users that were removed
    proved,     \* users who came back with a link from their mail, or need not
    signedOut,  \* users who logged out while no SessionOps were on the way for them, and
                \* who neither signed in nor came with a link since
    used,       \* refresh tokens exchanged for another, and when
    overlapped  \* two requests were in progress at the same time

tables == <<users, links, stored, cookies, access>>
history == <<gone, proved, signedOut, used, overlapped>>
vars == <<tables, now, h, requests, aborts, history>>

Resting ==
    [pc |-> "idle", req |-> [op |-> "none"],
     id |-> NoRow, row |-> NoRow,  \* the entity to be saved
     cols |-> {},                  \* the columns it carries
     diff |-> {},                  \* the columns the UPDATE will set
     link |-> NoLink, token |-> NoToken]

IssuedAtStart(u) == [user |-> u, iat |-> 0, long |-> TRUE]

Init ==
    /\ users \in InitialUsers
    /\ links = [t \in Links |-> NoLink]
    /\ stored = [u \in Users |-> IF u \in SignedIn THEN IssuedAtStart(u) ELSE NoToken]
    /\ cookies = {IssuedAtStart(u) : u \in SignedIn}
    /\ access = [u \in Users |-> IF u \in SignedIn THEN 0 ELSE NoToken]
    /\ now = 0 /\ requests = 0 /\ aborts = 0
    /\ h = [w \in Workers |-> Resting]
    /\ gone = {} /\ used = {} /\ overlapped = FALSE
    /\ proved = {u \in Users : users[u] # NoRow /\ users[u].verified}
    /\ signedOut = {}

(***************************************************************************)
(* Clocks, tokens and guards.                                              *)
(***************************************************************************)
MinuteOfHour(t) == (t \div SecondsPerMinute) % MinutesPerHour

\* Plausible bug: the distance of the two minutes on the face of the clock.
ResetExpiredByDistance(since) ==
    LET difference == MinuteOfHour(now) - MinuteOfHour(since)
    IN  (IF difference < 0 THEN -difference ELSE difference) > ResetMinutes

\* resetPassword compares the minutes of the hour, whatever the hour.
ResetExpired(since) == MinuteOfHour(now) - MinuteOfHour(since) > ResetMinutes

VerificationExpired(since) == now - since > MinutesPerHour * SecondsPerMinute

Alive(token) == now < token.iat + (IF token.long THEN LongLife ELSE ShortLife)

\* RolesGuard.
HasRole(actor, roles) == users[actor].role \in roles

\* TokenAuthGuard: a signed token that is not out of date, of a user who exists.
Guarded(actor, roles) ==
    /\ access[actor] # NoToken /\ now < access[actor] + AccessLife
    /\ users[actor] # NoRow /\ HasRole(actor, roles)

Registered(email) == {u \in Users : users[u] # NoRow /\ users[u].email = email}

(***************************************************************************)
(* Requests, up to their first await after the accounts were found.        *)
(***************************************************************************)
Receive(w) ==
    /\ h[w].pc = "idle"
    /\ requests < MaxRequests
    /\ requests' = requests + 1
    /\ overlapped' = (overlapped \/ \E v \in Workers \ {w} : h[v].pc # "idle")
    /\ UNCHANGED <<tables, now, aborts, gone, used>>

Begin(pc, r, u) == [Resting EXCEPT !.pc = pc, !.req = r, !.id = u]

Answer(w) == h' = [h EXCEPT ![w] = Resting]

\* Continue when the guard holds, otherwise answer with an error.
Continue(w, guard, handler) ==
    /\ h' = [h EXCEPT ![w] = IF guard THEN handler ELSE Resting]
    /\ UNCHANGED proved

\* An id no row ever had.
FreshUsers == {u \in Users \ gone : users[u] = NoRow /\ \A w \in Workers : h[w].id # u}

\* sign-up stores the userType the client names; customer/signup lets only "User" pass.
NewRow(r) ==
    [email |-> r.email, password |-> r.password,
     role |-> IF r.op = "signUp" THEN r.role ELSE "Admin",
     verified |-> r.op = "createAdmin", mustChange |-> r.op = "createAdmin", profile |-> "old"]

SignUp(w, r) ==
    /\ r.op = "signUp"
    /\ Receive(w)
    /\ FreshUsers # {}
    /\ LET u == CHOOSE u \in FreshUsers : TRUE
       IN  Continue(w, Registered(r.email) = {}, [Begin("insert", r, u) EXCEPT !.row = NewRow(r)])

CreateAdmin(w, r) ==
    /\ r.op = "createAdmin"
    /\ Receive(w)
    /\ FreshUsers # {}
    /\ LET u == CHOOSE u \in FreshUsers : TRUE
       IN  Continue(w, Guarded(r.actor, {"SuperAdmin"}) /\ Registered(r.email) = {},
                    [Begin("insert", r, u) EXCEPT !.row = NewRow(r)])

\* The status of the account is not looked at.
MaySignIn(u, r) ==
    /\ users[u].role = "User" => users[u].verified
    /\ users[u].password = r.password

SignIn(w, r) ==
    /\ r.op = "signIn"
    /\ Receive(w)
    /\ \/ /\ Registered(r.email) = {}
          /\ Continue(w, FALSE, Resting)
       \/ \E u \in Registered(r.email) :
             Continue(w, MaySignIn(u, r),
                      [Begin("store", r, u) EXCEPT !.token = [user |-> u, iat |-> now, long |-> TRUE]])

\* Plausible bug: any token that is signed and not out of date.
AcceptedBySignature(token) == Alive(token)

Accepted(token) == Alive(token) /\ stored[token.user] = token

\* A client with a cookie it was given at some time.
Refresh(w, r, token) ==
    /\ r.op = "refresh"
    /\ Receive(w)
    /\ IF Accepted(token)
         THEN h' = [h EXCEPT ![w] = [Begin("invalidate", r, token.user) EXCEPT
                       !.token = [user |-> token.user, iat |-> now, long |-> FALSE]]]
         ELSE Answer(w)
    /\ UNCHANGED proved

Logout(w, r, u) ==
    /\ r.op = "logout"
    /\ Receive(w)
    /\ Continue(w, Guarded(u, Roles), Begin("invalidate", r, u))

\* Plausible bug: the link is not compared with the id in the address.
LinkFitsAnyone(u, t) == links[t] # NoLink

LinkFits(u, t) == links[t] # NoLink /\ links[t].user = u

\* GET verify/:id/:token, with any id and any token.
VerifyEmail(w, r, u, t) ==
    /\ r.op = "verifyEmail"
    /\ Receive(w)
    /\ IF users[u] # NoRow /\ LinkFits(u, t) /\ ~VerificationExpired(links[t].since)
         THEN /\ h' = [h EXCEPT ![w] = [Begin("unlink", r, u) EXCEPT !.link = t]]
              /\ proved' = proved \cup {links[t].user}
         ELSE Answer(w) /\ UNCHANGED proved

ForgotPassword(w, r) ==
    /\ r.op = "forgotPassword"
    /\ Receive(w)
    /\ \/ Registered(r.email) = {} /\ Continue(w, FALSE, Resting)
       \/ \E u \in Registered(r.email) : Continue(w, TRUE, Begin("link", r, u))

ResendVerification(w, r) ==
    /\ r.op = "resendVerification"
    /\ Receive(w)
    /\ \/ Registered(r.email) = {} /\ Continue(w, FALSE, Resting)
       \/ \E u \in Registered(r.email) :
             Continue(w, ~users[u].verified, Begin("unlink", r, u))

\* The entity with its password, as changePassword selects it and resetPassword
\* sets it.
Whole(w, r, u, row) == [Begin("compare", r, u) EXCEPT !.row = row, !.cols = Columns]

\* Plausible bug: it is not the password that is left out of selections.
LoadedColumnsSwapped == Columns \ {"mustChange"}

LoadedColumns == Columns \ {"password"}

\* The link is not deleted, and may serve again.
ResetPassword(w, r, t) ==
    /\ r.op = "resetPassword"
    /\ Receive(w)
    /\ Continue(w, links[t] # NoLink /\ ~ResetExpired(links[t].since),
                Whole(w, r, links[t].user, [users[links[t].user] EXCEPT !.password = r.password]))

ChangePassword(w, r) ==
    /\ r.op = "changePassword"
    /\ Receive(w)
    /\ Continue(w, /\ Guarded(r.actor, Roles) /\ users[r.user] # NoRow
                   /\ users[r.user].password = r.current,
                Whole(w, r, r.user, [users[r.user] EXCEPT !.password = r.password, !.mustChange = FALSE]))

Edited(row, r) ==
    IF r.column = "email" THEN [row EXCEPT !.email = r.value]
    ELSE IF r.column = "role" THEN [row EXCEPT !.role = r.value]
    ELSE [row EXCEPT !.profile = r.value]

\* update, changeRole, changeStatus of a super administrator; update and
\* uploadAvatar of the profile of whoever is signed in.
EditUser(w, r) ==
    /\ r.op = "editUser"
    /\ Receive(w)
    /\ Continue(w, /\ Guarded(r.actor, IF r.actor = r.user /\ r.column = "profile"
                                         THEN Roles ELSE {"SuperAdmin"})
                   /\ users[r.user] # NoRow,
                [Begin("compare", r, r.user) EXCEPT
                    !.row = Edited(users[r.user], r),
                    !.cols = LoadedColumns])

\* phoneVerification, of the id in the address whoever is signed in, with a
\* number no account has; then the SMS service is asked.
PhoneVerification(w, r) ==
    /\ r.op = "verifyPhone"
    /\ Receive(w)
    /\ Continue(w, Guarded(r.actor, {"User"}), Begin("mark", r, r.user))

Remove(w, r) ==
    /\ r.op = "remove"
    /\ Receive(w)
    /\ Continue(w, Guarded(r.actor, {"SuperAdmin"}) /\ users[r.user] # NoRow,
                Begin("delete", r, r.user))

(***************************************************************************)
(* The rest of the handlers.                                               *)
(***************************************************************************)
Doing(w, pc) == h[w].pc = pc /\ UNCHANGED <<now, requests, aborts, overlapped>>

EmailFree(u, email) == Registered(email) \subseteq {u}

\* A token nobody has seen.
UnseenLinks == {t \in Links : links[t] = NoLink /\ \A w \in Workers : h[w].link # t}

NewLink(u) ==
    IF UnseenLinks = {} THEN links
    ELSE [links EXCEPT ![CHOOSE t \in UnseenLinks : TRUE] = [user |-> u, since |-> now]]

\* create commits the account with its link; an administrator needs none.
Insert(w) ==
    /\ Doing(w, "insert")
    /\ IF EmailFree(h[w].id, h[w].row.email)
         THEN /\ users' = [users EXCEPT ![h[w].id] = h[w].row]
              /\ links' = IF h[w].row.verified THEN links ELSE NewLink(h[w].id)
              /\ proved' = IF h[w].row.verified THEN proved \cup {h[w].id} ELSE proved
         ELSE UNCHANGED <<users, links, proved>>
    /\ Answer(w)
    /\ UNCHANGED <<stored, cookies, access, gone, signedOut, used>>

\* Plausible bug: the foreign key sets the user of a link to null.
LinksOrphaned(u) ==
    [t \in Links |-> IF links[t] # NoLink /\ links[t].user = u
                       THEN [links[t] EXCEPT !.user = NoRow] ELSE links[t]]

LinksWithout(u) ==
    [t \in Links |-> IF links[t] # NoLink /\ links[t].user = u THEN NoLink ELSE links[t]]

\* verifyEmail deletes the link, resendVerification all links of the user.
Unlink(w) ==
    /\ Doing(w, "unlink")
    /\ LET verifying == h[w].req.op = "verifyEmail"
       IN  /\ links' = IF verifying THEN [links EXCEPT ![h[w].link] = NoLink]
                       ELSE LinksWithout(h[w].id)
           /\ h' = [h EXCEPT ![w].pc = IF verifying THEN "mark" ELSE "link"]
    /\ UNCHANGED <<users, stored, cookies, access, gone, proved, signedOut, used>>

\* The new link; a user that is gone violates the foreign key.
SendLink(w) ==
    /\ Doing(w, "link")
    /\ links' = IF users[h[w].id] = NoRow THEN links ELSE NewLink(h[w].id)
    /\ Answer(w)
    /\ UNCHANGED <<users, stored, cookies, access, gone, proved, signedOut, used>>

\* verifyUserEmail and phoneVerification read the user after what they awaited;
\* the number is one of the columns profile stands for.
Marked(op, row) ==
    IF op = "verifyEmail" THEN [row EXCEPT !.verified = TRUE] ELSE [row EXCEPT !.profile = "new"]

Mark(w) ==
    /\ Doing(w, "mark")
    /\ IF users[h[w].id] = NoRow THEN Answer(w)
       ELSE h' = [h EXCEPT ![w].pc = "compare", ![w].cols = LoadedColumns,
                           ![w].row = Marked(h[w].req.op, users[h[w].id])]
    /\ UNCHANGED <<tables, gone, proved, signedOut, used>>

\* Plausible bug: the table allows a user without a password.
InsertableNullable(cols) == TRUE

\* A row that is gone is inserted again, unless a column it needs is missing.
Insertable(cols) == cols = Columns

Differing(entity, row, cols) == {c \in cols : entity[c] # row[c]}

\* save, first half: what is to be set, the id too of a row that is not there.
Compare(w) ==
    /\ Doing(w, "compare")
    /\ LET row == users[h[w].id]
       IN  IF row = NoRow /\ ~Insertable(h[w].cols) THEN Answer(w)
           ELSE h' = [h EXCEPT ![w].pc = "write",
                               ![w].diff = IF row = NoRow THEN Columns \cup {"id"}
                                           ELSE Differing(h[w].row, row, h[w].cols)]
    /\ UNCHANGED <<tables, gone, proved, signedOut, used>>

\* UPDATE.
Mended(row, entity, diff) ==
    LET Set(c) == IF c \in diff THEN entity[c] ELSE row[c]
    IN  [email |-> Set("email"), password |-> Set("password"), role |-> Set("role"),
         verified |-> Set("verified"), mustChange |-> Set("mustChange"),
         profile |-> Set("profile")]

\* save, second half: an INSERT fails where there is a row by now, an UPDATE changes
\* nothing where there is none.
Write(w) ==
    /\ Doing(w, "write")
    /\ LET u == h[w].id
           row == users[u]
           inserts == "id" \in h[w].diff
           clash == \/ "email" \in h[w].diff /\ ~EmailFree(u, h[w].row.email)
                    \/ inserts /\ row # NoRow
       IN  IF clash THEN Answer(w) /\ UNCHANGED users
           ELSE /\ users' = IF inserts THEN [users EXCEPT ![u] = h[w].row]
                            ELSE IF row = NoRow THEN users
                            ELSE [users EXCEPT ![u] = Mended(row, h[w].row, h[w].diff)]
                /\ IF h[w].req.op = "verifyEmail"
                     THEN h' = [h EXCEPT ![w] = [Begin("store", h[w].req, u) EXCEPT
                                   !.token = [user |-> u, iat |-> now, long |-> FALSE]]]
                     ELSE Answer(w)
    /\ UNCHANGED <<links, stored, cookies, access, gone, proved, signedOut, used>>

\* The row and, by the foreign key, its links.
Delete(w) ==
    /\ Doing(w, "delete")
    /\ users' = [users EXCEPT ![h[w].id] = NoRow]
    /\ links' = LinksWithout(h[w].id)
    /\ gone' = gone \cup {h[w].id}
    /\ Answer(w)
    /\ UNCHANGED <<stored, cookies, access, proved, signedOut, used>>

SigningIn(x, u) == x.id = u /\ x.req.op \in SessionOps

\* refreshTokenIdsStorage.invalidate, by a log-out or in a rotation.
Invalidate(w) ==
    /\ Doing(w, "invalidate")
    /\ stored' = [stored EXCEPT ![h[w].id] = NoToken]
    /\ IF h[w].req.op = "refresh"
         THEN /\ h' = [h EXCEPT ![w].pc = "store"]
              /\ used' = used \cup {[token |-> t, at |-> h[w].token.iat] :
                                      t \in {stored[h[w].id]} \ {NoToken}}
              /\ UNCHANGED signedOut
         ELSE /\ Answer(w) /\ UNCHANGED used
              /\ signedOut' = IF \E v \in Workers : SigningIn(h[v], h[w].id) THEN signedOut
                              ELSE signedOut \cup {h[w].id}
    /\ UNCHANGED <<users, links, cookies, access, gone, proved>>

\* refreshTokenIdsStorage.insert, and the answer with both tokens.
Store(w) ==
    /\ Doing(w, "store")
    /\ LET u == h[w].id
       IN  /\ stored' = [stored EXCEPT ![u] = h[w].token]
           /\ access' = [access EXCEPT ![u] = h[w].token.iat]
           /\ cookies' = cookies \cup {h[w].token}
    /\ Answer(w)
    /\ UNCHANGED <<users, links, gone, proved, signedOut, used>>

\* An await throws, or the process dies; what was written stays.
Abort(w) ==
    /\ h[w].pc # "idle"
    /\ aborts < MaxAborts
    /\ aborts' = aborts + 1
    /\ Answer(w)
    /\ UNCHANGED <<tables, now, requests, history>>

\* A cookie alone does not end a log-out.
ComesBack(x, u) == x.id = u /\ x.req.op \in SessionOps \ {"refresh"}

Tick ==
    /\ now < MaxTime
    /\ now' = now + 1
    /\ UNCHANGED <<tables, h, requests, aborts, history>>

Arrive(w) ==
    /\ \E r \in Requests :
          \/ SignUp(w, r) \/ CreateAdmin(w, r) \/ SignIn(w, r) \/ ForgotPassword(w, r)
          \/ ResendVerification(w, r) \/ ChangePassword(w, r) \/ EditUser(w, r) \/ Remove(w, r)
          \/ PhoneVerification(w, r)
          \/ \E token \in cookies : Refresh(w, r, token)
          \/ \E u \in Users : Logout(w, r, u)
          \/ \E t \in Links : ResetPassword(w, r, t)
          \/ \E u \in Users, t \in Links : VerifyEmail(w, r, u, t)
    /\ signedOut' = {u \in signedOut : ~ComesBack(h'[w], u)}

Step(w) ==
    \/ Insert(w) \/ Unlink(w) \/ SendLink(w) \/ Mark(w) \/ Compare(w) \/ Write(w)
    \/ Delete(w) \/ Invalidate(w) \/ Store(w)

Next == (\E w \in Workers : Arrive(w) \/ Step(w) \/ Abort(w)) \/ Tick

Spec == Init /\ [][Next]_vars

(***************************************************************************)
(* Properties.                                                             *)
(***************************************************************************)
TypeOK ==
    /\ users \in [Users -> Row \cup {NoRow}]
    /\ links \in [Links -> Link \cup {NoLink}]
    /\ stored \in [Users -> Token \cup {NoToken}]
    /\ cookies \subseteq Token
    /\ access \in [Users -> Time \cup {NoToken}]
    /\ now \in Time
    /\ requests \in 0 .. MaxRequests /\ aborts \in 0 .. MaxAborts
    /\ gone \subseteq Users /\ proved \subseteq Users
    /\ signedOut \subseteq Users
    /\ used \subseteq [token : Token, at : Time]
    /\ overlapped \in BOOLEAN
    /\ \A w \in Workers :
          /\ h[w].pc \in {"idle", "insert", "unlink", "link", "mark", "compare", "write",
                          "delete", "invalidate", "store"}
          /\ h[w].id \in Users \cup {NoRow} /\ h[w].row \in Row \cup {NoRow}
          /\ h[w].cols \subseteq Columns /\ h[w].diff \subseteq Columns \cup {"id"}
          /\ h[w].token \in Token \cup {NoToken}

\* A password changes only where its owner knew the old one or came with a link
\* from the mail, and to the password asked for there.  Handlers that save the
\* whole user after an upload or a mail do not take a new password back
\* (users.service.ts:462, 504: the column is not selected).
PasswordNeedsSecret ==
    [][\A u \in Users :
          users[u] # NoRow /\ users'[u] # NoRow /\ users[u].password # users'[u].password
            => \E w \in Workers : /\ h[w].id = u /\ h[w].pc = "write"
                                  /\ h[w].req.op \in PasswordOps
                                  /\ users'[u].password = h[w].req.password]_vars

\* A user that was removed comes back only by a password handler that read the
\* row before: other saves of the old copy fail for want of a password
\* (users.service.ts:472, 412, 289).
RemovedStaysRemoved ==
    [][\A u \in gone :
          users[u] = NoRow /\ users'[u] # NoRow
            => \E w \in Workers : h[w].id = u /\ h[w].req.op \in PasswordOps]_vars

\* Nobody is verified who did not come with a link from their own mail, whatever
\* stale copies of the row are saved (authentication.service.ts:195, users.service.ts:174).
VerifiedByOwnMail == \A u \in Users : users[u] # NoRow /\ users[u].verified => u \in proved

\* The minutes of the hour may wrap around between mail and click: a link that
\* is young enough is never refused (users.service.ts:300).
YoungLinkHonoured ==
    \A t \in Links :
        links[t] # NoLink
          /\ now \div SecondsPerMinute - links[t].since \div SecondsPerMinute <= ResetMinutes
            => ~ResetExpired(links[t].since)

\* Once a user has logged out, no cookie the user was ever given is good for a
\* refresh before the next sign-in or verified link, however many refreshes are tried
\* at once and whatever fails (authentication.service.ts:124, 138, 159).  A log-out
\* that runs into a sign-in or a refresh that was accepted before it ends nothing:
\* their token is stored after it.
SignedOutStaysOut == \A t \in cookies : t.user \in signedOut => ~Accepted(t)

\* As long as requests do not overlap, a refresh token that was exchanged is not
\* good again, unless it was exchanged in the very second it was issued: then
\* the new token is the old one (authentication.service.ts:133).
ExchangedIsDead ==
    ~overlapped => \A x \in used : Accepted(x.token) => x.token.iat = x.at
=============================================================================
