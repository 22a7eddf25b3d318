----------------------------- MODULE MCAccounts -----------------------------
(* One customer, one super administrator and a free id; the hour has three   *)
(* minutes of one second, and a link is good for one of them.                 *)
EXTENDS Accounts

CONSTANTS u1, root, u3, e1, e2, e3, p1, p2

Person(email, password, role, verified) ==
    [email |-> email, password |-> password, role |-> role, verified |-> verified,
     mustChange |-> role = "Admin", profile |-> "old"]

MCInitialUsers ==
    {[u \in {u1, root, u3} |->
        CASE u = u1 -> Person(e1, p1, "User", verified)
          [] u = root -> Person(e2, p1, "SuperAdmin", TRUE)
          [] OTHER -> NoRow] : verified \in BOOLEAN}

MCRequests ==
    {[op |-> "signUp", email |-> e3, password |-> p1, role |-> role] : role \in {"User", "Admin"}}
    \cup
    {[op |-> "createAdmin", actor |-> root, email |-> e3, password |-> p1],
     [op |-> "signIn", email |-> e1, password |-> p1],
     [op |-> "forgotPassword", email |-> e1],
     [op |-> "resendVerification", email |-> e1],
     [op |-> "changePassword", actor |-> u1, user |-> u1, current |-> p1, password |-> p2],
     [op |-> "resetPassword", password |-> p2],
     [op |-> "editUser", actor |-> u1, user |-> u1, column |-> "profile", value |-> "new"],
     [op |-> "editUser", actor |-> root, user |-> u1, column |-> "email", value |-> e3],
     [op |-> "remove", actor |-> root, user |-> u1],
     [op |-> "verifyPhone", actor |-> u1, user |-> u1],
     [op |-> "verifyEmail"], [op |-> "refresh"], [op |-> "logout"]}
=============================================================================
