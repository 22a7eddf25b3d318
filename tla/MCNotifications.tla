--------------------------- MODULE MCNotifications ---------------------------
(* A customer and an administrator with a client each; the administrator has    *)
(* three notifications to begin with, two to a page.                          *)
EXTENDS Notifications

CONSTANTS customer, admin, phone, desk

MCUserOf == [c \in Clients |-> IF c = phone THEN customer ELSE admin]

MCAdmins == <<admin>>

MCStored == (customer :> 1) @@ (admin :> 3)
=============================================================================
