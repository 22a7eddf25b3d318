SPECIFICATION Spec
CONSTANTS
  customer = customer
  admin = admin
  phone = phone
  desk = desk
  Users = {customer, admin}
  Clients = {phone, desk}
  UserOf <- MCUserOf
  Senders = {w1, w2}
  Customers = {customer, admin}
  Admins <- MCAdmins
  Stored <- MCStored
  Limit = 2
  MaxNotes = 2
  MaxLosses = 1
INVARIANT ScrollMissesNothing
PROPERTY LosslessFeed
CHECK_DEADLOCK FALSE
