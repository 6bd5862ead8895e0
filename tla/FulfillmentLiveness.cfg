SPECIFICATION FairSpec
CONSTANTS
  u1 = u1  p1 = p1  p2 = p2  p3 = p3  p4 = p4  p5 = p5
  e1 = e1  e2 = e2  e3 = e3  e4 = e4  e5 = e5
  UnknownUser = UnknownUser
  NoUserId = NoUserId
  BadUserId = BadUserId
  Nothing = Nothing
  KnownUsers = {u1}
  Payments = {p1, p2}
  NotesUser <- OneBuyer
  Payable = {p1}
  Events = {e1, e2}
  EventKeys = {e1, e2}
  EventKey <- OwnKey
  Captured = {e1, e2}
  VerifyTx = {v1}
  WebhookTx = {w1}
  MaxCrashes = 1
  MaxRejects = 1
  EventPayment <- EventOf
PROPERTIES GrantedOrMoneyBack RequestsEnd
