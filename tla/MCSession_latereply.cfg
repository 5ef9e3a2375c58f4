SPECIFICATION Spec
CONSTANTS
  Callers = {c1}
  Ping = ping
  NoThread = nobody
  Ops = {"call", "servername"}
  MaxRequests = 2
  SlowReplies = TRUE
  MaxWait = 1

INVARIANT
  ServernameAssertion
