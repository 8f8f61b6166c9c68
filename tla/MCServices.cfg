SPECIFICATION Spec
CONSTANTS
  Amounts <- MCAmounts
  Aums = {0, 1, 2}
  Percents = {2, 50}
  Counts = {0, 1, 2}
  Procs = {p1, p2}
  Sockets = {s1}
  Capacity = 1
  MaxEvents = 3
  Nobody = Nobody
  Tasks = {t1, t2}
  Operations <- MCOperations
  Wallet = "w"
  Monitored = {"XLM", "USDC"}
  SeenMax = 1
  MaxOps = 2
  NoTask = NoTask
  Handlers = {h1, h2}
  Requests = {r1}
  Challenges = {c1, c2}
  Skew = 1
  MaxAttempts = 2
  MaxTime = 4
  NoToken = NoToken
INVARIANTS
  TypeOK
  MatchesReference
  TighterNeverBetter
  LogFollowsBus
  SocketsInOrder
  InflowsAnnouncedOnce
  UsedOnce
  AttemptsBounded
PROPERTIES
  LogCatchesUp
  ImplementsJournal
