SPECIFICATION Spec
CONSTANTS
  None = None
  Urls <- MCUrls
  Site <- MCSite
  Host <- MCHost
  Lands <- MCLands
  Backends <- MCBackends
  Refused = {}
  Bing = "bing"
  Google = "google"
  Queries = {"q1", "q2"}
  Hits <- MCHits
  Claims = {"x", "y", "z"}
  Score <- MCScore
  Threshold = 86
  Says <- MCSays
  Questions = {"who", "latest"}
  Ttl <- MCTtl
  Delay = 2
  PagesPerRound = 3
  QueriesPerRound = 2
  Rounds = 2
  MaxPages = 2
  Budgets <- MCBudgets
INVARIANT PoliteHosts
INVARIANT CorroborationIsEarned
INVARIANT ReadingIsCareful
CHECK_DEADLOCK FALSE
