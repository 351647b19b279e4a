CONSTANTS
  exact = exact
  close = close
  far = far
  None = None
  Tenders <- MCTenders
  Places = {here, there}
  Wanted = {here}
  Texts = {exact, close, far}
  Similarity <- MCSimilarity
  Relevance <- MCRelevance
  CandidateLimit = 2
  HitLimit = 2
  RankLimit = 1
  BatchSize = 1
  EmbedLimit = 2
  DigestSize = 2
  Said <- MCSaid
  Profiled = {TRUE, FALSE}
  MaxUpsets = 1
SPECIFICATION FairSpec
INVARIANTS SameDayDelivery
PROPERTIES BacklogDrains NoCandidateForgotten
CHECK_DEADLOCK FALSE
