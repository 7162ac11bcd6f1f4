\* One article and two requests, so that a publication can be replaced, revoked
\* or cascaded away while another is under way; two links.
CONSTANTS
  Articles = {a1}
  Requests = {r1, r2}
  Lifetimes = {0, 1}
  MaxTokens = 2
  MaxTime = 2
  MaxCrashes = 1
  NoArticle = NoArticle
SPECIFICATION Spec
PROPERTIES DeadLinksStayDead OnlyAnOlderListTakesALivePage OrphansCollected
