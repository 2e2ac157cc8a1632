SPECIFICATION Spec
CHECK_DEADLOCK FALSE
CONSTANTS
  Route <- MCRoute
  Texts = {"ready", "PRESENT"}
  OwnSegs = {mem}
  OtherSegs = {other}
  MaxTexts = 3
  MaxTerms = 2
INVARIANTS
    Reaped
    MatchesAreFresh
PROPERTY RunEnds
