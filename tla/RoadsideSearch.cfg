SPECIFICATION Spec
CONSTANTS
  States = {"FL", "GA"}
  Cities = {"Tampa", "Miami"}
  Unknown = Unknown
  Points <- MCPoints
  MilesPerDegree = 60
  Commercial = TRUE
  Limit = 1
  Mechanics = {m1, m2}
  Profiles <- MCProfiles
  Vendors = {"FL"}
  StateAt <- MCStateAt
  CityAt <- MCCityAt
  Answers <- MCAnswers
  Shares <- MCShares
  MaxSearches = 2
  MaxEdits = 1
SYMMETRY Symmetry
INVARIANTS TypeOK NobodyMissed NearestFirst BestOffered
