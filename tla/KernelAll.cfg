\* One request, or a list, a description and an execution one after the other.
SPECIFICATION Spec
CONSTANTS
  Samples    <- MySamples
  Catalogues <- MyCatalogues
  Limits     <- MyLimits
  MaxTouched = 1
  JobSets    <- MyJobSets
  Filters    <- MyFilters
  PageLimits <- MyPageLimits
INVARIANTS
  ToldOnce
  RoundTrip
  FailureArrives
  DescribedAsWritten
  ListedOnce
  RunsWhatIsDescribed
  JobPages
  StatementsReach
