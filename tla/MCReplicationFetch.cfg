CONSTANTS
    ra = ra  rb = rb  rc = rc  rd = rd  re = re  rf = rf  nil = nil
    ProjectRepos <- MCProjectRepos
    NonEmpty = {ra, rc, rd, re}
    MaxConcurrency = 2
    Nil = nil
SPECIFICATION Spec
INVARIANTS
    FetchResultInListingOrder
PROPERTIES
    RefinesFetchSpec
