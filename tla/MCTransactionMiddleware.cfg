CONSTANTS
    r1 = r1  r2 = r2
    Requests = {r1, r2}
    MaxCalls = 2
SPECIFICATION Spec
INVARIANTS
    ResponseMatchesOutcome
    EventsFollowOutcome
