\* A client reviews and applies for two players, with two request ids, two
\* requests on their way and two changes around them.
SPECIFICATION Spec
CONSTANTS
    none = none
    low = low
    high = high
    Players = {p1, p2}
    Handicaps = {0, 1, 2}
    Samples = {none, low, high}
    NoSamples = none
    Implied <- MCImplied
    Size <- MCSize
    RuleSets <- MCRuleSets
    Clients = {c1}
    RequestIds = {i1, i2}
    NoRequest <- MCNoRequest
    MaxRequests = 2
    MaxEdits = 2
SYMMETRY Symmetric
INVARIANTS
    RecordedWhole
    ToldIsRecorded
PROPERTIES
    AppliedAsReviewed
