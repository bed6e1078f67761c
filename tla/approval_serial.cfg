\* One client, so requests run one after another: two matches in two weeks.
SPECIFICATION Spec
CONSTANTS
    m1 = m1
    m2 = m2
    Matches = {m1, m2}
    Weeks = {1, 2}
    WeekOf <- MCWeekOf
    Clients = {c1}
    Notes = {n1}
    NoNote = NoNote
    MaxRevision = 2
INVARIANTS
    ProcessedIsAccepted
    ClosedWeekIsFinal
    ClosedSeasonWeeksClosed
    ClosedSeasonIsFinal
