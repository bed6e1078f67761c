\* Two clients race on the one match of a one-week season.
SPECIFICATION Spec
CONSTANTS
    m1 = m1
    m2 = m2
    Matches = {m1}
    Weeks = {1}
    WeekOf <- OneWeekOf
    Clients = {c1, c2}
    Notes = {n1, n2}
    NoNote = NoNote
    MaxRevision = 2
SYMMETRY Symmetric
INVARIANTS
    SideNamesCurrentScores
    AcceptanceMatchesRecord
    RevisionNamesScores
PROPERTIES
    LockedMatchFrozen
    LedgerSpec
