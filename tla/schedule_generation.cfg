\* Two to six teams, every schedule type, up to two approved bye requests,
\* in range and beyond, and two sets of dates not played on.
SPECIFICATION Spec
CONSTANTS
    TeamCounts = {2, 3, 4, 5, 6}
    Lengths = {4, 7}
    ByeWeeks = {1, 3, 6}
    MaxByes = 2
    SkipSets <- MCSkipSets
INVARIANTS
    RoundsSeatEveryTeam
    EveryPairMeets
    CompatibleByesPermute
    CompatibleByesHonoured
    PanicsOnlyBeyondSchedule
    EarliestDates
PROPERTIES
    EveryPassCounts
    GenerationEnds
\* A generation that is over does nothing more.
CHECK_DEADLOCK FALSE
