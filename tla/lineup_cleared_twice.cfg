\* A player substituted out plays for the other team and is put back.
SPECIFICATION Spec
CHECK_DEADLOCK FALSE
CONSTANTS
    a = a
    b = b
    p1 = p1
    p2 = p2
    p3 = p3
    c1 = c1
    c2 = c2
    Teams = {a, b}
    NoTeam = NoTeam
    Players = {p1, p2, p3}
    NoPlayer = NoPlayer
    Schedules <- SomeSchedules
    Assignments <- SomeAssignments
    Lineups <- OnePlayer
    LineupWeeks = {2}
    Clients = {c1, c2}
    Openings <- JustSubstitutes
    Shifts = {1}
    LastWeek = 2
    MaxSchedules = 1
    MaxSaves = 2
PROPERTIES
    ClearAddsNobody
