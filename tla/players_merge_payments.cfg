\* One administrator after the other: a payment, then a merge of its player.
SPECIFICATION Spec
CHECK_DEADLOCK FALSE
CONSTANTS
    l1 = l1
    l2 = l2
    p1 = p1
    p2 = p2
    p3 = p3
    p4 = p4
    t1 = t1
    t2 = t2
    t3 = t3
    c1 = c1
    c2 = c2
    round = round
    apply = apply
    Leagues = {l1, l2}
    NoLeague = NoLeague
    Players = {p1, p2, p3, p4}
    NoPlayer = NoPlayer
    Teams = {t1, t2, t3}
    NoTeam = NoTeam
    TeamLeague <- TwoLeagues
    SeasonLeague = l1
    Linked = {p2}
    Rounds = {round}
    ApplyRequests = {apply}
    Payments = {1, 2}
    Openings <- SomeOpenings
    Clients = {c1, c2}
    IdentityOf <- TwoAdmins
    MaxRequests = 2
PROPERTIES
    PaymentsAreHistory
