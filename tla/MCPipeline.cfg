SPECIFICATION Spec
CONSTANTS
    NULL = NULL
    s1 = s1
    s2 = s2
    p1 = p1
    p2 = p2
    p3 = p3
    p4 = p4
    p5 = p5
    p6 = p6
    e1 = e1
    e2 = e2
    Sessions = {s1, s2}
    Currencies = {"EUR"}
    Fraction = 10
    MoneyBound = 1000
    Month = 10
    Batches = {p1, p2, p3, p4, p5, p6}
    Payload <- Payloads
    LineId <- LineIds
    Lines = {1, 2, 3, 4, 5, 6, 7, 8, 9, 10, 11, 12}
    Entries = {e1, e2}
    Entry <- EntryFacts
    Band <- Bands
    Window = 1
    Scopes = {p1, NULL}
    a1 = a1
    a2 = a2
    a3 = a3
    Accounts = {a1, a2, a3}
    Versions = {1, 2}
    Context <- Contexts
    EvidenceWindow = 5
    MaxCandidates = 1
    Answers <- SomeAnswers
    MaxAsks = 3
    Treatments = {"rebook", "accrue"}
    Rosters <- AllRosters
SYMMETRY Symmetry
CHECK_DEADLOCK FALSE
INVARIANTS
    TypeOK
    NeverRefused
    LineLocksOrdered
    BatchWhole
    OneFate
    BookedCounterpart
    ProposalTrail
    OperationComplete
    AnsweredForItself
    AccruedElsewhere
PROPERTIES
    DecisionSound
    ClassifiedOnWhatStands
    ClaimsDisjointAndFull
