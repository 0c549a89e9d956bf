\* Two attempts of one workflow run, which overlap, crash and lose answers.
SPECIFICATION DemoSpec
CONSTANTS
    t1 = t1
    t2 = t2
    A = A
    B = B
    a1 = a1
    a2 = a2
    a3 = a3
    b1 = b1
    b2 = b2
    c1 = c1
    c2 = c2
    p1 = p1
    p2 = p2
    Line = {a1, a2, a3, b1, b2, c1, c2}
    Package = {A, B}
    Task = {t1, t2}
    Attempt = {p1, p2}
    NoTask = NoTask
    Missing = Missing
    NoContext = NoContext
    NoGroup = NoGroup
    Local = {A, B}
    Affected = {}
    Approved = FALSE
    Synthetic = TRUE
    Domestic = TRUE
    Currency = "USD"
    Confirmed = {}
    Assumed = {"threshold-equality", "threshold-basis", "below-threshold-exception"}
    MinMembers = 2
    Order <- MCOrder
    Snapshot <- MCSnapshot
    Masters <- MCMasters
    Requests <- MCRequests
    Fact <- MCFact
    Context <- MCContext
    Rules <- MCRules
    Threshold <- MCThreshold
SYMMETRY Attempts
CHECK_DEADLOCK FALSE
INVARIANTS
    AssessedAsSuggested
    BundlesAreSound
    DecisionsAreGoverned
    ReportsAreTrue
PROPERTIES
    EvidenceIsFinal
