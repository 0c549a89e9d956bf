\* One pack version with three bodies, of which one grant object can be edited in two
\* ways; one deployment, its child and a grandchild; a clerk and no principal.
SPECIFICATION Spec
CONSTANTS
    None = None
    Dropped = Dropped
    v1 = v1
    a1 = a1
    a2 = a2
    a3 = a3
    clerk = clerk
    file = file
    write = write
    delete = delete
    pay = pay
    reports = reports
    drafts = drafts
    secret = secret
    h1 = h1
    gWrite = gWrite
    gPay = gPay
    gDrafts = gDrafts
    gFiles = gFiles
    rDrafts = rDrafts
    rFiles = rFiles
    rPay = rPay
    rReports = rReports
    rNoHost = rNoHost
    rAway = rAway
    rPayTwo = rPayTwo
    Segment = {file, write, delete, pay, reports, drafts}
    Host = {h1}
    Choice = {}
    Class = {secret}
    Version = {v1}
    Agent = {a1, a2, a3}
    MaxApprovals = 1
    MaxDeployed = 1
    Object = {gWrite, gPay, gDrafts, gFiles, rDrafts, rFiles, rPay, rReports, rNoHost, rAway, rPayTwo}
    First <- MCFirst
    Edits <- MCEdits
    Body <- MCBody
    Requests <- MCRequests
    Motions <- MCMotions
    RolesOf <- MCRolesOf
SYMMETRY Symmetry
CHECK_DEADLOCK FALSE
INVARIANTS
    GuaranteesHold
    AuthorityIsBounded
    OnlyApprovedActs
