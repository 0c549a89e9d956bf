\* The request that parks the action, with or without waiting, and three more,
\* each of them a vote, an overrule or a listing: the fewest with which a lost vote
\* reopens a row whose action was executed.  Quorum 0 becomes 1.  When all requests
\* are answered nothing happens any more.
SPECIFICATION Spec
CONSTANTS
    Threads = {t1, t2, t3, t4}
    Voters = {ann, bob}
    Quorums = {0, 2}
CHECK_DEADLOCK FALSE
INVARIANTS
    QuorumBacksExecution
    ExactUnlessDisturbed
PROPERTIES
    RatifiedIsCarriedOut
