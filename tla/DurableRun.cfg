\* Two processes and four starts: overlapping passes, a crash of one, a resume
\* after both, and a prune at any time.  The run ends when its starts are used up.
SPECIFICATION Spec
CONSTANTS
    Processes = {p1, p2}
    MaxStarts = 4
SYMMETRY Symmetry
CHECK_DEADLOCK FALSE
INVARIANTS
    TerminalVouches
    RepeatsAreExplained
    RulingsAreAttested
PROPERTIES
    OutcomeIsFinal
