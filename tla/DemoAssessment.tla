--------------------------- MODULE DemoAssessment ---------------------------
(***************************************************************************)
(* What CapEx demo v2 makes of invoice lines, as pure operators: the tasks *)
(* a line may be given (demo_v2_task_suggestion.py), the gates before a    *)
(* CapEx or OpEx recommendation (demo_v2_capitalization.py) and the        *)
(* bundles of candidate lines (demo_v2_bundling.py).                       *)
(*                                                                         *)
(* Descriptions, part numbers, rankings, citations, rationales and         *)
(* confidences are left out: a line carries what retrieval and the rules   *)
(* find in them.  Amounts are whole numbers.                               *)
(***************************************************************************)
EXTENDS Integers, FiniteSets, FiniteSetsExt

CONSTANTS
    Line,        \* the line IDs of the requested packages
    Package,     \* the package IDs
    Task,        \* task codes
    NoTask,      \* the null task code of a REVIEW determination
    Missing,     \* a number the source does not have
    NoContext,   \* a package without a context overlay
    NoGroup,     \* the null bundleGroupId
    Fact,        \* Fact[l]: what is known of line l
    Local,       \* the packages of the policy's region
    Context,     \* Context[k]: the context overlay of package k
    Affected,    \* the lines whose values the synthetic register replaces
    Rules,       \* the rules of the nature rule set
    Approved,    \* approved: of the rule set, and of operational nature rules
                 \* by the policy
    Synthetic,   \* synthetic: the rule set is one of assumptions
    Domestic,    \* the policy is the North American one, in USD
    Currency,    \* the currency of the policy
    Confirmed,   \* the policy settings that are confirmed
    Assumed,     \* the settings of the synthetic register
    Threshold,   \* Threshold[c]: baseThreshold of the policy for currency c
    MinMembers   \* minimumCandidateMembers of the policy bundles are made by

\* A request allows synthetic inputs or it does not; the SQL job always does,
\* resolves tasks without a model and has one policy per currency.
Modes == {"governed", "synthetic", "sql"}
Natures == {"CAPITALIZABLE", "OPEX_BY_NATURE"}
Settings == {"threshold-equality", "threshold-basis", "below-threshold-exception"}
Codes == Task \cup {NoTask}

Facts ==
    [package : Package,
     source : Codes,                \* the task code the source carries
     agreed : Codes,                \* the code purchase order and part master share
     described : Codes,             \* the only task with the line's description
     offered : SUBSET Task,         \* the candidates retrieval finds
     cost : Int \cup {Missing},
     quantity : Int \cup {Missing},
     amount : Int,
     pieces : Nat \ {0},           \* the quantity and the cost the SQL row's
     price : Nat,                  \* fixture has, the source's where it has one
     currency : STRING]

Contexts == [site : STRING, project : STRING, status : STRING, inScope : BOOLEAN]

RuleKind == [codes : SUBSET Task, lines : SUBSET Line, nature : Natures]

ASSUME DemoAssumption ==
    /\ IsFiniteSet(Line) /\ NoTask \notin Task
    /\ Missing \notin Int
    /\ Fact \in [Line -> Facts]
    /\ \A k \in Package : \E l \in Line : Fact[l].package = k
    /\ Local \subseteq Package /\ Affected \subseteq Line
    /\ Context \in [Package -> Contexts \cup {NoContext}]
    /\ NoContext \notin Contexts
    /\ Rules \subseteq RuleKind
    /\ Approved \in BOOLEAN /\ Synthetic \in BOOLEAN /\ Domestic \in BOOLEAN
    /\ ~(Approved /\ Synthetic)
    /\ Confirmed \subseteq Settings /\ Assumed \subseteq Settings
    /\ \A l \in Line : Threshold[Fact[l].currency] \in Nat
    /\ MinMembers \in Nat /\ MinMembers >= 2

LinesOf(k) == {l \in Line : Fact[l].package = k}
ContextOf(l) == Context[Fact[l].package]

\* The values a line is assessed with.  An assumption of the synthetic register
\* makes a line one piece at its amount; the SQL job keeps each value the source
\* has and takes the other from the row's fixture.
Overlaid(l, mode) == mode = "synthetic" /\ l \in Affected

Cost(l, mode) ==
    CASE Overlaid(l, mode)                          -> Fact[l].amount
      [] mode = "sql" /\ Fact[l].cost = Missing     -> Fact[l].price
      [] OTHER                                      -> Fact[l].cost

Quantity(l, mode) ==
    CASE Overlaid(l, mode)                          -> 1
      [] mode = "sql" /\ Fact[l].quantity = Missing -> Fact[l].pieces
      [] OTHER                                      -> Fact[l].quantity

\* The threshold of a line's currency.
Limit(l) == Threshold[Fact[l].currency]

-----------------------------------------------------------------------------
(* The task of a line.                                                     *)

\* A source code decides alone; without one, a unique description does.
ExactTask(l, catalog) ==
    catalog \cap (IF Fact[l].source # NoTask THEN {Fact[l].source}
                                             ELSE {Fact[l].described})

\* The codes line l may be determined to have: the SQL job takes the agreed
\* code; otherwise an exact task, or the model's choice among the ranked
\* candidates, NoTask being the choice to leave the line to review.
Determinable(l, catalog, mode) ==
    LET found == IF mode = "sql" THEN catalog \cap {Fact[l].agreed}
                                 ELSE ExactTask(l, catalog)
    IN  IF found # {} THEN found
        ELSE {NoTask} \cup
             (IF mode = "sql" \/ Fact[l].source # NoTask THEN {}
              ELSE Fact[l].offered \cap catalog)

-----------------------------------------------------------------------------
(* The capitalization of a line.                                           *)

\* A variant that takes synthetic rules without the opt-in.
EagerRules(mode) == Rules

\* The rules count if they are approved, or if they are synthetic and the
\* request allows synthetic inputs.
UsableRules(mode) ==
    IF Approved \/ (mode # "governed" /\ Synthetic) THEN Rules ELSE {}

MatchingRules(l, code, mode) ==
    {r \in UsableRules(mode) : code \in r.codes \/ l \in r.lines}

\* Rules that contradict each other decide nothing.
Nature(l, code, mode) ==
    LET results == {r.nature : r \in MatchingRules(l, code, mode)}
    IN  IF Cardinality(results) = 1 THEN CHOOSE n \in results : TRUE ELSE "REVIEW"

\* The settings that count as confirmed.
Settled(mode) == Confirmed \cup (IF mode # "governed" THEN Assumed ELSE {})

RegionGoverned(l, mode) ==
    Fact[l].package \in Local /\ (Domestic \/ mode # "governed")

\* Amounts are never converted.
Native(l, mode) == mode = "sql" \/ Fact[l].currency = Currency

\* What keeps a line from a recommendation before its cost is compared with
\* the threshold.  A line that is OpEx by nature needs no threshold.
Gaps(l, code, mode) ==
    LET nature == Nature(l, code, mode)
        compared == RegionGoverned(l, mode) /\ nature # "OPEX_BY_NATURE"
    IN  {g \in {"task", "nature", "region", "currency", "cost", "settings"} :
            CASE g = "task"     -> code = NoTask
              [] g = "nature"   -> nature = "REVIEW"
              [] g = "region"   -> ~RegionGoverned(l, mode)
              [] g = "currency" -> compared /\ ~Native(l, mode)
              [] g = "cost"     -> compared /\ Native(l, mode) /\ Cost(l, mode) = Missing
              [] g = "settings" ->
                    /\ nature = "CAPITALIZABLE"
                    /\ ~({"threshold-equality", "threshold-basis"} \subseteq Settled(mode))}

\* Recommendation and bundling disposition of a line without gaps that is
\* below the threshold.
BelowThreshold(l, mode) ==
    IF "below-threshold-exception" \notin Settled(mode) \/ ContextOf(l) = NoContext
    THEN <<"REVIEW", "REVIEW">>
    ELSE IF ~ContextOf(l).inScope THEN <<"OPEX", "NOT_IN_SCOPE">>
    ELSE CASE ContextOf(l).status = "CLOSED" -> <<"OPEX", "NOT_ELIGIBLE">>
           [] ContextOf(l).status = "OPEN"   -> <<"OPEX", "CANDIDATE">>
           [] OTHER                          -> <<"REVIEW", "REVIEW">>

\* _assess_line: task, nature, region, threshold inputs and settings, in this
\* order, then the threshold.
Outcome(l, code, mode) ==
    IF Gaps(l, code, mode) # {} THEN <<"REVIEW", "REVIEW">>
    ELSE IF Nature(l, code, mode) = "OPEX_BY_NATURE" THEN <<"OPEX", "NOT_ELIGIBLE">>
    ELSE IF Cost(l, mode) >= Limit(l) THEN <<"CAPEX", "NOT_IN_SCOPE">>
    ELSE BelowThreshold(l, mode)

-----------------------------------------------------------------------------
(* Bundling, over the codes of the lines that were assessed.               *)

\* The lines of codes that are candidates for a bundle.
Candidates(codes, mode) ==
    {l \in DOMAIN codes : Outcome(l, codes[l], mode)[2] = "CANDIDATE"}

\* A candidate that raises BundlingInputError: the assessment has compared its
\* cost, but neither its quantity nor its amount.
Unfit(l, mode) ==
    \/ Quantity(l, mode) = Missing
    \/ Quantity(l, mode) <= 0
    \/ Cost(l, mode) < 0
    \/ Fact[l].amount < 0

\* A variant that forgets the currency.
CoarseKey(l, code) == <<code, ContextOf(l).site, ContextOf(l).project>>

\* The grouping key: the group's ID is a digest of it and the workflow run.
KeyOf(l, code) ==
    <<code, ContextOf(l).site, ContextOf(l).project, Fact[l].currency>>

\* The amount of a set of lines.
Total(lines) == MapThenSumSet(LAMBDA l : Fact[l].amount, lines)

\* The bundles: all candidates of a key, if they are enough and worth anything.
Bundles(codes, mode) ==
    LET candidates == Candidates(codes, mode)
        members(key) == {l \in candidates : KeyOf(l, codes[l]) = key}
        keys == {KeyOf(l, codes[l]) : l \in candidates}
    IN  {[key |-> key, members |-> members(key), total |-> Total(members(key))] :
            key \in {k \in keys : /\ Cardinality(members(k)) >= MinMembers
                                  /\ Total(members(k)) # 0}}

\* The assessment of a line, given the bundles.
Assessment(l, code, bundles, mode) ==
    LET outcome == Outcome(l, code, mode)
        joined == {b \in bundles : l \in b.members}
    IN  [code |-> code,
         recommendation |-> outcome[1],
         disposition |-> IF joined = {} THEN outcome[2] ELSE "GROUPED",
         group |-> IF joined = {} THEN NoGroup ELSE (CHOOSE b \in joined : TRUE).key]
=============================================================================
