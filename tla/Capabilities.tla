----------------------------- MODULE Capabilities -----------------------------
(***************************************************************************)
(* What an agent may do: grants and the actions they authorize (kernel.py, *)
(* scoping.py), grants handed down (delegation.py), the policies on top    *)
(* (policy.py), the roles that may hold a grant (rbac.py) and the static   *)
(* analysis of all of them (guarantees.py).                                *)
(*                                                                         *)
(* A dotted name and a relative path are sequences of segments.  The keys  *)
(* of a scope stand for their kind: hosts for the two allowlists, choices  *)
(* for enum with one parameter, classes for the prohibitions (forbidden    *)
(* substrings and data classes, regex), amount for the three ceilings.     *)
(* None is an absent key.  A predicate of a policy is the set of actions   *)
(* it holds for.                                                           *)
(***************************************************************************)
EXTENDS Integers, Sequences

CONSTANTS
    Segment,    \* parts of names and of paths
    Host,       \* hosts an action may reach
    Choice,     \* values of an enumerated parameter
    Class,      \* data classes
    None,       \* an absent key, parameter or predicate
    Dropped     \* the place of a grant that was asked for and not given

Capability == Seq(Segment)
Names == [segs : Seq(Segment), wild : BOOLEAN]         \* wild: ends in .*
\* Normalised paths: below the workspace, absolute, or leaving it upwards.
Paths == [kind : {"rel", "abs", "up"}, segs : Seq(Segment)]
Workspace == [kind |-> "rel", segs |-> <<>>]

Grants == [name : Names, prefix : {None} \cup Paths, hosts : {None} \cup SUBSET Host,
           choices : {None} \cup SUBSET Choice, classes : {None} \cup SUBSET Class,
           amount : {None} \cup Nat]

Actions == [capability : Capability, path : {None} \cup Paths, host : {None} \cup Host,
            choice : {None} \cup Choice, classes : SUBSET Class, amount : {None} \cup Nat]

Effects == {"allow", "require_ratify", "deny"}
Policies == [capability : {None} \cup Names, effect : Effects,
             when : {None} \cup SUBSET Actions]        \* capability None: *

Invariants == [kind : {"forbid", "require_approval", "confine"}, capability : Capability,
               prefix : Paths]

-----------------------------------------------------------------------------
(* Names and paths. *)

\* q starts with the segments of p.
Under(p, q) == Len(p) <= Len(q) /\ \A k \in 1 .. Len(p) : q[k] = p[k]

\* A pattern covers itself and, if it ends in .*, what is more specific.
NameWithin(parent, child) ==
    \/ parent = child
    \/ /\ parent.wild
       /\ Under(parent.segs, child.segs)
       /\ child.wild \/ Len(parent.segs) < Len(child.segs)

Named(capability) == [segs |-> capability, wild |-> FALSE]

PathWithin(parent, child) ==
    /\ child.kind # "up"
    /\ \/ parent = Workspace
       \/ child = parent
       \/ /\ child.kind = parent.kind /\ parent.segs # <<>>
          /\ Under(parent.segs, child.segs)

-----------------------------------------------------------------------------
(* The kernel. *)

Matches(grant, capability) == grant # Dropped /\ NameWithin(grant.name, Named(capability))

PathOk(grant, action) ==
    grant.prefix # None /\ action.path # None =>
        /\ action.path.kind = "rel"
        /\ \/ grant.prefix = Workspace
           \/ grant.prefix.kind = "rel" /\ Under(grant.prefix.segs, action.path.segs)

\* An empty list is no constraint: evaluate looks at lists that are true only.
HostOk(grant, action) ==
    grant.hosts \notin {None, {}} /\ action.host # None => action.host \in grant.hosts

ChoiceOk(grant, action) ==
    grant.choices # None /\ action.choice # None => action.choice \in grant.choices

ClassOk(grant, action) ==
    grant.classes # None => grant.classes \cap action.classes = {}

AmountOk(grant, action) ==
    grant.amount # None /\ action.amount # None => action.amount <= grant.amount

Evaluate(grant, action) ==
    /\ PathOk(grant, action) /\ HostOk(grant, action) /\ ChoiceOk(grant, action)
    /\ ClassOk(grant, action) /\ AmountOk(grant, action)

Lowest(S) == CHOOSE k \in S : \A j \in S : k <= j

MatchingGrants(grants, capability) ==
    {k \in 1 .. Len(grants) : Matches(grants[k], capability)}

\* The first grant that matches decides.
Authorize(grants, action) ==
    LET matching == MatchingGrants(grants, action.capability)
    IN  matching # {} /\ Evaluate(grants[Lowest(matching)], action)

-----------------------------------------------------------------------------
(* Delegation. *)

\* A variant that forgets what the child does not ask for.
Replaced(parent, child) == child

\* What a key is after a child asked for it: inherited, added, narrowed.
Narrowed(parent, child) == IF child = None THEN parent ELSE child

\* Prohibitions are replaced, whatever they are replaced with.
ScopeWithin(parent, child) ==
    /\ parent.prefix = None \/ child.prefix = None \/ PathWithin(parent.prefix, child.prefix)
    /\ parent.hosts = None \/ child.hosts = None \/ child.hosts \subseteq parent.hosts
    /\ parent.choices = None \/ child.choices = None \/ child.choices \subseteq parent.choices

LimitsWithin(parent, child) ==
    parent.amount = None \/ child.amount = None \/ child.amount <= parent.amount

Attenuable(parent, child) ==
    /\ parent # Dropped
    /\ NameWithin(parent.name, child.name)
    /\ ScopeWithin(parent, child)
    /\ LimitsWithin(parent, child)

AttenuateGrant(parent, child) ==
    [name |-> child.name,
     prefix |-> Narrowed(parent.prefix, child.prefix),
     hosts |-> Narrowed(parent.hosts, child.hosts),
     choices |-> Narrowed(parent.choices, child.choices),
     classes |-> Narrowed(parent.classes, child.classes),
     amount |-> Narrowed(parent.amount, child.amount)]

Covering(grants, request) == {k \in 1 .. Len(grants) : Attenuable(grants[k], request)}

\* The first grant of the parent that covers the request, narrowed to it.
AttenuateUnder(grants, request) ==
    LET covering == Covering(grants, request)
    IN  IF covering = {} THEN Dropped ELSE AttenuateGrant(grants[Lowest(covering)], request)

Delegate(grants, requests) == [k \in 1 .. Len(requests) |-> AttenuateUnder(grants, requests[k])]

\* The grants that some role of a principal permits: roles are their patterns.
CanGrant(roles, name) == \E pattern \in roles : NameWithin(pattern, name)

AuthorizeGrants(roles, grants) ==
    [k \in 1 .. Len(grants) |->
        IF grants[k] # Dropped /\ CanGrant(roles, grants[k].name) THEN grants[k] ELSE Dropped]

-----------------------------------------------------------------------------
(* Policies. *)

CapabilityMatches(policy, capability) ==
    policy.capability = None \/ NameWithin(policy.capability, Named(capability))

PolicyMatches(policy, action) ==
    /\ CapabilityMatches(policy, action.capability)
    /\ policy.when = None \/ action \in policy.when

\* The strictest effect of the policies that match.
PolicyEffect(policies, action) ==
    LET effects == {policies[k].effect : k \in {j \in 1 .. Len(policies) :
                                                  PolicyMatches(policies[j], action)}}
    IN  IF "deny" \in effects THEN "deny"
        ELSE IF "require_ratify" \in effects THEN "require_ratify" ELSE "allow"

-----------------------------------------------------------------------------
(* Static analysis. *)

\* A variant that relies on policies with a predicate too.
AnyBlock(policies, capability, effects) ==
    \E k \in 1 .. Len(policies) :
        policies[k].effect \in effects /\ CapabilityMatches(policies[k], capability)

\* A policy without a predicate blocks the capability, whatever the parameters.
UnconditionalBlock(policies, capability, effects) ==
    \E k \in 1 .. Len(policies) :
        /\ policies[k].when = None
        /\ policies[k].effect \in effects
        /\ CapabilityMatches(policies[k], capability)

Verify(inv, grants, policies) ==
    \/ MatchingGrants(grants, inv.capability) = {}
    \/ UnconditionalBlock(policies, inv.capability, {"deny"})
    \/ /\ inv.kind = "require_approval"
       /\ UnconditionalBlock(policies, inv.capability, {"deny", "require_ratify"})
    \/ /\ inv.kind = "confine"
       /\ \A k \in MatchingGrants(grants, inv.capability) :
             grants[k].prefix # None /\ PathWithin(inv.prefix, grants[k].prefix)

ProveGuarantees(invariants, grants, policies) ==
    \A inv \in invariants : Verify(inv, grants, policies)
=============================================================================
