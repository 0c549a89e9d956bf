-------------------------- MODULE AgentFactoryProofs --------------------------
(***************************************************************************)
(* The guarantees of agent packs hold for every set of packs, edits,       *)
(* requests, motions and roles (AgentFactory): a proof by induction over   *)
(* the chain of delegations.  Each grant stays within a grant it descends  *)
(* from (Within), and what was proved of the ancestors' grants (Verify) is *)
(* true of grants within them, as long as no edit reaches them (intact).   *)
(* What an edit cannot reach holds in any case: the effects of policies,   *)
(* the names of a sub-agent's grants, and the content that was ratified.   *)
(***************************************************************************)
EXTENDS AgentFactory, WellFoundedInduction, TLAPS

Held == {Dropped} \cup Grants

\* c narrows p: in name, path, choices and ceiling.
Within(p, c) ==
    /\ NameWithin(p.name, c.name)
    /\ p.prefix # None => /\ c.prefix # None
                          /\ c.prefix = p.prefix \/ PathWithin(p.prefix, c.prefix)
    /\ p.choices # None => c.choices # None /\ c.choices \subseteq p.choices
    /\ p.amount # None => c.amount # None /\ c.amount <= p.amount

\* Every grant of the second list descends from one of the first.
Descends(ancestors, grants) ==
    \A k \in 1 .. Len(grants) : grants[k] # Dropped =>
        \E j \in 1 .. Len(ancestors) : ancestors[j] # Dropped /\ Within(ancestors[j], grants[k])

InRoles(principal, grants) ==
    principal # None =>
        \A k \in 1 .. Len(grants) : grants[k] # Dropped =>
            CanGrant(RolesOf[principal], grants[k].name)

Backed(v, content) ==
    content.needsApproval =>
        \E k \in 1 .. Len(approvals) :
            approvals[k] = [version |-> v, content |-> content, status |-> "ratified"]

\* What holds of an agent from the moment it is made: while no edit reaches its
\* grants, and of a sub-agent's names in any case.
Governed(agent) ==
    /\ agent.intact => /\ Descends(agent.content.grants, agent.grants)
                       /\ ProveGuarantees(agent.content.invariants, agent.grants, agent.policies)
    /\ agent.intact \/ agent.kind = "child" => InRoles(agent.principal, agent.grants)

\* No grant of a sub-agent is an object of someone else.
Linked(agent) ==
    /\ Len(agent.shares) = Len(agent.grants)
    /\ agent.kind = "child" => \A k \in 1 .. Len(agent.shares) : agent.shares[k].object = None

AgentsGoverned ==
    \A a \in Agent : agents[a] # NoAgent => Governed(agents[a]) /\ Linked(agents[a])

AgentsBacked ==
    \A a \in Agent : agents[a] # NoAgent => Backed(agents[a].version, agents[a].content)

LastWasAllowed ==
    last # NoAction =>
        /\ last.agent \in Agent /\ agents[last.agent] # NoAgent
        /\ \A inv \in agents[last.agent].content.invariants :
              last.intact \/ PolicyBacked(inv, agents[last.agent].policies) =>
                  Respects(inv, last.action, last.by)
        /\ last.intact => \E j \in 1 .. Len(agents[last.agent].content.grants) :
                             Bounds(agents[last.agent].content.grants[j], last.action)

IInv == TypeOK /\ AgentsGoverned /\ AgentsBacked /\ LastWasAllowed

-----------------------------------------------------------------------------
(* Names and paths. *)

LEMMA UnderTransitive ==
    ASSUME NEW p \in Seq(Segment), NEW q \in Seq(Segment), NEW r \in Seq(Segment),
           Under(p, q), Under(q, r)
    PROVE  Under(p, r)
BY DEF Under

LEMMA NameTransitive ==
    ASSUME NEW p \in Names, NEW c \in Names, NEW d \in Names,
           NameWithin(p, c), NameWithin(c, d)
    PROVE  NameWithin(p, d)
<1>1. CASE p = c \/ c = d
  BY <1>1
<1>2. CASE p # c /\ c # d
  <2>1. /\ p.wild /\ Under(p.segs, c.segs)
        /\ c.wild /\ Under(c.segs, d.segs)
        /\ d.wild \/ Len(c.segs) < Len(d.segs)
    BY <1>2 DEF NameWithin
  <2>2. /\ p.segs \in Seq(Segment) /\ c.segs \in Seq(Segment) /\ d.segs \in Seq(Segment)
    BY DEF Names
  <2>3. Under(p.segs, d.segs)
    BY <2>1, <2>2, UnderTransitive
  <2>4. Len(p.segs) <= Len(c.segs)
    BY <2>1 DEF Under
  <2>5. /\ Len(p.segs) \in Nat /\ Len(c.segs) \in Nat /\ Len(d.segs) \in Nat
    BY <2>2
  <2>6. d.wild \/ Len(p.segs) < Len(d.segs)
    BY <2>1, <2>4, <2>5
  <2> QED
    BY <2>1, <2>3, <2>6 DEF NameWithin
<1> QED
  BY <1>1, <1>2

LEMMA PathTransitive ==
    ASSUME NEW p \in Paths, NEW c \in Paths, NEW d \in Paths,
           PathWithin(p, c), PathWithin(c, d)
    PROVE  PathWithin(p, d)
<1>1. /\ p.segs \in Seq(Segment) /\ c.segs \in Seq(Segment) /\ d.segs \in Seq(Segment)
  BY DEF Paths
<1>2. d.kind # "up"
  BY DEF PathWithin
<1>3. CASE p = Workspace \/ p = c \/ c = d
  BY <1>2, <1>3 DEF PathWithin
<1>4. CASE p # Workspace /\ p # c /\ c # d
  <2>1. c.kind = p.kind /\ p.segs # <<>> /\ Under(p.segs, c.segs)
    BY <1>4 DEF PathWithin
  <2>2. c.segs # <<>>
    BY <1>1, <2>1 DEF Under
  <2>3. c # Workspace
    BY <2>2 DEF Workspace
  <2>4. d.kind = c.kind /\ Under(c.segs, d.segs)
    BY <1>4, <2>3 DEF PathWithin
  <2>5. Under(p.segs, d.segs)
    BY <1>1, <2>1, <2>4, UnderTransitive
  <2> QED
    BY <1>2, <2>1, <2>4, <2>5 DEF PathWithin
<1> QED
  BY <1>3, <1>4

\* A path the narrower prefix admits lies within the wider one.
LEMMA PathAdmitted ==
    ASSUME NEW p \in Paths, NEW c \in Paths, NEW x \in Paths,
           PathWithin(p, c), x.kind = "rel",
           c = Workspace \/ (c.kind = "rel" /\ Under(c.segs, x.segs))
    PROVE  PathWithin(p, x)
<1>1. /\ p.segs \in Seq(Segment) /\ c.segs \in Seq(Segment) /\ x.segs \in Seq(Segment)
  BY DEF Paths
<1>2. x.kind # "up"
  OBVIOUS
<1>3. CASE p = Workspace
  BY <1>2, <1>3 DEF PathWithin
<1>4. CASE p # Workspace /\ c = p
  <2>1. p.kind = "rel" /\ Under(p.segs, x.segs)
    BY <1>4
  <2>2. p.segs # <<>>
    BY <1>4, <2>1 DEF Workspace, Paths
  <2> QED
    BY <1>2, <2>1, <2>2 DEF PathWithin
<1>5. CASE p # Workspace /\ c # p
  <2>1. c.kind = p.kind /\ p.segs # <<>> /\ Under(p.segs, c.segs)
    BY <1>5 DEF PathWithin
  <2>2. c.segs # <<>>
    BY <1>1, <2>1 DEF Under
  <2>3. c.kind = "rel" /\ Under(c.segs, x.segs)
    BY <2>2 DEF Workspace
  <2>4. Under(p.segs, x.segs)
    BY <1>1, <2>1, <2>3, UnderTransitive
  <2> QED
    BY <1>2, <2>1, <2>3, <2>4 DEF PathWithin
<1> QED
  BY <1>3, <1>4, <1>5

LEMMA LowestIsMember ==
    ASSUME NEW S \in SUBSET Nat, S # {}
    PROVE  Lowest(S) \in S
<1> DEFINE R == OpToRel(<, Nat)
<1>1. \A j, k \in Nat : j < k => <<j, k>> \in R
  BY SMT DEF OpToRel
<1>2. IsWellFoundedOn(R, Nat)
  BY NatLessThanWellFounded, Zenon
<1> HIDE DEF R
<1>3. \E k \in S : \A j \in S : ~(<<j, k>> \in R)
  BY <1>2, WFMin, Zenon
<1>4. PICK k \in S : \A j \in S : ~(<<j, k>> \in R)
  BY <1>3
<1>5. \A j \in S : j \in Nat /\ k \in Nat
  OBVIOUS
<1>6. \A j \in S : ~(j < k)
  BY <1>1, <1>4, <1>5, Zenon
<1>7. \E i \in S : \A j \in S : i <= j
  BY <1>5, <1>6
<1> QED
  BY <1>7 DEF Lowest

-----------------------------------------------------------------------------
(* Grants. *)

LEMMA WithinTransitive ==
    ASSUME NEW p \in Grants, NEW g \in Grants, NEW c \in Grants,
           Within(p, g), Within(g, c)
    PROVE  Within(p, c)
<1>1. NameWithin(p.name, c.name)
  <2>1. p.name \in Names /\ g.name \in Names /\ c.name \in Names
    BY DEF Grants
  <2> QED
    BY <2>1, NameTransitive DEF Within
<1>2. p.prefix # None => /\ c.prefix # None
                         /\ c.prefix = p.prefix \/ PathWithin(p.prefix, c.prefix)
  <2>1. SUFFICES ASSUME p.prefix # None
                 PROVE  /\ c.prefix # None
                        /\ c.prefix = p.prefix \/ PathWithin(p.prefix, c.prefix)
    OBVIOUS
  <2>2. /\ g.prefix # None
        /\ g.prefix = p.prefix \/ PathWithin(p.prefix, g.prefix)
    BY <2>1 DEF Within
  <2>3. /\ c.prefix # None
        /\ c.prefix = g.prefix \/ PathWithin(g.prefix, c.prefix)
    BY <2>2 DEF Within
  <2>4. p.prefix \in Paths /\ g.prefix \in Paths /\ c.prefix \in Paths
    BY <2>1, <2>2, <2>3 DEF Grants
  <2> QED
    BY <2>2, <2>3, <2>4, PathTransitive
<1>3. p.choices # None => c.choices # None /\ c.choices \subseteq p.choices
  BY DEF Within
<1>4. p.amount # None => c.amount # None /\ c.amount <= p.amount
  <2>1. SUFFICES ASSUME p.amount # None
                 PROVE  c.amount # None /\ c.amount <= p.amount
    OBVIOUS
  <2>2. g.amount # None /\ g.amount <= p.amount
    BY <2>1 DEF Within
  <2>3. c.amount # None /\ c.amount <= g.amount
    BY <2>2 DEF Within
  <2>4. p.amount \in Nat /\ g.amount \in Nat /\ c.amount \in Nat
    BY <2>1, <2>2, <2>3 DEF Grants
  <2> QED
    BY <2>2, <2>3, <2>4
<1> QED
  BY <1>1, <1>2, <1>3, <1>4 DEF Within

LEMMA WithinItself ==
    ASSUME NEW g \in Grants
    PROVE  Within(g, g)
<1>1. g.amount # None => g.amount <= g.amount
  BY DEF Grants
<1> QED
  BY <1>1 DEF Within, NameWithin

LEMMA AttenuateWithin ==
    ASSUME NEW g \in Grants, NEW r \in Grants, Attenuable(g, r)
    PROVE  AttenuateGrant(g, r) \in Grants /\ Within(g, AttenuateGrant(g, r))
<1> DEFINE c == AttenuateGrant(g, r)
<1>1. c \in Grants
  BY DEF Grants, AttenuateGrant, Narrowed
<1>2. NameWithin(g.name, c.name)
  BY DEF AttenuateGrant, Attenuable
<1>3. g.prefix # None => /\ c.prefix # None
                         /\ c.prefix = g.prefix \/ PathWithin(g.prefix, c.prefix)
  BY DEF AttenuateGrant, Narrowed, Attenuable, ScopeWithin
<1>4. g.choices # None => c.choices # None /\ c.choices \subseteq g.choices
  BY DEF AttenuateGrant, Narrowed, Attenuable, ScopeWithin
<1>5. g.amount # None => c.amount # None /\ c.amount <= g.amount
  BY DEF AttenuateGrant, Narrowed, Attenuable, LimitsWithin, Grants
<1> QED
  BY <1>1, <1>2, <1>3, <1>4, <1>5 DEF Within

LEMMA DelegateDescends ==
    ASSUME NEW gs \in Seq(Held), NEW rs \in Seq(Grants)
    PROVE  Delegate(gs, rs) \in Seq(Held) /\ Descends(gs, Delegate(gs, rs))
<1> DEFINE ds == Delegate(gs, rs)
<1>1. /\ Len(ds) = Len(rs)
      /\ \A k \in 1 .. Len(rs) : ds[k] = AttenuateUnder(gs, rs[k])
      /\ ds = [k \in 1 .. Len(rs) |-> AttenuateUnder(gs, rs[k])]
  BY DEF Delegate
<1>2. ASSUME NEW k \in 1 .. Len(rs)
      PROVE  /\ ds[k] \in Held
             /\ ds[k] # Dropped => \E j \in 1 .. Len(gs) : gs[j] # Dropped /\ Within(gs[j], ds[k])
  <2> DEFINE covering == {j \in 1 .. Len(gs) : Attenuable(gs[j], rs[k])}
  <2>1. ds[k] = IF covering = {} THEN Dropped ELSE AttenuateGrant(gs[Lowest(covering)], rs[k])
    BY <1>1 DEF AttenuateUnder, Covering
  <2>2. CASE covering = {}
    BY <2>1, <2>2 DEF Held
  <2>3. CASE covering # {}
    <3>1. covering \in SUBSET Nat
      OBVIOUS
    <3>2. Lowest(covering) \in covering
      BY <2>3, <3>1, LowestIsMember
    <3>3. PICK j \in 1 .. Len(gs) : Attenuable(gs[j], rs[k]) /\ ds[k] = AttenuateGrant(gs[j], rs[k])
      BY <2>1, <2>3, <3>2
    <3>4. gs[j] # Dropped /\ gs[j] \in Grants /\ rs[k] \in Grants
      BY <3>3 DEF Attenuable, Held
    <3>5. ds[k] \in Grants /\ Within(gs[j], ds[k])
      BY <3>3, <3>4, AttenuateWithin
    <3> QED
      BY <3>4, <3>5 DEF Held
  <2> QED
    BY <2>2, <2>3
<1> HIDE DEF ds
<1>3. ds \in Seq(Held)
  BY <1>1, <1>2
<1>4. Descends(gs, ds)
  BY <1>1, <1>2 DEF Descends
<1> QED
  BY <1>3, <1>4 DEF ds

LEMMA RolesKeep ==
    ASSUME NEW roles \in SUBSET Names, NEW gs \in Seq(Held)
    PROVE  /\ AuthorizeGrants(roles, gs) \in Seq(Held)
           /\ Len(AuthorizeGrants(roles, gs)) = Len(gs)
           /\ \A k \in 1 .. Len(gs) : AuthorizeGrants(roles, gs)[k] # Dropped =>
                  AuthorizeGrants(roles, gs)[k] = gs[k] /\ CanGrant(roles, gs[k].name)
<1> DEFINE ds == AuthorizeGrants(roles, gs)
<1>1. /\ Len(ds) = Len(gs)
      /\ \A k \in 1 .. Len(gs) :
            ds[k] = IF gs[k] # Dropped /\ CanGrant(roles, gs[k].name) THEN gs[k] ELSE Dropped
      /\ ds = [k \in 1 .. Len(gs) |->
            IF gs[k] # Dropped /\ CanGrant(roles, gs[k].name) THEN gs[k] ELSE Dropped]
  BY DEF AuthorizeGrants
<1> HIDE DEF ds
<1>2. \A k \in 1 .. Len(gs) : ds[k] \in Held
  BY <1>1 DEF Held
<1>3. ds \in Seq(Held)
  BY <1>1, <1>2
<1> QED
  BY <1>1, <1>3 DEF ds

LEMMA DescendsTransitive ==
    ASSUME NEW ps \in Seq(Held), NEW gs \in Seq(Held), NEW cs \in Seq(Held),
           Descends(ps, gs), Descends(gs, cs)
    PROVE  Descends(ps, cs)
<1>1. SUFFICES ASSUME NEW k \in 1 .. Len(cs), cs[k] # Dropped
               PROVE  \E i \in 1 .. Len(ps) : ps[i] # Dropped /\ Within(ps[i], cs[k])
  BY DEF Descends
<1>2. PICK j \in 1 .. Len(gs) : gs[j] # Dropped /\ Within(gs[j], cs[k])
  BY <1>1 DEF Descends
<1>3. PICK i \in 1 .. Len(ps) : ps[i] # Dropped /\ Within(ps[i], gs[j])
  BY <1>2 DEF Descends
<1>4. ps[i] \in Grants /\ gs[j] \in Grants /\ cs[k] \in Grants
  BY <1>1, <1>2, <1>3 DEF Held
<1>5. Within(ps[i], cs[k])
  BY <1>2, <1>3, <1>4, WithinTransitive
<1> QED
  BY <1>3, <1>5

-----------------------------------------------------------------------------
(* What grants authorize. *)

\* A grant that matches a capability descends from one that matches it.
LEMMA MatchDescends ==
    ASSUME NEW p \in Grants, NEW c \in Grants, NEW capability \in Capability,
           Within(p, c), NameWithin(c.name, Named(capability))
    PROVE  NameWithin(p.name, Named(capability))
<1>1. p.name \in Names /\ c.name \in Names /\ Named(capability) \in Names
  BY DEF Grants, Names, Named, Capability
<1> QED
  BY <1>1, NameTransitive DEF Within

LEMMA VerifyKept ==
    ASSUME NEW ps \in Seq(Held), NEW gs \in Seq(Held), Descends(ps, gs),
           NEW policies \in Seq(Policies), NEW inv \in Invariants,
           Verify(inv, ps, policies)
    PROVE  Verify(inv, gs, policies)
<1>0. inv.capability \in Capability /\ inv.prefix \in Paths
  BY DEF Invariants
<1>1. ASSUME NEW k \in MatchingGrants(gs, inv.capability)
      PROVE  \E j \in MatchingGrants(ps, inv.capability) :
                 ps[j] \in Grants /\ gs[k] \in Grants /\ Within(ps[j], gs[k])
  <2>1. k \in 1 .. Len(gs) /\ gs[k] # Dropped /\ NameWithin(gs[k].name, Named(inv.capability))
    BY <1>1 DEF MatchingGrants, Matches
  <2>2. PICK j \in 1 .. Len(ps) : ps[j] # Dropped /\ Within(ps[j], gs[k])
    BY <2>1 DEF Descends
  <2>3. ps[j] \in Grants /\ gs[k] \in Grants
    BY <2>1, <2>2 DEF Held
  <2>4. NameWithin(ps[j].name, Named(inv.capability))
    BY <1>0, <2>1, <2>2, <2>3, MatchDescends
  <2> QED
    BY <2>2, <2>3, <2>4 DEF MatchingGrants, Matches
<1>2. CASE MatchingGrants(ps, inv.capability) = {}
  <2>1. MatchingGrants(gs, inv.capability) = {}
    BY <1>1, <1>2
  <2> QED
    BY <2>1 DEF Verify
<1>3. CASE UnconditionalBlock(policies, inv.capability, {"deny"})
  BY <1>3 DEF Verify
<1>4. CASE /\ inv.kind = "require_approval"
           /\ UnconditionalBlock(policies, inv.capability, {"deny", "require_ratify"})
  BY <1>4 DEF Verify
<1>5. CASE /\ inv.kind = "confine"
           /\ \A k \in MatchingGrants(ps, inv.capability) :
                 ps[k].prefix # None /\ PathWithin(inv.prefix, ps[k].prefix)
  <2>1. ASSUME NEW k \in MatchingGrants(gs, inv.capability)
        PROVE  gs[k].prefix # None /\ PathWithin(inv.prefix, gs[k].prefix)
    <3>1. PICK j \in MatchingGrants(ps, inv.capability) :
              ps[j] \in Grants /\ gs[k] \in Grants /\ Within(ps[j], gs[k])
      BY <1>1, <2>1
    <3>2. ps[j].prefix # None /\ PathWithin(inv.prefix, ps[j].prefix)
      BY <1>5
    <3>3. /\ gs[k].prefix # None
          /\ gs[k].prefix = ps[j].prefix \/ PathWithin(ps[j].prefix, gs[k].prefix)
      BY <3>1, <3>2 DEF Within
    <3>4. ps[j].prefix \in Paths /\ gs[k].prefix \in Paths
      BY <3>1, <3>2, <3>3 DEF Grants
    <3> QED
      BY <1>0, <3>2, <3>3, <3>4, PathTransitive
  <2> QED
    BY <1>5, <2>1 DEF Verify
<1> QED
  BY <1>2, <1>3, <1>4, <1>5 DEF Verify

\* An unconditional policy shows in the effect on every action it is about.
LEMMA BlockShows ==
    ASSUME NEW policies \in Seq(Policies), NEW x \in Actions, NEW effects,
           UnconditionalBlock(policies, x.capability, effects)
    PROVE  \E k \in 1 .. Len(policies) : PolicyMatches(policies[k], x) /\ policies[k].effect \in effects
BY DEF UnconditionalBlock, PolicyMatches

LEMMA VerifyRespected ==
    ASSUME NEW gs \in Seq(Held), NEW policies \in Seq(Policies),
           NEW inv \in Invariants, NEW x \in Actions, NEW by \in {"auto", "human"},
           Verify(inv, gs, policies), Authorize(gs, x),
           PolicyEffect(policies, x) # "deny",
           by = "auto" => PolicyEffect(policies, x) # "require_ratify"
    PROVE  Respects(inv, x, by)
<1>1. SUFFICES ASSUME x.capability = inv.capability
               PROVE  /\ inv.kind # "forbid"
                      /\ inv.kind = "require_approval" => by = "human"
                      /\ inv.kind = "confine" /\ x.path # None =>
                            x.path.kind = "rel" /\ PathWithin(inv.prefix, x.path)
  BY DEF Respects
<1> DEFINE matching == MatchingGrants(gs, x.capability)
<1>2. matching \in SUBSET Nat /\ matching \subseteq 1 .. Len(gs)
  BY DEF MatchingGrants
<1>3. matching # {} /\ Evaluate(gs[Lowest(matching)], x)
  BY DEF Authorize
<1>4. PICK k \in matching : Evaluate(gs[k], x)
  BY <1>2, <1>3, LowestIsMember
<1>5. ~UnconditionalBlock(policies, x.capability, {"deny"})
  <2>1. SUFFICES ASSUME UnconditionalBlock(policies, x.capability, {"deny"})
                 PROVE  PolicyEffect(policies, x) = "deny"
    OBVIOUS
  <2>2. \E j \in 1 .. Len(policies) : 
            PolicyMatches(policies[j], x) /\ policies[j].effect \in {"deny"}
    BY <2>1, BlockShows
  <2>3. "deny" \in {policies[m].effect : m \in {j \in 1 .. Len(policies) :
                                                  PolicyMatches(policies[j], x)}}
    BY <2>2
  <2> QED
    BY <2>3 DEF PolicyEffect
<1>6. CASE /\ inv.kind = "require_approval"
           /\ UnconditionalBlock(policies, inv.capability, {"deny", "require_ratify"})
  <2>1. PICK j \in 1 .. Len(policies) :
            PolicyMatches(policies[j], x) /\ policies[j].effect \in {"deny", "require_ratify"}
    BY <1>1, <1>6, BlockShows
  <2>4. policies[j].effect \in {policies[m].effect : m \in {i \in 1 .. Len(policies) :
                                                  PolicyMatches(policies[i], x)}}
    BY <2>1
  <2>2. PolicyEffect(policies, x) \in {"deny", "require_ratify"}
    BY <2>1, <2>4 DEF PolicyEffect
  <2>3. by = "human"
    BY <2>2
  <2> QED
    BY <1>6, <2>3
<1>7. CASE /\ inv.kind = "confine"
           /\ \A i \in MatchingGrants(gs, inv.capability) :
                 gs[i].prefix # None /\ PathWithin(inv.prefix, gs[i].prefix)
  <2>1. SUFFICES ASSUME x.path # None
                 PROVE  x.path.kind = "rel" /\ PathWithin(inv.prefix, x.path)
    BY <1>7
  <2>2. gs[k].prefix # None /\ PathWithin(inv.prefix, gs[k].prefix)
    BY <1>1, <1>4, <1>7
  <2>3. /\ x.path.kind = "rel"
        /\ \/ gs[k].prefix = Workspace
           \/ gs[k].prefix.kind = "rel" /\ Under(gs[k].prefix.segs, x.path.segs)
    BY <1>4, <2>1, <2>2 DEF Evaluate, PathOk
  <2>4. gs[k] \in Grants
    BY <1>2, <1>4 DEF MatchingGrants, Matches, Held
  <2>5. gs[k].prefix \in Paths /\ x.path \in Paths /\ inv.prefix \in Paths
    BY <2>1, <2>2, <2>4 DEF Grants, Actions, Invariants
  <2>6. PathWithin(inv.prefix, x.path)
    BY <2>2, <2>3, <2>5, PathAdmitted
  <2> QED
    BY <2>3, <2>6
<1> QED
  BY <1>1, <1>3, <1>5, <1>6, <1>7 DEF Verify

LEMMA WithinBounds ==
    ASSUME NEW p \in Grants, NEW c \in Grants, NEW x \in Actions, p # Dropped,
           Within(p, c), Matches(c, x.capability), Evaluate(c, x)
    PROVE  Bounds(p, x)
<1>1. Matches(p, x.capability)
  <2>1. x.capability \in Capability
    BY DEF Actions
  <2> QED
    BY <2>1, MatchDescends DEF Matches
<1>2. PathOk(p, x)
  <2>1. SUFFICES ASSUME p.prefix # None, x.path # None
                 PROVE  /\ x.path.kind = "rel"
                        /\ \/ p.prefix = Workspace
                           \/ p.prefix.kind = "rel" /\ Under(p.prefix.segs, x.path.segs)
    BY DEF PathOk
  <2>2. /\ c.prefix # None
        /\ c.prefix = p.prefix \/ PathWithin(p.prefix, c.prefix)
    BY <2>1 DEF Within
  <2>3. /\ x.path.kind = "rel"
        /\ \/ c.prefix = Workspace
           \/ c.prefix.kind = "rel" /\ Under(c.prefix.segs, x.path.segs)
    BY <2>1, <2>2 DEF Evaluate, PathOk
  <2>4. CASE c.prefix = p.prefix
    BY <2>3, <2>4
  <2>5. CASE PathWithin(p.prefix, c.prefix)
    <3>1. p.prefix \in Paths /\ c.prefix \in Paths /\ x.path \in Paths
      BY <2>1, <2>2 DEF Grants, Actions
    <3>2. PathWithin(p.prefix, x.path)
      BY <2>3, <2>5, <3>1, PathAdmitted
    <3>3. p.prefix = Workspace \/ x.path = p.prefix
             \/ (p.prefix.kind = "rel" /\ Under(p.prefix.segs, x.path.segs))
      BY <2>3, <3>2 DEF PathWithin
    <3>4. p.prefix.segs \in Seq(Segment)
      BY <3>1 DEF Paths
    <3>5. Under(p.prefix.segs, p.prefix.segs)
      BY <3>4 DEF Under
    <3> QED
      BY <2>3, <3>3, <3>5
  <2> QED
    BY <2>2, <2>4, <2>5
<1>3. ChoiceOk(p, x)
  BY DEF ChoiceOk, Evaluate, Within
<1>4. AmountOk(p, x)
  <2>1. SUFFICES ASSUME p.amount # None, x.amount # None
                 PROVE  x.amount <= p.amount
    BY DEF AmountOk
  <2>2. c.amount # None /\ c.amount <= p.amount
    BY <2>1 DEF Within
  <2>3. x.amount <= c.amount
    BY <2>1, <2>2 DEF Evaluate, AmountOk
  <2>4. p.amount \in Nat /\ c.amount \in Nat /\ x.amount \in Nat
    BY <2>1, <2>2 DEF Grants, Actions
  <2> QED
    BY <2>2, <2>3, <2>4
<1> QED
  BY <1>1, <1>2, <1>3, <1>4 DEF Bounds

-----------------------------------------------------------------------------
(* Making an agent. *)

LEMMA SeqWiden ==
    ASSUME NEW gs \in Seq(Grants)
    PROVE  gs \in Seq(Held)
BY DEF Held

LEMMA PermittedKeeps ==
    ASSUME NEW principal \in {None} \cup Principals, NEW ps \in Seq(Held),
           NEW gs \in Seq(Held), Descends(ps, gs)
    PROVE  /\ Permitted(principal, gs) \in Seq(Held)
           /\ Descends(ps, Permitted(principal, gs))
           /\ InRoles(principal, Permitted(principal, gs))
<1>1. CASE principal = None
  BY <1>1 DEF Permitted, InRoles
<1>2. CASE principal # None
  <2> DEFINE roles == RolesOf[principal]
             cs == AuthorizeGrants(roles, gs)
  <2>1. roles \in SUBSET Names
    BY <1>2, FactoryAssumption DEF Principals
  <2>2. Permitted(principal, gs) = cs
    BY <1>2 DEF Permitted
  <2> HIDE DEF roles
  <2>3. /\ cs \in Seq(Held)
        /\ Len(cs) = Len(gs)
        /\ \A k \in 1 .. Len(gs) : cs[k] # Dropped =>
              cs[k] = gs[k] /\ CanGrant(roles, gs[k].name)
    BY <2>1, RolesKeep
  <2> HIDE DEF cs
  <2>4. Descends(ps, cs)
    BY <2>3 DEF Descends
  <2>5. InRoles(principal, cs)
    BY <2>3 DEF InRoles, roles
  <2> QED
    BY <2>2, <2>3, <2>4, <2>5
<1> QED
  BY <1>1, <1>2

LEMMA DescendsItself ==
    ASSUME NEW gs \in Seq(Held)
    PROVE  Descends(gs, gs)
<1>1. ASSUME NEW k \in 1 .. Len(gs), gs[k] # Dropped
      PROVE  gs[k] \in Grants
  BY <1>1 DEF Held
<1> QED
  BY <1>1, WithinItself DEF Descends

LEMMA RootGoverned ==
    ASSUME NEW gs \in Seq(Grants), NEW principal \in {None} \cup Principals
    PROVE  /\ Permitted(principal, gs) \in Seq(Held)
           /\ Descends(gs, Permitted(principal, gs))
           /\ InRoles(principal, Permitted(principal, gs))
<1>1. gs \in Seq(Held)
  BY SeqWiden
<1>2. Descends(gs, gs)
  BY <1>1, DescendsItself
<1> QED
  BY <1>1, <1>2, PermittedKeeps

\* Positions are kept: a grant the roles forbid leaves its place empty.
LEMMA PermittedLength ==
    ASSUME NEW principal \in {None} \cup Principals, NEW gs \in Seq(Held)
    PROVE  Len(Permitted(principal, gs)) = Len(gs)
<1>1. CASE principal = None
  BY <1>1 DEF Permitted
<1>2. CASE principal # None
  <2> DEFINE roles == RolesOf[principal]
  <2>1. roles \in SUBSET Names
    BY <1>2, FactoryAssumption DEF Principals
  <2>2. Permitted(principal, gs) = AuthorizeGrants(roles, gs)
    BY <1>2 DEF Permitted
  <2> HIDE DEF roles
  <2> QED
    BY <2>1, <2>2, RolesKeep
<1> QED
  BY <1>1, <1>2

LEMMA ChildGoverned ==
    ASSUME NEW agent \in AgentRecords, NEW asked \in Seq(Grants),
           NEW grants, grants = Permitted(agent.principal, Delegate(agent.grants, asked))
    PROVE  /\ grants \in Seq(Held)
           /\ Len(grants) = Len(asked)
           /\ InRoles(agent.principal, grants)
           /\ Descends(agent.grants, grants)
<1> DEFINE ds == Delegate(agent.grants, asked)
<1>1. agent.grants \in Seq(Held) /\ agent.principal \in {None} \cup Principals
  BY DEF AgentRecords, Held
<1>2. ds \in Seq(Held) /\ Descends(agent.grants, ds) /\ Len(ds) = Len(asked)
  BY <1>1, DelegateDescends DEF Delegate
<1> HIDE DEF ds
<1>3. grants = Permitted(agent.principal, ds)
  BY DEF ds
<1>4. Len(grants) = Len(asked)
  BY <1>1, <1>2, <1>3, PermittedLength
<1> QED
  BY <1>1, <1>2, <1>3, <1>4, PermittedKeeps

\* While no edit reached the parent, what was proved of it is true of the child.
LEMMA ChildKeeps ==
    ASSUME NEW agent \in AgentRecords, Governed(agent), agent.intact,
           NEW grants \in Seq(Held), Descends(agent.grants, grants)
    PROVE  /\ Descends(agent.content.grants, grants)
           /\ ProveGuarantees(agent.content.invariants, grants, agent.policies)
<1> DEFINE root == agent.content.grants
           invariants == agent.content.invariants
<1>1. /\ agent.grants \in Seq(Held) /\ agent.policies \in Seq(Policies)
      /\ root \in Seq(Grants) /\ invariants \subseteq Invariants
  BY DEF AgentRecords, Held, Contents
<1>2. /\ Descends(root, agent.grants)
      /\ ProveGuarantees(invariants, agent.grants, agent.policies)
  BY DEF Governed
<1> HIDE DEF root, invariants
<1>3. root \in Seq(Held)
  BY <1>1, SeqWiden
<1>4. Descends(root, grants)
  BY <1>1, <1>2, <1>3, DescendsTransitive
<1>5. ASSUME NEW inv \in invariants
      PROVE  Verify(inv, grants, agent.policies)
  <2>1. inv \in Invariants
    BY <1>1
  <2>2. Verify(inv, agent.grants, agent.policies)
    BY <1>2 DEF ProveGuarantees
  <2> QED
    BY <1>1, <2>1, <2>2, VerifyKept
<1> QED
  BY <1>4, <1>5 DEF ProveGuarantees, root, invariants

-----------------------------------------------------------------------------
(* What an agent's grants authorize. *)

LEMMA AuthorizedWithin ==
    ASSUME NEW root \in Seq(Grants), NEW gs \in Seq(Held), NEW x \in Actions,
           Descends(root, gs), Authorize(gs, x)
    PROVE  \E j \in 1 .. Len(root) : Bounds(root[j], x)
<1> DEFINE matching == MatchingGrants(gs, x.capability)
<1>1. matching \in SUBSET Nat
  BY DEF MatchingGrants
<1>2. matching # {} /\ Evaluate(gs[Lowest(matching)], x)
  BY DEF Authorize
<1>3. PICK k \in matching : Evaluate(gs[k], x)
  BY <1>1, <1>2, LowestIsMember
<1>4. k \in 1 .. Len(gs) /\ Matches(gs[k], x.capability)
  BY <1>3 DEF MatchingGrants
<1>5. gs[k] # Dropped /\ gs[k] \in Grants
  BY <1>4 DEF Matches, Held
<1>6. PICK j \in 1 .. Len(root) : root[j] # Dropped /\ Within(root[j], gs[k])
  BY <1>4, <1>5 DEF Descends
<1>7. root[j] \in Grants
  OBVIOUS
<1>8. Bounds(root[j], x)
  BY <1>3, <1>4, <1>5, <1>6, <1>7, WithinBounds
<1> QED
  BY <1>8

LEMMA AuthorizedInRoles ==
    ASSUME NEW principal \in Principals, principal # None, NEW gs \in Seq(Held),
           NEW x \in Actions, InRoles(principal, gs), Authorize(gs, x)
    PROVE  CanGrant(RolesOf[principal], Named(x.capability))
<1> DEFINE matching == MatchingGrants(gs, x.capability)
<1>1. matching \in SUBSET Nat
  BY DEF MatchingGrants
<1>2. matching # {}
  BY DEF Authorize
<1>3. PICK k \in matching : TRUE
  BY <1>2
<1>4. k \in 1 .. Len(gs) /\ Matches(gs[k], x.capability)
  BY <1>3 DEF MatchingGrants
<1>5. gs[k] # Dropped /\ gs[k] \in Grants
  BY <1>4 DEF Matches, Held
<1>6. CanGrant(RolesOf[principal], gs[k].name)
  BY <1>4, <1>5 DEF InRoles
<1>7. PICK pattern \in RolesOf[principal] : NameWithin(pattern, gs[k].name)
  BY <1>6 DEF CanGrant
<1>8. RolesOf[principal] \subseteq Names
  BY FactoryAssumption DEF Principals
<1>9. /\ pattern \in Names /\ gs[k].name \in Names
      /\ Named(x.capability) \in Names
  BY <1>5, <1>7, <1>8 DEF Grants, Actions, Named, Names, Capability
<1>10. NameWithin(gs[k].name, Named(x.capability))
  BY <1>4 DEF Matches
<1>11. NameWithin(pattern, Named(x.capability))
  BY <1>7, <1>9, <1>10, NameTransitive
<1> QED
  BY <1>7, <1>11 DEF CanGrant

-----------------------------------------------------------------------------
(* The induction over steps. *)

LEMMA AgentIsNotNone ==
    ASSUME NEW r \in AgentRecords
    PROVE  r # NoAgent
BY DEF AgentRecords, NoAgent

LEMMA InitHolds == Init => IInv
<1> SUFFICES ASSUME Init PROVE IInv
  OBVIOUS
<1>1. TypeOK
  BY FactoryAssumption DEF Init, TypeOK, NoAction
<1>2. AgentsGoverned /\ AgentsBacked /\ LastWasAllowed
  BY DEF Init, AgentsGoverned, AgentsBacked, LastWasAllowed
<1> QED
  BY <1>1, <1>2 DEF IInv

\* New and changed agents keep what is known of the agents and of the last action.
LEMMA AgentsChange ==
    ASSUME IInv, UNCHANGED <<pack, approvals, last>>, object' \in [Object -> Grants],
           agents' \in [Agent -> {NoAgent} \cup AgentRecords],
           \A b \in Agent : agents'[b] # NoAgent =>
               /\ Governed(agents'[b]) /\ Linked(agents'[b])
               /\ Backed(agents'[b].version, agents'[b].content),
           \A b \in Agent : agents[b] # NoAgent =>
               /\ agents'[b] # NoAgent
               /\ agents'[b].content = agents[b].content
               /\ agents'[b].policies = agents[b].policies
    PROVE  IInv'
<1>1. TypeOK'
  BY DEF IInv, TypeOK
<1>2. AgentsGoverned'
  BY DEF AgentsGoverned, Governed, Linked, Descends, InRoles
<1>3. AgentsBacked'
  BY DEF AgentsBacked, Backed
<1>4. LastWasAllowed'
  BY DEF IInv, LastWasAllowed
<1> QED
  BY <1>1, <1>2, <1>3, <1>4 DEF IInv

LEMMA AgentChange ==
    ASSUME IInv, NEW a \in Agent, NEW r \in AgentRecords,
           agents' = [agents EXCEPT ![a] = r], UNCHANGED <<object, pack, approvals, last>>,
           Governed(r), Linked(r), Backed(r.version, r.content),
           agents[a] # NoAgent => /\ r.content = agents[a].content
                                  /\ r.policies = agents[a].policies
    PROVE  IInv'
<1>1. agents \in [Agent -> {NoAgent} \cup AgentRecords] /\ object' \in [Object -> Grants]
  BY DEF IInv, TypeOK
<1>2. \A b \in Agent : agents'[b] = IF b = a THEN r ELSE agents[b]
  BY <1>1
<1>3. agents' \in [Agent -> {NoAgent} \cup AgentRecords]
  BY <1>1
<1>4. \A b \in Agent : agents'[b] # NoAgent =>
          /\ Governed(agents'[b]) /\ Linked(agents'[b])
          /\ Backed(agents'[b].version, agents'[b].content)
  BY <1>2 DEF IInv, AgentsGoverned, AgentsBacked
<1>5. r # NoAgent
  BY AgentIsNotNone
<1>6. \A b \in Agent : agents[b] # NoAgent =>
          /\ agents'[b] # NoAgent
          /\ agents'[b].content = agents[b].content
          /\ agents'[b].policies = agents[b].policies
  BY <1>2, <1>5
<1> QED
  BY <1>1, <1>3, <1>4, <1>6, AgentsChange

\* A ratified request stays where it is.
LEMMA ApprovalChange ==
    ASSUME IInv, UNCHANGED <<object, pack, agents, last>>,
           approvals' \in Seq(ApprovalRecords),
           \A k \in 1 .. Len(approvals) : approvals[k].status = "ratified" =>
               k \in 1 .. Len(approvals') /\ approvals'[k] = approvals[k]
    PROVE  IInv'
<1>1. TypeOK'
  BY DEF IInv, TypeOK
<1>2. AgentsGoverned'
  BY DEF IInv, AgentsGoverned
<1>3. AgentsBacked'
  <2>1. ASSUME NEW v, NEW content, Backed(v, content)
        PROVE  content.needsApproval =>
                 \E k \in 1 .. Len(approvals') :
                   approvals'[k] = [version |-> v, content |-> content, status |-> "ratified"]
    BY <2>1 DEF Backed
  <2>2. \A b \in Agent : agents[b] # NoAgent => Backed(agents[b].version, agents[b].content)
    BY DEF IInv, AgentsBacked
  <2> QED
    BY <2>1, <2>2 DEF AgentsBacked, Backed
<1>4. LastWasAllowed'
  BY DEF IInv, LastWasAllowed
<1> QED
  BY <1>1, <1>2, <1>3, <1>4 DEF IInv

LEMMA PackChange ==
    ASSUME IInv, NEW v \in Version, NEW body \in Body,
           pack' = [pack EXCEPT ![v] = body], UNCHANGED <<object, approvals, agents, last>>
    PROVE  IInv'
<1>1. TypeOK'
  BY DEF IInv, TypeOK
<1>2. AgentsGoverned' /\ AgentsBacked' /\ LastWasAllowed'
  BY DEF IInv, AgentsGoverned, AgentsBacked, Backed, LastWasAllowed
<1> QED
  BY <1>1, <1>2 DEF IInv

LEMMA ShownIsContent ==
    ASSUME IInv, NEW body \in Body
    PROVE  /\ Shown(body) \in Contents
           /\ Len(Shown(body).grants) = Len(body.objects)
           /\ Shown(body).policies = body.policies
<1>1. /\ body.objects \in Seq(Object) /\ body.policies \in Seq(Policies)
      /\ body.invariants \subseteq Invariants /\ body.needsApproval \in BOOLEAN
      /\ object \in [Object -> Grants]
  BY FactoryAssumption DEF IInv, TypeOK
<1> DEFINE gs == [k \in 1 .. Len(body.objects) |-> object[body.objects[k]]]
<1>2. gs \in Seq(Grants) /\ Len(gs) = Len(body.objects)
  BY <1>1
<1> HIDE DEF gs
<1> QED
  BY <1>1, <1>2 DEF Shown, Contents, gs

LEMMA CreateHolds ==
    ASSUME IInv, NEW a \in Agent, NEW v \in Version, NEW principal \in Principals \cup {None},
           Create(a, v, principal)
    PROVE  IInv'
<1>1. PICK body \in Body : body = pack[v]
  BY DEF IInv, TypeOK, Create
<1> DEFINE content == Shown(body)
           gs == Permitted(principal, content.grants)
           shares == [k \in 1 .. Len(body.objects) |-> Whole(body.objects[k])]
           r == [kind |-> "root", parent |-> a, principal |-> principal, version |-> v,
                 content |-> content, grants |-> gs, shares |-> shares,
                 policies |-> content.policies, state |-> "compiled", intact |-> TRUE]
<1>2. /\ MatchingApproval(v, content)
      /\ ProveGuarantees(content.invariants, gs, content.policies)
      /\ agents' = [agents EXCEPT ![a] = r]
      /\ UNCHANGED <<object, pack, approvals, last>>
      /\ agents[a] = NoAgent
  BY <1>1 DEF Create
<1>3. content \in Contents /\ Len(content.grants) = Len(body.objects)
  BY ShownIsContent
<1>4. shares \in Seq(Shares) /\ Len(shares) = Len(body.objects)
  <2>1. body.objects \in Seq(Object)
    BY FactoryAssumption
  <2> QED
    BY <2>1 DEF Shares, Whole
<1> HIDE DEF content, shares
<1>5. content.grants \in Seq(Grants) /\ content.policies \in Seq(Policies)
  BY <1>3 DEF Contents
<1>6. /\ gs \in Seq(Held) /\ Len(gs) = Len(content.grants)
      /\ Descends(content.grants, gs)
      /\ InRoles(principal, gs)
  BY <1>5, SeqWiden, RootGoverned, PermittedLength
<1> HIDE DEF gs
<1>7. r \in AgentRecords
  BY <1>3, <1>4, <1>5, <1>6 DEF AgentRecords, Held, States
<1>8. Governed(r) /\ Linked(r)
  BY <1>2, <1>3, <1>4, <1>6 DEF Governed, Linked
<1>9. Backed(r.version, r.content)
  BY <1>2, <1>3 DEF MatchingApproval, Backed, Contents
<1> HIDE DEF r
<1> QED
  BY <1>2, <1>7, <1>8, <1>9, AgentChange

LEMMA HandedShares ==
    ASSUME NEW agent \in AgentRecords, Linked(agent), NEW o \in Object
    PROVE  Handed(agent, o) \in Shares /\ Handed(agent, o).object = None
<1> DEFINE covering == Covering(agent.grants, object[o])
           shares == agent.shares[Lowest(covering)]
<1>1. CASE covering = {}
  BY <1>1 DEF Handed, Shares
<1>2. CASE covering # {}
  <2>1. covering \in SUBSET Nat /\ covering \subseteq 1 .. Len(agent.grants)
    BY DEF Covering
  <2>2. Lowest(covering) \in 1 .. Len(agent.grants)
    BY <1>2, <2>1, LowestIsMember
  <2>3. shares \in Shares
    <3>1. agent.shares \in Seq(Shares)
      BY DEF AgentRecords
    <3> QED
      BY <2>2, <3>1 DEF Linked
  <2>4. /\ shares.hosts \in {None} \cup Object
        /\ shares.choices \in {None} \cup Object
        /\ shares.classes \in {None} \cup Object
    BY <2>3 DEF Shares
  <2> QED
    BY <1>2, <2>4 DEF Handed, Holder, Shares
<1> QED
  BY <1>1, <1>2

LEMMA SpawnHolds ==
    ASSUME IInv, NEW a \in Agent, NEW child \in Agent, NEW requests \in Requests,
           Spawn(a, child, requests)
    PROVE  IInv'
<1>1. PICK agent \in AgentRecords : agent = agents[a]
  BY DEF IInv, TypeOK, Spawn
<1>2. Governed(agent) /\ Linked(agent) /\ Backed(agent.version, agent.content)
  <2>1. agents[a] # NoAgent
    BY DEF Spawn
  <2> QED
    BY <1>1, <2>1 DEF IInv, AgentsGoverned, AgentsBacked
<1> DEFINE asked == [k \in 1 .. Len(requests) |-> object[requests[k]]]
           grants == Permitted(agent.principal, Delegate(agent.grants, asked))
           shares == [k \in 1 .. Len(requests) |-> Handed(agent, requests[k])]
           r == [agent EXCEPT !.kind = "child", !.parent = a, !.state = "running",
                              !.grants = grants, !.shares = shares]
<1>3. /\ agents' = [agents EXCEPT ![child] = r]
      /\ UNCHANGED <<object, pack, approvals, last>>
      /\ agents[child] = NoAgent
  BY <1>1 DEF Spawn
<1>4. requests \in Seq(Object) /\ object \in [Object -> Grants]
  BY FactoryAssumption DEF IInv, TypeOK
<1>5. asked \in Seq(Grants) /\ Len(asked) = Len(requests)
  BY <1>4
<1>6. /\ shares \in Seq(Shares) /\ Len(shares) = Len(requests)
      /\ \A k \in 1 .. Len(shares) : shares[k].object = None
  <2>1. ASSUME NEW k \in 1 .. Len(requests)
        PROVE  Handed(agent, requests[k]) \in Shares /\ Handed(agent, requests[k]).object = None
    BY <1>2, <1>4, HandedShares
  <2> QED
    BY <1>4, <2>1
<1> HIDE DEF asked, shares
<1>7. /\ grants \in Seq(Held) /\ Len(grants) = Len(asked)
      /\ InRoles(agent.principal, grants)
      /\ Descends(agent.grants, grants)
  BY <1>5, ChildGoverned
<1> HIDE DEF grants
<1>8. r \in AgentRecords
  BY <1>6, <1>7 DEF AgentRecords, Held, States
<1>9. /\ r.content = agent.content /\ r.version = agent.version /\ r.intact = agent.intact
      /\ r.principal = agent.principal /\ r.policies = agent.policies
      /\ r.grants = grants /\ r.shares = shares
  BY DEF AgentRecords
<1> HIDE DEF r
<1>10. agent.intact => /\ Descends(agent.content.grants, grants)
                       /\ ProveGuarantees(agent.content.invariants, grants, agent.policies)
  BY <1>2, <1>7, ChildKeeps
<1>11. Governed(r) /\ Linked(r)
  BY <1>5, <1>6, <1>7, <1>9, <1>10 DEF Governed, Linked
<1>12. Backed(r.version, r.content)
  BY <1>2, <1>9
<1> QED
  BY <1>3, <1>8, <1>11, <1>12, AgentChange

\* An edit that reaches the grants of an agent ends what was known of them, but
\* not of a sub-agent's names.
LEMMA EditedAgent ==
    ASSUME NEW agent \in AgentRecords, Governed(agent), Linked(agent),
           NEW grants \in Seq(Held), Len(grants) = Len(agent.grants),
           NEW shares \in Seq(Shares), Len(shares) = Len(agent.shares),
           agent.kind = "child" =>
               /\ \A k \in 1 .. Len(shares) : shares[k].object = None
               /\ \A k \in 1 .. Len(grants) : grants[k] # Dropped =>
                     agent.grants[k] # Dropped /\ grants[k].name = agent.grants[k].name
    PROVE  /\ Changed(agent, grants, shares) \in AgentRecords
           /\ Governed(Changed(agent, grants, shares)) /\ Linked(Changed(agent, grants, shares))
           /\ Changed(agent, grants, shares).version = agent.version
           /\ Changed(agent, grants, shares).content = agent.content
           /\ Changed(agent, grants, shares).policies = agent.policies
<1> DEFINE r == Changed(agent, grants, shares)
<1>1. r \in AgentRecords
  BY DEF Changed, AgentRecords, Held
<1>2. /\ r.kind = agent.kind /\ r.principal = agent.principal /\ r.version = agent.version
      /\ r.content = agent.content /\ r.policies = agent.policies
      /\ r.grants = grants /\ r.shares = shares
  BY DEF Changed, AgentRecords
<1>3. r.intact => agent.intact /\ grants = agent.grants
  BY DEF Changed, AgentRecords
<1> HIDE DEF r
<1>4. agent.kind = "child" => InRoles(agent.principal, grants)
  BY DEF Governed, InRoles
<1>5. Governed(r)
  BY <1>2, <1>3, <1>4 DEF Governed
<1>6. Linked(r)
  BY <1>2 DEF Linked
<1> QED
  BY <1>1, <1>2, <1>5, <1>6 DEF r

LEMMA ReboundAgent ==
    ASSUME NEW agent \in AgentRecords, Governed(agent), Linked(agent),
           NEW o \in Object, NEW value \in Grants
    PROVE  \E grants \in Seq(Held), shares \in Seq(Shares) :
               /\ Rebound(agent, o, value) = Changed(agent, grants, shares)
               /\ Len(grants) = Len(agent.grants) /\ Len(shares) = Len(agent.shares)
               /\ agent.kind = "child" =>
                     /\ \A k \in 1 .. Len(shares) : shares[k].object = None
                     /\ grants = agent.grants
<1> DEFINE Kept(key, holder) ==
               IF holder = o /\ value[key] # object[o][key] THEN None ELSE holder
           Others(s) == [object |-> None, hosts |-> Kept("hosts", s.hosts),
                         choices |-> Kept("choices", s.choices),
                         classes |-> Kept("classes", s.classes)]
           grants == [k \in DOMAIN agent.grants |->
                         IF agent.grants[k] # Dropped /\ agent.shares[k].object = o
                         THEN value ELSE agent.grants[k]]
           shares == [k \in DOMAIN agent.shares |->
                         IF agent.shares[k].object # None THEN agent.shares[k]
                         ELSE Others(agent.shares[k])]
<1>1. Rebound(agent, o, value) = Changed(agent, grants, shares)
  BY DEF Rebound
<1>2. agent.grants \in Seq(Held) /\ agent.shares \in Seq(Shares) /\ value \in Held
  BY DEF AgentRecords, Held
<1>3. grants \in Seq(Held) /\ Len(grants) = Len(agent.grants)
  BY <1>2
<1>4. ASSUME NEW s \in Shares
      PROVE  Others(s) \in Shares /\ Others(s).object = None
  BY DEF Shares
<1> HIDE DEF Kept
<1>5. shares \in Seq(Shares) /\ Len(shares) = Len(agent.shares)
  <2> HIDE DEF Others
  <2> QED
    BY <1>2, <1>4
<1>6. ASSUME agent.kind = "child"
      PROVE  /\ \A k \in 1 .. Len(shares) : shares[k].object = None
             /\ grants = agent.grants
  <2>1. \A k \in 1 .. Len(agent.shares) : agent.shares[k].object = None
    BY <1>6 DEF Linked
  <2>2. \A k \in 1 .. Len(shares) : shares[k].object = None
    <3> HIDE DEF Others
    <3> QED
      BY <1>2, <1>4, <1>5, <2>1
  <2>3. \A k \in DOMAIN agent.grants : agent.shares[k].object # o
    BY <1>2, <2>1, FactoryAssumption DEF Linked
  <2>4. grants = agent.grants
    BY <1>2, <2>3
  <2> QED
    BY <2>2, <2>4
<1> HIDE DEF grants, shares
<1> QED
  BY <1>1, <1>3, <1>5, <1>6

LEMMA RewrittenAgent ==
    ASSUME NEW agent \in AgentRecords, NEW o \in Object, NEW value \in Grants
    PROVE  \E grants \in Seq(Held) :
               /\ Rewritten(agent, o, value) = Changed(agent, grants, agent.shares)
               /\ Len(grants) = Len(agent.grants)
               /\ \A k \in 1 .. Len(grants) : grants[k] # Dropped =>
                     agent.grants[k] # Dropped /\ grants[k].name = agent.grants[k].name
<1> DEFINE Now(k) == [agent.grants[k] EXCEPT
                         !.hosts = IF agent.shares[k].hosts = o THEN value.hosts ELSE @,
                         !.choices = IF agent.shares[k].choices = o THEN value.choices ELSE @,
                         !.classes = IF agent.shares[k].classes = o THEN value.classes ELSE @]
           grants == [k \in DOMAIN agent.grants |->
                         IF agent.grants[k] = Dropped THEN Dropped ELSE Now(k)]
<1>1. Rewritten(agent, o, value) = Changed(agent, grants, agent.shares)
  BY DEF Rewritten
<1>2. agent.grants \in Seq(Held)
  BY DEF AgentRecords, Held
<1>3. ASSUME NEW k \in DOMAIN agent.grants, agent.grants[k] # Dropped
      PROVE  Now(k) \in Grants /\ Now(k).name = agent.grants[k].name
  <2>1. PICK g \in Grants : g = agent.grants[k]
    BY <1>2, <1>3 DEF Held
  <2> DEFINE hosts == IF agent.shares[k].hosts = o THEN value.hosts ELSE g.hosts
             choices == IF agent.shares[k].choices = o THEN value.choices ELSE g.choices
             classes == IF agent.shares[k].classes = o THEN value.classes ELSE g.classes
  <2>2. Now(k) = [g EXCEPT !.hosts = hosts, !.choices = choices, !.classes = classes]
    BY <2>1
  <2>3. /\ hosts \in {None} \cup SUBSET Host /\ choices \in {None} \cup SUBSET Choice
        /\ classes \in {None} \cup SUBSET Class
    BY DEF Grants
  <2> HIDE DEF hosts, choices, classes, Now
  <2>4. /\ [g EXCEPT !.hosts = hosts, !.choices = choices, !.classes = classes] \in Grants
        /\ [g EXCEPT !.hosts = hosts, !.choices = choices, !.classes = classes].name = g.name
    BY <2>3 DEF Grants
  <2> QED
    BY <2>1, <2>2, <2>4
<1> HIDE DEF Now
<1>4. /\ \A k \in DOMAIN agent.grants : grants[k] \in Held
      /\ grants = [k \in DOMAIN agent.grants |-> grants[k]]
      /\ DOMAIN agent.grants = 1 .. Len(agent.grants) /\ Len(agent.grants) \in Nat
  BY <1>2, <1>3 DEF Held
<1>5. grants \in Seq(Held) /\ Len(grants) = Len(agent.grants)
  <2> HIDE DEF grants
  <2> QED
    BY <1>4
<1>6. \A k \in 1 .. Len(grants) : grants[k] # Dropped =>
          agent.grants[k] # Dropped /\ grants[k].name = agent.grants[k].name
  BY <1>2, <1>3, <1>5
<1> HIDE DEF grants
<1> QED
  BY <1>1, <1>5, <1>6

\* What an edit leaves of each agent, whichever way the object was edited.
LEMMA EditHolds ==
    ASSUME IInv, NEW o \in Object, NEW value \in Edits[o],
           EditGrant(o, value) \/ EditLists(o, value)
    PROVE  IInv'
<1>1. value \in Grants
  BY FactoryAssumption
<1>2. /\ object' = [object EXCEPT ![o] = value]
      /\ UNCHANGED <<pack, approvals, last>>
  BY DEF EditGrant, EditLists
<1>3. object' \in [Object -> Grants]
  BY <1>1, <1>2 DEF IInv, TypeOK
<1>4. \/ agents' = [a \in Agent |->
               IF agents[a] = NoAgent THEN NoAgent ELSE Rebound(agents[a], o, value)]
      \/ agents' = [a \in Agent |->
               IF agents[a] = NoAgent THEN NoAgent ELSE Rewritten(agents[a], o, value)]
  BY Zenon DEF EditGrant, EditLists
<1>5. ASSUME NEW b \in Agent, agents[b] # NoAgent
      PROVE  \E grants \in Seq(Held), shares \in Seq(Shares) :
                 /\ agents'[b] = Changed(agents[b], grants, shares)
                 /\ Changed(agents[b], grants, shares) \in AgentRecords
                 /\ Governed(Changed(agents[b], grants, shares))
                 /\ Linked(Changed(agents[b], grants, shares))
                 /\ Changed(agents[b], grants, shares).version = agents[b].version
                 /\ Changed(agents[b], grants, shares).content = agents[b].content
                 /\ Changed(agents[b], grants, shares).policies = agents[b].policies
  <2>1. PICK agent \in AgentRecords : agent = agents[b]
    BY <1>5 DEF IInv, TypeOK
  <2>2. Governed(agent) /\ Linked(agent)
    BY <1>5, <2>1 DEF IInv, AgentsGoverned
  <2>3. CASE agents'[b] = Rebound(agents[b], o, value)
    <3>1. PICK grants \in Seq(Held), shares \in Seq(Shares) :
               /\ Rebound(agent, o, value) = Changed(agent, grants, shares)
               /\ Len(grants) = Len(agent.grants) /\ Len(shares) = Len(agent.shares)
               /\ agent.kind = "child" =>
                     /\ \A k \in 1 .. Len(shares) : shares[k].object = None
                     /\ grants = agent.grants
      BY <1>1, <2>2, ReboundAgent
    <3>2. agent.kind = "child" =>
              /\ \A k \in 1 .. Len(shares) : shares[k].object = None
              /\ \A k \in 1 .. Len(grants) : grants[k] # Dropped =>
                    agent.grants[k] # Dropped /\ grants[k].name = agent.grants[k].name
      BY <3>1
    <3>3. /\ Changed(agent, grants, shares) \in AgentRecords
          /\ Governed(Changed(agent, grants, shares))
          /\ Linked(Changed(agent, grants, shares))
          /\ Changed(agent, grants, shares).version = agent.version
          /\ Changed(agent, grants, shares).content = agent.content
          /\ Changed(agent, grants, shares).policies = agent.policies
      BY <2>2, <3>1, <3>2, EditedAgent
    <3> QED
      BY <2>1, <2>3, <3>1, <3>3
  <2>4. CASE agents'[b] = Rewritten(agents[b], o, value)
    <3>1. PICK grants \in Seq(Held) :
               /\ Rewritten(agent, o, value) = Changed(agent, grants, agent.shares)
               /\ Len(grants) = Len(agent.grants)
               /\ \A k \in 1 .. Len(grants) : grants[k] # Dropped =>
                     agent.grants[k] # Dropped /\ grants[k].name = agent.grants[k].name
      BY <1>1, RewrittenAgent
    <3> DEFINE shares == agent.shares
    <3>2. shares \in Seq(Shares) /\ Len(shares) = Len(agent.shares)
      BY DEF AgentRecords
    <3>3. agent.kind = "child" => \A k \in 1 .. Len(shares) : shares[k].object = None
      BY <2>2 DEF Linked
    <3> HIDE DEF shares
    <3>4. /\ Changed(agent, grants, shares) \in AgentRecords
          /\ Governed(Changed(agent, grants, shares))
          /\ Linked(Changed(agent, grants, shares))
          /\ Changed(agent, grants, shares).version = agent.version
          /\ Changed(agent, grants, shares).content = agent.content
          /\ Changed(agent, grants, shares).policies = agent.policies
      BY <2>2, <3>1, <3>2, <3>3, EditedAgent
    <3>5. agents'[b] = Changed(agent, grants, shares)
      BY <2>1, <2>4, <3>1 DEF shares
    <3> QED
      BY <2>1, <3>2, <3>4, <3>5
  <2> QED
    BY <1>4, <1>5, <2>3, <2>4
<1>6. ASSUME NEW b \in Agent
      PROVE  /\ agents[b] = NoAgent => agents'[b] = NoAgent
             /\ agents[b] # NoAgent =>
                   /\ agents'[b] \in AgentRecords /\ agents'[b] # NoAgent
                   /\ Governed(agents'[b]) /\ Linked(agents'[b])
                   /\ agents'[b].version = agents[b].version
                   /\ agents'[b].content = agents[b].content
                   /\ agents'[b].policies = agents[b].policies
  <2>1. agents[b] = NoAgent => agents'[b] = NoAgent
    BY <1>4
  <2>2. CASE agents[b] # NoAgent
    BY <1>5, <2>2, AgentIsNotNone
  <2> QED
    BY <2>1, <2>2
<1>7. agents' \in [Agent -> {NoAgent} \cup AgentRecords]
  <2>1. agents' = [a \in Agent |-> agents'[a]]
    BY <1>4
  <2> QED
    BY <1>6, <2>1
<1>8. \A b \in Agent : agents'[b] # NoAgent =>
          /\ Governed(agents'[b]) /\ Linked(agents'[b])
          /\ Backed(agents'[b].version, agents'[b].content)
  <2>1. \A b \in Agent : agents[b] # NoAgent => Backed(agents[b].version, agents[b].content)
    BY DEF IInv, AgentsBacked
  <2> QED
    BY <1>6, <2>1
<1> QED
  BY <1>2, <1>3, <1>6, <1>7, <1>8, AgentsChange

\* The life cycle of a deployment leaves what it may do alone.
LEMMA StateChange ==
    ASSUME IInv, NEW a \in Agent, NEW state \in States, agents[a] # NoAgent,
           agents' = [agents EXCEPT ![a].state = state],
           UNCHANGED <<object, pack, approvals, last>>
    PROVE  IInv'
<1>1. PICK agent \in AgentRecords : agent = agents[a]
  BY DEF IInv, TypeOK
<1>2. Governed(agent) /\ Linked(agent) /\ Backed(agent.version, agent.content)
  BY <1>1 DEF IInv, AgentsGoverned, AgentsBacked
<1> DEFINE r == [agent EXCEPT !.state = state]
<1>3. agents' = [agents EXCEPT ![a] = r]
  BY <1>1
<1>4. r \in AgentRecords
  BY DEF AgentRecords
<1>5. /\ r.content = agent.content /\ r.version = agent.version /\ r.kind = agent.kind
      /\ r.principal = agent.principal /\ r.policies = agent.policies
      /\ r.grants = agent.grants /\ r.shares = agent.shares /\ r.intact = agent.intact
  BY DEF AgentRecords
<1> HIDE DEF r
<1>6. Governed(r) /\ Linked(r) /\ Backed(r.version, r.content)
  BY <1>2, <1>5 DEF Governed, Linked
<1> QED
  BY <1>1, <1>3, <1>4, <1>5, <1>6, AgentChange

LEMMA ActHolds ==
    ASSUME IInv, NEW a \in Agent, NEW x \in Motions, NEW by \in {"auto", "human"},
           Act(a, x, by)
    PROVE  IInv'
<1>1. PICK agent \in AgentRecords : agent = agents[a]
  BY DEF IInv, TypeOK, Act
<1>2. agents[a] # NoAgent
  BY DEF Act
<1>3. Governed(agent)
  BY <1>1, <1>2 DEF IInv, AgentsGoverned
<1>4. /\ Authorize(agent.grants, x)
      /\ PolicyEffect(agent.policies, x) # "deny"
      /\ by = "auto" => PolicyEffect(agent.policies, x) # "require_ratify"
  BY <1>1 DEF Act
<1>5. /\ agent.grants \in Seq(Held) /\ agent.policies \in Seq(Policies) /\ x \in Actions
      /\ agent.content.grants \in Seq(Grants) /\ agent.content.invariants \subseteq Invariants
      /\ agent.intact \in BOOLEAN
  BY FactoryAssumption DEF AgentRecords, Held, Contents
<1>6. ASSUME NEW inv \in agent.content.invariants,
             agent.intact \/ PolicyBacked(inv, agent.policies)
      PROVE  Respects(inv, x, by)
  <2>1. Verify(inv, agent.grants, agent.policies)
    BY <1>3, <1>6 DEF Governed, ProveGuarantees, PolicyBacked, Verify
  <2>2. inv \in Invariants
    BY <1>5
  <2> QED
    BY <1>4, <1>5, <2>1, <2>2, VerifyRespected
<1>7. agent.intact => \E j \in 1 .. Len(agent.content.grants) : Bounds(agent.content.grants[j], x)
  <2>1. agent.intact => Descends(agent.content.grants, agent.grants)
    BY <1>3 DEF Governed
  <2> QED
    BY <1>4, <1>5, <2>1, AuthorizedWithin
<1>8. /\ last' = [agent |-> a, action |-> x, by |-> by, intact |-> agent.intact]
      /\ UNCHANGED <<object, pack, approvals, agents>>
  BY <1>1 DEF Act
<1>9. TypeOK'
  BY <1>5, <1>8 DEF IInv, TypeOK
<1>10. AgentsGoverned' /\ AgentsBacked'
  BY <1>8 DEF IInv, AgentsGoverned, AgentsBacked, Backed
<1>11. LastWasAllowed'
  BY <1>1, <1>2, <1>6, <1>7, <1>8 DEF LastWasAllowed
<1> QED
  BY <1>9, <1>10, <1>11 DEF IInv

LEMMA StepHolds == IInv /\ [Next]_vars => IInv'
<1> SUFFICES ASSUME IInv, [Next]_vars PROVE IInv'
  OBVIOUS
<1>0. approvals \in Seq(ApprovalRecords)
  BY DEF IInv, TypeOK
<1>1. ASSUME NEW v \in Version, NEW b \in Body, Register(v, b) \/ EditPack(v, b)
      PROVE  IInv'
  <2>1. pack' = [pack EXCEPT ![v] = b] /\ UNCHANGED <<object, approvals, agents, last>>
    BY <1>1 DEF Register, EditPack
  <2> QED
    BY <2>1, PackChange
<1>2. ASSUME NEW v \in Version, RequestApproval(v)
      PROVE  IInv'
  <2>5. PICK body \in Body : body = pack[v]
    BY <1>2 DEF RequestApproval, IInv, TypeOK
  <2>1. PICK content \in Contents : content = Shown(pack[v])
    BY <2>5, ShownIsContent
  <2>2. /\ approvals' = Append(approvals, [version |-> v, content |-> content, status |-> "pending"])
        /\ UNCHANGED <<object, pack, agents, last>>
    BY <1>2, <2>1 DEF RequestApproval
  <2>3. \A k \in 1 .. Len(approvals) : k \in 1 .. Len(approvals') /\ approvals'[k] = approvals[k]
    BY <1>0, <2>2
  <2>4. approvals' \in Seq(ApprovalRecords)
    BY <1>0, <2>2 DEF ApprovalRecords
  <2> QED
    BY <2>2, <2>3, <2>4, ApprovalChange
<1>3. ASSUME NEW k \in 1 .. MaxApprovals, NEW s \in {"ratified", "overruled"}, Decide(k, s)
      PROVE  IInv'
  <2>1. /\ k \in 1 .. Len(approvals) /\ approvals[k].status = "pending"
        /\ approvals' = [approvals EXCEPT ![k].status = s]
        /\ UNCHANGED <<object, pack, agents, last>>
    BY <1>3 DEF Decide
  <2>8. PICK old \in ApprovalRecords : old = approvals[k]
    BY <1>0, <2>1
  <2> DEFINE row == [old EXCEPT !.status = s]
  <2>6. row \in ApprovalRecords
    BY DEF ApprovalRecords
  <2>7. approvals' = [approvals EXCEPT ![k] = row]
    BY <2>1, <2>8
  <2> HIDE DEF row
  <2>2. approvals' \in Seq(ApprovalRecords)
    BY <1>0, <2>1, <2>6, <2>7
  <2>4. /\ Len(approvals') = Len(approvals)
        /\ \A j \in 1 .. Len(approvals) : j # k => approvals'[j] = approvals[j]
    BY <1>0, <2>1
  <2>5. \A j \in 1 .. Len(approvals) : approvals[j].status = "ratified" => j # k
    BY <2>1
  <2>3. \A j \in 1 .. Len(approvals) : approvals[j].status = "ratified" =>
            j \in 1 .. Len(approvals') /\ approvals'[j] = approvals[j]
    BY <2>4, <2>5
  <2> QED
    BY <2>1, <2>2, <2>3, ApprovalChange
<1>4. ASSUME NEW a \in Agent, NEW v \in Version, NEW p \in Principals \cup {None}, Create(a, v, p)
      PROVE  IInv'
  BY <1>4, CreateHolds
<1>5. ASSUME NEW a \in Agent, NEW child \in Agent, NEW r \in Requests, Spawn(a, child, r)
      PROVE  IInv'
  BY <1>5, SpawnHolds
<1>6. ASSUME NEW a \in Agent, StartRun(a) \/ Retire(a)
      PROVE  IInv'
  <2>1. CASE StartRun(a)
    BY <2>1, StateChange DEF StartRun, States
  <2>2. CASE Retire(a)
    BY <2>2, StateChange DEF Retire, States
  <2> QED
    BY <1>6, <2>1, <2>2
<1>7. ASSUME NEW a \in Agent, NEW s \in {"succeeded", "failed"}, EndRun(a, s)
      PROVE  IInv'
  <2>1. s \in States
    BY DEF States
  <2> QED
    BY <1>7, <2>1, StateChange DEF EndRun
<1>8. ASSUME NEW a \in Agent, NEW x \in Motions, NEW by \in {"auto", "human"}, Act(a, x, by)
      PROVE  IInv'
  BY <1>8, ActHolds
<1>10. ASSUME NEW o \in Object, NEW g \in Edits[o], EditGrant(o, g) \/ EditLists(o, g)
       PROVE  IInv'
  BY <1>10, EditHolds
<1>9. CASE UNCHANGED vars
  BY <1>9 DEF vars, IInv, TypeOK, AgentsGoverned, AgentsBacked, Backed, LastWasAllowed
<1> QED
  BY <1>1, <1>2, <1>3, <1>4, <1>5, <1>6, <1>7, <1>8, <1>9, <1>10 DEF Next

-----------------------------------------------------------------------------
(* Theorems. *)

\* The inductive invariant holds of the factory whatever agents are asked for.
THEOREM Inductive == Spec => []IInv
<1>1. Init => IInv
  BY InitHolds
<1>2. IInv /\ [Next]_vars => IInv'
  BY StepHolds
<1> QED
  BY <1>1, <1>2, PTL DEF Spec

\* The records of the factory have their types: grants that were attenuated and
\* filtered (delegation.py, rbac.py) are grants.
THEOREM FactoryTyped == Spec => []TypeOK
<1>1. IInv => TypeOK
  BY DEF IInv
<1> QED
  BY <1>1, Inductive, PTL

\* Guarantees proved statically (guarantees.py) hold of every action executed, for
\* every pack and any chain of delegations: those that rest on policies whatever is
\* edited, those that rest on grants while no edit reaches the grants of who acts.
THEOREM GuaranteesAreKept == Spec => []GuaranteesHold
<1>1. IInv => GuaranteesHold
  BY DEF IInv, LastWasAllowed, GuaranteesHold
<1> QED
  BY <1>1, Inductive, PTL

\* A sub-agent of any depth stays within the blueprint's grants in name, path,
\* choices and ceilings while no edit reaches it or those it descends from, and
\* within the roles of its principal in any case.
THEOREM AuthorityStaysBounded == Spec => []AuthorityIsBounded
<1>1. ASSUME IInv, NEW a \in Agent, agents[a] # NoAgent, NEW x \in Motions,
             Authorize(agents[a].grants, x)
      PROVE  /\ agents[a].intact =>
                    \E k \in 1 .. Len(agents[a].content.grants) :
                       Bounds(agents[a].content.grants[k], x)
             /\ agents[a].principal # None /\ (agents[a].intact \/ agents[a].kind = "child") =>
                    CanGrant(RolesOf[agents[a].principal], Named(x.capability))
  <2>1. PICK agent \in AgentRecords : agent = agents[a]
    BY <1>1 DEF IInv, TypeOK
  <2>2. Governed(agent)
    BY <1>1, <2>1 DEF IInv, AgentsGoverned
  <2>3. /\ agent.grants \in Seq(Held) /\ agent.content.grants \in Seq(Grants)
        /\ agent.principal \in {None} \cup Principals /\ x \in Actions
    BY FactoryAssumption DEF AgentRecords, Held, Contents
  <2>4. ASSUME agent.intact
        PROVE  \E k \in 1 .. Len(agent.content.grants) : Bounds(agent.content.grants[k], x)
    <3>1. Descends(agent.content.grants, agent.grants)
      BY <2>2, <2>4 DEF Governed
    <3> QED
      BY <1>1, <2>1, <2>3, <3>1, AuthorizedWithin
  <2>5. ASSUME agent.principal # None, agent.intact \/ agent.kind = "child"
        PROVE  CanGrant(RolesOf[agent.principal], Named(x.capability))
    <3>1. InRoles(agent.principal, agent.grants)
      BY <2>2, <2>5 DEF Governed
    <3>2. agent.principal \in Principals
      BY <2>3, <2>5
    <3> QED
      BY <1>1, <2>1, <2>3, <2>5, <3>1, <3>2, AuthorizedInRoles
  <2> QED
    BY <2>1, <2>4, <2>5
<1>2. IInv => AuthorityIsBounded
  BY <1>1 DEF AuthorityIsBounded
<1> QED
  BY <1>2, Inductive, PTL

\* Whoever acts was made from content that was ratified as it was compiled, where
\* the pack asks for approval (factory.py), whatever is edited; and the action is
\* within the grants that were ratified while no edit reaches those of who acts.
THEOREM OnlyApprovedAgentsAct == Spec => []OnlyApprovedActs
<1>1. ASSUME IInv, last # NoAction, agents[last.agent].content.needsApproval
      PROVE  \E k \in 1 .. Len(approvals) :
                 /\ approvals[k] = [version |-> agents[last.agent].version,
                                    content |-> agents[last.agent].content,
                                    status |-> "ratified"]
                 /\ last.intact => \E j \in 1 .. Len(approvals[k].content.grants) :
                                      Bounds(approvals[k].content.grants[j], last.action)
  <2>1. PICK agent : agent = agents[last.agent]
    OBVIOUS
  <2>2. Backed(agent.version, agent.content)
    BY <1>1, <2>1 DEF IInv, LastWasAllowed, AgentsBacked
  <2>3. PICK k \in 1 .. Len(approvals) :
            approvals[k] = [version |-> agent.version, content |-> agent.content,
                            status |-> "ratified"]
    BY <1>1, <2>1, <2>2 DEF Backed
  <2>4. approvals[k].content = agent.content
    BY <2>3
  <2>5. last.intact => \E j \in 1 .. Len(agent.content.grants) :
                          Bounds(agent.content.grants[j], last.action)
    BY <1>1, <2>1 DEF IInv, LastWasAllowed
  <2> QED
    BY <2>1, <2>3, <2>4, <2>5
<1>2. IInv => OnlyApprovedActs
  BY <1>1 DEF OnlyApprovedActs
<1> QED
  BY <1>2, Inductive, PTL
=============================================================================
