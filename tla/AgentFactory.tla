----------------------------- MODULE AgentFactory -----------------------------
(***************************************************************************)
(* The life of governed agents (factory.py, agent.py): a domain pack is    *)
(* registered, its creation approved, the agent compiled from what the     *)
(* pack is then, run once, and its grants handed down to sub-agents, which *)
(* act in its name.                                                        *)
(*                                                                         *)
(* Nothing is copied on the way: an agent holds the grant objects of its   *)
(* blueprint, a sub-agent has grants of its own whose lists may still be   *)
(* those of its parent or of the request.  The owners of these objects can *)
(* edit them at any time, and every holder sees it.                        *)
(*                                                                         *)
(* A pack has one blueprint.  What the approval queue does to a row is in  *)
(* ApprovalGateway; what run and enact do around the execution is in       *)
(* DurableRun.                                                             *)
(***************************************************************************)
EXTENDS Capabilities, FiniteSets

CONSTANTS
    Object,        \* grant objects of callers: in blueprints, in requests
    First,         \* First[o]: the grant that o is at first
    Edits,         \* Edits[o]: the grants its owner may make of o
    Body,          \* what a pack may hold: grant objects, policies, invariants, needsApproval
    Requests,      \* lists of grant objects sub-agents ask for
    Motions,       \* actions that agents propose or callers enact
    RolesOf,       \* RolesOf[p]: the patterns the roles of principal p permit
    Version,       \* versions a pack is registered under
    Agent,         \* the agents that can be made
    MaxApprovals,  \* bound: approvals requested
    MaxDeployed    \* bound: agents that are compiled, not spawned

NoAgent == [kind |-> "none"]
NoPack == None

ASSUME FactoryAssumption ==
    /\ None \notin Object
    /\ First \in [Object -> Grants]
    /\ \A o \in Object : Edits[o] \subseteq Grants
    /\ \A b \in Body : /\ b.objects \in Seq(Object)
                       /\ b.policies \in Seq(Policies)
                       /\ b.invariants \subseteq Invariants
                       /\ b.needsApproval \in BOOLEAN
    /\ Requests \subseteq Seq(Object)
    /\ Motions \subseteq Actions
    /\ \A p \in DOMAIN RolesOf : RolesOf[p] \subseteq Names
    /\ MaxApprovals \in Nat /\ MaxDeployed \in Nat

VARIABLES
    object,      \* object[o]: the grant that object o is now
    pack,        \* pack[v]: the body of the pack registered as v, now
    approvals,   \* the approval queue: [version, content, status] of each request
    agents,      \* agents[a]: what agent a was made from, and what it may do
    last         \* the last action executed: by whom, and how it was ratified

vars == <<object, pack, approvals, agents, last>>

Principals == DOMAIN RolesOf
States == {"compiled", "running", "succeeded", "failed", "retired"}

\* What a pack shows of itself, and what its fingerprint stands for.
Contents == [grants : Seq(Grants), policies : Seq(Policies), invariants : SUBSET Invariants,
             needsApproval : BOOLEAN]

\* What a grant in use shares: the object it is, the objects whose lists are its lists.
Shares == [object : {None} \cup Object, hosts : {None} \cup Object,
           choices : {None} \cup Object, classes : {None} \cup Object]

\* intact: no edit has changed what the agent may do, nor what an ancestor might
\* when it handed its grants down.
AgentRecords ==
    [kind : {"root", "child"}, parent : Agent, principal : {None} \cup Principals,
     version : Version, content : Contents, grants : Seq({Dropped} \cup Grants),
     shares : Seq(Shares), policies : Seq(Policies), state : States, intact : BOOLEAN]

ApprovalRecords ==
    [version : Version, content : Contents, status : {"pending", "ratified", "overruled"}]

NoAction == [agent |-> None, action |-> None, by |-> "nobody", intact |-> TRUE]

-----------------------------------------------------------------------------

Shown(body) ==
    [grants |-> [k \in 1 .. Len(body.objects) |-> object[body.objects[k]]],
     policies |-> body.policies, invariants |-> body.invariants,
     needsApproval |-> body.needsApproval]

\* What validate and compile ask of the content, and of the final grants.
Valid(content) == ProveGuarantees(content.invariants, content.grants, content.policies)

\* Without a principal the grants are those asked for.
Permitted(principal, grants) ==
    IF principal = None THEN grants ELSE AuthorizeGrants(RolesOf[principal], grants)

\* A variant that compares what the approval was asked for by name and version.
NamedApproval(v, content) ==
    \/ ~content.needsApproval
    \/ \E k \in 1 .. Len(approvals) :
          approvals[k].version = v /\ approvals[k].status = "ratified"

\* _require_matching_approval: a ratified request for exactly this content.
MatchingApproval(v, content) ==
    \/ ~content.needsApproval
    \/ \E k \in 1 .. Len(approvals) :
          approvals[k] = [version |-> v, content |-> content, status |-> "ratified"]

Init ==
    /\ object = First
    /\ pack = [v \in Version |-> NoPack]
    /\ approvals = <<>>
    /\ agents = [a \in Agent |-> NoAgent]
    /\ last = NoAction

\* A version is registered once; again only with a pack of the same content.
Register(v, body) ==
    /\ Valid(Shown(body))
    /\ pack[v] # NoPack => Shown(pack[v]) = Shown(body)
    /\ pack' = [pack EXCEPT ![v] = body]
    /\ UNCHANGED <<object, approvals, agents, last>>

\* The owner gives the registered pack other lists of grants, policies and
\* invariants, unchecked: agents keep the objects they hold and their own policies.
EditPack(v, body) ==
    /\ pack[v] # NoPack
    /\ pack' = [pack EXCEPT ![v] = body]
    /\ UNCHANGED <<object, approvals, agents, last>>

Changed(agent, grants, shares) ==
    [agent EXCEPT !.grants = grants, !.shares = shares, !.intact = @ /\ grants = agent.grants]

\* The fields of o are bound anew: whoever holds o sees it, but a list that a
\* sub-agent was handed is no longer the list of o.
Rebound(agent, o, value) ==
    LET Kept(key, holder) ==
            IF holder = o /\ value[key] # object[o][key] THEN None ELSE holder
        Others(s) == [object |-> None, hosts |-> Kept("hosts", s.hosts),
                      choices |-> Kept("choices", s.choices),
                      classes |-> Kept("classes", s.classes)]
    IN  Changed(agent,
                [k \in DOMAIN agent.grants |->
                    IF agent.grants[k] # Dropped /\ agent.shares[k].object = o
                    THEN value ELSE agent.grants[k]],
                [k \in DOMAIN agent.shares |->
                    IF agent.shares[k].object # None THEN agent.shares[k]
                    ELSE Others(agent.shares[k])])

EditGrant(o, value) ==
    /\ value # object[o]
    /\ object' = [object EXCEPT ![o] = value]
    /\ agents' = [a \in Agent |->
          IF agents[a] = NoAgent THEN NoAgent ELSE Rebound(agents[a], o, value)]
    /\ UNCHANGED <<pack, approvals, last>>

\* The lists of o are edited in place: every grant that has them sees it.
Rewritten(agent, o, value) ==
    Changed(agent,
            [k \in DOMAIN agent.grants |->
                IF agent.grants[k] = Dropped THEN Dropped
                ELSE [agent.grants[k] EXCEPT
                         !.hosts = IF agent.shares[k].hosts = o THEN value.hosts ELSE @,
                         !.choices = IF agent.shares[k].choices = o THEN value.choices ELSE @,
                         !.classes = IF agent.shares[k].classes = o THEN value.classes ELSE @]],
            agent.shares)

EditLists(o, value) ==
    /\ value # object[o]
    /\ value = [object[o] EXCEPT !.hosts = value.hosts, !.choices = value.choices,
                                !.classes = value.classes]
    /\ \A key \in {"hosts", "choices", "classes"} : value[key] = None <=> object[o][key] = None
    /\ object' = [object EXCEPT ![o] = value]
    /\ agents' = [a \in Agent |->
          IF agents[a] = NoAgent THEN NoAgent ELSE Rewritten(agents[a], o, value)]
    /\ UNCHANGED <<pack, approvals, last>>

RequestApproval(v) ==
    /\ pack[v] # NoPack
    /\ Len(approvals) < MaxApprovals
    /\ approvals' = Append(approvals,
          [version |-> v, content |-> Shown(pack[v]), status |-> "pending"])
    /\ UNCHANGED <<object, pack, agents, last>>

\* The queue's decision, at any later time.
Decide(k, status) ==
    /\ k \in 1 .. Len(approvals)
    /\ approvals[k].status = "pending"
    /\ approvals' = [approvals EXCEPT ![k].status = status]
    /\ UNCHANGED <<object, pack, agents, last>>

Whole(o) == [object |-> o, hosts |-> o, choices |-> o, classes |-> o]

\* compile: the pack is validated, approved and instantiated as it is now, and
\* the guarantees are proved again for the grants the principal may hold; the
\* agent gets a list of its own, with the grant objects of the blueprint in it.
Create(a, v, principal) ==
    LET body == pack[v]
        content == Shown(body)
        grants == Permitted(principal, content.grants)
    IN  /\ agents[a] = NoAgent
        /\ Cardinality({b \in Agent : agents[b].kind = "root"}) < MaxDeployed
        /\ body # NoPack
        /\ Valid(content)
        /\ MatchingApproval(v, content)
        /\ ProveGuarantees(content.invariants, grants, content.policies)
        /\ agents' = [agents EXCEPT ![a] =
              [kind |-> "root", parent |-> a, principal |-> principal, version |-> v,
               content |-> content, grants |-> grants,
               shares |-> [k \in 1 .. Len(body.objects) |-> Whole(body.objects[k])],
               policies |-> content.policies, state |-> "compiled", intact |-> TRUE]]
        /\ UNCHANGED <<object, pack, approvals, last>>

\* Whose list a key of an attenuated grant is: the parent's if nothing was asked
\* for, the request's if the parent had none, and else a copy.
Holder(asked, had, holder, o) ==
    IF asked = None THEN holder ELSE IF had = None THEN o ELSE None

\* What the grant that o asks of an agent shares; prohibitions are never copied.
Handed(agent, o) ==
    LET covering == Covering(agent.grants, object[o])
        had == agent.grants[Lowest(covering)]
        shares == agent.shares[Lowest(covering)]
    IN  IF covering = {} THEN [object |-> None, hosts |-> None, choices |-> None, classes |-> None]
        ELSE [object |-> None,
              hosts |-> Holder(object[o].hosts, had.hosts, shares.hosts, o),
              choices |-> Holder(object[o].choices, had.choices, shares.choices, o),
              classes |-> Holder(object[o].classes, None, shares.classes, o)]

\* spawn: the grants asked for are attenuated under the parent's and then cut to
\* the roles of the same principal; policies are the parent's; nothing but
\* a deployment has a life cycle.
Spawn(a, child, requests) ==
    LET agent == agents[a]
        asked == [k \in 1 .. Len(requests) |-> object[requests[k]]]
    IN  /\ agent # NoAgent
        /\ agents[child] = NoAgent
        /\ agents' = [agents EXCEPT ![child] =
              [agent EXCEPT
                  !.kind = "child",
                  !.parent = a,
                  !.state = "running",
                  !.grants = Permitted(agent.principal, Delegate(agent.grants, asked)),
                  !.shares = [k \in 1 .. Len(requests) |-> Handed(agent, requests[k])]]]
        /\ UNCHANGED <<object, pack, approvals, last>>

\* A deployment's run: once, from COMPILED, and it ends either way.
StartRun(a) ==
    /\ agents[a] # NoAgent /\ agents[a].kind = "root"
    /\ agents[a].state = "compiled"
    /\ agents' = [agents EXCEPT ![a].state = "running"]
    /\ UNCHANGED <<object, pack, approvals, last>>

EndRun(a, state) ==
    /\ agents[a] # NoAgent /\ agents[a].kind = "root"
    /\ agents[a].state = "running"
    /\ agents' = [agents EXCEPT ![a].state = state]
    /\ UNCHANGED <<object, pack, approvals, last>>

Retire(a) ==
    /\ agents[a] # NoAgent /\ agents[a].kind = "root"
    /\ agents[a].state # "running"
    /\ agents' = [agents EXCEPT ![a].state = "retired"]
    /\ UNCHANGED <<object, pack, approvals, last>>

\* An action is executed if the kernel authorizes it, no policy denies it, and
\* it was ratified: by a person, or automatically where no policy asks for one.
\* enact asks nothing of the deployment: callers reach its agent in any state.
Act(a, action, by) ==
    /\ agents[a] # NoAgent
    /\ Authorize(agents[a].grants, action)
    /\ PolicyEffect(agents[a].policies, action) # "deny"
    /\ by = "auto" => PolicyEffect(agents[a].policies, action) # "require_ratify"
    /\ last' = [agent |-> a, action |-> action, by |-> by, intact |-> agents[a].intact]
    /\ UNCHANGED <<object, pack, approvals, agents>>

Next ==
    \/ \E v \in Version, b \in Body : Register(v, b) \/ EditPack(v, b)
    \/ \E o \in Object : \E g \in Edits[o] : EditGrant(o, g) \/ EditLists(o, g)
    \/ \E v \in Version : RequestApproval(v)
    \/ \E k \in 1 .. MaxApprovals, s \in {"ratified", "overruled"} : Decide(k, s)
    \/ \E a \in Agent, v \in Version, p \in Principals \cup {None} : Create(a, v, p)
    \/ \E a, child \in Agent, r \in Requests : Spawn(a, child, r)
    \/ \E a \in Agent : StartRun(a) \/ Retire(a)
    \/ \E a \in Agent, s \in {"succeeded", "failed"} : EndRun(a, s)
    \/ \E a \in Agent, x \in Motions, by \in {"auto", "human"} : Act(a, x, by)

Spec == Init /\ [][Next]_vars

-----------------------------------------------------------------------------

\* Types of the variables.
TypeOK ==
    /\ object \in [Object -> Grants]
    /\ pack \in [Version -> {NoPack} \cup Body]
    /\ approvals \in Seq(ApprovalRecords)
    /\ agents \in [Agent -> {NoAgent} \cup AgentRecords]
    /\ last \in [agent : {None} \cup Agent, action : {None} \cup Motions,
                 by : {"auto", "human", "nobody"}, intact : BOOLEAN]

Respects(inv, action, by) ==
    action.capability = inv.capability =>
        /\ inv.kind # "forbid"
        /\ inv.kind = "require_approval" => by = "human"
        /\ inv.kind = "confine" /\ action.path # None =>
              /\ action.path.kind = "rel"
              /\ PathWithin(inv.prefix, action.path)

\* A proof that rests on a policy, not on what the grants are.
PolicyBacked(inv, policies) ==
    \/ UnconditionalBlock(policies, inv.capability, {"deny"})
    \/ /\ inv.kind = "require_approval"
       /\ UnconditionalBlock(policies, inv.capability, {"deny", "require_ratify"})

\* A guarantee proved before anything ran holds (guarantees.py): whatever is handed
\* down, asked for and edited, no agent or sub-agent executes an action that violates
\* an invariant of its pack that an unconditional policy enforces; and none that
\* its grants enforce, unless an edit of the grant objects reached these grants.
GuaranteesHold ==
    last # NoAction =>
        LET agent == agents[last.agent]
        IN  \A inv \in agent.content.invariants :
                last.intact \/ PolicyBacked(inv, agent.policies) =>
                    Respects(inv, last.action, last.by)

\* What a chain of delegations may only narrow: name, path, choices, ceilings.
Bounds(grant, action) ==
    /\ Matches(grant, action.capability)
    /\ PathOk(grant, action) /\ ChoiceOk(grant, action) /\ AmountOk(grant, action)

\* Authority stays bounded along any chain of delegations (delegation.py, rbac.py):
\* what a sub-agent may do is within the name, the path, the choices and the
\* ceilings of a grant that the content it goes back to had, unless an edit reached
\* its grants or those it descends from.  A sub-agent also stays within the roles of
\* the principal whatever is edited; a deployed agent until the grants it shares are.
AuthorityIsBounded ==
    \A a \in Agent : agents[a] # NoAgent =>
        LET agent == agents[a]
        IN  \A x \in Motions : Authorize(agent.grants, x) =>
                /\ agent.intact =>
                      \E k \in 1 .. Len(agent.content.grants) : Bounds(agent.content.grants[k], x)
                /\ agent.principal # None /\ (agent.intact \/ agent.kind = "child") =>
                      CanGrant(RolesOf[agent.principal], Named(x.capability))

\* Approvals are bound to content (factory.py): whoever acts goes back to content
\* that was ratified for its version as it was compiled, when it asks for approval,
\* so that editing the pack between request and compilation never passes; and what
\* it does is within the grants that were ratified, unless an edit reached its own.
OnlyApprovedActs ==
    last # NoAction =>
        LET agent == agents[last.agent]
        IN  agent.content.needsApproval =>
              \E k \in 1 .. Len(approvals) :
                  /\ approvals[k] = [version |-> agent.version, content |-> agent.content,
                                     status |-> "ratified"]
                  /\ last.intact => \E j \in 1 .. Len(approvals[k].content.grants) :
                                       Bounds(approvals[k].content.grants[j], last.action)
=============================================================================
