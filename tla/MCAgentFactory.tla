---------------------------- MODULE MCAgentFactory ----------------------------
(* An instance of AgentFactory: a report writer, edits of its pack and of    *)
(* the grants in it, a chain of two delegations, requests for more and less. *)
EXTENDS AgentFactory, TLC

CONSTANTS v1, a1, a2, a3, clerk, file, write, delete, pay, reports, drafts, secret, h1,
          gWrite, gPay, gDrafts, gFiles,                  \* grants of blueprints
          rDrafts, rFiles, rPay, rReports, rNoHost, rAway, rPayTwo   \* grants asked for

Rel(s) == [kind |-> "rel", segs |-> s]
FileWrite == <<file, write>>
FileDelete == <<file, delete>>
Pay == <<pay>>
AllFile == [segs |-> <<file>>, wild |-> TRUE]

Grant(name, prefix, hosts, classes, amount) ==
    [name |-> name, prefix |-> prefix, hosts |-> hosts, choices |-> None,
     classes |-> classes, amount |-> amount]

Motion(capability, path, host, classes, amount) ==
    [capability |-> capability, path |-> path, host |-> host, choice |-> None,
     classes |-> classes, amount |-> amount]

MCMotions ==
    {Motion(FileWrite, Rel(<<reports>>), None, {}, None),
     Motion(FileWrite, Rel(<<reports, drafts>>), None, {secret}, None),
     Motion(FileWrite, Rel(<<drafts>>), None, {}, None),
     Motion(FileDelete, Rel(<<reports>>), None, {}, None),
     Motion(Pay, None, h1, {}, 1),
     Motion(Pay, None, None, {}, 2)}

WriteReports == Grant(Named(FileWrite), Rel(<<reports>>), None, {secret}, None)
WriteDrafts == Grant(Named(FileWrite), Rel(<<reports, drafts>>), None, None, None)
ReportFiles == Grant(AllFile, Rel(<<reports>>), None, None, None)
PayOne == Grant(Named(Pay), None, {h1}, None, 1)

Rule(capability, effect, when) ==
    [capability |-> capability, effect |-> effect, when |-> when]

NeverDelete == Rule(Named(FileDelete), "deny", None)
NoDraftDelete == Rule(Named(FileDelete), "deny",
                      {x \in MCMotions : x.path = Rel(<<reports, drafts>>)})
AskToPay == Rule(Named(Pay), "require_ratify", None)

Pack(objects, policies, needsApproval) ==
    [objects |-> objects, policies |-> policies, needsApproval |-> needsApproval,
     invariants |->
        {[kind |-> "forbid", capability |-> FileDelete, prefix |-> Workspace],
         [kind |-> "require_approval", capability |-> Pay, prefix |-> Workspace],
         [kind |-> "confine", capability |-> FileWrite, prefix |-> Rel(<<reports>>)]}]

\* Two bodies that keep the invariants, and one that seems to.
MCBody ==
    {Pack(<<gWrite, gPay>>, <<AskToPay>>, TRUE),
     Pack(<<gDrafts, gFiles>>, <<NeverDelete>>, FALSE),
     Pack(<<gDrafts, gFiles>>, <<NoDraftDelete>>, FALSE)}

\* A narrower grant, wider ones, prohibitions and hosts emptied, and grants out of reach.
MCFirst ==
    gWrite :> WriteReports @@ gPay :> PayOne @@ gDrafts :> WriteDrafts @@ gFiles :> ReportFiles
    @@ rDrafts :> WriteDrafts
    @@ rFiles :> Grant(AllFile, None, None, None, None)
    @@ rPay :> Grant(Named(Pay), None, None, None, None)
    @@ rReports :> Grant(Named(FileWrite), Rel(<<reports>>), None, {}, None)
    @@ rNoHost :> Grant(Named(Pay), None, {}, None, 1)
    @@ rAway :> Grant(Named(FileWrite), Rel(<<drafts>>), None, None, None)
    @@ rPayTwo :> Grant(Named(Pay), None, None, None, 2)

MCRequests == {<<rDrafts, rPay, rAway>>, <<rReports, rNoHost, rFiles, rPayTwo>>}

\* The owner of the pack takes a prefix away, or lifts prohibitions in place.
MCEdits ==
    [o \in DOMAIN MCFirst |->
        IF o = gWrite THEN {[WriteReports EXCEPT !.prefix = None], [WriteReports EXCEPT !.classes = {}]}
        ELSE {}]

MCRolesOf == clerk :> {AllFile}

Symmetry == Permutations({a1, a2, a3})
=============================================================================
