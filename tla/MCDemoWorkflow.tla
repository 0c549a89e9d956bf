---------------------------- MODULE MCDemoWorkflow ----------------------------
(* An instance of DemoWorkflow: two attempts, two packages and two tasks.    *)
(* Lines a1 and a3 make a bundle, which b1 joins if the model gives it the   *)
(* task t1, and which is not made if the package A is dropped.  For the SQL  *)
(* job c1 is like them but of another currency, whose threshold c2 reaches   *)
(* and they do not; a2 is above the threshold; b2 fails the bundling if the  *)
(* model gives it a task.                                                    *)
EXTENDS DemoWorkflow, TLC

CONSTANTS t1, t2, A, B, a1, a2, a3, b1, b2, c1, c2, p1, p2

MCOrder == <<A, B>>
MCMasters == {{t1, t2}, {t1}}
MCSnapshot == {t1, t2}

OfPackage(k) ==
    [package |-> k, source |-> NoTask, agreed |-> t1, described |-> NoTask,
     offered |-> {}, cost |-> 4, quantity |-> 2, amount |-> 8,
     pieces |-> 2, price |-> 4, currency |-> "USD"]

MCFact ==
    a1 :> [OfPackage(A) EXCEPT !.source = t1]
 @@ a3 :> [OfPackage(A) EXCEPT !.source = t1]
 @@ a2 :> [OfPackage(A) EXCEPT !.described = t1, !.cost = 20, !.price = 20, !.agreed = t2]
 @@ b1 :> [OfPackage(B) EXCEPT !.offered = {t1, t2}]
 @@ b2 :> [OfPackage(B) EXCEPT !.offered = {t1}, !.quantity = Missing, !.agreed = NoTask]
 @@ c1 :> [OfPackage(A) EXCEPT !.source = t1, !.currency = "CAD"]
 @@ c2 :> [OfPackage(B) EXCEPT !.source = t1, !.currency = "CAD",
                                !.cost = Missing, !.price = 7, !.amount = 14]

MCContext ==
    [k \in Package |-> [site |-> "s1", project |-> "j1", status |-> "OPEN", inScope |-> TRUE]]

MCThreshold == "USD" :> 10 @@ "CAD" :> 5

MCRules ==
    {[codes |-> {t1}, lines |-> {}, nature |-> "CAPITALIZABLE"],
     [codes |-> {t2}, lines |-> {}, nature |-> "OPEX_BY_NATURE"]}

OfMode(mode) ==
    [mode |-> mode, valid |-> TRUE, failOnReview |-> FALSE, immutable |-> FALSE]
MCRequests ==
    {OfMode("governed"), OfMode("sql"),
     [OfMode("synthetic") EXCEPT !.failOnReview = TRUE, !.immutable = TRUE],
     [OfMode("synthetic") EXCEPT !.valid = FALSE],
     [OfMode("sql") EXCEPT !.valid = FALSE]}

Attempts == Permutations(Attempt)
=============================================================================
