--------------------------- MODULE EventDelivery ---------------------------
(***************************************************************************)
(* What the transactional outbox promises, with no claims, clocks, retries *)
(* or dispatchers in it: an event exists once its package is stored; the   *)
(* broker then accepts between zero and MaxAttempts copies of it; and the  *)
(* event is called published only after the broker has accepted a copy,    *)
(* and for good.  InvoiceOutbox implements this specification.             *)
(***************************************************************************)
EXTENDS Integers

CONSTANTS Events, MaxAttempts

VARIABLES stage,    \* stage[e]: "absent", "stored" or "published"
          accepted  \* accepted[e]: the attempts whose copy the broker took

Init ==
    /\ stage = [e \in Events |-> "absent"]
    /\ accepted = [e \in Events |-> {}]

Store(e) ==
    /\ stage[e] = "absent"
    /\ stage' = [stage EXCEPT ![e] = "stored"]
    /\ UNCHANGED accepted

\* A copy may still arrive after the event is called published: it is the
\* send of a slow dispatcher.  It is one of the MaxAttempts copies all the same.
Accept(e) ==
    /\ stage[e] # "absent"
    /\ \E a \in (1..MaxAttempts) \ accepted[e] :
          accepted' = [accepted EXCEPT ![e] = @ \union {a}]
    /\ UNCHANGED stage

Confirm(e) ==
    /\ stage[e] = "stored"
    /\ accepted[e] # {}
    /\ stage' = [stage EXCEPT ![e] = "published"]
    /\ UNCHANGED accepted

Next == \E e \in Events : Store(e) \/ Accept(e) \/ Confirm(e)

Spec == Init /\ [][Next]_<<stage, accepted>>
=============================================================================
