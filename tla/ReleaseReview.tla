----------------------------- MODULE ReleaseReview -----------------------------
(***************************************************************************)
(* The release-review store (review.py): packages are submitted for review *)
(* by the digest of their content, named reviewers vote, and whoever wants *)
(* to release a package asks for an approval of exactly its digest.        *)
(*                                                                         *)
(* Every operation is one BEGIN IMMEDIATE transaction on a database that   *)
(* processes share.  submit and _vote read the clock before they wait for  *)
(* the lock: here a transaction has a time now, at most the clock's.  One  *)
(* that fails is rolled back, which is no step.  The log is the hash-      *)
(* chained event table; the chain is its order here.                       *)
(***************************************************************************)
EXTENDS Integers, FiniteSets, Sequences

CONSTANTS
    Key,         \* release keys
    Digest,      \* digests of package content
    Reviewer,    \* names
    Contracts,   \* [reviewers, quorum]: what a submission asks, its texts left out
    Lifetimes,   \* ttl_seconds: numbers of ticks, or Forever
    Forever,
    MaxTime,     \* bound: ticks of the clock
    MaxReviews,  \* bound: rows
    MaxComments  \* bound: comments

ASSUME ReviewAssumption ==
    /\ \A c \in Contracts : /\ c.reviewers \in SUBSET Reviewer
                            /\ IsFiniteSet(c.reviewers)
                            /\ c.quorum \in 1 .. Cardinality(c.reviewers)
    /\ Lifetimes \subseteq (Nat \ {0}) \cup {Forever}
    /\ MaxTime \in Nat /\ MaxReviews \in Nat /\ MaxComments \in Nat

VARIABLES
    clock,     \* time.time()
    reviews,   \* release_reviews in insertion order; a position is an id
    reviewVotes,     \* review_votes
    log,       \* review_events
    released   \* [review, digest] of each release that was let through

reviewVars == <<clock, reviews, reviewVotes, log, released>>

Statuses == {"pending", "approved", "rejected", "expired", "superseded"}
Ids == 1 .. MaxReviews

ReviewRows == [key : Key, digest : Digest, contract : Contracts, status : Statuses,
         created : 0 .. MaxTime, expires : Nat \cup {Forever}, supersededBy : 0 .. MaxReviews]

\* Rows of review_events: what an event says, its time, actor and hashes left out.
AuditEvents ==
    [kind : {"expired"}, review : Ids]
    \cup [kind : {"superseded"}, review : Ids, by : 0 .. MaxReviews]
    \cup [kind : {"submitted"}, review : Ids, digest : Digest, contract : Contracts]
    \cup [kind : {"review_decided"}, review : Ids, status : {"approved", "rejected"}]
    \cup [kind : {"vote_recorded"}, review : Ids, reviewer : Reviewer,
          decision : {"approved", "rejected"}]
    \cup [kind : {"comment_added"}, review : Ids, reviewer : Reviewer]

Votes == [review : Ids, reviewer : Reviewer, decision : {"approved", "rejected"},
          at : 0 .. MaxTime]

-----------------------------------------------------------------------------

\* _expire_row_locked: a pending row is expired when its time has come.
Due(row, now) ==
    row.status = "pending" /\ row.expires # Forever /\ now >= row.expires

Refreshed(id, now) ==
    IF Due(reviews[id], now) THEN [reviews EXCEPT ![id].status = "expired"] ELSE reviews

ExpiryOf(id, now) ==
    IF Due(reviews[id], now) THEN <<[kind |-> "expired", review |-> id]>> ELSE <<>>

\* ORDER BY created_at DESC LIMIT 1: rows of one tick may come in any order.
Latest(key) ==
    LET rows == {i \in DOMAIN reviews : reviews[i].key = key}
    IN  {i \in rows : \A j \in rows : reviews[j].created <= reviews[i].created}

\* A submission that asks the same of the same content recovers its review.
SameReview(row, digest, contract) ==
    /\ row.digest = digest
    /\ row.contract = contract
    /\ row.status \in {"pending", "approved", "rejected"}

\* A variant that leaves approved reviews of the key in force.
PendingReviews(rows, key) ==
    {i \in DOMAIN rows : rows[i].key = key /\ rows[i].status = "pending"}

ActiveReviews(rows, key) ==
    {i \in DOMAIN rows : rows[i].key = key /\ rows[i].status \in {"pending", "approved"}}

\* A variant that takes any approval.
AnyApproval(row, digest) == row.status = "approved"

\* valid_for: an approval of exactly this content.
ValidFor(row, digest) == row.status = "approved" /\ row.digest = digest

\* A variant that takes a lifetime for a time.
AbsoluteExpiry(now, lifetime) == lifetime

\* expires_at of a submission.
ExpiresAt(now, lifetime) == IF lifetime = Forever THEN Forever ELSE now + lifetime

Approvals(id) == {v \in reviewVotes : v.review = id /\ v.decision = "approved"}

Open(id, now) == reviews[id].status = "pending" /\ ~Due(reviews[id], now)

\* A variant that lets a reviewer vote again.
VoteAgain(id, reviewer, now) ==
    Open(id, now) /\ reviewer \in reviews[id].contract.reviewers

\* _vote records a vote of a named reviewer, once, while the review is pending.
VoteCounts(id, reviewer, now) ==
    /\ Open(id, now)
    /\ reviewer \in reviews[id].contract.reviewers
    /\ ~\E v \in reviewVotes : v.review = id /\ v.reviewer = reviewer

-----------------------------------------------------------------------------

ReviewInit ==
    /\ clock = 0
    /\ reviews = <<>>
    /\ reviewVotes = {}
    /\ log = <<>>
    /\ released = {}

Tick ==
    /\ clock < MaxTime
    /\ clock' = clock + 1
    /\ UNCHANGED <<reviews, reviewVotes, log, released>>

\* submit expires the latest review of the key if it is due.  If that asks the same
\* it is the answer, which is no step; else every active review, in the order in which
\* the SELECT returns them, gives way to a new one.
Submit(key, digest, contract, lifetime, now, latest) ==
    LET rows == IF latest = 0 THEN reviews ELSE Refreshed(latest, now)
        expiry == IF latest = 0 THEN <<>> ELSE ExpiryOf(latest, now)
        active == ActiveReviews(rows, key)
        id == Len(reviews) + 1
        gone(i) == [kind |-> "superseded", review |-> i, by |-> id]
        row == [key |-> key, digest |-> digest, contract |-> contract,
                status |-> "pending", created |-> now,
                expires |-> ExpiresAt(now, lifetime),
                supersededBy |-> 0]
    IN  /\ IF latest = 0 THEN Latest(key) = {}
           ELSE latest \in Latest(key) /\ ~SameReview(rows[latest], digest, contract)
        /\ id <= MaxReviews
        /\ reviews' = Append([i \in DOMAIN rows |->
              IF i \in active THEN [rows[i] EXCEPT !.status = "superseded", !.supersededBy = id]
              ELSE rows[i]], row)
        /\ \E order \in [1 .. Cardinality(active) -> active] :
              /\ \A i \in active : \E k \in DOMAIN order : order[k] = i
              /\ log' = log \o expiry \o [k \in DOMAIN order |-> gone(order[k])]
                    \o <<[kind |-> "submitted", review |-> id, digest |-> digest,
                          contract |-> contract]>>
        /\ UNCHANGED <<clock, reviewVotes, released>>

\* A rejection decides at once, an approval when the quorum is reached.
Vote(id, reviewer, decision, now) ==
    LET vote == [review |-> id, reviewer |-> reviewer, decision |-> decision, at |-> now]
        status == IF decision = "rejected" THEN "rejected"
                  ELSE IF Cardinality(Approvals(id) \cup {vote}) >= reviews[id].contract.quorum
                       THEN "approved" ELSE "pending"
        decided == IF status = "pending" THEN <<>>
                   ELSE <<[kind |-> "review_decided", review |-> id, status |-> status]>>
    IN  /\ VoteCounts(id, reviewer, now)
        /\ reviewVotes' = reviewVotes \cup {vote}
        /\ reviews' = [reviews EXCEPT ![id].status = status]
        /\ log' = log \o <<[kind |-> "vote_recorded", review |-> id, reviewer |-> reviewer,
                            decision |-> decision]>> \o decided
        /\ UNCHANGED <<clock, released>>

\* Comments are open to the named reviewers, whatever the status.
Comment(id, reviewer) ==
    /\ id \in DOMAIN reviews
    /\ reviewer \in reviews[id].contract.reviewers
    /\ Cardinality({k \in DOMAIN log : log[k].kind = "comment_added"}) < MaxComments
    /\ log' = Append(log, [kind |-> "comment_added", review |-> id, reviewer |-> reviewer])
    /\ UNCHANGED <<clock, reviews, reviewVotes, released>>

\* An operator retires a review, decided or not, without looking at the clock.
Supersede(id) ==
    /\ id \in DOMAIN reviews
    /\ reviews[id].status \notin {"superseded", "expired"}
    /\ reviews' = [reviews EXCEPT ![id].status = "superseded", ![id].supersededBy = 0]
    /\ log' = Append(log, [kind |-> "superseded", review |-> id, by |-> 0])
    /\ UNCHANGED <<clock, reviewVotes, released>>

\* get expires a row that is due, and so does a vote that comes late.
Refresh(id) ==
    /\ id \in DOMAIN reviews
    /\ Due(reviews[id], clock)
    /\ reviews' = Refreshed(id, clock)
    /\ log' = log \o ExpiryOf(id, clock)
    /\ UNCHANGED <<clock, reviewVotes, released>>

\* require_valid reads the row after that; callers test the row submit returns alike.
Release(id, digest) ==
    /\ id \in DOMAIN reviews
    /\ ValidFor(reviews[id], digest)
    /\ released' = released \cup {[review |-> id, digest |-> digest]}
    /\ UNCHANGED <<clock, reviews, reviewVotes, log>>

ReviewNext ==
    \/ Tick
    \/ \E k \in Key, d \in Digest, c \in Contracts, t \in Lifetimes, now \in 0 .. clock :
          \E i \in 0 .. Len(reviews) : Submit(k, d, c, t, now, i)
    \/ \E i \in DOMAIN reviews, r \in Reviewer, d \in {"approved", "rejected"} :
          \E now \in reviews[i].created .. clock : Vote(i, r, d, now)
    \/ \E i \in Ids, r \in Reviewer : Comment(i, r)
    \/ \E i \in Ids : Supersede(i) \/ Refresh(i)
    \/ \E i \in Ids, d \in Digest : Release(i, d)

ReviewSpec == ReviewInit /\ [][ReviewNext]_reviewVars

-----------------------------------------------------------------------------

\* Types of the variables; every review has a time in which it can be decided.
ReviewTypeOK ==
    /\ clock \in 0 .. MaxTime
    /\ reviews \in Seq(ReviewRows) /\ Len(reviews) <= MaxReviews
    /\ \A i \in DOMAIN reviews :
          reviews[i].expires # Forever => reviews[i].created < reviews[i].expires
    /\ reviewVotes \subseteq Votes
    /\ log \in Seq(AuditEvents)
    /\ \A k \in DOMAIN log : log[k].review \in DOMAIN reviews
    /\ released \subseteq [review : Ids, digest : Digest]

\* At most one review of a release is open or in force (submit), in whatever order
\* concurrent submissions get the lock and whatever the clock said when they began.
OneActiveReview ==
    \A i, j \in DOMAIN reviews :
        /\ reviews[i].key = reviews[j].key
        /\ {reviews[i].status, reviews[j].status} \subseteq {"pending", "approved"}
        => i = j

\* What is released was approved as exactly that content, by a quorum of distinct
\* named reviewers, none of them against it, each vote before the review expired.
ReleaseIsBacked ==
    \A x \in released :
        LET row == reviews[x.review]
            cast == {v \in reviewVotes : v.review = x.review}
        IN  /\ row.digest = x.digest
            /\ \A v \in cast : /\ v.decision = "approved"
                               /\ v.reviewer \in row.contract.reviewers
                               /\ row.expires # Forever => v.at < row.expires
            /\ Cardinality({v.reviewer : v \in cast}) >= row.contract.quorum

\* The events of one kind about review i in a trail of events.
Told(trail, i, kind) == {j \in DOMAIN trail : trail[j].review = i /\ trail[j].kind = kind}

\* The status a trail leaves review i in: that of the last event that gives it one.
StatusIn(trail, i) ==
    LET marks == {j \in DOMAIN trail : /\ trail[j].review = i
                                       /\ trail[j].kind \notin {"vote_recorded", "comment_added"}}
        mark == CHOOSE j \in marks : \A other \in marks : other <= j
    IN  IF marks = {} THEN "none"
        ELSE CASE trail[mark].kind = "submitted" -> "pending"
               [] trail[mark].kind = "review_decided" -> trail[mark].status
               [] OTHER -> trail[mark].kind

\* Whether event e may follow a trail, by what the trail alone says.
MayFollow(trail, e) ==
    LET status == StatusIn(trail, e.review)
        cast == Told(trail, e.review, "vote_recorded")
        yes == {j \in cast : trail[j].decision = "approved"}
        rules == trail[CHOOSE j \in Told(trail, e.review, "submitted") : TRUE].contract
    IN  CASE e.kind = "submitted" -> status = "none"
          [] e.kind = "vote_recorded" ->
                /\ status = "pending"
                /\ e.reviewer \in rules.reviewers
                /\ \A j \in cast : trail[j].reviewer # e.reviewer
                /\ yes = cast /\ Cardinality(yes) < rules.quorum
          [] e.kind = "review_decided" ->
                /\ status = "pending"
                /\ e.status = "approved" <=> yes = cast
                /\ e.status = "approved" => Cardinality(yes) = rules.quorum
          [] e.kind = "expired" -> status = "pending"
          [] e.kind = "superseded" -> status \in {"pending", "approved", "rejected"}
          [] e.kind = "comment_added" -> status # "none"

\* The event stream alone bears out every status (review.py): each vote was a first
\* one on a pending review, each decision follows from the votes recorded before it,
\* nothing happens to what is expired or superseded, and the table agrees with it.
AuditTrailIsLawful ==
    /\ \A i \in DOMAIN reviews : reviews[i].status = StatusIn(log, i)
    /\ \A k \in DOMAIN log : MayFollow(SubSeq(log, 1, k - 1), log[k])
=============================================================================
