--------------------------- MODULE ApprovalProofs ---------------------------
(***************************************************************************)
(* Proofs about the two places where people approve: the approval queue    *)
(* and the gateway over it, for any number of requests at the same time,   *)
(* any voters and any quorum; and the release-review store, for any keys,  *)
(* contents, reviewers and number of reviews.                              *)
(***************************************************************************)
EXTENDS ApprovalGateway, ReleaseReview, FiniteSetTheorems, SequenceTheorems,
        WellFoundedInduction, TLAPS

-----------------------------------------------------------------------------
(* The approval queue and its gateway. *)

\* A row, or a copy of it: no name is on it twice, each has voted, and it is
\* ratified exactly when a quorum is on it.
Legal(c) ==
    /\ \A i, j \in DOMAIN c.approvals :
          c.approvals[i] = c.approvals[j] => i = j
    /\ Names(c.approvals) \subseteq votes
    /\ c.status = "ratified" <=> Len(c.approvals) >= c.quorum

\* What a thread at p has in hand.  Unless disturbed, the row still has every
\* name that was on it when it was read.
HandIsSound(p) ==
    IF p.phase \in {"read", "store"}
    THEN /\ row.status # "absent"
         /\ Legal(p.seen) /\ Legal(p.copy)
         /\ p.seen.status = "pending" /\ p.copy.status # "absent"
         /\ p.seen.quorum = row.quorum /\ p.copy.quorum = row.quorum
         /\ p.phase = "read" => p.copy = p.seen
         /\ Names(p.seen.approvals) \subseteq Names(p.copy.approvals)
         /\ ~disturbed => Names(p.seen.approvals) \subseteq Names(row.approvals)
    ELSE p.seen = NoRow /\ p.copy = NoRow

\* The action may be executed.
Backed ==
    /\ row.status # "absent"
    /\ Cardinality(votes) >= row.quorum
    /\ ~disturbed => row.status = "ratified"

\* No vote is lost.
VotesAreKept ==
    \A v \in votes : \/ v \in Names(row.approvals)
                     \/ \E t \in Threads : v \in Names(thread[t].copy.approvals)

IInv ==
    /\ TypeOK
    /\ Legal(row)
    /\ row.status = "absent" => row = NoRow
    /\ \A t \in Threads : /\ HandIsSound(thread[t])
                          /\ thread[t].phase = "execute" => Backed
    /\ enacted > 0 => Backed
    /\ ~disturbed => (overruled => row.status = "overruled") /\ VotesAreKept

-----------------------------------------------------------------------------
(* Ballots. *)

\* The names on a row without repetition are as many as the row is long.
LEMMA BallotSize ==
    ASSUME NEW seq \in Seq(Voters),
           \A i, j \in DOMAIN seq : seq[i] = seq[j] => i = j
    PROVE  Cardinality(Names(seq)) = Len(seq)
  <1> DEFINE f == [i \in 1..Len(seq) |-> seq[i]]
  <1>1. Len(seq) \in Nat /\ DOMAIN seq = 1..Len(seq)
    OBVIOUS
  <1>2. IsFiniteSet(1..Len(seq)) /\ Cardinality(1..Len(seq)) = Len(seq)
    BY <1>1, FS_Interval
  <1>3. f \in Bijection(1..Len(seq), Names(seq))
    BY <1>1 DEF Names, Bijection, Injection, Surjection, IsInjective
  <1>4. ExistsBijection(1..Len(seq), Names(seq))
    BY <1>3 DEF ExistsBijection
  <1>5. QED BY <1>2, <1>4, FS_Bijection

\* A legal row with a quorum on it is backed by that many voters.
LEMMA LegalIsBacked ==
    ASSUME TypeOK, NEW c \in Rows, Legal(c), c.status = "ratified"
    PROVE  Cardinality(votes) >= c.quorum
  <1>1. IsFiniteSet(votes) /\ Cardinality(votes) \in Nat
    BY FS_Subset, FS_CardinalityType, ApprovalAssumption DEF TypeOK
  <1>2. Cardinality(Names(c.approvals)) = Len(c.approvals)
    BY BallotSize DEF Legal, Rows
  <1>3. Cardinality(Names(c.approvals)) <= Cardinality(votes)
    BY <1>1, FS_Subset DEF Legal
  <1>4. Len(c.approvals) >= c.quorum /\ c.quorum \in Nat
        /\ Len(c.approvals) \in Nat
    BY DEF Legal, Rows
  <1>5. QED BY <1>1, <1>2, <1>3, <1>4

\* The empty row.
LEMMA NoRowIsLegal == NoRow \in Rows /\ Names(NoRow.approvals) = {} /\ Legal(NoRow)
  <1>1. NoRow \in Rows
    BY DEF NoRow, Rows
  <1>2. DOMAIN NoRow.approvals = {} /\ Len(NoRow.approvals) = 0
    BY DEF NoRow
  <1>3. Names(NoRow.approvals) = {}
    BY <1>2 DEF Names
  <1>4. NoRow.status # "ratified" /\ NoRow.quorum = 1
    BY DEF NoRow
  <1>5. QED BY <1>1, <1>2, <1>3, <1>4 DEF Legal

\* A thread with nothing in hand.
LEMMA AtIsSound ==
    ASSUME NEW phase \in {"idle", "waiting", "execute", "done"}
    PROVE  /\ At(phase) \in Places
           /\ HandIsSound(At(phase))
           /\ At(phase).phase = phase /\ At(phase).copy = NoRow
  BY NoRowIsLegal DEF At, Idle, Places, Ops, HandIsSound

\* A vote more on a legal ballot.
LEMMA BallotIsLegal ==
    ASSUME NEW c \in Rows, Legal(c), NEW v \in Voters
    PROVE  /\ Ballot(c, v) \in Seq(Voters)
           /\ Names(Ballot(c, v)) = Names(c.approvals) \cup {v}
           /\ \A i, j \in DOMAIN Ballot(c, v) :
                 Ballot(c, v)[i] = Ballot(c, v)[j] => i = j
  <1>1. c.approvals \in Seq(Voters)
    BY DEF Rows
  <1>2. CASE v \in Names(c.approvals)
    BY <1>1, <1>2 DEF Ballot, Legal
  <1>3. CASE v \notin Names(c.approvals)
    <2> DEFINE s == c.approvals
    <2>1. Ballot(c, v) = Append(s, v)
      BY <1>3 DEF Ballot
    <2>2. /\ Append(s, v) \in Seq(Voters)
          /\ Len(s) \in Nat /\ DOMAIN s = 1..Len(s)
          /\ DOMAIN Append(s, v) = 1..Len(s) + 1
          /\ \A i \in 1..Len(s) : Append(s, v)[i] = s[i]
          /\ Append(s, v)[Len(s) + 1] = v
      BY <1>1
    <2>3. Names(Append(s, v)) = Names(s) \cup {v}
      BY <2>2 DEF Names
    <2>4. \A i \in 1..Len(s) : s[i] # v
      BY <1>3, <2>2 DEF Names
    <2>5. \A i, j \in DOMAIN Append(s, v) :
             Append(s, v)[i] = Append(s, v)[j] => i = j
      BY <2>2, <2>4 DEF Legal
    <2>6. QED BY <2>1, <2>2, <2>3, <2>5
  <1>4. QED BY <1>2, <1>3

-----------------------------------------------------------------------------
(* Steps of one thread that leave row and votes as they are. *)

\* A thread goes to a sound place, and no vote in its hand is lost.
LEMMA LocalStep ==
    ASSUME IInv, NEW t \in Threads, NEW place \in Places,
           thread' = [thread EXCEPT ![t] = place],
           row' = row, votes' = votes, overruled' = overruled,
           due' \in BOOLEAN, abandoned' \in BOOLEAN, disturbed' \in BOOLEAN,
           disturbed => disturbed',
           enacted' \in Nat, enacted' > 0 => Backed,
           HandIsSound(place), place.phase = "execute" => Backed,
           ~disturbed' => Names(thread[t].copy.approvals)
                          \subseteq Names(row.approvals)
                                    \cup Names(place.copy.approvals)
    PROVE  IInv'
  <1>1. TypeOK'
    BY DEF IInv, TypeOK
  <1>2. \A u \in Threads : thread'[u] = IF u = t THEN place ELSE thread[u]
    BY DEF IInv, TypeOK
  <1>3. Backed => Backed'
    BY DEF Backed
  <1>4. ASSUME NEW c, Legal(c) PROVE Legal(c)'
    BY <1>4 DEF Legal
  <1>5. Legal(row)' /\ (row'.status = "absent" => row' = NoRow)
    BY DEF IInv, Legal
  <1>6. ASSUME NEW u \in Threads
        PROVE  /\ HandIsSound(thread[u])'
               /\ thread'[u].phase = "execute" => Backed'
    <2>1. PICK p : p = thread'[u] /\ HandIsSound(p)
                   /\ (p.phase = "execute" => Backed)
      BY <1>2 DEF IInv
    <2>2. /\ HandIsSound(p) /\ row' = row
          /\ Legal(p.seen) => Legal(p.seen)'
          /\ Legal(p.copy) => Legal(p.copy)'
          /\ ~disturbed' => ~disturbed
      BY <1>4, <2>1
    <2>3. CASE p.phase \in {"read", "store"}
      BY <1>3, <2>1, <2>2, <2>3 DEF HandIsSound
    <2>4. CASE p.phase \notin {"read", "store"}
      BY <1>3, <2>1, <2>2, <2>4 DEF HandIsSound
    <2>5. QED BY <2>3, <2>4
  <1>7. ~disturbed' => (overruled' => row'.status = "overruled")
    BY DEF IInv
  <1>8. ASSUME ~disturbed' PROVE VotesAreKept'
    <2>1. SUFFICES ASSUME NEW v \in votes, v \notin Names(row.approvals)
                   PROVE  \E u \in Threads : v \in Names(thread'[u].copy.approvals)
      BY DEF VotesAreKept, Names
    <2>2. PICK u \in Threads : v \in Names(thread[u].copy.approvals)
      BY <1>8, <2>1 DEF IInv, VotesAreKept
    <2>3. CASE u = t
      BY <1>2, <1>8, <2>1, <2>2, <2>3
    <2>4. CASE u # t
      BY <1>2, <2>2, <2>4
    <2>5. QED BY <2>3, <2>4
  <1>9. enacted' > 0 => Backed'
    BY <1>3
  <1>10. QED BY <1>1, <1>5, <1>6, <1>7, <1>8, <1>9 DEF IInv

\* A thread that has nothing in hand goes on with nothing in hand.
LEMMA FreeStep ==
    ASSUME IInv, NEW t \in Threads,
           NEW phase \in {"idle", "waiting", "execute", "done"},
           thread[t].phase \notin {"read", "store"},
           thread' = [thread EXCEPT ![t] = At(phase)],
           phase = "execute" => Backed,
           UNCHANGED <<row, due, enacted, history>>
    PROVE  IInv'
  <1>1. thread[t].copy = NoRow
    BY DEF IInv, HandIsSound
  <1>2. Names(thread[t].copy.approvals) = {}
    BY <1>1, NoRowIsLegal
  <1>3. /\ row' = row /\ votes' = votes /\ overruled' = overruled
        /\ due' \in BOOLEAN /\ abandoned' \in BOOLEAN /\ disturbed' = disturbed
        /\ disturbed' \in BOOLEAN /\ enacted' = enacted /\ enacted' \in Nat
        /\ (enacted > 0 => Backed)
    BY DEF IInv, TypeOK, history
  <1>4. QED BY <1>1, <1>2, <1>3, AtIsSound, LocalStep

\* A ratified row backs the execution.
LEMMA RatifiedIsBacked ==
    ASSUME IInv, row.status = "ratified"
    PROVE  Backed
  BY LegalIsBacked DEF IInv, TypeOK, Backed

\* ReadDecided and GiveUp: what the thread finds is what it acts on.
LEMMA DecidedStep ==
    ASSUME IInv, NEW t \in Threads,
           (\E op \in Ops : ReadDecided(t, op)) \/ GiveUp(t)
    PROVE  IInv'
  <1>1. PICK op : Heed(t, op) /\ thread[t].phase \notin {"read", "store"}
                  /\ UNCHANGED <<row, due, enacted, history>>
    <2>1. CASE \E op \in Ops : ReadDecided(t, op)
      BY <2>1 DEF ReadDecided, Arrives
    <2>2. CASE GiveUp(t)
      BY <2>2 DEF GiveUp
    <2>3. QED BY <2>1, <2>2
  <1> DEFINE phase == IF row.status = "ratified" /\ op \in {"ratify", "wait"}
                      THEN "execute" ELSE "done"
  <1>2. thread' = [thread EXCEPT ![t] = At(phase)]
    BY <1>1 DEF Heed
  <1>3. phase \in {"idle", "waiting", "execute", "done"}
        /\ (phase = "execute" => Backed)
    BY RatifiedIsBacked
  <1> HIDE DEF phase
  <1>4. QED BY <1>1, <1>2, <1>3, FreeStep

\* A row, changed in its status or its ballot, is a row.
LEMMA ChangedRow ==
    ASSUME NEW c \in Rows,
           NEW status \in {"absent", "pending", "ratified", "overruled", "expired"},
           NEW ballot \in Seq(Voters)
    PROVE  /\ [c EXCEPT !.status = status] \in Rows
           /\ [c EXCEPT !.approvals = ballot, !.status = status] \in Rows
  BY DEF Rows

\* ReadPending: the copy in hand is the row.
LEMMA ReadStep ==
    ASSUME IInv, NEW t \in Threads, NEW op \in Ops, ReadPending(t, op)
    PROVE  IInv'
  <1> DEFINE place == [thread[t] EXCEPT !.phase = "read", !.op = op,
                                        !.seen = row, !.copy = row]
  <1>1. thread[t] \in Places /\ row \in Rows
    BY DEF IInv, TypeOK
  <1>2. /\ place.phase = "read" /\ place.seen = row /\ place.copy = row
        /\ place \in Places
    BY <1>1 DEF Places
  <1>3. thread' = [thread EXCEPT ![t] = place]
    BY <1>1 DEF ReadPending
  <1>4. thread[t].phase \notin {"read", "store"} /\ row.status = "pending"
    BY DEF ReadPending, Arrives
  <1>5. Names(thread[t].copy.approvals) = {}
    BY <1>4, NoRowIsLegal DEF IInv, HandIsSound
  <1>6. Legal(row)
    BY DEF IInv
  <1> HIDE DEF place
  <1>7. HandIsSound(place)
    BY <1>2, <1>4, <1>6 DEF HandIsSound
  <1>8. /\ row' = row /\ votes' = votes /\ overruled' = overruled
        /\ due' \in BOOLEAN /\ abandoned' \in BOOLEAN /\ disturbed' = disturbed
        /\ disturbed' \in BOOLEAN /\ enacted' = enacted /\ enacted' \in Nat
        /\ (enacted > 0 => Backed)
    BY DEF IInv, TypeOK, history, ReadPending
  <1>9. QED BY <1>2, <1>3, <1>5, <1>7, <1>8, LocalStep

\* Expire and Overrule decide the copy in hand.
LEMMA PrepareStep ==
    ASSUME IInv, NEW t \in Threads, Expire(t) \/ Overrule(t)
    PROVE  IInv'
  <1>1. PICK status \in {"expired", "overruled"} :
           /\ thread[t].phase = "read"
           /\ Prepare(t, [thread[t].copy EXCEPT !.status = status])
           /\ UNCHANGED history
    BY DEF Expire, Overrule
  <1> DEFINE copy == [thread[t].copy EXCEPT !.status = status]
             place == [thread[t] EXCEPT !.phase = "store", !.copy = copy]
  <1>2. thread[t] \in Places /\ thread[t].copy \in Rows
    BY DEF IInv, TypeOK, Places
  <1>3. /\ copy \in Rows /\ copy.status = status
        /\ copy.approvals = thread[t].copy.approvals
        /\ copy.quorum = thread[t].copy.quorum
    BY <1>2 DEF Rows
  <1>4. thread' = [thread EXCEPT ![t] = place]
    BY <1>1 DEF Prepare
  <1>5. HandIsSound(thread[t])
    BY DEF IInv
  <1>6. /\ row.status # "absent" /\ thread[t].copy = thread[t].seen
        /\ Legal(thread[t].seen) /\ thread[t].seen.status = "pending"
        /\ thread[t].seen.quorum = row.quorum
        /\ (~disturbed => Names(thread[t].seen.approvals)
                          \subseteq Names(row.approvals))
    BY <1>1, <1>5 DEF HandIsSound
  <1>7. Legal(copy)
    <2>1. copy.status # "ratified" /\ ~(Len(copy.approvals) >= copy.quorum)
      BY <1>1, <1>3, <1>6 DEF Legal
    <2> HIDE DEF copy
    <2>2. QED BY <1>3, <1>6, <2>1 DEF Legal
  <1> HIDE DEF copy
  <1>8. /\ place \in Places /\ place.phase = "store"
        /\ place.seen = thread[t].seen /\ place.copy = copy
    BY <1>2, <1>3 DEF Places
  <1> HIDE DEF place
  <1>9. HandIsSound(place)
    BY <1>1, <1>3, <1>6, <1>7, <1>8 DEF HandIsSound
  <1>10. /\ row' = row /\ votes' = votes /\ overruled' = overruled
         /\ due' \in BOOLEAN /\ abandoned' \in BOOLEAN /\ disturbed' = disturbed
         /\ disturbed' \in BOOLEAN /\ enacted' = enacted /\ enacted' \in Nat
         /\ (enacted > 0 => Backed)
    BY <1>1 DEF IInv, TypeOK, history, Prepare
  <1>11. QED BY <1>3, <1>4, <1>8, <1>9, <1>10, LocalStep

\* LeaveBe: the copy is dropped; what is on it is on the row, or disturbed.
LEMMA LeaveStep ==
    ASSUME IInv, NEW t \in Threads, LeaveBe(t)
    PROVE  IInv'
  <1> DEFINE place == IF thread[t].op = "wait"
                      THEN [At("waiting") EXCEPT !.late = thread[t].late]
                      ELSE At("done")
  <1>1. thread[t] \in Places /\ HandIsSound(thread[t])
        /\ thread[t].phase = "read"
    BY DEF IInv, TypeOK, LeaveBe
  <1>2. /\ place \in Places /\ place.phase \in {"waiting", "done"}
        /\ place.seen = NoRow /\ place.copy = NoRow
    BY <1>1, NoRowIsLegal DEF Places, At, Idle, Ops
  <1>3. thread' = [thread EXCEPT ![t] = place]
    BY DEF LeaveBe
  <1> HIDE DEF place
  <1>4. HandIsSound(place) /\ place.phase # "execute"
    BY <1>2 DEF HandIsSound
  <1>5. ~disturbed => Names(thread[t].copy.approvals)
                      \subseteq Names(row.approvals)
    BY <1>1 DEF HandIsSound
  <1>6. /\ row' = row /\ votes' = votes /\ overruled' = overruled
        /\ due' \in BOOLEAN /\ abandoned' \in BOOLEAN /\ disturbed' = disturbed
        /\ disturbed' \in BOOLEAN /\ enacted' = enacted /\ enacted' \in Nat
        /\ (enacted > 0 => Backed)
    BY DEF IInv, TypeOK, history, LeaveBe
  <1>7. QED BY <1>2, <1>3, <1>4, <1>5, <1>6, LocalStep

\* A thread that dies is disturbing if it had a change in hand.
LEMMA DieStep ==
    ASSUME IInv, NEW t \in Threads, Die(t)
    PROVE  IInv'
  <1>1. thread' = [thread EXCEPT ![t] = At("done")]
    BY DEF Die
  <1>2. /\ At("done") \in Places /\ HandIsSound(At("done"))
        /\ At("done").phase = "done"
    BY AtIsSound
  <1>3. ~disturbed' => Names(thread[t].copy.approvals)
                       \subseteq Names(row.approvals)
    <2>1. SUFFICES ASSUME ~disturbed'
                   PROVE  Names(thread[t].copy.approvals)
                          \subseteq Names(row.approvals)
      OBVIOUS
    <2>2. ~disturbed /\ thread[t].phase # "store" /\ HandIsSound(thread[t])
      BY <2>1 DEF Die, IInv
    <2>3. CASE thread[t].phase = "read"
      BY <2>2, <2>3 DEF HandIsSound
    <2>4. CASE thread[t].phase # "read"
      BY <2>2, <2>4, NoRowIsLegal DEF HandIsSound
    <2>5. QED BY <2>3, <2>4
  <1>4. /\ row' = row /\ votes' = votes /\ overruled' = overruled
        /\ due' \in BOOLEAN /\ abandoned' \in BOOLEAN
        /\ (disturbed => disturbed') /\ disturbed' \in BOOLEAN
        /\ enacted' = enacted /\ enacted' \in Nat /\ (enacted > 0 => Backed)
    BY DEF IInv, TypeOK, Die
  <1>5. QED BY <1>1, <1>2, <1>3, <1>4, LocalStep

\* Execute: the action was backed when the thread went on to execute.
LEMMA ExecuteStep ==
    ASSUME IInv, NEW t \in Threads, Execute(t)
    PROVE  IInv'
  <1>1. thread' = [thread EXCEPT ![t] = At("done")]
    BY DEF Execute
  <1>2. /\ At("done") \in Places /\ HandIsSound(At("done"))
        /\ At("done").phase = "done"
    BY AtIsSound
  <1>3. thread[t].phase = "execute" /\ Backed
    BY DEF IInv, Execute
  <1>4. Names(thread[t].copy.approvals) = {}
    BY <1>3, NoRowIsLegal DEF IInv, HandIsSound
  <1>5. /\ row' = row /\ votes' = votes /\ overruled' = overruled
        /\ due' \in BOOLEAN /\ abandoned' \in BOOLEAN /\ disturbed' = disturbed
        /\ disturbed' \in BOOLEAN /\ enacted' \in Nat
    BY DEF IInv, TypeOK, Execute, history
  <1>6. QED BY <1>1, <1>2, <1>3, <1>4, <1>5, LocalStep

\* DeadlinePasses changes nothing that is in hand.
LEMMA DeadlineStep ==
    ASSUME IInv, NEW t \in Threads, DeadlinePasses(t)
    PROVE  IInv'
  <1> DEFINE place == [thread[t] EXCEPT !.late = TRUE]
  <1>1. thread[t] \in Places /\ HandIsSound(thread[t])
    BY DEF IInv, TypeOK
  <1>2. /\ place \in Places /\ place.phase = thread[t].phase
        /\ place.seen = thread[t].seen /\ place.copy = thread[t].copy
    BY <1>1 DEF Places
  <1>3. thread' = [thread EXCEPT ![t] = place]
    BY DEF DeadlinePasses
  <1> HIDE DEF place
  <1>4. HandIsSound(place) /\ place.phase # "execute"
    BY <1>1, <1>2 DEF HandIsSound, DeadlinePasses
  <1>5. /\ row' = row /\ votes' = votes /\ overruled' = overruled
        /\ due' \in BOOLEAN /\ abandoned' \in BOOLEAN /\ disturbed' = disturbed
        /\ disturbed' \in BOOLEAN /\ enacted' = enacted /\ enacted' \in Nat
        /\ (enacted > 0 => Backed)
    BY DEF IInv, TypeOK, history, DeadlinePasses
  <1>6. QED BY <1>2, <1>3, <1>4, <1>5, LocalStep

-----------------------------------------------------------------------------
(* Steps that change the row, the votes or the time. *)

\* Park: nothing was in hand, executed or voted while there was no row.
LEMMA ParkStep ==
    ASSUME IInv, NEW t \in Threads, NEW q \in Quorums,
           NEW expires \in BOOLEAN, NEW waits \in BOOLEAN,
           Park(t, q, expires, waits)
    PROVE  IInv'
  <1> DEFINE phase == IF waits THEN "waiting" ELSE "done"
  <1>1. row.status = "absent" /\ row = NoRow
    BY DEF IInv, Park
  <1>2. \A u \in Threads : /\ thread[u].phase \notin {"read", "store", "execute"}
                           /\ thread[u].seen = NoRow /\ thread[u].copy = NoRow
    BY <1>1 DEF IInv, HandIsSound, Backed
  <1>3. ~(enacted > 0)
    BY <1>1 DEF IInv, Backed
  <1>4. /\ row'.status = "pending" /\ row'.approvals = <<>>
        /\ row'.quorum \in Nat /\ row'.quorum >= 1 /\ row'.expires \in BOOLEAN
        /\ row' \in Rows
    BY ApprovalAssumption DEF Park, Rows
  <1>5. thread' = [thread EXCEPT ![t] = At(phase)]
        /\ At(phase) \in Places /\ At(phase).phase = phase
        /\ At(phase).seen = NoRow /\ At(phase).copy = NoRow
    BY AtIsSound DEF Park, At, Idle
  <1>6. UNCHANGED <<due, enacted, votes, overruled, disturbed, abandoned>>
    BY DEF Park, history
  <1> HIDE DEF phase
  <1>7. \A u \in Threads : thread'[u] = IF u = t THEN At(phase) ELSE thread[u]
    BY <1>5 DEF IInv, TypeOK
  <1>8. TypeOK'
    BY <1>4, <1>5, <1>6 DEF IInv, TypeOK
  <1>9. phase \in {"waiting", "done"}
    BY DEF phase
  <1>10. ASSUME NEW u \in Threads
         PROVE  /\ thread'[u].phase \notin {"read", "store", "execute"}
                /\ thread'[u].seen = NoRow /\ thread'[u].copy = NoRow
    BY <1>2, <1>5, <1>7, <1>9
  <1>11. \A u \in Threads : /\ HandIsSound(thread[u])'
                            /\ thread'[u].phase = "execute" => Backed'
    BY <1>10 DEF HandIsSound
  <1>12. Legal(row)'
    BY <1>4 DEF Legal, Names
  <1>13. ASSUME ~disturbed' PROVE ~overruled' /\ votes' = {}
    <2>1. ~disturbed /\ VotesAreKept /\ (overruled => row.status = "overruled")
      BY <1>6, <1>13 DEF IInv
    <2>2. Names(row.approvals) = {}
          /\ \A u \in Threads : Names(thread[u].copy.approvals) = {}
      BY <1>1, <1>2, NoRowIsLegal
    <2>3. QED BY <1>1, <1>6, <2>1, <2>2 DEF VotesAreKept
  <1>14. QED
    BY <1>3, <1>4, <1>6, <1>8, <1>11, <1>12, <1>13 DEF IInv, VotesAreKept

\* CastVote: the vote is in hand, and one more has voted.
LEMMA VoteStep ==
    ASSUME IInv, NEW t \in Threads, NEW v \in Voters, CastVote(t, v)
    PROVE  IInv'
  <1> DEFINE old == thread[t].copy
             ballot == Ballot(old, v)
             status == IF Len(ballot) >= old.quorum
                       THEN "ratified" ELSE "pending"
             copy == [old EXCEPT !.approvals = ballot, !.status = status]
             place == [thread[t] EXCEPT !.phase = "store", !.copy = copy]
  <1>1. thread[t] \in Places /\ old \in Rows
    BY DEF IInv, TypeOK, Places
  <1>2. /\ row.status # "absent" /\ old = thread[t].seen /\ Legal(old)
        /\ old.status = "pending" /\ old.quorum = row.quorum
        /\ (~disturbed => Names(old.approvals) \subseteq Names(row.approvals))
    <2>1. HandIsSound(thread[t]) /\ thread[t].phase = "read"
      BY DEF IInv, CastVote
    <2>2. QED BY <2>1 DEF HandIsSound
  <1>3. thread' = [thread EXCEPT ![t] = place]
    BY DEF CastVote, Prepare
  <1>4. /\ UNCHANGED <<row, due, enacted, overruled, disturbed, abandoned>>
        /\ votes' = votes \cup {v}
    BY DEF CastVote, Prepare
  <1>5. /\ ballot \in Seq(Voters) /\ Names(ballot) = Names(old.approvals) \cup {v}
        /\ \A i, j \in DOMAIN ballot : ballot[i] = ballot[j] => i = j
    BY <1>1, <1>2, BallotIsLegal
  <1> HIDE DEF ballot
  <1>6. /\ copy \in Rows /\ copy.approvals = ballot /\ copy.status = status
        /\ copy.quorum = old.quorum /\ status \in {"ratified", "pending"}
        /\ status = "ratified" <=> Len(ballot) >= old.quorum
    BY <1>1, <1>5 DEF Rows
  <1> HIDE DEF copy, status
  <1>7. /\ place \in Places /\ place.phase = "store"
        /\ place.seen = old /\ place.copy = copy
    BY <1>1, <1>2, <1>6 DEF Places
  <1> HIDE DEF place, old
  <1>8. \A u \in Threads : thread'[u] = IF u = t THEN place ELSE thread[u]
    BY <1>3 DEF IInv, TypeOK
  <1>9. TypeOK'
    BY <1>3, <1>4, <1>7 DEF IInv, TypeOK
  <1>10. ASSUME NEW c, Legal(c) PROVE Legal(c)'
    BY <1>4, <1>10 DEF Legal
  <1>11. Legal(row)'
    <2>1. Legal(row) /\ row' = row
      BY <1>4 DEF IInv
    <2>2. QED BY <1>4, <2>1 DEF Legal
  <1>12. Backed => Backed'
    <2>1. IsFiniteSet(votes') /\ votes \in SUBSET votes'
      BY <1>4, <1>9, FS_Subset, ApprovalAssumption DEF TypeOK
    <2>2. IsFiniteSet(votes) /\ Cardinality(votes) <= Cardinality(votes')
      BY <2>1, FS_Subset
    <2>3. Cardinality(votes) \in Nat /\ Cardinality(votes') \in Nat
      BY <2>1, <2>2, FS_CardinalityType
    <2>4. row.quorum \in Nat
      BY DEF IInv, TypeOK, Rows
    <2>5. QED BY <1>4, <2>2, <2>3, <2>4 DEF Backed
  <1>13. HandIsSound(thread[t])' /\ thread'[t].phase # "execute"
    <2>1. PICK c, o : c = copy /\ o = old
      OBVIOUS
    <2>2. Legal(o)'
      BY <1>2, <1>10, <2>1
    <2>3. Legal(c)'
      BY <1>2, <1>4, <1>5, <1>6, <2>1 DEF Legal
    <2>4. /\ thread'[t].phase = "store" /\ thread'[t].seen = o
          /\ thread'[t].copy = c
      BY <1>7, <1>8, <2>1
    <2>5. /\ row'.status # "absent" /\ o.status = "pending"
          /\ c.status # "absent" /\ o.quorum = row'.quorum
          /\ c.quorum = row'.quorum
          /\ Names(o.approvals) \subseteq Names(c.approvals)
          /\ (~disturbed' => Names(o.approvals) \subseteq Names(row'.approvals))
      BY <1>2, <1>4, <1>5, <1>6, <2>1
    <2>6. QED BY <2>2, <2>3, <2>4, <2>5 DEF HandIsSound
  <1>14. ASSUME NEW u \in Threads, u # t
         PROVE  HandIsSound(thread[u])' /\ (thread'[u].phase = "execute" => Backed')
    <2>1. PICK r : r = thread[u] /\ r = thread'[u] /\ HandIsSound(r)
                   /\ (r.phase = "execute" => Backed)
      BY <1>8, <1>14 DEF IInv
    <2>2. /\ Legal(r.seen) => Legal(r.seen)'
          /\ Legal(r.copy) => Legal(r.copy)'
      BY <1>10
    <2>3. QED BY <1>4, <1>12, <2>1, <2>2 DEF HandIsSound
  <1>15. ~disturbed' => (overruled' => row'.status = "overruled")
    BY <1>4 DEF IInv
  <1>16. ASSUME ~disturbed' PROVE VotesAreKept'
    <2>1. VotesAreKept
      BY <1>4, <1>16 DEF IInv
    <2>2. ASSUME NEW w \in votes'
          PROVE  \/ w \in Names(row.approvals)
                 \/ \E u \in Threads : w \in Names(thread'[u].copy.approvals)
      <3>1. CASE w = v
        BY <1>5, <1>6, <1>7, <1>8, <3>1
      <3>2. CASE w # v
        <4>1. CASE w \in Names(row.approvals)
          BY <4>1
        <4>2. ASSUME NEW u \in Threads, w \in Names(thread[u].copy.approvals)
              PROVE  \E x \in Threads : w \in Names(thread'[x].copy.approvals)
          <5>1. CASE u = t
            BY <1>5, <1>6, <1>7, <1>8, <4>2, <5>1 DEF old
          <5>2. CASE u # t
            BY <1>8, <4>2, <5>2
          <5>3. QED BY <5>1, <5>2
        <4>3. QED BY <1>4, <2>1, <3>2, <4>1, <4>2 DEF VotesAreKept
      <3>3. QED BY <3>1, <3>2
    <2>3. QED BY <1>4, <2>2 DEF VotesAreKept, Names
  <1>17. enacted' > 0 => Backed'
    BY <1>4, <1>12 DEF IInv
  <1>18. row'.status = "absent" => row' = NoRow
    BY <1>4 DEF IInv
  <1>19. QED
    BY <1>9, <1>11, <1>13, <1>14, <1>15, <1>16, <1>17, <1>18 DEF IInv

\* Store: the copy becomes the row.
LEMMA StoreStep ==
    ASSUME IInv, NEW t \in Threads, Store(t)
    PROVE  IInv'
  <1> DEFINE phase == IF thread[t].copy.status = "ratified"
                      THEN "execute" ELSE "done"
  <1>1. PICK c, o : /\ c = thread[t].copy /\ o = thread[t].seen
                    /\ c \in Rows
    BY DEF IInv, TypeOK, Places
  <1>2. /\ Legal(c) /\ Legal(o) /\ o.status = "pending" /\ c.status # "absent"
        /\ c.quorum = row.quorum /\ row.status # "absent"
        /\ Names(o.approvals) \subseteq Names(c.approvals)
    <2>1. HandIsSound(thread[t]) /\ thread[t].phase = "store"
      BY DEF IInv, Store
    <2>2. QED BY <1>1, <2>1 DEF HandIsSound
  <1>3. /\ row' = c
        /\ thread' = [thread EXCEPT ![t] = At(phase)]
        /\ overruled' = (overruled \/ c.status = "overruled")
        /\ disturbed' = (disturbed \/ row # o)
        /\ UNCHANGED <<due, enacted, votes, abandoned>>
    BY <1>1 DEF Store
  <1>4. phase \in {"execute", "done"} /\ (phase = "execute" => c.status = "ratified")
    BY <1>1
  <1> HIDE DEF phase
  <1>5. /\ At(phase) \in Places /\ HandIsSound(At(phase))
        /\ At(phase).phase = phase /\ At(phase).copy = NoRow
        /\ At(phase).seen = NoRow
    BY <1>4, AtIsSound DEF At, Idle
  <1>6. \A u \in Threads : thread'[u] = IF u = t THEN At(phase) ELSE thread[u]
    BY <1>3 DEF IInv, TypeOK
  <1>7. TypeOK'
    BY <1>1, <1>3, <1>5 DEF IInv, TypeOK
  <1>8. ASSUME NEW d, Legal(d) PROVE Legal(d)'
    BY <1>3, <1>8 DEF Legal
  <1>9. Legal(row)'
    BY <1>2, <1>3 DEF Legal
  <1>10. ASSUME ~disturbed'
         PROVE  /\ ~disturbed /\ row = o
                /\ ~overruled /\ ~Backed
    BY <1>2, <1>3, <1>10 DEF IInv, Backed
  <1>11. Backed => Backed'
    BY <1>2, <1>3, <1>10 DEF Backed
  <1>12. phase = "execute" => Backed'
    <2>1. SUFFICES ASSUME phase = "execute" PROVE Backed'
      OBVIOUS
    <2>2. Cardinality(votes) >= c.quorum
      BY <1>1, <1>2, <1>4, <2>1, LegalIsBacked DEF IInv
    <2>3. QED BY <1>3, <1>4, <2>1, <2>2 DEF Backed
  <1>13. ASSUME NEW u \in Threads
         PROVE  HandIsSound(thread[u])' /\ (thread'[u].phase = "execute" => Backed')
    <2>1. CASE u = t
      <3>1. /\ thread'[u].phase = phase
            /\ thread'[u].seen = NoRow /\ thread'[u].copy = NoRow
        BY <1>5, <1>6, <2>1
      <3>2. QED BY <1>4, <1>12, <3>1 DEF HandIsSound
    <2>2. CASE u # t
      <3>1. PICK r : r = thread[u] /\ r = thread'[u] /\ HandIsSound(r)
                     /\ (r.phase = "execute" => Backed)
        BY <1>6, <2>2 DEF IInv
      <3>2. /\ Legal(r.seen) => Legal(r.seen)'
            /\ Legal(r.copy) => Legal(r.copy)'
        BY <1>8
      <3>3. CASE r.phase \in {"read", "store"}
        <4>1. ASSUME ~disturbed'
              PROVE  Names(r.seen.approvals) \subseteq Names(c.approvals)
          BY <1>2, <1>10, <3>1, <3>3, <4>1 DEF HandIsSound
        <4>2. /\ row'.status # "absent" /\ row'.quorum = row.quorum
              /\ Names(row'.approvals) = Names(c.approvals)
          BY <1>2, <1>3
        <4>3. QED BY <1>11, <3>1, <3>2, <3>3, <4>1, <4>2 DEF HandIsSound
      <3>4. CASE r.phase \notin {"read", "store"}
        BY <1>11, <3>1, <3>4 DEF HandIsSound
      <3>5. QED BY <3>3, <3>4
    <2>3. QED BY <2>1, <2>2
  <1>14. enacted' > 0 => Backed'
    BY <1>3, <1>11 DEF IInv
  <1>15. ASSUME ~disturbed'
         PROVE  (overruled' => row'.status = "overruled") /\ VotesAreKept'
    <2>1. overruled' => row'.status = "overruled"
      BY <1>3, <1>10, <1>15
    <2>2. VotesAreKept
      BY <1>10, <1>15 DEF IInv
    <2>3. ASSUME NEW v \in votes', v \notin Names(c.approvals)
          PROVE  \E u \in Threads : v \in Names(thread'[u].copy.approvals)
      <3>1. v \in votes /\ v \notin Names(row.approvals)
        BY <1>2, <1>3, <1>10, <1>15, <2>3
      <3>2. PICK u \in Threads : v \in Names(thread[u].copy.approvals)
        BY <2>2, <3>1 DEF VotesAreKept
      <3>3. u # t
        BY <1>1, <2>3, <3>2
      <3>4. QED BY <1>6, <3>2, <3>3
    <2>4. VotesAreKept'
      BY <1>3, <2>3 DEF VotesAreKept, Names
    <2>5. QED BY <2>1, <2>4
  <1>16. row'.status = "absent" => row' = NoRow
    BY <1>2, <1>3
  <1>17. QED
    BY <1>7, <1>9, <1>13, <1>14, <1>15, <1>16 DEF IInv

\* Time passes over everything but due.
LEMMA IdleStep ==
    ASSUME IInv, Elapse \/ UNCHANGED vars
    PROVE  IInv'
  <1>1. /\ UNCHANGED <<row, thread, enacted, votes, overruled, disturbed, abandoned>>
        /\ due' \in BOOLEAN
    BY DEF Elapse, vars, history, IInv, TypeOK
  <1>2. TypeOK'
    BY <1>1 DEF IInv, TypeOK
  <1>3. Legal(row)' /\ (row'.status = "absent" => row' = NoRow)
    BY <1>1 DEF IInv, Legal
  <1>4. Backed' <=> Backed
    BY <1>1 DEF Backed
  <1>5. \A t \in Threads : HandIsSound(thread[t])'
    BY <1>1 DEF IInv, HandIsSound, Legal
  <1>6. VotesAreKept' <=> VotesAreKept
    BY <1>1 DEF VotesAreKept
  <1>7. QED BY <1>1, <1>2, <1>3, <1>4, <1>5, <1>6 DEF IInv

-----------------------------------------------------------------------------
LEMMA InitIInv == Init => IInv
  <1>1. SUFFICES ASSUME Init PROVE IInv
    OBVIOUS
  <1>2. TypeOK
    BY <1>1, NoRowIsLegal DEF Init, TypeOK, Places, Idle, Ops
  <1>3. Legal(row) /\ row = NoRow
    BY <1>1, NoRowIsLegal DEF Init
  <1>4. \A t \in Threads : /\ HandIsSound(thread[t])
                           /\ thread[t].phase # "execute"
    BY <1>1 DEF Init, Idle, HandIsSound
  <1>5. ~(enacted > 0) /\ ~overruled /\ VotesAreKept
    BY <1>1 DEF Init, VotesAreKept
  <1>6. QED BY <1>2, <1>3, <1>4, <1>5 DEF IInv

LEMMA NextIInv == IInv /\ [Next]_vars => IInv'
  <1>1. SUFFICES ASSUME IInv, [Next]_vars PROVE IInv'
    OBVIOUS
  <1>2. ASSUME NEW t \in Threads, Serve(t) PROVE IInv'
    <2>1. CASE ReadPending(t, "wait")
      BY <1>1, <2>1, ReadStep DEF Ops
    <2>2. CASE ReadDecided(t, "wait") \/ GiveUp(t)
      BY <1>1, <2>2, DecidedStep DEF Ops
    <2>3. CASE Expire(t) \/ Overrule(t)
      BY <1>1, <2>3, PrepareStep
    <2>4. CASE LeaveBe(t)
      BY <1>1, <2>4, LeaveStep
    <2>5. CASE \E v \in Voters : CastVote(t, v)
      BY <1>1, <2>5, VoteStep
    <2>6. CASE Store(t)
      BY <1>1, <2>6, StoreStep
    <2>7. CASE Execute(t)
      BY <1>1, <2>7, ExecuteStep
    <2>8. QED BY <1>2, <2>1, <2>2, <2>3, <2>4, <2>5, <2>6, <2>7 DEF Serve
  <1>3. ASSUME NEW t \in Threads,
               \E q \in Quorums, expires, waits \in BOOLEAN :
                   Park(t, q, expires, waits)
        PROVE  IInv'
    BY <1>1, <1>3, ParkStep
  <1>4. ASSUME NEW t \in Threads,
               \E op \in Ops \ {"wait"} : ReadPending(t, op) \/ ReadDecided(t, op)
        PROVE  IInv'
    BY <1>1, <1>4, ReadStep, DecidedStep
  <1>5. ASSUME NEW t \in Threads, DeadlinePasses(t) \/ Die(t) PROVE IInv'
    BY <1>1, <1>5, DeadlineStep, DieStep
  <1>6. CASE Elapse \/ UNCHANGED vars
    BY <1>1, <1>6, IdleStep
  <1>7. QED BY <1>1, <1>2, <1>3, <1>4, <1>5, <1>6 DEF Next

LEMMA GatewayInvariant == Spec => []IInv
  BY InitIInv, NextIInv, PTL DEF Spec

\* Row, copies and threads stay of their kind, and no row has a quorum below 1
\* (ApprovalQueue.request).
THEOREM GatewayTyped == Spec => []TypeOK
  BY GatewayInvariant, PTL DEF IInv

\* However votes, overrules, expiries and stores overlap, no action is executed
\* that fewer different names have voted for than its quorum asks for.
THEOREM ExecutionHasQuorum == Spec => []QuorumBacksExecution
  <1>1. IInv => QuorumBacksExecution
    BY DEF IInv, Backed, QuorumBacksExecution
  <1>2. QED BY <1>1, GatewayInvariant, PTL

\* As long as no store overwrites what it has not read and no thread dies before
\* its store, the queue does what it says of votes, quorums and overrules.
THEOREM QueueIsExact == Spec => []ExactUnlessDisturbed
  <1>1. ASSUME IInv, ~disturbed
        PROVE  votes = Names(row.approvals) \cup
                       UNION {Names(thread[t].copy.approvals) : t \in Threads}
    <2>1. Names(row.approvals) \subseteq votes
      BY <1>1 DEF IInv, Legal
    <2>2. ASSUME NEW t \in Threads
          PROVE  Names(thread[t].copy.approvals) \subseteq votes
      <3>1. HandIsSound(thread[t])
        BY <1>1 DEF IInv
      <3>2. QED BY <3>1, NoRowIsLegal DEF HandIsSound, Legal
    <2>3. QED BY <1>1, <2>1, <2>2 DEF IInv, VotesAreKept
  <1>2. ASSUME IInv
        PROVE  row.status = "ratified" <=>
                   Cardinality(Names(row.approvals)) >= row.quorum
    <2>1. Cardinality(Names(row.approvals)) = Len(row.approvals)
      BY <1>2, BallotSize DEF IInv, TypeOK, Rows, Legal
    <2>2. QED BY <1>2, <2>1 DEF IInv, Legal
  <1>3. IInv => ExactUnlessDisturbed
    BY <1>1, <1>2 DEF IInv, Backed, ExactUnlessDisturbed
  <1>4. QED BY <1>3, GatewayInvariant, PTL

-----------------------------------------------------------------------------
(* The release-review store: its tables. *)

\* The votes on review i.
CastOn(i) == {v \in reviewVotes : v.review = i}

\* Votes are of named reviewers, one each, before the review expires.
VotesFit ==
    /\ IsFiniteSet(reviewVotes)
    /\ \A v \in reviewVotes :
          /\ v.review \in DOMAIN reviews
          /\ v.reviewer \in reviews[v.review].contract.reviewers
          /\ reviews[v.review].expires # Forever => v.at < reviews[v.review].expires
    /\ \A v, w \in reviewVotes :
          v.review = w.review /\ v.reviewer = w.reviewer => v = w

\* A review is pending below its quorum and approved from it on, with no vote
\* against it.
QuorumsDecide ==
    \A i \in DOMAIN reviews :
        LET quorum == reviews[i].contract.quorum
        IN  /\ reviews[i].status = "pending" =>
                  CastOn(i) = Approvals(i) /\ Cardinality(CastOn(i)) < quorum
            /\ reviews[i].status = "approved" =>
                  CastOn(i) = Approvals(i) /\ Cardinality(CastOn(i)) >= quorum

\* A review that let a release through has stayed what it was, or given way.
ReleasesStand ==
    \A x \in released :
        /\ x.review \in DOMAIN reviews
        /\ reviews[x.review].digest = x.digest
        /\ reviews[x.review].status \in {"approved", "superseded"}
        /\ CastOn(x.review) = Approvals(x.review)
        /\ Cardinality(CastOn(x.review)) >= reviews[x.review].contract.quorum

\* The invariant of the tables.
TablesInv ==
    /\ ReviewTypeOK
    /\ OneActiveReview
    /\ VotesFit
    /\ QuorumsDecide
    /\ ReleasesStand

\* A quorum is a number of the named reviewers.
LEMMA QuorumIsPositive ==
    ASSUME NEW c \in Contracts
    PROVE  c.quorum \in Nat /\ 0 < c.quorum
<1>1. IsFiniteSet(c.reviewers) /\ c.quorum \in 1 .. Cardinality(c.reviewers)
  BY ReviewAssumption
<1>2. Cardinality(c.reviewers) \in Nat
  BY <1>1, FS_CardinalityType
<1> QED
  BY <1>1, <1>2

\* What a submission fixes of a review.
SameTerms(r, s) ==
    /\ s.key = r.key
    /\ s.digest = r.digest
    /\ s.contract = r.contract
    /\ s.created = r.created
    /\ s.expires = r.expires

\* Nothing comes to a row but its end: what all operations but a vote do to the rows.
RowsAge ==
    \A i \in DOMAIN reviews :
        /\ i \in DOMAIN reviews'
        /\ SameTerms(reviews[i], reviews'[i])
        /\ \/ reviews'[i].status = reviews[i].status
           \/ reviews'[i].status = "superseded"
           \/ reviews[i].status = "pending" /\ reviews'[i].status = "expired"

\* The rows after the review id was looked at.
LEMMA RefreshedRows ==
    ASSUME ReviewTypeOK, NEW id \in DOMAIN reviews, NEW now
    PROVE  /\ Refreshed(id, now) \in Seq(ReviewRows)
           /\ Len(Refreshed(id, now)) = Len(reviews)
           /\ \A i \in DOMAIN reviews :
                 /\ Refreshed(id, now)[i] \in ReviewRows
                 /\ SameTerms(reviews[i], Refreshed(id, now)[i])
                 /\ Refreshed(id, now)[i].status =
                       IF i = id /\ Due(reviews[id], now) THEN "expired"
                       ELSE reviews[i].status
<1>1. reviews \in Seq(ReviewRows) /\ reviews \in [1 .. Len(reviews) -> ReviewRows]
      /\ id \in 1 .. Len(reviews) /\ DOMAIN reviews = 1 .. Len(reviews)
  BY LenProperties DEF ReviewTypeOK
<1>2. CASE ~Due(reviews[id], now)
  BY <1>1, <1>2 DEF Refreshed, SameTerms
<1>3. CASE Due(reviews[id], now)
  <2> DEFINE newRow == [reviews[id] EXCEPT !.status = "expired"]
  <2>1. newRow \in ReviewRows /\ SameTerms(reviews[id], newRow) /\ newRow.status = "expired"
    BY <1>1 DEF ReviewRows, Statuses, SameTerms
  <2>2. Refreshed(id, now) = [reviews EXCEPT ![id] = newRow]
    BY <1>1, <1>3 DEF Refreshed
  <2> HIDE DEF newRow
  <2>3. /\ Refreshed(id, now) \in Seq(ReviewRows)
        /\ Len(Refreshed(id, now)) = Len(reviews)
        /\ \A i \in 1 .. Len(reviews) :
              Refreshed(id, now)[i] = IF i = id THEN newRow ELSE reviews[i]
    BY <1>1, <2>1, <2>2, ExceptSeq
  <2> QED
    BY <1>1, <1>3, <2>1, <2>3 DEF SameTerms
<1> QED
  BY <1>2, <1>3

\* A row that gives way.
LEMMA SupersededRow ==
    ASSUME NEW r \in ReviewRows, NEW by \in 0 .. MaxReviews,
           NEW s, s = [r EXCEPT !.status = "superseded", !.supersededBy = by]
    PROVE  s \in ReviewRows /\ SameTerms(r, s) /\ s.status = "superseded"
  BY DEF ReviewRows, Statuses, SameTerms

\* The rows after a submission looked at the latest review of its key.
SeenRows(latest, now) == IF latest = 0 THEN reviews ELSE Refreshed(latest, now)

\* It changed nothing but that one status: the review may have expired.
LEMMA SeenRowsFit ==
    ASSUME ReviewTypeOK, NEW latest \in 0 .. Len(reviews), NEW now
    PROVE  /\ SeenRows(latest, now) \in Seq(ReviewRows)
           /\ Len(SeenRows(latest, now)) = Len(reviews)
           /\ DOMAIN SeenRows(latest, now) = DOMAIN reviews
           /\ \A i \in DOMAIN reviews :
                 /\ SeenRows(latest, now)[i] \in ReviewRows
                 /\ SameTerms(reviews[i], SeenRows(latest, now)[i])
                 /\ \/ SeenRows(latest, now)[i].status = reviews[i].status
                    \/ /\ reviews[i].status = "pending"
                       /\ SeenRows(latest, now)[i].status = "expired"
<1>1. /\ Len(reviews) \in Nat /\ DOMAIN reviews = 1 .. Len(reviews)
      /\ reviews \in [1 .. Len(reviews) -> ReviewRows] /\ reviews \in Seq(ReviewRows)
  BY LenProperties DEF ReviewTypeOK
<1>2. CASE latest = 0
  BY <1>1, <1>2 DEF SameTerms, SeenRows
<1>3. CASE latest # 0
  <2>1. latest \in DOMAIN reviews
    BY <1>1, <1>3
  <2>2. SeenRows(latest, now) = Refreshed(latest, now)
    BY <1>3 DEF SeenRows
  <2>3. Due(reviews[latest], now) => reviews[latest].status = "pending"
    BY DEF Due
  <2>4. DOMAIN Refreshed(latest, now) = DOMAIN reviews
    BY <1>1, <2>1, RefreshedRows, LenProperties
  <2> QED
    BY <2>1, <2>2, <2>3, <2>4, RefreshedRows
<1> QED
  BY <1>2, <1>3

\* What a submission makes of the rows.
LEMMA SubmitRows ==
    ASSUME ReviewTypeOK, NEW k \in Key, NEW d \in Digest, NEW c \in Contracts,
           NEW t \in Lifetimes, NEW now \in 0 .. clock, NEW latest \in 0 .. Len(reviews),
           Submit(k, d, c, t, now, latest)
    PROVE  /\ reviews' \in Seq(ReviewRows)
           /\ Len(reviews') = Len(reviews) + 1
           /\ Len(reviews') <= MaxReviews
           /\ RowsAge
           /\ reviews'[Len(reviews')] =
                 [key |-> k, digest |-> d, contract |-> c, status |-> "pending",
                  created |-> now, expires |-> ExpiresAt(now, t), supersededBy |-> 0]
           /\ \A i \in DOMAIN reviews :
                 reviews[i].key = k => reviews'[i].status \notin {"pending", "approved"}
           /\ DOMAIN reviews' = DOMAIN reviews \cup {Len(reviews) + 1}
           /\ LET rows == SeenRows(latest, now)
              IN  \A i \in DOMAIN reviews :
                     reviews'[i].status = IF i \in ActiveReviews(rows, k) THEN "superseded"
                                         ELSE rows[i].status
<1> DEFINE rows == SeenRows(latest, now)
           active == ActiveReviews(rows, k)
           id == Len(reviews) + 1
           newRow == [key |-> k, digest |-> d, contract |-> c, status |-> "pending",
                   created |-> now, expires |-> ExpiresAt(now, t), supersededBy |-> 0]
           aged(i) == IF i \in active
                      THEN [rows[i] EXCEPT !.status = "superseded", !.supersededBy = id]
                      ELSE rows[i]
           old == [i \in DOMAIN rows |-> aged(i)]
<1>1. /\ Len(reviews) \in Nat /\ DOMAIN reviews = 1 .. Len(reviews)
      /\ reviews \in [1 .. Len(reviews) -> ReviewRows]
  BY LenProperties DEF ReviewTypeOK
<1>2. /\ rows \in Seq(ReviewRows) /\ Len(rows) = Len(reviews)
      /\ \A i \in DOMAIN reviews :
            /\ rows[i] \in ReviewRows
            /\ SameTerms(reviews[i], rows[i])
            /\ \/ rows[i].status = reviews[i].status
               \/ reviews[i].status = "pending" /\ rows[i].status = "expired"
  BY SeenRowsFit
<1>3. DOMAIN rows = 1 .. Len(reviews) /\ DOMAIN rows = DOMAIN reviews
  BY <1>1, <1>2, LenProperties
<1>4. reviews' = Append(old, newRow)
  BY Zenon DEF Submit, SeenRows
<1>5. id \in 0 .. MaxReviews
  <2>1. id <= MaxReviews
    BY Zenon DEF Submit
  <2> QED
    BY <1>1, <2>1, ReviewAssumption
<1>6. newRow \in ReviewRows
  <2>1. now \in 0 .. MaxTime
    BY ReviewAssumption DEF ReviewTypeOK
  <2>2. ExpiresAt(now, t) \in Nat \cup {Forever}
    BY ReviewAssumption DEF ExpiresAt
  <2> QED
    BY <2>1, <2>2, ReviewAssumption DEF ReviewRows, Statuses
<1> HIDE DEF rows, newRow, id
<1>7. ASSUME NEW i \in DOMAIN reviews
      PROVE  /\ aged(i) \in ReviewRows
             /\ SameTerms(reviews[i], aged(i))
             /\ \/ aged(i).status = reviews[i].status
                \/ aged(i).status = "superseded"
                \/ reviews[i].status = "pending" /\ aged(i).status = "expired"
             /\ reviews[i].key = k => aged(i).status \notin {"pending", "approved"}
             /\ aged(i).status = IF i \in active THEN "superseded" ELSE rows[i].status
  <2>1. CASE i \in active
    <3>1. aged(i) = [rows[i] EXCEPT !.status = "superseded", !.supersededBy = id]
      BY <2>1
    <3> HIDE DEF aged, active
    <3>2. aged(i) \in ReviewRows /\ SameTerms(rows[i], aged(i)) /\ aged(i).status = "superseded"
      <4>1. rows[i] \in ReviewRows
        BY <1>2
      <4> QED
        BY <1>5, <3>1, <4>1, SupersededRow, Zenon
    <3> QED
      BY <1>2, <2>1, <3>2 DEF SameTerms
  <2>2. CASE i \notin active
    <3>1. reviews[i].key = k => rows[i].status \notin {"pending", "approved"}
      BY <1>2, <1>3, <2>2 DEF ActiveReviews, SameTerms
    <3> QED
      BY <1>2, <2>2, <3>1
  <2> QED
    BY <2>1, <2>2
<1> HIDE DEF aged, active
<1>8. /\ old \in Seq(ReviewRows) /\ Len(old) = Len(reviews)
      /\ \A i \in DOMAIN reviews : old[i] = aged(i)
  <2>1. old \in [1 .. Len(reviews) -> ReviewRows]
    BY <1>3, <1>7
  <2>2. old \in Seq(ReviewRows)
    BY <1>1, <2>1, SeqDef
  <2>3. \A i \in DOMAIN reviews : old[i] = aged(i)
    BY <1>3
  <2> HIDE DEF old
  <2> QED
    BY <1>1, <1>3, <2>1, <2>2, <2>3, LenProperties
<1> HIDE DEF old
<1>9. /\ reviews' \in Seq(ReviewRows) /\ Len(reviews') = Len(reviews) + 1
      /\ \A i \in DOMAIN reviews : reviews'[i] = aged(i)
      /\ reviews'[Len(reviews) + 1] = newRow
  BY <1>1, <1>4, <1>6, <1>8, AppendProperties
<1>10. DOMAIN reviews' = 1 .. Len(reviews) + 1
  BY <1>9, LenProperties
<1>11. RowsAge
  BY <1>1, <1>7, <1>9, <1>10 DEF RowsAge
<1>12. DOMAIN reviews' = DOMAIN reviews \cup {Len(reviews) + 1}
  BY <1>1, <1>10
<1>13. \A i \in DOMAIN reviews :
          reviews'[i].status = IF i \in active THEN "superseded" ELSE rows[i].status
  BY <1>7, <1>9
<1>14. \A i \in DOMAIN reviews :
          reviews[i].key = k => reviews'[i].status \notin {"pending", "approved"}
  BY <1>7, <1>9
<1> QED
  BY <1>1, <1>5, <1>9, <1>11, <1>12, <1>13, <1>14 DEF newRow, id, active, rows
\* Rows that age, with the votes and releases as they were, leave the tables in order.
LEMMA AgingKeeps ==
    ASSUME TablesInv, reviews' \in Seq(ReviewRows), RowsAge,
           UNCHANGED <<reviewVotes, released>>
    PROVE  /\ VotesFit'
           /\ ReleasesStand'
           /\ \A i \in DOMAIN reviews :
                 /\ reviews'[i].expires # Forever => reviews'[i].created < reviews'[i].expires
                 /\ reviews'[i].status \in {"pending", "approved"} =>
                       reviews[i].status = reviews'[i].status
                 /\ CastOn(i)' = CastOn(i) /\ Approvals(i)' = Approvals(i)
<1>1. \A i : CastOn(i)' = CastOn(i) /\ Approvals(i)' = Approvals(i)
  BY DEF CastOn, Approvals
<1>2. VotesFit'
  BY DEF TablesInv, VotesFit, RowsAge, SameTerms
<1>3. ReleasesStand'
  BY <1>1 DEF TablesInv, ReleasesStand, RowsAge, SameTerms
<1> QED
  BY <1>1, <1>2, <1>3 DEF TablesInv, ReviewTypeOK, RowsAge, SameTerms

\* The same, where no review is added.
LEMMA AgedTables ==
    ASSUME TablesInv, reviews' \in Seq(ReviewRows), Len(reviews') = Len(reviews), RowsAge,
           UNCHANGED <<clock, reviewVotes, released>>
    PROVE  OneActiveReview' /\ VotesFit' /\ QuorumsDecide' /\ ReleasesStand'
           /\ \A i \in DOMAIN reviews' :
                 reviews'[i].expires # Forever => reviews'[i].created < reviews'[i].expires
<1>1. DOMAIN reviews' = DOMAIN reviews
  BY LenProperties DEF TablesInv, ReviewTypeOK
<1>2. OneActiveReview'
  BY <1>1, AgingKeeps DEF TablesInv, OneActiveReview, RowsAge, SameTerms
<1>3. QuorumsDecide'
  BY <1>1, AgingKeeps DEF TablesInv, QuorumsDecide, RowsAge, SameTerms
<1> QED
  BY <1>1, <1>2, <1>3, AgingKeeps

\* A submission leaves the tables in order: its review is the only active one.
LEMMA SubmitTables ==
    ASSUME TablesInv, NEW k \in Key, NEW d \in Digest, NEW c \in Contracts,
           NEW t \in Lifetimes, NEW now \in 0 .. clock, NEW latest \in 0 .. Len(reviews),
           Submit(k, d, c, t, now, latest)
    PROVE  OneActiveReview' /\ VotesFit' /\ QuorumsDecide' /\ ReleasesStand'
           /\ \A i \in DOMAIN reviews' :
                 reviews'[i].expires # Forever => reviews'[i].created < reviews'[i].expires
<1> DEFINE id == Len(reviews) + 1
<1>1. ReviewTypeOK /\ UNCHANGED <<reviewVotes, released>>
  BY Zenon DEF TablesInv, Submit
<1>2. /\ reviews' \in Seq(ReviewRows) /\ Len(reviews') = id /\ RowsAge
      /\ reviews'[id] = [key |-> k, digest |-> d, contract |-> c, status |-> "pending",
                         created |-> now, expires |-> ExpiresAt(now, t), supersededBy |-> 0]
      /\ \A i \in DOMAIN reviews :
            reviews[i].key = k => reviews'[i].status \notin {"pending", "approved"}
  BY <1>1, SubmitRows
<1>3. /\ Len(reviews) \in Nat
      /\ DOMAIN reviews = 1 .. Len(reviews)
      /\ DOMAIN reviews' = 1 .. id
  BY <1>1, <1>2, LenProperties DEF ReviewTypeOK
<1>4. OneActiveReview'
  <2> SUFFICES ASSUME NEW i \in DOMAIN reviews', NEW j \in DOMAIN reviews',
                      reviews'[i].key = reviews'[j].key,
                      {reviews'[i].status, reviews'[j].status} \subseteq {"pending", "approved"}
               PROVE  i = j
    BY DEF OneActiveReview
  <2>1. CASE i \in DOMAIN reviews /\ j \in DOMAIN reviews
    BY <1>1, <1>2, <2>1, AgingKeeps DEF TablesInv, OneActiveReview, RowsAge, SameTerms
  <2>2. ASSUME NEW l \in DOMAIN reviews, reviews'[l].key = k
        PROVE  reviews'[l].status \notin {"pending", "approved"}
    BY <1>2, <2>2 DEF RowsAge, SameTerms
  <2>3. CASE i = id /\ j # id
    BY <1>2, <1>3, <2>2, <2>3
  <2>4. CASE i # id /\ j = id
    BY <1>2, <1>3, <2>2, <2>4
  <2> QED
    BY <1>3, <2>1, <2>3, <2>4
<1>5. CastOn(id)' = {} /\ Approvals(id)' = {}
  BY <1>1, <1>3 DEF TablesInv, VotesFit, CastOn, Approvals
<1>6. QuorumsDecide'
  <2> DEFINE Decides(i) ==
        /\ reviews'[i].status = "pending" =>
              CastOn(i)' = Approvals(i)' /\ Cardinality(CastOn(i)') < reviews'[i].contract.quorum
        /\ reviews'[i].status = "approved" =>
              CastOn(i)' = Approvals(i)' /\ Cardinality(CastOn(i)') >= reviews'[i].contract.quorum
  <2>1. ASSUME NEW i \in DOMAIN reviews
        PROVE  Decides(i)
    BY <1>1, <1>2, AgingKeeps DEF TablesInv, QuorumsDecide, RowsAge, SameTerms
  <2>2. reviews'[id].status = "pending" /\ reviews'[id].contract = c
    BY <1>2
  <2>3. \A i \in DOMAIN reviews' : i \in DOMAIN reviews \/ i = id
    BY <1>3
  <2> HIDE DEF id
  <2>4. Cardinality(CastOn(id)') = 0
    BY <1>5, FS_EmptySet, Zenon
  <2>5. Decides(id)
    BY <1>5, <2>2, <2>4, QuorumIsPositive
  <2>6. \A i \in DOMAIN reviews' : Decides(i)
    <3> HIDE DEF Decides
    <3> QED
      BY <2>1, <2>3, <2>5
  <2> QED
    BY <2>6 DEF QuorumsDecide
<1>7. ExpiresAt(now, t) # Forever => now < ExpiresAt(now, t)
  BY <1>1, ReviewAssumption DEF ExpiresAt, ReviewTypeOK
<1> QED
  BY <1>1, <1>2, <1>3, <1>4, <1>6, <1>7, AgingKeeps

\* What a vote makes of the status of its review.
Outcome(id, decision, vote) ==
    IF decision = "rejected" THEN "rejected"
    ELSE IF Cardinality(Approvals(id) \cup {vote}) >= reviews[id].contract.quorum
         THEN "approved" ELSE "pending"

\* A vote adds to the votes of its review, whose quorum decides it.
LEMMA VoteTables ==
    ASSUME TablesInv, NEW id \in DOMAIN reviews, NEW r \in Reviewer,
           NEW d \in {"approved", "rejected"}, NEW now \in reviews[id].created .. clock,
           Vote(id, r, d, now)
    PROVE  /\ reviews' \in Seq(ReviewRows)
           /\ Len(reviews') = Len(reviews)
           /\ reviewVotes' \subseteq Votes
           /\ OneActiveReview' /\ VotesFit' /\ QuorumsDecide' /\ ReleasesStand'
           /\ \A i \in DOMAIN reviews' :
                 reviews'[i].expires # Forever => reviews'[i].created < reviews'[i].expires
           /\ DOMAIN reviews' = DOMAIN reviews
           /\ \A i \in DOMAIN reviews : reviews'[i].contract = reviews[i].contract
           /\ \A i \in DOMAIN reviews \ {id} : reviews'[i].status = reviews[i].status
           /\ LET vote == [review |-> id, reviewer |-> r, decision |-> d, at |-> now]
              IN  /\ reviews'[id].status = Outcome(id, d, vote)
                  /\ d = "approved" => Outcome(id, d, vote) =
                        IF Cardinality(CastOn(id)) + 1 >= reviews[id].contract.quorum
                        THEN "approved" ELSE "pending"
                  /\ vote \notin reviewVotes
<1> DEFINE vote == [review |-> id, reviewer |-> r, decision |-> d, at |-> now]
           quorum == reviews[id].contract.quorum
           status == Outcome(id, d, vote)
           newRow == [reviews[id] EXCEPT !.status = status]
<1>1. /\ Len(reviews) \in Nat /\ DOMAIN reviews = 1 .. Len(reviews) /\ Len(reviews) <= MaxReviews
      /\ reviews \in Seq(ReviewRows) /\ reviews \in [1 .. Len(reviews) -> ReviewRows]
  BY LenProperties DEF TablesInv, ReviewTypeOK
<1>2. VoteCounts(id, r, now)
  BY Zenon DEF Vote
<1>3. /\ reviewVotes' = reviewVotes \cup {vote}
      /\ UNCHANGED <<clock, released>>
  BY Zenon DEF Vote
<1>4. reviews' = [reviews EXCEPT ![id].status = status]
  BY Zenon DEF Vote, Outcome
<1>5. status \in {"pending", "approved", "rejected"}
  BY DEF Outcome
<1>6. vote \in Votes
  BY <1>1, ReviewAssumption DEF TablesInv, ReviewTypeOK, Votes, ReviewRows, Ids
<1>7. /\ reviews[id].status = "pending"
      /\ reviews[id].expires # Forever => now < reviews[id].expires
      /\ r \in reviews[id].contract.reviewers
      /\ \A v \in reviewVotes : v.review = id => v.reviewer # r
  <2>1. reviews[id] \in ReviewRows /\ now \in Int
    BY <1>1
  <2> QED
    BY <1>2, <2>1 DEF VoteCounts, Open, Due, ReviewRows
<1>8. newRow \in ReviewRows /\ SameTerms(reviews[id], newRow) /\ newRow.status = status
  <2> HIDE DEF status
  <2> QED
    BY <1>1, <1>5 DEF ReviewRows, Statuses, SameTerms
<1>9. reviews' = [reviews EXCEPT ![id] = newRow]
  BY <1>1, <1>4
<1>10. vote.review = id /\ vote.reviewer = r /\ vote.decision = d /\ vote.at = now
  OBVIOUS
<1>11. IsFiniteSet(CastOn(id)) /\ vote \notin CastOn(id)
  <2>1. CastOn(id) \in SUBSET reviewVotes /\ IsFiniteSet(reviewVotes)
    BY DEF CastOn, TablesInv, VotesFit
  <2> QED
    BY <1>7, <1>10, <2>1, FS_Subset
<1>12. /\ CastOn(id) = Approvals(id)
       /\ Cardinality(CastOn(id)) \in Nat /\ quorum \in Nat /\ Cardinality(CastOn(id)) < quorum
  <2>1. reviews[id].contract \in Contracts
    BY <1>1 DEF ReviewRows
  <2> QED
    BY <1>7, <1>11, <2>1, QuorumIsPositive, FS_CardinalityType DEF TablesInv, QuorumsDecide
<1>13. Cardinality(CastOn(id) \cup {vote}) = Cardinality(CastOn(id)) + 1
  <2> HIDE DEF vote
  <2> QED
    BY <1>11, FS_AddElement
<1>14. /\ d = "rejected" => status = "rejected"
       /\ d = "approved" => status = IF Cardinality(CastOn(id) \cup {vote}) >= quorum
                                     THEN "approved" ELSE "pending"
  BY <1>12 DEF Outcome
<1> HIDE DEF vote, newRow, status, quorum
<1>15. /\ reviews' \in Seq(ReviewRows) /\ Len(reviews') = Len(reviews)
       /\ DOMAIN reviews' = DOMAIN reviews
       /\ \A i \in DOMAIN reviews : reviews'[i] = IF i = id THEN newRow ELSE reviews[i]
  <2>1. /\ reviews' \in Seq(ReviewRows) /\ Len(reviews') = Len(reviews)
        /\ \A i \in 1 .. Len(reviews) : reviews'[i] = IF i = id THEN newRow ELSE reviews[i]
    BY <1>1, <1>8, <1>9, ExceptSeq
  <2> QED
    BY <1>1, <2>1, LenProperties
<1>16. \A i \in DOMAIN reviews : SameTerms(reviews[i], reviews'[i])
  BY <1>8, <1>15 DEF SameTerms
<1>17. /\ CastOn(id)' = CastOn(id) \cup {vote}
       /\ d = "approved" => Approvals(id)' = Approvals(id) \cup {vote}
       /\ \A i : i # id => CastOn(i)' = CastOn(i) /\ Approvals(i)' = Approvals(i)
  BY <1>3, <1>10 DEF CastOn, Approvals
<1>18. OneActiveReview'
  <2>1. \A i \in DOMAIN reviews : reviews'[i].status \in {"pending", "approved"}
            => reviews[i].status \in {"pending", "approved"}
    BY <1>7, <1>15
  <2> QED
    BY <1>15, <1>16, <2>1 DEF TablesInv, OneActiveReview, SameTerms
<1>19. VotesFit'
  <2>1. IsFiniteSet(reviewVotes')
    BY <1>3, FS_AddElement DEF TablesInv, VotesFit
  <2>2. \A v \in reviewVotes' :
            /\ v.review \in DOMAIN reviews
            /\ v.reviewer \in reviews[v.review].contract.reviewers
            /\ reviews[v.review].expires # Forever => v.at < reviews[v.review].expires
    BY <1>3, <1>7, <1>10 DEF TablesInv, VotesFit
  <2>3. \A v, w \in reviewVotes' :
            v.review = w.review /\ v.reviewer = w.reviewer => v = w
    BY <1>3, <1>7, <1>10 DEF TablesInv, VotesFit
  <2> QED
    BY <1>15, <1>16, <2>1, <2>2, <2>3 DEF VotesFit, SameTerms
<1>20. QuorumsDecide'
  <2> DEFINE Decides(i) ==
        /\ reviews'[i].status = "pending" =>
              CastOn(i)' = Approvals(i)' /\ Cardinality(CastOn(i)') < reviews'[i].contract.quorum
        /\ reviews'[i].status = "approved" =>
              CastOn(i)' = Approvals(i)' /\ Cardinality(CastOn(i)') >= reviews'[i].contract.quorum
  <2>1. ASSUME NEW i \in DOMAIN reviews, i # id
        PROVE  Decides(i)
    BY <1>15, <1>17, <2>1 DEF TablesInv, QuorumsDecide
  <2>2. reviews'[id].status = status /\ reviews'[id].contract.quorum = quorum
    BY <1>8, <1>15, <1>16 DEF SameTerms, quorum
  <2>3. ASSUME d = "rejected"
        PROVE  Decides(id)
    BY <1>14, <2>2, <2>3
  <2>4. ASSUME d = "approved"
        PROVE  Decides(id)
    <3>1. CastOn(id)' = Approvals(id)'
      BY <1>12, <1>17, <2>4
    <3>2. Cardinality(CastOn(id)') = Cardinality(CastOn(id)) + 1
      BY <1>13, <1>17
    <3> QED
      BY <1>12, <1>13, <1>14, <2>2, <2>4, <3>1, <3>2
  <2>5. \A i \in DOMAIN reviews' : Decides(i)
    <3> HIDE DEF Decides
    <3> QED
      BY <1>15, <2>1, <2>3, <2>4
  <2> QED
    BY <2>5 DEF QuorumsDecide
<1>21. ReleasesStand'
  <2>1. \A x \in released : x.review # id
    BY <1>7 DEF TablesInv, ReleasesStand
  <2> QED
    BY <1>3, <1>15, <1>17, <2>1 DEF TablesInv, ReleasesStand
<1>22. /\ reviews'[id].status = status
       /\ d = "approved" =>
             status = IF Cardinality(CastOn(id)) + 1 >= quorum THEN "approved" ELSE "pending"
       /\ vote \notin reviewVotes
  BY <1>7, <1>8, <1>10, <1>13, <1>14, <1>15
<1>23. /\ \A i \in DOMAIN reviews : reviews'[i].contract = reviews[i].contract
       /\ \A i \in DOMAIN reviews \ {id} : reviews'[i].status = reviews[i].status
  BY <1>15, <1>16 DEF SameTerms
<1>24. reviewVotes' \subseteq Votes
  BY <1>3, <1>6 DEF TablesInv, ReviewTypeOK
<1>25. \A i \in DOMAIN reviews' :
          reviews'[i].expires # Forever => reviews'[i].created < reviews'[i].expires
  BY <1>15, <1>16 DEF TablesInv, ReviewTypeOK, SameTerms
<1> QED
  BY <1>15, <1>18, <1>19, <1>20, <1>21, <1>22, <1>23, <1>24, <1>25 DEF vote, status, quorum

-----------------------------------------------------------------------------
(* The release-review store: trails of events. *)

\* Events that leave the status of their review alone.
Silent == {"vote_recorded", "comment_added"}

\* The events of a trail that give review i a status, and the status one gives.
Marks(trail, i) == {j \in DOMAIN trail : trail[j].review = i /\ trail[j].kind \notin Silent}

StatusOf(e) ==
    CASE e.kind = "submitted" -> "pending"
      [] e.kind = "review_decided" -> e.status
      [] OTHER -> e.kind

\* The last of some positions of a trail.
LastOf(S) == CHOOSE j \in S : \A other \in S : other <= j

\* There is one.
LEMMA LastIsMember ==
    ASSUME NEW n \in Nat, NEW S \in SUBSET (1 .. n), S # {}
    PROVE  LastOf(S) \in S /\ \A j \in S : j <= LastOf(S)
<1> DEFINE R == OpToRel(<, Nat)
           T == {n - j : j \in S}
<1>1. \A j, k \in Nat : j < k => <<j, k>> \in R
  BY SMT DEF OpToRel
<1>2. IsWellFoundedOn(R, Nat)
  BY NatLessThanWellFounded, Zenon
<1>3. T \in SUBSET Nat /\ T # {}
  <2>1. \A j \in S : n - j \in Nat
    OBVIOUS
  <2> QED
    BY <2>1, Zenon
<1> HIDE DEF R, T
<1>4. PICK k \in T : \A l \in T : ~(<<l, k>> \in R)
  BY <1>2, <1>3, WFMin, Zenon
<1>5. \A l \in T : k <= l
  <2>1. \A l \in T : l \in Nat /\ k \in Nat
    BY <1>3
  <2>2. \A l \in T : ~(l < k)
    BY <1>1, <1>4, <2>1, Zenon
  <2> QED
    BY <2>1, <2>2
<1>6. PICK j \in S : k = n - j
  BY DEF T
<1>7. \A other \in S : other <= j
  BY <1>5, <1>6 DEF T
<1> QED
  BY <1>6, <1>7 DEF LastOf

\* The status is that of the last event that gives one.
LEMMA StatusIsLast ==
    ASSUME NEW trail \in Seq(AuditEvents), NEW i
    PROVE  StatusIn(trail, i) =
              IF Marks(trail, i) = {} THEN "none" ELSE StatusOf(trail[LastOf(Marks(trail, i))])
  BY Zenon DEF StatusIn, Marks, StatusOf, LastOf, Silent

\* An event gives its review a status or leaves every status as it was.
LEMMA StatusAppend ==
    ASSUME NEW trail \in Seq(AuditEvents), NEW e \in AuditEvents, NEW i
    PROVE  StatusIn(Append(trail, e), i) =
              IF e.review = i /\ e.kind \notin Silent THEN StatusOf(e) ELSE StatusIn(trail, i)
<1> DEFINE n == Len(trail)
           longer == Append(trail, e)
           old == Marks(trail, i)
           new == Marks(longer, i)
<1>1. /\ n \in Nat /\ DOMAIN trail = 1 .. n
      /\ longer \in Seq(AuditEvents) /\ DOMAIN longer = 1 .. n + 1
      /\ longer[n + 1] = e /\ \A j \in 1 .. n : longer[j] = trail[j]
  BY LenProperties, AppendProperties
<1>2. old \in SUBSET (1 .. n) /\ new \in SUBSET (1 .. n + 1)
  BY <1>1 DEF Marks
<1> HIDE DEF n, longer
<1>3. CASE e.review = i /\ e.kind \notin Silent
  <2>1. n + 1 \in new
    BY <1>1, <1>3 DEF Marks
  <2> HIDE DEF new
  <2>2. LastOf(new) = n + 1
    <3>1. n + 1 \in Nat /\ new # {}
      BY <1>1, <2>1
    <3>2. LastOf(new) \in new /\ n + 1 <= LastOf(new)
      BY <1>2, <2>1, <3>1, LastIsMember
    <3>3. LastOf(new) \in 1 .. n + 1
      BY <1>2, <3>2, Zenon
    <3> QED
      BY <1>1, <3>2, <3>3, SMT
  <2>3. StatusIn(longer, i) = StatusOf(longer[LastOf(new)])
    BY <1>1, <2>1, StatusIsLast DEF new
  <2> QED
    BY <1>1, <1>3, <2>2, <2>3 DEF longer
<1>4. CASE ~(e.review = i /\ e.kind \notin Silent)
  <2>1. new = old
    BY <1>1, <1>4 DEF Marks
  <2>2. old # {} => longer[LastOf(old)] = trail[LastOf(old)]
    <3> HIDE DEF old
    <3> QED
      BY <1>1, <1>2, LastIsMember
  <2>3. StatusIn(longer, i) = IF new = {} THEN "none" ELSE StatusOf(longer[LastOf(new)])
    BY <1>1, StatusIsLast
  <2>4. StatusIn(trail, i) = IF old = {} THEN "none" ELSE StatusOf(trail[LastOf(old)])
    BY <1>1, StatusIsLast
  <2> HIDE DEF old, new
  <2> QED
    BY <1>4, <2>1, <2>2, <2>3, <2>4 DEF longer
<1> QED
  BY <1>3, <1>4

\* What is told of a review grows by what is appended.
LEMMA ToldAppend ==
    ASSUME NEW trail \in Seq(AuditEvents), NEW e \in AuditEvents, NEW i, NEW kind
    PROVE  /\ Told(trail, i, kind) \in SUBSET (1 .. Len(trail))
           /\ Told(Append(trail, e), i, kind) =
                 IF e.review = i /\ e.kind = kind
                 THEN Told(trail, i, kind) \cup {Len(trail) + 1} ELSE Told(trail, i, kind)
<1> DEFINE n == Len(trail)
           longer == Append(trail, e)
<1>1. /\ n \in Nat /\ DOMAIN trail = 1 .. n
      /\ DOMAIN longer = 1 .. n + 1
      /\ longer[n + 1] = e /\ \A j \in 1 .. n : longer[j] = trail[j]
  BY LenProperties, AppendProperties
<1> HIDE DEF n, longer
<1>2. \A j : j \in 1 .. n + 1 <=> j \in 1 .. n \/ j = n + 1
  BY <1>1
<1>3. Told(longer, i, kind) =
          IF e.review = i /\ e.kind = kind THEN Told(trail, i, kind) \cup {n + 1}
          ELSE Told(trail, i, kind)
  BY <1>1, <1>2 DEF Told
<1> QED
  BY <1>1, <1>3 DEF Told, n, longer

\* A trail in which every event may follow those before it.
Lawful(trail) == \A k \in DOMAIN trail : MayFollow(SubSeq(trail, 1, k - 1), trail[k])

\* A lawful trail goes on by what may follow it.
LEMMA LawfulAppend ==
    ASSUME NEW trail \in Seq(AuditEvents), NEW e \in AuditEvents,
           Lawful(trail), MayFollow(trail, e)
    PROVE  Lawful(Append(trail, e))
<1> DEFINE n == Len(trail)
           longer == Append(trail, e)
<1>1. /\ n \in Nat /\ DOMAIN trail = 1 .. n /\ Len(longer) = n + 1
      /\ longer \in Seq(AuditEvents) /\ DOMAIN longer = 1 .. n + 1
      /\ longer[n + 1] = e /\ \A j \in 1 .. n : longer[j] = trail[j] /\ longer[j] \in AuditEvents
      /\ \A j \in 1 .. n : trail[j] \in AuditEvents
  BY LenProperties, AppendProperties
<1> HIDE DEF n, longer
<1>2. ASSUME NEW k \in 1 .. n + 1
      PROVE  SubSeq(longer, 1, k - 1) = SubSeq(trail, 1, k - 1)
  <2>1. k - 1 \in Int /\ \A j \in 1 .. k - 1 : j \in 1 .. n
    BY <1>1
  <2>2. /\ SubSeq(longer, 1, k - 1) \in Seq(AuditEvents)
        /\ Len(SubSeq(longer, 1, k - 1)) = IF 1 <= k - 1 THEN (k - 1) - 1 + 1 ELSE 0
        /\ \A j \in 1 .. (k - 1) - 1 + 1 : SubSeq(longer, 1, k - 1)[j] = longer[1 + j - 1]
    BY <1>1, <2>1, SubSeqProperties
  <2>3. /\ SubSeq(trail, 1, k - 1) \in Seq(AuditEvents)
        /\ Len(SubSeq(trail, 1, k - 1)) = IF 1 <= k - 1 THEN (k - 1) - 1 + 1 ELSE 0
        /\ \A j \in 1 .. (k - 1) - 1 + 1 : SubSeq(trail, 1, k - 1)[j] = trail[1 + j - 1]
    BY <1>1, <2>1, SubSeqProperties
  <2>4. Len(SubSeq(longer, 1, k - 1)) = Len(SubSeq(trail, 1, k - 1))
    BY <2>2, <2>3
  <2>5. \A j \in 1 .. Len(SubSeq(longer, 1, k - 1)) :
           SubSeq(longer, 1, k - 1)[j] = SubSeq(trail, 1, k - 1)[j]
    BY <1>1, <2>1, <2>2, <2>3
  <2> QED
    BY <2>2, <2>3, <2>4, <2>5, SeqEqual
<1>3. SubSeq(trail, 1, n) = trail
  BY SubSeqFull DEF n
<1>4. ASSUME NEW k \in 1 .. n + 1
      PROVE  MayFollow(SubSeq(longer, 1, k - 1), longer[k])
  <2>1. CASE k = n + 1
    <3>1. SubSeq(longer, 1, k - 1) = trail /\ longer[k] = e
      BY <1>1, <1>2, <1>3, <2>1
    <3> QED
      BY <3>1
  <2>2. CASE k # n + 1
    <3>1. k \in DOMAIN trail /\ longer[k] = trail[k]
      BY <1>1, <2>2
    <3>2. MayFollow(SubSeq(trail, 1, k - 1), trail[k])
      BY <3>1 DEF Lawful
    <3> QED
      BY <1>2, <3>1, <3>2
  <2> QED
    BY <2>1, <2>2
<1> QED
  BY <1>1, <1>4 DEF Lawful, longer

\* The votes on review i of a table of votes.
VotesOn(ballots, i) == {v \in ballots : v.review = i}

\* A trail that bears out the tables: what it says of every review's terms, votes
\* and status is what their rows say.
TrailFits(trail, rows, ballots) ==
    /\ trail \in Seq(AuditEvents)
    /\ \A j \in DOMAIN trail : trail[j].review \in DOMAIN rows
    /\ Lawful(trail)
    /\ \A i \in DOMAIN rows :
          /\ rows[i].status = StatusIn(trail, i)
          /\ Told(trail, i, "submitted") # {}
          /\ Cardinality(Told(trail, i, "vote_recorded")) = Cardinality(VotesOn(ballots, i))
    /\ \A j \in DOMAIN trail :
          /\ trail[j].kind = "submitted" => trail[j].contract = rows[trail[j].review].contract
          /\ trail[j].kind = "vote_recorded" =>
                \E v \in ballots : /\ v.review = trail[j].review
                                 /\ v.reviewer = trail[j].reviewer
                                 /\ v.decision = trail[j].decision

\* A trail goes on by an event that gives a review its next status.
LEMMA MarkFits ==
    ASSUME NEW trail, NEW rows, NEW ballots, TrailFits(trail, rows, ballots),
           NEW e \in AuditEvents, e.review \in DOMAIN rows,
           e.kind \notin Silent \cup {"submitted"}, MayFollow(trail, e),
           NEW later, DOMAIN later = DOMAIN rows,
           \A i \in DOMAIN rows :
              /\ later[i].contract = rows[i].contract
              /\ later[i].status = IF i = e.review THEN StatusOf(e) ELSE rows[i].status
    PROVE  TrailFits(Append(trail, e), later, ballots)
<1> DEFINE longer == Append(trail, e)
<1>1. /\ trail \in Seq(AuditEvents) /\ longer \in Seq(AuditEvents)
      /\ DOMAIN longer = DOMAIN trail \cup {Len(trail) + 1}
      /\ longer[Len(trail) + 1] = e /\ \A j \in DOMAIN trail : longer[j] = trail[j]
  <2>1. trail \in Seq(AuditEvents)
    BY DEF TrailFits
  <2> QED
    BY <2>1, LenProperties, AppendProperties
<1>2. Lawful(longer)
  BY <1>1, LawfulAppend DEF TrailFits
<1>3. \A i : /\ Told(longer, i, "submitted") = Told(trail, i, "submitted")
             /\ Told(longer, i, "vote_recorded") = Told(trail, i, "vote_recorded")
  BY <1>1, ToldAppend DEF Silent
<1>4. \A i : StatusIn(longer, i) = IF e.review = i THEN StatusOf(e) ELSE StatusIn(trail, i)
  BY <1>1, StatusAppend
<1> HIDE DEF longer
<1>5. \A j \in DOMAIN longer :
          /\ longer[j].review \in DOMAIN later
          /\ longer[j].kind = "submitted" => longer[j].contract = later[longer[j].review].contract
          /\ longer[j].kind = "vote_recorded" =>
                \E v \in ballots : /\ v.review = longer[j].review
                                 /\ v.reviewer = longer[j].reviewer
                                 /\ v.decision = longer[j].decision
  <2>1. e.kind # "submitted" /\ e.kind # "vote_recorded"
    BY DEF Silent
  <2>2. ASSUME NEW j \in DOMAIN trail
        PROVE  /\ longer[j].review \in DOMAIN later
               /\ longer[j].kind = "submitted" =>
                     longer[j].contract = later[longer[j].review].contract
               /\ longer[j].kind = "vote_recorded" =>
                     \E v \in ballots : /\ v.review = longer[j].review
                                      /\ v.reviewer = longer[j].reviewer
                                      /\ v.decision = longer[j].decision
    BY <1>1 DEF TrailFits
  <2> QED
    BY <1>1, <2>1, <2>2
<1>6. \A i \in DOMAIN later :
          /\ later[i].status = StatusIn(longer, i)
          /\ Told(longer, i, "submitted") # {}
          /\ Cardinality(Told(longer, i, "vote_recorded")) = Cardinality(VotesOn(ballots, i))
  BY <1>3, <1>4 DEF TrailFits
<1> QED
  BY <1>1, <1>2, <1>5, <1>6 DEF TrailFits, longer

\* A trail goes on by a comment.
LEMMA CommentFits ==
    ASSUME NEW trail, NEW rows, NEW ballots, TrailFits(trail, rows, ballots),
           NEW e \in AuditEvents, e.review \in DOMAIN rows,
           e.kind = "comment_added", MayFollow(trail, e)
    PROVE  TrailFits(Append(trail, e), rows, ballots)
<1> DEFINE longer == Append(trail, e)
<1>1. /\ trail \in Seq(AuditEvents) /\ longer \in Seq(AuditEvents)
      /\ DOMAIN longer = DOMAIN trail \cup {Len(trail) + 1}
      /\ longer[Len(trail) + 1] = e /\ \A j \in DOMAIN trail : longer[j] = trail[j]
  <2>1. trail \in Seq(AuditEvents)
    BY DEF TrailFits
  <2> QED
    BY <2>1, LenProperties, AppendProperties
<1>2. Lawful(longer)
  BY <1>1, LawfulAppend DEF TrailFits
<1>3. \A i : /\ Told(longer, i, "submitted") = Told(trail, i, "submitted")
             /\ Told(longer, i, "vote_recorded") = Told(trail, i, "vote_recorded")
  BY <1>1, ToldAppend
<1>4. \A i : StatusIn(longer, i) = StatusIn(trail, i)
  BY <1>1, StatusAppend DEF Silent
<1> HIDE DEF longer
<1>5. \A j \in DOMAIN longer :
          /\ longer[j].review \in DOMAIN rows
          /\ longer[j].kind = "submitted" => longer[j].contract = rows[longer[j].review].contract
          /\ longer[j].kind = "vote_recorded" =>
                \E v \in ballots : /\ v.review = longer[j].review
                                 /\ v.reviewer = longer[j].reviewer
                                 /\ v.decision = longer[j].decision
  BY <1>1 DEF TrailFits
<1> QED
  BY <1>1, <1>2, <1>3, <1>4, <1>5 DEF TrailFits, longer

\* A trail goes on by a vote, whose row is new.
LEMMA VoteFits ==
    ASSUME NEW trail, NEW rows, NEW ballots, TrailFits(trail, rows, ballots),
           NEW e \in AuditEvents, e.review \in DOMAIN rows,
           e.kind = "vote_recorded", MayFollow(trail, e),
           NEW v, v \notin ballots, IsFiniteSet(VotesOn(ballots, e.review)),
           v.review = e.review, v.reviewer = e.reviewer, v.decision = e.decision
    PROVE  TrailFits(Append(trail, e), rows, ballots \cup {v})
<1> DEFINE longer == Append(trail, e)
           more == ballots \cup {v}
<1>1. /\ trail \in Seq(AuditEvents) /\ longer \in Seq(AuditEvents)
      /\ Len(trail) \in Nat
      /\ DOMAIN longer = DOMAIN trail \cup {Len(trail) + 1}
      /\ longer[Len(trail) + 1] = e /\ \A j \in DOMAIN trail : longer[j] = trail[j]
  <2>1. trail \in Seq(AuditEvents)
    BY DEF TrailFits
  <2> QED
    BY <2>1, LenProperties, AppendProperties
<1>2. Lawful(longer)
  BY <1>1, LawfulAppend DEF TrailFits
<1>3. \A i : /\ Told(longer, i, "submitted") = Told(trail, i, "submitted")
             /\ e.review # i => Told(longer, i, "vote_recorded") = Told(trail, i, "vote_recorded")
  BY <1>1, ToldAppend
<1>4. \A i : StatusIn(longer, i) = StatusIn(trail, i)
  BY <1>1, StatusAppend DEF Silent
<1>5. Cardinality(Told(longer, e.review, "vote_recorded")) =
          Cardinality(Told(trail, e.review, "vote_recorded")) + 1
  <2> DEFINE told == Told(trail, e.review, "vote_recorded")
  <2>1. told \in SUBSET (1 .. Len(trail))
        /\ Told(longer, e.review, "vote_recorded") = told \cup {Len(trail) + 1}
    BY <1>1, ToldAppend
  <2>2. IsFiniteSet(1 .. Len(trail))
    BY <1>1, FS_Interval
  <2> HIDE DEF told
  <2>3. IsFiniteSet(told) /\ Len(trail) + 1 \notin told
    <3>1. Len(trail) + 1 \notin 1 .. Len(trail)
      BY <1>1
    <3>2. IsFiniteSet(told)
      BY <2>1, <2>2, FS_Subset, Zenon
    <3> QED
      BY <2>1, <3>1, <3>2, Zenon
  <2>4. Cardinality(told \cup {Len(trail) + 1}) = Cardinality(told) + 1
    BY <2>3, FS_AddElement
  <2> QED
    BY <2>1, <2>4 DEF told
<1>6. /\ Cardinality(VotesOn(more, e.review)) = Cardinality(VotesOn(ballots, e.review)) + 1
      /\ \A i : i # e.review => VotesOn(more, i) = VotesOn(ballots, i)
  <2>1. /\ VotesOn(more, e.review) = VotesOn(ballots, e.review) \cup {v}
        /\ \A i : i # e.review => VotesOn(more, i) = VotesOn(ballots, i)
        /\ v \notin VotesOn(ballots, e.review)
    BY DEF VotesOn
  <2>2. Cardinality(VotesOn(ballots, e.review) \cup {v}) = Cardinality(VotesOn(ballots, e.review)) + 1
    BY <2>1, FS_AddElement
  <2> HIDE DEF more
  <2> QED
    BY <2>1, <2>2
<1> HIDE DEF longer
<1>7. \A j \in DOMAIN longer :
          /\ longer[j].review \in DOMAIN rows
          /\ longer[j].kind = "submitted" => longer[j].contract = rows[longer[j].review].contract
          /\ longer[j].kind = "vote_recorded" =>
                \E w \in more : /\ w.review = longer[j].review
                                /\ w.reviewer = longer[j].reviewer
                                /\ w.decision = longer[j].decision
  BY <1>1 DEF TrailFits
<1> HIDE DEF more
<1>8. \A i \in DOMAIN rows :
          /\ rows[i].status = StatusIn(longer, i)
          /\ Told(longer, i, "submitted") # {}
          /\ Cardinality(Told(longer, i, "vote_recorded")) = Cardinality(VotesOn(more, i))
  BY <1>3, <1>4, <1>5, <1>6 DEF TrailFits
<1>9. TrailFits(longer, rows, more)
  BY <1>1, <1>2, <1>7, <1>8 DEF TrailFits
<1> QED
  BY <1>9 DEF longer, more

\* A trail goes on by the submission of a review, of which nothing was told.
LEMMA SubmittedFits ==
    ASSUME NEW trail, NEW rows, NEW ballots, TrailFits(trail, rows, ballots),
           NEW e \in AuditEvents, e.review \notin DOMAIN rows,
           e.kind = "submitted", VotesOn(ballots, e.review) = {},
           NEW later, DOMAIN later = DOMAIN rows \cup {e.review},
           later[e.review].contract = e.contract, later[e.review].status = "pending",
           \A i \in DOMAIN rows :
              later[i].contract = rows[i].contract /\ later[i].status = rows[i].status
    PROVE  TrailFits(Append(trail, e), later, ballots)
<1> DEFINE longer == Append(trail, e)
<1>1. /\ trail \in Seq(AuditEvents) /\ longer \in Seq(AuditEvents)
      /\ DOMAIN longer = DOMAIN trail \cup {Len(trail) + 1}
      /\ longer[Len(trail) + 1] = e /\ \A j \in DOMAIN trail : longer[j] = trail[j]
  <2>1. trail \in Seq(AuditEvents)
    BY DEF TrailFits
  <2> QED
    BY <2>1, LenProperties, AppendProperties
<1>2. /\ Told(trail, e.review, "vote_recorded") = {}
      /\ Marks(trail, e.review) = {}
  BY DEF TrailFits, Told, Marks
<1>3. Lawful(longer)
  <2>1. StatusIn(trail, e.review) = "none"
    BY <1>1, <1>2, StatusIsLast
  <2>2. MayFollow(trail, e)
    BY <2>1, Zenon DEF MayFollow
  <2> QED
    BY <1>1, <2>2, LawfulAppend DEF TrailFits
<1>4. \A i : /\ i # e.review => Told(longer, i, "submitted") = Told(trail, i, "submitted")
             /\ Told(longer, i, "vote_recorded") = Told(trail, i, "vote_recorded")
  BY <1>1, ToldAppend
<1>5. Told(longer, e.review, "submitted") # {}
  BY <1>1, ToldAppend
<1>6. \A i : StatusIn(longer, i) = IF e.review = i THEN "pending" ELSE StatusIn(trail, i)
  BY <1>1, StatusAppend DEF Silent, StatusOf
<1> HIDE DEF longer
<1>7. \A j \in DOMAIN longer :
          /\ longer[j].review \in DOMAIN later
          /\ longer[j].kind = "submitted" => longer[j].contract = later[longer[j].review].contract
          /\ longer[j].kind = "vote_recorded" =>
                \E v \in ballots : /\ v.review = longer[j].review
                                 /\ v.reviewer = longer[j].reviewer
                                 /\ v.decision = longer[j].decision
  BY <1>1 DEF TrailFits
<1>8. \A i \in DOMAIN later :
          /\ later[i].status = StatusIn(longer, i)
          /\ Told(longer, i, "submitted") # {}
          /\ Cardinality(Told(longer, i, "vote_recorded")) = Cardinality(VotesOn(ballots, i))
  BY <1>2, <1>4, <1>5, <1>6 DEF TrailFits
<1> QED
  BY <1>1, <1>3, <1>7, <1>8 DEF TrailFits, longer

-----------------------------------------------------------------------------
(* The release-review store: the log bears out the tables. *)

\* Only status and contract of a row are told.
LEMMA FitsAlike ==
    ASSUME NEW trail, NEW rows, NEW ballots, TrailFits(trail, rows, ballots),
           NEW later, DOMAIN later = DOMAIN rows,
           \A i \in DOMAIN rows :
              later[i].contract = rows[i].contract /\ later[i].status = rows[i].status
    PROVE  TrailFits(trail, later, ballots)
  BY DEF TrailFits

\* The terms of a review are those of its submission.
LEMMA RulesKnown ==
    ASSUME NEW trail, NEW rows, NEW ballots, TrailFits(trail, rows, ballots), NEW i \in DOMAIN rows
    PROVE  trail[CHOOSE j \in Told(trail, i, "submitted") : TRUE].contract = rows[i].contract
<1> DEFINE j == CHOOSE j \in Told(trail, i, "submitted") : TRUE
<1>1. j \in Told(trail, i, "submitted")
  BY DEF TrailFits
<1> HIDE DEF j
<1>2. j \in DOMAIN trail /\ trail[j].review = i /\ trail[j].kind = "submitted"
  BY <1>1 DEF Told
<1>3. trail[j].contract = rows[i].contract
  BY <1>2 DEF TrailFits
<1> QED
  BY <1>3 DEF j

\* Where every vote is an approval, so is every vote told of.
LEMMA ApprovalsTold ==
    ASSUME NEW trail, NEW rows, NEW ballots, TrailFits(trail, rows, ballots), NEW i \in DOMAIN rows,
           \A v \in VotesOn(ballots, i) : v.decision = "approved"
    PROVE  {j \in Told(trail, i, "vote_recorded") : trail[j].decision = "approved"}
              = Told(trail, i, "vote_recorded")
  BY DEF TrailFits, Told, VotesOn

\* What a vote appends, and the decision it may bring, may follow the log.
LEMMA VoteLog ==
    ASSUME TablesInv, TrailFits(log, reviews, reviewVotes),
           NEW id \in DOMAIN reviews, NEW r \in Reviewer,
           NEW d \in {"approved", "rejected"}, NEW now \in reviews[id].created .. clock,
           Vote(id, r, d, now)
    PROVE  TrailFits(log', reviews', reviewVotes')
<1> DEFINE vote == [review |-> id, reviewer |-> r, decision |-> d, at |-> now]
           quorum == reviews[id].contract.quorum
           status == Outcome(id, d, vote)
           cast == [kind |-> "vote_recorded", review |-> id, reviewer |-> r, decision |-> d]
           decided == [kind |-> "review_decided", review |-> id, status |-> status]
           told == Told(log, id, "vote_recorded")
           after == Append(log, cast)
<1>1. /\ DOMAIN reviews' = DOMAIN reviews
      /\ \A i \in DOMAIN reviews : reviews'[i].contract = reviews[i].contract
      /\ \A i \in DOMAIN reviews \ {id} : reviews'[i].status = reviews[i].status
      /\ reviews'[id].status = status
      /\ d = "approved" =>
            status = IF Cardinality(CastOn(id)) + 1 >= quorum THEN "approved" ELSE "pending"
      /\ vote \notin reviewVotes
  <2>1. /\ DOMAIN reviews' = DOMAIN reviews
        /\ \A i \in DOMAIN reviews : reviews'[i].contract = reviews[i].contract
    BY VoteTables, Zenon
  <2>2. \A i \in DOMAIN reviews \ {id} : reviews'[i].status = reviews[i].status
    BY VoteTables, Zenon
  <2>3. reviews'[id].status = status /\ vote \notin reviewVotes
    BY VoteTables, Zenon
  <2>4. d = "approved" =>
           status = IF Cardinality(CastOn(id)) + 1 >= quorum THEN "approved" ELSE "pending"
    BY VoteTables
  <2> QED
    BY <2>1, <2>2, <2>3, <2>4
<1>2. /\ VoteCounts(id, r, now) /\ reviewVotes' = reviewVotes \cup {vote}
  BY Zenon DEF Vote
<1>3. log' = log \o <<cast>> \o (IF status = "pending" THEN <<>> ELSE <<decided>>)
  BY Zenon DEF Vote, Outcome
<1>4. /\ log \in Seq(AuditEvents) /\ id \in Ids
      /\ reviews[id].status = "pending" /\ reviews[id].contract \in Contracts
      /\ r \in reviews[id].contract.reviewers
      /\ \A v \in reviewVotes : v.review = id => v.reviewer # r
  <2>1. reviews \in [1 .. Len(reviews) -> ReviewRows] /\ Len(reviews) \in Nat
        /\ DOMAIN reviews = 1 .. Len(reviews)
    BY LenProperties DEF TablesInv, ReviewTypeOK
  <2> QED
    BY <1>2, <2>1, ReviewAssumption
    DEF TablesInv, ReviewTypeOK, VoteCounts, Open, Ids, ReviewRows
<1>5. status \in {"approved", "rejected", "pending"} /\ (d = "rejected" => status = "rejected")
  BY DEF Outcome
<1>6. cast \in AuditEvents /\ (status # "pending" => decided \in AuditEvents)
  <2> HIDE DEF status
  <2> QED
    BY <1>4, <1>5 DEF AuditEvents
<1>7. /\ cast.kind = "vote_recorded" /\ cast.review = id
      /\ cast.reviewer = r /\ cast.decision = d
      /\ decided.kind = "review_decided" /\ decided.review = id /\ decided.status = status
      /\ vote.review = id /\ vote.reviewer = r /\ vote.decision = d
  OBVIOUS
<1>8. /\ CastOn(id) = VotesOn(reviewVotes, id)
      /\ \A v \in CastOn(id) : v.decision = "approved"
      /\ IsFiniteSet(CastOn(id)) /\ Cardinality(CastOn(id)) \in Nat
      /\ quorum \in Nat /\ Cardinality(CastOn(id)) < quorum
      /\ Cardinality(told) = Cardinality(CastOn(id))
  <2>1. CastOn(id) = VotesOn(reviewVotes, id)
    BY DEF CastOn, VotesOn
  <2>2. CastOn(id) = Approvals(id) /\ Cardinality(CastOn(id)) < quorum
    BY <1>4 DEF TablesInv, QuorumsDecide
  <2>3. IsFiniteSet(CastOn(id)) /\ Cardinality(CastOn(id)) \in Nat
    <3>1. CastOn(id) \in SUBSET reviewVotes /\ IsFiniteSet(reviewVotes)
      BY DEF CastOn, TablesInv, VotesFit
    <3> QED
      BY <3>1, FS_Subset, FS_CardinalityType
  <2>4. quorum \in Nat
    BY <1>4, QuorumIsPositive
  <2>5. Cardinality(told) = Cardinality(CastOn(id))
    BY <2>1 DEF TrailFits
  <2> QED
    BY <2>1, <2>2, <2>3, <2>4, <2>5 DEF Approvals
<1> HIDE DEF status, cast, decided, vote, quorum
<1>9. MayFollow(log, cast)
  <2>1. StatusIn(log, id) = "pending"
    BY <1>4 DEF TrailFits
  <2>2. {j \in told : log[j].decision = "approved"} = told
    BY <1>8, ApprovalsTold
  <2>3. log[CHOOSE j \in Told(log, id, "submitted") : TRUE].contract = reviews[id].contract
    BY RulesKnown
  <2>4. \A j \in told : log[j].reviewer # r
    BY <1>4 DEF TrailFits, Told
  <2>5. Cardinality(told) < reviews[id].contract.quorum
    BY <1>8 DEF quorum
  <2> HIDE DEF told
  <2> QED
    BY <1>4, <1>7, <2>1, <2>2, <2>3, <2>4, <2>5 DEF MayFollow, told
<1>10. TrailFits(after, reviews, reviewVotes')
  <2>1. IsFiniteSet(VotesOn(reviewVotes, cast.review)) /\ cast.review \in DOMAIN reviews
    BY <1>7, <1>8
  <2> QED
    BY <1>1, <1>2, <1>6, <1>7, <1>9, <2>1, VoteFits
<1>11. CASE status = "pending"
  <2>1. log' = after
    BY <1>3, <1>4, <1>6, <1>11, AppendIsConcat, AppendProperties, ConcatEmptySeq
  <2> QED
    BY <1>1, <1>4, <1>10, <1>11, <2>1, FitsAlike
<1>12. CASE status # "pending"
  <2>1. after \in Seq(AuditEvents)
    BY <1>4, <1>6, AppendProperties
  <2>2. log' = Append(after, decided)
    BY <1>3, <1>4, <1>6, <1>12, <2>1, AppendIsConcat
  <2>3. MayFollow(after, decided)
    <3> DEFINE now_told == Told(after, id, "vote_recorded")
               yes == {j \in now_told : after[j].decision = "approved"}
    <3>1. StatusIn(after, id) = "pending"
      BY <1>4, <1>10 DEF TrailFits
    <3>2. now_told = told \cup {Len(log) + 1}
      BY <1>4, <1>6, <1>7, ToldAppend
    <3>3. Cardinality(now_told) = Cardinality(CastOn(id)) + 1
      <4>1. Cardinality(now_told) = Cardinality(VotesOn(reviewVotes', id))
        BY <1>10 DEF TrailFits
      <4>2. VotesOn(reviewVotes', id) = CastOn(id) \cup {vote} /\ vote \notin CastOn(id)
        BY <1>1, <1>2, <1>7 DEF VotesOn, CastOn
      <4>3. Cardinality(CastOn(id) \cup {vote}) = Cardinality(CastOn(id)) + 1
        BY <1>8, <4>2, FS_AddElement
      <4> QED
        BY <4>1, <4>2, <4>3
    <3>4. d = "approved" => yes = now_told
      <4>1. d = "approved" => \A v \in VotesOn(reviewVotes', id) : v.decision = "approved"
        BY <1>2, <1>7, <1>8 DEF VotesOn
      <4> HIDE DEF after
      <4> QED
        BY <1>10, <4>1, ApprovalsTold
    <3>5. d = "rejected" => yes # now_told
      <4>1. after[Len(log) + 1] = cast
        BY <1>4, <1>6, AppendProperties
      <4> HIDE DEF now_told, after
      <4> QED
        BY <1>7, <3>2, <4>1
    <3>6. after[CHOOSE j \in Told(after, id, "submitted") : TRUE].contract = reviews[id].contract
      <4> HIDE DEF after
      <4> QED
        BY <1>10, RulesKnown
    <3>7. /\ status = "approved" <=> yes = now_told
          /\ status = "approved" => Cardinality(yes) = quorum
      <4> HIDE DEF yes, now_told
      <4> QED
        BY <1>1, <1>5, <1>8, <1>12, <3>3, <3>4, <3>5
    <3>8. yes = {j \in now_told : after[j].decision = "approved"}
      OBVIOUS
    <3> HIDE DEF now_told, after, yes
    <3> QED
      BY <1>7, <3>1, <3>6, <3>7, <3>8 DEF MayFollow, now_told, yes, quorum
  <2>4. decided.kind \notin Silent \cup {"submitted"} /\ StatusOf(decided) = status
    BY <1>7 DEF Silent, StatusOf
  <2>5. \A i \in DOMAIN reviews :
           /\ reviews'[i].contract = reviews[i].contract
           /\ reviews'[i].status = IF i = decided.review THEN StatusOf(decided)
                                   ELSE reviews[i].status
    BY <1>1, <1>7, <2>4
  <2> HIDE DEF after
  <2>6. decided \in AuditEvents /\ decided.review \in DOMAIN reviews
    BY <1>6, <1>7, <1>12
  <2>7. TrailFits(Append(after, decided), reviews', reviewVotes')
    BY <1>1, <1>10, <2>3, <2>4, <2>5, <2>6, MarkFits
  <2> QED
    BY <2>2, <2>7
<1> QED
  BY <1>11, <1>12

\* One review at most gives way to a submission.
LEMMA OneGivesWay ==
    ASSUME TablesInv, NEW k \in Key, NEW latest \in 0 .. Len(reviews), NEW now,
           NEW i \in ActiveReviews(SeenRows(latest, now), k),
           NEW j \in ActiveReviews(SeenRows(latest, now), k)
    PROVE  i = j
<1>1. ReviewTypeOK
  BY DEF TablesInv
<1>2. \A l \in ActiveReviews(SeenRows(latest, now), k) :
         /\ l \in DOMAIN reviews /\ reviews[l].key = k
         /\ reviews[l].status \in {"pending", "approved"}
  BY <1>1, SeenRowsFit DEF ActiveReviews, SameTerms
<1> QED
  BY <1>2 DEF TablesInv, OneActiveReview

\* A review that was looked at may have expired.
LEMMA RefreshLog ==
    ASSUME ReviewTypeOK, TrailFits(log, reviews, reviewVotes),
           NEW id \in DOMAIN reviews, NEW now
    PROVE  TrailFits(log \o ExpiryOf(id, now), Refreshed(id, now), reviewVotes)
<1> DEFINE gone == [kind |-> "expired", review |-> id]
<1>1. log \in Seq(AuditEvents) /\ id \in Ids
  BY LenProperties, ReviewAssumption DEF ReviewTypeOK, Ids
<1>2. CASE ~Due(reviews[id], now)
  BY <1>1, <1>2, ConcatEmptySeq DEF Refreshed, ExpiryOf
<1>3. CASE Due(reviews[id], now)
  <2>1. gone \in AuditEvents /\ gone.kind = "expired" /\ gone.review = id
    BY <1>1 DEF AuditEvents
  <2>2. log \o ExpiryOf(id, now) = Append(log, gone)
    BY <1>1, <1>3, <2>1, AppendIsConcat DEF ExpiryOf
  <2> HIDE DEF gone
  <2>3. StatusOf(gone) = "expired" /\ gone.kind \notin Silent \cup {"submitted"}
    BY <2>1 DEF StatusOf, Silent
  <2>4. StatusIn(log, id) = "pending"
    BY <1>3 DEF TrailFits, Due
  <2>5. MayFollow(log, gone)
    BY <2>1, <2>4, Zenon DEF MayFollow
  <2>6. DOMAIN Refreshed(id, now) = DOMAIN reviews
    BY RefreshedRows, LenProperties DEF ReviewTypeOK
  <2>7. \A i \in DOMAIN reviews :
           /\ Refreshed(id, now)[i].contract = reviews[i].contract
           /\ Refreshed(id, now)[i].status = IF i = gone.review THEN StatusOf(gone)
                                            ELSE reviews[i].status
    BY <1>3, <2>1, <2>3, RefreshedRows DEF SameTerms
  <2> QED
    BY <2>1, <2>2, <2>3, <2>5, <2>6, <2>7, MarkFits
<1> QED
  BY <1>2, <1>3

\* So may what a submission appends: the expiry it found, the review that gives way
\* and the new one.
LEMMA SubmitLog ==
    ASSUME TablesInv, TrailFits(log, reviews, reviewVotes),
           NEW k \in Key, NEW d \in Digest, NEW c \in Contracts,
           NEW t \in Lifetimes, NEW now \in 0 .. clock, NEW latest \in 0 .. Len(reviews),
           Submit(k, d, c, t, now, latest)
    PROVE  TrailFits(log', reviews', reviewVotes')
<1> DEFINE rows == SeenRows(latest, now)
           expiry == IF latest = 0 THEN <<>> ELSE ExpiryOf(latest, now)
           active == ActiveReviews(rows, k)
           id == Len(reviews) + 1
           gone(i) == [kind |-> "superseded", review |-> i, by |-> id]
           sub == [kind |-> "submitted", review |-> id, digest |-> d, contract |-> c]
           seen == log \o expiry
           between == [i \in DOMAIN reviews |-> reviews'[i]]
<1>1. /\ ReviewTypeOK /\ log \in Seq(AuditEvents)
      /\ Len(reviews) \in Nat /\ DOMAIN reviews = 1 .. Len(reviews)
      /\ id <= MaxReviews /\ UNCHANGED reviewVotes
  <2>1. id <= MaxReviews /\ UNCHANGED reviewVotes
    BY Zenon DEF Submit
  <2> QED
    BY <2>1, LenProperties DEF TablesInv, ReviewTypeOK
<1>2. PICK order \in [1 .. Cardinality(active) -> active] :
         log' = log \o expiry \o [n \in DOMAIN order |-> gone(order[n])] \o <<sub>>
  BY Zenon DEF Submit, SeenRows
<1> DEFINE ways == [n \in DOMAIN order |-> gone(order[n])]
<1>3. /\ RowsAge
      /\ DOMAIN reviews' = DOMAIN reviews \cup {id}
      /\ reviews'[id].status = "pending" /\ reviews'[id].contract = c
      /\ \A i \in DOMAIN reviews :
            reviews'[i].status = IF i \in active THEN "superseded" ELSE rows[i].status
  <2>1. Len(reviews') = id /\ RowsAge /\ DOMAIN reviews' = DOMAIN reviews \cup {id}
    BY <1>1, SubmitRows
  <2>2. reviews'[id] = [key |-> k, digest |-> d, contract |-> c, status |-> "pending",
                        created |-> now, expires |-> ExpiresAt(now, t), supersededBy |-> 0]
    BY <1>1, <2>1, SubmitRows
  <2>3. \A i \in DOMAIN reviews :
           reviews'[i].status = IF i \in active THEN "superseded" ELSE rows[i].status
    BY <1>1, SubmitRows, Zenon
  <2> QED
    BY <2>1, <2>2, <2>3
<1>4. /\ DOMAIN rows = DOMAIN reviews
      /\ \A i \in DOMAIN reviews : rows[i].contract = reviews[i].contract
  BY <1>1, SeenRowsFit DEF SameTerms
<1>5. /\ \A i \in active : i \in DOMAIN reviews /\ rows[i].status \in {"pending", "approved"}
      /\ \A i, j \in active : i = j
  <2>1. \A i, j \in active : i = j
    BY OneGivesWay
  <2> HIDE DEF rows
  <2> QED
    BY <1>4, <2>1 DEF ActiveReviews
<1>6. TrailFits(seen, rows, reviewVotes)
  <2>1. CASE latest = 0
    BY <1>1, <2>1, ConcatEmptySeq DEF SeenRows
  <2>2. CASE latest # 0
    BY <1>1, <2>2, RefreshLog DEF SeenRows
  <2> QED
    BY <2>1, <2>2
<1>7. \A i \in DOMAIN reviews : gone(i) \in AuditEvents
  <2>1. ASSUME NEW i \in DOMAIN reviews
        PROVE  i \in Ids /\ id \in 0 .. MaxReviews
    BY <1>1, ReviewAssumption DEF Ids
  <2> HIDE DEF id
  <2> QED
    BY <2>1 DEF AuditEvents
<1>8. sub \in AuditEvents
  <2>1. id \in Ids
    BY <1>1, ReviewAssumption DEF Ids
  <2> HIDE DEF id
  <2> QED
    BY <2>1 DEF AuditEvents
<1>9. /\ sub.kind = "submitted" /\ sub.review = id /\ sub.contract = c
      /\ \A i : gone(i).kind = "superseded" /\ gone(i).review = i
  OBVIOUS
<1>10. id \notin DOMAIN reviews
  BY <1>1
<1>11. seen \in Seq(AuditEvents)
  BY <1>6 DEF TrailFits
<1> HIDE DEF rows, seen, gone, sub, active, expiry, id
<1>12. TrailFits(seen \o ways, between, reviewVotes) /\ ways \in Seq(AuditEvents)
  <2>1. /\ DOMAIN between = DOMAIN rows
        /\ \A i \in DOMAIN reviews :
              /\ between[i].contract = rows[i].contract
              /\ between[i].status = IF i \in active THEN "superseded" ELSE rows[i].status
    BY <1>3, <1>4 DEF RowsAge, SameTerms
  <2> HIDE DEF between
  <2>2. CASE active = {}
    <3>1. DOMAIN order = 1 .. 0
      BY <2>2, FS_EmptySet
    <3>2. ways \in [1 .. 0 -> AuditEvents]
      BY <3>1
    <3>3. ways \in Seq(AuditEvents)
      BY <3>2, SeqDef
    <3>4. Len(ways) = 0
      BY <3>1, <3>3, LenProperties
    <3>5. ways = <<>>
      BY <3>3, <3>4, EmptySeq
    <3>6. seen \o ways = seen
      BY <1>11, <3>5, ConcatEmptySeq
    <3>7. TrailFits(seen, between, reviewVotes)
      BY <1>4, <1>6, <2>1, <2>2, FitsAlike
    <3> QED
      BY <3>3, <3>6, <3>7
  <2>3. ASSUME NEW a \in active
        PROVE  TrailFits(seen \o ways, between, reviewVotes) /\ ways \in Seq(AuditEvents)
    <3>1. active = {a}
      BY <1>5
    <3>2. DOMAIN order = 1 .. 1 /\ order[1] = a
      <4>1. Cardinality(active) = 1
        BY <3>1, FS_Singleton
      <4>2. order \in [1 .. 1 -> active]
        BY <4>1
      <4>3. 1 \in 1 .. 1
        OBVIOUS
      <4>4. DOMAIN order = 1 .. 1 /\ order[1] \in active
        BY <4>2, <4>3, Zenon
      <4> QED
        BY <3>1, <4>4, Zenon
    <3>3. /\ a \in DOMAIN reviews /\ gone(a) \in AuditEvents
          /\ gone(a).kind = "superseded" /\ gone(a).review = a
      BY <1>5, <1>7, <1>9
    <3>4. ways = <<gone(a)>> /\ <<gone(a)>> \in Seq(AuditEvents)
      <4>1. ways = [n \in 1 .. 1 |-> gone(a)]
        BY <3>2
      <4>2. ways \in Seq(AuditEvents) /\ DOMAIN ways = 1 .. 1
        <5>1. ways \in [1 .. 1 -> AuditEvents] /\ DOMAIN ways = 1 .. 1
          BY <3>3, <4>1, Zenon
        <5> HIDE DEF ways
        <5> QED
          BY <5>1, SeqDef
      <4>3. /\ <<gone(a)>> \in Seq(AuditEvents) /\ Len(<<gone(a)>>) = 1
            /\ <<gone(a)>>[1] = gone(a)
        BY <3>3
      <4>4. \A n \in 1 .. 1 : ways[n] = gone(a)
        BY <4>1, Zenon
      <4>5. Len(ways) = 1
        <5> HIDE DEF ways
        <5> QED
          BY <4>2, LenProperties
      <4>6. \A n \in 1 .. Len(ways) : ways[n] = <<gone(a)>>[n]
        <5> HIDE DEF ways
        <5> QED
          BY <4>3, <4>5, <4>4
      <4> HIDE DEF ways
      <4> QED
        BY <4>2, <4>3, <4>5, <4>6, SeqEqual
    <3>5. StatusOf(gone(a)) = "superseded" /\ gone(a).kind \notin Silent \cup {"submitted"}
      BY <3>3 DEF StatusOf, Silent
    <3>6. MayFollow(seen, gone(a))
      <4>1. StatusIn(seen, a) \in {"pending", "approved"}
        BY <1>4, <1>5, <1>6, <3>3 DEF TrailFits
      <4> QED
        BY <3>3, <4>1 DEF MayFollow
    <3>7. \A i \in DOMAIN rows :
             /\ between[i].contract = rows[i].contract
             /\ between[i].status = IF i = gone(a).review THEN StatusOf(gone(a))
                                    ELSE rows[i].status
      BY <1>4, <2>1, <3>1, <3>3, <3>5
    <3>8. TrailFits(Append(seen, gone(a)), between, reviewVotes)
      BY <1>4, <1>6, <2>1, <3>3, <3>5, <3>6, <3>7, MarkFits
    <3>9. seen \o ways = Append(seen, gone(a))
      BY <1>11, <3>4, <3>3, AppendIsConcat
    <3> HIDE DEF ways
    <3> QED
      BY <3>4, <3>3, <3>8, <3>9
  <2> QED
    BY <2>2, <2>3
<1>13. log' = Append(seen \o ways, sub)
  <2>1. seen \o ways \in Seq(AuditEvents)
    BY <1>11, <1>12, ConcatProperties
  <2>2. log' = seen \o ways \o <<sub>>
    BY <1>2 DEF seen, ways
  <2> QED
    BY <1>8, <2>1, <2>2, AppendIsConcat
<1>14. /\ DOMAIN between = DOMAIN reviews
       /\ \A i \in DOMAIN reviews :
             reviews'[i].contract = between[i].contract /\ reviews'[i].status = between[i].status
  OBVIOUS
<1> HIDE DEF between, ways
<1>15. VotesOn(reviewVotes, id) = {}
  BY <1>10 DEF TablesInv, VotesFit, VotesOn
<1>16. TrailFits(Append(seen \o ways, sub), reviews', reviewVotes)
  <2>1. /\ TrailFits(seen \o ways, between, reviewVotes)
        /\ sub \in AuditEvents /\ sub.review \notin DOMAIN between
        /\ sub.kind = "submitted" /\ VotesOn(reviewVotes, sub.review) = {}
    BY <1>8, <1>9, <1>10, <1>12, <1>14, <1>15
  <2>2. /\ DOMAIN reviews' = DOMAIN between \cup {sub.review}
        /\ reviews'[sub.review].contract = sub.contract
        /\ reviews'[sub.review].status = "pending"
        /\ \A i \in DOMAIN between :
              reviews'[i].contract = between[i].contract /\ reviews'[i].status = between[i].status
    BY <1>3, <1>9, <1>14
  <2> QED
    BY <2>1, <2>2, SubmittedFits
<1> QED
  BY <1>1, <1>13, <1>16

\* A review that is retired, decided or not.
LEMMA SupersedeRows ==
    ASSUME ReviewTypeOK, NEW id \in DOMAIN reviews, Supersede(id)
    PROVE  /\ reviews' \in Seq(ReviewRows) /\ Len(reviews') = Len(reviews)
           /\ DOMAIN reviews' = DOMAIN reviews
           /\ RowsAge
           /\ \A i \in DOMAIN reviews :
                 reviews'[i].status = IF i = id THEN "superseded" ELSE reviews[i].status
<1> DEFINE newRow == [reviews[id] EXCEPT !.status = "superseded", !.supersededBy = 0]
<1>1. /\ Len(reviews) \in Nat /\ DOMAIN reviews = 1 .. Len(reviews)
      /\ reviews \in Seq(ReviewRows) /\ reviews[id] \in ReviewRows
  BY LenProperties DEF ReviewTypeOK
<1>2. reviews' = [reviews EXCEPT ![id] = newRow]
  BY <1>1 DEF Supersede
<1>3. 0 \in 0 .. MaxReviews
  BY ReviewAssumption
<1>4. newRow \in ReviewRows /\ SameTerms(reviews[id], newRow) /\ newRow.status = "superseded"
  BY <1>1, <1>3, SupersededRow, Zenon
<1> HIDE DEF newRow
<1>5. /\ reviews' \in Seq(ReviewRows) /\ Len(reviews') = Len(reviews)
      /\ \A i \in 1 .. Len(reviews) : reviews'[i] = IF i = id THEN newRow ELSE reviews[i]
  BY <1>1, <1>2, <1>4, ExceptSeq
<1>6. DOMAIN reviews' = DOMAIN reviews
  BY <1>1, <1>5, LenProperties
<1> QED
  BY <1>1, <1>4, <1>5, <1>6 DEF RowsAge, SameTerms

-----------------------------------------------------------------------------
(* The release-review store: the invariant. *)

\* The inductive invariant: the tables are in order and the log bears them out.
ReviewInv == TablesInv /\ TrailFits(log, reviews, reviewVotes)

\* An empty store.
LEMMA InitReviewInv == ReviewInit => ReviewInv
<1> SUFFICES ASSUME ReviewInit
             PROVE  ReviewInv
  OBVIOUS
<1>1. /\ reviews = <<>> /\ log = <<>> /\ reviewVotes = {} /\ released = {} /\ clock = 0
      /\ DOMAIN reviews = {} /\ DOMAIN log = {} /\ Len(reviews) = 0
      /\ reviews \in Seq(ReviewRows) /\ log \in Seq(AuditEvents)
  BY DEF ReviewInit
<1>2. ReviewTypeOK
  BY <1>1, ReviewAssumption DEF ReviewTypeOK
<1>3. OneActiveReview /\ QuorumsDecide /\ ReleasesStand
  BY <1>1 DEF OneActiveReview, QuorumsDecide, ReleasesStand
<1>4. VotesFit
  BY <1>1, FS_EmptySet DEF VotesFit
<1>5. TrailFits(log, reviews, reviewVotes)
  BY <1>1 DEF TrailFits, Lawful
<1> QED
  BY <1>2, <1>3, <1>4, <1>5 DEF ReviewInv, TablesInv

\* What the log says of the tables' types.
LEMMA TrailTyped ==
    ASSUME TrailFits(log, reviews, reviewVotes)
    PROVE  log \in Seq(AuditEvents) /\ \A j \in DOMAIN log : log[j].review \in DOMAIN reviews
  BY DEF TrailFits

\* Every transaction keeps it.
LEMMA StepReviewInv == ReviewInv /\ [ReviewNext]_reviewVars => ReviewInv'
<1> SUFFICES ASSUME ReviewInv, [ReviewNext]_reviewVars
             PROVE  ReviewInv'
  OBVIOUS
<1>1. /\ TablesInv /\ ReviewTypeOK /\ TrailFits(log, reviews, reviewVotes)
      /\ Len(reviews) \in Nat /\ DOMAIN reviews = 1 .. Len(reviews)
      /\ clock \in 0 .. MaxTime /\ Len(reviews) <= MaxReviews
  BY LenProperties DEF ReviewInv, TablesInv, ReviewTypeOK
<1>2. CASE Tick
  <2>1. UNCHANGED <<reviews, reviewVotes, log, released>>
    BY <1>2 DEF Tick
  <2>2. clock' \in 0 .. MaxTime
    BY <1>1, <1>2, ReviewAssumption DEF Tick
  <2>3. ReviewTypeOK'
    BY <1>1, <2>1, <2>2 DEF ReviewTypeOK
  <2>4. OneActiveReview' /\ VotesFit' /\ QuorumsDecide' /\ ReleasesStand'
    BY <1>1, <2>1
    DEF TablesInv, OneActiveReview, VotesFit, QuorumsDecide, ReleasesStand, CastOn, Approvals
  <2> QED
    BY <1>1, <2>1, <2>3, <2>4 DEF ReviewInv, TablesInv
<1>3. ASSUME NEW k \in Key, NEW d \in Digest, NEW c \in Contracts, NEW t \in Lifetimes,
             NEW now \in 0 .. clock, NEW i \in 0 .. Len(reviews),
             Submit(k, d, c, t, now, i)
      PROVE  ReviewInv'
  <2>1. OneActiveReview' /\ VotesFit' /\ QuorumsDecide' /\ ReleasesStand'
        /\ \A j \in DOMAIN reviews' :
              reviews'[j].expires # Forever => reviews'[j].created < reviews'[j].expires
    BY <1>1, <1>3, SubmitTables
  <2>2. TrailFits(log', reviews', reviewVotes')
    BY <1>1, <1>3, SubmitLog
  <2>3. UNCHANGED <<clock, reviewVotes, released>>
    BY <1>3, Zenon DEF Submit
  <2>4. reviews' \in Seq(ReviewRows) /\ Len(reviews') <= MaxReviews
    BY <1>1, <1>3, SubmitRows
  <2>5. log' \in Seq(AuditEvents) /\ \A j \in DOMAIN log' : log'[j].review \in DOMAIN reviews'
    BY <2>2 DEF TrailFits
  <2>6. ReviewTypeOK'
    BY <1>1, <2>1, <2>3, <2>4, <2>5 DEF ReviewTypeOK
  <2> QED
    BY <2>1, <2>2, <2>6 DEF ReviewInv, TablesInv
<1>4. ASSUME NEW i \in DOMAIN reviews, NEW r \in Reviewer, NEW d \in {"approved", "rejected"},
             NEW now \in reviews[i].created .. clock,
             Vote(i, r, d, now)
      PROVE  ReviewInv'
  <2>1. /\ reviews' \in Seq(ReviewRows) /\ Len(reviews') = Len(reviews)
        /\ reviewVotes' \subseteq Votes
        /\ OneActiveReview' /\ VotesFit' /\ QuorumsDecide' /\ ReleasesStand'
        /\ \A j \in DOMAIN reviews' :
              reviews'[j].expires # Forever => reviews'[j].created < reviews'[j].expires
    BY <1>1, <1>4, VoteTables
  <2>2. TrailFits(log', reviews', reviewVotes')
    BY <1>1, <1>4, VoteLog
  <2>3. UNCHANGED <<clock, released>>
    BY <1>4, Zenon DEF Vote
  <2>4. log' \in Seq(AuditEvents) /\ \A j \in DOMAIN log' : log'[j].review \in DOMAIN reviews'
    BY <2>2 DEF TrailFits
  <2>5. ReviewTypeOK'
    BY <1>1, <2>1, <2>3, <2>4 DEF ReviewTypeOK
  <2> QED
    BY <2>1, <2>2, <2>5 DEF ReviewInv, TablesInv
<1>5. ASSUME NEW i \in Ids, NEW r \in Reviewer, Comment(i, r)
      PROVE  ReviewInv'
  <2> DEFINE said == [kind |-> "comment_added", review |-> i, reviewer |-> r]
  <2>1. /\ i \in DOMAIN reviews /\ log' = Append(log, said)
        /\ UNCHANGED <<clock, reviews, reviewVotes, released>>
    BY <1>5 DEF Comment
  <2>2. said \in AuditEvents /\ said.kind = "comment_added" /\ said.review = i
    BY DEF AuditEvents
  <2> HIDE DEF said
  <2>3. MayFollow(log, said)
    <3>1. StatusIn(log, i) # "none"
      <4>1. reviews[i] \in ReviewRows
        BY <1>1, <2>1, LenProperties DEF ReviewTypeOK
      <4> QED
        BY <1>1, <2>1, <4>1 DEF TrailFits, ReviewRows, Statuses
    <3> QED
      BY <2>2, <3>1, Zenon DEF MayFollow
  <2>4. TrailFits(log', reviews', reviewVotes')
    BY <1>1, <2>1, <2>2, <2>3, CommentFits
  <2>5. log' \in Seq(AuditEvents) /\ \A j \in DOMAIN log' : log'[j].review \in DOMAIN reviews'
    BY <2>4 DEF TrailFits
  <2>6. ReviewTypeOK'
    BY <1>1, <2>1, <2>5 DEF ReviewTypeOK
  <2>7. OneActiveReview' /\ VotesFit' /\ QuorumsDecide' /\ ReleasesStand'
    BY <1>1, <2>1
    DEF TablesInv, OneActiveReview, VotesFit, QuorumsDecide, ReleasesStand, CastOn, Approvals
  <2> QED
    BY <2>4, <2>6, <2>7 DEF ReviewInv, TablesInv
<1>6. ASSUME NEW i \in Ids, Supersede(i)
      PROVE  ReviewInv'
  <2> DEFINE gone == [kind |-> "superseded", review |-> i, by |-> 0]
  <2>1. /\ i \in DOMAIN reviews /\ log' = Append(log, gone)
        /\ reviews[i].status \notin {"superseded", "expired"}
        /\ UNCHANGED <<clock, reviewVotes, released>>
    BY <1>6 DEF Supersede
  <2>2. /\ reviews' \in Seq(ReviewRows) /\ Len(reviews') = Len(reviews)
        /\ DOMAIN reviews' = DOMAIN reviews /\ RowsAge
        /\ \A j \in DOMAIN reviews :
              reviews'[j].status = IF j = i THEN "superseded" ELSE reviews[j].status
    BY <1>1, <1>6, <2>1, SupersedeRows
  <2>3. /\ OneActiveReview' /\ VotesFit' /\ QuorumsDecide' /\ ReleasesStand'
        /\ \A j \in DOMAIN reviews' :
              reviews'[j].expires # Forever => reviews'[j].created < reviews'[j].expires
    BY <1>1, <2>1, <2>2, AgedTables
  <2>4. gone \in AuditEvents /\ gone.kind = "superseded" /\ gone.review = i
    <3>1. 0 \in 0 .. MaxReviews
      BY ReviewAssumption
    <3> QED
      BY <3>1 DEF AuditEvents
  <2> HIDE DEF gone
  <2>5. StatusOf(gone) = "superseded" /\ gone.kind \notin Silent \cup {"submitted"}
    BY <2>4 DEF StatusOf, Silent
  <2>6. MayFollow(log, gone)
    <3>1. StatusIn(log, i) \in {"pending", "approved", "rejected"}
      <4>1. reviews[i] \in ReviewRows
        BY <1>1, <2>1, LenProperties DEF ReviewTypeOK
      <4> QED
        BY <1>1, <2>1, <4>1 DEF TrailFits, ReviewRows, Statuses
    <3> QED
      BY <2>4, <3>1 DEF MayFollow
  <2>7. \A j \in DOMAIN reviews :
           /\ reviews'[j].contract = reviews[j].contract
           /\ reviews'[j].status = IF j = gone.review THEN StatusOf(gone) ELSE reviews[j].status
    BY <2>2, <2>4, <2>5 DEF RowsAge, SameTerms
  <2>8. TrailFits(log', reviews', reviewVotes')
    BY <1>1, <2>1, <2>2, <2>4, <2>5, <2>6, <2>7, MarkFits
  <2>9. log' \in Seq(AuditEvents) /\ \A j \in DOMAIN log' : log'[j].review \in DOMAIN reviews'
    BY <2>8 DEF TrailFits
  <2>10. ReviewTypeOK'
    BY <1>1, <2>1, <2>2, <2>3, <2>9 DEF ReviewTypeOK
  <2> QED
    BY <2>3, <2>8, <2>10 DEF ReviewInv, TablesInv
<1>7. ASSUME NEW i \in Ids, Refresh(i)
      PROVE  ReviewInv'
  <2>1. /\ i \in DOMAIN reviews /\ Due(reviews[i], clock)
        /\ reviews' = Refreshed(i, clock) /\ log' = log \o ExpiryOf(i, clock)
        /\ UNCHANGED <<clock, reviewVotes, released>>
    BY <1>7 DEF Refresh
  <2>2. /\ reviews' \in Seq(ReviewRows) /\ Len(reviews') = Len(reviews) /\ RowsAge
    <3>1. /\ reviews' \in Seq(ReviewRows) /\ Len(reviews') = Len(reviews)
          /\ \A j \in DOMAIN reviews :
                /\ SameTerms(reviews[j], reviews'[j])
                /\ reviews'[j].status = IF j = i /\ Due(reviews[i], clock) THEN "expired"
                                        ELSE reviews[j].status
      BY <1>1, <2>1, RefreshedRows
    <3>2. DOMAIN reviews' = DOMAIN reviews
      BY <1>1, <3>1, LenProperties
    <3> QED
      BY <2>1, <3>1, <3>2 DEF RowsAge, Due
  <2>3. /\ OneActiveReview' /\ VotesFit' /\ QuorumsDecide' /\ ReleasesStand'
        /\ \A j \in DOMAIN reviews' :
              reviews'[j].expires # Forever => reviews'[j].created < reviews'[j].expires
    BY <1>1, <2>1, <2>2, AgedTables
  <2>4. TrailFits(log', reviews', reviewVotes')
    BY <1>1, <2>1, RefreshLog
  <2>5. log' \in Seq(AuditEvents) /\ \A j \in DOMAIN log' : log'[j].review \in DOMAIN reviews'
    BY <2>4 DEF TrailFits
  <2>6. ReviewTypeOK'
    BY <1>1, <2>1, <2>2, <2>3, <2>5 DEF ReviewTypeOK
  <2> QED
    BY <2>3, <2>4, <2>6 DEF ReviewInv, TablesInv
<1>8. ASSUME NEW i \in Ids, NEW d \in Digest, Release(i, d)
      PROVE  ReviewInv'
  <2>1. /\ i \in DOMAIN reviews
        /\ reviews[i].status = "approved" /\ reviews[i].digest = d
        /\ released' = released \cup {[review |-> i, digest |-> d]}
        /\ UNCHANGED <<clock, reviews, reviewVotes, log>>
    BY <1>8 DEF Release, ValidFor
  <2>2. ReviewTypeOK'
    BY <1>1, <2>1 DEF ReviewTypeOK
  <2>3. OneActiveReview' /\ VotesFit' /\ QuorumsDecide'
    BY <1>1, <2>1
    DEF TablesInv, OneActiveReview, VotesFit, QuorumsDecide, CastOn, Approvals
  <2>4. ReleasesStand'
    <3>1. \A j : CastOn(j)' = CastOn(j) /\ Approvals(j)' = Approvals(j)
      BY <2>1 DEF CastOn, Approvals
    <3>2. CastOn(i) = Approvals(i) /\ Cardinality(CastOn(i)) >= reviews[i].contract.quorum
      BY <1>1, <2>1 DEF TablesInv, QuorumsDecide
    <3> QED
      BY <1>1, <2>1, <3>1, <3>2 DEF TablesInv, ReleasesStand
  <2> QED
    BY <1>1, <2>1, <2>2, <2>3, <2>4 DEF ReviewInv, TablesInv
<1>9. CASE UNCHANGED reviewVars
  <2>1. UNCHANGED <<clock, reviews, reviewVotes, log, released>>
    BY <1>9 DEF reviewVars
  <2>2. ReviewTypeOK'
    BY <1>1, <2>1 DEF ReviewTypeOK
  <2>3. OneActiveReview' /\ VotesFit' /\ QuorumsDecide' /\ ReleasesStand'
    BY <1>1, <2>1
    DEF TablesInv, OneActiveReview, VotesFit, QuorumsDecide, ReleasesStand, CastOn, Approvals
  <2> QED
    BY <1>1, <2>1, <2>2, <2>3 DEF ReviewInv, TablesInv
<1> QED
  BY <1>2, <1>3, <1>4, <1>5, <1>6, <1>7, <1>8, <1>9, Zenon DEF ReviewNext

\* What a release rests on, from the votes of its review.
LEMMA ReleasesBacked == ReviewInv => ReleaseIsBacked
<1> SUFFICES ASSUME ReviewInv, NEW x \in released
             PROVE  /\ reviews[x.review].digest = x.digest
                    /\ \A v \in CastOn(x.review) :
                          /\ v.decision = "approved"
                          /\ v.reviewer \in reviews[x.review].contract.reviewers
                          /\ reviews[x.review].expires # Forever =>
                                v.at < reviews[x.review].expires
                    /\ Cardinality({v.reviewer : v \in CastOn(x.review)})
                          >= reviews[x.review].contract.quorum
  BY DEF ReleaseIsBacked, CastOn
<1> DEFINE cast == CastOn(x.review)
           names == {v.reviewer : v \in cast}
           name == [v \in cast |-> v.reviewer]
<1>1. /\ reviews[x.review].digest = x.digest /\ cast = Approvals(x.review)
      /\ Cardinality(cast) >= reviews[x.review].contract.quorum
  BY DEF ReviewInv, TablesInv, ReleasesStand
<1>2. \A v \in cast : /\ v.decision = "approved"
                      /\ v.reviewer \in reviews[x.review].contract.reviewers
                      /\ reviews[x.review].expires # Forever => v.at < reviews[x.review].expires
  BY <1>1 DEF ReviewInv, TablesInv, VotesFit, CastOn, Approvals
<1>3. IsFiniteSet(cast)
  <2>1. cast \in SUBSET reviewVotes /\ IsFiniteSet(reviewVotes)
    BY DEF ReviewInv, TablesInv, VotesFit, CastOn
  <2> QED
    BY <2>1, FS_Subset, Zenon
<1>4. name \in Surjection(cast, names) /\ name \in Injection(cast, names)
  <2>1. \A v, w \in cast : v.reviewer = w.reviewer => v = w
    BY DEF ReviewInv, TablesInv, VotesFit, CastOn
  <2> HIDE DEF cast
  <2> QED
    BY <2>1 DEF Surjection, Injection, IsInjective
<1>5. Cardinality(names) = Cardinality(cast)
  <2> HIDE DEF cast, names, name
  <2> QED
    BY <1>3, <1>4, FS_Surjection
<1> QED
  BY <1>1, <1>2, <1>5

\* Rows, votes, events and releases stay of their kind, and no review expires at
\* its creation (submit).
THEOREM ReviewTyped == ReviewSpec => []ReviewTypeOK
<1>1. ReviewInv => ReviewTypeOK
  BY DEF ReviewInv, TablesInv
<1> QED
  BY InitReviewInv, StepReviewInv, <1>1, PTL DEF ReviewSpec

\* In whatever order submissions get the lock and whatever their clocks said, a key
\* has one review at most that is open or in force (submit).
THEOREM OneReviewActive == ReviewSpec => []OneActiveReview
<1>1. ReviewInv => OneActiveReview
  BY DEF ReviewInv, TablesInv
<1> QED
  BY InitReviewInv, StepReviewInv, <1>1, PTL DEF ReviewSpec

\* Nothing is released (require_valid) that a quorum of different named reviewers has
\* not approved in time as exactly that content, with no vote against it.
THEOREM ReleasesAreBacked == ReviewSpec => []ReleaseIsBacked
  BY InitReviewInv, StepReviewInv, ReleasesBacked, PTL DEF ReviewSpec

\* The event log alone shows that every vote, decision, expiry and replacement was due,
\* and what it says of every status is what the table says (_append_event_locked).
THEOREM TrailIsLawful == ReviewSpec => []AuditTrailIsLawful
<1>1. ReviewInv => AuditTrailIsLawful
  BY DEF ReviewInv, TrailFits, Lawful, AuditTrailIsLawful
<1> QED
  BY InitReviewInv, StepReviewInv, <1>1, PTL DEF ReviewSpec
=============================================================================
