------------------------------ MODULE WhyLedger ------------------------------
(***************************************************************************)
(* The why ledger of a realm: every node chains the records it authors     *)
(* (memory.py) and merges the bundles of its peers, which arrive late,     *)
(* repeatedly, over relays, and several at a time (mesh.py, transport.py). *)
(* Disks are damaged, records are pruned, imports end half way.            *)
(*                                                                         *)
(* verify_chain, _last_seal and import_row look at the rows of one origin  *)
(* in insertion order, so a store is modelled as one sequence of rows per  *)
(* origin.  A seal is the sequence of the record IDs it was computed over. *)
(* Encryption, signatures, shared policies and the redaction overlay are   *)
(* left out.                                                               *)
(***************************************************************************)
EXTENDS Integers, Sequences

CONSTANTS
    Node,         \* the nodes, which are the origins of records
    Writer,       \* the processes that record, each on one node
    HostOf,       \* HostOf[w]: the node of writer w
    Import,       \* import_bundle calls under way: pulls, and pushes being served
    MaxRecords,   \* bound: records issued per origin
    MaxDamage     \* bound: damages and prunings together

ASSUME LedgerAssumption ==
    /\ HostOf \in [Writer -> Node]
    /\ "none" \notin Node
    /\ MaxRecords \in Nat /\ MaxDamage \in Nat

VARIABLES
    chain,     \* chain[n][o]: the rows of origin o in the store of node n
    issued,    \* issued[o]: the records origin o has authored
    writer,    \* writer[w]: the seal writer w has read and will chain to
    import,    \* import[i]: the bundle being merged and what is left of it
    merged,    \* merged[n][o]: the records of o in bundles n has merged to the end
    tainted,   \* origins with a damaged, pruned or forked row somewhere
    damaged,   \* nodes whose disk was damaged
    damage     \* number of damages and prunings

vars == <<chain, issued, writer, import, merged, tainted, damaged, damage>>

Seals == Seq(Nat)
Rows == [id : Nat, prev : Seals, ok : BOOLEAN]    \* ok: as it was sealed

NotReading == [pc |-> "idle", prev |-> <<>>]
NotMerging ==
    [to |-> "none", rest |-> [o \in Node |-> <<>>], ids |-> [o \in Node |-> {}]]

-----------------------------------------------------------------------------

SealOf(row) == Append(row.prev, row.id)

LastSeal(rows) == IF rows = <<>> THEN <<>> ELSE SealOf(rows[Len(rows)])

\* A variant that lists the newest first, as all does.
NewestFirst(rows) == [k \in DOMAIN rows |-> rows[Len(rows) + 1 - k]]

\* export_rows lists the oldest first, so that they can be appended as they come.
ExportRows(rows) == rows

Has(rows, id) == \E k \in 1 .. Len(rows) : rows[k].id = id

\* verify_chain, for one origin: every row is as sealed and chained to the row
\* before it, the first to nothing.
Verified(rows) ==
    \A k \in 1 .. Len(rows) :
        /\ rows[k].ok
        /\ rows[k].prev = IF k = 1 THEN <<>> ELSE SealOf(rows[k - 1])

\* A variant that trusts what members of the realm send.
Trusted(rows, row) == ~Has(rows, row.id)

\* A row of a bundle is added if it is new and its seal matches its payload.
Acceptable(rows, row) == ~Has(rows, row.id) /\ row.ok

-----------------------------------------------------------------------------

Init ==
    /\ chain = [n \in Node |-> [o \in Node |-> <<>>]]
    /\ issued = [o \in Node |-> 0]
    /\ writer = [w \in Writer |-> NotReading]
    /\ import = [i \in Import |-> NotMerging]
    /\ merged = [n \in Node |-> [o \in Node |-> {}]]
    /\ tainted = {}
    /\ damaged = {}
    /\ damage = 0

\* record reads the last seal of its origin outside of any transaction...
ReadSeal(w) ==
    LET n == HostOf[w]
    IN  /\ writer[w].pc = "idle"
        /\ issued[n] < MaxRecords
        /\ writer' = [writer EXCEPT ![w] = [pc |-> "read", prev |-> LastSeal(chain[n][n])]]
        /\ UNCHANGED <<chain, issued, import, merged, tainted, damaged, damage>>

\* ...and inserts the row that chains to it, which forks the chain if another
\* process has recorded in between.
InsertRow(w) ==
    LET n == HostOf[w]
        row == [id |-> issued[n] + 1, prev |-> writer[w].prev, ok |-> TRUE]
        forks == writer[w].prev # LastSeal(chain[n][n])
    IN  /\ writer[w].pc = "read"
        /\ issued[n] < MaxRecords
        /\ chain' = [chain EXCEPT ![n][n] = Append(@, row)]
        /\ issued' = [issued EXCEPT ![n] = @ + 1]
        /\ writer' = [writer EXCEPT ![w] = NotReading]
        /\ tainted' = IF forks THEN tainted \cup {n} ELSE tainted
        /\ UNCHANGED <<import, merged, damaged, damage>>

\* The process ends between the two.
WriterEnds(w) ==
    /\ writer[w].pc = "read"
    /\ writer' = [writer EXCEPT ![w] = NotReading]
    /\ UNCHANGED <<chain, issued, import, merged, tainted, damaged, damage>>

\* A bundle is exported, which reads the whole store of its node at once, and
\* will be merged at another node: pulled by it, or pushed to it.
BeginImport(i, from, to) ==
    /\ import[i] = NotMerging
    /\ from # to
    /\ import' = [import EXCEPT ![i] =
          [to |-> to, rest |-> [o \in Node |-> ExportRows(chain[from][o])],
           ids |-> [o \in Node |->
                      {chain[from][o][k].id : k \in {j \in 1 .. Len(chain[from][o]) :
                                                        chain[from][o][j].ok}}]]]
    /\ UNCHANGED <<chain, issued, writer, merged, tainted, damaged, damage>>

\* The next row of the bundle is merged, in a transaction of its own.
ImportRow(i, o) ==
    LET n == import[i].to
        row == import[i].rest[o][1]
    IN  /\ import[i].rest[o] # <<>>
        /\ chain' = IF Acceptable(chain[n][o], row)
                    THEN [chain EXCEPT ![n][o] = Append(@, row)] ELSE chain
        /\ import' = [import EXCEPT ![i].rest[o] = Tail(@)]
        /\ UNCHANGED <<issued, writer, merged, tainted, damaged, damage>>

\* A variant that takes the first known row for the end of what is new.
ImportUntilKnown(i) ==
    LET n == import[i].to
    IN  /\ import[i] # NotMerging
        /\ \A o \in {p \in Node : import[i].rest[p] # <<>>} :
              Has(chain[n][o], import[i].rest[o][1].id)
        /\ merged' = [merged EXCEPT ![n] = [o \in Node |-> @[o] \cup import[i].ids[o]]]
        /\ import' = [import EXCEPT ![i] = NotMerging]
        /\ UNCHANGED <<chain, issued, writer, tainted, damaged, damage>>

\* All rows have been looked at.
EndImport(i) ==
    LET n == import[i].to
    IN  /\ import[i] # NotMerging
        /\ \A o \in Node : import[i].rest[o] = <<>>
        /\ merged' = [merged EXCEPT ![n] = [o \in Node |-> @[o] \cup import[i].ids[o]]]
        /\ import' = [import EXCEPT ![i] = NotMerging]
        /\ UNCHANGED <<chain, issued, writer, tainted, damaged, damage>>

\* The peer is gone, or another import has just inserted the same record: the
\* rows merged so far stay.
AbortImport(i) ==
    /\ import[i] # NotMerging
    /\ import' = [import EXCEPT ![i] = NotMerging]
    /\ UNCHANGED <<chain, issued, writer, merged, tainted, damaged, damage>>

\* A stored row is altered behind the program's back.
DamageRow(n, o, k) ==
    /\ damage < MaxDamage
    /\ k \in 1 .. Len(chain[n][o])
    /\ chain' = [chain EXCEPT ![n][o][k].ok = FALSE]
    /\ tainted' = tainted \cup {o}
    /\ damaged' = damaged \cup {n}
    /\ damage' = damage + 1
    /\ UNCHANGED <<issued, writer, import, merged>>

\* The records older than a cutoff are deleted: of every origin the first ones.
Prune(n, cut) ==
    /\ damage < MaxDamage
    /\ \A o \in Node : cut[o] <= Len(chain[n][o])
    /\ chain' = [chain EXCEPT ![n] =
          [o \in Node |-> SubSeq(@[o], cut[o] + 1, Len(@[o]))]]
    /\ tainted' = tainted \cup {o \in Node : cut[o] > 0}
    /\ damage' = damage + 1
    /\ UNCHANGED <<issued, writer, import, merged, damaged>>

Next ==
    \/ \E w \in Writer : ReadSeal(w) \/ InsertRow(w) \/ WriterEnds(w)
    \/ \E i \in Import :
          \/ \E from, to \in Node : BeginImport(i, from, to)
          \/ \E o \in Node : ImportRow(i, o)
          \/ EndImport(i) \/ AbortImport(i)
    \/ \E n, o \in Node, k \in 1 .. MaxRecords : DamageRow(n, o, k)
    \/ \E n \in Node, cut \in [Node -> 0 .. MaxRecords] : Prune(n, cut)

Spec == Init /\ [][Next]_vars

-----------------------------------------------------------------------------

\* Types of the variables.
TypeOK ==
    /\ chain \in [Node -> [Node -> Seq(Rows)]]
    /\ issued \in [Node -> Nat]
    /\ writer \in [Writer -> [pc : {"idle", "read"}, prev : Seals]]
    /\ import \in [Import -> [to : Node \cup {"none"}, rest : [Node -> Seq(Rows)],
                              ids : [Node -> SUBSET Nat]]]
    /\ merged \in [Node -> [Node -> SUBSET Nat]]
    /\ tainted \subseteq Node
    /\ damaged \subseteq Node
    /\ damage \in Nat

\* Merging never breaks integrity (memory.py and mesh.py): however bundles are
\* relayed, delayed, repeated, interleaved and cut short, verify_chain passes for
\* every origin in every store, unless a row of that origin was damaged or pruned
\* somewhere or two processes of one node recorded at the same time.
ChainsBreakForCause ==
    \A n, o \in Node : o \notin tainted => Verified(chain[n][o])

\* A record that was altered in one store spreads to no other (import_bundle's
\* seal check): an altered row is found only where the disk was damaged.
AlterationsStayHome ==
    \A n, o \in Node : \A k \in 1 .. Len(chain[n][o]) :
        chain[n][o][k].ok \/ n \in damaged

\* A merge that ended is complete and final: the node holds every record that was
\* in the bundle, of origins nobody damaged, pruned or forked, whatever other
\* imports and writers did meanwhile.
MergesAreComplete ==
    \A n, o \in Node : o \notin tainted =>
        \A id \in merged[n][o] : Has(chain[n][o], id)
=============================================================================
