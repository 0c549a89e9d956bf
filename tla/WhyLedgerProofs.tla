-------------------------- MODULE WhyLedgerProofs --------------------------
(***************************************************************************)
(* Proofs about the why ledger, for every set of nodes, processes and      *)
(* imports and every number of records.                                    *)
(***************************************************************************)
EXTENDS WhyLedger, SequenceTheorems, TLAPS

\* Record k of an origin as its author seals it: chained to all before it.
Before(k) == [j \in 1 .. k - 1 |-> j]
Canon(k) == [id |-> k, prev |-> Before(k), ok |-> TRUE]

\* The rows of an origin nobody tainted are its records, from the first on, and
\* every one of them is in the store of the author.
Canonical(rows) == \A k \in 1 .. Len(rows) : rows[k] = Canon(k)
Sound(o) == o \notin tainted
StoresCanonical ==
    \A n, o \in Node : Sound(o) =>
        /\ Canonical(chain[n][o])
        /\ Len(chain[n][o]) <= issued[o]
AuthorHasAll == \A o \in Node : Sound(o) => Len(chain[o][o]) = issued[o]

\* What is left of a bundle continues, from record j on, what its receiver has.
Continues(i, o, j) ==
    LET rest == import[i].rest[o]
    IN  /\ j <= Len(chain[import[i].to][o])
        /\ j + Len(rest) <= issued[o]
        /\ \A k \in 1 .. Len(rest) : rest[k] = Canon(j + k)
        /\ import[i].ids[o] \subseteq 1 .. (j + Len(rest))
ImportsContinue ==
    \A i \in Import, o \in Node : import[i].to \in Node /\ Sound(o) =>
        \E j \in Nat : Continues(i, o, j)

\* The records merged to the end are the first ones of the store.
MergedIsPrefix ==
    \A n, o \in Node : Sound(o) => merged[n][o] \subseteq 1 .. Len(chain[n][o])

IInv ==
    /\ TypeOK
    /\ StoresCanonical
    /\ AuthorHasAll
    /\ ImportsContinue
    /\ MergedIsPrefix

-----------------------------------------------------------------------------
(* Seals. *)

LEMMA BeforeIsSeal == ASSUME NEW k \in Nat \ {0} PROVE Before(k) \in Seals
  <1>1. k - 1 \in Nat
    OBVIOUS
  <1>2. \A j \in 1 .. k - 1 : j \in Nat
    OBVIOUS
  <1> QED BY <1>1, <1>2, IsASeq DEF Before, Seals

LEMMA BeforeFirst == Before(1) = <<>>
  <1>1. Before(1) \in Seq(Nat) /\ Len(Before(1)) = 0
    <2>1. Before(1) \in Seq(Nat)
      BY BeforeIsSeal DEF Seals
    <2>2. DOMAIN Before(1) = 1 .. 0
      BY DEF Before
    <2> QED BY <2>1, <2>2, LenProperties
  <1> QED BY <1>1, EmptySeq

\* The seal of record k is what record k + 1 chains to.
LEMMA SealOfCanon ==
    ASSUME NEW k \in Nat \ {0}
    PROVE  SealOf(Canon(k)) = Before(k + 1)
  <1>1. Before(k) \in Seq(Nat) /\ Len(Before(k)) = k - 1
    <2>1. Before(k) \in Seq(Nat)
      BY BeforeIsSeal DEF Seals
    <2>2. DOMAIN Before(k) = 1 .. k - 1 /\ k - 1 \in Nat
      BY DEF Before
    <2> QED BY <2>1, <2>2, LenProperties
  <1>2. Append(Before(k), k) \in Seq(Nat) /\ Len(Append(Before(k), k)) = k
    BY <1>1, AppendProperties
  <1>3. \A j \in 1 .. k : Append(Before(k), k)[j] = j
    BY <1>1, AppendProperties DEF Before
  <1>4. Append(Before(k), k) = [j \in 1 .. k |-> j]
    BY <1>2, <1>3, LenProperties
  <1> QED BY <1>4 DEF SealOf, Canon, Before

LEMMA CanonIsRow == ASSUME NEW k \in Nat \ {0} PROVE Canon(k) \in Rows
  BY BeforeIsSeal DEF Canon, Rows

-----------------------------------------------------------------------------
(* Canonical rows. *)

LEMMA HasCanonical ==
    ASSUME NEW rows \in Seq(Rows), Canonical(rows), NEW id
    PROVE  Has(rows, id) <=> id \in 1 .. Len(rows)
  <1>1. Len(rows) \in Nat
    BY LenProperties
  <1>2. \A k \in 1 .. Len(rows) : rows[k].id = k
    <2>1. \A k : Canon(k).id = k
      BY DEF Canon
    <2> QED BY <2>1 DEF Canonical
  <1>3. ASSUME Has(rows, id) PROVE id \in 1 .. Len(rows)
    <2>1. PICK k \in 1 .. Len(rows) : rows[k].id = id
      BY <1>3 DEF Has
    <2> QED BY <1>2, <2>1
  <1>4. ASSUME id \in 1 .. Len(rows) PROVE Has(rows, id)
    <2>1. rows[id].id = id
      BY <1>2, <1>4
    <2> QED BY <1>4, <2>1 DEF Has
  <1> QED BY <1>3, <1>4

LEMMA LastOfCanonical ==
    ASSUME NEW rows \in Seq(Rows), Canonical(rows)
    PROVE  LastSeal(rows) = Before(Len(rows) + 1)
  <1>1. CASE rows = <<>>
    BY <1>1, BeforeFirst DEF LastSeal
  <1>2. CASE rows # <<>>
    <2>1. Len(rows) \in Nat \ {0}
      BY <1>2, LenProperties, EmptySeq
    <2>2. rows[Len(rows)] = Canon(Len(rows))
      BY <2>1 DEF Canonical
    <2> QED BY <1>2, <2>1, <2>2, SealOfCanon DEF LastSeal
  <1> QED BY <1>1, <1>2

LEMMA AppendCanonical ==
    ASSUME NEW rows \in Seq(Rows), Canonical(rows)
    PROVE  /\ Append(rows, Canon(Len(rows) + 1)) \in Seq(Rows)
           /\ Len(Append(rows, Canon(Len(rows) + 1))) = Len(rows) + 1
           /\ Canonical(Append(rows, Canon(Len(rows) + 1)))
  <1>1. Len(rows) \in Nat /\ Canon(Len(rows) + 1) \in Rows
    BY LenProperties, CanonIsRow
  <1> QED BY <1>1, AppendProperties DEF Canonical

LEMMA CanonicalIsVerified ==
    ASSUME NEW rows \in Seq(Rows), Canonical(rows)
    PROVE  Verified(rows)
  <1> SUFFICES ASSUME NEW k \in 1 .. Len(rows)
               PROVE  /\ rows[k].ok
                      /\ rows[k].prev = IF k = 1 THEN <<>> ELSE SealOf(rows[k - 1])
    BY DEF Verified
  <1>1. k \in Nat \ {0} /\ rows[k] = Canon(k)
    BY LenProperties DEF Canonical
  <1>2. rows[k].ok /\ rows[k].prev = Before(k)
    BY <1>1 DEF Canon
  <1>3. CASE k = 1
    BY <1>2, <1>3, BeforeFirst
  <1>4. CASE k # 1
    <2> DEFINE p == k - 1
    <2>1. p \in Nat \ {0} /\ p \in 1 .. Len(rows) /\ p + 1 = k
      BY <1>1, <1>4, LenProperties
    <2>2. rows[p] = Canon(p)
      BY <2>1 DEF Canonical
    <2>3. SealOf(Canon(p)) = Before(p + 1)
      <3> HIDE DEF p
      <3> QED BY <2>1, SealOfCanon
    <2>4. SealOf(rows[k - 1]) = Before(k)
      BY <2>1, <2>2, <2>3
    <2> QED BY <1>2, <1>4, <2>4
  <1> QED BY <1>3, <1>4

-----------------------------------------------------------------------------
(* Types. *)

LEMMA TypesOfBundle ==
    NotMerging \in [to : Node \cup {"none"}, rest : [Node -> Seq(Rows)],
                    ids : [Node -> SUBSET Nat]]
  BY EmptySeq DEF NotMerging

\* The seal a process reads is one.
LEMMA LastSealIsSeal ==
    ASSUME NEW rows \in Seq(Rows)
    PROVE  LastSeal(rows) \in Seals
  <1>1. CASE rows = <<>>
    BY <1>1, EmptySeq DEF LastSeal, Seals
  <1>2. CASE rows # <<>>
    <2>1. Len(rows) \in 1 .. Len(rows)
      BY <1>2, LenProperties, EmptySeq
    <2>2. rows[Len(rows)] \in Rows
      BY <2>1, ElementOfSeq
    <2> DEFINE row == rows[Len(rows)]
    <2>3. row.prev \in Seq(Nat) /\ row.id \in Nat
      BY <2>2 DEF Rows, Seals
    <2>4. Append(row.prev, row.id) \in Seq(Nat)
      BY <2>3, AppendProperties
    <2> QED BY <1>2, <2>4 DEF LastSeal, SealOf, Seals
  <1> QED BY <1>1, <1>2

LEMMA InitType == Init => TypeOK
  BY TypesOfBundle, EmptySeq, LedgerAssumption
  DEF Init, TypeOK, NotReading, Seals, LedgerAssumption

LEMMA NextType == TypeOK /\ [Next]_vars => TypeOK'
  <1> SUFFICES ASSUME TypeOK, [Next]_vars PROVE TypeOK'
    OBVIOUS
  <1> USE LedgerAssumption DEF LedgerAssumption
  <1>1. ASSUME NEW w \in Writer, ReadSeal(w) PROVE TypeOK'
    <2>1. LastSeal(chain[HostOf[w]][HostOf[w]]) \in Seals
      BY LastSealIsSeal DEF TypeOK
    <2>2. writer' \in [Writer -> [pc : {"idle", "read"}, prev : Seals]]
      BY <1>1, <2>1 DEF ReadSeal, TypeOK
    <2> QED BY <1>1, <2>2 DEF ReadSeal, TypeOK
  <1>2. ASSUME NEW w \in Writer, InsertRow(w) PROVE TypeOK'
    <2> DEFINE n == HostOf[w]
               row == [id |-> issued[n] + 1, prev |-> writer[w].prev, ok |-> TRUE]
    <2>1. n \in Node /\ row \in Rows
      BY DEF TypeOK, Rows
    <2>2. chain[n][n] \in Seq(Rows) /\ chain[n] \in [Node -> Seq(Rows)]
      BY <2>1 DEF TypeOK
    <2>3. Append(chain[n][n], row) \in Seq(Rows)
      BY <2>1, <2>2, AppendProperties
    <2>4. chain' = [chain EXCEPT ![n][n] = Append(chain[n][n], row)]
      BY <1>2 DEF InsertRow
    <2>5. chain' \in [Node -> [Node -> Seq(Rows)]]
      <3> HIDE DEF row, n
      <3> QED BY <2>1, <2>2, <2>3, <2>4 DEF TypeOK
    <2>6. issued' \in [Node -> Nat]
      BY <1>2, <2>1 DEF InsertRow, TypeOK
    <2>7. writer' \in [Writer -> [pc : {"idle", "read"}, prev : Seals]]
      BY <1>2, EmptySeq DEF InsertRow, TypeOK, NotReading, Seals
    <2>8. tainted' \subseteq Node
      BY <1>2, <2>1 DEF InsertRow, TypeOK
    <2> QED BY <1>2, <2>5, <2>6, <2>7, <2>8 DEF InsertRow, TypeOK
  <1>3. ASSUME NEW w \in Writer, WriterEnds(w) PROVE TypeOK'
    BY <1>3, EmptySeq DEF WriterEnds, TypeOK, NotReading, Seals
  <1>4. ASSUME NEW i \in Import, NEW from \in Node, NEW to \in Node,
               BeginImport(i, from, to)
        PROVE  TypeOK'
    <2> DEFINE rest == [o \in Node |-> ExportRows(chain[from][o])]
               ids == [o \in Node |->
                         {chain[from][o][k].id : k \in {j \in 1 .. Len(chain[from][o]) :
                                                           chain[from][o][j].ok}}]
    <2>1. rest \in [Node -> Seq(Rows)]
      BY DEF TypeOK, ExportRows
    <2>2. ids \in [Node -> SUBSET Nat]
      <3>1. ASSUME NEW o \in Node, NEW k \in 1 .. Len(chain[from][o])
            PROVE  chain[from][o][k].id \in Nat
        <4>1. chain[from][o] \in Seq(Rows)
          BY DEF TypeOK
        <4>2. chain[from][o][k] \in Rows
          BY <4>1, ElementOfSeq
        <4> QED BY <4>2 DEF Rows
      <3> QED BY <3>1
    <2>3. import' = [import EXCEPT ![i] = [to |-> to, rest |-> rest, ids |-> ids]]
      BY <1>4 DEF BeginImport
    <2>4. import' \in [Import -> [to : Node \cup {"none"}, rest : [Node -> Seq(Rows)],
                                  ids : [Node -> SUBSET Nat]]]
      <3> HIDE DEF rest, ids
      <3> QED BY <2>1, <2>2, <2>3 DEF TypeOK
    <2> QED BY <1>4, <2>4 DEF BeginImport, TypeOK
  <1>5. ASSUME NEW i \in Import, NEW o \in Node, ImportRow(i, o)
        PROVE  TypeOK'
    <2> DEFINE n == import[i].to
               rest == import[i].rest[o]
    <2>1. rest \in Seq(Rows) /\ rest # <<>>
      BY <1>5 DEF ImportRow, TypeOK
    <2>2. rest[1] \in Rows /\ Tail(rest) \in Seq(Rows)
      <3> HIDE DEF rest
      <3>1. 1 \in 1 .. Len(rest)
        BY <2>1, LenProperties, EmptySeq
      <3> QED BY <2>1, <3>1, ElementOfSeq, HeadTailProperties
    <2>3. chain' \in [Node -> [Node -> Seq(Rows)]]
      <3>1. CASE n \in Node /\ Acceptable(chain[n][o], rest[1])
        <4>1. chain' = [chain EXCEPT ![n][o] = Append(chain[n][o], rest[1])]
          BY <1>5, <3>1 DEF ImportRow
        <4>2. chain[n][o] \in Seq(Rows) /\ chain[n] \in [Node -> Seq(Rows)]
          BY <3>1 DEF TypeOK
        <4>3. Append(chain[n][o], rest[1]) \in Seq(Rows)
          BY <2>2, <4>2, AppendProperties
        <4> HIDE DEF rest, n
        <4> QED BY <3>1, <4>1, <4>2, <4>3 DEF TypeOK
      <3>2. CASE ~Acceptable(chain[n][o], rest[1])
        BY <1>5, <3>2 DEF ImportRow, TypeOK
      <3>3. CASE n \notin Node
        BY <1>5, <3>3 DEF ImportRow, TypeOK
      <3> QED BY <3>1, <3>2, <3>3
    <2>4. import' = [import EXCEPT ![i].rest[o] = Tail(rest)]
      BY <1>5 DEF ImportRow
    <2>5. import' \in [Import -> [to : Node \cup {"none"}, rest : [Node -> Seq(Rows)],
                                  ids : [Node -> SUBSET Nat]]]
      <3> HIDE DEF rest
      <3> QED BY <2>2, <2>4 DEF TypeOK
    <2> QED BY <1>5, <2>3, <2>5 DEF ImportRow, TypeOK
  <1>6. ASSUME NEW i \in Import, EndImport(i) PROVE TypeOK'
    <2> DEFINE n == import[i].to
    <2>1. merged' = [merged EXCEPT ![n] = [o \in Node |-> merged[n][o] \cup import[i].ids[o]]]
      BY <1>6 DEF EndImport
    <2>2. merged' \in [Node -> [Node -> SUBSET Nat]]
      <3>1. CASE n \in Node
        BY <2>1, <3>1 DEF TypeOK
      <3>2. CASE n \notin Node
        <4>1. merged' = merged
          BY <2>1, <3>2 DEF TypeOK
        <4> QED BY <4>1 DEF TypeOK
      <3> QED BY <3>1, <3>2
    <2>3. import' \in [Import -> [to : Node \cup {"none"}, rest : [Node -> Seq(Rows)],
                                  ids : [Node -> SUBSET Nat]]]
      BY <1>6, TypesOfBundle DEF EndImport, TypeOK
    <2> QED BY <1>6, <2>2, <2>3 DEF EndImport, TypeOK
  <1>7. ASSUME NEW i \in Import, AbortImport(i) PROVE TypeOK'
    BY <1>7, TypesOfBundle DEF AbortImport, TypeOK
  <1>8. ASSUME NEW n \in Node, NEW o \in Node, NEW k \in 1 .. MaxRecords, DamageRow(n, o, k)
        PROVE  TypeOK'
    <2>1. chain[n][o] \in Seq(Rows) /\ k \in 1 .. Len(chain[n][o])
      BY <1>8 DEF DamageRow, TypeOK
    <2>2. [chain[n][o][k] EXCEPT !.ok = FALSE] \in Rows
      <3>1. chain[n][o][k] \in Rows
        BY <2>1, ElementOfSeq
      <3> QED BY <3>1 DEF Rows
    <2>3. [chain[n][o] EXCEPT ![k] = [chain[n][o][k] EXCEPT !.ok = FALSE]] \in Seq(Rows)
      BY <2>1, <2>2, ExceptSeq
    <2>4. chain' = [chain EXCEPT ![n] = [chain[n] EXCEPT ![o] =
                      [chain[n][o] EXCEPT ![k] = [chain[n][o][k] EXCEPT !.ok = FALSE]]]]
      BY <1>8 DEF DamageRow, TypeOK
    <2>5. chain' \in [Node -> [Node -> Seq(Rows)]]
      BY <2>3, <2>4 DEF TypeOK
    <2> QED BY <1>8, <2>5 DEF DamageRow, TypeOK
  <1>9. ASSUME NEW n \in Node, NEW cut \in [Node -> 0 .. MaxRecords], Prune(n, cut)
        PROVE  TypeOK'
    <2>1. chain' = [chain EXCEPT ![n] =
                      [o \in Node |-> SubSeq(chain[n][o], cut[o] + 1, Len(chain[n][o]))]]
      BY <1>9 DEF Prune
    <2>2. ASSUME NEW o \in Node
          PROVE  SubSeq(chain[n][o], cut[o] + 1, Len(chain[n][o])) \in Seq(Rows)
      <3>1. chain[n][o] \in Seq(Rows) /\ cut[o] \in Nat
        BY DEF TypeOK
      <3>2. \A j \in cut[o] + 1 .. Len(chain[n][o]) : chain[n][o][j] \in Rows
        BY <3>1, ElementOfSeq
      <3> QED BY <3>1, <3>2, LenProperties, SubSeqProperties
    <2>3. chain' \in [Node -> [Node -> Seq(Rows)]]
      BY <2>1, <2>2 DEF TypeOK
    <2> QED BY <1>9, <2>3 DEF Prune, TypeOK
  <1>10. CASE UNCHANGED vars
    BY <1>10 DEF vars, TypeOK
  <1> QED
    BY <1>1, <1>2, <1>3, <1>4, <1>5, <1>6, <1>7, <1>8, <1>9, <1>10 DEF Next

-----------------------------------------------------------------------------
(* The invariant. *)

LEMMA InitInv == Init => IInv
  <1> SUFFICES ASSUME Init PROVE IInv
    OBVIOUS
  <1>1. TypeOK
    BY InitType
  <1>2. \A n, o \in Node : chain[n][o] = <<>> /\ issued[o] = 0 /\ merged[n][o] = {}
    BY DEF Init
  <1>3. Len(<<>>) = 0
    BY EmptySeq
  <1>4. \A i \in Import : import[i].to = "none"
    BY DEF Init, NotMerging
  <1> QED
    BY <1>1, <1>2, <1>3, <1>4, LedgerAssumption
    DEF IInv, StoresCanonical, Canonical, AuthorHasAll, ImportsContinue, MergedIsPrefix,
        LedgerAssumption

\* What continues a store still does when the store and the origin grow.
LEMMA ContinuesWhileGrowing ==
    ASSUME TypeOK, TypeOK', NEW i \in Import, NEW o \in Node, NEW j \in Nat,
           Continues(i, o, j), import[i].to \in Node,
           import'[i].to = import[i].to, import'[i].rest[o] = import[i].rest[o],
           import'[i].ids[o] = import[i].ids[o],
           Len(chain[import[i].to][o]) <= Len(chain'[import[i].to][o]),
           issued[o] <= issued'[o]
    PROVE  Continues(i, o, j)'
  <1>1. chain[import[i].to][o] \in Seq(Rows) /\ chain'[import[i].to][o] \in Seq(Rows)
        /\ issued[o] \in Nat /\ issued'[o] \in Nat /\ import[i].rest[o] \in Seq(Rows)
    BY DEF TypeOK
  <1>2. Len(chain[import[i].to][o]) \in Nat /\ Len(chain'[import[i].to][o]) \in Nat
        /\ Len(import[i].rest[o]) \in Nat
    BY <1>1, LenProperties
  <1>3. j <= Len(chain'[import[i].to][o]) /\ j + Len(import[i].rest[o]) <= issued'[o]
    <2>1. j <= Len(chain[import[i].to][o]) /\ j + Len(import[i].rest[o]) <= issued[o]
      BY DEF Continues
    <2> DEFINE a == Len(chain[import[i].to][o])
               b == Len(chain'[import[i].to][o])
               c == Len(import[i].rest[o])
               p == issued[o]
               q == issued'[o]
    <2>2. a \in Nat /\ b \in Nat /\ c \in Nat /\ p \in Nat /\ q \in Nat
      BY <1>1, <1>2
    <2>3. j <= a /\ a <= b /\ j + c <= p /\ p <= q
      BY <2>1
    <2>4. j <= b /\ j + c <= q
      <3> HIDE DEF a, b, c, p, q
      <3> QED BY <2>2, <2>3
    <2> QED BY <2>4
  <1>4. /\ \A k \in 1 .. Len(import[i].rest[o]) : import[i].rest[o][k] = Canon(j + k)
        /\ import[i].ids[o] \subseteq 1 .. (j + Len(import[i].rest[o]))
    BY DEF Continues
  <1>5. Continues(i, o, j)' =
          /\ j <= Len(chain'[import'[i].to][o])
          /\ j + Len(import'[i].rest[o]) <= issued'[o]
          /\ \A k \in 1 .. Len(import'[i].rest[o]) : import'[i].rest[o][k] = Canon(j + k)
          /\ import'[i].ids[o] \subseteq 1 .. (j + Len(import'[i].rest[o]))
    BY DEF Continues
  <1> QED BY <1>3, <1>4, <1>5

\* While imports and what is merged stay, stores of sound origins may grow.
LEMMA GrowingStores ==
    ASSUME IInv, TypeOK', import' = import, merged' = merged,
           \A o \in Node : Sound(o)' => Sound(o) /\ issued[o] <= issued'[o],
           \A n, o \in Node : Sound(o)' => Len(chain[n][o]) <= Len(chain'[n][o])
    PROVE  ImportsContinue' /\ MergedIsPrefix'
  <1>1. ASSUME NEW i \in Import, NEW o \in Node, import[i].to \in Node, Sound(o)'
        PROVE  \E j \in Nat : Continues(i, o, j)'
    <2>1. PICK j \in Nat : Continues(i, o, j)
      BY <1>1 DEF IInv, ImportsContinue
    <2>2. Continues(i, o, j)'
      BY <1>1, <2>1, ContinuesWhileGrowing DEF IInv
    <2> QED BY <2>2
  <1>2. ASSUME NEW n \in Node, NEW o \in Node, Sound(o)'
        PROVE  merged'[n][o] \subseteq 1 .. Len(chain'[n][o])
    <2>1. chain[n][o] \in Seq(Rows) /\ chain'[n][o] \in Seq(Rows)
      BY DEF IInv, TypeOK
    <2>2. Len(chain[n][o]) \in Nat /\ Len(chain'[n][o]) \in Nat
      BY <2>1, LenProperties
    <2>3. merged[n][o] \subseteq 1 .. Len(chain[n][o])
      BY <1>2 DEF IInv, MergedIsPrefix
    <2> QED BY <1>2, <2>2, <2>3
  <1> QED BY <1>1, <1>2 DEF ImportsContinue, MergedIsPrefix

LEMMA InsertRowInv ==
    ASSUME IInv, TypeOK', NEW w \in Writer, InsertRow(w)
    PROVE  IInv'
  <1> DEFINE n == HostOf[w]
             row == [id |-> issued[n] + 1, prev |-> writer[w].prev, ok |-> TRUE]
  <1> USE LedgerAssumption DEF LedgerAssumption
  <1>1. n \in Node /\ chain \in [Node -> [Node -> Seq(Rows)]] /\ issued \in [Node -> Nat]
    BY DEF IInv, TypeOK
  <1>2. chain' = [chain EXCEPT ![n][n] = Append(chain[n][n], row)]
        /\ issued' = [issued EXCEPT ![n] = issued[n] + 1]
    BY DEF InsertRow
  <1>3. \A m, o \in Node : chain'[m][o] = IF m = n /\ o = n THEN Append(chain[n][n], row)
                                                            ELSE chain[m][o]
    <2> HIDE DEF n, row
    <2> QED BY <1>1, <1>2
  <1>4. \A o \in Node : Sound(o)' => Sound(o)
    BY DEF InsertRow, Sound
  <1>5. ASSUME Sound(n)'
        PROVE  /\ Canonical(Append(chain[n][n], row))
               /\ Len(Append(chain[n][n], row)) = issued[n] + 1
    <2>1. writer[w].prev = LastSeal(chain[n][n])
      <3>1. writer[w].prev # LastSeal(chain[n][n]) => tainted' = tainted \cup {n}
        BY DEF InsertRow
      <3> QED BY <1>5, <3>1 DEF Sound
    <2>2. Canonical(chain[n][n]) /\ Len(chain[n][n]) = issued[n] /\ chain[n][n] \in Seq(Rows)
      BY <1>1, <1>4, <1>5 DEF IInv, StoresCanonical, AuthorHasAll
    <2>3. row = Canon(Len(chain[n][n]) + 1)
      <3>1. LastSeal(chain[n][n]) = Before(Len(chain[n][n]) + 1)
        <4> HIDE DEF n
        <4> QED BY <2>2, LastOfCanonical
      <3> QED BY <2>1, <2>2, <3>1 DEF Canon
    <2> HIDE DEF row, n
    <2> QED BY <2>2, <2>3, AppendCanonical
  <1>6. \A m, o \in Node : chain[m][o] \in Seq(Rows) /\ Len(chain[m][o]) \in Nat
    BY <1>1, LenProperties
  <1>7. ASSUME NEW m \in Node, NEW o \in Node, Sound(o)'
        PROVE  /\ Canonical(chain'[m][o])
               /\ Len(chain[m][o]) <= Len(chain'[m][o])
               /\ Len(chain'[m][o]) <= issued'[o]
               /\ issued[o] <= issued'[o]
               /\ m = o => Len(chain'[m][o]) = issued'[o]
    <2>1. Canonical(chain[m][o]) /\ Len(chain[m][o]) <= issued[o] /\ issued[o] \in Nat
          /\ (m = o => Len(chain[m][o]) = issued[o])
      BY <1>1, <1>4, <1>7 DEF IInv, StoresCanonical, AuthorHasAll
    <2>2. CASE o = n /\ m = n
      <3>1. Canonical(chain'[m][o]) /\ Len(chain'[m][o]) = issued[n] + 1
        BY <1>1, <1>3, <1>5, <1>7, <2>2
      <3>2. issued'[o] = issued[n] + 1
        BY <1>1, <1>2, <2>2
      <3> QED BY <1>6, <2>1, <2>2, <3>1, <3>2
    <2>3. CASE o = n /\ m # n
      <3>1. chain'[m][o] = chain[m][o] /\ issued'[o] = issued[o] + 1
        BY <1>1, <1>2, <1>3, <2>3
      <3> QED BY <1>6, <2>1, <2>3, <3>1
    <2>4. CASE o # n
      <3>1. chain'[m][o] = chain[m][o] /\ issued'[o] = issued[o]
        BY <1>1, <1>2, <1>3, <2>4
      <3> QED BY <1>6, <2>1, <3>1
    <2> QED BY <2>2, <2>3, <2>4
  <1>8. StoresCanonical' /\ AuthorHasAll'
    BY <1>7 DEF StoresCanonical, AuthorHasAll
  <1>9. ImportsContinue' /\ MergedIsPrefix'
    <2>1. import' = import /\ merged' = merged
      BY DEF InsertRow
    <2> QED BY <1>4, <1>7, <2>1, GrowingStores
  <1> QED BY <1>8, <1>9 DEF IInv

LEMMA BeginImportInv ==
    ASSUME IInv, TypeOK', NEW i \in Import, NEW from \in Node, NEW to \in Node,
           BeginImport(i, from, to)
    PROVE  IInv'
  <1> DEFINE ids(o) == {chain[from][o][k].id : k \in {j \in 1 .. Len(chain[from][o]) :
                                                       chain[from][o][j].ok}}
             bundle == [to |-> to, rest |-> [o \in Node |-> ExportRows(chain[from][o])],
                        ids |-> [o \in Node |-> ids(o)]]
  <1>1. UNCHANGED <<chain, issued, merged, tainted>>
    BY DEF BeginImport
  <1>2. \A m \in Import : import'[m] = IF m = i THEN bundle ELSE import[m]
    <2>1. import' = [import EXCEPT ![i] = bundle]
      BY DEF BeginImport
    <2> HIDE DEF bundle
    <2> QED BY <2>1 DEF IInv, TypeOK
  <1>3. \A n, o \in Node : chain[n][o] \in Seq(Rows) /\ Len(chain[n][o]) \in Nat
    BY LenProperties DEF IInv, TypeOK
  <1>4. StoresCanonical' /\ AuthorHasAll' /\ MergedIsPrefix'
    BY <1>1 DEF IInv, StoresCanonical, AuthorHasAll, MergedIsPrefix, Sound
  <1>5. ASSUME NEW m \in Import, NEW o \in Node, import'[m].to \in Node, Sound(o)'
        PROVE  \E j \in Nat : Continues(m, o, j)'
    <2>1. CASE m # i
      <3>1. import'[m] = import[m] /\ Sound(o)
        <4> HIDE DEF bundle
        <4> QED BY <1>1, <1>2, <1>5, <2>1 DEF Sound
      <3>2. PICK j \in Nat : Continues(m, o, j)
        BY <1>5, <3>1 DEF IInv, ImportsContinue
      <3> QED BY <1>1, <3>1, <3>2 DEF Continues
    <2>2. CASE m = i
      <3>1. /\ import'[m].to = to
            /\ import'[m].rest[o] = chain[from][o]
            /\ import'[m].ids[o] = ids(o)
        <4>1. /\ bundle.to = to
              /\ bundle.rest[o] = chain[from][o]
              /\ bundle.ids[o] = ids(o)
          BY DEF ExportRows
        <4> HIDE DEF bundle, ids
        <4> QED BY <1>2, <2>2, <4>1
      <3>2. Canonical(chain[from][o]) /\ Len(chain[from][o]) <= issued[o]
        BY <1>1, <1>5 DEF IInv, StoresCanonical, Sound
      <3>3. ids(o) \subseteq 1 .. Len(chain[from][o])
        <4>1. \A k : Canon(k).id = k
          BY DEF Canon
        <4> QED BY <3>2, <4>1 DEF Canonical
      <3>4. Continues(m, o, 0)'
        <4>1. chain' = chain /\ issued' = issued
          BY <1>1
        <4> HIDE DEF ids
        <4> QED BY <1>3, <3>1, <3>2, <3>3, <4>1 DEF Continues, Canonical
      <3> QED BY <3>4
    <2> QED BY <2>1, <2>2
  <1>6. ImportsContinue'
    BY <1>5 DEF ImportsContinue
  <1> QED BY <1>4, <1>6 DEF IInv

LEMMA EndsInv ==
    ASSUME IInv, TypeOK', NEW i \in Import, EndImport(i) \/ AbortImport(i)
    PROVE  IInv'
  <1>1. UNCHANGED <<chain, issued, tainted>> /\ import' = [import EXCEPT ![i] = NotMerging]
    BY DEF EndImport, AbortImport
  <1>2. StoresCanonical' /\ AuthorHasAll'
    BY <1>1 DEF IInv, StoresCanonical, AuthorHasAll, Sound
  <1>3. ImportsContinue'
    <2>1. ASSUME NEW m \in Import, NEW o \in Node, import'[m].to \in Node, Sound(o)'
          PROVE  \E j \in Nat : Continues(m, o, j)'
      <3>1. m # i
        BY <1>1, <2>1, LedgerAssumption DEF NotMerging, LedgerAssumption, IInv, TypeOK
      <3>2. import'[m] = import[m] /\ Sound(o)
        BY <1>1, <2>1, <3>1 DEF IInv, TypeOK, Sound
      <3>3. PICK j \in Nat : Continues(m, o, j)
        BY <2>1, <3>2 DEF IInv, ImportsContinue
      <3> QED BY <1>1, <3>2, <3>3 DEF Continues
    <2> QED BY <2>1 DEF ImportsContinue
  <1>4. MergedIsPrefix'
    <2>1. ASSUME NEW n \in Node, NEW o \in Node, Sound(o)'
          PROVE  merged'[n][o] \subseteq 1 .. Len(chain'[n][o])
      <3>1. merged[n][o] \subseteq 1 .. Len(chain[n][o]) /\ Sound(o)
        BY <1>1, <2>1 DEF IInv, MergedIsPrefix, Sound
      <3>2. CASE merged'[n][o] = merged[n][o]
        BY <1>1, <3>1, <3>2
      <3>3. CASE merged'[n][o] # merged[n][o]
        <4>1. EndImport(i)
          BY <3>3 DEF AbortImport
        <4>2. merged' = [merged EXCEPT ![import[i].to] =
                           [p \in Node |-> merged[import[i].to][p] \cup import[i].ids[p]]]
          BY <4>1 DEF EndImport
        <4>3. n = import[i].to
          BY <3>3, <4>2 DEF IInv, TypeOK
        <4>4. merged'[n][o] = merged[n][o] \cup import[i].ids[o]
          BY <4>2, <4>3 DEF IInv, TypeOK
        <4>5. PICK j \in Nat : Continues(i, o, j)
          BY <3>1, <4>3 DEF IInv, ImportsContinue
        <4>6. import[i].rest[o] = <<>> /\ Len(<<>>) = 0
          BY <4>1, EmptySeq DEF EndImport
        <4>7. j <= Len(chain[n][o]) /\ import[i].ids[o] \subseteq 1 .. j
          BY <4>3, <4>5, <4>6 DEF Continues
        <4>8. Len(chain[n][o]) \in Nat
          BY LenProperties DEF IInv, TypeOK
        <4> QED BY <1>1, <3>1, <4>4, <4>7, <4>8
      <3> QED BY <3>2, <3>3
    <2> QED BY <2>1 DEF MergedIsPrefix
  <1> QED BY <1>2, <1>3, <1>4 DEF IInv

\* A row that continues the store is the next one, or is there already.
LEMMA ImportRowAdds ==
    ASSUME IInv, TypeOK', NEW i \in Import, NEW o \in Node, ImportRow(i, o),
           Sound(o), NEW n \in Node, import[i].to = n, NEW j \in Nat, Continues(i, o, j)
    PROVE  /\ Canonical(chain'[n][o])
           /\ Len(chain[n][o]) <= Len(chain'[n][o])
           /\ j + 1 <= Len(chain'[n][o])
           /\ Len(chain'[n][o]) <= issued[o]
           /\ n = o => Len(chain'[n][o]) = issued[o]
  <1> DEFINE rows == chain[n][o]
             rest == import[i].rest[o]
  <1>1. rows \in Seq(Rows) /\ rest \in Seq(Rows) /\ rest # <<>> /\ issued[o] \in Nat
    BY DEF IInv, TypeOK, ImportRow
  <1>2. Len(rows) \in Nat /\ Len(rest) \in Nat /\ 1 \in 1 .. Len(rest)
    <2> HIDE DEF rows, rest
    <2> QED BY <1>1, LenProperties, EmptySeq
  <1>3. Canonical(rows) /\ Len(rows) <= issued[o] /\ (n = o => Len(rows) = issued[o])
    BY DEF IInv, StoresCanonical, AuthorHasAll
  <1>4. j <= Len(rows) /\ j + Len(rest) <= issued[o]
        /\ \A k \in 1 .. Len(rest) : rest[k] = Canon(j + k)
    BY DEF Continues
  <1>5. rest[1] = Canon(j + 1) /\ j + 1 <= issued[o]
    <2> HIDE DEF rows, rest
    <2> QED BY <1>1, <1>2, <1>4
  <1>6. rest[1].id = j + 1 /\ rest[1].ok
    <2> HIDE DEF rest
    <2> QED BY <1>5 DEF Canon
  <1>7. Has(rows, j + 1) <=> j + 1 <= Len(rows)
    <2>1. Has(rows, j + 1) <=> j + 1 \in 1 .. Len(rows)
      <3> HIDE DEF rows
      <3> QED BY <1>1, <1>3, HasCanonical
    <2> HIDE DEF rows
    <2> QED BY <1>2, <2>1
  <1>8. CASE Has(rows, j + 1)
    <2>1. ~Acceptable(rows, rest[1])
      BY <1>6, <1>8 DEF Acceptable
    <2>2. chain' = chain
      BY <2>1 DEF ImportRow
    <2>3. chain'[n][o] = rows
      BY <2>2
    <2>4. chain[n][o] = rows
      OBVIOUS
    <2> HIDE DEF rows, rest
    <2> QED BY <1>2, <1>3, <1>7, <1>8, <2>3, <2>4
  <1>9. CASE ~Has(rows, j + 1)
    <2>1. Acceptable(rows, rest[1])
      BY <1>6, <1>9 DEF Acceptable
    <2>2. chain' = [chain EXCEPT ![n][o] = Append(rows, rest[1])]
      BY <2>1 DEF ImportRow
    <2>3. chain'[n][o] = Append(rows, rest[1])
      <3>1. n \in Node /\ chain \in [Node -> [Node -> Seq(Rows)]]
        BY DEF IInv, TypeOK
      <3> HIDE DEF rows, rest
      <3> QED BY <2>2, <3>1
    <2>4. Len(rows) = j
      <3> HIDE DEF rows, rest
      <3> QED BY <1>2, <1>4, <1>7, <1>9
    <2>5. Canonical(chain'[n][o]) /\ Len(chain'[n][o]) = j + 1
      <3> HIDE DEF rows, rest
      <3> QED BY <1>1, <1>3, <1>5, <2>3, <2>4, AppendCanonical
    <2>6. n # o
      <3> HIDE DEF rows, rest
      <3> QED BY <1>1, <1>2, <1>3, <1>5, <2>4
    <2>7. chain[n][o] = rows
      OBVIOUS
    <2> HIDE DEF rows, rest
    <2> QED BY <1>2, <1>5, <2>4, <2>5, <2>6, <2>7
  <1> QED BY <1>8, <1>9

LEMMA ImportRowInv ==
    ASSUME IInv, TypeOK', NEW i \in Import, NEW o \in Node, ImportRow(i, o)
    PROVE  IInv'
  <1> DEFINE n == import[i].to
             rest == import[i].rest[o]
  <1>1. UNCHANGED <<issued, merged, tainted>>
        /\ import' = [import EXCEPT ![i].rest[o] = Tail(rest)]
    BY DEF ImportRow
  <1>2. \A m, p \in Node : chain'[m][p] # chain[m][p] => m = n /\ p = o
    BY DEF ImportRow, IInv, TypeOK
  <1>3. \A m, p \in Node : chain[m][p] \in Seq(Rows) /\ Len(chain[m][p]) \in Nat
                           /\ Len(chain'[m][p]) \in Nat
    BY LenProperties DEF IInv, TypeOK
  <1>4. ASSUME n \in Node, Sound(o)
        PROVE  \E j \in Nat : Continues(i, o, j)
    BY <1>4 DEF IInv, ImportsContinue
  <1>5. ASSUME NEW m \in Node, NEW p \in Node, Sound(p)
        PROVE  /\ Canonical(chain'[m][p])
               /\ Len(chain[m][p]) <= Len(chain'[m][p])
               /\ Len(chain'[m][p]) <= issued[p]
               /\ m = p => Len(chain'[m][p]) = issued[p]
    <2>1. CASE chain'[m][p] = chain[m][p]
      <3>1. Canonical(chain[m][p]) /\ Len(chain[m][p]) <= issued[p]
            /\ (m = p => Len(chain[m][p]) = issued[p])
        BY <1>5 DEF IInv, StoresCanonical, AuthorHasAll
      <3> QED BY <1>3, <2>1, <3>1
    <2>2. CASE chain'[m][p] # chain[m][p]
      <3>1. m = n /\ p = o
        BY <1>2, <2>2
      <3>2. PICK j \in Nat : Continues(i, o, j)
        BY <1>4, <1>5, <3>1
      <3> HIDE DEF n
      <3> QED BY <1>5, <3>1, <3>2, ImportRowAdds DEF n
    <2> QED BY <2>1, <2>2
  <1>6. StoresCanonical' /\ AuthorHasAll'
    BY <1>1, <1>5 DEF StoresCanonical, AuthorHasAll, Sound
  <1>7. MergedIsPrefix'
    <2>1. ASSUME NEW m \in Node, NEW p \in Node, Sound(p)
          PROVE  merged[m][p] \subseteq 1 .. Len(chain'[m][p])
      <3>1. merged[m][p] \subseteq 1 .. Len(chain[m][p])
        BY <2>1 DEF IInv, MergedIsPrefix
      <3>2. Len(chain[m][p]) <= Len(chain'[m][p])
        BY <1>5, <2>1
      <3> QED BY <1>3, <3>1, <3>2
    <2> QED BY <1>1, <2>1 DEF MergedIsPrefix, Sound
  <1>8. ASSUME NEW m \in Import, NEW p \in Node, import'[m].to \in Node, Sound(p)
        PROVE  \E j \in Nat : Continues(m, p, j)'
    <2>1. import'[m].to = import[m].to /\ import'[m].ids[p] = import[m].ids[p]
      <3>1. CASE m = i
        <4> HIDE DEF rest
        <4> QED BY <1>1, <3>1 DEF IInv, TypeOK
      <3>2. CASE m # i
        <4>1. import'[m] = import[m]
          <5> HIDE DEF rest
          <5> QED BY <1>1, <3>2 DEF IInv, TypeOK
        <4> QED BY <4>1
      <3> QED BY <3>1, <3>2
    <2>2. PICK j \in Nat : Continues(m, p, j)
      BY <1>8, <2>1 DEF IInv, ImportsContinue
    <2>3. Len(chain[import[m].to][p]) <= Len(chain'[import[m].to][p])
      <3>1. import[m].to \in Node
        BY <1>8, <2>1
      <3> QED BY <1>5, <1>8, <3>1
    <2>4. issued[p] <= issued'[p]
      BY <1>1 DEF IInv, TypeOK
    <2>5. CASE m # i \/ p # o
      <3>1. import'[m].rest[p] = import[m].rest[p]
        <4> HIDE DEF rest
        <4> QED BY <1>1, <2>5 DEF IInv, TypeOK
      <3>2. Continues(m, p, j)'
        BY <1>8, <2>1, <2>2, <2>3, <2>4, <3>1, ContinuesWhileGrowing DEF IInv
      <3> QED BY <3>2
    <2>6. CASE m = i /\ p = o
      <3>1. import'[i].rest[o] = Tail(rest)
        <4> HIDE DEF rest
        <4> QED BY <1>1 DEF IInv, TypeOK
      <3>2. rest \in Seq(Rows) /\ rest # <<>>
        BY DEF ImportRow, IInv, TypeOK
      <3>3. Len(rest) \in Nat /\ Len(Tail(rest)) = Len(rest) - 1
            /\ \A k \in 1 .. Len(rest) - 1 : Tail(rest)[k] = rest[k + 1]
        <4> HIDE DEF rest
        <4> QED BY <3>2, LenProperties, HeadTailProperties
      <3>4. j + Len(rest) <= issued[o] /\ import[i].ids[o] \subseteq 1 .. (j + Len(rest))
            /\ \A k \in 1 .. Len(rest) : rest[k] = Canon(j + k)
        BY <2>2, <2>6 DEF Continues
      <3>5. j + 1 <= Len(chain'[n][o])
        <4> HIDE DEF n
        <4> QED BY <1>8, <2>1, <2>2, <2>6, ImportRowAdds DEF n
      <3>6. j + 1 + Len(Tail(rest)) = j + Len(rest)
        <4> DEFINE a == Len(rest)
                   b == Len(Tail(rest))
        <4>1. a \in Nat /\ b = a - 1
          BY <3>3
        <4>2. j + 1 + b = j + a
          <5> HIDE DEF a, b
          <5> QED BY <4>1
        <4> QED BY <4>2
      <3>7. \A k \in 1 .. Len(Tail(rest)) : Tail(rest)[k] = Canon(j + 1 + k)
        <4> SUFFICES ASSUME NEW k \in 1 .. Len(Tail(rest))
                     PROVE  Tail(rest)[k] = Canon(j + 1 + k)
          OBVIOUS
        <4> HIDE DEF rest
        <4>1. k + 1 \in 1 .. Len(rest) /\ Tail(rest)[k] = rest[k + 1]
          <5>1. Len(Tail(rest)) = Len(rest) - 1 /\ Len(rest) \in Nat
            BY <3>3
          <5>2. k \in 1 .. Len(rest) - 1
            BY <5>1
          <5>3. k + 1 \in 1 .. Len(rest)
            BY <5>1, <5>2
          <5> QED BY <3>3, <5>2, <5>3
        <4>2. j + (k + 1) = j + 1 + k
          BY <3>3
        <4> QED BY <3>4, <4>1, <4>2
      <3>8. Continues(i, o, j + 1)' =
              /\ j + 1 <= Len(chain'[import'[i].to][o])
              /\ j + 1 + Len(import'[i].rest[o]) <= issued'[o]
              /\ \A k \in 1 .. Len(import'[i].rest[o]) :
                    import'[i].rest[o][k] = Canon(j + 1 + k)
              /\ import'[i].ids[o] \subseteq 1 .. (j + 1 + Len(import'[i].rest[o]))
        BY DEF Continues
      <3>9. import'[i].to = n /\ import'[i].ids[o] = import[i].ids[o] /\ issued' = issued
        BY <1>1, <2>1, <2>6
      <3>10. Continues(i, o, j + 1)'
        <4> HIDE DEF rest, n
        <4> QED BY <3>1, <3>4, <3>5, <3>6, <3>7, <3>8, <3>9
      <3> QED BY <2>6, <3>10
    <2> QED BY <2>5, <2>6
  <1>9. ImportsContinue'
    BY <1>1, <1>8 DEF ImportsContinue, Sound
  <1> QED BY <1>6, <1>7, <1>9 DEF IInv

\* Damage and pruning change only stores of origins they taint.
LEMMA TaintInv ==
    ASSUME IInv, TypeOK', UNCHANGED <<issued, import, merged>>, tainted \subseteq tainted',
           \A n, o \in Node : o \notin tainted' => chain'[n][o] = chain[n][o]
    PROVE  IInv'
  <1>1. \A o \in Node : Sound(o)' => Sound(o) /\ issued[o] <= issued'[o]
    BY DEF Sound, IInv, TypeOK
  <1>2. \A n, o \in Node : Sound(o)' => chain'[n][o] = chain[n][o]
    BY DEF Sound
  <1>3. \A n, o \in Node : Len(chain[n][o]) \in Nat
    BY LenProperties DEF IInv, TypeOK
  <1>4. StoresCanonical' /\ AuthorHasAll'
    BY <1>1, <1>2 DEF IInv, StoresCanonical, AuthorHasAll
  <1>5. \A n, o \in Node : Sound(o)' => Len(chain[n][o]) <= Len(chain'[n][o])
    BY <1>2, <1>3
  <1>6. ImportsContinue' /\ MergedIsPrefix'
    BY <1>1, <1>5, GrowingStores
  <1> QED BY <1>4, <1>6 DEF IInv

LEMMA DamageInv ==
    ASSUME IInv, TypeOK', NEW n \in Node, NEW o \in Node, NEW k \in 1 .. MaxRecords,
           DamageRow(n, o, k)
    PROVE  IInv'
  <1>1. UNCHANGED <<issued, import, merged>> /\ tainted' = tainted \cup {o}
        /\ chain' = [chain EXCEPT ![n][o][k].ok = FALSE]
    BY DEF DamageRow
  <1>2. \A m, p \in Node : p # o => chain'[m][p] = chain[m][p]
    BY <1>1 DEF IInv, TypeOK
  <1> QED BY <1>1, <1>2, TaintInv

LEMMA PruneInv ==
    ASSUME IInv, TypeOK', NEW n \in Node, NEW cut \in [Node -> 0 .. MaxRecords],
           Prune(n, cut)
    PROVE  IInv'
  <1>1. UNCHANGED <<issued, import, merged>>
        /\ tainted' = tainted \cup {o \in Node : cut[o] > 0}
        /\ chain' = [chain EXCEPT ![n] =
                       [o \in Node |-> SubSeq(chain[n][o], cut[o] + 1, Len(chain[n][o]))]]
    BY DEF Prune
  <1>2. ASSUME NEW m \in Node, NEW o \in Node, o \notin tainted'
        PROVE  chain'[m][o] = chain[m][o]
    <2>1. CASE m # n
      BY <1>1, <2>1 DEF IInv, TypeOK
    <2>2. CASE m = n
      <3>1. cut[o] = 0
        BY <1>1, <1>2, LedgerAssumption DEF LedgerAssumption
      <3>2. chain'[n][o] = SubSeq(chain[n][o], 1, Len(chain[n][o]))
        BY <1>1, <3>1 DEF IInv, TypeOK
      <3>3. chain[n][o] \in Seq(Rows)
        BY DEF IInv, TypeOK
      <3> QED BY <2>2, <3>2, <3>3, SubSeqFull
    <2> QED BY <2>1, <2>2
  <1> QED BY <1>1, <1>2, TaintInv

LEMMA NextInv == IInv /\ [Next]_vars => IInv'
  <1> SUFFICES ASSUME IInv, [Next]_vars PROVE IInv'
    OBVIOUS
  <1>1. TypeOK'
    BY NextType DEF IInv
  <1>2. ASSUME NEW w \in Writer, ReadSeal(w) \/ WriterEnds(w) PROVE IInv'
    <2>1. UNCHANGED <<chain, issued, import, merged, tainted>>
      BY <1>2 DEF ReadSeal, WriterEnds
    <2> QED BY <1>1, <2>1, TaintInv
  <1>3. ASSUME NEW w \in Writer, InsertRow(w) PROVE IInv'
    BY <1>1, <1>3, InsertRowInv
  <1>4. ASSUME NEW i \in Import, NEW from \in Node, NEW to \in Node,
               BeginImport(i, from, to)
        PROVE  IInv'
    BY <1>1, <1>4, BeginImportInv
  <1>5. ASSUME NEW i \in Import, NEW o \in Node, ImportRow(i, o) PROVE IInv'
    BY <1>1, <1>5, ImportRowInv
  <1>6. ASSUME NEW i \in Import, EndImport(i) \/ AbortImport(i) PROVE IInv'
    BY <1>1, <1>6, EndsInv
  <1>7. ASSUME NEW n \in Node, NEW o \in Node, NEW k \in 1 .. MaxRecords,
               DamageRow(n, o, k)
        PROVE  IInv'
    BY <1>1, <1>7, DamageInv
  <1>8. ASSUME NEW n \in Node, NEW cut \in [Node -> 0 .. MaxRecords], Prune(n, cut)
        PROVE  IInv'
    BY <1>1, <1>8, PruneInv
  <1>9. CASE UNCHANGED vars
    <2>1. UNCHANGED <<chain, issued, import, merged, tainted>>
      BY <1>9 DEF vars
    <2> QED BY <1>1, <2>1, TaintInv
  <1> QED BY <1>2, <1>3, <1>4, <1>5, <1>6, <1>7, <1>8, <1>9 DEF Next

\* A store whose disk was not damaged holds only rows as they were sealed.
AllAsSealed(rows) == \A k \in 1 .. Len(rows) : rows[k].ok

LEMMA AppendAsSealed ==
    ASSUME NEW rows \in Seq(Rows), NEW row \in Rows, AllAsSealed(rows), row.ok
    PROVE  AllAsSealed(Append(rows, row))
  <1>1. Len(rows) \in Nat /\ Len(Append(rows, row)) = Len(rows) + 1
        /\ \A k \in 1 .. Len(rows) : Append(rows, row)[k] = rows[k]
        /\ Append(rows, row)[Len(rows) + 1] = row
    BY LenProperties, AppendProperties
  <1> QED BY <1>1 DEF AllAsSealed

LEMMA NextHome == TypeOK /\ AlterationsStayHome /\ [Next]_vars => AlterationsStayHome'
  <1> SUFFICES ASSUME TypeOK, AlterationsStayHome, [Next]_vars,
                      NEW n \in Node, NEW o \in Node, n \notin damaged'
               PROVE  AllAsSealed(chain'[n][o])
    BY Zenon DEF AlterationsStayHome, AllAsSealed
  <1> USE LedgerAssumption DEF LedgerAssumption
  <1>1. TypeOK'
    BY NextType
  <1>2. chain[n][o] \in Seq(Rows)
    BY DEF TypeOK
  <1>3. n \notin damaged => AllAsSealed(chain[n][o])
    BY DEF AlterationsStayHome, AllAsSealed
  <1>4. ASSUME NEW w \in Writer, InsertRow(w) PROVE AllAsSealed(chain'[n][o])
    <2> DEFINE h == HostOf[w]
               row == [id |-> issued[h] + 1, prev |-> writer[w].prev, ok |-> TRUE]
    <2>1. h \in Node /\ row \in Rows /\ row.ok
      BY DEF TypeOK, Rows
    <2>2. chain' = [chain EXCEPT ![h][h] = Append(chain[h][h], row)] /\ n \notin damaged
      BY <1>4 DEF InsertRow
    <2>3. CASE n = h /\ o = h
      <3>1. chain'[n][o] = Append(chain[n][o], row)
        <4> HIDE DEF row, h
        <4> QED BY <2>1, <2>2, <2>3 DEF TypeOK
      <3> HIDE DEF row, h
      <3> QED BY <1>2, <1>3, <2>1, <2>2, <3>1, AppendAsSealed
    <2>4. CASE ~(n = h /\ o = h)
      <3>1. chain'[n][o] = chain[n][o]
        <4> HIDE DEF row, h
        <4> QED BY <2>1, <2>2, <2>4 DEF TypeOK
      <3> QED BY <1>3, <2>2, <3>1
    <2> QED BY <2>3, <2>4
  <1>5. ASSUME NEW i \in Import, NEW p \in Node, ImportRow(i, p)
        PROVE  AllAsSealed(chain'[n][o])
    <2> DEFINE row == import[i].rest[p][1]
    <2>1. n \notin damaged
      BY <1>5 DEF ImportRow
    <2>2. CASE chain'[n][o] = chain[n][o]
      BY <1>3, <2>1, <2>2
    <2>3. CASE chain'[n][o] # chain[n][o]
      <3>1. import[i].to = n /\ p = o /\ Acceptable(chain[n][o], row)
            /\ chain'[n][o] = Append(chain[n][o], row)
        BY <1>5, <2>3 DEF ImportRow, TypeOK
      <3>2. row \in Rows
        <4>1. import[i].rest[p] \in Seq(Rows) /\ import[i].rest[p] # <<>>
          BY <1>5 DEF ImportRow, TypeOK
        <4>2. 1 \in 1 .. Len(import[i].rest[p])
          BY <4>1, LenProperties, EmptySeq
        <4> QED BY <4>1, <4>2, ElementOfSeq
      <3>3. row.ok
        BY <3>1 DEF Acceptable
      <3> HIDE DEF row
      <3> QED BY <1>2, <1>3, <2>1, <3>1, <3>2, <3>3, AppendAsSealed
    <2> QED BY <2>2, <2>3
  <1>6. ASSUME NEW m \in Node, NEW p \in Node, NEW k \in 1 .. MaxRecords, DamageRow(m, p, k)
        PROVE  AllAsSealed(chain'[n][o])
    <2>1. n # m /\ n \notin damaged
      BY <1>6 DEF DamageRow
    <2>2. chain'[n][o] = chain[n][o]
      BY <1>6, <2>1 DEF DamageRow, TypeOK
    <2> QED BY <1>3, <2>1, <2>2
  <1>7. ASSUME NEW m \in Node, NEW cut \in [Node -> 0 .. MaxRecords], Prune(m, cut)
        PROVE  AllAsSealed(chain'[n][o])
    <2>1. n \notin damaged
      BY <1>7 DEF Prune
    <2>2. CASE n # m
      <3>1. chain'[n][o] = chain[n][o]
        BY <1>7, <2>2 DEF Prune, TypeOK
      <3> QED BY <1>3, <2>1, <3>1
    <2>3. CASE n = m
      <3> DEFINE rows == chain[n][o]
      <3>1. chain'[n][o] = SubSeq(rows, cut[o] + 1, Len(rows))
        BY <1>7, <2>3 DEF Prune, TypeOK
      <3>2. Len(rows) \in Nat /\ cut[o] \in Nat
        BY <1>2, LenProperties
      <3>3. AllAsSealed(rows)
        BY <1>3, <2>1
      <3>4. \A j \in cut[o] + 1 .. Len(rows) : rows[j] \in Rows
        <4> HIDE DEF rows
        <4> QED BY <1>2, <3>2, ElementOfSeq DEF rows
      <3>5. /\ Len(SubSeq(rows, cut[o] + 1, Len(rows)))
                 = IF cut[o] + 1 <= Len(rows) THEN Len(rows) - cut[o] ELSE 0
            /\ \A j \in 1 .. Len(rows) - cut[o] :
                  SubSeq(rows, cut[o] + 1, Len(rows))[j] = rows[cut[o] + j]
        <4> HIDE DEF rows
        <4> QED BY <3>2, <3>4, SubSeqProperties
      <3>6. AllAsSealed(SubSeq(rows, cut[o] + 1, Len(rows)))
        <4> HIDE DEF rows
        <4>1. ASSUME NEW j \in 1 .. Len(SubSeq(rows, cut[o] + 1, Len(rows)))
              PROVE  /\ j \in 1 .. Len(rows) - cut[o]
                     /\ cut[o] + j \in 1 .. Len(rows)
          <5>1. j \in 1 .. Len(rows) - cut[o]
            <6> DEFINE a == Len(rows)
                       b == Len(SubSeq(rows, cut[o] + 1, Len(rows)))
                       c == cut[o]
            <6>1. a \in Nat /\ c \in Nat /\ b = IF c + 1 <= a THEN a - c ELSE 0
              BY <3>2, <3>5
            <6>2. j \in 1 .. b
              OBVIOUS
            <6>3. j \in 1 .. a - c
              <7> HIDE DEF a, b, c
              <7> QED BY <6>1, <6>2
            <6> QED BY <6>3
          <5> QED BY <3>2, <5>1
        <4> QED BY <3>3, <3>5, <4>1 DEF AllAsSealed
      <3> QED BY <3>1, <3>6
    <2> QED BY <2>2, <2>3
  <1>8. CASE UNCHANGED <<chain, damaged>>
    BY <1>3, <1>8
  <1>9. ASSUME NEW w \in Writer, ReadSeal(w) \/ WriterEnds(w)
        PROVE  UNCHANGED <<chain, damaged>>
    BY <1>9 DEF ReadSeal, WriterEnds
  <1>10. ASSUME NEW i \in Import,
                (\E from, to \in Node : BeginImport(i, from, to)) \/ EndImport(i) \/ AbortImport(i)
         PROVE  UNCHANGED <<chain, damaged>>
    BY <1>10 DEF BeginImport, EndImport, AbortImport
  <1>11. CASE UNCHANGED vars
    BY <1>8, <1>11 DEF vars
  <1> QED BY <1>4, <1>5, <1>6, <1>7, <1>8, <1>9, <1>10, <1>11 DEF Next

LEMMA Inductive == Spec => []IInv
  BY InitInv, NextInv, PTL DEF Spec

-----------------------------------------------------------------------------
(* Theorems. *)

\* Stores, bundles and what was merged stay of their kind.
THEOREM LedgerTyped == Spec => []TypeOK
  <1>1. IInv => TypeOK
    BY DEF IInv
  <1> QED BY Inductive, <1>1, PTL

\* However bundles are relayed, repeated, interleaved and cut short, verify_chain
\* passes for every origin nobody damaged, pruned or forked.
THEOREM ChainsHold == Spec => []ChainsBreakForCause
  <1>1. IInv => ChainsBreakForCause
    BY CanonicalIsVerified DEF IInv, ChainsBreakForCause, StoresCanonical, Sound, TypeOK
  <1> QED BY Inductive, <1>1, PTL

\* An altered row is found only in stores whose disk was damaged.
THEOREM AlterationsStay == Spec => []AlterationsStayHome
  <1>1. Init => AlterationsStayHome
    BY EmptySeq DEF Init, AlterationsStayHome
  <1> QED BY LedgerTyped, <1>1, NextHome, PTL DEF Spec

\* A node keeps every record of a sound origin that a merge it ended has brought.
THEOREM MergesStay == Spec => []MergesAreComplete
  <1>1. ASSUME IInv, NEW n \in Node, NEW o \in Node, o \notin tainted,
               NEW id \in merged[n][o]
        PROVE  Has(chain[n][o], id)
    <2>1. chain[n][o] \in Seq(Rows) /\ Canonical(chain[n][o])
          /\ id \in 1 .. Len(chain[n][o])
      BY <1>1 DEF IInv, TypeOK, StoresCanonical, MergedIsPrefix, Sound
    <2> QED BY <2>1, HasCanonical
  <1>2. IInv => MergesAreComplete
    BY <1>1 DEF MergesAreComplete
  <1> QED BY Inductive, <1>2, PTL
=============================================================================
