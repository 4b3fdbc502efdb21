-------------------------- MODULE FeedbackLoopProofs --------------------------
(***************************************************************************)
(* Type correctness of FeedbackLoop and its NewestActive invariant, for    *)
(* any number of server processes, chats, resources and payloads.          *)
(*                                                                         *)
(* Neither is inductive.  What a transaction may write depends on what it  *)
(* loaded earlier, so the invariants below say what is still true of that  *)
(* at the commit: the rows it wrote are still there, because the row locks *)
(* of two transactions never overlap (TxInv), and no other active patch    *)
(* has one of its keys, because their index entries have been its own      *)
(* since it inserted its patches (FreshInv).                               *)
(***************************************************************************)
EXTENDS FeedbackLoop, FiniteSetTheorems, WellFoundedInduction, TLAPS

(* The arithmetic of FeedbackMetrics, for event sets of every finite size  *)

\* A set of events the recount may be given.
EventSet(evs) ==
    /\ IsFiniteSet(evs)
    /\ \A e \in evs : e.created \in Nat

\* A rate is a natural number, whatever is counted.
LEMMA PercentageType ==
    ASSUME NEW count \in Nat, NEW total \in Nat
    PROVE  Percentage(count, total) \in Nat
<1>1. CASE total <= 0
  BY <1>1 DEF Percentage
<1>2. CASE total > 0
  <2>1. (100 * count) \div total \in Nat
    BY <1>2
  <2> QED
    BY <1>2, <2>1 DEF Percentage
<1> QED
  BY <1>1, <1>2

\* A non-empty finite set of numbers has a largest one: what lies above each
\* number is ordered by strict inclusion, and that order is well founded.
LEMMA LargestExists ==
    ASSUME NEW S \in SUBSET Nat, IsFiniteSet(S), S # {}
    PROVE  \E m \in S : \A n \in S : n <= m
<1> DEFINE Above(n) == {k \in S : k > n}
           T == {Above(n) : n \in S}
           R == StrictSubsetOrdering(S)
<1>1. IsWellFoundedOn(R, FiniteSubsetsOf(S))
  BY FS_StrictSubsetOrderingWellFounded
<1>2. T \subseteq FiniteSubsetsOf(S) /\ T # {}
  <2>1. FiniteSubsetsOf(S) = SUBSET S
    BY FS_FiniteSubsetsOfFinite
  <2>2. T \subseteq SUBSET S /\ T # {}
    OBVIOUS
  <2> QED
    BY <2>1, <2>2
<1>3. PICK x \in T : \A y \in T : ~ (<<y, x>> \in R)
  <2> HIDE DEF T, R
  <2> QED BY <1>1, <1>2, WFMin
<1>4. PICK m \in S : x = Above(m)
  BY <1>3
<1>5. \A n \in S : n <= m
  <2> SUFFICES ASSUME NEW n \in S, n > m PROVE FALSE
    OBVIOUS
  <2>1. S \subseteq Nat /\ m \in Nat /\ n \in Nat
    OBVIOUS
  <2>2. \A k \in S : k > n => k > m
    BY <2>1
  <2>3. Above(n) \subseteq Above(m)
    BY <2>2
  <2>4. n \in Above(m)
    OBVIOUS
  <2>5. n \notin Above(n)
    BY <2>1
  <2>6. <<Above(n), Above(m)>> \in R
    BY <2>3, <2>4, <2>5 DEF StrictSubsetOrdering
  <2> QED
    BY <1>3, <1>4, <2>6
<1> QED
  BY <1>5

\* A non-empty finite set of events has one that none is later than.
LEMMA LatestExists ==
    ASSUME NEW evs, EventSet(evs), evs # {}
    PROVE  \E e \in evs : \A f \in evs : f.created <= e.created
<1> DEFINE T == {e.created : e \in evs}
           g == [e \in evs |-> e.created]
<1>1. g \in Surjection(evs, T)
  BY DEF Surjection
<1>2. IsFiniteSet(T)
  BY <1>1, FS_Surjection DEF EventSet
<1>3. T \in SUBSET Nat /\ T # {}
  BY DEF EventSet
<1> HIDE DEF T
<1>4. PICK m \in T : \A n \in T : n <= m
  BY <1>2, <1>3, LargestExists
<1> QED
  BY <1>4 DEF T

LEMMA LastEventAtType ==
    ASSUME NEW evs, EventSet(evs)
    PROVE  LastEventAt(evs) \in Nat \union {Never}
<1>1. CASE evs = {}
  BY <1>1 DEF LastEventAt
<1>2. CASE evs # {}
  BY <1>2, LatestExists DEF LastEventAt, EventSet
<1> QED
  BY <1>1, <1>2

\* The recount of any finite set of events is a row of the metric table.
LEMMA MetricPayloadType ==
    ASSUME NEW evs, EventSet(evs), NEW now \in Nat
    PROVE  MetricPayload(evs, now) \in MetricRow
<1> DEFINE feedback == {e \in evs : e.type \in RateEventTypes}
           window == {e \in feedback : e.created >= now - FeedbackWindowDays}
           Rate(type) == Percentage(Cardinality(OfType(window, type)),
                                    Cardinality(window))
<1>1. \A S \in SUBSET evs : IsFiniteSet(S) /\ Cardinality(S) \in Nat
  BY FS_Subset, FS_CardinalityType DEF EventSet
<1>2. \A type : OfType(feedback, type) \in SUBSET evs /\ OfType(window, type) \in SUBSET evs
  BY DEF OfType
<1>3. \A type : Cardinality(OfType(feedback, type)) \in Nat
  BY <1>1, <1>2
<1>4. \A type : Rate(type) \in Nat
  BY <1>1, <1>2, PercentageType
<1>5. Cardinality(feedback) \in Nat /\ Cardinality(window) \in Nat
  BY <1>1
<1>6. \A f, d : RelearningDecision(f, d, FALSE) \in Reasons
  BY DEF RelearningDecision, Reasons
<1>7. LastEventAt(evs) \in Nat \union {Never}
  BY LastEventAtType
<1> HIDE DEF feedback, window, Rate
<1> QED
  BY <1>3, <1>4, <1>5, <1>6, <1>7 DEF MetricPayload, MetricRow, feedback, window, Rate

\* Writing the changed columns of one row over another gives a row.
LEMMA UpdateColumnsType ==
    ASSUME NEW stored \in MetricRow, NEW loaded \in MetricRow, NEW payload \in MetricRow
    PROVE  UpdateColumns(stored, loaded, payload) \in MetricRow
BY DEF UpdateColumns, MetricRow

\* Where nobody wrote since the row was loaded, the update stores the recount.
LEMMA UpdateColumnsReplaces ==
    ASSUME NEW stored \in MetricRow, NEW payload \in MetricRow
    PROVE  UpdateColumns(stored, stored, payload) = payload
BY DEF UpdateColumns, MetricRow

\* Rates are compared after rounding, so "20 percent" begins at 19.5: a tie
\* goes to the even neighbour, which is 20 here.
THEOREM DownvoteThreshold ==
    ASSUME NEW count \in Nat, NEW total \in Nat, total > 0
    PROVE  Percentage(count, total) >= DownvoteRateThreshold <=> 200 * count >= 39 * total
<1> DEFINE f == (100 * count) \div total
           r == (100 * count) % total
<1>1. f \in Nat /\ r \in 0..(total - 1) /\ 100 * count = total * f + r
  OBVIOUS
<1> HIDE DEF f, r
<1>2. CASE f >= 20
  <2>1. total * f >= total * 20
    BY <1>1, <1>2
  <2> QED
    BY <1>1, <1>2, <2>1 DEF Percentage, DownvoteRateThreshold, f, r
<1>3. CASE f = 19
  BY <1>1, <1>3 DEF Percentage, DownvoteRateThreshold, f, r
<1>4. CASE f <= 18
  <2>1. total * f <= total * 18
    BY <1>1, <1>4
  <2> QED
    BY <1>1, <1>4, <2>1 DEF Percentage, DownvoteRateThreshold, f, r
<1> QED
  BY <1>1, <1>2, <1>3, <1>4

\* "30 percent" begins at 29.5.
THEOREM FailureThreshold ==
    ASSUME NEW count \in Nat, NEW total \in Nat, total > 0
    PROVE  Percentage(count, total) >= FailureRateThreshold <=> 200 * count >= 59 * total
<1> DEFINE f == (100 * count) \div total
           r == (100 * count) % total
<1>1. f \in Nat /\ r \in 0..(total - 1) /\ 100 * count = total * f + r
  OBVIOUS
<1> HIDE DEF f, r
<1>2. CASE f >= 30
  <2>1. total * f >= total * 30
    BY <1>1, <1>2
  <2> QED
    BY <1>1, <1>2, <2>1 DEF Percentage, FailureRateThreshold, f, r
<1>3. CASE f = 29
  BY <1>1, <1>3 DEF Percentage, FailureRateThreshold, f, r
<1>4. CASE f <= 28
  <2>1. total * f <= total * 28
    BY <1>1, <1>4
  <2> QED
    BY <1>1, <1>4, <2>1 DEF Percentage, FailureRateThreshold, f, r
<1> QED
  BY <1>1, <1>2, <1>3, <1>4

(* The transactions                                                        *)

\* What the fields of a transaction have to do with its operation and its
\* progress.
TxShape(t) ==
    /\ t.pc = "idle" <=> t.op = "none"
    /\ t.op # "none" => t.resource \in ResourceIds
    /\ t.op \in {"submit", "disable"} <=> t.row # NoRow
    /\ t.pc = "commit" /\ t.op # "delete" => t.payload # NoRow
    /\ t.op \notin {"submit", "disable", "delete"} => t.held = {} /\ t.loaded = {}
    /\ t.pc = "commit" => t.loaded = {}
    /\ Len(t.ids) <= Len(Listed(t))
    /\ t.pc = "commit" /\ t.op = "submit" => Len(t.ids) = Len(Listed(t))
    /\ \A i, j \in DOMAIN t.ids : i < j => t.ids[i] < t.ids[j]

\* The ids a transaction drew are past ones, the rows it wrote are still
\* there, and no other transaction holds a row it holds.
TxInv ==
    /\ \A w \in Workers :
          /\ TxShape(tx[w])
          /\ Added(tx[w]) \subseteq 1..lastPatch
          /\ \A p \in tx[w].held : patches[p] # NoRow
    /\ \A v, w \in Workers : v # w => tx[v].held \intersect tx[w].held = {}

\* From an insert to the commit the patches on record with its key are older
\* than the one inserted, and the active ones are about to end.
FreshInv ==
    /\ \A p \in PatchIds : patches[p] # NoRow => p <= lastPatch
    /\ \A w \in Workers : \A i \in DOMAIN tx[w].ids : \A p \in PatchIds :
          patches[p] # NoRow /\ Key(patches[p]) = KeyAt(tx[w], i) =>
             /\ p < tx[w].ids[i]
             /\ IsActive(p) => p \in tx[w].held
    /\ \A v, w \in Workers :
          v # w => LockedKeys(v) \intersect LockedKeys(w) = {}

TypeInv == TypeOK /\ TxInv
IInv == TypeInv /\ FreshInv /\ NewestActive

------------------------------------------------------------------------------
(* Transactions *)

\* Equal in every field but "solo".
SameTx(s, t) ==
    /\ s.op = t.op /\ s.pc = t.pc /\ s.resource = t.resource /\ s.row = t.row
    /\ s.loaded = t.loaded /\ s.held = t.held /\ s.ids = t.ids
    /\ s.read = t.read /\ s.payload = t.payload
    /\ s.goneLogs = t.goneLogs
    /\ s.goneEvents = t.goneEvents /\ s.goneLearned = t.goneLearned

\* A step of w leaves the transactions of the others alone.
OthersKept(w) == \A v \in Workers \ {w} : SameTx(tx'[v], tx[v])

LEMMA IdleType == Idle \in TxRow /\ TxShape(Idle) /\ Added(Idle) = {}
BY BoundsAssumption, NoRowAssumption DEF Idle, TxRow, TxShape, Listed, Added

\* Opening a transaction adds it and touches no other.
LEMMA OpenStep ==
    ASSUME TypeOK, NEW w \in Workers, NEW t \in TxRow, Open(w, t)
    PROVE  /\ tx' \in [Workers -> TxRow]
           /\ OthersKept(w)
           /\ SameTx(tx'[w], t)
<1>1. tx \in [Workers -> TxRow]
  BY DEF TypeOK
<1>2. \A u \in TxRow : \A b \in BOOLEAN : /\ [u EXCEPT !.solo = b] \in TxRow
                                          /\ SameTx([u EXCEPT !.solo = b], u)
  <2> SUFFICES ASSUME NEW u \in TxRow, NEW b \in BOOLEAN
               PROVE  [u EXCEPT !.solo = b] \in TxRow /\ SameTx([u EXCEPT !.solo = b], u)
    OBVIOUS
  <2>1. [u EXCEPT !.solo = b] \in TxRow
    BY DEF TxRow
  <2>2. SameTx([u EXCEPT !.solo = b], u)
    BY DEF TxRow, SameTx
  <2> QED
    BY <2>1, <2>2
<1>3. \A u \in TxRow : SameTx(u, u)
  BY DEF SameTx
<1>4. \A v \in Workers \ {w} : tx'[v] \in TxRow /\ SameTx(tx'[v], tx[v])
  BY <1>1, <1>2, <1>3 DEF Open
<1>5. tx'[w] \in TxRow /\ SameTx(tx'[w], t)
  BY <1>2 DEF Open
<1> QED
  BY <1>4, <1>5 DEF Open, OthersKept

LEMMA CloseStep ==
    ASSUME TypeOK, NEW w \in Workers, Close(w)
    PROVE  /\ tx' \in [Workers -> TxRow]
           /\ OthersKept(w)
           /\ tx'[w] = Idle
BY IdleType DEF Close, TypeOK, OthersKept, SameTx

\* Changing the transaction of w to t.
LEMMA ChangeStep ==
    ASSUME TypeOK, NEW w \in Workers, NEW t \in TxRow, tx' = [tx EXCEPT ![w] = t]
    PROVE  /\ tx' \in [Workers -> TxRow]
           /\ OthersKept(w)
           /\ tx'[w] = t
BY DEF TypeOK, OthersKept, SameTx

\* What a step of w must show to keep TxInv.
LEMMA TxInvStep ==
    ASSUME TypeInv, NEW w \in Workers, OthersKept(w),
           lastPatch' \in Nat, lastPatch' >= lastPatch,
           TxShape(tx'[w]),
           Added(tx'[w]) \subseteq 1..lastPatch',
           \A p \in tx'[w].held : patches'[p] # NoRow,
           \A v \in Workers \ {w} : tx'[w].held \intersect tx[v].held = {},
           \A v \in Workers \ {w} : \A p \in tx[v].held : patches'[p] # NoRow
    PROVE  TxInv'
<1>1. \A v \in Workers \ {w} :
         /\ TxShape(tx'[v]) <=> TxShape(tx[v])
         /\ Added(tx'[v]) = Added(tx[v])
         /\ tx'[v].held = tx[v].held
  <2> TAKE v \in Workers \ {w}
  <2>1. SameTx(tx'[v], tx[v])
    BY DEF OthersKept
  <2>2. Listed(tx'[v]) = Listed(tx[v])
    BY <2>1 DEF SameTx, Listed
  <2>3. TxShape(tx'[v]) <=> TxShape(tx[v])
    BY <2>1, <2>2 DEF SameTx, TxShape
  <2>4. Added(tx'[v]) = Added(tx[v]) /\ tx'[v].held = tx[v].held
    BY <2>1 DEF SameTx, Added
  <2> QED
    BY <2>3, <2>4
<1>2. lastPatch \in Nat
  BY BoundsAssumption DEF TypeInv, TypeOK
<1>3. \A v \in Workers : TxShape(tx'[v]) /\ Added(tx'[v]) \subseteq 1..lastPatch'
  BY <1>1, <1>2 DEF TypeInv, TxInv
<1>4. \A v \in Workers : \A p \in tx'[v].held : patches'[p] # NoRow
  BY <1>1
<1>5. \A u, v \in Workers : u # v => tx'[u].held \intersect tx'[v].held = {}
  BY <1>1 DEF TypeInv, TxInv
<1> QED
  BY <1>3, <1>4, <1>5 DEF TxInv

\* The committed events of a resource, and those a recount reads, are a
\* finite set of events.
LEMMA EventsAreFinite ==
    ASSUME TypeOK, NEW r, NEW row \in EventRow \union {NoRow}
    PROVE  /\ EventSet({events[e] : e \in EventsOf(r)})
           /\ EventSet({events[e] : e \in EventsOf(r)} \union
                       (IF row = NoRow THEN {} ELSE {row}))
<1> DEFINE E == EventsOf(r)
           T == {events[e] : e \in E}
           f == [e \in E |-> events[e]]
<1>1. IsFiniteSet(E)
  <2>1. E \subseteq EventIds /\ EventIds = 1..MaxEvents
    BY DEF EventsOf, EventIds
  <2>2. IsFiniteSet(1..MaxEvents)
    BY FS_Interval, BoundsAssumption
  <2> QED
    BY <2>1, <2>2, FS_Subset
<1>2. f \in Surjection(E, T)
  BY DEF Surjection
<1>3. IsFiniteSet(T)
  BY <1>1, <1>2, FS_Surjection
<1>4. IsFiniteSet(T \union {row})
  BY <1>3, FS_AddElement
<1>5. \A e \in T : e \in EventRow
  BY DEF EventsOf, TypeOK
<1>6. \A e \in EventRow : e.created \in Nat
  BY DEF EventRow
<1>7. T \union {} = T
  OBVIOUS
<1> HIDE DEF T
<1>8. EventSet(T)
  BY <1>3, <1>5, <1>6 DEF EventSet
<1>9. CASE row = NoRow
  BY <1>7, <1>8, <1>9 DEF T, E
<1>10. CASE row # NoRow
  <2>1. EventSet(T \union {row})
    BY <1>4, <1>5, <1>6, <1>10 DEF EventSet
  <2> QED
    BY <1>8, <1>10, <2>1 DEF T, E
<1> QED
  BY <1>9, <1>10

\* A patch a correction adds is a row of the patch table.
LEMMA NewPatchType ==
    ASSUME NEW t \in TxRow, TxShape(t), NEW i \in DOMAIN t.ids
    PROVE  /\ NewPatch(t, i) \in PatchRow
           /\ Key(NewPatch(t, i)) = KeyAt(t, i)
           /\ t.op = "submit" /\ t.row \in EventRow
           /\ i \in 1..Len(Listed(t)) /\ Listed(t)[i] \in PatchTypes
<1>1. t.ids \in Seq(PatchIds) /\ i \in 1..Len(t.ids) /\ Len(t.ids) \in Nat
  BY DEF TxRow
<1>2. CASE ~(t.op = "submit" /\ t.row.type = "manual_fix_submit")
  <2>1. Len(Listed(t)) = 0
    BY <1>2 DEF Listed
  <2> QED
    BY <1>1, <2>1 DEF TxShape
<1>3. CASE t.op = "submit" /\ t.row.type = "manual_fix_submit"
  <2>1. t.row \in EventRow /\ t.resource \in ResourceIds
    BY <1>3 DEF TxShape, TxRow
  <2>2. Listed(t) \in Seq(PatchTypes)
    BY <1>3, <2>1 DEF Listed, EventRow
  <2>3. i \in 1..Len(Listed(t)) /\ Listed(t)[i] \in PatchTypes
    BY <1>1, <2>2 DEF TxShape
  <2>4. NewPatch(t, i) \in PatchRow
    BY <2>1, <2>3 DEF NewPatch, EventRow, PatchRow
  <2>5. Key(NewPatch(t, i)) = KeyAt(t, i)
    BY DEF Key, NewPatch, KeyAt
  <2> QED
    BY <1>3, <2>1, <2>3, <2>4, <2>5
<1> QED
  BY <1>2, <1>3

\* The key of the next patch, when there is one.
LEMMA ListedType ==
    ASSUME NEW t \in TxRow, TxShape(t)
    PROVE  Listed(t) \in Seq(PatchTypes) /\ Len(Listed(t)) \in Nat
<1>1. CASE t.op = "submit" /\ t.row.type = "manual_fix_submit"
  <2>1. t.row \in EventRow
    BY <1>1 DEF TxShape, TxRow
  <2> QED
    BY <1>1, <2>1 DEF Listed, EventRow
<1>2. CASE ~(t.op = "submit" /\ t.row.type = "manual_fix_submit")
  BY <1>2 DEF Listed
<1> QED
  BY <1>1, <1>2

\* The ids a transaction drew differ from each other.
LEMMA IdsDiffer ==
    ASSUME NEW t \in TxRow, TxShape(t), NEW i \in DOMAIN t.ids, NEW j \in DOMAIN t.ids
    PROVE  /\ t.ids[i] \in PatchIds /\ t.ids[i] \in Added(t)
           /\ t.ids[i] = t.ids[j] => i = j
           /\ i < j => t.ids[i] < t.ids[j]
           /\ (CHOOSE k \in DOMAIN t.ids : t.ids[k] = t.ids[i]) = i
<1>1. /\ t.ids \in Seq(PatchIds) /\ DOMAIN t.ids = 1..Len(t.ids)
      /\ \A k \in DOMAIN t.ids : t.ids[k] \in PatchIds
  BY DEF TxRow
<1>2. PatchIds \subseteq Nat
  BY BoundsAssumption DEF PatchIds
<1>3. \A k, l \in DOMAIN t.ids : t.ids[k] = t.ids[l] => k = l
  <2> SUFFICES ASSUME NEW k \in DOMAIN t.ids, NEW l \in DOMAIN t.ids,
                      t.ids[k] = t.ids[l], k < l
               PROVE  FALSE
    BY <1>1
  <2>1. t.ids[k] < t.ids[l]
    BY DEF TxShape
  <2>2. t.ids[k] \in Nat /\ t.ids[l] \in Nat
    BY <1>1, <1>2
  <2> QED
    BY <2>1, <2>2
<1>4. \E k \in DOMAIN t.ids : t.ids[k] = t.ids[i]
  OBVIOUS
<1> QED
  BY <1>1, <1>3, <1>4 DEF TxShape, Added

\* The row that is written next is one of those loaded.
LEMMA NextRowIsLoaded ==
    ASSUME NEW t \in TxRow, t.loaded # {}
    PROVE  NextRow(t) \in t.loaded /\ NextRow(t) \in PatchIds
<1>1. t.loaded \in SUBSET PatchIds
  BY DEF TxRow
<1>2. IsFiniteSet(t.loaded) /\ t.loaded \in SUBSET Nat
  BY <1>1, FS_Interval, FS_Subset, BoundsAssumption DEF PatchIds
<1>3. \E p \in t.loaded : \A o \in t.loaded : p <= o
  <2> DEFINE S == {MaxPatches - p : p \in t.loaded}
             f == [p \in t.loaded |-> MaxPatches - p]
  <2>1. f \in Surjection(t.loaded, S)
    BY DEF Surjection
  <2>2. IsFiniteSet(S)
    BY <1>2, <2>1, FS_Surjection
  <2>3. S \in SUBSET Nat /\ S # {}
    BY <1>1, BoundsAssumption DEF PatchIds
  <2> HIDE DEF S
  <2>4. PICK m \in S : \A n \in S : n <= m
    BY <2>2, <2>3, LargestExists
  <2>5. PICK p \in t.loaded : m = MaxPatches - p
    BY DEF S
  <2>6. \A o \in t.loaded : MaxPatches - o <= MaxPatches - p
    BY <2>4, <2>5 DEF S
  <2> QED
    BY <1>2, <2>5, <2>6, BoundsAssumption
<1> QED
  BY <1>1, <1>3 DEF NextRow

------------------------------------------------------------------------------
(* Each step keeps TypeInv *)

\* Opening a transaction that holds no locks yet.
LEMMA OpenKeepsTypeInv ==
    ASSUME TypeInv, NEW w \in Workers, NEW t \in TxRow, Open(w, t), TxShape(t),
           t.held = {}, t.ids = <<>>,
           UNCHANGED <<clock, tables, lastPatch, chat>>,
           lastEvent' \in 0..MaxEvents
    PROVE  TypeInv'
<1>1. TypeOK
  BY DEF TypeInv
<1>2. tx' \in [Workers -> TxRow] /\ OthersKept(w) /\ SameTx(tx'[w], t)
  BY <1>1, OpenStep
<1>3. TypeOK'
  BY <1>1, <1>2 DEF TypeOK, tables, IsActive
<1>4. TxShape(tx'[w])
  <2>1. Listed(tx'[w]) = Listed(t)
    BY <1>2 DEF SameTx, Listed
  <2> QED
    BY <1>2, <2>1 DEF SameTx, TxShape
<1>5. Added(tx'[w]) = {} /\ tx'[w].held = {}
  BY <1>2 DEF SameTx, Added
<1>6. /\ lastPatch' \in Nat /\ lastPatch' >= lastPatch /\ patches' = patches
      /\ \A v \in Workers : \A p \in tx[v].held : patches'[p] # NoRow
  BY <1>1, BoundsAssumption DEF TypeOK, tables, TypeInv, TxInv
<1>7. TxInv'
  BY <1>2, <1>4, <1>5, <1>6, TxInvStep
<1> QED
  BY <1>3, <1>7 DEF TypeInv

\* What a submission opens.
LEMMA SubmitTx ==
    ASSUME TypeInv, NEW w \in Workers, NEW r \in ResourceIds, NEW s \in Submissions,
           SubmitFeedbackEvent(w, r, s)
    PROVE  \E t \in TxRow :
              /\ Open(w, t) /\ TxShape(t) /\ t.held = {} /\ t.ids = <<>>
              /\ t.op = "submit" /\ t.pc = "flush" /\ t.resource = r
              /\ t.row \in EventRow /\ t.row.no = lastEvent + 1
              /\ t.row.resource = r /\ t.row.type = s.type
              /\ t.row.created = clock
              /\ t.row.patchTypes = s.patchTypes /\ t.row.sql = s.sql
              /\ t.read = NoRow /\ t.payload = NoRow
              /\ t.loaded = Superseded(t)
              /\ \A p \in t.loaded : /\ p \in PatchIds /\ patches[p] # NoRow
                                     /\ patches[p].resource = r
                                     /\ Key(patches[p]) = KeyAt(t, 1)
                                     /\ Len(Listed(t)) > 0
<1> DEFINE row == [no |-> lastEvent + 1, resource |-> r, type |-> s.type,
                   question |-> s.question, matchedSql |-> s.matchedSql,
                   sql |-> s.sql, patchTypes |-> s.patchTypes, patch |-> 0,
                   created |-> clock]
           u == [Idle EXCEPT !.op = "submit", !.pc = "flush", !.resource = r,
                             !.row = row]
           S == Superseded(u)
           t == [u EXCEPT !.loaded = S]
<1>1. row \in EventRow
  BY SubmissionAssumption, BoundsAssumption
     DEF SubmitFeedbackEvent, TypeInv, TypeOK, Submission, EventRow, EventIds, EventTypes
<1>2. /\ row.no = lastEvent + 1 /\ row.resource = r /\ row.type = s.type
      /\ row.created = clock /\ row.patchTypes = s.patchTypes /\ row.sql = s.sql
  OBVIOUS
<1>3. Open(w, t)
  BY DEF SubmitFeedbackEvent
<1> HIDE DEF row
<1>4. /\ u.op = "submit" /\ u.row = row /\ u.resource = r /\ u.held = {} /\ u.ids = <<>>
      /\ u.pc = "flush" /\ u.read = NoRow /\ u.payload = NoRow /\ u.loaded = {}
      /\ u \in TxRow
  BY <1>1, IdleType DEF Idle, TxRow
<1>5. Superseded(u) \in SUBSET PatchIds
  BY DEF Superseded, PatchesOf
<1>6. /\ t.op = u.op /\ t.row = u.row /\ t.resource = u.resource /\ t.held = u.held
      /\ t.ids = u.ids /\ t.pc = u.pc /\ t.read = u.read /\ t.payload = u.payload
      /\ t.loaded = S /\ t \in TxRow
  <2>1. S \in SUBSET PatchIds
    BY <1>5
  <2> HIDE DEF S, u
  <2>2. t \in TxRow
    BY <1>4, <2>1 DEF TxRow
  <2>3. /\ t.op = u.op /\ t.row = u.row /\ t.resource = u.resource /\ t.held = u.held
        /\ t.ids = u.ids /\ t.pc = u.pc /\ t.read = u.read /\ t.payload = u.payload
        /\ t.loaded = S
    BY <1>4 DEF TxRow
  <2> QED
    BY <2>2, <2>3
<1> HIDE DEF u, t
<1>7. Listed(t) = Listed(u) /\ KeyAt(t, 1) = KeyAt(u, 1)
  BY <1>6 DEF Listed, KeyAt
<1>8. Superseded(t) = S
  BY <1>6, <1>7 DEF Superseded, NextKey, KeyAt
<1>9. row # NoRow
  BY <1>1, NoRowAssumption
<1>10. Listed(t) \in Seq(PatchTypes) /\ Len(Listed(t)) \in Nat
  <2>1. row.patchTypes \in Seq(PatchTypes)
    BY <1>1 DEF EventRow
  <2> QED
    BY <1>4, <1>6, <2>1 DEF Listed
<1>11. TxShape(t)
  BY <1>4, <1>6, <1>9, <1>10 DEF TxShape
<1>12. \A p \in S : /\ p \in PatchIds /\ patches[p] # NoRow
                    /\ patches[p].resource = r
                    /\ Key(patches[p]) = KeyAt(t, 1)
                    /\ Len(Listed(t)) > 0
  BY <1>4, <1>7, <1>10 DEF Superseded, PatchesOf, NextKey
<1> QED
  BY <1>1, <1>2, <1>3, <1>4, <1>6, <1>8, <1>11, <1>12

LEMMA SubmitKeepsTypeInv ==
    ASSUME TypeInv, NEW w \in Workers, NEW r \in ResourceIds, NEW s \in Submissions,
           SubmitFeedbackEvent(w, r, s)
    PROVE  TypeInv'
<1>1. PICK t \in TxRow : Open(w, t) /\ TxShape(t) /\ t.held = {} /\ t.ids = <<>>
  BY SubmitTx
<1>2. lastEvent' \in 0..MaxEvents
  BY BoundsAssumption DEF SubmitFeedbackEvent, TypeInv, TypeOK
<1>3. UNCHANGED <<clock, tables, lastPatch, chat>>
  BY DEF SubmitFeedbackEvent
<1> QED
  BY <1>1, <1>2, <1>3, OpenKeepsTypeInv

\* What disabling a patch opens.
LEMMA DisableTx ==
    ASSUME TypeInv, NEW w \in Workers, NEW r \in ResourceIds, NEW p \in PatchIds,
           DisablePatch(w, r, p)
    PROVE  \E t \in TxRow :
              /\ Open(w, t) /\ TxShape(t) /\ t.held = {} /\ t.ids = <<>>
              /\ t.op = "disable" /\ t.pc = "flush" /\ t.resource = r
              /\ t.row \in EventRow /\ t.row.no = lastEvent + 1
              /\ t.row.resource = r /\ t.row.type = "manual_fix_disable"
              /\ t.row.patch = p /\ t.row.created = clock
              /\ t.read = NoRow /\ t.payload = NoRow
              /\ p \in t.loaded <=> IsActive(p)
              /\ \A o \in t.loaded : o = p
<1> DEFINE row == [no |-> lastEvent + 1, resource |-> r, type |-> "manual_fix_disable",
                   question |-> patches[p].question,
                   matchedSql |-> patches[p].matchedSql, sql |-> NoText,
                   patchTypes |-> <<patches[p].type>>, patch |-> p,
                   created |-> clock]
           L == IF IsActive(p) THEN {p} ELSE {}
           t == [Idle EXCEPT !.op = "disable", !.pc = "flush", !.resource = r,
                             !.row = row, !.loaded = L]
<1>1. patches[p] \in PatchRow
  BY DEF DisablePatch, PatchesOf, TypeInv, TypeOK
<1>2. <<patches[p].type>> \in Seq(PatchTypes)
  BY <1>1 DEF PatchRow
<1>3. row \in EventRow
  BY <1>1, <1>2, BoundsAssumption
     DEF DisablePatch, TypeInv, TypeOK, PatchRow, EventRow, EventIds, EventTypes, Sqls
<1>4. /\ row.no = lastEvent + 1 /\ row.resource = r /\ row.type = "manual_fix_disable"
      /\ row.patch = p /\ row.created = clock
  OBVIOUS
<1>5. Open(w, t)
  BY DEF DisablePatch
<1>6. L \in SUBSET PatchIds
  OBVIOUS
<1> HIDE DEF row, L
<1>7. /\ t.op = "disable" /\ t.pc = "flush" /\ t.resource = r /\ t.row = row
      /\ t.held = {} /\ t.ids = <<>> /\ t.read = NoRow /\ t.payload = NoRow
      /\ t.loaded = L /\ t \in TxRow
  BY <1>3, <1>6, IdleType DEF Idle, TxRow
<1> HIDE DEF t
<1>8. Listed(t) = <<>>
  BY <1>7 DEF Listed
<1>9. TxShape(t)
  BY <1>3, <1>7, <1>8, NoRowAssumption DEF TxShape
<1> QED
  BY <1>3, <1>4, <1>5, <1>7, <1>9 DEF L

LEMMA DisableKeepsTypeInv ==
    ASSUME TypeInv, NEW w \in Workers, NEW r \in ResourceIds, NEW p \in PatchIds,
           DisablePatch(w, r, p)
    PROVE  TypeInv'
<1>1. PICK t \in TxRow : Open(w, t) /\ TxShape(t) /\ t.held = {} /\ t.ids = <<>>
  BY DisableTx
<1>2. lastEvent' \in 0..MaxEvents
  BY BoundsAssumption DEF DisablePatch, TypeInv, TypeOK
<1>3. UNCHANGED <<clock, tables, lastPatch, chat>>
  BY DEF DisablePatch
<1> QED
  BY <1>1, <1>2, <1>3, OpenKeepsTypeInv

\* What the computation of a missing metric row opens.
LEMMA GetMetricTx ==
    ASSUME TypeInv, NEW w \in Workers, NEW r \in ResourceIds, GetFeedbackMetric(w, r)
    PROVE  \E t \in TxRow :
              /\ Open(w, t) /\ TxShape(t) /\ t.held = {} /\ t.ids = <<>>
              /\ t.op = "metric" /\ t.pc = "commit" /\ t.resource = r /\ t.row = NoRow
              /\ t.loaded = {} /\ t.read = NoRow
              /\ t.payload = MetricPayload(RowsOf(events, r), clock)
              /\ t.payload \in MetricRow
<1> DEFINE payload == MetricPayload({events[e] : e \in EventsOf(r)}, clock)
           t == [Idle EXCEPT !.op = "metric", !.pc = "commit", !.resource = r,
                             !.payload = payload]
<1>1. clock \in Nat
  BY BoundsAssumption DEF TypeInv, TypeOK
<1>2. payload \in MetricRow
  BY <1>1, EventsAreFinite, MetricPayloadType DEF TypeInv
<1>3. Open(w, t)
  BY DEF GetFeedbackMetric
<1> HIDE DEF payload
<1>4. /\ t.op = "metric" /\ t.pc = "commit" /\ t.resource = r /\ t.row = NoRow
      /\ t.held = {} /\ t.ids = <<>> /\ t.read = NoRow /\ t.payload = payload
      /\ t.loaded = {} /\ t \in TxRow
  BY <1>2, IdleType DEF Idle, TxRow
<1> HIDE DEF t
<1>5. Listed(t) = <<>>
  BY <1>4 DEF Listed
<1>6. TxShape(t)
  BY <1>2, <1>4, <1>5, NoRowAssumption DEF TxShape
<1>7. payload = MetricPayload(RowsOf(events, r), clock)
  BY DEF payload, RowsOf, EventsOf
<1> QED
  BY <1>2, <1>3, <1>4, <1>6, <1>7

LEMMA GetMetricKeepsTypeInv ==
    ASSUME TypeInv, NEW w \in Workers, NEW r \in ResourceIds, GetFeedbackMetric(w, r)
    PROVE  TypeInv'
<1>1. PICK t \in TxRow : Open(w, t) /\ TxShape(t) /\ t.held = {} /\ t.ids = <<>>
  BY GetMetricTx
<1>2. UNCHANGED <<clock, tables, lastPatch, chat>> /\ lastEvent' \in 0..MaxEvents
  BY DEF GetFeedbackMetric, TypeInv, TypeOK, sequences
<1> QED
  BY <1>1, <1>2, OpenKeepsTypeInv

\* What a deletion opens.
LEMMA DeleteTx ==
    ASSUME TypeInv, NEW w \in Workers, NEW r \in ResourceIds, DeleteResource(w, r)
    PROVE  \E t \in TxRow :
              /\ Open(w, t) /\ TxShape(t) /\ t.held = {} /\ t.ids = <<>>
              /\ t.op = "delete" /\ t.pc = "flush" /\ t.resource = r /\ t.row = NoRow
              /\ t.loaded = PatchesOf(r) /\ t.goneLogs = LogsOf(r)
              /\ t.read = NoRow /\ t.goneEvents = {}
<1> DEFINE L == PatchesOf(r)
           G == LogsOf(r)
           t == [Idle EXCEPT !.op = "delete", !.pc = "flush", !.resource = r,
                             !.goneLogs = G, !.loaded = L]
<1>1. G \subseteq ResourceIds \X PatchIds /\ L \subseteq PatchIds
  BY DEF LogsOf, PatchesOf, TypeInv, TypeOK
<1>2. Open(w, t)
  BY DEF DeleteResource
<1> HIDE DEF G, L
<1>3. /\ t.op = "delete" /\ t.pc = "flush" /\ t.resource = r /\ t.row = NoRow
      /\ t.held = {} /\ t.ids = <<>> /\ t.read = NoRow /\ t.goneLogs = G
      /\ t.goneEvents = {} /\ t.loaded = L /\ t \in TxRow
  BY <1>1, IdleType DEF Idle, TxRow
<1> HIDE DEF t
<1>4. Listed(t) = <<>>
  BY <1>3 DEF Listed
<1>5. TxShape(t)
  BY <1>3, <1>4 DEF TxShape
<1> QED
  BY <1>2, <1>3, <1>5 DEF G, L

LEMMA DeleteKeepsTypeInv ==
    ASSUME TypeInv, NEW w \in Workers, NEW r \in ResourceIds, DeleteResource(w, r)
    PROVE  TypeInv'
<1>1. PICK t \in TxRow : Open(w, t) /\ TxShape(t) /\ t.held = {} /\ t.ids = <<>>
  BY DeleteTx
<1>2. UNCHANGED <<clock, tables, lastPatch, chat>> /\ lastEvent' \in 0..MaxEvents
  BY DEF DeleteResource, TypeInv, TypeOK, sequences
<1> QED
  BY <1>1, <1>2, OpenKeepsTypeInv

\* What writing the next row makes of the transaction of w.
LEMMA WriteTx ==
    ASSUME TypeInv, NEW w \in Workers, WritePatch(w)
    PROVE  \E t \in TxRow, p \in tx[w].loaded :
              /\ p = NextRow(tx[w]) /\ tx' = [tx EXCEPT ![w] = t] /\ tx'[w] = t
              /\ t.op = tx[w].op /\ t.pc = "flush" /\ tx[w].pc = "flush"
              /\ t.resource = tx[w].resource
              /\ t.row = tx[w].row /\ t.ids = tx[w].ids /\ t.read = tx[w].read
              /\ t.payload = tx[w].payload /\ t.goneEvents = tx[w].goneEvents
              /\ t.solo = tx[w].solo /\ t.loaded = tx[w].loaded \ {p}
              /\ patches[p] = NoRow => t.held = tx[w].held /\ tx[w].op = "delete"
              /\ patches[p] # NoRow => t.held = tx[w].held \union {p}
              /\ \A v \in Workers \ {w} : p \notin tx[v].held
              /\ TxShape(t) /\ Listed(t) = Listed(tx[w]) /\ Added(t) = Added(tx[w])
<1> DEFINE p == NextRow(tx[w])
           H == {o \in tx[w].held \union {p} : patches[o] # NoRow}
           L == tx[w].loaded \ {p}
           t == [tx[w] EXCEPT !.loaded = L, !.held = H]
<1>1. /\ tx \in [Workers -> TxRow] /\ tx[w] \in TxRow /\ TxShape(tx[w])
      /\ tx[w].loaded # {} /\ tx[w].pc = "flush"
      /\ \A o \in tx[w].held : patches[o] # NoRow
  BY DEF WritePatch, Writing, TypeInv, TypeOK, TxInv
<1>2. p \in tx[w].loaded /\ p \in PatchIds
  BY <1>1, NextRowIsLoaded
<1>3. tx' = [tx EXCEPT ![w] = t]
  BY DEF WritePatch
<1>4. H = IF patches[p] = NoRow THEN tx[w].held ELSE tx[w].held \union {p}
  BY <1>1
<1>5. patches[p] = NoRow => tx[w].op = "delete"
  BY DEF WritePatch, RowGone
<1>6. \A v \in Workers \ {w} : p \notin tx[v].held
  BY DEF WritePatch, Blocked, Awaits, LockedPatches
<1>7. H \in SUBSET PatchIds /\ L \in SUBSET PatchIds
  BY <1>1, <1>2 DEF TxRow
<1> HIDE DEF p, H, L
<1>8. /\ t.op = tx[w].op /\ t.pc = "flush" /\ t.resource = tx[w].resource
      /\ t.row = tx[w].row /\ t.ids = tx[w].ids /\ t.read = tx[w].read
      /\ t.payload = tx[w].payload /\ t.goneEvents = tx[w].goneEvents
      /\ t.solo = tx[w].solo /\ t.loaded = L /\ t.held = H /\ t \in TxRow
  BY <1>1, <1>7 DEF TxRow
<1>9. tx'[w] = t
  BY <1>1, <1>3
<1> HIDE DEF t
<1>10. Listed(t) = Listed(tx[w]) /\ Added(t) = Added(tx[w])
  BY <1>8 DEF Listed, Added
<1>11. tx[w].op \in {"submit", "disable", "delete"}
  BY <1>1 DEF TxShape
<1>12. TxShape(t)
  BY <1>1, <1>8, <1>10, <1>11 DEF TxShape
<1> QED
  BY <1>1, <1>2, <1>3, <1>4, <1>5, <1>6, <1>8, <1>9, <1>10, <1>12 DEF L, p

\* A step within the transaction of w that leaves the tables alone.
LEMMA MoveKeepsTypeInv ==
    ASSUME TypeInv, NEW w \in Workers, NEW t \in TxRow,
           tx' = [tx EXCEPT ![w] = t], TxShape(t),
           UNCHANGED <<clock, tables, lastEvent, chat>>,
           lastPatch' \in 0..MaxPatches, lastPatch' >= lastPatch,
           Added(t) \subseteq 1..lastPatch',
           \A p \in t.held : patches[p] # NoRow,
           \A v \in Workers \ {w} : t.held \intersect tx[v].held = {}
    PROVE  TypeInv'
<1>1. TypeOK
  BY DEF TypeInv
<1>2. tx' \in [Workers -> TxRow] /\ OthersKept(w) /\ tx'[w] = t
  BY <1>1, ChangeStep
<1>3. TypeOK'
  BY <1>1, <1>2 DEF TypeOK, tables
<1>4. lastPatch' \in Nat /\ patches' = patches
  BY <1>1, BoundsAssumption DEF TypeOK, tables
<1>5. \A v \in Workers : \A p \in tx[v].held : patches'[p] # NoRow
  BY <1>4 DEF TypeInv, TxInv
<1>6. TxInv'
  BY <1>2, <1>4, <1>5, TxInvStep
<1> QED
  BY <1>3, <1>6 DEF TypeInv

LEMMA WriteKeepsTypeInv ==
    ASSUME TypeInv, NEW w \in Workers, WritePatch(w)
    PROVE  TypeInv'
<1>1. PICK t \in TxRow, p \in tx[w].loaded :
         /\ tx' = [tx EXCEPT ![w] = t] /\ TxShape(t) /\ Added(t) = Added(tx[w])
         /\ patches[p] = NoRow => t.held = tx[w].held
         /\ patches[p] # NoRow => t.held = tx[w].held \union {p}
         /\ \A v \in Workers \ {w} : p \notin tx[v].held
  BY WriteTx
<1>2. UNCHANGED <<clock, tables, lastEvent, lastPatch, chat>>
  BY DEF WritePatch, sequences
<1>3. lastPatch \in 0..MaxPatches /\ lastPatch >= lastPatch
  BY BoundsAssumption DEF TypeInv, TypeOK
<1>4. /\ Added(t) \subseteq 1..lastPatch
      /\ \A o \in t.held : patches[o] # NoRow
      /\ \A v \in Workers \ {w} : t.held \intersect tx[v].held = {}
  BY <1>1 DEF TypeInv, TxInv
<1> QED
  BY <1>1, <1>2, <1>3, <1>4, MoveKeepsTypeInv

\* What inserting the patch of one type makes of the transaction of w.
LEMMA InsertTx ==
    ASSUME TypeInv, NEW w \in Workers, InsertPatch(w)
    PROVE  /\ lastPatch \in Nat /\ lastPatch' = lastPatch + 1 /\ lastPatch' \in PatchIds
           /\ \E t \in TxRow :
              /\ tx' = [tx EXCEPT ![w] = t] /\ tx'[w] = t
              /\ t.op = "submit" /\ tx[w].op = "submit"
              /\ t.pc = "flush" /\ tx[w].pc = "flush"
              /\ t.resource = tx[w].resource
              /\ t.row = tx[w].row /\ t.row \in EventRow
              /\ t.row.type = "manual_fix_submit"
              /\ t.ids = Append(tx[w].ids, lastPatch') /\ t.read = tx[w].read
              /\ Len(tx[w].ids) \in Nat
              /\ t.payload = tx[w].payload /\ t.goneEvents = tx[w].goneEvents
              /\ t.solo = tx[w].solo /\ t.held = tx[w].held
              /\ tx[w].loaded = {} /\ t.loaded = Superseded(t)
              /\ \A p \in t.loaded : /\ p \in PatchIds /\ patches[p] # NoRow
                                     /\ patches[p].resource = t.resource
                                     /\ \E i \in 1..Len(Listed(t)) :
                                           Key(patches[p]) = KeyAt(t, i)
              /\ TxShape(t) /\ Listed(t) = Listed(tx[w])
              /\ Added(t) = Added(tx[w]) \union {lastPatch'}
<1> DEFINE ids == Append(tx[w].ids, lastPatch + 1)
           u == [tx[w] EXCEPT !.ids = ids]
           S == Superseded(u)
           t == [u EXCEPT !.loaded = S]
           n == Len(tx[w].ids)
<1>1. /\ tx \in [Workers -> TxRow] /\ tx[w] \in TxRow /\ TxShape(tx[w])
      /\ tx[w].loaded = {} /\ tx[w].pc = "flush"
      /\ Added(tx[w]) \subseteq 1..lastPatch
      /\ n < Len(Listed(tx[w]))
  BY DEF InsertPatch, Inserting, Flushed, TypeInv, TypeOK, TxInv
<1>2. lastPatch \in Nat /\ lastPatch' = lastPatch + 1 /\ lastPatch' \in PatchIds
  BY BoundsAssumption DEF InsertPatch, OutOfPatchIds, TypeInv, TypeOK, PatchIds
<1>3. /\ tx[w].ids \in Seq(PatchIds) /\ n \in Nat
      /\ Listed(tx[w]) \in Seq(PatchTypes) /\ Len(Listed(tx[w])) \in Nat
  BY <1>1, ListedType DEF TxRow
<1>4. tx[w].op = "submit" /\ tx[w].row.type = "manual_fix_submit" /\ tx[w].row \in EventRow
  <2>1. tx[w].op = "submit" /\ tx[w].row.type = "manual_fix_submit"
    BY <1>1, <1>3 DEF Listed
  <2> QED
    BY <1>1, <2>1 DEF TxShape, TxRow
<1>5. tx' = [tx EXCEPT ![w] = t]
  BY DEF InsertPatch
<1>6. /\ ids \in Seq(PatchIds) /\ Len(ids) = n + 1
      /\ \A i \in 1..n : ids[i] = tx[w].ids[i]
      /\ ids[n + 1] = lastPatch' /\ DOMAIN ids = 1..(n + 1)
      /\ DOMAIN tx[w].ids = 1..n
  BY <1>2, <1>3
<1>7. S \in SUBSET PatchIds
  BY DEF Superseded, PatchesOf
<1>8. ids = Append(tx[w].ids, lastPatch')
  BY <1>2
<1> HIDE DEF ids, S
<1>9. /\ u.op = tx[w].op /\ u.pc = "flush" /\ u.resource = tx[w].resource
      /\ u.row = tx[w].row /\ u.ids = ids /\ u.read = tx[w].read
      /\ u.payload = tx[w].payload /\ u.goneEvents = tx[w].goneEvents
      /\ u.solo = tx[w].solo /\ u.held = tx[w].held /\ u \in TxRow
  BY <1>1, <1>6 DEF TxRow
<1> HIDE DEF u
<1>10. /\ t.op = u.op /\ t.pc = "flush" /\ t.resource = u.resource
       /\ t.row = u.row /\ t.ids = ids /\ t.read = u.read
       /\ t.payload = u.payload /\ t.goneEvents = u.goneEvents
       /\ t.solo = u.solo /\ t.held = u.held /\ t.loaded = S /\ t \in TxRow
  BY <1>7, <1>9 DEF TxRow
<1>11. tx'[w] = t
  BY <1>1, <1>5
<1> HIDE DEF t
<1>12. Listed(t) = Listed(tx[w]) /\ Listed(u) = Listed(tx[w])
  BY <1>9, <1>10 DEF Listed
<1>13. Superseded(t) = S
  BY <1>9, <1>10, <1>12 DEF Superseded, NextKey, KeyAt, S
<1>14. Added(t) = Added(tx[w]) \union {lastPatch'}
  <2>1. Added(t) = {ids[i] : i \in 1..(n + 1)} /\ Added(tx[w]) = {ids[i] : i \in 1..n}
    BY <1>6, <1>10 DEF Added
  <2>2. 1..(n + 1) = 1..n \union {n + 1}
    BY <1>3
  <2> QED
    BY <1>6, <2>1, <2>2
<1>15. \A i, j \in DOMAIN ids : i < j => ids[i] < ids[j]
  <2> SUFFICES ASSUME NEW i \in 1..(n + 1), NEW j \in 1..(n + 1), i < j
               PROVE  ids[i] < ids[j]
    BY <1>6
  <2>1. i \in 1..n
    BY <1>3
  <2>4. tx[w].ids[i] \in Added(tx[w])
    BY <1>6, <2>1 DEF Added
  <2>5. tx[w].ids[i] \in 1..lastPatch
    BY <1>1, <2>4
  <2>2. CASE j = n + 1
    BY <1>2, <1>6, <2>1, <2>2, <2>5
  <2>3. CASE j # n + 1
    <3>1. j \in 1..n
      BY <1>3, <2>3
    <3> QED
      BY <1>1, <1>6, <2>1, <3>1 DEF TxShape
  <2> QED
    BY <2>2, <2>3
<1>16. TxShape(t)
  BY <1>1, <1>3, <1>4, <1>6, <1>9, <1>10, <1>12, <1>15 DEF TxShape
<1>17. \A p \in S : /\ p \in PatchIds /\ patches[p] # NoRow
                    /\ patches[p].resource = t.resource
                    /\ \E i \in 1..Len(Listed(t)) : Key(patches[p]) = KeyAt(t, i)
  <2> SUFFICES ASSUME NEW p \in S
               PROVE  /\ p \in PatchIds /\ patches[p] # NoRow
                      /\ patches[p].resource = t.resource
                      /\ \E i \in 1..Len(Listed(t)) : Key(patches[p]) = KeyAt(t, i)
    OBVIOUS
  <2>1. p \in Superseded(t)
    BY <1>13
  <2>2. Len(t.ids) < Len(Listed(t)) /\ Key(patches[p]) = KeyAt(t, Len(t.ids) + 1)
    BY <2>1 DEF Superseded, NextKey
  <2>3. Len(t.ids) + 1 \in 1..Len(Listed(t))
    BY <1>3, <1>6, <1>10, <1>12, <2>2
  <2>4. p \in PatchIds /\ patches[p] # NoRow /\ patches[p].resource = t.resource
    BY <2>1 DEF Superseded, PatchesOf
  <2> QED
    BY <2>2, <2>3, <2>4
<1>18. /\ t.op = "submit" /\ t.resource = tx[w].resource /\ t.row = tx[w].row
       /\ t.read = tx[w].read /\ t.payload = tx[w].payload
       /\ t.goneEvents = tx[w].goneEvents /\ t.solo = tx[w].solo
       /\ t.held = tx[w].held
  BY <1>4, <1>9, <1>10
<1>19. t.ids = Append(tx[w].ids, lastPatch') /\ t.pc = "flush" /\ t \in TxRow
       /\ t.loaded = Superseded(t) /\ t.loaded = S
  BY <1>8, <1>10, <1>13
<1> QED
  BY <1>1, <1>2, <1>3, <1>4, <1>5, <1>11, <1>12, <1>14, <1>16, <1>17, <1>18, <1>19

LEMMA InsertKeepsTypeInv ==
    ASSUME TypeInv, NEW w \in Workers, InsertPatch(w)
    PROVE  TypeInv'
<1>1. lastPatch \in Nat /\ lastPatch' = lastPatch + 1 /\ lastPatch' \in PatchIds
  BY InsertTx
<1>2. PICK t \in TxRow :
         /\ tx' = [tx EXCEPT ![w] = t] /\ TxShape(t) /\ t.held = tx[w].held
         /\ Added(t) = Added(tx[w]) \union {lastPatch'}
  BY InsertTx
<1>3. UNCHANGED <<clock, tables, lastEvent, chat>>
  BY DEF InsertPatch
<1>4. lastPatch' \in 0..MaxPatches /\ lastPatch' >= lastPatch
  BY <1>1, BoundsAssumption DEF PatchIds
<1>5. /\ Added(tx[w]) \subseteq 1..lastPatch
      /\ \A o \in t.held : patches[o] # NoRow
      /\ \A v \in Workers \ {w} : t.held \intersect tx[v].held = {}
  BY <1>2 DEF TypeInv, TxInv
<1>6. Added(t) \subseteq 1..lastPatch'
  BY <1>1, <1>2, <1>5
<1> QED
  BY <1>2, <1>3, <1>4, <1>5, <1>6, MoveKeepsTypeInv

\* What the recount makes of the transaction of w.
LEMMA CountTx ==
    ASSUME TypeInv, NEW w \in Workers, CountFeedback(w)
    PROVE  \E t \in TxRow :
              /\ tx' = [tx EXCEPT ![w] = t] /\ tx'[w] = t
              /\ tx[w].pc = "flush" /\ tx[w].loaded = {} /\ t.loaded = {}
              /\ t.op = tx[w].op /\ t.op \in {"submit", "disable"} /\ t.pc = "commit"
              /\ t.resource = tx[w].resource /\ t.resource \in ResourceIds
              /\ t.row = tx[w].row /\ t.row \in EventRow /\ t.ids = tx[w].ids
              /\ t.read = metric[t.resource]
              /\ t.payload = MetricPayload(VisibleEvents(t), clock)
              /\ t.payload \in MetricRow
              /\ t.goneEvents = tx[w].goneEvents /\ t.solo = tx[w].solo
              /\ t.held = tx[w].held
              /\ TxShape(t) /\ Listed(t) = Listed(tx[w]) /\ Added(t) = Added(tx[w])
<1> DEFINE payload == MetricPayload(VisibleEvents(tx[w]), clock)
           t == [tx[w] EXCEPT !.pc = "commit", !.read = metric[tx[w].resource],
                              !.payload = payload]
<1>1. /\ tx \in [Workers -> TxRow] /\ tx[w] \in TxRow /\ TxShape(tx[w])
      /\ tx[w].pc = "flush" /\ tx[w].loaded = {} /\ clock \in Nat
      /\ tx[w].op \in {"submit", "disable"}
      /\ ~(Len(tx[w].ids) < Len(Listed(tx[w])))
  BY BoundsAssumption DEF CountFeedback, Flushed, Inserting, TypeInv, TypeOK, TxInv
<1>2. tx[w].row \in EventRow /\ tx[w].resource \in ResourceIds
  BY <1>1 DEF TxShape, TxRow
<1>3. payload \in MetricRow
  BY <1>1, <1>2, EventsAreFinite, MetricPayloadType DEF VisibleEvents, TypeInv
<1>4. metric[tx[w].resource] \in MetricRow \union {NoRow}
  BY <1>2 DEF TypeOK, TypeInv
<1>5. tx' = [tx EXCEPT ![w] = t]
  BY DEF CountFeedback
<1>6. tx'[w] = t
  BY <1>1, <1>5
<1> HIDE DEF payload
<1>7. /\ t.op = tx[w].op /\ t.pc = "commit" /\ t.resource = tx[w].resource
      /\ t.row = tx[w].row /\ t.ids = tx[w].ids /\ t.read = metric[tx[w].resource]
      /\ t.payload = payload /\ t.goneEvents = tx[w].goneEvents
      /\ t.solo = tx[w].solo /\ t.held = tx[w].held /\ t.loaded = tx[w].loaded
      /\ t \in TxRow
  BY <1>1, <1>3, <1>4 DEF TxRow
<1> HIDE DEF t
<1>8. Listed(t) = Listed(tx[w]) /\ Added(t) = Added(tx[w])
  BY <1>7 DEF Listed, Added
<1>9. Len(tx[w].ids) = Len(Listed(tx[w]))
  <2>1. Len(tx[w].ids) \in Nat /\ Len(Listed(tx[w])) \in Nat
    BY <1>1, ListedType DEF TxRow
  <2> QED
    BY <1>1, <2>1 DEF TxShape
<1>10. TxShape(t)
  BY <1>1, <1>2, <1>3, <1>7, <1>8, <1>9, NoRowAssumption DEF TxShape
<1>11. VisibleEvents(t) = VisibleEvents(tx[w])
  BY <1>7 DEF VisibleEvents
<1> QED
  BY <1>1, <1>2, <1>3, <1>5, <1>6, <1>7, <1>8, <1>10, <1>11 DEF payload

LEMMA CountKeepsTypeInv ==
    ASSUME TypeInv, NEW w \in Workers, CountFeedback(w)
    PROVE  TypeInv'
<1>1. PICK t \in TxRow :
         /\ tx' = [tx EXCEPT ![w] = t] /\ TxShape(t) /\ t.held = tx[w].held
         /\ Added(t) = Added(tx[w])
  BY CountTx
<1>2. UNCHANGED <<clock, tables, lastEvent, lastPatch, chat>>
  BY DEF CountFeedback, sequences
<1>3. lastPatch \in 0..MaxPatches /\ lastPatch >= lastPatch
  BY BoundsAssumption DEF TypeInv, TypeOK
<1>4. /\ Added(t) \subseteq 1..lastPatch
      /\ \A o \in t.held : patches[o] # NoRow
      /\ \A v \in Workers \ {w} : t.held \intersect tx[v].held = {}
  BY <1>1 DEF TypeInv, TxInv
<1> QED
  BY <1>1, <1>2, <1>3, <1>4, MoveKeepsTypeInv

\* What reading the last tables makes of the transaction of a deletion.
LEMMA DeleteRemainingTx ==
    ASSUME TypeInv, NEW w \in Workers, DeleteRemaining(w)
    PROVE  \E t \in TxRow :
              /\ tx' = [tx EXCEPT ![w] = t] /\ tx'[w] = t
              /\ tx[w].pc = "flush" /\ tx[w].loaded = {} /\ t.loaded = {}
              /\ t.op = "delete" /\ tx[w].op = "delete" /\ t.pc = "commit"
              /\ t.resource = tx[w].resource /\ t.row = NoRow /\ tx[w].row = NoRow
              /\ t.ids = tx[w].ids /\ t.read = metric[t.resource]
              /\ t.goneEvents = EventsOf(t.resource)
              /\ t.held = tx[w].held /\ t.solo = tx[w].solo
              /\ TxShape(t) /\ Listed(t) = Listed(tx[w]) /\ Added(t) = Added(tx[w])
<1> DEFINE found == tx[w].resource \in learned
           t == [tx[w] EXCEPT !.pc = "commit",
                              !.goneEvents = EventsOf(tx[w].resource),
                              !.read = metric[tx[w].resource],
                              !.goneLearned = found]
<1>1. /\ tx \in [Workers -> TxRow] /\ tx[w] \in TxRow /\ TxShape(tx[w])
      /\ tx[w].pc = "flush" /\ tx[w].loaded = {} /\ tx[w].op = "delete"
      /\ tx[w].row = NoRow
  BY DEF DeleteRemaining, Flushed, TypeInv, TypeOK, TxInv, TxShape
<1>2. metric[tx[w].resource] \in MetricRow \union {NoRow}
  BY <1>1 DEF TypeOK, TypeInv, TxShape
<1>3. EventsOf(tx[w].resource) \in SUBSET EventIds
  BY DEF EventsOf
<1>4. found \in BOOLEAN
  OBVIOUS
<1>5. tx' = [tx EXCEPT ![w] = t]
  BY DEF DeleteRemaining
<1>6. tx'[w] = t
  BY <1>1, <1>5
<1> HIDE DEF found
<1>7. /\ t.op = "delete" /\ t.pc = "commit" /\ t.resource = tx[w].resource
      /\ t.row = NoRow /\ t.ids = tx[w].ids /\ t.read = metric[tx[w].resource]
      /\ t.goneEvents = EventsOf(tx[w].resource)
      /\ t.held = tx[w].held /\ t.loaded = tx[w].loaded /\ t.solo = tx[w].solo
      /\ t \in TxRow
  BY <1>1, <1>2, <1>3, <1>4 DEF TxRow
<1> HIDE DEF t
<1>8. Listed(t) = Listed(tx[w]) /\ Added(t) = Added(tx[w])
  BY <1>1, <1>7 DEF Listed, Added
<1>9. TxShape(t)
  BY <1>1, <1>7, <1>8 DEF TxShape
<1> QED
  BY <1>1, <1>5, <1>6, <1>7, <1>8, <1>9

LEMMA DeleteRemainingKeepsTypeInv ==
    ASSUME TypeInv, NEW w \in Workers, DeleteRemaining(w)
    PROVE  TypeInv'
<1>1. PICK t \in TxRow :
         /\ tx' = [tx EXCEPT ![w] = t] /\ TxShape(t) /\ t.held = tx[w].held
         /\ Added(t) = Added(tx[w])
  BY DeleteRemainingTx
<1>2. UNCHANGED <<clock, tables, lastEvent, lastPatch, chat>>
  BY DEF DeleteRemaining, sequences
<1>3. lastPatch \in 0..MaxPatches /\ lastPatch >= lastPatch
  BY BoundsAssumption DEF TypeInv, TypeOK
<1>4. /\ Added(t) \subseteq 1..lastPatch
      /\ \A o \in t.held : patches[o] # NoRow
      /\ \A v \in Workers \ {w} : t.held \intersect tx[v].held = {}
  BY <1>1 DEF TypeInv, TxInv
<1> QED
  BY <1>1, <1>2, <1>3, <1>4, MoveKeepsTypeInv

\* Ending a transaction without taking away a row another holds.
LEMMA CloseKeepsTxInv ==
    ASSUME TypeInv, NEW w \in Workers, Close(w), lastPatch' = lastPatch,
           \A v \in Workers \ {w} : \A p \in tx[v].held :
              patches[p] # NoRow => patches'[p] # NoRow
    PROVE  tx' \in [Workers -> TxRow] /\ TxInv'
<1>1. TypeOK
  BY DEF TypeInv
<1>2. tx' \in [Workers -> TxRow] /\ OthersKept(w) /\ tx'[w] = Idle
  BY <1>1, CloseStep
<1>3. TxShape(tx'[w]) /\ Added(tx'[w]) = {}
  BY <1>2, IdleType
<1>4. tx'[w].held = {}
  BY <1>2 DEF Idle
<1>5. lastPatch' \in Nat /\ lastPatch' >= lastPatch
  BY <1>1, BoundsAssumption DEF TypeOK
<1>6. \A v \in Workers \ {w} : \A p \in tx[v].held : patches'[p] # NoRow
  BY DEF TypeInv, TxInv
<1> QED
  BY <1>2, <1>3, <1>4, <1>5, <1>6, TxInvStep

\* A request that fails, crashes or finds nothing keeps nothing.
LEMMA CloseKeepsTypeInv ==
    ASSUME TypeInv, NEW w \in Workers, Close(w),
           UNCHANGED <<clock, tables, sequences, chat>>
    PROVE  TypeInv'
<1>1. patches' = patches /\ lastPatch' = lastPatch
  BY DEF tables, sequences
<1>2. tx' \in [Workers -> TxRow] /\ TxInv'
  BY <1>1, CloseKeepsTxInv
<1>3. TypeOK'
  BY <1>2 DEF TypeInv, TypeOK, tables, sequences
<1> QED
  BY <1>2, <1>3 DEF TypeInv

\* What the commit of a transaction makes of the patch table: the patches it
\* adds ...
LEMMA CommittedPatches ==
    ASSUME TypeInv, NEW w \in Workers, CommitFeedback(w),
           NEW i \in DOMAIN tx[w].ids
    PROVE  /\ patches'[tx[w].ids[i]] = NewPatch(tx[w], i)
           /\ patches'[tx[w].ids[i]] \in PatchRow
           /\ tx[w].ids[i] \in Added(tx[w]) /\ tx[w].ids[i] \in PatchIds
<1> DEFINE t == tx[w]
           p == t.ids[i]
           k(o) == CHOOSE j \in DOMAIN t.ids : t.ids[j] = o
<1>1. t \in TxRow /\ TxShape(t)
  BY DEF TypeInv, TypeOK, TxInv
<1>2. p \in Added(t) /\ p \in PatchIds /\ k(p) = i
  BY <1>1, IdsDiffer
<1>3. patches'[p] = NewPatch(t, k(p))
  BY <1>2 DEF CommitFeedback
<1>4. NewPatch(t, i) \in PatchRow
  BY <1>1, NewPatchType
<1> HIDE DEF k, p
<1>5. patches'[p] = NewPatch(t, i)
  BY <1>2, <1>3
<1> QED
  BY <1>2, <1>4, <1>5 DEF p

\* ... and the rest.
LEMMA RemainingPatches ==
    ASSUME TypeInv, NEW w \in Workers, CommitFeedback(w), NEW p \in PatchIds,
           p \notin Added(tx[w])
    PROVE  /\ p \in tx[w].held =>
                 /\ patches[p] \in PatchRow
                 /\ patches'[p] = [patches[p] EXCEPT !.status = "inactive",
                                                     !.endedBy = tx[w].row.no]
                 /\ patches'[p] \in PatchRow
                 /\ tx[w].row \in EventRow
           /\ p \notin tx[w].held => patches'[p] = patches[p]
<1> DEFINE t == tx[w]
<1>1. t \in TxRow /\ TxShape(t) /\ t.pc = "commit" /\ t.op # "delete"
  BY DEF CommitFeedback, TypeInv, TypeOK, TxInv
<1>2. patches'[p] = IF p \in t.held
                    THEN [patches[p] EXCEPT !.status = "inactive", !.endedBy = t.row.no]
                    ELSE patches[p]
  BY DEF CommitFeedback
<1>3. CASE p \in t.held
  <2>1. patches[p] \in PatchRow
    BY <1>1, <1>3 DEF TypeInv, TypeOK, TxInv
  <2>2. t.row \in EventRow
    BY <1>1, <1>3 DEF TxShape, TxRow
  <2>3. t.row.no \in EventIds
    BY <2>2 DEF EventRow
  <2> QED
    BY <1>2, <1>3, <2>1, <2>2, <2>3 DEF PatchRow
<1>4. CASE p \notin t.held
  BY <1>2, <1>4
<1> QED
  BY <1>3, <1>4

LEMMA CommitKeepsTypeInv ==
    ASSUME TypeInv, NEW w \in Workers, CommitFeedback(w)
    PROVE  TypeInv'
<1> DEFINE t == tx[w]
           r == t.resource
<1>1. /\ TypeOK /\ t \in TxRow /\ TxShape(t) /\ t.pc = "commit" /\ t.op # "delete"
      /\ Close(w) /\ UNCHANGED <<clock, learned, applyLogs, sequences, chat>>
  BY DEF CommitFeedback, TypeInv, TypeOK, TxInv
<1>2. events' \in [EventIds -> EventRow \union {NoRow}]
  <2>1. CASE t.row = NoRow
    BY <1>1, <2>1 DEF CommitFeedback, TypeOK
  <2>2. CASE t.row # NoRow
    <3>1. t.row \in EventRow /\ t.row.no \in EventIds
      BY <1>1, <2>2 DEF TxRow, EventRow
    <3>2. events' = [events EXCEPT ![t.row.no] = t.row]
      BY <2>2 DEF CommitFeedback
    <3> QED
      BY <1>1, <3>1, <3>2 DEF TypeOK
  <2> QED
    BY <2>1, <2>2
<1>3. patches' \in [PatchIds -> PatchRow \union {NoRow}]
  <2>1. ASSUME NEW p \in PatchIds PROVE patches'[p] \in PatchRow \union {NoRow}
    <3>1. patches[p] \in PatchRow \union {NoRow}
      BY <1>1 DEF TypeOK
    <3>2. p \in Added(t) => \E i \in DOMAIN t.ids : p = t.ids[i]
      BY DEF Added
    <3> QED
      BY <3>1, <3>2, CommittedPatches, RemainingPatches
  <2>2. \E f : patches' = [p \in PatchIds |-> f[p]]
    <3> DEFINE f == [p \in PatchIds |->
                       IF p \in Added(t)
                       THEN NewPatch(t, CHOOSE i \in DOMAIN t.ids : t.ids[i] = p)
                       ELSE IF p \in t.held
                       THEN [patches[p] EXCEPT !.status = "inactive",
                                               !.endedBy = t.row.no]
                       ELSE patches[p]]
    <3>1. patches' = f
      BY DEF CommitFeedback
    <3>2. f = [p \in PatchIds |-> f[p]]
      OBVIOUS
    <3> HIDE DEF f
    <3> QED
      BY <3>1, <3>2
  <2> QED
    BY <2>1, <2>2
<1>4. metric' \in [ResourceIds -> MetricRow \union {NoRow}]
  <2>1. r \in ResourceIds /\ t.payload \in MetricRow
    BY <1>1 DEF TxShape, TxRow
  <2>2. CASE t.read = NoRow
    <3>1. metric' = [metric EXCEPT ![r] = t.payload]
      BY <2>2 DEF CommitFeedback
    <3> QED
      BY <1>1, <2>1, <3>1 DEF TypeOK
  <2>3. CASE t.read # NoRow
    <3>1. metric' = [metric EXCEPT ![r] = UpdateColumns(metric[r], t.read, t.payload)]
      BY <2>3 DEF CommitFeedback
    <3>2. t.read \in MetricRow
      BY <1>1, <2>3 DEF TxRow
    <3>3. metric[r] \in MetricRow
      BY <1>1, <2>1, <2>3 DEF CommitFeedback, CommitConflict, TypeOK
    <3>4. UpdateColumns(metric[r], t.read, t.payload) \in MetricRow
      BY <2>1, <3>2, <3>3, UpdateColumnsType
    <3> QED
      BY <1>1, <3>1, <3>4 DEF TypeOK
  <2> QED
    BY <2>2, <2>3
<1>5. ASSUME NEW p \in PatchIds, patches[p] # NoRow PROVE patches'[p] # NoRow
  <2>1. p \in Added(t) => \E i \in DOMAIN t.ids : p = t.ids[i]
    BY DEF Added
  <2>2. CASE p \in Added(t)
    BY <2>1, <2>2, CommittedPatches, NoRowAssumption
  <2>3. CASE p \notin Added(t) /\ p \in t.held
    BY <2>3, RemainingPatches, NoRowAssumption
  <2>4. CASE p \notin Added(t) /\ p \notin t.held
    BY <1>5, <2>4, RemainingPatches
  <2> QED
    BY <2>2, <2>3, <2>4
<1>6. \A v \in Workers \ {w} : \A p \in tx[v].held :
         patches[p] # NoRow => patches'[p] # NoRow
  BY <1>1, <1>5 DEF TypeOK, TxRow
<1>7. lastPatch' = lastPatch
  BY <1>1 DEF sequences
<1>8. tx' \in [Workers -> TxRow] /\ TxInv'
  BY <1>1, <1>6, <1>7, CloseKeepsTxInv
<1>9. TypeOK'
  BY <1>1, <1>2, <1>3, <1>4, <1>8 DEF TypeOK, sequences
<1> QED
  BY <1>8, <1>9 DEF TypeInv

\* A delete takes away no row that another transaction holds.
LEMMA CommitDeleteKeepsTypeInv ==
    ASSUME TypeInv, NEW w \in Workers, CommitDelete(w)
    PROVE  TypeInv'
<1> DEFINE t == tx[w]
<1>1. /\ TypeOK /\ t.pc = "commit" /\ t.op = "delete"
      /\ Close(w) /\ UNCHANGED <<clock, sequences, chat>>
  BY DEF CommitDelete, TypeInv
<1>2. \A p \in PatchIds : patches'[p] = IF p \in t.held THEN NoRow ELSE patches[p]
  BY DEF CommitDelete
<1>3. /\ events' \in [EventIds -> EventRow \union {NoRow}]
      /\ patches' \in [PatchIds -> PatchRow \union {NoRow}]
  BY <1>1 DEF CommitDelete, TypeOK
<1>4. /\ metric' \in [ResourceIds -> MetricRow \union {NoRow}]
      /\ learned' \subseteq ResourceIds
      /\ applyLogs' \subseteq ResourceIds \X PatchIds
  BY <1>1 DEF CommitDelete, TypeOK
<1>5. \A v \in Workers \ {w} : \A p \in tx[v].held :
         patches[p] # NoRow => patches'[p] # NoRow
  <2> SUFFICES ASSUME NEW v \in Workers \ {w}, NEW p \in tx[v].held, patches[p] # NoRow
               PROVE  patches'[p] # NoRow
    OBVIOUS
  <2>1. p \in PatchIds
    BY <1>1 DEF TypeOK, TxRow
  <2>2. p \notin t.held
    BY DEF TypeInv, TxInv
  <2> QED
    BY <1>2, <2>1, <2>2
<1>6. lastPatch' = lastPatch
  BY <1>1 DEF sequences
<1>7. tx' \in [Workers -> TxRow] /\ TxInv'
  BY <1>1, <1>5, <1>6, CloseKeepsTxInv
<1>8. TypeOK'
  BY <1>1, <1>3, <1>4, <1>7 DEF TypeOK, sequences
<1> QED
  BY <1>7, <1>8 DEF TypeInv

\* The steps of the answering threads, a learning run and the passing of time
\* touch neither transactions nor patches.
LEMMA QuietKeepsTxInv ==
    ASSUME TxInv, UNCHANGED <<tx, patches, lastPatch>>
    PROVE  TxInv'
BY DEF TxInv

\* A hit of the override lookup is a patch of the resource.
LEMMA FindIsAMatch ==
    ASSUME NEW r, NEW q, FindActiveSqlOverridePatch(r, q) # 0
    PROVE  FindActiveSqlOverridePatch(r, q) \in MatchingOverrides(r, q)
<1> DEFINE S == MatchingOverrides(r, q)
<1>1. S \subseteq PatchIds /\ S # {}
  BY DEF MatchingOverrides, PatchesOf, FindActiveSqlOverridePatch
<1>2. IsFiniteSet(PatchIds) /\ PatchIds \subseteq Nat
  BY FS_Interval, BoundsAssumption DEF PatchIds
<1>3. S \in SUBSET Nat /\ IsFiniteSet(S)
  BY <1>1, <1>2, FS_Subset
<1> HIDE DEF S
<1>4. \E p \in S : \A o \in S : o <= p
  BY <1>1, <1>3, LargestExists
<1> QED
  BY <1>4 DEF FindActiveSqlOverridePatch, S

LEMMA AskKeepsTypeInv ==
    ASSUME TypeInv, NEW c \in Chats, NEW d \in Datasources, NEW q, AskQuestion(c, d, q)
    PROVE  TypeInv'
<1>1. PICK r : /\ FindOverride(d, q) = <<r, FindActiveSqlOverridePatch(r, q)>>
  BY DEF FindOverride
<1> DEFINE p == FindActiveSqlOverridePatch(r, q)
<1>2. p # 0 /\ chat' = [chat EXCEPT ![c] = <<r, p>>]
      /\ UNCHANGED <<clock, tables, sequences, tx>>
  BY <1>1 DEF AskQuestion
<1>3. p \in PatchIds /\ patches[p] # NoRow /\ patches[p].resource = r
  BY <1>2, FindIsAMatch DEF MatchingOverrides, PatchesOf
<1>4. r \in ResourceIds
  BY <1>3 DEF TypeInv, TypeOK, PatchRow
<1> HIDE DEF p
<1>5. TypeOK'
  BY <1>2, <1>3, <1>4 DEF TypeInv, TypeOK, tables, sequences
<1>6. TxInv'
  BY <1>2, QuietKeepsTxInv DEF TypeInv, tables, sequences
<1> QED
  BY <1>5, <1>6 DEF TypeInv

LEMMA RecordKeepsTypeInv ==
    ASSUME TypeInv, NEW c \in Chats, RecordPatchApplyLog(c)
    PROVE  TypeInv'
<1>1. TypeOK'
  BY DEF RecordPatchApplyLog, TypeInv, TypeOK, sequences
<1>2. TxInv'
  BY QuietKeepsTxInv DEF RecordPatchApplyLog, TypeInv, sequences
<1> QED
  BY <1>1, <1>2 DEF TypeInv

LEMMA AbandonKeepsTypeInv ==
    ASSUME TypeInv, NEW c \in Chats, AbandonAnswer(c)
    PROVE  TypeInv'
<1>1. TypeOK'
  BY DEF AbandonAnswer, TypeInv, TypeOK, tables, sequences
<1>2. TxInv'
  BY QuietKeepsTxInv DEF AbandonAnswer, TypeInv, tables, sequences
<1> QED
  BY <1>1, <1>2 DEF TypeInv

LEMMA LearnKeepsTypeInv ==
    ASSUME TypeInv, NEW w \in Workers, NEW r \in ResourceIds, LearnResource(w, r)
    PROVE  TypeInv'
<1>1. TypeOK'
  BY DEF LearnResource, TypeInv, TypeOK, sequences
<1>2. TxInv'
  BY QuietKeepsTxInv DEF LearnResource, TypeInv, sequences
<1> QED
  BY <1>1, <1>2 DEF TypeInv

LEMMA TimeKeepsTypeInv ==
    ASSUME TypeInv, PassTime
    PROVE  TypeInv'
<1>1. clock' \in 0..MaxClock
  BY BoundsAssumption DEF PassTime, TypeInv, TypeOK
<1>2. TypeOK'
  BY <1>1 DEF PassTime, TypeInv, TypeOK, tables, sequences
<1>3. TxInv'
  BY QuietKeepsTxInv DEF PassTime, TypeInv, tables, sequences
<1> QED
  BY <1>2, <1>3 DEF TypeInv

LEMMA StutterKeepsTypeInv ==
    ASSUME TypeInv, UNCHANGED vars
    PROVE  TypeInv'
<1>1. TypeOK'
  BY DEF TypeInv, TypeOK, vars, tables, sequences
<1>2. TxInv'
  BY QuietKeepsTxInv DEF TypeInv, vars, tables, sequences
<1> QED
  BY <1>1, <1>2 DEF TypeInv

LEMMA InitTypeInv == Init => TypeInv
<1> SUFFICES ASSUME Init PROVE TypeInv
  OBVIOUS
<1>1. TypeOK
  BY IdleType, BoundsAssumption DEF Init, TypeOK
<1>2. \A w \in Workers : tx[w] = Idle /\ tx[w].held = {}
  BY DEF Init, Idle
<1>3. TxInv
  BY <1>2, IdleType DEF TxInv
<1> QED
  BY <1>1, <1>3 DEF TypeInv

LEMMA NextTypeInv == TypeInv /\ [Next]_vars => TypeInv'
<1> SUFFICES ASSUME TypeInv, [Next]_vars PROVE TypeInv'
  OBVIOUS
<1>1. ASSUME NEW w \in Workers, Start(w) PROVE TypeInv'
  BY <1>1, SubmitKeepsTypeInv, DisableKeepsTypeInv, GetMetricKeepsTypeInv,
     DeleteKeepsTypeInv, LearnKeepsTypeInv DEF Start
<1>2. ASSUME NEW w \in Workers, Proceed(w) PROVE TypeInv'
  <2>1. CASE WritePatch(w) \/ InsertPatch(w)
    BY <2>1, WriteKeepsTypeInv, InsertKeepsTypeInv
  <2>2. CASE CountFeedback(w)
    BY <2>2, CountKeepsTypeInv
  <2>3. CASE CommitFeedback(w)
    BY <2>3, CommitKeepsTypeInv
  <2>4. CASE FailRequest(w)
    BY <2>4, CloseKeepsTypeInv DEF FailRequest
  <2>5. CASE DeleteRemaining(w)
    BY <2>5, DeleteRemainingKeepsTypeInv
  <2>6. CASE CommitDelete(w)
    BY <2>6, CommitDeleteKeepsTypeInv
  <2>7. CASE DeleteNotFound(w)
    BY <2>7, CloseKeepsTypeInv DEF DeleteNotFound
  <2> QED
    BY <1>2, <2>1, <2>2, <2>3, <2>4, <2>5, <2>6, <2>7 DEF Proceed
<1>3. ASSUME NEW w \in Workers, Crash(w) PROVE TypeInv'
  BY <1>3, CloseKeepsTypeInv DEF Crash
<1>4. ASSUME NEW c \in Chats,
             \/ \E d \in Datasources, q \in Questions : AskQuestion(c, d, q)
             \/ RecordPatchApplyLog(c)
             \/ AbandonAnswer(c)
      PROVE TypeInv'
  BY <1>4, AskKeepsTypeInv, RecordKeepsTypeInv, AbandonKeepsTypeInv
<1> QED
  BY <1>1, <1>2, <1>3, <1>4, TimeKeepsTypeInv, StutterKeepsTypeInv DEF Next

\* Every reachable state is a state of the tables, the sequences, the open
\* transactions and the answering threads.
THEOREM TypeCorrect == Spec => []TypeOK
<1>1. Spec => []TypeInv
  BY InitTypeInv, NextTypeInv, PTL DEF Spec
<1>2. TypeInv => TypeOK
  BY DEF TypeInv
<1> QED
  BY <1>1, <1>2, PTL

------------------------------------------------------------------------------
(* Each step keeps FreshInv and NewestActive *)

\* Transactions that differ in "solo" only claim the same keys.
LEMMA SameTxSameKeys ==
    ASSUME NEW s, NEW t, SameTx(s, t)
    PROVE  s.ids = t.ids /\ \A i : KeyAt(s, i) = KeyAt(t, i)
<1>1. Listed(s) = Listed(t)
  BY DEF SameTx, Listed
<1> QED
  BY <1>1 DEF SameTx, KeyAt

\* What FreshInv says of one transaction.
Fresh(w) ==
    \A i \in DOMAIN tx[w].ids : \A p \in PatchIds :
       patches[p] # NoRow /\ Key(patches[p]) = KeyAt(tx[w], i) =>
          /\ p < tx[w].ids[i]
          /\ IsActive(p) => p \in tx[w].held

\* What a step of w must show to keep FreshInv: nothing new appears under the
\* keys of the other transactions.
LEMMA FreshInvStep ==
    ASSUME FreshInv, NEW w \in Workers, OthersKept(w), Fresh(w)',
           \A p \in PatchIds : patches'[p] # NoRow => p <= lastPatch',
           \A v \in Workers \ {w} : LockedKeys(w)' \intersect LockedKeys(v) = {},
           \A v \in Workers \ {w} : \A p \in PatchIds :
              patches'[p] # NoRow /\ Key(patches'[p]) \in LockedKeys(v)
              => /\ patches[p] # NoRow /\ Key(patches[p]) = Key(patches'[p])
                 /\ IsActive(p)' => IsActive(p)
    PROVE  FreshInv'
<1>1. \A v \in Workers \ {w} : /\ tx'[v].ids = tx[v].ids
                               /\ \A i : KeyAt(tx'[v], i) = KeyAt(tx[v], i)
                               /\ tx'[v].held = tx[v].held
  BY SameTxSameKeys DEF OthersKept, SameTx
<1>2. \A v \in Workers \ {w} : LockedKeys(v)' = LockedKeys(v)
  BY <1>1 DEF LockedKeys
<1>3. ASSUME NEW v \in Workers PROVE Fresh(v)'
  <2>1. CASE v = w
    BY <2>1
  <2>2. CASE v # w
    <3> SUFFICES ASSUME NEW i \in DOMAIN tx[v].ids, NEW p \in PatchIds,
                        patches'[p] # NoRow, Key(patches'[p]) = KeyAt(tx[v], i)
                 PROVE  p < tx[v].ids[i] /\ (IsActive(p)' => p \in tx[v].held)
      BY <1>1, <2>2 DEF Fresh
    <3>1. Key(patches'[p]) \in LockedKeys(v)
      BY DEF LockedKeys
    <3>2. /\ patches[p] # NoRow /\ Key(patches[p]) = KeyAt(tx[v], i)
          /\ IsActive(p)' => IsActive(p)
      BY <2>2, <3>1
    <3> QED
      BY <3>2 DEF FreshInv
  <2> QED
    BY <2>1, <2>2
<1>4. \A u, v \in Workers : u # v => LockedKeys(u)' \intersect LockedKeys(v)' = {}
  BY <1>2 DEF FreshInv
<1> QED
  BY <1>3, <1>4 DEF FreshInv, Fresh

\* Steps that add no patch and claim no key: rows of patches stay or go.
LEMMA NoClaimStep ==
    ASSUME FreshInv, NewestActive, NEW w \in Workers, OthersKept(w),
           lastPatch' = lastPatch,
           \A p \in PatchIds : patches'[p] \in {patches[p], NoRow},
           \/ tx'[w].ids = <<>>
           \/ /\ tx'[w].ids = tx[w].ids /\ tx[w].held \subseteq tx'[w].held
              /\ \A i : KeyAt(tx'[w], i) = KeyAt(tx[w], i)
    PROVE  FreshInv' /\ NewestActive'
<1>1. \A p \in PatchIds : patches'[p] # NoRow =>
         /\ patches[p] # NoRow /\ patches'[p] = patches[p]
         /\ IsActive(p)' <=> IsActive(p)
  BY DEF IsActive
<1>2. Fresh(w)'
  <2>1. Fresh(w)
    BY DEF FreshInv, Fresh
  <2>2. DOMAIN <<>> = {}
    OBVIOUS
  <2> QED
    BY <1>1, <2>1, <2>2 DEF Fresh
<1>3. LockedKeys(w)' = {} \/ LockedKeys(w)' = LockedKeys(w)
  BY DEF LockedKeys
<1>4. FreshInv'
  BY <1>1, <1>2, <1>3, FreshInvStep DEF FreshInv
<1>5. NewestActive'
  <2> SUFFICES ASSUME NEW p \in PatchIds, NEW q \in PatchIds,
                      IsActive(p)', patches'[q] # NoRow, p # q,
                      Key(patches'[p]) = Key(patches'[q])
               PROVE  q < p /\ ~IsActive(q)'
    BY DEF NewestActive
  <2>1. patches'[p] # NoRow
    BY DEF IsActive
  <2> QED
    BY <1>1, <2>1 DEF NewestActive
<1> QED
  BY <1>4, <1>5

\* Opening a transaction claims no key: a correction claims its own with the
\* inserts.
LEMMA OpenKeepsFresh ==
    ASSUME TypeInv, FreshInv, NewestActive, NEW w \in Workers, NEW t \in TxRow,
           Open(w, t), t.ids = <<>>, UNCHANGED <<patches, lastPatch>>
    PROVE  FreshInv' /\ NewestActive'
<1>1. OthersKept(w) /\ tx'[w].ids = <<>>
  BY OpenStep DEF TypeInv, SameTx
<1> QED
  BY <1>1, NoClaimStep

LEMMA StartKeepsFresh ==
    ASSUME TypeInv, FreshInv, NewestActive, NEW w \in Workers, Start(w)
    PROVE  FreshInv' /\ NewestActive'
<1>1. ASSUME NEW r \in ResourceIds, NEW s \in Submissions, SubmitFeedbackEvent(w, r, s)
      PROVE  FreshInv' /\ NewestActive'
  <2>1. UNCHANGED <<patches, lastPatch>>
    BY <1>1 DEF SubmitFeedbackEvent, tables
  <2>2. PICK t \in TxRow : Open(w, t) /\ t.ids = <<>>
    BY <1>1, SubmitTx
  <2> QED
    BY <2>1, <2>2, OpenKeepsFresh
<1>2. ASSUME NEW r \in ResourceIds, NEW p \in PatchIds, DisablePatch(w, r, p)
      PROVE  FreshInv' /\ NewestActive'
  <2>1. UNCHANGED <<patches, lastPatch>>
    BY <1>2 DEF DisablePatch, tables
  <2>2. PICK t \in TxRow : Open(w, t) /\ t.ids = <<>>
    BY <1>2, DisableTx
  <2> QED
    BY <2>1, <2>2, OpenKeepsFresh
<1>3. ASSUME NEW r \in ResourceIds, GetFeedbackMetric(w, r)
      PROVE  FreshInv' /\ NewestActive'
  <2>1. UNCHANGED <<patches, lastPatch>>
    BY <1>3 DEF GetFeedbackMetric, tables, sequences
  <2>2. PICK t \in TxRow : Open(w, t) /\ t.ids = <<>>
    BY <1>3, GetMetricTx
  <2> QED
    BY <2>1, <2>2, OpenKeepsFresh
<1>4. ASSUME NEW r \in ResourceIds, DeleteResource(w, r)
      PROVE  FreshInv' /\ NewestActive'
  <2>1. UNCHANGED <<patches, lastPatch>>
    BY <1>4 DEF DeleteResource, tables, sequences
  <2>2. PICK t \in TxRow : Open(w, t) /\ t.ids = <<>>
    BY <1>4, DeleteTx
  <2> QED
    BY <2>1, <2>2, OpenKeepsFresh
<1>5. ASSUME NEW r \in ResourceIds, LearnResource(w, r)
      PROVE  FreshInv' /\ NewestActive'
  <2>1. UNCHANGED <<tx, patches, lastPatch>>
    BY <1>5 DEF LearnResource, sequences
  <2> QED
    BY <2>1 DEF FreshInv, NewestActive, LockedKeys, IsActive
<1> QED
  BY <1>1, <1>2, <1>3, <1>4, <1>5 DEF Start

\* Ending a transaction without adding a patch gives its keys back.
LEMMA CloseKeepsFresh ==
    ASSUME TypeInv, FreshInv, NewestActive, NEW w \in Workers, Close(w),
           lastPatch' = lastPatch,
           \A p \in PatchIds : patches'[p] \in {patches[p], NoRow}
    PROVE  FreshInv' /\ NewestActive'
<1>1. OthersKept(w) /\ tx'[w] = Idle
  BY CloseStep DEF TypeInv
<1>2. tx'[w].ids = <<>>
  BY <1>1 DEF Idle
<1> QED
  BY <1>1, <1>2, NoClaimStep

\* The steps between the inserts of a transaction and its commit.
LEMMA MoveKeepsFresh ==
    ASSUME TypeInv, FreshInv, NewestActive, NEW w \in Workers, NEW t \in TxRow,
           tx' = [tx EXCEPT ![w] = t], t.ids = tx[w].ids,
           t.resource = tx[w].resource, t.row = tx[w].row, Listed(t) = Listed(tx[w]),
           tx[w].held \subseteq t.held, UNCHANGED <<patches, lastPatch>>
    PROVE  FreshInv' /\ NewestActive'
<1>1. OthersKept(w) /\ tx'[w] = t
  BY ChangeStep DEF TypeInv
<1>2. \A i : KeyAt(t, i) = KeyAt(tx[w], i)
  BY DEF KeyAt
<1> QED
  BY <1>1, <1>2, NoClaimStep

LEMMA WriteKeepsFresh ==
    ASSUME TypeInv, FreshInv, NewestActive, NEW w \in Workers, WritePatch(w)
    PROVE  FreshInv' /\ NewestActive'
<1>1. PICK t \in TxRow, p \in tx[w].loaded :
         /\ tx' = [tx EXCEPT ![w] = t] /\ t.ids = tx[w].ids
         /\ t.resource = tx[w].resource /\ t.row = tx[w].row
         /\ Listed(t) = Listed(tx[w])
         /\ patches[p] = NoRow => t.held = tx[w].held
         /\ patches[p] # NoRow => t.held = tx[w].held \union {p}
  BY WriteTx
<1>2. UNCHANGED <<patches, lastPatch>>
  BY DEF WritePatch, tables, sequences
<1> QED
  BY <1>1, <1>2, MoveKeepsFresh

LEMMA CountKeepsFresh ==
    ASSUME TypeInv, FreshInv, NewestActive, NEW w \in Workers, CountFeedback(w)
    PROVE  FreshInv' /\ NewestActive'
<1>1. PICK t \in TxRow :
         /\ tx' = [tx EXCEPT ![w] = t] /\ t.ids = tx[w].ids
         /\ t.resource = tx[w].resource /\ t.row = tx[w].row
         /\ Listed(t) = Listed(tx[w]) /\ t.held = tx[w].held
  BY CountTx
<1>2. UNCHANGED <<patches, lastPatch>>
  BY DEF CountFeedback, tables, sequences
<1> QED
  BY <1>1, <1>2, MoveKeepsFresh

LEMMA DeleteRemainingKeepsFresh ==
    ASSUME TypeInv, FreshInv, NewestActive, NEW w \in Workers, DeleteRemaining(w)
    PROVE  FreshInv' /\ NewestActive'
<1>1. PICK t \in TxRow :
         /\ tx' = [tx EXCEPT ![w] = t] /\ t.ids = tx[w].ids
         /\ t.resource = tx[w].resource /\ t.row = tx[w].row
         /\ Listed(t) = Listed(tx[w]) /\ t.held = tx[w].held
  BY DeleteRemainingTx
<1>2. UNCHANGED <<patches, lastPatch>>
  BY DEF DeleteRemaining, tables, sequences
<1> QED
  BY <1>1, <1>2, MoveKeepsFresh

\* An insert claims a key that no other transaction has, and that no active
\* patch has but those the transaction is about to end.
LEMMA InsertKeepsFresh ==
    ASSUME TypeInv, FreshInv, NewestActive, NEW w \in Workers, InsertPatch(w)
    PROVE  FreshInv' /\ NewestActive'
<1> DEFINE n == Len(tx[w].ids)
<1>1. lastPatch \in Nat /\ lastPatch' = lastPatch + 1 /\ lastPatch' \in PatchIds
  BY InsertTx
<1>2. PICK t \in TxRow :
         /\ tx' = [tx EXCEPT ![w] = t] /\ t.ids = Append(tx[w].ids, lastPatch')
         /\ t.resource = tx[w].resource /\ t.row = tx[w].row
         /\ Listed(t) = Listed(tx[w]) /\ t.held = tx[w].held /\ n \in Nat
  BY InsertTx
<1>3. OthersKept(w) /\ tx'[w] = t
  BY <1>2, ChangeStep DEF TypeInv
<1>4. \A i : KeyAt(t, i) = KeyAt(tx[w], i)
  BY <1>2 DEF KeyAt
<1>5. patches' = patches
  BY DEF InsertPatch, tables
<1>6. /\ DOMAIN t.ids = 1..(n + 1) /\ DOMAIN tx[w].ids = 1..n
      /\ t.ids[n + 1] = lastPatch' /\ \A i \in 1..n : t.ids[i] = tx[w].ids[i]
  <2>1. tx[w].ids \in Seq(PatchIds)
    BY DEF TypeInv, TypeOK, TxRow
  <2> QED
    BY <1>1, <1>2, <2>1
<1>7. NextKey(tx[w]) = KeyAt(tx[w], n + 1)
  BY DEF NextKey
<1>8. \A i \in 1..(n + 1) : i = n + 1 \/ i \in 1..n
  BY <1>2
<1>9. \A p \in PatchIds : patches[p] # NoRow => p <= lastPatch
  BY DEF FreshInv
<1>10. Fresh(w)'
  <2> SUFFICES ASSUME NEW i \in 1..(n + 1), NEW p \in PatchIds, patches[p] # NoRow,
                      Key(patches[p]) = KeyAt(tx[w], i)
               PROVE  p < t.ids[i] /\ (IsActive(p) => p \in tx[w].held)
    BY <1>2, <1>3, <1>4, <1>5, <1>6 DEF Fresh, IsActive
  <2>1. CASE i = n + 1
    <3>1. p < lastPatch'
      BY <1>1, <1>9, BoundsAssumption DEF PatchIds
    <3>2. IsActive(p) => p \in tx[w].held
      BY <1>7, <2>1 DEF InsertPatch, KeyTaken
    <3> QED
      BY <1>6, <2>1, <3>1, <3>2
  <2>2. CASE i \in 1..n
    BY <1>6, <2>2 DEF FreshInv
  <2> QED
    BY <1>8, <2>1, <2>2
<1>11. LockedKeys(w)' = LockedKeys(w) \union {NextKey(tx[w])}
  <2>1. LockedKeys(w)' = {KeyAt(tx[w], i) : i \in 1..(n + 1)}
    BY <1>3, <1>4, <1>6 DEF LockedKeys
  <2>2. LockedKeys(w) = {KeyAt(tx[w], i) : i \in 1..n}
    BY <1>6 DEF LockedKeys
  <2>3. 1..(n + 1) = 1..n \union {n + 1}
    BY <1>2
  <2> QED
    BY <1>7, <2>1, <2>2, <2>3
<1>12. \A v \in Workers \ {w} : LockedKeys(w)' \intersect LockedKeys(v) = {}
  <2> SUFFICES ASSUME NEW v \in Workers \ {w}
               PROVE  LockedKeys(w)' \intersect LockedKeys(v) = {}
    OBVIOUS
  <2>1. NextKey(tx[w]) \notin LockedKeys(v)
    BY DEF InsertPatch, Blocked, Awaits
  <2>2. LockedKeys(w) \intersect LockedKeys(v) = {}
    BY DEF FreshInv
  <2> QED
    BY <1>11, <2>1, <2>2
<1>13. \A p \in PatchIds : patches'[p] # NoRow => p <= lastPatch'
  BY <1>1, <1>5, <1>9, BoundsAssumption DEF PatchIds
<1>14. FreshInv'
  BY <1>3, <1>5, <1>10, <1>12, <1>13, FreshInvStep DEF IsActive
<1>15. NewestActive'
  BY <1>5 DEF NewestActive, IsActive
<1> QED
  BY <1>14, <1>15

\* Of the patches one correction adds for a key only the last is active.
LEMMA LastOfKeyIsActive ==
    ASSUME NEW t \in TxRow, TxShape(t), NEW i \in DOMAIN t.ids, NEW j \in DOMAIN t.ids,
           i # j, KeyAt(t, i) = KeyAt(t, j), NewPatch(t, i).status = "active"
    PROVE  t.ids[j] < t.ids[i] /\ NewPatch(t, j).status # "active"
<1>1. i \in Nat /\ j \in Nat
  BY DEF TxRow
<1>2. Listed(t)[i] = Listed(t)[j]
  BY DEF KeyAt
<1>3. ~(j > i)
  BY <1>2 DEF NewPatch
<1>4. j < i
  BY <1>1, <1>3
<1>5. NewPatch(t, j).status = "inactive"
  BY <1>2, <1>4 DEF NewPatch
<1> QED
  BY <1>4, <1>5 DEF TxShape

\* A commit brings the new patches on record, under keys that were its own.
LEMMA CommitKeepsFresh ==
    ASSUME TypeInv, FreshInv, NewestActive, NEW w \in Workers, CommitFeedback(w)
    PROVE  FreshInv' /\ NewestActive'
<1> DEFINE t == tx[w]
<1>1. /\ t \in TxRow /\ TxShape(t) /\ Close(w)
      /\ Added(t) \subseteq 1..lastPatch /\ lastPatch \in 0..MaxPatches
      /\ lastPatch' = lastPatch
  BY DEF CommitFeedback, TypeInv, TypeOK, TxInv, sequences
<1>2. OthersKept(w) /\ tx'[w] = Idle
  BY <1>1, CloseStep DEF TypeInv
<1>3. tx'[w].ids = <<>>
  BY <1>2 DEF Idle
<1>4. \A p \in PatchIds : p \notin Added(t) /\ patches'[p] # NoRow =>
         /\ patches[p] # NoRow /\ Key(patches'[p]) = Key(patches[p])
         /\ IsActive(p)' => IsActive(p) /\ p \notin t.held
  <2> SUFFICES ASSUME NEW p \in PatchIds, p \notin Added(t), patches'[p] # NoRow
               PROVE  /\ patches[p] # NoRow /\ Key(patches'[p]) = Key(patches[p])
                      /\ IsActive(p)' => IsActive(p) /\ p \notin t.held
    OBVIOUS
  <2>1. CASE p \in t.held
    <3>1. /\ patches[p] \in PatchRow
          /\ patches'[p] = [patches[p] EXCEPT !.status = "inactive", !.endedBy = t.row.no]
      BY <2>1, RemainingPatches
    <3>2. patches'[p].status = "inactive" /\ Key(patches'[p]) = Key(patches[p])
      BY <3>1 DEF PatchRow, Key
    <3> QED
      BY <3>1, <3>2, NoRowAssumption DEF IsActive
  <2>2. CASE p \notin t.held
    BY <2>2, RemainingPatches DEF IsActive
  <2> QED
    BY <2>1, <2>2
<1>5. \A p \in Added(t) : \E i \in DOMAIN t.ids : p = t.ids[i]
  BY DEF Added
<1>6. ASSUME NEW p \in PatchIds, NEW i \in DOMAIN t.ids, p = t.ids[i]
      PROVE  /\ patches'[p] = NewPatch(t, i)
             /\ Key(patches'[p]) = KeyAt(t, i) /\ KeyAt(t, i) \in LockedKeys(w)
  <2>1. patches'[p] = NewPatch(t, i)
    BY <1>6, CommittedPatches
  <2>2. Key(NewPatch(t, i)) = KeyAt(t, i)
    BY <1>1, NewPatchType
  <2> QED
    BY <2>1, <2>2 DEF LockedKeys
<1>7. FreshInv'
  <2>1. \A p \in PatchIds : patches'[p] # NoRow => p <= lastPatch'
    BY <1>1, <1>4 DEF FreshInv
  <2>2. Fresh(w)' /\ LockedKeys(w)' = {}
    <3>1. DOMAIN <<>> = {}
      OBVIOUS
    <3> QED
      BY <1>3, <3>1 DEF Fresh, LockedKeys
  <2>3. \A v \in Workers \ {w} : \A p \in PatchIds :
           patches'[p] # NoRow /\ Key(patches'[p]) \in LockedKeys(v)
           => /\ patches[p] # NoRow /\ Key(patches[p]) = Key(patches'[p])
              /\ IsActive(p)' => IsActive(p)
    <3> SUFFICES ASSUME NEW v \in Workers \ {w}, NEW p \in PatchIds,
                        patches'[p] # NoRow, Key(patches'[p]) \in LockedKeys(v)
                 PROVE  /\ patches[p] # NoRow /\ Key(patches[p]) = Key(patches'[p])
                        /\ IsActive(p)' => IsActive(p)
      OBVIOUS
    <3>1. LockedKeys(w) \intersect LockedKeys(v) = {}
      BY DEF FreshInv
    <3>2. p \notin Added(t)
      BY <1>5, <1>6, <3>1
    <3> QED
      BY <1>4, <3>2
  <2> QED
    BY <1>2, <2>1, <2>2, <2>3, FreshInvStep
<1>8. NewestActive'
  <2> SUFFICES ASSUME NEW p \in PatchIds, NEW q \in PatchIds,
                      IsActive(p)', patches'[q] # NoRow, p # q,
                      Key(patches'[p]) = Key(patches'[q])
               PROVE  q < p /\ ~IsActive(q)'
    BY DEF NewestActive
  <2>1. patches'[p] # NoRow /\ patches'[p].status = "active"
    BY DEF IsActive
  <2>2. CASE p \in Added(t) /\ q \in Added(t)
    <3>1. PICK i \in DOMAIN t.ids : p = t.ids[i]
      BY <1>5, <2>2
    <3>2. PICK j \in DOMAIN t.ids : q = t.ids[j]
      BY <1>5, <2>2
    <3>3. /\ patches'[p] = NewPatch(t, i) /\ patches'[q] = NewPatch(t, j)
          /\ KeyAt(t, i) = KeyAt(t, j) /\ i # j
      BY <1>6, <3>1, <3>2
    <3>4. q < p /\ NewPatch(t, j).status # "active"
      BY <1>1, <2>1, <3>1, <3>2, <3>3, LastOfKeyIsActive
    <3> QED
      BY <3>3, <3>4 DEF IsActive
  <2>3. CASE p \in Added(t) /\ q \notin Added(t)
    <3>1. PICK i \in DOMAIN t.ids : p = t.ids[i]
      BY <1>5, <2>3
    <3>2. patches[q] # NoRow /\ Key(patches[q]) = KeyAt(t, i)
      BY <1>4, <1>6, <2>3, <3>1
    <3>3. q < p /\ (IsActive(q) => q \in t.held)
      BY <3>1, <3>2 DEF FreshInv
    <3> QED
      BY <1>4, <2>3, <3>3
  <2>4. CASE p \notin Added(t) /\ q \in Added(t)
    <3>1. PICK j \in DOMAIN t.ids : q = t.ids[j]
      BY <1>5, <2>4
    <3>2. patches[p] # NoRow /\ Key(patches[p]) = KeyAt(t, j) /\ IsActive(p)
      BY <1>4, <1>6, <2>1, <2>4, <3>1
    <3>3. p \in t.held
      BY <3>2 DEF FreshInv
    <3> QED
      BY <1>4, <2>1, <2>4, <3>3
  <2>5. CASE p \notin Added(t) /\ q \notin Added(t)
    <3>1. IsActive(p) /\ patches[q] # NoRow /\ Key(patches[p]) = Key(patches[q])
      BY <1>4, <2>1, <2>5
    <3> QED
      BY <1>4, <2>5, <3>1 DEF NewestActive
  <2> QED
    BY <2>2, <2>3, <2>4, <2>5
<1> QED
  BY <1>7, <1>8

LEMMA InitFresh == Init => FreshInv /\ NewestActive
<1>1. DOMAIN <<>> = {}
  OBVIOUS
<1> QED
  BY <1>1 DEF Init, FreshInv, NewestActive, IsActive, LockedKeys, Idle

LEMMA NextFresh ==
    ASSUME TypeInv, FreshInv, NewestActive, [Next]_vars
    PROVE  FreshInv' /\ NewestActive'
<1>1. ASSUME NEW w \in Workers, Proceed(w) PROVE FreshInv' /\ NewestActive'
  <2>1. CASE WritePatch(w) \/ InsertPatch(w)
    BY <2>1, WriteKeepsFresh, InsertKeepsFresh
  <2>2. CASE CountFeedback(w)
    BY <2>2, CountKeepsFresh
  <2>3. CASE CommitFeedback(w)
    BY <2>3, CommitKeepsFresh
  <2>4. CASE FailRequest(w)
    BY <2>4, CloseKeepsFresh DEF FailRequest, tables, sequences
  <2>5. CASE DeleteRemaining(w)
    BY <2>5, DeleteRemainingKeepsFresh
  <2>6. CASE CommitDelete(w)
    BY <2>6, CloseKeepsFresh DEF CommitDelete, sequences
  <2>7. CASE DeleteNotFound(w)
    BY <2>7, CloseKeepsFresh DEF DeleteNotFound, tables, sequences
  <2> QED
    BY <1>1, <2>1, <2>2, <2>3, <2>4, <2>5, <2>6, <2>7 DEF Proceed
<1>2. ASSUME NEW w \in Workers, Crash(w) PROVE FreshInv' /\ NewestActive'
  BY <1>2, CloseKeepsFresh DEF Crash, tables, sequences
<1>3. ASSUME UNCHANGED <<tx, patches, lastPatch>> PROVE FreshInv' /\ NewestActive'
  BY <1>3 DEF FreshInv, NewestActive, LockedKeys, IsActive
<1>4. ASSUME NEW c \in Chats,
             \/ \E d \in Datasources, q \in Questions : AskQuestion(c, d, q)
             \/ RecordPatchApplyLog(c)
             \/ AbandonAnswer(c)
      PROVE  UNCHANGED <<tx, patches, lastPatch>>
  BY <1>4 DEF AskQuestion, RecordPatchApplyLog, AbandonAnswer, tables, sequences
<1>5. PassTime \/ UNCHANGED vars => UNCHANGED <<tx, patches, lastPatch>>
  BY DEF PassTime, vars, tables, sequences
<1> QED
  BY <1>1, <1>2, <1>3, <1>4, <1>5, StartKeepsFresh DEF Next

\* In every reachable state, with any number of server processes and however
\* their requests overlap, at most one correction per key is active, and none
\* on record is newer than it.
THEOREM AtMostOneActive == Spec => []NewestActive
<1>1. Init => IInv
  BY InitTypeInv, InitFresh DEF IInv
<1>2. IInv /\ [Next]_vars => IInv'
  BY NextTypeInv, NextFresh DEF IInv
<1>3. IInv => NewestActive
  BY DEF IInv
<1> QED
  BY <1>1, <1>2, <1>3, PTL DEF Spec
==============================================================================
