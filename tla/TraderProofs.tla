----------------------------- MODULE TraderProofs -----------------------------
(***************************************************************************)
(* Theorems about the import and the paged reading of a tenant's journal   *)
(* (TradeImport.tla), about his bar replays (BarReplay.tla) and about his  *)
(* backtests (Backtest.tla), for any values of their constants.  What the  *)
(* stores and the accounts hold are folds of what they were given, and the *)
(* indicators are folds of the bars.                                       *)
(***************************************************************************)
EXTENDS Services, ServicesProofs

-----------------------------------------------------------------------------
(* The import, for any executions, ids, batches and page sizes, any number *)
(* of requests and of imports.                                             *)

Record == [fill : Fill \ Unstorable, superseded : BOOLEAN]

LEMMA AddFillType ==
    ASSUME NEW recs \in Seq(Record), NEW f \in Fill \ Unstorable
    PROVE  AddFill(recs, f) \in Seq(Record)
<1>1. Revised(recs, f) \in Seq(Record)
  <2>1. \A i \in 1 .. Len(recs) : recs[i] \in Record
    OBVIOUS
  <2>2. \A i \in 1 .. Len(recs) : [recs[i] EXCEPT !.superseded = TRUE] \in Record
    BY <2>1 DEF Record
  <2>3. Revised(recs, f) \in [1 .. Len(recs) -> Record]
    BY <2>1, <2>2 DEF Revised
  <2>4. QED
    BY <2>3
<1>2. [fill |-> f, superseded |-> FALSE] \in Record
  BY DEF Record
<1>3. QED
  BY <1>1, <1>2 DEF AddFill


LEMMA AddFillRuns ==
    ASSUME NEW s \in Seq(Fill \ Unstorable), NEW base \in Seq(Record)
    PROVE  \E run : /\ run[0] = base
                    /\ \A k \in 1 .. Len(s) : run[k] = AddFill(run[k - 1], s[k])
                    /\ FoldLeft(AddFill, base, s) = run[Len(s)]
<1> DEFINE V == Seq(Record)
           n == Len(s)
           take == [k \in 1 .. n |-> [v \in V |-> AddFill(v, s[k])]]
           F(f) == [T \in SUBSET (1 .. n) |->
                       IF T = {} THEN base ELSE AddFill(f[T \ {Max(T)}], s[Max(T)])]
<1>1. n \in Nat /\ DOMAIN s = 1 .. n /\ base \in V
  OBVIOUS
<1>2. \A k \in 1 .. n : \A v \in V : take[k][v] = AddFill(v, s[k]) /\ take[k][v] \in V
  <2>1. \A k \in 1 .. n : s[k] \in Fill \ Unstorable
    OBVIOUS
  <2>2. \A k \in 1 .. n : \A v \in V : AddFill(v, s[k]) \in V
    BY <2>1, AddFillType
  <2>3. QED
    BY <2>2
<1> HIDE DEF take, V, n
<1>3. PICK g \in [SUBSET (1 .. n) -> V] : IsLeftFold(g, n, base, take)
  BY <1>1, <1>2, LeftFoldExists
<1>4. \A T \in SUBSET (1 .. n) : T # {} => Max(T) \in 1 .. n /\ g[T \ {Max(T)}] \in V
  <2>1. \A T \in SUBSET (1 .. n) : T # {} => Max(T) \in T
    BY <1>1, GreatestOf
  <2>2. QED
    BY <2>1
<1>5. \A T \in SUBSET (1 .. n) :
          g[T] = IF T = {} THEN base ELSE AddFill(g[T \ {Max(T)}], s[Max(T)])
  BY <1>2, <1>3, <1>4 DEF IsLeftFold
<1>6. g = F(g)
  BY <1>5, Zenon
<1>7. PICK p : p = CHOOSE f : f = F(f)
  OBVIOUS
<1>8. p = F(p)
  <2> HIDE DEF F
  <2>1. \E f : f = F(f)
    BY <1>6
  <2>2. QED
    BY <1>7, <2>1, Zenon
<1>9. FoldLeft(AddFill, base, s) = p[1 .. n]
  BY <1>1, <1>7 DEF FoldLeft, MapThenFoldSet
<1>10. p[{}] = base
  BY <1>8
<1>11. \A k \in 1 .. n : p[1 .. k] = AddFill(p[1 .. (k - 1)], s[k])
  <2> SUFFICES ASSUME NEW k \in 1 .. n PROVE p[1 .. k] = AddFill(p[1 .. (k - 1)], s[k])
    OBVIOUS
  <2>1. /\ 1 .. k \in SUBSET (1 .. n) /\ 1 .. k # {}
        /\ Max(1 .. k) = k /\ (1 .. k) \ {Max(1 .. k)} = 1 .. (k - 1)
    BY <1>1, InitialIndices
  <2>2. p[1 .. k] = AddFill(p[(1 .. k) \ {Max(1 .. k)}], s[Max(1 .. k)])
    BY <1>8, <2>1, Zenon
  <2>3. QED
    BY <2>1, <2>2
<1> DEFINE run == [k \in 0 .. n |-> p[1 .. k]]
<1>12. /\ run[0] = base /\ run[n] = p[1 .. n]
       /\ \A k \in 1 .. n : run[k] = AddFill(run[k - 1], s[k])
  <2>1. 1 .. 0 = {} /\ 0 \in 0 .. n /\ n \in 0 .. n
    BY <1>1
  <2>2. \A k \in 1 .. n : k \in 0 .. n /\ k - 1 \in 0 .. n
    BY <1>1
  <2>3. QED
    BY <1>10, <1>11, <2>1, <2>2
<1>13. QED
  BY <1>9, <1>12 DEF n

Once(recs) ==
    \A i \in DOMAIN recs :
        LET after == {j \in DOMAIN recs : j > i}
        IN  /\ \A j \in after : recs[j].fill # recs[i].fill
            /\ recs[i].superseded <=> \E j \in after : Key[recs[j].fill] = Key[recs[i].fill]

\* One more execution is recorded once, and is the newest of its key.
LEMMA AddFillOnce ==
    ASSUME NEW recs \in Seq(Record), Once(recs), NEW f \in Fill \ Unstorable
    PROVE  Once(AddFill(recs, f))
<1> DEFINE n == Len(recs)
           old == Revised(recs, f)
           new == Append(old, [fill |-> f, superseded |-> FALSE])
<1>1. CASE \E i \in DOMAIN recs : recs[i].fill = f
  BY <1>1 DEF AddFill
<1>2. CASE ~\E i \in DOMAIN recs : recs[i].fill = f
  <2>1. AddFill(recs, f) = new
    BY <1>2 DEF AddFill
  <2>2. n \in Nat /\ DOMAIN recs = 1 .. n /\ \A i \in 1 .. n : recs[i] \in Record
    OBVIOUS
  <2>3. /\ old \in Seq(Record) /\ Len(old) = n
        /\ \A i \in 1 .. n : /\ old[i].fill = recs[i].fill
                             /\ old[i].superseded <=>
                                    recs[i].superseded \/ Key[recs[i].fill] = Key[f]
    <3>1. \A i \in 1 .. n : [recs[i] EXCEPT !.superseded = TRUE] \in Record
      BY <2>2 DEF Record
    <3>2. old \in [1 .. n -> Record]
      BY <2>2, <3>1 DEF Revised
    <3>3. \A i \in 1 .. n : old[i] = IF Key[recs[i].fill] = Key[f]
                                     THEN [recs[i] EXCEPT !.superseded = TRUE] ELSE recs[i]
      BY <2>2 DEF Revised
    <3>4. \A i \in 1 .. n : /\ old[i].fill = recs[i].fill
                            /\ old[i].superseded <=>
                                   recs[i].superseded \/ Key[recs[i].fill] = Key[f]
      BY <2>2, <3>3 DEF Record
    <3> HIDE DEF old
    <3>5. QED
      BY <2>2, <3>2, <3>4
  <2> HIDE DEF old, n
  <2>4. /\ DOMAIN new = 1 .. n + 1
        /\ new[n + 1] = [fill |-> f, superseded |-> FALSE]
        /\ \A i \in 1 .. n : new[i] = old[i]
    BY <2>2, <2>3
  <2> HIDE DEF new
  <2>5. ASSUME NEW i \in 1 .. n + 1
        PROVE  /\ \A j \in 1 .. n + 1 : j > i => new[j].fill # new[i].fill
               /\ new[i].superseded <=>
                      \E j \in 1 .. n + 1 : j > i /\ Key[new[j].fill] = Key[new[i].fill]
    <3>1. CASE i = n + 1
      <4>1. ~\E j \in 1 .. n + 1 : j > i
        BY <2>2, <3>1
      <4>2. QED
        BY <2>4, <3>1, <4>1
    <3>2. CASE i # n + 1
      <4>1. i \in 1 .. n /\ n + 1 \in 1 .. n + 1 /\ n + 1 > i
        BY <2>2, <3>2
      <4>2. /\ \A j \in 1 .. n : j > i => recs[j].fill # recs[i].fill
            /\ recs[i].superseded <=>
                   \E j \in 1 .. n : j > i /\ Key[recs[j].fill] = Key[recs[i].fill]
        BY <2>2, <4>1 DEF Once
      <4>3. \A j \in 1 .. n + 1 : j \in 1 .. n \/ j = n + 1
        BY <2>2
      <4>4. /\ new[i].fill = recs[i].fill /\ recs[i].fill # f
            /\ new[i].superseded <=> recs[i].superseded \/ Key[recs[i].fill] = Key[f]
            /\ new[n + 1].fill = f
            /\ \A j \in 1 .. n : new[j].fill = recs[j].fill
        BY <1>2, <2>2, <2>3, <2>4, <4>1
      <4>5. \A j \in 1 .. n + 1 : j > i => new[j].fill # new[i].fill
        BY <4>2, <4>3, <4>4
      <4>6. (\E j \in 1 .. n + 1 : j > i /\ Key[new[j].fill] = Key[new[i].fill])
               <=> (\E j \in 1 .. n : j > i /\ Key[recs[j].fill] = Key[recs[i].fill])
                   \/ Key[f] = Key[recs[i].fill]
        <5>1. \A j \in 1 .. n : j \in 1 .. n + 1
          BY <2>2
        <5>2. QED
          BY <4>1, <4>3, <4>4, <5>1
      <4>7. QED
        BY <4>2, <4>4, <4>5, <4>6
    <3>3. QED
      BY <3>1, <3>2
  <2>6. Once(new)
    BY <2>4, <2>5 DEF Once
  <2>7. QED
    BY <2>1, <2>6
<1>3. QED
  BY <1>1, <1>2

Identity == (Fill \X Nat) \cup (Explicit \X {0})
Row == [id : Identity, day : Days]

DistinctIds(trs) == \A i, j \in DOMAIN trs : trs[i].id = trs[j].id => i = j
IdsOf(trs) == {trs[i].id : i \in DOMAIN trs}

\* A row is inserted under its id, or takes the place of the one that has it.
LEMMA UpsertType ==
    ASSUME NEW trs \in Seq(Row), NEW row \in Row
    PROVE  /\ Upsert(trs, row) \in Seq(Row)
           /\ IdsOf(trs) \subseteq IdsOf(Upsert(trs, row))
           /\ DistinctIds(trs) => DistinctIds(Upsert(trs, row))
<1> DEFINE I == {i \in 1 .. Len(trs) : trs[i].id = row.id}
           spot == SelectInSeq(trs, LAMBDA tr : tr.id = row.id)
<1>1. Len(trs) \in Nat /\ DOMAIN trs = 1 .. Len(trs) /\ \A i \in 1 .. Len(trs) : trs[i] \in Row
  OBVIOUS
<1>2. I = {} => spot = 0 /\ Upsert(trs, row) = Append(trs, row)
  BY DEF SelectInSeq, Upsert
<1>3. I # {} => spot \in I /\ Upsert(trs, row) = [trs EXCEPT ![spot] = row]
  <2> SUFFICES ASSUME I # {} PROVE spot \in I /\ Upsert(trs, row) = [trs EXCEPT ![spot] = row]
    OBVIOUS
  <2>1. spot = Min(I)
    BY DEF SelectInSeq
  <2>2. I \in SUBSET Nat
    OBVIOUS
  <2>3. Min(I) \in I
    <3> HIDE DEF I
    <3>1. QED
      BY <2>2, LeastOf
  <2>4. spot \in I /\ spot # 0
    BY <2>1, <2>3
  <2>5. QED
    BY <2>4 DEF Upsert, ReplaceAt
<1> HIDE DEF spot
<1>4. CASE I = {}
  <2> DEFINE new == Append(trs, row)
  <2>1. /\ new \in Seq(Row) /\ DOMAIN new = 1 .. Len(trs) + 1 /\ new[Len(trs) + 1] = row
        /\ \A i \in 1 .. Len(trs) : new[i] = trs[i] /\ trs[i].id # row.id
    BY <1>1, <1>4
  <2> HIDE DEF new
  <2>2. \A i \in 1 .. Len(trs) : i \in DOMAIN new
    BY <1>1, <2>1
  <2>3. \A i \in DOMAIN new : i \in 1 .. Len(trs) \/ i = Len(trs) + 1
    BY <1>1, <2>1
  <2>4. IdsOf(trs) \subseteq IdsOf(new)
    BY <1>1, <2>1, <2>2 DEF IdsOf
  <2>5. DistinctIds(trs) => DistinctIds(new)
    BY <1>1, <2>1, <2>3 DEF DistinctIds
  <2>6. QED
    BY <1>2, <1>4, <2>1, <2>4, <2>5 DEF new
<1>5. CASE I # {}
  <2> DEFINE new == [trs EXCEPT ![spot] = row]
  <2>1. spot \in 1 .. Len(trs) /\ trs[spot].id = row.id
    BY <1>3, <1>5
  <2>2. /\ new \in Seq(Row) /\ DOMAIN new = 1 .. Len(trs) /\ new[spot] = row
        /\ \A i \in 1 .. Len(trs) : i # spot => new[i] = trs[i]
    BY <1>1, <2>1
  <2> HIDE DEF new
  <2>3. \A i \in 1 .. Len(trs) : new[i].id = trs[i].id
    BY <2>1, <2>2
  <2>4. IdsOf(trs) \subseteq IdsOf(new) /\ (DistinctIds(trs) => DistinctIds(new))
    BY <1>1, <2>2, <2>3 DEF IdsOf, DistinctIds
  <2>5. QED
    BY <1>3, <1>5, <2>2, <2>4 DEF new
<1>6. QED
  BY <1>4, <1>5

LEMMA UpsertRuns ==
    ASSUME NEW s \in Seq(Row), NEW base \in Seq(Row)
    PROVE  \E run : /\ run[0] = base
                    /\ \A k \in 1 .. Len(s) : run[k] = Upsert(run[k - 1], s[k])
                    /\ FoldLeft(Upsert, base, s) = run[Len(s)]
<1> DEFINE V == Seq(Row)
           n == Len(s)
           take == [k \in 1 .. n |-> [v \in V |-> Upsert(v, s[k])]]
           F(f) == [T \in SUBSET (1 .. n) |->
                       IF T = {} THEN base ELSE Upsert(f[T \ {Max(T)}], s[Max(T)])]
<1>1. n \in Nat /\ DOMAIN s = 1 .. n /\ base \in V
  OBVIOUS
<1>2. \A k \in 1 .. n : \A v \in V : take[k][v] = Upsert(v, s[k]) /\ take[k][v] \in V
  <2>1. \A k \in 1 .. n : s[k] \in Row
    OBVIOUS
  <2>2. \A k \in 1 .. n : \A v \in V : Upsert(v, s[k]) \in V
    BY <2>1, UpsertType
  <2>3. QED
    BY <2>2
<1> HIDE DEF take, V, n
<1>3. PICK g \in [SUBSET (1 .. n) -> V] : IsLeftFold(g, n, base, take)
  BY <1>1, <1>2, LeftFoldExists
<1>4. \A T \in SUBSET (1 .. n) : T # {} => Max(T) \in 1 .. n /\ g[T \ {Max(T)}] \in V
  <2>1. \A T \in SUBSET (1 .. n) : T # {} => Max(T) \in T
    BY <1>1, GreatestOf
  <2>2. QED
    BY <2>1
<1>5. \A T \in SUBSET (1 .. n) :
          g[T] = IF T = {} THEN base ELSE Upsert(g[T \ {Max(T)}], s[Max(T)])
  BY <1>2, <1>3, <1>4 DEF IsLeftFold
<1>6. g = F(g)
  BY <1>5, Zenon
<1>7. PICK p : p = CHOOSE f : f = F(f)
  OBVIOUS
<1>8. p = F(p)
  <2> HIDE DEF F
  <2>1. \E f : f = F(f)
    BY <1>6
  <2>2. QED
    BY <1>7, <2>1, Zenon
<1>9. FoldLeft(Upsert, base, s) = p[1 .. n]
  BY <1>1, <1>7 DEF FoldLeft, MapThenFoldSet
<1>10. p[{}] = base
  BY <1>8
<1>11. \A k \in 1 .. n : p[1 .. k] = Upsert(p[1 .. (k - 1)], s[k])
  <2> SUFFICES ASSUME NEW k \in 1 .. n PROVE p[1 .. k] = Upsert(p[1 .. (k - 1)], s[k])
    OBVIOUS
  <2>1. /\ 1 .. k \in SUBSET (1 .. n) /\ 1 .. k # {}
        /\ Max(1 .. k) = k /\ (1 .. k) \ {Max(1 .. k)} = 1 .. (k - 1)
    BY <1>1, InitialIndices
  <2>2. p[1 .. k] = Upsert(p[(1 .. k) \ {Max(1 .. k)}], s[Max(1 .. k)])
    BY <1>8, <2>1, Zenon
  <2>3. QED
    BY <2>1, <2>2
<1> DEFINE run == [k \in 0 .. n |-> p[1 .. k]]
<1>12. /\ run[0] = base /\ run[n] = p[1 .. n]
       /\ \A k \in 1 .. n : run[k] = Upsert(run[k - 1], s[k])
  <2>1. 1 .. 0 = {} /\ 0 \in 0 .. n /\ n \in 0 .. n
    BY <1>1
  <2>2. \A k \in 1 .. n : k \in 0 .. n /\ k - 1 \in 0 .. n
    BY <1>1
  <2>3. QED
    BY <1>10, <1>11, <2>1, <2>2
<1>13. QED
  BY <1>9, <1>12 DEF n

\* The rows of a batch, or of a correction, leave the trades distinct and take none away.
LEMMA InsertedTrades ==
    ASSUME NEW base \in Seq(Row), DistinctIds(base), NEW rows \in Seq(Row)
    PROVE  /\ FoldLeft(Upsert, base, rows) \in Seq(Row)
           /\ DistinctIds(FoldLeft(Upsert, base, rows))
           /\ IdsOf(base) \subseteq IdsOf(FoldLeft(Upsert, base, rows))
<1> DEFINE Admissible == {trs \in Seq(Row) : DistinctIds(trs) /\ IdsOf(base) \subseteq IdsOf(trs)}
<1>1. PICK run : /\ run[0] = base
                 /\ \A k \in 1 .. Len(rows) : run[k] = Upsert(run[k - 1], rows[k])
                 /\ FoldLeft(Upsert, base, rows) = run[Len(rows)]
  BY UpsertRuns
<1>2. Len(rows) \in Nat /\ \A k \in 1 .. Len(rows) : rows[k] \in Row
  OBVIOUS
<1>3. run[0] \in Admissible
  BY <1>1
<1>4. \A k \in 1 .. Len(rows) : run[k - 1] \in Admissible => run[k] \in Admissible
  <2> SUFFICES ASSUME NEW k \in 1 .. Len(rows), run[k - 1] \in Admissible PROVE run[k] \in Admissible
    OBVIOUS
  <2>1. rows[k] \in Row /\ run[k - 1] \in Seq(Row) /\ DistinctIds(run[k - 1])
    BY <1>2
  <2>2. /\ Upsert(run[k - 1], rows[k]) \in Seq(Row)
        /\ IdsOf(run[k - 1]) \subseteq IdsOf(Upsert(run[k - 1], rows[k]))
        /\ DistinctIds(Upsert(run[k - 1], rows[k]))
    BY <2>1, UpsertType
  <2>3. IdsOf(base) \subseteq IdsOf(run[k - 1])
    OBVIOUS
  <2>4. QED
    BY <1>1, <2>2, <2>3
<1> HIDE DEF Admissible
<1>5. \A k \in 0 .. Len(rows) : run[k] \in Admissible
  BY <1>2, <1>3, <1>4, RunInduction
<1>6. run[Len(rows)] \in Admissible
  BY <1>2, <1>5
<1>7. QED
  BY <1>1, <1>6 DEF Admissible

LEMMA RecordedFills ==
    ASSUME NEW base \in Seq(Record), Once(base), NEW fills \in Seq(Fill \ Unstorable)
    PROVE  /\ FoldLeft(AddFill, base, fills) \in Seq(Record)
           /\ Once(FoldLeft(AddFill, base, fills))
<1> DEFINE Admissible == {recs \in Seq(Record) : Once(recs)}
<1>1. PICK run : /\ run[0] = base
                 /\ \A k \in 1 .. Len(fills) : run[k] = AddFill(run[k - 1], fills[k])
                 /\ FoldLeft(AddFill, base, fills) = run[Len(fills)]
  BY AddFillRuns
<1>2. Len(fills) \in Nat /\ \A k \in 1 .. Len(fills) : fills[k] \in Fill \ Unstorable
  OBVIOUS
<1>3. run[0] \in Admissible
  BY <1>1
<1>4. \A k \in 1 .. Len(fills) : run[k - 1] \in Admissible => run[k] \in Admissible
  <2> SUFFICES ASSUME NEW k \in 1 .. Len(fills), run[k - 1] \in Admissible PROVE run[k] \in Admissible
    OBVIOUS
  <2>1. fills[k] \in Fill \ Unstorable /\ run[k - 1] \in Seq(Record) /\ Once(run[k - 1])
    BY <1>2
  <2>2. /\ AddFill(run[k - 1], fills[k]) \in Seq(Record)
        /\ Once(AddFill(run[k - 1], fills[k]))
    BY <2>1, AddFillType, AddFillOnce
  <2>3. QED
    BY <1>1, <2>2
<1> HIDE DEF Admissible
<1>5. \A k \in 0 .. Len(fills) : run[k] \in Admissible
  BY <1>2, <1>3, <1>4, RunInduction
<1>6. run[Len(fills)] \in Admissible
  BY <1>2, <1>5
<1>7. QED
  BY <1>1, <1>6 DEF Admissible

LEMMA DaysAreNumbers == Days \subseteq Int
  BY ImportAssumption DEF Days

LEMMA MatchingIsFinite ==
    ASSUME trades \in Seq(Row), NEW days
    PROVE  /\ Matching(days) \subseteq DOMAIN trades /\ IsFiniteSet(Matching(days))
           /\ Cardinality(Matching(days)) \in Nat
<1>1. PICK n \in Nat : n = Len(trades) /\ DOMAIN trades = 1 .. n
  OBVIOUS
<1>2. Matching(days) \in SUBSET (1 .. n)
  BY <1>1 DEF Matching
<1>3. IsFiniteSet(1 .. n)
  BY FS_Interval
<1>4. IsFiniteSet(Matching(days))
  BY <1>2, <1>3, FS_Subset
<1>5. QED
  BY <1>1, <1>2, <1>4, FS_CardinalityType

\* The places of the trades in the list are the numbers from one on: of two trades one
\* is listed before the other, and it has fewer before it.
LEMMA PlacesAreTaken ==
    ASSUME trades \in Seq(Row), NEW days
    PROVE  \A k \in 1 .. Cardinality(Matching(days)) : \E i \in Matching(days) : ListedAt(i, days) = k
<1>0. PICK D : D = Matching(days)
  OBVIOUS
<1> DEFINE n == Cardinality(D)
           Before(i) == {j \in D : ListedBefore(j, i)}
           spot == [i \in D |-> ListedAt(i, days)]
<1>1. n \in Nat /\ D \subseteq DOMAIN trades /\ IsFiniteSet(D)
  BY <1>0, MatchingIsFinite
<1>2. \A i \in D : i \in Int /\ trades[i].day \in Int
  <2>1. \A i \in DOMAIN trades : trades[i] \in Row /\ i \in Int
    OBVIOUS
  <2>2. QED
    BY <1>1, <2>1, DaysAreNumbers DEF Row
<1>3. \A i, j \in D : i # j => ListedBefore(i, j) \/ ListedBefore(j, i)
  BY <1>2 DEF ListedBefore
<1>4. \A i, j, k \in D : ListedBefore(i, j) /\ ListedBefore(j, k) => ListedBefore(i, k)
  BY <1>2 DEF ListedBefore
<1>5. \A i \in D : ~ListedBefore(i, i)
  BY <1>2 DEF ListedBefore
<1>6. \A i \in D : /\ IsFiniteSet(Before(i)) /\ Cardinality(Before(i)) \in Nat
                   /\ Cardinality(Before(i)) < n /\ ListedAt(i, days) = Cardinality(Before(i)) + 1
  <2> SUFFICES ASSUME NEW i \in D
               PROVE  /\ IsFiniteSet(Before(i)) /\ Cardinality(Before(i)) \in Nat
                      /\ Cardinality(Before(i)) < n /\ ListedAt(i, days) = Cardinality(Before(i)) + 1
    OBVIOUS
  <2>1. Before(i) \in SUBSET D /\ Before(i) # D
    BY <1>5
  <2>2. ListedAt(i, days) = Cardinality(Before(i)) + 1
    BY <1>0 DEF ListedAt
  <2> HIDE DEF Before
  <2>3. /\ IsFiniteSet(Before(i)) /\ Cardinality(Before(i)) <= Cardinality(D)
        /\ Cardinality(D) # Cardinality(Before(i))
    BY <1>1, <2>1, FS_Subset
  <2>4. Cardinality(Before(i)) \in Nat
    BY <2>3, FS_CardinalityType
  <2>5. QED
    BY <1>1, <2>2, <2>3, <2>4
<1>7. \A i, j \in D : ListedBefore(i, j) => ListedAt(i, days) # ListedAt(j, days)
  <2> SUFFICES ASSUME NEW i \in D, NEW j \in D, ListedBefore(i, j)
               PROVE  ListedAt(i, days) # ListedAt(j, days)
    OBVIOUS
  <2>1. Before(i) \in SUBSET Before(j) /\ i \in Before(j) /\ i \notin Before(i)
    BY <1>4, <1>5
  <2> HIDE DEF Before
  <2>2. IsFiniteSet(Before(j)) /\ Before(i) # Before(j)
    BY <1>6, <2>1
  <2>3. Cardinality(Before(j)) # Cardinality(Before(i))
    BY <2>1, <2>2, FS_Subset
  <2>4. QED
    BY <1>6, <2>3
<1>8. spot \in Injection(D, 1 .. n)
  <2>0. \A i \in D : ListedAt(i, days) \in 1 .. n
    <3> HIDE DEF Before, n, spot
    <3>1. QED
      BY <1>1, <1>6
  <2>1. \A i \in D : spot[i] = ListedAt(i, days) /\ ListedAt(i, days) \in 1 .. n
    BY <2>0
  <2>2. \A i, j \in D : spot[i] = spot[j] => i = j
    BY <1>3, <1>7, <2>1
  <2>3. spot \in [D -> 1 .. n]
    BY <2>1
  <2> HIDE DEF spot
  <2>4. QED
    BY <2>2, <2>3 DEF Injection, IsInjective
<1>9. spot \in Surjection(D, 1 .. n)
  <2> HIDE DEF spot
  <2>1. IsFiniteSet(1 .. n) /\ Cardinality(1 .. n) = n
    <3> HIDE DEF n
    <3>1. QED
      BY <1>1, InitialCount, FS_Interval
  <2>2. QED
    BY <1>1, <1>8, <2>1, FS_Injection
<1>10. \A k \in 1 .. n : \E i \in D : spot[i] = k
  <2> HIDE DEF spot
  <2>1. QED
    BY <1>9 DEF Surjection
<1>11. QED
  BY <1>0, <1>10

LEMMA IdsAreFinite ==
    ASSUME NEW trs \in Seq(Row)
    PROVE  IsFiniteSet(IdsOf(trs)) /\ IdsOf(trs) \subseteq Identity
<1>1. PICK n \in Nat : /\ n = Len(trs) /\ DOMAIN trs = 1 .. n
                       /\ \A i \in 1 .. n : trs[i] \in Row
  OBVIOUS
<1> DEFINE ids == [i \in 1 .. n |-> trs[i].id]
<1>2. ids \in Surjection(1 .. n, IdsOf(trs))
  <2>1. ids \in [1 .. n -> IdsOf(trs)] /\ \A x \in IdsOf(trs) : \E i \in 1 .. n : ids[i] = x
    BY <1>1 DEF IdsOf
  <2> HIDE DEF ids
  <2>2. QED
    BY <2>1 DEF Surjection
<1>3. IsFiniteSet(1 .. n)
  BY FS_Interval
<1> HIDE DEF ids
<1>4. IsFiniteSet(IdsOf(trs))
  BY <1>2, <1>3, FS_Surjection
<1>5. IdsOf(trs) \subseteq Identity
  BY <1>1 DEF IdsOf, Row
<1>6. QED
  BY <1>4, <1>5

\* The trades of some days are trades, and those of all days are all.
LEMMA InsideOf ==
    ASSUME NEW trs \in Seq(Row), NEW days
    PROVE  /\ IdsIn(trs, days) \subseteq IdsOf(trs)
           /\ days = Days => IdsIn(trs, days) = IdsOf(trs)
<1>1. \A i \in DOMAIN trs : trs[i] \in Row
  OBVIOUS
<1>2. \A i \in DOMAIN trs : trs[i].day \in Days
  BY <1>1 DEF Row
<1>3. QED
  BY <1>2 DEF IdsIn, IdsOf

\* The list shows each trade of these days once.
LEMMA ListShowsAll ==
    ASSUME trades \in Seq(Row), DistinctIds(trades), NEW days
    PROVE  /\ Listed(days) \in Seq(Ids) /\ IsInjective(Listed(days))
           /\ Len(Listed(days)) = Cardinality(IdsIn(trades, days))
           /\ ToSet(Listed(days)) \subseteq IdsIn(trades, days)
           /\ IdsIn(trades, days) \subseteq Ids /\ IsFiniteSet(IdsIn(trades, days))
<1> DEFINE chosen(k) == CHOOSE i \in Matching(days) : ListedAt(i, days) = k
<1>00. Listed(days) = [k \in 1 .. Cardinality(Matching(days)) |-> trades[chosen(k)].id]
  BY DEF Listed
<1>0. PICK D : D = Matching(days)
  OBVIOUS
<1>1. PICK n \in Nat : n = Cardinality(D)
  BY <1>0, MatchingIsFinite
<1>01. PICK inside : inside = IdsIn(trades, days)
  OBVIOUS
<1> DEFINE ids == [i \in D |-> trades[i].id]
<1>2. \A k \in 1 .. n : chosen(k) \in D /\ ListedAt(chosen(k), days) = k
  <2>1. \A k \in 1 .. n : \E i \in D : ListedAt(i, days) = k
    BY <1>0, <1>1, PlacesAreTaken
  <2>2. QED
    BY <1>0, <2>1
<1>3. D \subseteq DOMAIN trades /\ IsFiniteSet(D)
  BY <1>0, MatchingIsFinite
<1>4. inside = {trades[i].id : i \in D} /\ inside \subseteq Ids
  <2>1. inside = {trades[i].id : i \in D}
    BY <1>0, <1>01 DEF IdsIn, Matching
  <2>2. QED
    BY <1>3, <2>1 DEF Ids
<1> HIDE DEF chosen
<1>6. PICK list : list = [k \in 1 .. n |-> trades[chosen(k)].id]
  OBVIOUS
<1>7. \A k \in 1 .. n : list[k] = trades[chosen(k)].id /\ list[k] \in inside
  BY <1>2, <1>4, <1>6
<1>8. list \in Seq(Ids) /\ Len(list) = n /\ DOMAIN list = 1 .. n /\ ToSet(list) \subseteq inside
  <2>1. list \in [1 .. n -> Ids]
    BY <1>4, <1>6, <1>7
  <2>2. QED
    BY <1>7, <2>1 DEF ToSet
<1>9. IsInjective(list)
  <2> SUFFICES ASSUME NEW j \in 1 .. n, NEW k \in 1 .. n, list[j] = list[k] PROVE j = k
    BY <1>8 DEF IsInjective
  <2>1. chosen(j) = chosen(k)
    BY <1>2, <1>3, <1>7 DEF DistinctIds
  <2>2. QED
    BY <1>2, <2>1
<1>10. IsFiniteSet(inside) /\ Cardinality(inside) = n
  <2>1. ids \in Bijection(D, inside)
    <3>1. ids \in [D -> inside]
      BY <1>4
    <3>2. \A i, j \in D : ids[i] = ids[j] => i = j
      BY <1>3 DEF DistinctIds
    <3>3. \A x \in inside : \E i \in D : ids[i] = x
      BY <1>4
    <3> HIDE DEF ids
    <3>4. QED
      BY <3>1, <3>2, <3>3 DEF Bijection, Injection, Surjection, IsInjective
  <2>2. ExistsBijection(D, inside)
    BY <2>1 DEF ExistsBijection
  <2>3. QED
    BY <1>1, <1>3, <2>2, FS_Bijection
<1>11. QED
  <2>1. Listed(days) = list
    BY <1>0, <1>00, <1>1, <1>6
  <2>2. QED
    BY <1>01, <1>4, <1>8, <1>9, <1>10, <2>1

\* What a request holds, while the trades in the store are those of ids and those of its
\* days are those inside: rows that are inside or have left, each once; if it has read
\* all, it lacks no more of those it knew than have left, and none has left all days.
Requests == [op : {"idle", "import", "read", "whole"}, batch : Seq(Fill), days : SUBSET Days,
             rows : Seq(Identity), known : SUBSET Identity, left : SUBSET Identity]

SoundRequest(q, ids, inside) ==
    /\ q \in Requests
    /\ ToSet(q.rows) \subseteq inside \cup q.left /\ q.known \subseteq inside \cup q.left
    /\ q.left \subseteq ids /\ IsInjective(q.rows)
    /\ q.op = "import" => q.batch \in Batches
    /\ q.op = "whole" => Cardinality(q.known \ ToSet(q.rows)) <= Cardinality(q.left)
    /\ q.days = Days => q.left = {}

SoundIn(q, trs) == SoundRequest(q, IdsOf(trs), IdsIn(trs, q.days))

ImportInv ==
    /\ records \in Seq(Record) /\ Once(records)
    /\ durable \in Seq(Record) /\ Once(durable)
    /\ trades \in Seq(Row) /\ DistinctIds(trades)
    /\ request \in [Request -> Requests]
    /\ \A r \in Request : SoundIn(request[r], trades)
    /\ imports \in 0 .. MaxImports

LEMMA FreeIsSound == \A ids, inside : SoundRequest(Free, ids, inside)
<1>1. << >> \in Seq(Fill) /\ << >> \in Seq(Identity) /\ DOMAIN << >> = {}
  OBVIOUS
<1>2. Free \in Requests
  BY <1>1 DEF Free, Requests
<1>3. /\ ToSet(Free.rows) = {} /\ Free.known = {} /\ Free.left = {} /\ Free.op = "idle"
      /\ IsInjective(Free.rows)
  BY <1>1 DEF Free, ToSet, IsInjective
<1>4. QED
  BY <1>2, <1>3 DEF SoundRequest

LEMMA FreeIsSoundIn == \A trs : SoundIn(Free, trs)
  BY FreeIsSound DEF SoundIn

\* Whatever happens to the trades, the readings stay sound.
LEMMA OvertakenIsSound ==
    ASSUME NEW q, NEW ids, NEW inside, SoundRequest(q, ids, inside),
           NEW more, ids \subseteq more, IsFiniteSet(more), more \subseteq Identity,
           inside \subseteq ids, NEW now, now \subseteq more,
           q.days = Days => now = more
    PROVE  SoundRequest([q EXCEPT !.left = @ \cup (inside \ now)], more, now)
<1>1. PICK left : left = q.left \cup (inside \ now)
  OBVIOUS
<1>2. PICK p : p = [q EXCEPT !.left = @ \cup (inside \ now)]
  OBVIOUS
<1>3. q \in Requests
  BY DEF SoundRequest
<1>4. left \subseteq more /\ left \subseteq Identity /\ q.left \subseteq left /\ inside \subseteq now \cup left
  BY <1>1 DEF SoundRequest
<1>5. /\ p.op = q.op /\ p.batch = q.batch /\ p.days = q.days /\ p.rows = q.rows
      /\ p.known = q.known /\ p.left = left /\ p \in Requests
  BY <1>1, <1>2, <1>3, <1>4 DEF Requests
<1>6. Cardinality(q.left) <= Cardinality(left)
  <2>1. IsFiniteSet(left)
    BY <1>4, FS_Subset
  <2>2. QED
    BY <1>4, <2>1, FS_Subset
<1>7. Cardinality(q.left) \in Int /\ Cardinality(left) \in Int
  <2>1. IsFiniteSet(left) /\ IsFiniteSet(q.left)
    BY <1>4, FS_Subset
  <2>2. QED
    BY <2>1, FS_CardinalityType
<1>8. p.op = "whole" => Cardinality(p.known \ ToSet(p.rows)) <= Cardinality(p.left)
  <2> SUFFICES ASSUME q.op = "whole"
               PROVE  Cardinality(q.known \ ToSet(q.rows)) <= Cardinality(left)
    BY <1>5
  <2>1. PICK c : c = Cardinality(q.known \ ToSet(q.rows))
    OBVIOUS
  <2>2. c <= Cardinality(q.left)
    BY <2>1 DEF SoundRequest
  <2>3. c \in Int
    <3>1. q.known \ ToSet(q.rows) \subseteq more
      BY <1>4 DEF SoundRequest
    <3>2. IsFiniteSet(q.known \ ToSet(q.rows))
      BY <3>1, FS_Subset
    <3>3. QED
      BY <2>1, <3>2, FS_CardinalityType
  <2>4. QED
    BY <1>6, <1>7, <2>1, <2>2, <2>3
<1>9. p.days = Days => p.left = {}
  BY <1>1, <1>5 DEF SoundRequest
<1>10. SoundRequest(p, more, now)
  BY <1>4, <1>5, <1>8, <1>9 DEF SoundRequest
<1>11. QED
  BY <1>2, <1>10

LEMMA OvertakenStaySound ==
    ASSUME ImportInv, trades' \in Seq(Row), IdsOf(trades) \subseteq IdsOf(trades')
    PROVE  /\ Overtaken \in [Request -> Requests]
           /\ \A x \in Request :
                  SoundIn(Overtaken[x], trades')
<1>1. ASSUME NEW x \in Request
      PROVE  SoundIn(Overtaken[x], trades')
  <2>1. PICK q : q = request[x]
    OBVIOUS
  <2>2. PICK trs \in Seq(Row) : trs = trades'
    OBVIOUS
  <2>3. q \in Requests /\ SoundIn(q, trades) /\ trades \in Seq(Row)
    BY <2>1 DEF ImportInv, SoundIn, SoundRequest
  <2>4. PICK inside : inside = IdsIn(trades, q.days)
    OBVIOUS
  <2>5. PICK now : now = IdsIn(trs, q.days)
    OBVIOUS
  <2>6. Overtaken[x] = [q EXCEPT !.left = @ \cup (inside \ now)]
    BY <2>1, <2>2, <2>4, <2>5 DEF Overtaken
  <2>7. /\ inside \subseteq IdsOf(trades) /\ now \subseteq IdsOf(trs)
        /\ q.days = Days => now = IdsOf(trs)
    BY <2>3, <2>4, <2>5, InsideOf
  <2>8. IsFiniteSet(IdsOf(trs)) /\ IdsOf(trs) \subseteq Identity /\ IdsOf(trades) \subseteq IdsOf(trs)
    BY <2>2, IdsAreFinite
  <2>9. SoundRequest([q EXCEPT !.left = @ \cup (inside \ now)], IdsOf(trs), now)
    BY <2>3, <2>4, <2>7, <2>8, OvertakenIsSound DEF SoundIn
  <2>10. Overtaken[x].days = q.days
    BY <2>3, <2>6 DEF Requests
  <2>11. QED
    BY <2>2, <2>5, <2>6, <2>9, <2>10 DEF SoundIn
<1>2. DOMAIN Overtaken = Request /\ \E f : Overtaken = [x \in Request |-> f[x]]
  <2>1. Overtaken = [x \in Request |-> Overtaken[x]]
    BY DEF Overtaken
  <2>2. QED
    BY <2>1
<1>3. \A x \in Request : Overtaken[x] \in Requests
  BY <1>1 DEF SoundIn, SoundRequest
<1>4. Overtaken \in [Request -> Requests]
  BY <1>2, <1>3
<1>5. QED
  BY <1>1, <1>4

\* A step that leaves the trades alone and changes one request, soundly.
LEMMA RequestsStaySound ==
    ASSUME ImportInv, trades' = trades, NEW r \in Request, NEW q,
           request' = [request EXCEPT ![r] = q],
           SoundIn(q, trades)
    PROVE  /\ request' \in [Request -> Requests]
           /\ \A x \in Request : SoundIn(request'[x], trades')
<1>1. request \in [Request -> Requests] /\ q \in Requests
  BY DEF ImportInv, SoundIn, SoundRequest
<1>2. \A x \in Request : request'[x] = IF x = r THEN q ELSE request[x]
  BY <1>1
<1>3. \A x \in Request : SoundIn(request[x], trades)
  BY DEF ImportInv
<1>4. request' \in [Request -> Requests]
  BY <1>1
<1>5. QED
  BY <1>2, <1>3, <1>4

LEMMA ImportInitial == ImportInit => ImportInv
<1> SUFFICES ASSUME ImportInit PROVE ImportInv
  OBVIOUS
<1>1. << >> \in Seq(Record) /\ << >> \in Seq(Row) /\ DOMAIN << >> = {}
  OBVIOUS
<1>2. Once(<< >>) /\ DistinctIds(<< >>)
  BY <1>1 DEF Once, DistinctIds
<1>3. Free \in Requests
  BY FreeIsSound DEF SoundRequest
<1>4. \A r \in Request : SoundIn(request[r], trades)
  BY FreeIsSound DEF ImportInit, SoundIn
<1>5. imports \in 0 .. MaxImports
  BY ImportAssumption DEF ImportInit
<1>6. QED
  BY <1>1, <1>2, <1>3, <1>4, <1>5 DEF ImportInit, ImportInv

\* What the trades may do to a batch's rows.
LEMMA GeneratedType ==
    ASSUME NEW batch \in Seq(Fill)
    PROVE  Generated(batch) \in Seq(Row)
<1>1. Len(batch) \in Nat /\ DOMAIN batch = 1 .. Len(batch)
      /\ \A i \in 1 .. Len(batch) : batch[i] \in Fill
  OBVIOUS
<1>2. \A i \in 1 .. Len(batch) : Cardinality({j \in 1 .. i : batch[j] = batch[i]}) \in Nat
  <2> SUFFICES ASSUME NEW i \in 1 .. Len(batch)
               PROVE  Cardinality({j \in 1 .. i : batch[j] = batch[i]}) \in Nat
    OBVIOUS
  <2> DEFINE J == {j \in 1 .. i : batch[j] = batch[i]}
  <2>1. IsFiniteSet(1 .. i)
    BY FS_Interval
  <2>2. J \in SUBSET (1 .. i)
    OBVIOUS
  <2> HIDE DEF J
  <2>3. IsFiniteSet(J)
    BY <2>1, <2>2, FS_Subset
  <2>4. Cardinality(J) \in Nat
    BY <2>3, FS_CardinalityType
  <2>5. QED
    BY <2>4 DEF J
<1>3. \A i \in 1 .. Len(batch) : Day[batch[i]] \in Days
  BY <1>1 DEF Days
<1> DEFINE row(i) == [id |-> <<batch[i], Cardinality({j \in 1 .. i : batch[j] = batch[i]})>>,
                      day |-> Day[batch[i]]]
<1>4. \A i \in 1 .. Len(batch) : row(i) \in Row
  BY <1>1, <1>2, <1>3 DEF Row, Identity
<1>5. Generated(batch) = [i \in 1 .. Len(batch) |-> row(i)]
  BY <1>1 DEF Generated
<1> HIDE DEF row
<1>6. QED
  BY <1>1, <1>4, <1>5

LEMMA InsertStep ==
    ASSUME ImportInv, NEW rows \in Seq(Row), insert_trades(rows)
    PROVE  trades' \in Seq(Row) /\ DistinctIds(trades') /\ IdsOf(trades) \subseteq IdsOf(trades')
<1>1. /\ FoldLeft(Upsert, trades, rows) \in Seq(Row)
      /\ DistinctIds(FoldLeft(Upsert, trades, rows))
      /\ IdsOf(trades) \subseteq IdsOf(FoldLeft(Upsert, trades, rows))
  BY InsertedTrades DEF ImportInv
<1>2. QED
  BY <1>1 DEF insert_trades

LEMMA ImportCommitStep ==
    ASSUME ImportInv, NEW r \in Request, commit_import(r)
    PROVE  ImportInv'
<1>1. PICK batch \in Batches : add_fills(r, batch)
  BY DEF commit_import
<1>2. request[r].op = "idle" /\ trades' = trades /\ imports' \in 0 .. MaxImports
  BY ImportAssumption DEF commit_import, ImportInv
<1> DEFINE refused == SelectInSeq(batch, LAMBDA f : f \in Unstorable)
           I == {i \in 1 .. Len(batch) : batch[i] \in Unstorable}
<1>3. batch \in Seq(Fill)
  BY ImportAssumption
<1>4. Len(batch) \in Nat /\ \A i \in 1 .. Len(batch) : batch[i] \in Fill
  BY <1>3
<1>5. refused = IF I # {} THEN Min(I) ELSE 0
  BY DEF SelectInSeq
<1>6. CASE refused = 0
  <2>1. I = {}
    <3>1. I # {} => Min(I) \in I
      <4>1. I \in SUBSET Nat
        OBVIOUS
      <4> HIDE DEF I
      <4>2. QED
        BY <4>1, LeastOf
    <3>2. 0 \notin I
      OBVIOUS
    <3> HIDE DEF I, refused
    <3>3. QED
      BY <1>5, <1>6, <3>1, <3>2
  <2>2. batch \in Seq(Fill \ Unstorable)
    <3>1. \A i \in 1 .. Len(batch) : batch[i] \in Fill \ Unstorable
      BY <1>4, <2>1
    <3>2. batch \in [1 .. Len(batch) -> Fill \ Unstorable]
      BY <1>3, <3>1
    <3>3. QED
      BY <1>4, <3>2
  <2>3. /\ records' = FoldLeft(AddFill, records, batch) /\ durable' = records'
        /\ request' = [request EXCEPT ![r] = [Free EXCEPT !.op = "import", !.batch = batch]]
    BY <1>1, <1>6 DEF add_fills
  <2>4. records' \in Seq(Record) /\ Once(records')
    BY <2>2, <2>3, RecordedFills DEF ImportInv
  <2>5. SoundIn([Free EXCEPT !.op = "import", !.batch = batch], trades)
    <3>1. SoundIn(Free, trades)
      BY FreeIsSoundIn
    <3>2. QED
      BY <1>3, <3>1 DEF SoundIn, SoundRequest, Requests, Free
  <2>6. /\ request' \in [Request -> Requests]
        /\ \A x \in Request : SoundIn(request'[x], trades')
    BY <1>2, <2>3, <2>5, RequestsStaySound
  <2>7. QED
    BY <1>2, <2>3, <2>4, <2>6 DEF ImportInv
<1>7. CASE refused # 0
  <2>1. refused \in I /\ \A i \in I : refused <= i
    <3>1. I \in SUBSET Nat
      OBVIOUS
    <3> HIDE DEF I, refused
    <3>2. I # {} /\ refused = Min(I)
      BY <1>5, <1>7
    <3>3. QED
      BY <3>1, <3>2, LeastOf
  <2> DEFINE taken == SubSeq(batch, 1, refused - 1)
  <2>2. refused \in 1 .. Len(batch) /\ \A i \in 1 .. refused - 1 : batch[i] \in Fill \ Unstorable
    <3>1. refused \in 1 .. Len(batch)
      BY <2>1
    <3> HIDE DEF refused
    <3>2. \A i \in 1 .. refused - 1 : i \in 1 .. Len(batch) /\ ~(refused <= i)
      BY <1>4, <3>1
    <3>3. QED
      BY <1>4, <2>1, <3>1, <3>2
  <2>3. /\ records' = FoldLeft(AddFill, records, taken) /\ durable' = durable
        /\ request' = request
    BY <1>1, <1>7 DEF add_fills
  <2>4. taken \in Seq(Fill \ Unstorable)
    <3> HIDE DEF refused
    <3>1. taken = [i \in 1 .. refused - 1 |-> batch[i]]
      BY <1>3, <2>2
    <3>2. refused - 1 \in Nat
      BY <1>4, <2>2
    <3>3. taken \in [1 .. refused - 1 -> Fill \ Unstorable]
      <4> HIDE DEF taken
      <4>1. QED
        BY <2>2, <3>1
    <3> HIDE DEF taken
    <3>4. QED
      BY <3>2, <3>3
  <2> HIDE DEF taken
  <2>5. records' \in Seq(Record) /\ Once(records')
    BY <2>3, <2>4, RecordedFills DEF ImportInv
  <2>6. QED
    BY <1>2, <2>3, <2>5 DEF ImportInv
<1>8. QED
  BY <1>6, <1>7

LEMMA ImportTradesStep ==
    ASSUME ImportInv, NEW r \in Request, import_trades(r)
    PROVE  ImportInv'
<1>1. request[r].batch \in Seq(Fill)
  BY DEF ImportInv, Requests
<1>2. trades' \in Seq(Row) /\ DistinctIds(trades') /\ IdsOf(trades) \subseteq IdsOf(trades')
  <2>1. CASE insert_trades(Generated(request[r].batch))
    BY <1>1, <2>1, GeneratedType, InsertStep
  <2>2. CASE UNCHANGED trades
    BY <2>2 DEF ImportInv
  <2>3. QED
    BY <2>1, <2>2 DEF import_trades
<1>3. PICK after : after = Overtaken
  OBVIOUS
<1>4. after \in [Request -> Requests] /\ \A x \in Request : SoundIn(after[x], trades')
  BY <1>2, <1>3, OvertakenStaySound
<1>5. request' = [after EXCEPT ![r] = Free]
  BY <1>3 DEF import_trades
<1>6. SoundIn(Free, trades') /\ Free \in Requests
  BY FreeIsSoundIn DEF SoundIn, SoundRequest
<1>7. request' \in [Request -> Requests] /\ \A x \in Request : SoundIn(request'[x], trades')
  BY <1>4, <1>5, <1>6
<1>8. QED
  BY <1>2, <1>7 DEF import_trades, ImportInv

LEMMA CorrectStep ==
    ASSUME ImportInv, NEW r \in Request, Correct(r)
    PROVE  ImportInv'
<1>1. PICK e \in Explicit, day \in Days :
          insert_trades(<<[id |-> <<e, 0>>, day |-> day]>>)
  BY DEF Correct
<1>2. [id |-> <<e, 0>>, day |-> day] \in Row
  BY DEF Row, Identity
<1>3. <<[id |-> <<e, 0>>, day |-> day]>> \in Seq(Row)
  BY <1>2
<1>4. trades' \in Seq(Row) /\ DistinctIds(trades') /\ IdsOf(trades) \subseteq IdsOf(trades')
  BY <1>1, <1>3, InsertStep
<1>5. request' \in [Request -> Requests] /\ \A x \in Request : SoundIn(request'[x], trades')
  BY <1>4, OvertakenStaySound DEF Correct
<1>6. imports' \in 0 .. MaxImports
  BY ImportAssumption DEF ImportInv, Correct
<1>7. QED
  BY <1>4, <1>5, <1>6 DEF Correct, ImportInv

LEMMA FillsStep ==
    ASSUME ImportInv, NEW r \in Request, Fills(r)
    PROVE  ImportInv'
<1>1. trades' = trades
  BY DEF Fills
<1>2. PICK days \in Windows : request' = [request EXCEPT ![r] =
          [Free EXCEPT !.op = "read", !.days = days, !.known = IdsIn(trades, days)]]
  BY DEF Fills
<1>3. days \subseteq Days
  BY ImportAssumption
<1>4. IdsIn(trades, days) \subseteq Identity
  <2>1. trades \in Seq(Row)
    BY DEF ImportInv
  <2>2. IdsIn(trades, days) \subseteq IdsOf(trades)
    BY <2>1, InsideOf
  <2>3. IdsOf(trades) \subseteq Identity
    BY <2>1, IdsAreFinite
  <2>4. QED
    BY <2>2, <2>3
<1>5. SoundIn([Free EXCEPT !.op = "read", !.days = days, !.known = IdsIn(trades, days)], trades)
  <2>1. PICK inside : inside = IdsIn(trades, days)
    OBVIOUS
  <2>2. PICK q : q = [Free EXCEPT !.op = "read", !.days = days, !.known = inside]
    OBVIOUS
  <2>3. << >> \in Seq(Fill) /\ << >> \in Seq(Identity) /\ DOMAIN << >> = {}
    OBVIOUS
  <2>4. /\ q.op = "read" /\ q.batch = << >> /\ q.days = days /\ q.rows = << >>
        /\ q.known = inside /\ q.left = {} /\ q \in Requests
    BY <1>3, <1>4, <2>1, <2>2, <2>3 DEF Requests, Free
  <2>5. ToSet(q.rows) = {} /\ IsInjective(q.rows)
    BY <2>3, <2>4 DEF ToSet, IsInjective
  <2>6. SoundRequest(q, IdsOf(trades), inside)
    BY <2>4, <2>5 DEF SoundRequest
  <2>7. SoundIn(q, trades)
    BY <2>1, <2>4, <2>6 DEF SoundIn
  <2>8. QED
    BY <2>1, <2>2, <2>7
<1>6. /\ request' \in [Request -> Requests]
      /\ \A x \in Request : SoundIn(request'[x], trades')
  BY <1>1, <1>2, <1>5, RequestsStaySound
<1>7. QED
  BY <1>1, <1>6 DEF Fills, ImportInv

\* A page that repeats nothing goes on with rows not read before; the last one ends
\* with at least as many rows as the list has.
ReadAfter(ids, listed, page, all) ==
    /\ all \in Seq(ids) /\ IsInjective(all)
    /\ Len(page) < PageSize => Len(all) >= Len(listed)

\* Nobody has read more rows than are listed or have left, so that those missing at the
\* end are no more than have left.
LEMMA FewAreMissing ==
    ASSUME NEW inside, IsFiniteSet(inside), NEW left, IsFiniteSet(left), NEW all, IsInjective(all),
           NEW m \in Nat, DOMAIN all = 1 .. m, m >= Cardinality(inside),
           ToSet(all) \subseteq inside \cup left,
           NEW known, known \subseteq inside \cup left
    PROVE  Cardinality(known \ ToSet(all)) <= Cardinality(left)
<1>1. PICK read : read = ToSet(all)
  OBVIOUS
<1>2. PICK both : both = inside \cup left
  OBVIOUS
<1>3. IsFiniteSet(read) /\ Cardinality(read) = m
  <2>1. [i \in 1 .. m |-> all[i]] \in Bijection(1 .. m, read)
    <3>1. \A x \in read : \E i \in 1 .. m : all[i] = x
      BY <1>1 DEF ToSet
    <3>2. \A i \in 1 .. m : all[i] \in read
      BY <1>1 DEF ToSet
    <3>3. \A i, j \in 1 .. m : all[i] = all[j] => i = j
      BY DEF IsInjective
    <3>4. QED
      BY <3>1, <3>2, <3>3 DEF Bijection, Injection, Surjection, IsInjective
  <2>2. IsFiniteSet(1 .. m) /\ Cardinality(1 .. m) = m
    BY FS_Interval, InitialCount
  <2>3. ExistsBijection(1 .. m, read)
    BY <2>1 DEF ExistsBijection
  <2>4. QED
    BY <2>2, <2>3, FS_Bijection
<1>4. /\ IsFiniteSet(both)
      /\ Cardinality(both) = Cardinality(inside) + Cardinality(left) - Cardinality(inside \cap left)
  BY <1>2, FS_Union
<1>5. /\ Cardinality(inside) \in Nat /\ Cardinality(left) \in Nat /\ Cardinality(both) \in Nat
      /\ Cardinality(inside \cap left) \in Nat
  <2>1. IsFiniteSet(inside \cap left)
    BY FS_Subset
  <2>2. QED
    BY <1>4, <2>1, FS_CardinalityType
<1>6. IsFiniteSet(both \ read) /\ Cardinality(both \ read) = Cardinality(both) - Cardinality(both \cap read)
  BY <1>4, FS_Difference
<1>7. both \cap read = read
  BY <1>1, <1>2
<1>8. Cardinality(both \ read) <= Cardinality(left)
  <2>1. PICK i \in Nat : i = Cardinality(inside)
    BY <1>5
  <2>2. PICK l \in Nat : l = Cardinality(left)
    BY <1>5
  <2>3. PICK c \in Nat : c = Cardinality(inside \cap left)
    BY <1>5
  <2>4. PICK b \in Nat : b = Cardinality(both)
    BY <1>5
  <2>5. b = i + l - c /\ m >= i
    BY <1>4, <2>1, <2>2, <2>3, <2>4
  <2>6. Cardinality(both \ read) = b - m
    BY <1>3, <1>6, <1>7, <2>4
  <2>7. b - m <= l
    BY <2>5
  <2>8. QED
    BY <2>2, <2>6, <2>7
<1>9. /\ Cardinality(known \ read) <= Cardinality(both \ read) /\ Cardinality(known \ read) \in Nat
      /\ Cardinality(both \ read) \in Nat
  <2>1. known \ read \in SUBSET (both \ read)
    BY <1>2
  <2>2. IsFiniteSet(known \ read) /\ Cardinality(known \ read) <= Cardinality(both \ read)
    BY <1>6, <2>1, FS_Subset
  <2>3. QED
    BY <1>6, <2>2, FS_CardinalityType
<1>10. Cardinality(known \ read) <= Cardinality(left)
  BY <1>5, <1>8, <1>9
<1>11. QED
  BY <1>1, <1>10

LEMMA ConcatElements ==
    ASSUME NEW X, NEW s \in Seq(X), NEW e \in Seq(X)
    PROVE  /\ s \o e \in Seq(X) /\ Len(s \o e) = Len(s) + Len(e)
           /\ \A k \in 1 .. Len(s) + Len(e) :
                  (s \o e)[k] = IF k <= Len(s) THEN s[k] ELSE e[k - Len(s)]
  BY ConcatProperties

\* The page of the list that follows the rows already read.
IsPage(page, last, listed, rows) ==
    /\ IsInjective(rows) /\ IsInjective(listed)
    /\ last = IF Len(rows) + PageSize < Len(listed) THEN Len(rows) + PageSize ELSE Len(listed)
    /\ page = SubSeq(listed, Len(rows) + 1, last)
    /\ ToSet(page) \cap ToSet(rows) = {}

LEMMA PageRead ==
    ASSUME NEW ids, NEW rows \in Seq(ids), NEW listed \in Seq(ids),
           NEW last \in Nat, NEW page, IsPage(page, last, listed, rows)
    PROVE  ReadAfter(ids, listed, page, rows \o page)
<1>1. PICK m \in Nat : m = Len(rows) /\ DOMAIN rows = 1 .. m /\ \A i \in 1 .. m : rows[i] \in ids
  OBVIOUS
<1>2. PICK n \in Nat : n = Len(listed) /\ DOMAIN listed = 1 .. n /\ \A i \in 1 .. n : listed[i] \in ids
  OBVIOUS
<1>3. last <= n /\ (last = n \/ last = m + PageSize) /\ PageSize \in Nat \ {0}
  BY <1>1, <1>2, ImportAssumption DEF IsPage
<1>4. PICK p \in Nat : p = IF m < last THEN last - m ELSE 0
  <2>1. (IF m < last THEN last - m ELSE 0) \in Nat
    OBVIOUS
  <2>2. QED
    BY <2>1
<1>5. page \in Seq(ids) /\ Len(page) = p /\ \A k \in 1 .. p : m + k \in 1 .. n /\ page[k] = listed[m + k]
  <2>1. PICK from \in Int : from = m + 1
    OBVIOUS
  <2>2. page = SubSeq(listed, from, last)
    BY <1>1, <2>1 DEF IsPage
  <2>3. last \in Int /\ \A i \in from .. last : listed[i] \in ids
    <3>1. \A i \in from .. last : i \in 1 .. n
      BY <1>3, <2>1
    <3>2. QED
      BY <1>2, <3>1
  <2> DEFINE sub == SubSeq(listed, from, last)
  <2>4. sub \in Seq(ids)
    BY <2>3, SubSeqProperties
  <2>5. Len(sub) = IF from <= last THEN last - from + 1 ELSE 0
    BY <2>3, SubSeqProperties
  <2>6. \A k \in 1 .. last - from + 1 : sub[k] = listed[from + k - 1]
    BY <2>3, SubSeqProperties
  <2>7. page = sub
    BY <2>2
  <2> HIDE DEF sub
  <2>8. (IF from <= last THEN last - from + 1 ELSE 0) = p
    BY <1>4, <2>1
  <2>9. \A k \in 1 .. p : k \in 1 .. last - from + 1 /\ from + k - 1 = m + k /\ m + k \in 1 .. n
    BY <1>3, <1>4, <2>1
  <2>10. page \in Seq(ids) /\ Len(page) = p
    BY <2>4, <2>5, <2>7, <2>8
  <2>11. \A k \in 1 .. p : m + k \in 1 .. n /\ page[k] = listed[m + k]
    BY <2>6, <2>7, <2>9
  <2>12. QED
    BY <2>10, <2>11
<1>6. PICK all : all = rows \o page
  OBVIOUS
<1>7. /\ all \in Seq(ids) /\ Len(all) = m + p /\ DOMAIN all = 1 .. m + p
      /\ \A k \in 1 .. m + p : all[k] = IF k <= m THEN rows[k] ELSE page[k - m]
  <2>0. rows \in Seq(ids) /\ page \in Seq(ids) /\ Len(rows) = m /\ Len(page) = p
    BY <1>1, <1>5
  <2>1. rows \o page \in Seq(ids) /\ Len(rows \o page) = Len(rows) + Len(page)
    BY <2>0, ConcatElements
  <2>2. \A k \in 1 .. Len(rows) + Len(page) :
            (rows \o page)[k] = IF k <= Len(rows) THEN rows[k] ELSE page[k - Len(rows)]
    BY <2>0, ConcatElements
  <2>3. all \in Seq(ids) /\ Len(all) = m + p
    BY <1>6, <2>0, <2>1
  <2>4. QED
    BY <1>6, <2>0, <2>2, <2>3
<1>8. \A k \in 1 .. m : k \in 1 .. m + p /\ all[k] = rows[k] /\ rows[k] \in ToSet(rows)
  <2>1. \A k \in 1 .. m : k \in 1 .. m + p /\ k <= m
    OBVIOUS
  <2>2. QED
    BY <1>1, <1>7, <2>1 DEF ToSet
<1>9. \A k \in 1 .. m + p : k > m => /\ k \in 1 .. n /\ all[k] = listed[k] /\ all[k] \in ToSet(page)
  <2> SUFFICES ASSUME NEW k \in 1 .. m + p, k > m
               PROVE  k \in 1 .. n /\ all[k] = listed[k] /\ all[k] \in ToSet(page)
    OBVIOUS
  <2>1. PICK j \in 1 .. p : j = k - m
    OBVIOUS
  <2>2. m + j = k /\ ~(k <= m)
    BY <2>1
  <2>3. all[k] = page[j]
    BY <1>7, <2>1, <2>2
  <2>4. m + j \in 1 .. n /\ page[j] = listed[m + j] /\ DOMAIN page = 1 .. p
    BY <1>5
  <2>5. QED
    BY <2>2, <2>3, <2>4 DEF ToSet
<1>10. IsInjective(all)
  <2> SUFFICES ASSUME NEW j \in 1 .. m + p, NEW k \in 1 .. m + p, all[j] = all[k] PROVE j = k
    BY <1>7 DEF IsInjective
  <2>0. (j \in 1 .. m \/ j > m) /\ (k \in 1 .. m \/ k > m)
    OBVIOUS
  <2>1. CASE j \in 1 .. m /\ k \in 1 .. m
    BY <1>1, <1>8, <2>1 DEF IsPage, IsInjective
  <2>2. CASE j > m /\ k > m
    BY <1>2, <1>9, <2>2 DEF IsPage, IsInjective
  <2>3. CASE j \in 1 .. m /\ k > m
    BY <1>8, <1>9, <2>3 DEF IsPage
  <2>4. CASE j > m /\ k \in 1 .. m
    BY <1>8, <1>9, <2>4 DEF IsPage
  <2>5. QED
    BY <2>0, <2>1, <2>2, <2>3, <2>4
<1>11. p < PageSize => m + p >= n
  BY <1>3, <1>4
<1>12. QED
  BY <1>2, <1>5, <1>6, <1>7, <1>10, <1>11 DEF ReadAfter

LEMMA ConcatSet ==
    ASSUME NEW X, NEW s \in Seq(X), NEW e \in Seq(X)
    PROVE  ToSet(s \o e) = ToSet(s) \cup ToSet(e)
<1>1. PICK m \in Nat : m = Len(s) /\ DOMAIN s = 1 .. m
  OBVIOUS
<1>2. PICK p \in Nat : p = Len(e) /\ DOMAIN e = 1 .. p
  OBVIOUS
<1>3. PICK all : all = s \o e
  OBVIOUS
<1>4. /\ DOMAIN all = 1 .. m + p
      /\ \A k \in 1 .. m + p : all[k] = IF k <= m THEN s[k] ELSE e[k - m]
  <2>1. s \o e \in Seq(X) /\ Len(s \o e) = Len(s) + Len(e)
    BY ConcatElements
  <2>2. \A k \in 1 .. Len(s) + Len(e) : (s \o e)[k] = IF k <= Len(s) THEN s[k] ELSE e[k - Len(s)]
    BY ConcatElements
  <2>3. DOMAIN all = 1 .. m + p
    BY <1>1, <1>2, <1>3, <2>1
  <2>4. QED
    BY <1>1, <1>2, <1>3, <2>2, <2>3
<1>5. \A k \in 1 .. m : k \in 1 .. m + p /\ all[k] = s[k]
  <2>1. \A k \in 1 .. m : k \in 1 .. m + p /\ k <= m
    OBVIOUS
  <2>2. QED
    BY <1>4, <2>1
<1>6. \A k \in 1 .. p : m + k \in 1 .. m + p /\ all[m + k] = e[k]
  <2>1. \A k \in 1 .. p : m + k \in 1 .. m + p /\ ~(m + k <= m) /\ (m + k) - m = k
    OBVIOUS
  <2>2. QED
    BY <1>4, <2>1
<1>7. \A k \in 1 .. m + p : \/ k \in 1 .. m /\ all[k] = s[k]
                            \/ k - m \in 1 .. p /\ all[k] = e[k - m]
  <2>1. \A k \in 1 .. m + p : (k <= m /\ k \in 1 .. m) \/ (~(k <= m) /\ k - m \in 1 .. p)
    OBVIOUS
  <2>2. QED
    BY <1>4, <2>1
<1>8. ToSet(all) \subseteq ToSet(s) \cup ToSet(e)
  <2>1. \A k \in 1 .. m : s[k] \in ToSet(s)
    BY <1>1 DEF ToSet
  <2>2. \A k \in 1 .. p : e[k] \in ToSet(e)
    BY <1>2 DEF ToSet
  <2>3. \A k \in 1 .. m + p : all[k] \in ToSet(s) \cup ToSet(e)
    BY <1>7, <2>1, <2>2
  <2>4. QED
    BY <1>4, <2>3 DEF ToSet
<1>81. ToSet(s) \subseteq ToSet(all)
  <2>1. \A k \in 1 .. m : s[k] \in ToSet(all)
    BY <1>4, <1>5 DEF ToSet
  <2>2. QED
    BY <1>1, <2>1 DEF ToSet
<1>82. ToSet(e) \subseteq ToSet(all)
  <2>1. \A k \in 1 .. p : e[k] \in ToSet(all)
    BY <1>4, <1>6 DEF ToSet
  <2>2. QED
    BY <1>2, <2>1 DEF ToSet
<1>9. ToSet(all) = ToSet(s) \cup ToSet(e)
  BY <1>8, <1>81, <1>82
<1>10. QED
  BY <1>3, <1>9

LEMMA ReadPageStep ==
    ASSUME ImportInv, NEW r \in Request, ReadPage(r)
    PROVE  ImportInv'
<1> DEFINE q == request[r]
           list == Listed(q.days)
           last == IF Len(q.rows) + PageSize < Len(list) THEN Len(q.rows) + PageSize ELSE Len(list)
           page == SubSeq(list, Len(q.rows) + 1, last)
           more == [q EXCEPT !.rows = q.rows \o page,
                             !.op = IF Len(page) < PageSize THEN "whole" ELSE "read"]
<1>1. trades' = trades /\ records' = records /\ durable' = durable /\ imports' = imports
  BY DEF ReadPage
<1>2. request' = [request EXCEPT ![r] = IF Repeated(r, page) THEN Free ELSE more]
  BY DEF ReadPage
<1>3. SoundIn(q, trades) /\ q \in Requests
  BY DEF ImportInv
<1>31. PICK ids : ids = IdsOf(trades)
  OBVIOUS
<1>32. PICK inside : inside = IdsIn(trades, q.days)
  OBVIOUS
<1>4. /\ list \in Seq(ids) /\ IsInjective(list) /\ Len(list) = Cardinality(inside)
      /\ ToSet(list) \subseteq inside /\ inside \subseteq ids /\ IsFiniteSet(inside)
  <2>1. trades \in Seq(Row) /\ DistinctIds(trades)
    BY DEF ImportInv
  <2>2. Ids = ids
    BY <1>31 DEF Ids, IdsOf
  <2>3. QED
    BY <1>32, <2>1, <2>2, ListShowsAll
<1>41. IsFiniteSet(ids) /\ ids \subseteq Identity
  BY <1>31, IdsAreFinite DEF ImportInv
<1>42. SoundRequest(q, ids, inside)
  BY <1>3, <1>31, <1>32 DEF SoundIn
<1> HIDE DEF list
<1>5. q.rows \in Seq(ids)
  <2>1. q.rows \in Seq(Identity) /\ ToSet(q.rows) \subseteq ids
    BY <1>4, <1>42 DEF SoundRequest, Requests
  <2>2. \A i \in 1 .. Len(q.rows) : q.rows[i] \in ids
    BY <2>1 DEF ToSet
  <2>3. QED
    BY <2>1, <2>2
<1>6. PICK to \in Nat : to = last
  BY <1>4, <1>5, ImportAssumption
<1>7. PICK rows \in Seq(ids) : rows = q.rows
  BY <1>5
<1>8. PICK listed \in Seq(ids) : listed = list
  BY <1>4
<1>9. PICK part : part = page
  OBVIOUS
<1>10. ASSUME ~Repeated(r, page) PROVE ReadAfter(ids, listed, part, rows \o part)
  <2>1. IsInjective(rows) /\ IsInjective(listed)
    BY <1>4, <1>42, <1>7, <1>8 DEF SoundRequest
  <2>2. ToSet(part) \cap ToSet(rows) = {}
    BY <1>7, <1>9, <1>10 DEF Repeated
  <2>3. /\ to = IF Len(rows) + PageSize < Len(listed) THEN Len(rows) + PageSize ELSE Len(listed)
        /\ part = SubSeq(listed, Len(rows) + 1, to)
    BY <1>6, <1>7, <1>8, <1>9
  <2> HIDE DEF last, page, q
  <2>4. IsPage(part, to, listed, rows)
    BY <2>1, <2>2, <2>3 DEF IsPage
  <2>5. QED
    BY <2>4, PageRead
<1>11. more = [q EXCEPT !.rows = rows \o part,
                        !.op = IF Len(part) < PageSize THEN "whole" ELSE "read"]
  BY <1>7, <1>9
<1>12. part \in Seq(ids) /\ ToSet(part) \subseteq inside
  <2>1. part = SubSeq(listed, Len(rows) + 1, to)
    BY <1>6, <1>7, <1>8, <1>9
  <2>2. PICK n \in Nat : n = Len(listed) /\ to <= n /\ DOMAIN listed = 1 .. n
    BY <1>6, <1>7, <1>8, ImportAssumption
  <2>3. PICK from \in Nat : from = Len(rows) + 1 /\ from >= 1
    OBVIOUS
  <2>4. \A i \in from .. to : i \in 1 .. n /\ listed[i] \in inside /\ listed[i] \in ids
    <3>1. \A i \in 1 .. n : listed[i] \in ToSet(listed)
      BY <2>2 DEF ToSet
    <3>2. QED
      BY <1>4, <1>8, <2>2, <2>3, <3>1
  <2>5. SubSeq(listed, from, to) \in Seq(inside)
    BY <2>4, SubSeqProperties
  <2>6. part \in Seq(inside)
    BY <2>1, <2>3, <2>5
  <2>7. ToSet(part) \subseteq inside
    BY <2>6 DEF ToSet
  <2>8. part \in Seq(ids)
    BY <1>4, <2>6
  <2>9. QED
    BY <2>7, <2>8
<1> HIDE DEF more, page, last
<1>13. ASSUME ~Repeated(r, page) PROVE SoundIn(more, trades)
  <2>1. /\ more.op = (IF Len(part) < PageSize THEN "whole" ELSE "read")
        /\ more.batch = q.batch /\ more.days = q.days /\ more.rows = rows \o part
        /\ more.known = q.known /\ more.left = q.left
    BY <1>3, <1>11 DEF Requests
  <2>2. PICK all : all = rows \o part
    OBVIOUS
  <2>3. all \in Seq(ids) /\ IsInjective(all) /\ (Len(part) < PageSize => Len(all) >= Len(listed))
    BY <1>10, <1>13, <2>2 DEF ReadAfter
  <2>4. ToSet(all) \subseteq inside \cup q.left
    <3>1. ToSet(rows) \subseteq inside \cup q.left
      BY <1>42, <1>7 DEF SoundRequest
    <3>2. ToSet(all) = ToSet(rows) \cup ToSet(part)
      BY <1>12, <2>2, ConcatSet
    <3>3. QED
      BY <1>12, <3>1, <3>2
  <2>5. all \in Seq(Identity)
    BY <1>41, <2>3
  <2>6. more.op \in {"read", "whole"} /\ (more.op = "whole" => Len(part) < PageSize)
    BY <2>1
  <2>7. more = [op |-> more.op, batch |-> more.batch, days |-> more.days, rows |-> all,
                known |-> more.known, left |-> more.left]
    BY <1>3, <1>11, <2>1, <2>2 DEF Requests
  <2>8. more \in Requests
    BY <1>3, <2>1, <2>5, <2>6, <2>7 DEF Requests
  <2>9. more.op = "whole" => Cardinality(q.known \ ToSet(all)) <= Cardinality(q.left)
    <3> SUFFICES ASSUME more.op = "whole" PROVE Cardinality(q.known \ ToSet(all)) <= Cardinality(q.left)
      OBVIOUS
    <3>1. PICK m \in Nat : m = Len(all) /\ DOMAIN all = 1 .. m
      BY <2>3
    <3>2. m >= Cardinality(inside)
      BY <1>4, <1>8, <2>3, <2>6, <3>1
    <3>3. IsFiniteSet(q.left) /\ q.known \subseteq inside \cup q.left
      <4>1. q.left \in SUBSET ids
        BY <1>42 DEF SoundRequest
      <4>2. IsFiniteSet(q.left)
        BY <1>41, <4>1, FS_Subset
      <4>3. QED
        BY <1>42, <4>2 DEF SoundRequest
    <3>4. QED
      BY <1>4, <2>3, <2>4, <3>1, <3>2, <3>3, FewAreMissing
  <2>10. SoundRequest(more, ids, inside)
    BY <1>42, <2>1, <2>2, <2>3, <2>4, <2>6, <2>8, <2>9 DEF SoundRequest
  <2>11. QED
    BY <1>31, <1>32, <2>1, <2>10 DEF SoundIn
<1>14. SoundIn(IF Repeated(r, page) THEN Free ELSE more, trades)
  BY <1>13, FreeIsSoundIn
<1>15. /\ request' \in [Request -> Requests]
       /\ \A x \in Request : SoundIn(request'[x], trades')
  BY <1>1, <1>2, <1>14, RequestsStaySound
<1>16. QED
  BY <1>1, <1>15 DEF ImportInv

LEMMA ImportStep == ImportInv /\ [ImportNext]_importVars => ImportInv'
<1> SUFFICES ASSUME ImportInv, [ImportNext]_importVars PROVE ImportInv'
  OBVIOUS
<1>1. CASE UNCHANGED importVars
  BY <1>1 DEF importVars, ImportInv
<1>2. CASE OtherWrite
  BY <1>2 DEF OtherWrite, ImportInv
<1>3. CASE Killed
  <2>1. request' \in [Request -> Requests] /\ \A r \in Request : request'[r] = Free
    BY <1>3, FreeIsSound DEF Killed, SoundRequest
  <2>2. \A r \in Request : SoundIn(request'[r], trades')
    BY <2>1, FreeIsSoundIn
  <2>3. QED
    BY <1>3, <2>1, <2>2 DEF Killed, ImportInv
<1>4. ASSUME NEW r \in Request, Answer(r) PROVE ImportInv'
  <2>1. trades' = trades /\ SoundIn(Free, trades) /\ request' = [request EXCEPT ![r] = Free]
    BY <1>4, FreeIsSoundIn DEF Answer
  <2>2. /\ request' \in [Request -> Requests]
        /\ \A x \in Request : SoundIn(request'[x], trades')
    BY <2>1, RequestsStaySound
  <2>3. QED
    BY <1>4, <2>2 DEF Answer, ImportInv
<1>5. QED
  BY <1>1, <1>2, <1>3, <1>4, ImportCommitStep, ImportTradesStep, CorrectStep, FillsStep,
     ReadPageStep DEF ImportNext

\* The inductive invariant of the import: the records are right after each row and not
\* after each batch only, the trades are distinct, and a reading has rows of its days or
\* that have left them, each once.
THEOREM ImportInvariant == ImportSpec => []ImportInv
<1>1. QED
  BY ImportInitial, ImportStep, PTL DEF ImportSpec

\* The state of the import has its shape: a request reads rows of the trades that are
\* there, and its import carries a batch that was taken.
THEOREM ImportTypeCorrect == ImportSpec => []ImportTypeOK
<1>1. ImportInv => ImportTypeOK
  <2> SUFFICES ASSUME ImportInv PROVE ImportTypeOK
    OBVIOUS
  <2>1. IsInjective([i \in DOMAIN trades |-> trades[i].id])
    BY DEF ImportInv, DistinctIds, IsInjective
  <2>2. \A r \in Request : /\ request[r].op \in {"idle", "import", "read", "whole"}
                           /\ ToSet(request[r].rows) \subseteq Ids
                           /\ request[r].op = "import" => request[r].batch \in Batches
    <3> SUFFICES ASSUME NEW r \in Request
                 PROVE  /\ request[r].op \in {"idle", "import", "read", "whole"}
                        /\ ToSet(request[r].rows) \subseteq Ids
                        /\ request[r].op = "import" => request[r].batch \in Batches
      OBVIOUS
    <3>1. SoundIn(request[r], trades) /\ trades \in Seq(Row)
      BY DEF ImportInv
    <3>2. IdsIn(trades, request[r].days) \subseteq IdsOf(trades) /\ Ids = IdsOf(trades)
      BY <3>1, InsideOf DEF Ids, IdsOf
    <3>3. QED
      BY <3>1, <3>2 DEF SoundIn, SoundRequest, Requests
  <2>3. \A recs \in {records, durable} :
            recs \in Seq([fill : Fill \ Unstorable, superseded : BOOLEAN])
    BY DEF ImportInv, Record
  <2>4. QED
    BY <2>1, <2>2, <2>3 DEF ImportTypeOK, ImportInv
<1>2. QED
  BY <1>1, ImportInvariant, PTL

\* For any batches, filters, page size, requests and kills: an execution is recorded
\* once, the newest of its key counts, and a reading of the journal that ends has each
\* trade once and lacks no more of those that were there when it began than were moved
\* off its days, whatever else was inserted and moved between its pages.
THEOREM JournalStaysExact == ImportSpec => []JournalIsExact
<1>1. ImportInv => JournalIsExact
  <2> SUFFICES ASSUME ImportInv PROVE JournalIsExact
    OBVIOUS
  <2>1. RecordedOnce
    BY DEF ImportInv, RecordedOnce, Once
  <2>2. ReadIsWhole
    <3> SUFFICES ASSUME NEW r \in Request, request[r].op = "whole"
                 PROVE  /\ IsInjective(request[r].rows)
                        /\ Cardinality(request[r].known \ ToSet(request[r].rows)) <= Cardinality(request[r].left)
                        /\ request[r].days = Days => request[r].known \subseteq ToSet(request[r].rows)
      BY DEF ReadIsWhole
    <3>1. PICK missing : missing = request[r].known \ ToSet(request[r].rows)
      OBVIOUS
    <3>2. /\ IsInjective(request[r].rows) /\ Cardinality(missing) <= Cardinality(request[r].left)
          /\ request[r].days = Days => request[r].left = {}
          /\ missing \subseteq IdsIn(trades, request[r].days) \cup request[r].left
          /\ request[r].left \subseteq IdsOf(trades) /\ trades \in Seq(Row)
      BY <3>1 DEF ImportInv, SoundIn, SoundRequest
    <3>3. IsFiniteSet(missing)
      <4>1. IsFiniteSet(IdsOf(trades)) /\ IdsIn(trades, request[r].days) \subseteq IdsOf(trades)
        BY <3>2, IdsAreFinite, InsideOf
      <4>2. missing \in SUBSET IdsOf(trades)
        BY <3>2, <4>1
      <4>3. QED
        BY <4>1, <4>2, FS_Subset
    <3>4. Cardinality({}) = 0 /\ Cardinality(missing) \in Nat /\ (Cardinality(missing) = 0 <=> missing = {})
      BY <3>3, FS_EmptySet, FS_CardinalityType
    <3>5. request[r].days = Days => missing = {}
      <4>1. PICK c \in Nat : c = Cardinality(missing)
        BY <3>4
      <4>2. request[r].days = Days => c <= 0
        BY <3>2, <3>4, <4>1
      <4>3. c <= 0 => c = 0
        OBVIOUS
      <4>4. QED
        BY <3>4, <4>1, <4>2, <4>3
    <3>6. QED
      BY <3>1, <3>2, <3>5
  <2>3. QED
    BY <2>1, <2>2 DEF JournalIsExact
<1>2. QED
  BY <1>1, ImportInvariant, PTL

-----------------------------------------------------------------------------
(* The bar replays, for any bars and prices, any capital and quantities,   *)
(* and any number of sessions and orders.                                  *)

OrderType == [id : Nat \ {0}, at : 0 .. LastBar - 1, quantity : Quantities,
              status : {"pending", "filled", "rejected"}]
FillType  == [id : Nat \ {0}, index : 1 .. LastBar, quantity : Int, price : Nat]
Session   == [mode : {"review", "training"}, index : 0 .. LastBar, parent : Nat,
              orders : Seq(OrderType), fills : Seq(FillType), cash : Int, position : Int]
AccountType == [cash : Int, position : Int]

LEMMA TradedType ==
    ASSUME NEW a \in AccountType, NEW f \in FillType
    PROVE  Traded(a, f) \in AccountType
<1>1. f.quantity * f.price \in Int
  BY DEF FillType
<1>2. QED
  BY <1>1 DEF AccountType, FillType, Traded, Account

LEMMA AccountRuns ==
    ASSUME NEW fs \in Seq(FillType)
    PROVE  \E run : /\ run[0] = Opening
                    /\ \A k \in 1 .. Len(fs) : run[k] = Traded(run[k - 1], fs[k])
                    /\ AccountAfter(fs) = run[Len(fs)]
<1> DEFINE V == AccountType
           n == Len(fs)
           take == [k \in 1 .. n |-> [v \in V |-> Traded(v, fs[k])]]
           F(f) == [T \in SUBSET (1 .. n) |->
                       IF T = {} THEN Opening ELSE Traded(f[T \ {Max(T)}], fs[Max(T)])]
<1>1. n \in Nat /\ DOMAIN fs = 1 .. n /\ Opening \in V
  BY ReplayAssumption DEF Opening, Account, AccountType
<1>2. \A k \in 1 .. n : \A v \in V : take[k][v] = Traded(v, fs[k]) /\ take[k][v] \in V
  <2>1. \A k \in 1 .. n : fs[k] \in FillType
    OBVIOUS
  <2>2. \A k \in 1 .. n : \A v \in V : Traded(v, fs[k]) \in V
    BY <2>1, TradedType
  <2>3. QED
    BY <2>2
<1> HIDE DEF take, V, n
<1>3. PICK g \in [SUBSET (1 .. n) -> V] : IsLeftFold(g, n, Opening, take)
  BY <1>1, <1>2, LeftFoldExists
<1>4. \A T \in SUBSET (1 .. n) : T # {} => Max(T) \in 1 .. n /\ g[T \ {Max(T)}] \in V
  <2>1. \A T \in SUBSET (1 .. n) : T # {} => Max(T) \in T
    BY <1>1, GreatestOf
  <2>2. QED
    BY <2>1
<1>5. \A T \in SUBSET (1 .. n) :
          g[T] = IF T = {} THEN Opening ELSE Traded(g[T \ {Max(T)}], fs[Max(T)])
  BY <1>2, <1>3, <1>4 DEF IsLeftFold
<1>6. g = F(g)
  BY <1>5, Zenon
<1>7. PICK p : p = CHOOSE f : f = F(f)
  OBVIOUS
<1>8. p = F(p)
  <2> HIDE DEF F
  <2>1. \E f : f = F(f)
    BY <1>6
  <2>2. QED
    BY <1>7, <2>1, Zenon
<1>9. AccountAfter(fs) = p[1 .. n]
  BY <1>1, <1>7 DEF AccountAfter, FoldLeft, MapThenFoldSet
<1>10. p[{}] = Opening
  BY <1>8
<1>11. \A k \in 1 .. n : p[1 .. k] = Traded(p[1 .. (k - 1)], fs[k])
  <2> SUFFICES ASSUME NEW k \in 1 .. n PROVE p[1 .. k] = Traded(p[1 .. (k - 1)], fs[k])
    OBVIOUS
  <2>1. /\ 1 .. k \in SUBSET (1 .. n) /\ 1 .. k # {}
        /\ Max(1 .. k) = k /\ (1 .. k) \ {Max(1 .. k)} = 1 .. (k - 1)
    BY <1>1, InitialIndices
  <2>2. p[1 .. k] = Traded(p[(1 .. k) \ {Max(1 .. k)}], fs[Max(1 .. k)])
    BY <1>8, <2>1, Zenon
  <2>3. QED
    BY <2>1, <2>2
<1> DEFINE run == [k \in 0 .. n |-> p[1 .. k]]
<1>12. /\ run[0] = Opening /\ run[n] = p[1 .. n]
       /\ \A k \in 1 .. n : run[k] = Traded(run[k - 1], fs[k])
  <2>1. 1 .. 0 = {} /\ 0 \in 0 .. n /\ n \in 0 .. n
    BY <1>1
  <2>2. \A k \in 1 .. n : k \in 0 .. n /\ k - 1 \in 0 .. n
    BY <1>1
  <2>3. QED
    BY <1>10, <1>11, <2>1, <2>2
<1>13. QED
  BY <1>9, <1>12 DEF n

LEMMA AccountStarts == AccountAfter(<< >>) = Opening
<1>1. << >> \in Seq(FillType) /\ Len(<< >>) = 0
  OBVIOUS
<1>2. QED
  BY <1>1, AccountRuns

\* The account after any fills is of its type.
LEMMA AccountHasItsType ==
    ASSUME NEW fs \in Seq(FillType)
    PROVE  AccountAfter(fs) \in AccountType
<1>1. PICK r : /\ r[0] = Opening /\ \A k \in 1 .. Len(fs) : r[k] = Traded(r[k - 1], fs[k])
               /\ AccountAfter(fs) = r[Len(fs)]
  BY AccountRuns
<1>2. r[0] \in AccountType
  BY <1>1, ReplayAssumption DEF Opening, Account, AccountType
<1>3. Len(fs) \in Nat /\ \A k \in 1 .. Len(fs) : r[k - 1] \in AccountType => r[k] \in AccountType
  <2>1. \A k \in 1 .. Len(fs) : fs[k] \in FillType
    OBVIOUS
  <2>2. QED
    BY <1>1, <2>1, TradedType
<1>4. \A k \in 0 .. Len(fs) : r[k] \in AccountType
  BY <1>2, <1>3, RunInduction
<1>5. QED
  BY <1>1, <1>3, <1>4

\* A fill more trades on the account.
LEMMA AccountGrows ==
    ASSUME NEW fs \in Seq(FillType), NEW f \in FillType
    PROVE  AccountAfter(Append(fs, f)) = Traded(AccountAfter(fs), f)
<1>1. PICK n \in Nat : n = Len(fs)
  OBVIOUS
<1>2. PICK more : more = Append(fs, f)
  OBVIOUS
<1>3. more \in Seq(FillType) /\ Len(more) = n + 1 /\ more[n + 1] = f /\ \A k \in 1 .. n : more[k] = fs[k] /\ k \in 1 .. n + 1
  BY <1>1, <1>2
<1>4. PICK r : /\ r[0] = Opening /\ \A k \in 1 .. n : r[k] = Traded(r[k - 1], fs[k])
               /\ AccountAfter(fs) = r[n]
  BY <1>1, AccountRuns
<1>5. PICK t : /\ t[0] = Opening /\ \A k \in 1 .. n + 1 : t[k] = Traded(t[k - 1], more[k])
               /\ AccountAfter(more) = t[n + 1]
  BY <1>3, AccountRuns
<1> DEFINE Same == {k \in 0 .. n : r[k] = t[k] /\ r[k] \in AccountType}
<1>6. 0 \in Same
  BY <1>4, <1>5, ReplayAssumption DEF Opening, Account, AccountType
<1>7. \A k \in 1 .. n : k - 1 \in Same => k \in Same
  <2> SUFFICES ASSUME NEW k \in 1 .. n, k - 1 \in Same PROVE k \in Same
    OBVIOUS
  <2>1. fs[k] \in FillType
    BY <1>1
  <2>2. r[k] = Traded(r[k - 1], fs[k]) /\ t[k] = Traded(t[k - 1], fs[k])
    BY <1>3, <1>4, <1>5
  <2>3. QED
    BY <2>1, <2>2, TradedType
<1> HIDE DEF Same
<1>8. n \in Same
  <2>1. \A k \in 0 .. n : k \in Same
    BY <1>6, <1>7, IndexInduction
  <2>2. QED
    BY <2>1
<1>9. n + 1 \in 1 .. n + 1 /\ (n + 1) - 1 = n
  OBVIOUS
<1>10. t[n + 1] = Traded(t[n], f)
  BY <1>3, <1>5, <1>9
<1>11. QED
  BY <1>2, <1>4, <1>5, <1>8, <1>10 DEF Same

-----------------------------------------------------------------------------
(* Fills, whatever session they are of.                                    *)

\* What the account is after the first k fills was affordable.
Afforded(fs, k) ==
    LET then == AccountAfter(SubSeq(fs, 1, k))
    IN  then.cash >= 0 /\ -then.position * fs[k].price <= InitialCash

SoundFills(fs, to) ==
    /\ fs \in Seq(FillType)
    /\ \A k \in 1 .. Len(fs) : Afforded(fs, k) /\ fs[k].price = OpenPrice[fs[k].index]
                               /\ fs[k].index <= to
    /\ \A j, k \in 1 .. Len(fs) : j <= k => fs[j].index <= fs[k].index

\* The first fills are sound of themselves.
LEMMA FirstFills ==
    ASSUME NEW fs, NEW to, SoundFills(fs, to), NEW m \in 0 .. Len(fs), NEW until,
           \A k \in 1 .. m : fs[k].index <= until
    PROVE  SoundFills(SubSeq(fs, 1, m), until)
<1>1. PICK n \in Nat : n = Len(fs)
  BY DEF SoundFills
<1>2. PICK first : first = SubSeq(fs, 1, m)
  OBVIOUS
<1>3. first \in Seq(FillType) /\ Len(first) = m /\ \A k \in 1 .. m : first[k] = fs[k] /\ k \in 1 .. Len(fs)
  BY <1>1, <1>2 DEF SoundFills
<1>4. \A k \in 1 .. m : SubSeq(first, 1, k) = SubSeq(fs, 1, k)
  <2> SUFFICES ASSUME NEW k \in 1 .. m PROVE SubSeq(first, 1, k) = SubSeq(fs, 1, k)
    OBVIOUS
  <2>1. k \in Nat /\ k <= m /\ k <= n /\ fs \in Seq(FillType)
    BY <1>1 DEF SoundFills
  <2>2. SubSeq(fs, 1, k) = [j \in 1 .. k |-> fs[j]]
    BY <2>1, <1>1
  <2>3. SubSeq(first, 1, k) = [j \in 1 .. k |-> first[j]]
    BY <2>1, <1>3
  <2>4. \A j \in 1 .. k : first[j] = fs[j]
    BY <1>3, <2>1
  <2>5. QED
    BY <2>2, <2>3, <2>4
<1>5. \A k \in 1 .. m : Afforded(first, k)
  <2>1. \A k \in 1 .. m : Afforded(fs, k)
    BY <1>3 DEF SoundFills
  <2>2. QED
    BY <1>3, <1>4, <2>1 DEF Afforded
<1>6. QED
  BY <1>2, <1>3, <1>5 DEF SoundFills

\* A fill of a later bar that the account can afford goes with them.
LEMMA FillMore ==
    ASSUME NEW fs, NEW f \in FillType, NEW to \in Int, SoundFills(fs, to), NEW until \in Int,
           \A k \in 1 .. Len(fs) : fs[k].index <= f.index /\ fs[k].index <= until,
           f.index <= until, f.price = OpenPrice[f.index],
           Traded(AccountAfter(fs), f).cash >= 0,
           -Traded(AccountAfter(fs), f).position * f.price <= InitialCash
    PROVE  SoundFills(Append(fs, f), until)
<1>1. PICK n \in Nat : n = Len(fs) /\ fs \in Seq(FillType)
  BY DEF SoundFills
<1>2. PICK more : more = Append(fs, f)
  OBVIOUS
<1>3. /\ more \in Seq(FillType) /\ Len(more) = n + 1 /\ more[n + 1] = f
      /\ \A k \in 1 .. n : more[k] = fs[k]
  BY <1>1, <1>2
<1>4. \A k \in 1 .. n + 1 : k = n + 1 \/ k \in 1 .. n
  OBVIOUS
<1>5. \A k \in 1 .. n : Afforded(more, k)
  <2> SUFFICES ASSUME NEW k \in 1 .. n PROVE Afforded(more, k)
    OBVIOUS
  <2>1. SubSeq(more, 1, k) = [j \in 1 .. k |-> more[j]]
    BY <1>3
  <2>2. SubSeq(fs, 1, k) = [j \in 1 .. k |-> fs[j]]
    BY <1>1
  <2>3. \A j \in 1 .. k : more[j] = fs[j]
    BY <1>3
  <2>4. SubSeq(more, 1, k) = SubSeq(fs, 1, k)
    BY <2>1, <2>2, <2>3
  <2>5. Afforded(fs, k)
    BY <1>1 DEF SoundFills
  <2>6. QED
    BY <1>3, <2>4, <2>5 DEF Afforded
<1>6. Afforded(more, n + 1)
  <2>1. SubSeq(more, 1, n + 1) = more
    BY <1>3
  <2>2. AccountAfter(more) = Traded(AccountAfter(fs), f)
    BY <1>1, <1>2, AccountGrows
  <2>3. QED
    BY <1>3, <2>1, <2>2 DEF Afforded
<1>7. \A k \in 1 .. n + 1 : Afforded(more, k) /\ more[k].price = OpenPrice[more[k].index]
                            /\ more[k].index <= until
  <2>1. \A k \in 1 .. n : more[k].price = OpenPrice[more[k].index] /\ more[k].index <= until
    BY <1>1, <1>3 DEF SoundFills
  <2>2. QED
    BY <1>3, <1>4, <1>5, <1>6, <2>1
<1>8. \A j, k \in 1 .. n + 1 : j <= k => more[j].index <= more[k].index
  <2>1. \A j, k \in 1 .. n : j <= k => more[j].index <= more[k].index
    BY <1>1, <1>3 DEF SoundFills
  <2>2. \A j \in 1 .. n : more[j].index <= more[n + 1].index
    BY <1>1, <1>3
  <2>3. more[n + 1].index <= more[n + 1].index
    BY <1>3 DEF FillType
  <2>4. \A k \in 1 .. n : ~(n + 1 <= k)
    OBVIOUS
  <2>5. QED
    BY <1>4, <2>1, <2>2, <2>3, <2>4
<1>9. QED
  BY <1>2, <1>3, <1>7, <1>8 DEF SoundFills

\* A selection that takes with an element all before it begins with the first and
\* leaves none out.
\* h counts up those of the numbers to n that are good, and below a good one all are.
CountsUp(h, m, n, Admissible) ==
    /\ n \in Nat /\ m \in Nat /\ h \in [1 .. m -> 1 .. n]
    /\ \A j, k \in 1 .. m : j < k => h[j] < h[k]
    /\ \A k \in 1 .. m : h[k] \in Admissible
    /\ \A i, j \in 1 .. n : i <= j /\ j \in Admissible => i \in Admissible
    /\ \A i \in 1 .. n : i \in Admissible => \E k \in 1 .. m : h[k] = i

LEMMA IncreasingOnto ==
    ASSUME NEW n, NEW m, NEW h, NEW Admissible, CountsUp(h, m, n, Admissible)
    PROVE  \A k \in 1 .. m : h[k] = k
<1> USE DEF CountsUp
<1> DEFINE Fine == {k \in 0 .. m : \A j \in 1 .. k : h[j] = j}
<1>1. 0 \in Fine
  OBVIOUS
<1>2. ASSUME NEW k \in 1 .. m, k - 1 \in Fine PROVE k \in Fine
  <2>1. \A j \in 1 .. k - 1 : h[j] = j
    BY <1>2
  <2>2. h[k] \in 1 .. n /\ h[k] \in Admissible
    OBVIOUS
  <2>3. h[k] >= k
    <3>1. CASE k = 1
      BY <2>2, <3>1
    <3>2. CASE k > 1
      <4>1. k - 1 \in 1 .. m /\ k - 1 \in 1 .. k - 1 /\ k - 1 < k
        BY <3>2
      <4>2. h[k - 1] = k - 1 /\ h[k - 1] < h[k]
        BY <2>1, <4>1
      <4>3. QED
        BY <2>2, <4>2
    <3>3. QED
      BY <3>1, <3>2
  <2>4. k \in 1 .. n /\ k \in Admissible
    BY <2>2, <2>3
  <2>5. PICK i \in 1 .. m : h[i] = k
    BY <2>4
  <2>6. ~(i < k)
    <3>1. i < k => h[i] = i
      BY <2>1
    <3>2. QED
      BY <2>5, <3>1
  <2>7. ~(k < i)
    <3>1. k < i => h[k] < h[i]
      OBVIOUS
    <3>2. QED
      BY <2>2, <2>3, <2>5, <3>1
  <2>8. i = k
    BY <2>6, <2>7
  <2>9. h[k] = k
    BY <2>5, <2>8
  <2>10. \A j \in 1 .. k : j = k \/ j \in 1 .. k - 1
    OBVIOUS
  <2>11. QED
    BY <2>1, <2>9, <2>10
<1> HIDE DEF Fine
<1>3. \A k \in 1 .. m : k - 1 \in Fine => k \in Fine
  BY <1>2
<1>4. m \in Fine
  <2>1. \A k \in 0 .. m : k \in Fine
    BY <1>1, <1>3, IndexInduction
  <2>2. QED
    BY <2>1
<1>5. QED
  BY <1>4 DEF Fine

\* The fills of the bars up to one are the first ones, for they are in order.
LEMMA RevealedFills ==
    ASSUME NEW s, NEW to, SoundFills(s.fills, to), NEW until \in Int
    PROVE  /\ SoundFills(FilledBy(s, until), until)
           /\ ToSet(FilledBy(s, until)) = {f \in ToSet(s.fills) : f.index <= until}
<1>1. PICK fs \in Seq(FillType) : fs = s.fills /\ SoundFills(fs, to)
  BY DEF SoundFills
<1> DEFINE S == {f \in ToSet(fs) : f.index <= until}
<1>2. PICK n \in Nat : n = Len(fs) /\ DOMAIN fs = 1 .. n
  OBVIOUS
<1>3. PICK out \in Seq(FillType) : out = FilledBy(s, until) /\ \E h : IsSelection(out, h, fs, n, S)
  BY <1>1, <1>2, SelectionExists DEF FilledBy
<1>4. PICK h : IsSelection(out, h, fs, n, S)
  BY <1>3
<1>5. PICK m \in Nat : m = Len(out) /\ DOMAIN out = 1 .. m
  OBVIOUS
<1>6. /\ h \in [1 .. m -> 1 .. n]
      /\ \A k \in 1 .. m : out[k] = fs[h[k]] /\ out[k] \in S
      /\ \A j, k \in 1 .. m : j < k => h[j] < h[k]
      /\ \A i \in 1 .. n : fs[i] \in S => \E k \in 1 .. m : h[k] = i
  BY <1>4, <1>5 DEF IsSelection
<1>7. \A i \in 1 .. n : fs[i] \in FillType /\ (fs[i] \in S <=> fs[i].index <= until)
  BY <1>2 DEF ToSet
<1>8. \A i, j \in 1 .. n : i <= j /\ fs[j] \in S => fs[i] \in S
  <2> SUFFICES ASSUME NEW i \in 1 .. n, NEW j \in 1 .. n, i <= j, fs[j] \in S PROVE fs[i] \in S
    OBVIOUS
  <2>1. fs[i].index <= fs[j].index
    BY <1>1, <1>2 DEF SoundFills
  <2>2. fs[i].index \in Int /\ fs[j].index \in Int /\ fs[j].index <= until
    <3>1. PICK f \in FillType, g \in FillType : f = fs[i] /\ g = fs[j]
      BY <1>7
    <3>2. f.index \in Int /\ g.index \in Int
      BY DEF FillType
    <3>3. fs[j].index <= until
      BY <1>7
    <3>4. QED
      BY <3>1, <3>2, <3>3
  <2>3. QED
    BY <1>7, <2>1, <2>2
<1>9. \A k \in 1 .. m : h[k] = k
  <2> DEFINE Admissible == {i \in 1 .. n : fs[i] \in S}
  <2>1. \A k \in 1 .. m : h[k] \in Admissible
    BY <1>6
  <2>2. \A i, j \in 1 .. n : i <= j /\ j \in Admissible => i \in Admissible
    BY <1>8
  <2>3. \A i \in 1 .. n : i \in Admissible => \E k \in 1 .. m : h[k] = i
    BY <1>6
  <2>4. h \in [1 .. m -> 1 .. n] /\ \A j, k \in 1 .. m : j < k => h[j] < h[k]
    BY <1>6
  <2> HIDE DEF Admissible
  <2>5. n \in Nat /\ m \in Nat
    OBVIOUS
  <2>6. QED
    <3>1. CountsUp(h, m, n, Admissible)
      BY <2>1, <2>2, <2>3, <2>4, <2>5 DEF CountsUp
    <3>2. QED
      BY <3>1, IncreasingOnto
<1>10. m <= n /\ out = SubSeq(fs, 1, m) /\ \A k \in 1 .. m : fs[k].index <= until
  <2>1. \A k \in 1 .. m : k \in 1 .. n /\ out[k] = fs[k] /\ out[k].index <= until
    BY <1>6, <1>9
  <2>2. m <= n
    BY <2>1
  <2>3. SubSeq(fs, 1, m) = [k \in 1 .. m |-> fs[k]]
    BY <1>2, <2>2
  <2>4. QED
    BY <1>5, <2>1, <2>2, <2>3
<1>11. SoundFills(out, until)
  <2>1. m \in 0 .. Len(fs) /\ \A k \in 1 .. m : fs[k].index <= until
    BY <1>2, <1>10
  <2>2. QED
    BY <1>1, <1>10, <2>1, FirstFills
<1>12. ToSet(out) = S
  <2>1. ToSet(out) = {out[k] : k \in 1 .. m}
    BY <1>5 DEF ToSet
  <2>2. \A x \in S : \E i \in 1 .. n : x = fs[i]
    BY <1>2 DEF ToSet
  <2>3. QED
    BY <1>6, <2>1, <2>2
<1>13. QED
  BY <1>1, <1>3, <1>11, <1>12

-----------------------------------------------------------------------------
(* What holds of a session.                                                *)

\* The orders are numbered, every fill has the order it filled.
Numbered(orders, fills) ==
    /\ \A i, j \in 1 .. Len(orders) : i < j => orders[i].id < orders[j].id
    /\ \A k \in 1 .. Len(fills) : \E i \in 1 .. Len(orders) :
          orders[i].id = fills[k].id /\ orders[i].status = "filled"

Replayable(s) ==
    /\ s \in Session
    /\ s.mode = "review" => s.orders = << >> /\ s.fills = << >>
    /\ Account(s.cash, s.position) = AccountAfter(s.fills)
    /\ SoundFills(s.fills, s.index)
    /\ Numbered(s.orders, s.fills)
    /\ \A i \in 1 .. Len(s.orders) : s.orders[i].status = "pending" => s.orders[i].at = s.index

ReplayInv ==
    /\ sessions \in Seq(Session)
    /\ \A n \in 1 .. Len(sessions) : Replayable(sessions[n]) /\ sessions[n].parent \in 0 .. n - 1

LEMMA NewIsReplayable ==
    ASSUME NEW mode \in {"review", "training"}, NEW index \in 0 .. LastBar
    PROVE  Replayable(create_record(mode, index)) /\ create_record(mode, index).parent = 0
<1>1. << >> \in Seq(OrderType) /\ << >> \in Seq(FillType) /\ Len(<< >>) = 0
  OBVIOUS
<1>2. create_record(mode, index) \in Session
  BY <1>1, ReplayAssumption DEF create_record, Session
<1>3. SoundFills(<< >>, index)
  BY <1>1 DEF SoundFills
<1>4. Numbered(<< >>, << >>)
  BY <1>1 DEF Numbered
<1>5. Account(InitialCash, 0) = AccountAfter(<< >>)
  BY AccountStarts DEF Opening
<1>6. QED
  BY <1>1, <1>2, <1>3, <1>4, <1>5 DEF Replayable, create_record

LEMMA OrderedIsReplayable ==
    ASSUME NEW s, Replayable(s), s.mode = "training", s.index < LastBar, NEW q \in Quantities
    PROVE  Replayable(WithOrder(s, q)) /\ WithOrder(s, q).parent = s.parent
<1>1. PICK n \in Nat : n = Len(s.orders) /\ s.orders \in Seq(OrderType)
  BY DEF Replayable, Session
<1>2. PICK o : o = Order(s, q)
  OBVIOUS
<1>3. o \in OrderType /\ o.at = s.index /\ \A i \in 1 .. n : s.orders[i].id < o.id
  <2>1. s.index \in 0 .. LastBar - 1
    BY ReplayAssumption DEF Replayable, Session
  <2>2. CASE n = 0
    <3>1. s.orders = << >>
      BY <1>1, <2>2, EmptySeq
    <3>2. QED
      BY <1>2, <2>1, <2>2, <3>1 DEF Order, OrderType
  <2>3. CASE n > 0
    <3>1. s.orders # << >> /\ Last(s.orders) = s.orders[n] /\ n \in 1 .. n
      BY <1>1, <2>3 DEF Last
    <3>2. \A i \in 1 .. n : s.orders[i] \in OrderType /\ s.orders[i].id \in Nat
      <4>1. \A i \in 1 .. n : s.orders[i] \in OrderType
        BY <1>1
      <4>2. QED
        BY <4>1 DEF OrderType
    <3>3. \A i \in 1 .. n : i = n \/ i < n
      OBVIOUS
    <3>4. \A i \in 1 .. n : s.orders[i].id < s.orders[n].id + 1
      BY <1>1, <3>1, <3>2, <3>3 DEF Replayable, Numbered
    <3>5. QED
      BY <1>2, <2>1, <3>1, <3>2, <3>4 DEF Order, OrderType
  <2>4. QED
    BY <2>2, <2>3
<1>4. PICK more : more = Append(s.orders, o)
  OBVIOUS
<1>5. /\ more \in Seq(OrderType) /\ Len(more) = n + 1 /\ more[n + 1] = o
      /\ \A i \in 1 .. n : more[i] = s.orders[i] /\ i \in 1 .. n + 1
      /\ \A i \in 1 .. n + 1 : i = n + 1 \/ i \in 1 .. n
  BY <1>1, <1>3, <1>4
<1>6. Numbered(more, s.fills)
  <2>1. \A i, j \in 1 .. n : i < j => more[i].id < more[j].id
    BY <1>1, <1>5 DEF Replayable, Numbered
  <2>2. \A i \in 1 .. n : more[i].id < more[n + 1].id
    BY <1>3, <1>5
  <2>3. \A i \in 1 .. n + 1 : ~(n + 1 < i)
    OBVIOUS
  <2>4. \A i, j \in 1 .. n + 1 : i < j => more[i].id < more[j].id
    BY <1>5, <2>1, <2>2, <2>3
  <2>5. \A k \in 1 .. Len(s.fills) : \E i \in 1 .. n + 1 :
            more[i].id = s.fills[k].id /\ more[i].status = "filled"
    <3>1. \A k \in 1 .. Len(s.fills) : \E i \in 1 .. n :
              s.orders[i].id = s.fills[k].id /\ s.orders[i].status = "filled"
      BY <1>1 DEF Replayable, Numbered
    <3>2. TAKE k \in 1 .. Len(s.fills)
    <3>3. PICK i \in 1 .. n : s.orders[i].id = s.fills[k].id /\ s.orders[i].status = "filled"
      BY <3>1
    <3>4. i \in 1 .. n + 1 /\ more[i].id = s.fills[k].id /\ more[i].status = "filled"
      BY <1>5, <3>3
    <3>5. QED
      BY <3>4
  <2>6. QED
    BY <1>5, <2>4, <2>5 DEF Numbered
<1>7. \A i \in 1 .. n + 1 : more[i].status = "pending" => more[i].at = s.index
  BY <1>1, <1>3, <1>5 DEF Replayable
<1>8. PICK t : t = [s EXCEPT !.orders = more]
  OBVIOUS
<1>9. t \in Session
  BY <1>5, <1>8 DEF Replayable, Session
<1>10. /\ t.orders = more /\ t.mode = s.mode /\ t.fills = s.fills /\ t.cash = s.cash
       /\ t.position = s.position /\ t.index = s.index /\ t.parent = s.parent
  BY <1>8 DEF Replayable, Session
<1>11. WithOrder(s, q) = t
  BY <1>2, <1>4, <1>8 DEF WithOrder
<1>12. QED
  BY <1>5, <1>6, <1>7, <1>9, <1>10, <1>11 DEF Replayable

LEMMA RewoundIsReplayable ==
    ASSUME NEW s, Replayable(s), s.mode = "training", NEW n \in Nat, NEW to \in 0 .. LastBar,
           to < s.index
    PROVE  Replayable(Rewound(s, n, to)) /\ Rewound(s, n, to).parent = n
<1>1. PICK fills : fills = FilledBy(s, to)
  OBVIOUS
<1>2. SoundFills(fills, to) /\ ToSet(fills) = {f \in ToSet(s.fills) : f.index <= to}
  <2>1. SoundFills(s.fills, s.index) /\ to \in Int
    BY ReplayAssumption DEF Replayable
  <2>2. QED
    BY <1>1, <2>1, RevealedFills
<1> DEFINE S == {o \in ToSet(s.orders) : \E f \in ToSet(fills) : f.id = o.id}
<1>3. PICK orders \in Seq(OrderType) : orders = OrdersOf(s, fills)
                                       /\ \E h : IsSelection(orders, h, s.orders, Len(s.orders), S)
  BY SelectionExists DEF Replayable, Session, OrdersOf
<1>4. PICK h : IsSelection(orders, h, s.orders, Len(s.orders), S)
  BY <1>3
<1>5. PICK m \in Nat : m = Len(orders) /\ DOMAIN orders = 1 .. m
  OBVIOUS
<1>6. PICK k \in Nat : /\ k = Len(s.orders) /\ DOMAIN s.orders = 1 .. k
                      /\ \A i \in 1 .. k : s.orders[i] \in OrderType
  <2>1. s.orders \in Seq(OrderType)
    BY DEF Replayable, Session
  <2>2. QED
    BY <2>1
<1>7. /\ h \in [1 .. m -> 1 .. k]
      /\ \A i \in 1 .. m : orders[i] = s.orders[h[i]] /\ orders[i] \in S
      /\ \A i, j \in 1 .. m : i < j => h[i] < h[j]
      /\ \A i \in 1 .. k : s.orders[i] \in S => \E j \in 1 .. m : h[j] = i
  BY <1>4, <1>5, <1>6 DEF IsSelection
\* An order that a fill is of is filled.
<1>8. \A i \in 1 .. k : s.orders[i] \in S => s.orders[i].status = "filled"
  <2> SUFFICES ASSUME NEW i \in 1 .. k, s.orders[i] \in S PROVE s.orders[i].status = "filled"
    OBVIOUS
  <2>1. PICK f \in ToSet(s.fills) : f.id = s.orders[i].id
    BY <1>2
  <2>2. PICK x \in 1 .. Len(s.fills) : f = s.fills[x]
    BY DEF ToSet, Replayable, Session
  <2>3. PICK j \in 1 .. k : s.orders[j].id = f.id /\ s.orders[j].status = "filled"
    BY <1>6, <2>2 DEF Replayable, Numbered
  <2>4. s.orders[i].id \in Nat /\ s.orders[j].id \in Nat
    BY <1>6 DEF OrderType
  <2>5. (i < j => s.orders[i].id < s.orders[j].id) /\ (j < i => s.orders[j].id < s.orders[i].id)
    BY <1>6 DEF Replayable, Numbered
  <2>6. i = j
    BY <2>1, <2>3, <2>4, <2>5
  <2>7. QED
    BY <2>3, <2>6
<1>9. Numbered(orders, fills)
  <2>1. \A i, j \in 1 .. m : i < j => orders[i].id < orders[j].id
    <3>1. \A i, j \in 1 .. k : i < j => s.orders[i].id < s.orders[j].id
      BY <1>6 DEF Replayable, Numbered
    <3>2. TAKE i, j \in 1 .. m
    <3>3. HAVE i < j
    <3>4. h[i] \in 1 .. k /\ h[j] \in 1 .. k /\ h[i] < h[j]
      BY <1>7, <3>3
    <3>5. orders[i] = s.orders[h[i]] /\ orders[j] = s.orders[h[j]]
      BY <1>7
    <3>6. QED
      BY <3>1, <3>4, <3>5
  <2>2. \A x \in 1 .. Len(fills) : \E i \in 1 .. m :
            orders[i].id = fills[x].id /\ orders[i].status = "filled"
    <3> SUFFICES ASSUME NEW x \in 1 .. Len(fills)
                 PROVE  \E i \in 1 .. m : orders[i].id = fills[x].id /\ orders[i].status = "filled"
      OBVIOUS
    <3>1. fills[x] \in ToSet(fills)
      BY <1>2 DEF ToSet, SoundFills
    <3>2. PICK y \in 1 .. Len(s.fills) : fills[x] = s.fills[y]
      <4>1. fills[x] \in ToSet(s.fills) /\ s.fills \in Seq(FillType)
        BY <1>2, <3>1 DEF Replayable, Session
      <4>2. QED
        BY <4>1 DEF ToSet
    <3>3. PICK j \in 1 .. k : s.orders[j].id = fills[x].id /\ s.orders[j].status = "filled"
      BY <1>6, <3>2 DEF Replayable, Numbered
    <3>4. s.orders[j] \in S
      BY <1>6, <3>1, <3>3 DEF ToSet
    <3>5. PICK i \in 1 .. m : h[i] = j
      BY <1>7, <3>4
    <3>6. QED
      BY <1>7, <3>3, <3>5
  <2>3. QED
    <3>1. m = Len(orders)
      BY <1>5
    <3>2. QED
      BY <2>1, <2>2, <3>1, Zenon DEF Numbered
<1>10. \A i \in 1 .. m : orders[i].status # "pending"
  <2> SUFFICES ASSUME NEW i \in 1 .. m PROVE orders[i].status # "pending"
    OBVIOUS
  <2>1. h[i] \in 1 .. k /\ orders[i] = s.orders[h[i]] /\ orders[i] \in S
    BY <1>7
  <2> HIDE DEF S
  <2>2. orders[i].status = "filled"
    BY <1>8, <2>1
  <2>3. QED
    BY <2>2
<1>11. PICK left : left = AccountAfter(fills) /\ left \in AccountType
  BY <1>2, AccountHasItsType DEF SoundFills
<1>12. PICK t : t = [s EXCEPT !.parent = n, !.index = to, !.fills = fills, !.orders = orders,
                              !.cash = left.cash, !.position = left.position]
  OBVIOUS
<1>13. t \in Session
  BY <1>2, <1>3, <1>11, <1>12 DEF Replayable, Session, AccountType, SoundFills
<1>14. /\ t.orders = orders /\ t.mode = s.mode /\ t.fills = fills /\ t.cash = left.cash
       /\ t.position = left.position /\ t.index = to /\ t.parent = n
  BY <1>12 DEF Replayable, Session
<1>15. Account(left.cash, left.position) = left
  BY <1>11 DEF Account, AccountType
<1>16. Rewound(s, n, to) = t
  BY <1>1, <1>3, <1>11, <1>12 DEF Rewound
<1>17. QED
  BY <1>2, <1>5, <1>9, <1>10, <1>11, <1>13, <1>14, <1>15, <1>16 DEF Replayable

-----------------------------------------------------------------------------
(* Going on to a later bar.                                                *)

\* The session once an order's status is another.
LEMMA StatusFacts ==
    ASSUME NEW t \in Session, NEW i \in 1 .. Len(t.orders),
           NEW status \in {"pending", "filled", "rejected"}
    PROVE  LET orders == [t.orders EXCEPT ![i] = WithStatus(@, status)]
           IN  /\ orders \in Seq(OrderType) /\ Len(orders) = Len(t.orders)
               /\ \A j \in 1 .. Len(t.orders) :
                    /\ orders[j].id = t.orders[j].id /\ orders[j].at = t.orders[j].at
                    /\ orders[j].status = IF j = i THEN status ELSE t.orders[j].status
<1>1. PICK n \in Nat : n = Len(t.orders) /\ DOMAIN t.orders = 1 .. n /\ t.orders \in Seq(OrderType)
  BY DEF Session
<1>2. \A j \in 1 .. n : t.orders[j] \in OrderType
  BY <1>1
<1> DEFINE orders == [t.orders EXCEPT ![i] = WithStatus(@, status)]
<1>3. \A j \in 1 .. n : orders[j] = IF j = i THEN WithStatus(t.orders[j], status) ELSE t.orders[j]
  BY <1>1
<1>4. \A j \in 1 .. n : /\ orders[j] \in OrderType
                        /\ orders[j].id = t.orders[j].id /\ orders[j].at = t.orders[j].at
                        /\ orders[j].status = IF j = i THEN status ELSE t.orders[j].status
  BY <1>2, <1>3 DEF WithStatus, OrderType
<1>5. orders \in [1 .. n -> OrderType]
  BY <1>1, <1>4
<1>6. QED
  BY <1>1, <1>4, <1>5

LEMMA FillOfFacts ==
    ASSUME NEW o \in OrderType
    PROVE  /\ FillOf(o) \in FillType /\ FillOf(o).index = o.at + 1
           /\ FillOf(o).price = OpenPrice[FillOf(o).index] /\ FillOf(o).id = o.id
<1>1. o.at + 1 \in 1 .. LastBar /\ o.at + 1 \in 0 .. LastBar /\ o.quantity \in Int
  <2>1. LastBar \in Nat /\ Quantities \subseteq Int
    BY ReplayAssumption
  <2>2. o.at \in 0 .. LastBar - 1 /\ o.quantity \in Quantities
    BY DEF OrderType
  <2>3. PICK a \in 0 .. LastBar - 1 : a = o.at
    BY <2>2
  <2>4. a + 1 \in 1 .. LastBar /\ a + 1 \in 0 .. LastBar
    BY <2>1
  <2>5. QED
    BY <2>1, <2>2, <2>3, <2>4
<1>2. OpenPrice[o.at + 1] \in Nat
  BY <1>1, ReplayAssumption
<1>3. QED
  BY <1>1, <1>2 DEF FillOf, FillType, OrderType

\* What a session becomes when its i-th order is settled.
SettlesTo(t, i, fill, left, u) ==
    /\ u \in Session /\ u.mode = t.mode /\ u.index = t.index /\ u.parent = t.parent
    /\ Len(u.orders) = Len(t.orders)
    /\ \A j \in 1 .. Len(t.orders) :
         /\ u.orders[j].id = t.orders[j].id /\ u.orders[j].at = t.orders[j].at
         /\ j # i => u.orders[j].status = t.orders[j].status
    /\ \/ /\ u.orders[i].status = "filled" /\ u.fills = Append(t.fills, fill)
          /\ u.cash = left.cash /\ u.position = left.position
          /\ Affordable(left.cash, left.position, fill.price)
       \/ /\ u.orders[i].status = "rejected" /\ u.fills = t.fills
          /\ u.cash = t.cash /\ u.position = t.position

LEMMA SettleOrderFacts ==
    ASSUME NEW t \in Session, NEW i \in 1 .. Len(t.orders),
           NEW fill, fill = FillOf(t.orders[i]),
           NEW left, left = Traded(Account(t.cash, t.position), fill)
    PROVE  SettlesTo(t, i, fill, left, SettleOrder(t, i))
<1> DEFINE u == SettleOrder(t, i)
<1>1. fill \in FillType
  <2>1. t.orders[i] \in OrderType
    BY DEF Session
  <2>2. QED
    BY <2>1, FillOfFacts
<1>2. left \in AccountType
  <2>1. Account(t.cash, t.position) \in AccountType
    BY DEF Session, Account, AccountType
  <2>2. QED
    BY <1>1, <2>1, TradedType
<1>3. CASE Affordable(left.cash, left.position, fill.price)
  <2>1. PICK orders : orders = [t.orders EXCEPT ![i] = WithStatus(@, "filled")]
    OBVIOUS
  <2>2. /\ orders \in Seq(OrderType) /\ Len(orders) = Len(t.orders)
        /\ \A j \in 1 .. Len(t.orders) :
             /\ orders[j].id = t.orders[j].id /\ orders[j].at = t.orders[j].at
             /\ orders[j].status = IF j = i THEN "filled" ELSE t.orders[j].status
    BY <2>1, StatusFacts
  <2>3. PICK fills : fills = Append(t.fills, fill) /\ fills \in Seq(FillType)
    <3>1. t.fills \in Seq(FillType)
      BY DEF Session
    <3>2. Append(t.fills, fill) \in Seq(FillType)
      BY <1>1, <3>1
    <3>3. QED
      BY <3>2
  <2>4. u = [t EXCEPT !.orders = orders, !.fills = fills, !.cash = left.cash,
                      !.position = left.position]
    BY <1>1, <1>2, <1>3, <2>1, <2>3 DEF SettleOrder, Session
  <2>5. /\ u \in Session /\ u.mode = t.mode /\ u.index = t.index /\ u.parent = t.parent
        /\ u.orders = orders /\ u.fills = fills /\ u.cash = left.cash /\ u.position = left.position
    BY <1>2, <2>2, <2>3, <2>4 DEF Session, AccountType
  <2>6. QED
    BY <1>1, <1>2, <1>3, <2>2, <2>3, <2>5 DEF SettlesTo
<1>4. CASE ~Affordable(left.cash, left.position, fill.price)
  <2>1. PICK orders : orders = [t.orders EXCEPT ![i] = WithStatus(@, "rejected")]
    OBVIOUS
  <2>2. /\ orders \in Seq(OrderType) /\ Len(orders) = Len(t.orders)
        /\ \A j \in 1 .. Len(t.orders) :
             /\ orders[j].id = t.orders[j].id /\ orders[j].at = t.orders[j].at
             /\ orders[j].status = IF j = i THEN "rejected" ELSE t.orders[j].status
    BY <2>1, StatusFacts
  <2>3. u = [t EXCEPT !.orders = orders]
    BY <1>1, <1>2, <1>4, <2>1 DEF SettleOrder, Session
  <2>4. /\ u \in Session /\ u.mode = t.mode /\ u.index = t.index /\ u.parent = t.parent
        /\ u.orders = orders /\ u.fills = t.fills /\ u.cash = t.cash /\ u.position = t.position
    BY <2>2, <2>3 DEF Session
  <2>5. QED
    BY <1>1, <1>2, <2>2, <2>4 DEF SettlesTo
<1>5. QED
  BY <1>3, <1>4

LEMMA SettledType ==
    ASSUME NEW t \in Session, NEW i \in 1 .. Len(t.orders), NEW to
    PROVE  Settled(t, i, to) \in Session /\ Len(Settled(t, i, to).orders) = Len(t.orders)
<1>1. PICK fill : fill = FillOf(t.orders[i])
  OBVIOUS
<1>2. PICK left : left = Traded(Account(t.cash, t.position), fill)
  OBVIOUS
<1>3. PICK u : u = SettleOrder(t, i)
  OBVIOUS
<1>4. u \in Session /\ Len(u.orders) = Len(t.orders)
  BY <1>1, <1>2, <1>3, SettleOrderFacts DEF SettlesTo
<1>5. QED
  BY <1>3, <1>4 DEF Settled

\* What becomes of s as its orders are taken one after the other.
IsSettling(run, s, q, to) ==
    /\ run[0] = s
    /\ \A k \in 1 .. Len(q) : run[k] = Settled(run[k - 1], q[k], to)
    /\ _settle(s, to) = run[Len(q)]

LEMMA SettledRuns ==
    ASSUME NEW s \in Session, NEW q \in Seq(1 .. Len(s.orders)), NEW to,
           q = [i \in DOMAIN s.orders |-> i]
    PROVE  \E run : IsSettling(run, s, q, to)
<1> DEFINE V == {t \in Session : Len(t.orders) = Len(s.orders)}
           n == Len(q)
           take == [k \in 1 .. n |-> [v \in V |-> Settled(v, q[k], to)]]
           F(f) == [T \in SUBSET (1 .. n) |->
                       IF T = {} THEN s ELSE Settled(f[T \ {Max(T)}], q[Max(T)], to)]
<1>1. n \in Nat /\ DOMAIN q = 1 .. n /\ s \in V
  OBVIOUS
<1>2. \A k \in 1 .. n : \A v \in V : take[k][v] = Settled(v, q[k], to) /\ take[k][v] \in V
  <2>1. \A k \in 1 .. n : q[k] \in 1 .. Len(s.orders)
    OBVIOUS
  <2>2. \A k \in 1 .. n : \A v \in V : Settled(v, q[k], to) \in V
    BY <2>1, SettledType
  <2>3. QED
    BY <2>2
<1> HIDE DEF take, V, n
<1>3. PICK g \in [SUBSET (1 .. n) -> V] : IsLeftFold(g, n, s, take)
  BY <1>1, <1>2, LeftFoldExists
<1>4. \A T \in SUBSET (1 .. n) : T # {} => Max(T) \in 1 .. n /\ g[T \ {Max(T)}] \in V
  <2>1. \A T \in SUBSET (1 .. n) : T # {} => Max(T) \in T
    BY <1>1, GreatestOf
  <2>2. QED
    BY <2>1
<1>5. \A T \in SUBSET (1 .. n) :
          g[T] = IF T = {} THEN s ELSE Settled(g[T \ {Max(T)}], q[Max(T)], to)
  BY <1>2, <1>3, <1>4 DEF IsLeftFold
<1>6. g = F(g)
  BY <1>5, Zenon
<1>7. PICK p : p = CHOOSE f : f = F(f)
  OBVIOUS
<1>8. p = F(p)
  <2> HIDE DEF F
  <2>1. \E f : f = F(f)
    BY <1>6
  <2>2. QED
    BY <1>7, <2>1, Zenon
<1>9. _settle(s, to) = p[1 .. n]
  <2>1. FoldLeft(LAMBDA t, i : Settled(t, i, to), s, q) = p[1 .. n]
    BY <1>1, <1>7 DEF FoldLeft, MapThenFoldSet
  <2>2. _settle(s, to) = FoldLeft(LAMBDA t, i : Settled(t, i, to), s, q)
    BY DEF _settle
  <2>3. QED
    BY <2>1, <2>2
<1>10. p[{}] = s
  BY <1>8
<1>11. \A k \in 1 .. n : p[1 .. k] = Settled(p[1 .. (k - 1)], q[k], to)
  <2> SUFFICES ASSUME NEW k \in 1 .. n PROVE p[1 .. k] = Settled(p[1 .. (k - 1)], q[k], to)
    OBVIOUS
  <2>1. /\ 1 .. k \in SUBSET (1 .. n) /\ 1 .. k # {}
        /\ Max(1 .. k) = k /\ (1 .. k) \ {Max(1 .. k)} = 1 .. (k - 1)
    BY <1>1, InitialIndices
  <2>2. p[1 .. k] = Settled(p[(1 .. k) \ {Max(1 .. k)}], q[Max(1 .. k)], to)
    BY <1>8, <2>1, Zenon
  <2>3. QED
    BY <2>1, <2>2
<1> DEFINE run == [k \in 0 .. n |-> p[1 .. k]]
<1>12. /\ run[0] = s /\ run[n] = p[1 .. n]
       /\ \A k \in 1 .. n : run[k] = Settled(run[k - 1], q[k], to)
  <2>1. 1 .. 0 = {} /\ 0 \in 0 .. n /\ n \in 0 .. n
    BY <1>1
  <2>2. \A k \in 1 .. n : k \in 0 .. n /\ k - 1 \in 0 .. n
    BY <1>1
  <2>3. QED
    BY <1>10, <1>11, <2>1, <2>2
<1>13. QED
  <2>1. IsSettling(run, s, q, to)
    BY <1>9, <1>12 DEF n, IsSettling
  <2> HIDE DEF run
  <2>2. QED
    BY <2>1

\* The session t that s has become on the way to a bar once its first k orders have
\* been gone through.
HalfSettled(s, t, to, k) ==
    /\ t \in Session /\ t.mode = s.mode /\ t.index = s.index /\ t.parent = s.parent
    /\ Len(t.orders) = Len(s.orders)
    /\ \A i \in 1 .. Len(s.orders) :
          /\ t.orders[i].id = s.orders[i].id /\ t.orders[i].at = s.orders[i].at
          /\ t.orders[i].status = "pending" =>
                s.orders[i].status = "pending" /\ (i <= k => t.orders[i].at + 1 > to)
    /\ Account(t.cash, t.position) = AccountAfter(t.fills)
    /\ SoundFills(t.fills, to) /\ \A x \in 1 .. Len(t.fills) : t.fills[x].index <= s.index + 1
    /\ Numbered(t.orders, t.fills)
    /\ IsPrefix(s.fills, t.fills)

LEMMA SettleStep ==
    ASSUME NEW s, Replayable(s), NEW to \in 0 .. LastBar, NEW k \in 1 .. Len(s.orders),
           NEW t, HalfSettled(s, t, to, k - 1)
    PROVE  HalfSettled(s, Settled(t, k, to), to, k)
<1>1. PICK n \in Nat : /\ n = Len(s.orders) /\ n = Len(t.orders) /\ t \in Session
                      /\ \A i \in 1 .. n : t.orders[i] \in OrderType
  <2>1. t \in Session /\ t.orders \in Seq(OrderType) /\ Len(t.orders) = Len(s.orders)
    BY DEF HalfSettled, Session
  <2>2. QED
    BY <2>1
<1>2. \A i \in 1 .. n : i <= k => i = k \/ i <= k - 1
  BY <1>1
<1>3. CASE ~Due(t, k, to)
  <2>1. Settled(t, k, to) = t
    BY <1>3 DEF Settled
  <2>2. t.orders[k].status = "pending" => t.orders[k].at + 1 > to
    <3>1. PICK o \in OrderType : o = t.orders[k]
      BY <1>1
    <3>2. o.at + 1 \in Int
      BY ReplayAssumption DEF OrderType
    <3>3. o.status = "pending" => ~(o.at + 1 <= to)
      BY <1>3, <3>1 DEF Due
    <3>4. QED
      BY <3>1, <3>2, <3>3
  <2>3. QED
    BY <1>1, <1>2, <2>1, <2>2, SMTT(30) DEF HalfSettled
<1>4. CASE Due(t, k, to)
  <2>1. PICK u : u = SettleOrder(t, k) /\ u = Settled(t, k, to)
    BY <1>4 DEF Settled
  <2>2. PICK fill : fill = FillOf(t.orders[k])
    OBVIOUS
  <2>3. PICK left : left = Traded(Account(t.cash, t.position), fill)
    OBVIOUS
  <2>4. /\ u \in Session /\ u.mode = t.mode /\ u.index = t.index /\ u.parent = t.parent
        /\ Len(u.orders) = n
        /\ \A j \in 1 .. n :
             /\ u.orders[j].id = t.orders[j].id /\ u.orders[j].at = t.orders[j].at
             /\ j # k => u.orders[j].status = t.orders[j].status
        /\ \/ /\ u.orders[k].status = "filled" /\ u.fills = Append(t.fills, fill)
              /\ u.cash = left.cash /\ u.position = left.position
              /\ Affordable(left.cash, left.position, fill.price)
           \/ /\ u.orders[k].status = "rejected" /\ u.fills = t.fills
              /\ u.cash = t.cash /\ u.position = t.position
    <3>1. k \in 1 .. Len(t.orders) /\ t \in Session
      BY <1>1
    <3>2. QED
      <4>1. SettlesTo(t, k, fill, left, u)
        BY <2>1, <2>2, <2>3, <3>1, SettleOrderFacts
      <4>2. QED
        BY <1>1, <4>1 DEF SettlesTo
  <2>5. /\ fill \in FillType /\ fill.index = t.orders[k].at + 1
        /\ fill.price = OpenPrice[fill.index] /\ fill.id = t.orders[k].id
    BY <1>1, <2>2, FillOfFacts
  <2>6. fill.index = s.index + 1 /\ fill.index <= to /\ s.index \in Int /\ to \in Int
    <3>1. t.orders[k].status = "pending" /\ t.orders[k].at + 1 <= to
      BY <1>4 DEF Due
    <3>2. s.orders[k].status = "pending" /\ s.orders[k].at = t.orders[k].at
      BY <3>1 DEF HalfSettled
    <3>3. s.orders[k].at = s.index /\ s.index \in 0 .. LastBar
      BY <3>2 DEF Replayable, Session
    <3>4. QED
      BY <2>5, <3>1, <3>2, <3>3, ReplayAssumption
  <2>7. \A i \in 1 .. n :
          /\ u.orders[i].id = s.orders[i].id /\ u.orders[i].at = s.orders[i].at
          /\ u.orders[i].status = "pending" =>
                s.orders[i].status = "pending" /\ (i <= k => u.orders[i].at + 1 > to)
    <3> SUFFICES ASSUME NEW i \in 1 .. n
                 PROVE  /\ u.orders[i].id = s.orders[i].id /\ u.orders[i].at = s.orders[i].at
                        /\ u.orders[i].status = "pending" =>
                              s.orders[i].status = "pending" /\ (i <= k => u.orders[i].at + 1 > to)
      OBVIOUS
    <3>1. u.orders[k].status # "pending"
      BY <2>4
    <3>2. i # k => u.orders[i].status = t.orders[i].status /\ (i <= k => i <= k - 1)
      BY <1>2, <2>4
    <3>3. /\ t.orders[i].id = s.orders[i].id /\ t.orders[i].at = s.orders[i].at
          /\ t.orders[i].status = "pending" =>
                s.orders[i].status = "pending" /\ (i <= k - 1 => t.orders[i].at + 1 > to)
      BY <1>1 DEF HalfSettled
    <3>4. u.orders[i].id = t.orders[i].id /\ u.orders[i].at = t.orders[i].at
      BY <2>4
    <3>5. QED
      BY <3>1, <3>2, <3>3, <3>4
  <2>8. \A i, j \in 1 .. n : i < j => u.orders[i].id < u.orders[j].id
    <3>1. \A i, j \in 1 .. n : i < j => t.orders[i].id < t.orders[j].id
      BY <1>1 DEF HalfSettled, Numbered
    <3>2. QED
      BY <2>4, <3>1
  <2>9. \A x \in 1 .. Len(t.fills) : \E i \in 1 .. n :
            u.orders[i].id = t.fills[x].id /\ u.orders[i].status = "filled"
    <3> SUFFICES ASSUME NEW x \in 1 .. Len(t.fills)
                 PROVE  \E i \in 1 .. n : u.orders[i].id = t.fills[x].id /\ u.orders[i].status = "filled"
      OBVIOUS
    <3>1. PICK i \in 1 .. n : t.orders[i].id = t.fills[x].id /\ t.orders[i].status = "filled"
      BY <1>1 DEF HalfSettled, Numbered
    <3>2. i # k
      BY <1>4, <3>1 DEF Due
    <3>3. QED
      BY <2>4, <3>1, <3>2
  <2>10. t.fills \in Seq(FillType) /\ u.fills \in Seq(FillType) /\ s.fills \in Seq(FillType)
    BY <1>1, <2>4 DEF Session, Replayable
  <2>11. CASE u.orders[k].status = "rejected"
    <3>1. u.fills = t.fills /\ u.cash = t.cash /\ u.position = t.position
      BY <2>4, <2>11
    <3>2. Numbered(u.orders, u.fills)
      BY <2>4, <2>8, <2>9, <3>1 DEF Numbered
    <3>3. QED
      BY <1>1, <2>1, <2>4, <2>7, <3>1, <3>2 DEF HalfSettled
  <2>12. CASE u.orders[k].status = "filled"
    <3>1. /\ u.fills = Append(t.fills, fill) /\ u.cash = left.cash /\ u.position = left.position
          /\ Affordable(left.cash, left.position, fill.price)
      BY <2>4, <2>12
    <3>2. PICK m \in Nat : m = Len(t.fills)
      BY <2>10
    <3>3. /\ Len(u.fills) = m + 1 /\ u.fills[m + 1] = fill
          /\ \A x \in 1 .. m : u.fills[x] = t.fills[x]
          /\ \A x \in 1 .. m + 1 : x = m + 1 \/ x \in 1 .. m
      BY <2>5, <2>10, <3>1, <3>2
    <3>4. Account(u.cash, u.position) = left /\ left = Traded(AccountAfter(t.fills), fill)
          /\ left \in AccountType
      <4>1. left = Traded(AccountAfter(t.fills), fill) /\ AccountAfter(t.fills) \in AccountType
        BY <2>3, <2>10, AccountHasItsType DEF HalfSettled
      <4>2. left \in AccountType
        BY <2>5, <4>1, TradedType
      <4>3. QED
        BY <3>1, <4>1, <4>2 DEF Account, AccountType
    <3>5. Account(u.cash, u.position) = AccountAfter(u.fills)
      BY <2>5, <2>10, <3>1, <3>4, AccountGrows
    <3>6. \A x \in 1 .. m : t.fills[x].index <= fill.index /\ t.fills[x].index <= to
      BY <2>6, <3>2 DEF HalfSettled, SoundFills
    <3>7. left.cash >= 0 /\ -left.position * fill.price <= InitialCash
      <4>1. fill.price \in Nat /\ left.position \in Int /\ InitialCash \in Nat
        BY <2>5, <3>4, ReplayAssumption DEF FillType, AccountType
      <4>2. CASE left.position < 0
        BY <3>1, <4>2 DEF Affordable
      <4>3. CASE left.position >= 0
        <5>1. left.position * fill.price \in Nat
          BY <4>1, <4>3
        <5>2. -left.position * fill.price = -(left.position * fill.price)
          BY <4>1
        <5>3. QED
          BY <3>1, <4>1, <5>1, <5>2 DEF Affordable
      <4>4. QED
        BY <4>1, <4>2, <4>3
    <3>8. SoundFills(u.fills, to)
      <4>1. SoundFills(t.fills, to)
        BY DEF HalfSettled
      <4>2. QED
        BY <2>5, <2>6, <3>1, <3>2, <3>4, <3>6, <3>7, <4>1, FillMore
    <3>9. \A x \in 1 .. Len(u.fills) : u.fills[x].index <= s.index + 1
      <4>1. \A x \in 1 .. m : t.fills[x].index <= s.index + 1
        BY <3>2 DEF HalfSettled
      <4>2. \A x \in 1 .. m : u.fills[x].index <= s.index + 1
        BY <3>3, <4>1
      <4>3. u.fills[m + 1].index <= s.index + 1
        BY <2>6, <3>3
      <4>4. QED
        BY <3>3, <4>2, <4>3
    <3>10. Numbered(u.orders, u.fills)
      <4>1. u.orders[k].id = fill.id /\ k \in 1 .. n
        BY <1>1, <2>4, <2>5
      <4>2. \A x \in 1 .. m + 1 : \E i \in 1 .. n :
                u.orders[i].id = u.fills[x].id /\ u.orders[i].status = "filled"
        <5>1. \A x \in 1 .. m : \E i \in 1 .. n :
                  u.orders[i].id = u.fills[x].id /\ u.orders[i].status = "filled"
          <6>1. TAKE x \in 1 .. m
          <6>2. PICK i \in 1 .. n : u.orders[i].id = t.fills[x].id /\ u.orders[i].status = "filled"
            BY <2>9, <3>2
          <6>3. u.fills[x] = t.fills[x]
            BY <3>3
          <6>4. QED
            BY <6>2, <6>3
        <5>2. \E i \in 1 .. n :
                  u.orders[i].id = u.fills[m + 1].id /\ u.orders[i].status = "filled"
          BY <2>12, <3>3, <4>1
        <5>3. QED
          BY <3>3, <5>1, <5>2
      <4>3. QED
        BY <2>4, <2>8, <3>3, <4>2 DEF Numbered
    <3>11. IsPrefix(s.fills, u.fills)
      <4>1. PICK l \in Nat : l = Len(s.fills)
        BY <2>10
      <4>2. l <= m /\ SubSeq(s.fills, 1, l) = SubSeq(t.fills, 1, l)
        BY <3>2, <4>1 DEF HalfSettled, IsPrefix
      <4>3. SubSeq(u.fills, 1, l) = SubSeq(t.fills, 1, l)
        <5>1. SubSeq(u.fills, 1, l) = [x \in 1 .. l |-> u.fills[x]]
          BY <2>10, <3>3, <4>2
        <5>2. SubSeq(t.fills, 1, l) = [x \in 1 .. l |-> t.fills[x]]
          BY <2>10, <3>2, <4>2
        <5>3. \A x \in 1 .. l : u.fills[x] = t.fills[x]
          BY <3>3, <4>2
        <5>4. QED
          BY <5>1, <5>2, <5>3
      <4>4. QED
        BY <3>3, <4>1, <4>2, <4>3 DEF IsPrefix
    <3>12. QED
      BY <1>1, <2>1, <2>4, <2>7, <3>5, <3>8, <3>9, <3>10, <3>11 DEF HalfSettled
  <2>13. QED
    BY <2>4, <2>11, <2>12
<1>5. QED
  BY <1>3, <1>4

\* What a session is when it has gone on.
Advanced(s, u, to) ==
    /\ Replayable(u) /\ u.mode = s.mode /\ u.parent = s.parent /\ u.index = to
    /\ IsPrefix(s.fills, u.fills)

LEMMA AdvancedIsReplayable ==
    ASSUME NEW s, Replayable(s), s.mode = "training", NEW to \in 0 .. LastBar, s.index <= to
    PROVE  Advanced(s, [_settle(s, to) EXCEPT !.index = to], to)
<1>1. PICK u : u = [_settle(s, to) EXCEPT !.index = to]
  OBVIOUS
<1>2. PICK n \in Nat : /\ n = Len(s.orders) /\ DOMAIN s.orders = 1 .. n /\ s \in Session
                      /\ \A i \in 1 .. n : s.orders[i] \in OrderType
  <2>1. s \in Session /\ s.orders \in Seq(OrderType)
    BY DEF Replayable, Session
  <2>2. QED
    BY <2>1
<1>3. PICK q : q = [i \in DOMAIN s.orders |-> i]
  OBVIOUS
<1>4. q \in Seq(1 .. Len(s.orders)) /\ Len(q) = n /\ \A k \in 1 .. n : q[k] = k
  BY <1>2, <1>3
<1>5. PICK run : IsSettling(run, s, q, to)
  <2>1. s \in Session
    BY <1>2
  <2>2. q \in Seq(1 .. Len(s.orders))
    BY <1>4
  <2>3. q = [i \in DOMAIN s.orders |-> i]
    BY <1>3
  <2>4. QED
    BY <2>1, <2>2, <2>3, SettledRuns
<1>6. /\ run[0] = s /\ _settle(s, to) = run[n]
      /\ \A k \in 1 .. n : run[k] = Settled(run[k - 1], q[k], to)
  BY <1>4, <1>5 DEF IsSettling
<1> DEFINE Half == {k \in 0 .. n : HalfSettled(s, run[k], to, k)}
<1>7. 0 \in Half
  <2>1. s.fills \in Seq(FillType) /\ s.index \in Int /\ to \in Int
    BY <1>2, ReplayAssumption DEF Session
  <2>2. \A x \in 1 .. Len(s.fills) : s.fills[x] \in FillType /\ s.fills[x].index \in Int
    <3>1. \A x \in 1 .. Len(s.fills) : s.fills[x] \in FillType
      BY <2>1
    <3>2. QED
      BY <3>1 DEF FillType
  <2>3. \A x \in 1 .. Len(s.fills) : s.fills[x].index <= s.index /\ s.fills[x].index <= s.index + 1
                                     /\ s.fills[x].index <= to
    <3>1. \A x \in 1 .. Len(s.fills) : s.fills[x].index <= s.index
      BY DEF Replayable, SoundFills
    <3>2. QED
      BY <2>1, <2>2, <3>1
  <2>4. SoundFills(s.fills, to)
    BY <2>1, <2>3 DEF Replayable, SoundFills
  <2>5. IsPrefix(s.fills, s.fills)
    BY <2>1 DEF IsPrefix
  <2>6. \A i \in 1 .. n : ~(i <= 0)
    OBVIOUS
  <2>7. HalfSettled(s, s, to, 0)
    BY <1>2, <2>3, <2>4, <2>5, <2>6 DEF HalfSettled, Replayable
  <2>8. HalfSettled(s, run[0], to, 0) /\ 0 \in 0 .. n
    BY <1>6, <2>7
  <2>9. QED
    BY <2>8
<1>8. \A k \in 1 .. n : k - 1 \in Half => k \in Half
  <2> SUFFICES ASSUME NEW k \in 1 .. n, k - 1 \in Half PROVE k \in Half
    OBVIOUS
  <2>1. run[k] = Settled(run[k - 1], k, to)
    BY <1>4, <1>6
  <2>2. HalfSettled(s, run[k - 1], to, k - 1) /\ k \in 1 .. Len(s.orders)
    BY <1>2
  <2>3. HalfSettled(s, Settled(run[k - 1], k, to), to, k)
    BY <2>2, SettleStep
  <2>4. QED
    BY <2>1, <2>3
<1> HIDE DEF Half
<1>9. n \in Half
  <2>1. \A k \in 0 .. n : k \in Half
    BY <1>7, <1>8, IndexInduction
  <2>2. QED
    BY <2>1
<1>10. PICK t : t = _settle(s, to) /\ HalfSettled(s, t, to, n)
  BY <1>6, <1>9 DEF Half
<1>11. t \in Session /\ u = [t EXCEPT !.index = to]
  BY <1>1, <1>10 DEF HalfSettled
<1>12. /\ u \in Session /\ u.mode = t.mode /\ u.index = to /\ u.parent = t.parent
       /\ u.orders = t.orders /\ u.fills = t.fills /\ u.cash = t.cash /\ u.position = t.position
  BY <1>11 DEF Session
\* What was due is settled, and a session whose bar stays has nothing due.
<1>13. \A i \in 1 .. n : t.orders[i].status = "pending" => t.orders[i].at = to
  <2> SUFFICES ASSUME NEW i \in 1 .. n, t.orders[i].status = "pending" PROVE t.orders[i].at = to
    OBVIOUS
  <2>1. /\ s.orders[i].status = "pending" /\ t.orders[i].at = s.orders[i].at
        /\ t.orders[i].at + 1 > to
    BY <1>2, <1>10 DEF HalfSettled
  <2>2. s.orders[i].at = s.index
    BY <1>2, <2>1 DEF Replayable
  <2>3. s.index \in Nat /\ to \in Nat
    BY <1>2, ReplayAssumption DEF Session
  <2>4. QED
    BY <2>1, <2>2, <2>3
<1>14. u.mode = "training" /\ u.parent = s.parent
  BY <1>10, <1>12 DEF HalfSettled
<1>15. Len(u.orders) = n
  BY <1>2, <1>10, <1>12 DEF HalfSettled
<1>16. Replayable(u) /\ IsPrefix(s.fills, u.fills)
  BY <1>10, <1>12, <1>13, <1>14, <1>15 DEF HalfSettled, Replayable
<1>17. QED
  BY <1>1, <1>12, <1>14, <1>16 DEF Advanced

-----------------------------------------------------------------------------
(* The theorems.                                                           *)

LEMMA ReplayInitial == ReplayInit => ReplayInv
<1>1. << >> \in Seq(Session) /\ Len(<< >>) = 0
  OBVIOUS
<1>2. QED
  BY <1>1 DEF ReplayInit, ReplayInv

\* A session more.
LEMMA SessionMore ==
    ASSUME ReplayInv, NEW s, Replayable(s), s.parent \in 0 .. Len(sessions),
           sessions' = Append(sessions, s)
    PROVE  ReplayInv'
<1>1. PICK m \in Nat : m = Len(sessions) /\ sessions \in Seq(Session)
  BY DEF ReplayInv
<1>2. s \in Session
  BY DEF Replayable
<1>3. /\ sessions' \in Seq(Session) /\ Len(sessions') = m + 1 /\ sessions'[m + 1] = s
      /\ \A n \in 1 .. m : sessions'[n] = sessions[n]
      /\ \A n \in 1 .. m + 1 : n = m + 1 \/ n \in 1 .. m
  BY <1>1, <1>2
<1>4. \A n \in 1 .. m : Replayable(sessions'[n]) /\ sessions'[n].parent \in 0 .. n - 1
  BY <1>1, <1>3 DEF ReplayInv
<1>5. Replayable(sessions'[m + 1]) /\ sessions'[m + 1].parent \in 0 .. (m + 1) - 1
  BY <1>1, <1>3
<1>6. \A n \in 1 .. m + 1 : Replayable(sessions'[n]) /\ sessions'[n].parent \in 0 .. n - 1
  BY <1>3, <1>4, <1>5
<1>7. QED
  BY <1>3, <1>6 DEF ReplayInv, Replayable

\* Another state of a session.
LEMMA SessionAnew ==
    ASSUME ReplayInv, NEW n \in 1 .. Len(sessions), NEW s, Replayable(s),
           s.parent = sessions[n].parent, sessions' = [sessions EXCEPT ![n] = s]
    PROVE  ReplayInv'
<1>1. PICK m \in Nat : m = Len(sessions) /\ sessions \in Seq(Session)
  BY DEF ReplayInv
<1>2. s \in Session
  BY DEF Replayable
<1>3. /\ sessions' \in Seq(Session) /\ Len(sessions') = m
      /\ \A x \in 1 .. m : sessions'[x] = IF x = n THEN s ELSE sessions[x]
  BY <1>1, <1>2
<1>4. \A x \in 1 .. m : Replayable(sessions'[x]) /\ sessions'[x].parent \in 0 .. x - 1
  BY <1>1, <1>3 DEF ReplayInv
<1>5. QED
  BY <1>3, <1>4 DEF ReplayInv, Replayable

\* What a step does to the sessions.
Created == \E mode \in {"review", "training"}, index \in 0 .. LastBar :
               sessions' = Append(sessions, create_record(mode, index))
Changed(n, s) ==
    /\ sessions' = [sessions EXCEPT ![n] = s] /\ Replayable(s) /\ s.parent = sessions[n].parent
    /\ s.mode = "training" => sessions[n].index <= s.index /\ IsPrefix(sessions[n].fills, s.fills)
    /\ s.mode = sessions[n].mode
Branched(n, to) ==
    /\ sessions[n].mode = "training" /\ to < sessions[n].index
    /\ sessions' = Append(sessions, Rewound(sessions[n], n, to))

LEMMA ReplayMoves ==
    ASSUME ReplayInv, ReplayNext
    PROVE  \/ Created
           \/ \E n \in 1 .. Len(sessions) : (\E s : Changed(n, s)) \/ \E to \in 0 .. LastBar : Branched(n, to)
<1>1. CASE create_replay_session
  BY <1>1 DEF create_replay_session, Created
<1>2. ASSUME NEW n \in DOMAIN sessions, Simulate(n) \/ Move(n)
      PROVE  (\E s : Changed(n, s)) \/ \E to \in 0 .. LastBar : Branched(n, to)
  <2>1. n \in 1 .. Len(sessions) /\ sessions \in Seq(Session)
    BY <1>2 DEF ReplayInv
  <2>2. PICK s : s = sessions[n] /\ Replayable(s)
    BY <2>1 DEF ReplayInv
  <2>3. s \in Session /\ s.index \in Int /\ s.fills \in Seq(FillType)
    BY <2>2, ReplayAssumption DEF Replayable, Session
  <2>4. IsPrefix(s.fills, s.fills) /\ s.index <= s.index
    BY <2>3 DEF IsPrefix
  <2>5. CASE Simulate(n)
    <3>1. PICK q \in Quantities : sessions' = [sessions EXCEPT ![n] = WithOrder(@, q)]
      BY <2>5 DEF Simulate
    <3>2. PICK t : t = WithOrder(s, q)
      OBVIOUS
    <3>3. Replayable(t) /\ t.parent = s.parent
      BY <2>2, <2>5, <3>2, OrderedIsReplayable DEF Simulate
    <3>4. t.mode = s.mode /\ t.fills = s.fills /\ t.index = s.index
      BY <2>3, <3>2 DEF WithOrder, Session
    <3>5. sessions' = [sessions EXCEPT ![n] = t]
      BY <2>1, <2>2, <3>1, <3>2
    <3>6. Changed(n, t)
      BY <2>2, <2>4, <3>3, <3>4, <3>5 DEF Changed
    <3>7. QED
      BY <3>6
  <2>6. CASE Move(n)
    <3>1. PICK to \in 0 .. LastBar :
             \/ s.mode = "review" /\ sessions' = [sessions EXCEPT ![n] = [s EXCEPT !.index = to]]
             \/ s.mode = "training" /\ to < s.index /\ Branch(n, Rewound(s, n, to))
             \/ /\ s.mode = "training" /\ to >= s.index
                /\ sessions' = [sessions EXCEPT ![n] = [_settle(s, to) EXCEPT !.index = to]]
      BY <2>2, <2>6 DEF Move
    <3>2. s.mode \in {"review", "training"} /\ to \in Int
      BY <2>3, ReplayAssumption DEF Session
    <3>3. CASE s.mode = "review"
      <4>1. PICK t : t = [s EXCEPT !.index = to]
        OBVIOUS
      <4>2. /\ t \in Session /\ t.mode = s.mode /\ t.index = to /\ t.parent = s.parent
            /\ t.orders = s.orders /\ t.fills = s.fills /\ t.cash = s.cash /\ t.position = s.position
        BY <2>3, <4>1 DEF Session
      <4>3. s.orders = << >> /\ s.fills = << >>
        BY <2>2, <3>3 DEF Replayable
      <4>4. << >> \in Seq(FillType) /\ Len(<< >>) = 0
        OBVIOUS
      <4>5. SoundFills(t.fills, t.index)
        BY <4>2, <4>3, <4>4 DEF SoundFills
      <4>6. Replayable(t)
        BY <2>2, <4>2, <4>3, <4>4, <4>5 DEF Replayable
      <4>7. sessions' = [sessions EXCEPT ![n] = t]
        BY <2>1, <2>2, <3>1, <3>3, <4>1
      <4>8. Changed(n, t)
        BY <2>2, <3>3, <4>2, <4>6, <4>7 DEF Changed
      <4>9. QED
        BY <4>8
    <3>4. CASE s.mode = "training" /\ to < s.index
      <4>1. sessions' = Append(sessions, Rewound(s, n, to))
        BY <2>3, <3>1, <3>2, <3>4 DEF Branch
      <4>2. Branched(n, to)
        BY <2>2, <3>4, <4>1 DEF Branched
      <4>3. QED
        BY <4>2
    <3>5. CASE s.mode = "training" /\ to >= s.index
      <4>1. PICK t : t = [_settle(s, to) EXCEPT !.index = to]
        OBVIOUS
      <4>2. sessions' = [sessions EXCEPT ![n] = t]
        BY <2>3, <3>1, <3>2, <3>5, <4>1
      <4>3. s.index <= to
        BY <2>3, <3>2, <3>5
      <4>4. Advanced(s, t, to)
        BY <2>2, <3>5, <4>1, <4>3, AdvancedIsReplayable
      <4>5. Changed(n, t)
        BY <2>2, <4>2, <4>3, <4>4 DEF Changed, Advanced
      <4>6. QED
        BY <4>5
    <3>6. QED
      BY <2>3, <3>2, <3>3, <3>4, <3>5
  <2>7. QED
    BY <1>2, <2>5, <2>6
<1>3. DOMAIN sessions = 1 .. Len(sessions)
  BY DEF ReplayInv
<1>4. QED
  BY <1>1, <1>2, <1>3 DEF ReplayNext

LEMMA ReplayStep == ReplayInv /\ [ReplayNext]_replayVars => ReplayInv'
<1> SUFFICES ASSUME ReplayInv, [ReplayNext]_replayVars PROVE ReplayInv'
  OBVIOUS
<1>1. CASE UNCHANGED replayVars
  BY <1>1 DEF replayVars, ReplayInv, Replayable
<1>2. CASE Created
  <2>1. PICK mode \in {"review", "training"}, index \in 0 .. LastBar :
           sessions' = Append(sessions, create_record(mode, index))
    BY <1>2 DEF Created
  <2>2. PICK s : s = create_record(mode, index) /\ Replayable(s) /\ s.parent = 0
    BY NewIsReplayable
  <2>3. s.parent \in 0 .. Len(sessions)
    BY <2>2 DEF ReplayInv
  <2>4. QED
    BY <2>1, <2>2, <2>3, SessionMore
<1>3. ASSUME NEW n \in 1 .. Len(sessions), NEW s, Changed(n, s) PROVE ReplayInv'
  BY <1>3, SessionAnew DEF Changed
<1>4. ASSUME NEW n \in 1 .. Len(sessions), NEW to \in 0 .. LastBar, Branched(n, to)
      PROVE  ReplayInv'
  <2>1. Replayable(sessions[n]) /\ n \in Nat
    BY DEF ReplayInv
  <2>2. PICK s : s = Rewound(sessions[n], n, to) /\ Replayable(s) /\ s.parent = n
    BY <1>4, <2>1, RewoundIsReplayable DEF Branched
  <2>3. s.parent \in 0 .. Len(sessions)
    BY <2>2 DEF ReplayInv
  <2>4. QED
    BY <1>4, <2>2, <2>3, SessionMore DEF Branched
<1>5. QED
  BY <1>1, <1>2, <1>3, <1>4, ReplayMoves

\* The inductive invariant of the bar replays.
THEOREM ReplayInvariant == ReplaySpec => []ReplayInv
<1>1. ReplayInit => ReplayInv
  BY ReplayInitial
<1>2. ReplayInv /\ [ReplayNext]_replayVars => ReplayInv'
  BY ReplayStep
<1>3. QED
  BY <1>1, <1>2, PTL DEF ReplaySpec

\* The state of the bar replays has its shape.
THEOREM ReplayTypeCorrect == ReplaySpec => []ReplayTypeOK
<1>1. ReplayInv => ReplayTypeOK
  <2> SUFFICES ASSUME ReplayInv, NEW n \in DOMAIN sessions
               PROVE  /\ sessions[n].mode \in {"review", "training"}
                      /\ sessions[n].index \in 0 .. LastBar /\ sessions[n].parent \in 0 .. n - 1
                      /\ \A o \in ToSet(sessions[n].orders) :
                          /\ o.at \in 0 .. LastBar - 1
                          /\ o.status \in {"pending", "filled", "rejected"}
    BY DEF ReplayTypeOK
  <2>1. n \in 1 .. Len(sessions) /\ sessions[n] \in Session /\ sessions[n].parent \in 0 .. n - 1
    BY DEF ReplayInv
  <2>2. sessions[n].orders \in Seq(OrderType)
    BY <2>1 DEF Session
  <2>3. \A o \in ToSet(sessions[n].orders) : o \in OrderType
    BY <2>2 DEF ToSet
  <2>4. QED
    BY <2>1, <2>3 DEF Session, OrderType
<1>2. QED
  BY <1>1, ReplayInvariant, PTL

\* The account of a training is at any time what its fills make of the initial
\* capital, each of them affordable and of a revealed bar, and what is pending waits
\* for the next one (_settle, apply_action).
THEOREM AccountStaysReplayable == ReplaySpec => []AccountIsReplayable
<1>1. ReplayInv => AccountIsReplayable
  <2> SUFFICES ASSUME ReplayInv, NEW n \in DOMAIN sessions, NEW s, s = sessions[n]
               PROVE  /\ Account(s.cash, s.position) = AccountAfter(s.fills)
                      /\ \A k \in DOMAIN s.fills :
                          /\ AccountAfter(SubSeq(s.fills, 1, k)).cash >= 0
                          /\ -AccountAfter(SubSeq(s.fills, 1, k)).position * s.fills[k].price
                                <= InitialCash
                          /\ s.fills[k].index <= s.index
                          /\ s.fills[k].price = OpenPrice[s.fills[k].index]
                          /\ k > 1 => s.fills[k - 1].index <= s.fills[k].index
                      /\ \A o \in ToSet(s.orders) : o.status = "pending" => o.at = s.index
    BY DEF AccountIsReplayable
  <2>1. Replayable(s)
    BY DEF ReplayInv
  <2>2. DOMAIN s.fills = 1 .. Len(s.fills) /\ Len(s.fills) \in Nat
    BY <2>1 DEF Replayable, Session
  <2>3. \A k \in 1 .. Len(s.fills) :
            /\ AccountAfter(SubSeq(s.fills, 1, k)).cash >= 0
            /\ -AccountAfter(SubSeq(s.fills, 1, k)).position * s.fills[k].price <= InitialCash
            /\ s.fills[k].index <= s.index /\ s.fills[k].price = OpenPrice[s.fills[k].index]
    BY <2>1 DEF Replayable, SoundFills, Afforded
  <2>4. \A k \in 1 .. Len(s.fills) : k > 1 => s.fills[k - 1].index <= s.fills[k].index
    <3>1. \A k \in 1 .. Len(s.fills) : k > 1 => k - 1 \in 1 .. Len(s.fills) /\ k - 1 <= k
      BY <2>2
    <3>2. QED
      BY <2>1, <3>1 DEF Replayable, SoundFills
  <2>5. \A o \in ToSet(s.orders) : o.status = "pending" => o.at = s.index
    <3>1. s.orders \in Seq(OrderType)
      BY <2>1 DEF Replayable, Session
    <3>2. \A o \in ToSet(s.orders) : \E i \in 1 .. Len(s.orders) : o = s.orders[i]
      BY <3>1 DEF ToSet
    <3>3. QED
      BY <2>1, <3>2 DEF Replayable
  <2>6. QED
    BY <2>1, <2>2, <2>3, <2>4, <2>5 DEF Replayable
<1>2. QED
  BY <1>1, ReplayInvariant, PTL

\* No step of a replay rewrites an experiment, and a branch begins with the fills its
\* parent had up to its bar (apply_action).
THEOREM ExperimentsGrow == ReplaySpec => ExperimentsOnlyGrow
<1> DEFINE Grows ==
       /\ \A n \in DOMAIN sessions : sessions[n].mode = "training" =>
            /\ sessions[n].index <= sessions'[n].index
            /\ IsPrefix(sessions[n].fills, sessions'[n].fills)
       /\ \A n \in DOMAIN sessions' \ DOMAIN sessions : sessions'[n].parent # 0 =>
            LET s == sessions'[n] IN
            s.fills = FilledBy(sessions[s.parent], s.index)
<1>1. ReplayInv /\ [ReplayNext]_replayVars => [Grows]_sessions
  <2> SUFFICES ASSUME ReplayInv, ReplayNext PROVE Grows
    BY DEF replayVars
  <2>1. PICK m \in Nat : /\ m = Len(sessions) /\ DOMAIN sessions = 1 .. m /\ sessions \in Seq(Session)
                        /\ \A n \in 1 .. m : sessions[n] \in Session
    <3>1. sessions \in Seq(Session)
      BY DEF ReplayInv
    <3>2. QED
      BY <3>1
  <2>2. \A n \in 1 .. m : /\ sessions[n].index <= sessions[n].index
                          /\ IsPrefix(sessions[n].fills, sessions[n].fills)
    <3>1. \A n \in 1 .. m : sessions[n].index \in 0 .. LastBar /\ sessions[n].fills \in Seq(FillType)
      BY <2>1 DEF Session
    <3>2. \A x \in 0 .. LastBar : x <= x
      BY ReplayAssumption
    <3>3. \A fs \in Seq(FillType) : IsPrefix(fs, fs)
      BY DEF IsPrefix
    <3>4. QED
      BY <3>1, <3>2, <3>3
  <2>3. ASSUME NEW s \in Session, sessions' = Append(sessions, s),
               s.parent # 0 => s.fills = FilledBy(sessions[s.parent], s.index)
        PROVE  Grows
    <3>1. /\ DOMAIN sessions' = 1 .. m + 1 /\ sessions'[m + 1] = s
          /\ \A n \in 1 .. m : sessions'[n] = sessions[n]
          /\ \A n \in 1 .. m + 1 : n = m + 1 \/ n \in 1 .. m
      BY <2>1, <2>3
    <3>2. QED
      BY <2>1, <2>2, <2>3, <3>1
  <2>4. CASE Created
    <3>1. PICK mode \in {"review", "training"}, index \in 0 .. LastBar :
             sessions' = Append(sessions, create_record(mode, index))
      BY <2>4 DEF Created
    <3>2. create_record(mode, index) \in Session /\ create_record(mode, index).parent = 0
      BY NewIsReplayable DEF Replayable
    <3> HIDE DEF Grows
    <3>3. QED
      BY <2>3, <3>1, <3>2
  <2>5. ASSUME NEW n \in 1 .. m, NEW s, Changed(n, s) PROVE Grows
    <3>1. /\ DOMAIN sessions' = 1 .. m
          /\ \A x \in 1 .. m : sessions'[x] = IF x = n THEN s ELSE sessions[x]
      BY <2>1, <2>5 DEF Changed
    <3>2. \A x \in 1 .. m : sessions[x].mode = "training" =>
            sessions[x].index <= sessions'[x].index /\ IsPrefix(sessions[x].fills, sessions'[x].fills)
      BY <2>2, <2>5, <3>1 DEF Changed
    <3>3. QED
      BY <2>1, <3>1, <3>2
  <2>6. ASSUME NEW n \in 1 .. m, NEW to \in 0 .. LastBar, Branched(n, to) PROVE Grows
    <3>1. Replayable(sessions[n]) /\ n \in Nat
      BY <2>1 DEF ReplayInv
    <3>2. PICK s : s = Rewound(sessions[n], n, to)
      OBVIOUS
    <3>3. s \in Session /\ s.parent = n
      BY <2>6, <3>1, <3>2, RewoundIsReplayable DEF Branched, Replayable
    <3>4. s.index = to /\ s.fills = FilledBy(sessions[n], to)
      BY <3>1, <3>2 DEF Rewound, Replayable, Session
    <3>5. sessions' = Append(sessions, s)
      BY <2>6, <3>2 DEF Branched
    <3> HIDE DEF Grows
    <3>6. QED
      BY <2>3, <3>3, <3>4, <3>5
  <2> HIDE DEF Grows
  <2>7. QED
    BY <2>1, <2>4, <2>5, <2>6, ReplayMoves
<1>2. QED
  BY <1>1, ReplayInvariant, PTL DEF ReplaySpec, ExperimentsOnlyGrow

-----------------------------------------------------------------------------
(* The backtest, for series of any length, any strategies, fees and slips. *)
(* Sums and means first.                                                   *)

SumOf(f, S) == MapThenSumSet(LAMBDA j : f[j], S)

\* The sum over equal amounts is one and the same, and there is one.
LEMMA SumSame ==
    ASSUME NEW S, NEW f, NEW h, \A x \in S : f[x] = h[x]
    PROVE  SumOf(f, S) = SumOf(h, S)
<1> DEFINE F(k) == [s \in SUBSET S |->
                       IF s = {} THEN 0
                       ELSE f[CHOOSE x \in s : TRUE] + k[s \ {CHOOSE x \in s : TRUE}]]
           H(k) == [s \in SUBSET S |->
                       IF s = {} THEN 0
                       ELSE h[CHOOSE x \in s : TRUE] + k[s \ {CHOOSE x \in s : TRUE}]]
<1>1. ASSUME NEW k PROVE F(k) = H(k)
  <2>1. \A s \in SUBSET S : s # {} => (CHOOSE x \in s : TRUE) \in S
    OBVIOUS
  <2>2. \A s \in SUBSET S : s # {} => f[CHOOSE x \in s : TRUE] = h[CHOOSE x \in s : TRUE]
    BY <2>1
  <2>3. QED
    BY <2>2
<1>2. PICK p : p = CHOOSE k : k = F(k)
  OBVIOUS
<1>3. PICK q : q = CHOOSE k : k = H(k)
  OBVIOUS
<1>4. SumOf(f, S) = p[S]
  BY <1>2 DEF SumOf, MapThenSumSet, MapThenFoldSet
<1>5. SumOf(h, S) = q[S]
  BY <1>3 DEF SumOf, MapThenSumSet, MapThenFoldSet
<1> HIDE DEF F, H
<1>6. p = q
  BY <1>1, <1>2, <1>3
<1>7. QED
  BY <1>4, <1>5, <1>6

LEMMA SumIsWhole ==
    ASSUME NEW S, IsFiniteSet(S), NEW f, \A x \in S : f[x] \in Int
    PROVE  SumOf(f, S) \in Int
<1> DEFINE F(k) == [s \in SUBSET S |->
                       IF s = {} THEN 0
                       ELSE f[CHOOSE x \in s : TRUE] + k[s \ {CHOOSE x \in s : TRUE}]]
           pick == [T \in SUBSET S |-> CHOOSE x \in T : TRUE]
           take == [T \in SUBSET S |-> [v \in Int |-> f[pick[T]] + v]]
<1>1. \A T \in SUBSET S : T # {} => pick[T] \in T
  OBVIOUS
<1>2. \A T \in SUBSET S : \A v \in Int : take[T][v] = f[pick[T]] + v
  OBVIOUS
<1>3. \A T \in SUBSET S : T # {} => \A v \in Int : take[T][v] \in Int
  <2> SUFFICES ASSUME NEW T \in SUBSET S, T # {}, NEW v \in Int PROVE take[T][v] \in Int
    OBVIOUS
  <2>1. f[pick[T]] \in Int
    BY <1>1
  <2>2. QED
    BY <1>2, <2>1
<1>4. \A T \in SUBSET S : pick[T] = CHOOSE x \in T : TRUE
  OBVIOUS
<1> HIDE DEF pick, take
<1>5. PICK g \in [SUBSET S -> Int] : IsFold(g, S, 0, pick, take)
  <2>1. PICK V : V = Int
    OBVIOUS
  <2>2. PICK zero \in V : zero = 0
    BY <2>1
  <2>3. \A T \in SUBSET S : T # {} => \A v \in V : take[T][v] \in V
    BY <1>3, <2>1
  <2>4. \E g \in [SUBSET S -> V] : IsFold(g, S, zero, pick, take)
    BY <1>1, <2>3, FoldExists
  <2>5. QED
    BY <2>1, <2>2, <2>4
<1>6. ASSUME NEW T \in SUBSET S
      PROVE  g[T] = IF T = {} THEN 0 ELSE f[pick[T]] + g[T \ {pick[T]}]
  <2>1. T # {} => g[T] = take[T][g[T \ {pick[T]}]]
    BY <1>5 DEF IsFold
  <2>2. g[T \ {pick[T]}] \in Int /\ g[{}] = 0
    BY <1>5 DEF IsFold
  <2>3. QED
    BY <1>2, <2>1, <2>2
<1>7. g = F(g)
  BY <1>4, <1>5, <1>6
<1>8. PICK p : p = CHOOSE k : k = F(k)
  OBVIOUS
<1>9. p = F(p)
  <2> HIDE DEF F
  <2>1. \E k : k = F(k)
    BY <1>7
  <2>2. QED
    BY <1>8, <2>1, Zenon
<1>10. SumOf(f, S) = p[S]
  BY <1>8 DEF SumOf, MapThenSumSet, MapThenFoldSet
<1>11. IsSum(p, f, S) /\ IsSum(g, f, S)
  <2>1. IsSum(p, f, S)
    BY <1>9 DEF IsSum
  <2> HIDE DEF F
  <2>2. IsSum(g, f, S)
    BY <1>4, <1>6 DEF IsSum
  <2>3. QED
    BY <2>1, <2>2
<1>12. p[S] = g[S]
  <2> HIDE DEF F
  <2>1. \A T \in SUBSET S : p[T] = g[T]
    BY <1>11, SumIsOne
  <2>2. QED
    BY <2>1
<1>13. QED
  BY <1>5, <1>10, <1>12

LEMMA Quotient ==
    ASSUME NEW x \in Int, NEW y \in Nat \ {0}
    PROVE  x \div y \in Int
  OBVIOUS

LEMMA MeanSame ==
    ASSUME NEW S, IsFiniteSet(S), NEW f, NEW h, \A x \in S : f[x] \in Int /\ f[x] = h[x],
           NEW n \in Nat \ {0}
    PROVE  Mean(f, S, n) = Mean(h, S, n) /\ Mean(f, S, n) \in Int
<1>1. PICK total \in Int : total = SumOf(f, S)
  BY SumIsWhole
<1>2. SumOf(f, S) = SumOf(h, S)
  BY SumSame
<1>3. Mean(f, S, n) = total \div n /\ Mean(h, S, n) = total \div n
  BY <1>1, <1>2 DEF Mean, SumOf
<1>4. total \div n \in Int
  BY Quotient
<1>5. QED
  BY <1>3, <1>4

-----------------------------------------------------------------------------
(* Smoothing: a recursion over the bars, which has a value at each bar, and *)
(* one that depends on the bars up to it only.                             *)

LEMMA WeightedType ==
    ASSUME NEW old \in Int, NEW new \in Int, NEW n \in Nat \ {0}, NEW w \in Nat \ {0}
    PROVE  Weighted(old, new, n, w) \in Int
<1>1. PICK a \in Int, b \in Int, c \in Nat \ {0} :
          a = old * (n - 1) /\ b = new * w /\ c = n - 1 + w
  <2>1. old * (n - 1) \in Int /\ new * w \in Int /\ n - 1 + w \in Nat \ {0}
    OBVIOUS
  <2>2. QED
    BY <2>1
<1>2. Weighted(old, new, n, w) = (a + b) \div c
  BY <1>1 DEF Weighted
<1>3. a + b \in Int
  OBVIOUS
<1>4. QED
  BY <1>2, <1>3, Quotient

\* What smoothing makes of f, bar by bar.
IsSmoothing(run, f, n, w, m) ==
    /\ run[n - 1] = Mean(f, 0 .. n - 1, n)
    /\ \A j \in n .. m : run[j] = Weighted(run[j - 1], f[j], n, w)

LEMMA SmoothingExists ==
    ASSUME NEW m \in Int, NEW f, \A j \in 0 .. m : f[j] \in Int,
           NEW n \in Nat \ {0}, NEW w \in Nat \ {0}, n - 1 <= m
    PROVE  \E run \in [n - 1 .. m -> Int] : IsSmoothing(run, f, n, w, m)
<1>1. PICK count \in Nat : count = m - n + 1
  OBVIOUS
<1>2. PICK base \in Int : base = Mean(f, 0 .. n - 1, n)
  <2>1. IsFiniteSet(0 .. n - 1)
    BY FS_Interval
  <2>2. \A x \in 0 .. n - 1 : f[x] \in Int /\ f[x] = f[x]
    OBVIOUS
  <2>3. QED
    BY <2>1, <2>2, MeanSame
<1> DEFINE steps == [k \in 1 .. count |-> [v \in Int |-> Weighted(v, f[n - 1 + k], n, w)]]
<1>3. \A k \in 1 .. count : \A v \in Int :
          steps[k][v] = Weighted(v, f[n - 1 + k], n, w) /\ steps[k][v] \in Int
  <2>1. \A k \in 1 .. count : f[n - 1 + k] \in Int
    BY <1>1
  <2>2. \A k \in 1 .. count : \A v \in Int : Weighted(v, f[n - 1 + k], n, w) \in Int
    BY <2>1, WeightedType
  <2>3. QED
    BY <2>2
<1> HIDE DEF steps
<1>4. PICK g \in [SUBSET (1 .. count) -> Int] : IsLeftFold(g, count, base, steps)
  BY <1>3, LeftFoldExists
<1>5. g[{}] = base
  BY <1>4 DEF IsLeftFold
<1>6. ASSUME NEW k \in 1 .. count
      PROVE  g[1 .. k] = Weighted(g[1 .. (k - 1)], f[n - 1 + k], n, w)
  <2>1. /\ 1 .. k \in SUBSET (1 .. count) /\ 1 .. k # {}
        /\ Max(1 .. k) = k /\ (1 .. k) \ {Max(1 .. k)} = 1 .. (k - 1)
    BY InitialIndices
  <2>2. g[1 .. k] = steps[k][g[1 .. (k - 1)]]
    BY <1>4, <2>1 DEF IsLeftFold
  <2>3. 1 .. (k - 1) \in SUBSET (1 .. count)
    BY <2>1
  <2>4. g[1 .. (k - 1)] \in Int
    BY <1>4, <2>3
  <2>5. QED
    BY <1>3, <2>2, <2>4
<1> DEFINE run == [j \in n - 1 .. m |-> g[1 .. (j - n + 1)]]
<1>7. \A j \in n - 1 .. m : run[j] = g[1 .. (j - n + 1)]
  OBVIOUS
<1>8. run \in [n - 1 .. m -> Int]
  <2>1. \A j \in n - 1 .. m : 1 .. (j - n + 1) \in SUBSET (1 .. count)
    BY <1>1
  <2>2. \A j \in n - 1 .. m : g[1 .. (j - n + 1)] \in Int
    BY <1>4, <2>1
  <2>3. QED
    BY <2>2
<1> HIDE DEF run
<1>9. run[n - 1] = base
  <2>1. n - 1 \in n - 1 .. m /\ 1 .. ((n - 1) - n + 1) = {}
    OBVIOUS
  <2>2. QED
    BY <1>5, <1>7, <2>1
<1>10. ASSUME NEW j \in n .. m PROVE run[j] = Weighted(run[j - 1], f[j], n, w)
  <2>1. PICK k \in 1 .. count : k = j - n + 1
    BY <1>1
  <2>2. j \in n - 1 .. m /\ j - 1 \in n - 1 .. m /\ (j - 1) - n + 1 = k - 1 /\ n - 1 + k = j
    BY <2>1
  <2>3. run[j] = g[1 .. k] /\ run[j - 1] = g[1 .. (k - 1)]
    BY <1>7, <2>1, <2>2
  <2>4. QED
    BY <1>6, <2>2, <2>3
<1>11. IsSmoothing(run, f, n, w, m)
  BY <1>2, <1>9, <1>10 DEF IsSmoothing
<1>12. QED
  BY <1>8, <1>11

LEMMA SmoothedRuns ==
    ASSUME NEW m \in Int, NEW f, DOMAIN f = 0 .. m, \A j \in 0 .. m : f[j] \in Int,
           NEW n \in Nat \ {0}, NEW w \in Nat \ {0}, n - 1 <= m
    PROVE  \E run : /\ IsSmoothing(run, f, n, w, m)
                    /\ \A i \in n - 1 .. m : Smoothed(f, n, w, i) = run[i]
<1> DEFINE F(v) == [j \in {j \in DOMAIN f : j >= n - 1} |->
                       IF j = n - 1 THEN Mean(f, 0 .. n - 1, n)
                       ELSE Weighted(v[j - 1], f[j], n, w)]
<1>1. {j \in DOMAIN f : j >= n - 1} = n - 1 .. m
  OBVIOUS
<1>2. PICK run \in [n - 1 .. m -> Int] : IsSmoothing(run, f, n, w, m)
  BY SmoothingExists
<1>3. run = F(run)
  <2>1. \A j \in n - 1 .. m : j = n - 1 \/ j \in n .. m
    OBVIOUS
  <2>2. ASSUME NEW j \in n - 1 .. m
        PROVE  run[j] = IF j = n - 1 THEN Mean(f, 0 .. n - 1, n) ELSE Weighted(run[j - 1], f[j], n, w)
    BY <1>2, <2>1 DEF IsSmoothing
  <2>3. QED
    BY <1>1, <1>2, <2>2
<1>4. PICK p : p = CHOOSE v : v = F(v)
  OBVIOUS
<1>5. p = F(p)
  <2> HIDE DEF F
  <2>1. \E v : v = F(v)
    BY <1>3
  <2>2. QED
    BY <1>4, <2>1, Zenon
<1>6. \A i \in n - 1 .. m : Smoothed(f, n, w, i) = p[i]
  BY <1>4 DEF Smoothed
<1>7. IsSmoothing(p, f, n, w, m)
  <2>1. \A j \in n - 1 .. m : p[j] = IF j = n - 1 THEN Mean(f, 0 .. n - 1, n) ELSE Weighted(p[j - 1], f[j], n, w)
    BY <1>1, <1>5
  <2>2. n - 1 \in n - 1 .. m /\ \A j \in n .. m : j \in n - 1 .. m /\ j # n - 1
    OBVIOUS
  <2>3. QED
    BY <2>1, <2>2 DEF IsSmoothing
<1>8. QED
  BY <1>6, <1>7

\* Two sequences of amounts that agree up to i, where smoothing them has a value.
Comparable(f, h, n, m, i) ==
    /\ m \in Int /\ n \in Nat \ {0} /\ i \in n - 1 .. m
    /\ DOMAIN f = 0 .. m /\ DOMAIN h = 0 .. m
    /\ \A j \in 0 .. m : f[j] \in Int /\ h[j] \in Int
    /\ \A j \in 0 .. i : f[j] = h[j]

\* The value at a bar is made of the values up to it.
LEMMA SmoothingSame ==
    ASSUME NEW f, NEW h, NEW n, NEW m, NEW i, Comparable(f, h, n, m, i), NEW w \in Nat \ {0}
    PROVE  Smoothed(f, n, w, i) = Smoothed(h, n, w, i) /\ Smoothed(f, n, w, i) \in Int
<1> USE DEF Comparable
<1>0. n - 1 <= m
  OBVIOUS
<1>1. PICK run : /\ IsSmoothing(run, f, n, w, m)
                 /\ \A k \in n - 1 .. m : Smoothed(f, n, w, k) = run[k]
  BY <1>0, SmoothedRuns
<1>2. PICK walk : /\ IsSmoothing(walk, h, n, w, m)
                  /\ \A k \in n - 1 .. m : Smoothed(h, n, w, k) = walk[k]
  <2>1. m \in Int /\ n \in Nat \ {0} /\ n - 1 <= m /\ DOMAIN h = 0 .. m
    BY <1>0
  <2>2. \A j \in 0 .. m : h[j] \in Int
    OBVIOUS
  <2> HIDE DEF Comparable
  <2>3. QED
    BY <2>1, <2>2, SmoothedRuns
<1>3. PICK count \in Nat : count = i - n + 1
  OBVIOUS
<1> DEFINE Alike == {k \in 0 .. count : run[n - 1 + k] = walk[n - 1 + k] /\ run[n - 1 + k] \in Int}
<1>4. 0 \in Alike
  <2>0. PICK S : S = 0 .. n - 1
    OBVIOUS
  <2>1. IsFiniteSet(S)
    BY <2>0, FS_Interval
  <2>2. \A x \in S : f[x] \in Int /\ f[x] = h[x]
    <3>1. \A x \in 0 .. n - 1 : x \in 0 .. i /\ x \in 0 .. m
      OBVIOUS
    <3>2. QED
      BY <2>0, <3>1
  <2>9. Mean(f, S, n) = Mean(h, S, n) /\ Mean(f, S, n) \in Int
    BY <2>1, <2>2, MeanSame
  <2>3. Mean(f, 0 .. n - 1, n) = Mean(h, 0 .. n - 1, n) /\ Mean(f, 0 .. n - 1, n) \in Int
    BY <2>0, <2>9
  <2>4. run[n - 1] = walk[n - 1] /\ run[n - 1] \in Int
    BY <1>1, <1>2, <2>3 DEF IsSmoothing
  <2>5. n - 1 + 0 = n - 1 /\ 0 \in 0 .. count
    OBVIOUS
  <2>6. QED
    BY <2>4, <2>5
<1>5. ASSUME NEW k \in 1 .. count, k - 1 \in Alike PROVE k \in Alike
  <2>1. PICK j \in n .. m : j = n - 1 + k /\ j \in 0 .. i
    BY <1>3
  <2>2. n - 1 + (k - 1) = j - 1
    BY <2>1
  <2>3. run[j - 1] = walk[j - 1] /\ run[j - 1] \in Int
    BY <1>5, <2>2
  <2>4. run[j] = Weighted(run[j - 1], f[j], n, w) /\ walk[j] = Weighted(walk[j - 1], h[j], n, w)
    BY <1>1, <1>2 DEF IsSmoothing
  <2>5. f[j] = h[j] /\ f[j] \in Int
    BY <2>1
  <2>6. run[j] = walk[j] /\ run[j] \in Int
    BY <2>3, <2>4, <2>5, WeightedType
  <2>7. k \in 0 .. count
    OBVIOUS
  <2>8. QED
    BY <2>1, <2>6, <2>7
<1> HIDE DEF Alike
<1>6. count \in Alike
  <2>1. \A k \in 0 .. count : k \in Alike
    BY <1>4, <1>5, IndexInduction
  <2>2. QED
    BY <2>1
<1>7. run[i] = walk[i] /\ run[i] \in Int
  <2>1. n - 1 + count = i
    BY <1>3
  <2>2. QED
    BY <1>6, <2>1 DEF Alike
<1>8. QED
  BY <1>1, <1>2, <1>7

-----------------------------------------------------------------------------
(* Indicators: what they are at a bar is made of the bars up to it.        *)

Series == [Index -> Shape]

Agrees(s, t, i) == \A j \in 0 .. i : s[j] = t[j]

LEMMA IndexFacts ==
    /\ Index = 0 .. BarCount - 1 /\ BarCount \in Nat /\ IsFiniteSet(Index)
    /\ \A i \in Index : i \in Int /\ i <= BarCount - 1 /\ 0 .. i \subseteq Index
<1>1. BarCount \in Nat
  BY BacktestAssumption
<1>2. IsFiniteSet(0 .. BarCount - 1)
  BY <1>1, FS_Interval
<1>3. QED
  BY <1>1, <1>2 DEF Index

LEMMA BarFacts ==
    ASSUME NEW s \in Series, NEW j \in Index
    PROVE  /\ \A part \in Source : s[j][part] \in Int
           /\ s[j].high \in Int /\ s[j].low \in Int /\ s[j].close \in Int /\ s[j].open \in Int
           /\ Covered => s[j].open >= 0 /\ s[j].close >= 0
<1>1. PICK b \in Shape : b = s[j]
  BY DEF Series
<1>2. b \in [Source -> Int]
  BY BacktestAssumption
<1>3. \A part \in Source : b[part] \in Int
  BY <1>2
<1>4. b.open \in Int /\ b.high \in Int /\ b.low \in Int /\ b.close \in Int
  BY <1>3 DEF Source
<1>5. Covered => b.open >= 0 /\ b.close >= 0
  BY DEF Covered
<1>6. QED
  BY <1>1, <1>3, <1>4, <1>5

LEMMA LargestOfThree ==
    ASSUME NEW x \in Int, NEW y \in Int, NEW z \in Int
    PROVE  Max({x, y, z}) \in Int
<1>1. \E v \in {x, y, z} : \A u \in {x, y, z} : v >= u
  <2>1. CASE x >= y /\ x >= z
    BY <2>1
  <2>2. CASE y >= x /\ y >= z
    BY <2>2
  <2>3. CASE z >= x /\ z >= y
    BY <2>3
  <2>4. QED
    BY <2>1, <2>2, <2>3
<1>2. Max({x, y, z}) \in {x, y, z}
  BY <1>1, Zenon DEF Max
<1>3. QED
  BY <1>2

LEMMA PairBounds ==
    ASSUME NEW x \in Int, NEW y \in Int
    PROVE  /\ Max({x, y}) \in {x, y} /\ Max({x, y}) >= x /\ Max({x, y}) >= y
           /\ Min({x, y}) \in {x, y} /\ Min({x, y}) <= x /\ Min({x, y}) <= y
<1>1. \E v \in {x, y} : \A z \in {x, y} : v >= z
  <2>1. CASE x >= y
    BY <2>1
  <2>2. CASE y >= x
    BY <2>2
  <2>3. QED
    BY <2>1, <2>2
<1>2. \E v \in {x, y} : \A z \in {x, y} : v <= z
  <2>1. CASE x >= y
    BY <2>1
  <2>2. CASE y >= x
    BY <2>2
  <2>3. QED
    BY <2>1, <2>2
<1>3. Max({x, y}) \in {x, y} /\ \A z \in {x, y} : Max({x, y}) >= z
  BY <1>1, Zenon DEF Max
<1>4. Min({x, y}) \in {x, y} /\ \A z \in {x, y} : Min({x, y}) <= z
  BY <1>2, Zenon DEF Min
<1>5. QED
  BY <1>3, <1>4

LEMMA PositivePart ==
    ASSUME NEW x \in Int
    PROVE  Max({x, 0}) \in Nat
<1>1. PICK y \in Int : y = 0
  OBVIOUS
<1>2. Max({x, y}) \in {x, y} /\ Max({x, y}) >= y
  BY PairBounds
<1>3. QED
  BY <1>1, <1>2

LEMMA TrueRangeType ==
    ASSUME NEW s \in Series, NEW i \in Index
    PROVE  _true_range(s, i) \in Int
<1>1. PICK high \in Int, low \in Int : high = s[i].high /\ low = s[i].low
  BY BarFacts
<1>2. CASE i = 0
  BY <1>1, <1>2 DEF _true_range
<1>3. CASE i # 0
  <2>1. i - 1 \in Index
    BY <1>3, IndexFacts
  <2>2. PICK last \in Int : last = s[i - 1].close
    BY <2>1, BarFacts
  <2>3. PICK x \in Int, y \in Int, z \in Int :
            x = high - low /\ y = Abs(high - last) /\ z = Abs(low - last)
    <3>1. high - low \in Int /\ Abs(high - last) \in Int /\ Abs(low - last) \in Int
      BY DEF Abs
    <3>2. QED
      BY <3>1
  <2>4. _true_range(s, i) = Max({x} \cup {y, z})
    <3>1. {Abs(v) : v \in {high - last, low - last}} = {y, z}
      BY <2>3
    <3>2. QED
      BY <1>1, <1>3, <2>2, <2>3, <3>1 DEF _true_range
  <2>5. {x} \cup {y, z} = {x, y, z}
    OBVIOUS
  <2>6. QED
    BY <2>4, <2>5, LargestOfThree
<1>4. QED
  BY <1>2, <1>3

LEMMA TrueRangeSame ==
    ASSUME NEW s \in Series, NEW t \in Series, NEW i \in Index, Agrees(s, t, i),
           NEW j \in 0 .. i
    PROVE  _true_range(s, j) = _true_range(t, j)
<1>1. s[j] = t[j] /\ (j # 0 => s[j - 1] = t[j - 1])
  BY IndexFacts DEF Agrees
<1>2. QED
  BY <1>1 DEF _true_range

LEMMA WilderSame ==
    ASSUME NEW f, NEW h, NEW n, NEW m, NEW i, Comparable(f, h, n, m, i)
    PROVE  Wilder(f, n, i) = Wilder(h, n, i) /\ Wilder(f, n, i) \in Int
  BY SmoothingSame DEF Wilder

LEMMA EmaSame ==
    ASSUME NEW f, NEW h, NEW n, NEW m, NEW i, Comparable(f, h, n, m, i)
    PROVE  _ema(f, n, i) = _ema(h, n, i)
  BY SmoothingSame DEF _ema

LEMMA AtrSame ==
    ASSUME NEW s \in Series, NEW t \in Series, NEW i \in Index, Agrees(s, t, i),
           NEW n \in Nat \ {0}, i >= n - 1
    PROVE  _atr(s, n, i) = _atr(t, n, i) /\ _atr(s, n, i) \in Int
<1>1. PICK m \in Int : m = BarCount - 1 /\ Index = 0 .. m
  BY IndexFacts
<1> DEFINE f == [j \in Index |-> _true_range(s, j)]
           h == [j \in Index |-> _true_range(t, j)]
<1>2. DOMAIN f = 0 .. m /\ \A j \in 0 .. m : f[j] \in Int
  BY <1>1, TrueRangeType
<1>3. DOMAIN h = 0 .. m /\ \A j \in 0 .. m : h[j] \in Int
  BY <1>1, TrueRangeType
<1>4. \A j \in 0 .. i : f[j] = h[j]
  BY IndexFacts, TrueRangeSame
<1>5. i \in n - 1 .. m
  BY <1>1, IndexFacts
<1>6. _atr(s, n, i) = Wilder(f, n, i) /\ _atr(t, n, i) = Wilder(h, n, i)
  BY DEF _atr
<1> HIDE DEF f, h
<1>7. Wilder(f, n, i) = Wilder(h, n, i) /\ Wilder(f, n, i) \in Int
  <2>1. Comparable(f, h, n, m, i)
    BY <1>2, <1>3, <1>4, <1>5 DEF Comparable
  <2>2. QED
    BY <2>1, WilderSame
<1>8. QED
  BY <1>6, <1>7

LEMMA RsiSame ==
    ASSUME NEW f \in [Index -> Int], NEW h \in [Index -> Int], NEW n \in Nat \ {0},
           NEW i \in Index, i >= n, \A j \in 0 .. i : f[j] = h[j]
    PROVE  _rsi(f, n, i) = _rsi(h, n, i)
<1>1. PICK m \in Int : m = BarCount - 2
  BY IndexFacts
<1> DEFINE F(sign) == [j \in 0 .. BarCount - 2 |-> Max({sign * (f[j + 1] - f[j]), 0})]
           H(sign) == [j \in 0 .. BarCount - 2 |-> Max({sign * (h[j + 1] - h[j]), 0})]
<1>2. \A j \in 0 .. m : j \in Index /\ j + 1 \in Index
  BY <1>1, IndexFacts
<1>3. i - 1 \in n - 1 .. m /\ i \in Nat
  BY <1>1, IndexFacts
<1>4. ASSUME NEW sign \in {1, -1}
      PROVE  Wilder(F(sign), n, i - 1) = Wilder(H(sign), n, i - 1)
  <2>1. PICK a : a = F(sign)
    OBVIOUS
  <2>2. PICK b : b = H(sign)
    OBVIOUS
  <2>3. DOMAIN a = 0 .. m /\ DOMAIN b = 0 .. m
    BY <1>1, <2>1, <2>2
  <2>4. \A j \in 0 .. m : a[j] \in Int
    <3>1. SUFFICES ASSUME NEW j \in 0 .. m PROVE a[j] \in Int
      OBVIOUS
    <3>2. PICK x \in Int : x = sign * (f[j + 1] - f[j])
      BY <1>2
    <3>3. a[j] = Max({x, 0})
      BY <1>1, <2>1, <3>2
    <3>4. QED
      BY <3>3, PositivePart
  <2>5. \A j \in 0 .. m : b[j] \in Int
    <3>1. SUFFICES ASSUME NEW j \in 0 .. m PROVE b[j] \in Int
      OBVIOUS
    <3>2. PICK x \in Int : x = sign * (h[j + 1] - h[j])
      BY <1>2
    <3>3. b[j] = Max({x, 0})
      BY <1>1, <2>2, <3>2
    <3>4. QED
      BY <3>3, PositivePart
  <2>6. \A j \in 0 .. i - 1 : a[j] = b[j]
    <3>1. SUFFICES ASSUME NEW j \in 0 .. i - 1 PROVE a[j] = b[j]
      OBVIOUS
    <3>2. j \in 0 .. m /\ f[j] = h[j] /\ f[j + 1] = h[j + 1]
      BY <1>3
    <3>3. QED
      BY <1>1, <2>1, <2>2, <3>2
  <2>7. Wilder(a, n, i - 1) = Wilder(b, n, i - 1)
    <3>1. Comparable(a, b, n, m, i - 1)
      BY <1>3, <2>3, <2>4, <2>5, <2>6 DEF Comparable
    <3>2. QED
      BY <3>1, WilderSame
  <2>8. QED
    BY <2>1, <2>2, <2>7
<1>5. Wilder(F(1), n, i - 1) = Wilder(H(1), n, i - 1) /\ Wilder(F(-1), n, i - 1) = Wilder(H(-1), n, i - 1)
  BY <1>4
<1>6. /\ _rsi(f, n, i) = _rsi_value(Wilder(F(1), n, i - 1), Wilder(F(-1), n, i - 1))
      /\ _rsi(h, n, i) = _rsi_value(Wilder(H(1), n, i - 1), Wilder(H(-1), n, i - 1))
  BY DEF _rsi
<1> HIDE DEF F, H
<1>7. QED
  BY <1>5, <1>6

LEMMA IndicatorSame ==
    ASSUME NEW s \in Series, NEW t \in Series, NEW i, NEW d \in Indicator, Warm(d, i),
           Agrees(s, t, i)
    PROVE  _indicator_value(d, s, i) = _indicator_value(d, t, i)
<1>1. PICK n \in Nat \ {0} : n = d.period
  BY DEF Indicator
<1>2. PICK part \in Source : part = d.source
  BY DEF Indicator
<1>3. i \in Index /\ i >= n - 1 /\ (d.kind = "rsi" => i >= n)
  BY <1>1, IndexFacts DEF Warm
<1> DEFINE f == [j \in Index |-> s[j][part]]
           h == [j \in Index |-> t[j][part]]
           window == Window(i, n)
<1>4. f \in [Index -> Int] /\ h \in [Index -> Int]
  BY BarFacts
<1>5. \A j \in 0 .. i : j \in Index /\ f[j] = h[j]
  BY <1>3, IndexFacts DEF Agrees
<1>6. window \subseteq 0 .. i /\ IsFiniteSet(window)
  <2>1. window \subseteq 0 .. i
    BY <1>3, IndexFacts DEF Window
  <2>2. window \subseteq Index
    BY DEF Window
  <2>3. QED
    BY <2>1, <2>2, IndexFacts, FS_Subset
<1>7. PICK m \in Int : m = BarCount - 1 /\ Index = 0 .. m /\ i \in n - 1 .. m
  BY <1>3, IndexFacts
<1>11. _indicator_value(d, s, i) =
           CASE d.kind \in {"sma", "volume_sma"} -> Mean(f, window, n)
             [] d.kind = "highest" -> Max({f[j] : j \in window})
             [] d.kind = "lowest"  -> Min({f[j] : j \in window})
             [] d.kind = "ema"     -> _ema(f, n, i)
             [] d.kind = "rsi"     -> _rsi(f, n, i)
             [] OTHER              -> _atr(s, n, i)
  BY <1>1, <1>2 DEF _indicator_value
<1>12. _indicator_value(d, t, i) =
           CASE d.kind \in {"sma", "volume_sma"} -> Mean(h, window, n)
             [] d.kind = "highest" -> Max({h[j] : j \in window})
             [] d.kind = "lowest"  -> Min({h[j] : j \in window})
             [] d.kind = "ema"     -> _ema(h, n, i)
             [] d.kind = "rsi"     -> _rsi(h, n, i)
             [] OTHER              -> _atr(t, n, i)
  BY <1>1, <1>2 DEF _indicator_value
<1> HIDE DEF f, h, window
<1>13. Mean(f, window, n) = Mean(h, window, n)
  <2>1. \A j \in window : f[j] \in Int /\ f[j] = h[j]
    BY <1>4, <1>5, <1>6
  <2>2. PICK S : S = window /\ IsFiniteSet(S) /\ \A j \in S : f[j] \in Int /\ f[j] = h[j]
    BY <1>6, <2>1
  <2>3. Mean(f, S, n) = Mean(h, S, n)
    BY <2>2, MeanSame
  <2>4. QED
    BY <2>2, <2>3
<1>14. {f[j] : j \in window} = {h[j] : j \in window}
  BY <1>5, <1>6
<1>15. _ema(f, n, i) = _ema(h, n, i)
  <2>1. DOMAIN f = 0 .. m /\ \A j \in 0 .. m : f[j] \in Int
    BY <1>4, <1>7
  <2>2. DOMAIN h = 0 .. m /\ \A j \in 0 .. m : h[j] \in Int
    BY <1>4, <1>7
  <2>3. \A j \in 0 .. i : f[j] = h[j]
    BY <1>5
  <2>4. QED
    <3>1. Comparable(f, h, n, m, i)
      BY <1>7, <2>1, <2>2, <2>3 DEF Comparable
    <3>2. QED
      BY <3>1, EmaSame
<1>16. d.kind = "rsi" => _rsi(f, n, i) = _rsi(h, n, i)
  BY <1>3, <1>4, <1>5, RsiSame
<1>17. _atr(s, n, i) = _atr(t, n, i)
  BY <1>3, AtrSame
<1>18. QED
  BY <1>11, <1>12, <1>13, <1>14, <1>15, <1>16, <1>17

-----------------------------------------------------------------------------
(* Rules and entries: the same on series that agree up to the bar.         *)

LEMMA IndicatorsAreTyped ==
    ASSUME strategy \in Strategy
    PROVE  /\ \A c \in strategy.entry \cup strategy.exit : \A n \in DOMAIN c.operands :
                  strategy.indicators[c.operands[n]] \in Indicator
           /\ strategy.stop.kind = "atr_multiple" => Atrs(strategy)[1] \in Indicator
           /\ {strategy.stop.value, strategy.target.value, strategy.sizing.value} \subseteq Nat
<1>1. validate_strategy(strategy)
  BY BacktestAssumption
<1>2. strategy.indicators \in Seq(Indicator)
  BY <1>1 DEF validate_strategy
<1>3. PICK all \in Seq(Indicator) : all = strategy.indicators
  BY <1>2
<1>4. \A c \in strategy.entry \cup strategy.exit : c.operands \in Seq(DOMAIN all)
  BY <1>1, <1>3 DEF validate_strategy
<1>5. ASSUME NEW c \in strategy.entry \cup strategy.exit, NEW n \in DOMAIN c.operands
      PROVE  strategy.indicators[c.operands[n]] \in Indicator
  <2>1. PICK ops \in Seq(DOMAIN all) : ops = c.operands
    BY <1>4
  <2>2. ops[n] \in DOMAIN all
    BY <2>1
  <2>3. QED
    BY <1>3, <2>1, <2>2
<1>6. ASSUME strategy.stop.kind = "atr_multiple" PROVE Atrs(strategy)[1] \in Indicator
  <2>1. Atrs(strategy) # << >>
    BY <1>1, <1>6 DEF validate_strategy
  <2>2. PICK S : Atrs(strategy) = Selected(strategy.indicators, S)
    BY DEF Atrs
  <2>3. Atrs(strategy) \in Seq(Indicator)
    BY <1>2, <2>2, SelectionExists
  <2>4. 1 \in DOMAIN Atrs(strategy)
    BY <2>1, <2>3
  <2>5. QED
    BY <2>3, <2>4
<1>7. {strategy.stop.value, strategy.target.value, strategy.sizing.value} \subseteq Nat
  BY <1>1 DEF validate_strategy
<1>8. QED
  BY <1>5, <1>6, <1>7

LEMMA ConditionSame ==
    ASSUME strategy \in Strategy, NEW c \in strategy.entry \cup strategy.exit,
           NEW s \in Series, NEW t \in Series, NEW i \in Index, Agrees(s, t, i)
    PROVE  _condition_holds(c, s, i) <=> _condition_holds(c, t, i)
<1> DEFINE operands == [n \in DOMAIN c.operands |-> strategy.indicators[c.operands[n]]]
           Values(series, j) == [n \in DOMAIN operands |-> _indicator_value(operands[n], series, j)]
           Bars == IF Crosses(c) THEN {i - 1, i} ELSE {i}
           Ready == \A n \in DOMAIN operands, j \in Bars : Warm(operands[n], j)
<1>1. \A n \in DOMAIN operands : operands[n] \in Indicator
  BY IndicatorsAreTyped
<1>2. /\ _condition_holds(c, s, i) <=>
            Ready /\ Compares(c.operator, Values(s, i), IF Crosses(c) THEN Values(s, i - 1) ELSE << >>)
      /\ _condition_holds(c, t, i) <=>
            Ready /\ Compares(c.operator, Values(t, i), IF Crosses(c) THEN Values(t, i - 1) ELSE << >>)
  BY DEF _condition_holds
<1>3. ASSUME Ready, NEW j \in Bars PROVE Values(s, j) = Values(t, j)
  <2>1. ASSUME NEW n \in DOMAIN operands
        PROVE  _indicator_value(operands[n], s, j) = _indicator_value(operands[n], t, j)
    <3>1. Warm(operands[n], j)
      BY <1>3
    <3>2. j \in Index /\ 0 .. j \subseteq 0 .. i
      BY <1>3, <3>1, IndexFacts DEF Warm
    <3>3. Agrees(s, t, j)
      BY <3>2 DEF Agrees
    <3>4. PICK d \in Indicator : d = operands[n]
      BY <1>1
    <3> HIDE DEF operands
    <3>5. Warm(d, j)
      BY <3>1, <3>4
    <3>6. _indicator_value(d, s, j) = _indicator_value(d, t, j)
      BY <3>3, <3>5, IndicatorSame
    <3>7. QED
      BY <3>4, <3>6
  <2> HIDE DEF operands
  <2>2. QED
    BY <2>1
<1>4. ASSUME Ready PROVE Values(s, i) = Values(t, i) /\ (Crosses(c) => Values(s, i - 1) = Values(t, i - 1))
  <2> HIDE DEF Values, Ready
  <2>1. QED
    BY <1>3, <1>4
<1> HIDE DEF Values, Ready
<1>5. QED
  BY <1>2, <1>4

LEMMA RulesSame ==
    ASSUME strategy \in Strategy, NEW s \in Series, NEW t \in Series, NEW i \in Index,
           Agrees(s, t, i)
    PROVE  /\ _rule_holds(strategy.entry, s, i) <=> _rule_holds(strategy.entry, t, i)
           /\ _rule_holds(strategy.exit, s, i) <=> _rule_holds(strategy.exit, t, i)
<1>1. \A c \in strategy.entry \cup strategy.exit : _condition_holds(c, s, i) <=> _condition_holds(c, t, i)
  BY ConditionSame
<1>2. QED
  BY <1>1 DEF _rule_holds

LEMMA RiskSame ==
    ASSUME strategy \in Strategy, NEW s \in Series, NEW t \in Series, NEW i \in Index,
           Agrees(s, t, i), NEW price
    PROVE  Risk(s, i, price) = Risk(t, i, price)
<1> DEFINE d == Atrs(strategy)[1]
<1>1. ASSUME strategy.stop.kind = "atr_multiple", Warm(d, i)
      PROVE  _atr(s, d.period, i) = _atr(t, d.period, i)
  <2>1. PICK n \in Nat \ {0} : n = d.period
    BY <1>1, IndicatorsAreTyped DEF Indicator
  <2>2. i >= n - 1
    BY <1>1, <2>1, IndexFacts DEF Warm
  <2>3. _atr(s, n, i) = _atr(t, n, i)
    BY <2>2, AtrSame
  <2>4. QED
    BY <2>1, <2>3
<1>2. QED
  BY <1>1 DEF Risk

\* Without a stop in multiples of the ATR, a risk is the same on any series.
LEMMA RiskOfPrice ==
    ASSUME strategy.stop.kind # "atr_multiple", NEW s, NEW t, NEW i, NEW price
    PROVE  Risk(s, i, price) = Risk(t, i, price)
  BY DEF Risk

LEMMA OpenSame ==
    ASSUME NEW s, NEW t, NEW i, NEW e, NEW raw, \A price : Risk(s, i, price) = Risk(t, i, price)
    PROVE  _open_position(e, s, i, raw) = _open_position(e, t, i, raw)
  BY DEF _open_position

-----------------------------------------------------------------------------
(* The steps of a bar.                                                     *)

LEMMA FillSame ==
    ASSUME strategy.stop.kind # "atr_multiple", NEW s, NEW t, NEW i, s[i].open = t[i].open, NEW e
    PROVE  Turned("fill", e, s, i) = Turned("fill", e, t, i)
<1>1. \A price : Risk(s, i, price) = Risk(t, i, price)
  BY RiskOfPrice
<1>2. \A x, raw : _open_position(x, s, i, raw) = _open_position(x, t, i, raw)
  BY <1>1, OpenSame
<1>3. _fill_pending(e, s, i) = _fill_pending(e, t, i)
  BY <1>2 DEF _fill_pending
<1>4. QED
  BY <1>3 DEF Turned

LEMMA ClosedBarSame ==
    ASSUME strategy \in Strategy, NEW s \in Series, NEW t \in Series, NEW i \in Index,
           Agrees(s, t, i), NEW e, NEW name \in {"barrier", "signal", "mark"}
    PROVE  Turned(name, e, s, i) = Turned(name, e, t, i)
<1>1. s[i] = t[i]
  BY IndexFacts DEF Agrees
<1>2. \A x, raw : _open_position(x, s, i, raw) = _open_position(x, t, i, raw)
  BY RiskSame, OpenSame
<1>3. _exit_on_barrier(e, s, i) = _exit_on_barrier(e, t, i)
  BY <1>1 DEF _exit_on_barrier
<1>4. _signal(e, s, i) = _signal(e, t, i)
  <2>1. \A kind : _act(e, s, i, kind) = _act(e, t, i, kind)
    BY <1>1, <1>2 DEF _act
  <2>2. QED
    BY <2>1, RulesSame DEF _signal
<1>5. _mark_to_market(e, s, i) = _mark_to_market(e, t, i)
  BY <1>1 DEF _mark_to_market
<1>6. QED
  BY <1>3, <1>4, <1>5 DEF Turned

LEMMA ReadsNoLater ==
    ASSUME bars \in Series, strategy \in Strategy, at \in 0 .. BarCount, step \in DOMAIN After
    PROVE  LooksAheadInAtrOnly
<1> SUFFICES ASSUME ~(step = "fill" /\ strategy.stop.kind = "atr_multiple"), at < BarCount,
                    NEW series \in Indistinguishable
             PROVE  Turned(step, engine, series, at) = Turned(step, engine, bars, at)
  BY DEF LooksAheadInAtrOnly, ReadsThePast
<1>1. PICK b \in Shape :
          /\ step = "fill" => b.open = bars[at].open
          /\ series = [j \in Index |-> IF j < at \/ (j = at /\ step # "fill") THEN bars[j] ELSE b]
  BY DEF Indistinguishable
<1>2. at \in Index
  BY IndexFacts
<1>3. series \in Series
  BY <1>1 DEF Series
<1>4. CASE step = "fill"
  <2>1. series[at].open = bars[at].open
    BY <1>1, <1>2, <1>4, IndexFacts
  <2>2. Turned("fill", engine, series, at) = Turned("fill", engine, bars, at)
    BY <1>4, <2>1, FillSame
  <2>3. QED
    BY <1>4, <2>2
<1>5. CASE step # "fill"
  <2>1. Agrees(series, bars, at)
    BY <1>1, <1>2, <1>5, IndexFacts DEF Agrees
  <2>2. step \in {"barrier", "signal", "mark"}
    BY <1>5 DEF After
  <2>3. QED
    BY <1>2, <1>3, <2>1, <2>2, ClosedBarSame
<1>6. QED
  BY <1>4, <1>5

-----------------------------------------------------------------------------
(* What the engine holds.                                                  *)

Reason == {"exit_signal", "stop", "target"}
Levels(S) == {{}} \cup {{level} : level \in S}
Holding == [quantity : Nat \ {0}, entry_price : Int, entry_index : Index,
            stop : Levels(Nat), target : Levels(Int)]
Waiting(i) == [kind : {"entry", "exit"}, signal_index : 0 .. i]
ClosedTrade == [entry : Index, exit : Index, reason : Reason, net_pnl : Int]

Engines(i) ==
    [cash : Int, position : {NoPosition} \cup Holding, pending : {NoOrder} \cup Waiting(i),
     trades : Seq(ClosedTrade), equity_curve : Seq(Int)]
EngineType(i) == {e \in Engines(i) : Covered => e.cash >= 0}

\* A share of an amount that is not more than the whole.
LEMMA Percentage ==
    ASSUME NEW x \in Nat, NEW p \in Int
    PROVE  (x * p) \div 100 \in Int /\ (p <= 100 => (x * p) \div 100 <= x)
<1>1. PICK y \in Int : y = x * p
  OBVIOUS
<1>2. y \div 100 \in Int /\ (y \div 100) * 100 <= y
  BY <1>1
<1>3. ASSUME p <= 100 PROVE y <= x * 100
  <2>1. PICK z \in Nat : z = x * (100 - p)
    BY <1>3
  <2>2. y + z = x * 100
    BY <1>1, <2>1
  <2>3. QED
    BY <2>2
<1>4. p <= 100 => y \div 100 <= x
  BY <1>2, <1>3
<1>5. QED
  BY <1>1, <1>2, <1>4

\* Where sales are covered, neither a slip nor a fee takes all of an amount.
LEMMA ChargesType ==
    /\ \A x \in Int : _fee(x) \in Int /\ Slipped(x) \in Int
    /\ Covered => \A x \in Nat : _fee(x) <= x /\ Slipped(x) <= x
<1>1. FeePercent \in Int /\ SlippagePercent \in Int
  BY BacktestAssumption
<1>2. ASSUME NEW x \in Int PROVE _fee(x) \in Int /\ Slipped(x) \in Int
  <2>1. PICK y \in Int, z \in Int : y = Abs(x) * FeePercent /\ z = x * SlippagePercent
    BY <1>1 DEF Abs
  <2>2. _fee(x) = y \div 100 /\ Slipped(x) = z \div 100
    BY <2>1 DEF _fee, Slipped
  <2>3. QED
    BY <2>2, Quotient
<1>3. ASSUME Covered, NEW x \in Nat PROVE _fee(x) <= x /\ Slipped(x) <= x
  <2>1. Abs(x) = x
    BY DEF Abs
  <2>2. FeePercent <= 100 /\ SlippagePercent <= 100
    BY <1>3 DEF Covered
  <2>3. QED
    BY <1>1, <2>1, <2>2, Percentage DEF _fee, Slipped
<1>4. QED
  BY <1>2, <1>3

LEMMA RiskType ==
    ASSUME strategy \in Strategy, NEW s \in Series, NEW i \in Index, NEW price \in Int
    PROVE  Risk(s, i, price) \in Int /\ (Risk(s, i, price) # 0 => Risk(s, i, price) < price)
<1>1. PICK v \in Nat : v = strategy.stop.value
  BY IndicatorsAreTyped
<1> DEFINE d == Atrs(strategy)[1]
           risk == CASE strategy.stop.kind = "percent" -> (price * v) \div 100
                     [] strategy.stop.kind = "atr_multiple" ->
                            IF Warm(d, i) THEN v * Max({_atr(s, d.period, i), 0}) ELSE 0
                     [] OTHER -> 0
<1>2. ASSUME strategy.stop.kind = "atr_multiple", Warm(d, i)
      PROVE  v * Max({_atr(s, d.period, i), 0}) \in Int
  <2>1. PICK n \in Nat \ {0} : n = d.period
    BY <1>2, IndicatorsAreTyped DEF Indicator
  <2>2. i >= n - 1
    BY <1>2, <2>1, IndexFacts DEF Warm
  <2>3. Agrees(s, s, i)
    BY DEF Agrees
  <2>4. PICK atr \in Int : atr = _atr(s, n, i)
    BY <2>2, <2>3, AtrSame
  <2>5. PICK top \in Nat : top = Max({atr, 0})
    BY PositivePart
  <2>6. v * top \in Int
    OBVIOUS
  <2>7. QED
    BY <2>1, <2>4, <2>5, <2>6
<1>3. (price * v) \div 100 \in Int
  <2>1. price * v \in Int
    OBVIOUS
  <2>2. QED
    BY <2>1, Quotient
<1>4. risk \in Int
  BY <1>2, <1>3
<1>5. Risk(s, i, price) = IF risk >= price THEN 0 ELSE risk
  BY <1>1 DEF Risk
<1> HIDE DEF risk
<1>6. QED
  BY <1>4, <1>5

LEMMA LevelsType ==
    ASSUME strategy \in Strategy, NEW price \in Int, NEW risk \in Int, risk # 0 => risk < price
    PROVE  /\ _levels_from(price, risk).stop \in Levels(Nat)
           /\ _levels_from(price, risk).target \in Levels(Int)
<1>1. PICK v \in Nat : v = strategy.target.value
  BY IndicatorsAreTyped
<1>2. (price * (100 + v)) \div 100 \in Int /\ price + v * risk \in Int
  <2>1. price * (100 + v) \in Int /\ v * risk \in Int
    OBVIOUS
  <2>2. (price * (100 + v)) \div 100 \in Int
    BY <2>1, Quotient
  <2>3. QED
    BY <2>1, <2>2
<1>3. _levels_from(price, risk).stop \in Levels(Nat)
  <2>1. risk # 0 => price - risk \in Nat
    OBVIOUS
  <2>2. QED
    BY <2>1 DEF _levels_from, Levels
<1>4. _levels_from(price, risk).target \in Levels(Int)
  BY <1>1, <1>2 DEF _levels_from, Levels
<1>5. QED
  BY <1>3, <1>4

LEMMA EquityType ==
    ASSUME NEW k, NEW e \in EngineType(k), NEW price \in Int
    PROVE  _equity(e, price) \in Int
<1>1. PICK cash \in Int, quantity \in Nat : cash = e.cash /\ quantity = e.position.quantity
  BY DEF EngineType, Engines, NoPosition, Holding
<1>2. cash + quantity * price \in Int
  OBVIOUS
<1>3. QED
  BY <1>1, <1>2 DEF _equity

LEMMA SizeType ==
    ASSUME strategy \in Strategy, NEW k, NEW e \in EngineType(k), NEW price \in Int,
           NEW risk \in Int
    PROVE  _size(e, price, risk) \in Int
<1>1. PICK v \in Nat : v = strategy.sizing.value
  BY IndicatorsAreTyped
<1>2. PICK share \in Int : share = _equity(e, price) * v
  <2>1. PICK equity \in Int : equity = _equity(e, price)
    BY EquityType
  <2>2. equity * v \in Int
    OBVIOUS
  <2>3. QED
    BY <2>1, <2>2
<1>3. PICK per \in Int : per = IF strategy.sizing.kind = "fixed_fraction" THEN price ELSE risk
  OBVIOUS
<1>4. per > 0 => share \div (100 * per) \in Int
  <2>1. per > 0 => 100 * per \in Nat \ {0}
    OBVIOUS
  <2>2. QED
    BY <2>1, Quotient
<1>5. _size(e, price, risk) =
          IF strategy.sizing.kind = "fixed_quantity" THEN v
          ELSE IF price <= 0 \/ per <= 0 THEN 0 ELSE share \div (100 * per)
  BY <1>1, <1>2, <1>3 DEF _size
<1>6. QED
  BY <1>4, <1>5

LEMMA BoughtType ==
    ASSUME NEW k, NEW e \in EngineType(k), NEW i \in Index, NEW price \in Int,
           NEW levels, levels.stop \in Levels(Nat), levels.target \in Levels(Int),
           NEW quantity \in Int
    PROVE  /\ Bought(e, i, price, levels, quantity) \in EngineType(k)
           /\ Bought(e, i, price, levels, quantity).equity_curve = e.equity_curve
<1>1. PICK worth \in Int : worth = price * quantity
  OBVIOUS
<1>2. PICK fee \in Int : fee = _fee(worth)
  BY ChargesType
<1> DEFINE held == [quantity |-> quantity, entry_price |-> price, entry_index |-> i,
                    stop |-> levels.stop, target |-> levels.target]
           new == [e EXCEPT !.cash = @ - (worth + fee), !.position = held]
<1>3. CASE quantity <= 0 \/ e.cash < worth + fee
  <2>1. Bought(e, i, price, levels, quantity) = e
    BY <1>1, <1>2, <1>3 DEF Bought
  <2>2. QED
    BY <2>1
<1>4. CASE ~(quantity <= 0 \/ e.cash < worth + fee)
  <2>1. Bought(e, i, price, levels, quantity) = new
    BY <1>1, <1>2, <1>4 DEF Bought
  <2>2. held \in Holding
    BY <1>4 DEF Holding
  <2>3. e.cash - (worth + fee) \in Nat
    <3>1. e.cash \in Int
      BY DEF EngineType, Engines
    <3>2. QED
      BY <1>4, <3>1
  <2>31. PICK left \in Nat : left = e.cash - (worth + fee)
    BY <2>3
  <2>32. new = [e EXCEPT !.cash = left, !.position = held]
    BY <2>31
  <2> HIDE DEF held, new
  <2>33. new \in Engines(k) /\ new.equity_curve = e.equity_curve /\ new.cash = left
    <3>1. e \in Engines(k) /\ left \in Int
      BY <2>31 DEF EngineType
    <3> DEFINE paid == [e EXCEPT !.cash = left]
    <3>2. paid \in Engines(k) /\ paid.equity_curve = e.equity_curve /\ paid.cash = left
      BY <3>1 DEF Engines
    <3> HIDE DEF paid
    <3>3. [paid EXCEPT !.position = held] \in Engines(k)
      BY <2>2, <3>2 DEF Engines
    <3>4. /\ [paid EXCEPT !.position = held].equity_curve = e.equity_curve
          /\ [paid EXCEPT !.position = held].cash = left
      BY <3>2 DEF Engines
    <3>5. new = [paid EXCEPT !.position = held]
      BY <2>32, <3>1 DEF paid, Engines
    <3>6. QED
      BY <3>3, <3>4, <3>5
  <2>4. new \in EngineType(k) /\ new.equity_curve = e.equity_curve
    BY <2>33 DEF EngineType
  <2>5. QED
    BY <2>1, <2>4
<1>5. QED
  BY <1>3, <1>4

LEMMA OpenType ==
    ASSUME strategy \in Strategy, NEW s \in Series, NEW i \in Index, NEW raw \in Int,
           NEW k, NEW e \in EngineType(k)
    PROVE  /\ _open_position(e, s, i, raw) \in EngineType(k)
           /\ _open_position(e, s, i, raw).equity_curve = e.equity_curve
<1>1. PICK price \in Int : price = raw + Slipped(raw)
  <2>1. Slipped(raw) \in Int
    BY ChargesType
  <2>2. raw + Slipped(raw) \in Int
    BY <2>1
  <2>3. QED
    BY <2>2
<1>2. PICK risk \in Int : risk = Risk(s, i, price) /\ (risk # 0 => risk < price)
  BY RiskType
<1>3. PICK levels : /\ levels = _levels_from(price, risk)
                    /\ levels.stop \in Levels(Nat) /\ levels.target \in Levels(Int)
  BY <1>2, LevelsType
<1>4. PICK quantity \in Int : quantity = _size(e, price, risk)
  BY SizeType
<1>5. _open_position(e, s, i, raw) = Bought(e, i, price, levels, quantity)
  BY <1>1, <1>2, <1>3, <1>4 DEF _open_position
<1>6. levels.stop \in Levels(Nat) /\ levels.target \in Levels(Int)
  BY <1>3
<1>7. /\ Bought(e, i, price, levels, quantity) \in EngineType(k)
      /\ Bought(e, i, price, levels, quantity).equity_curve = e.equity_curve
  BY <1>6, BoughtType
<1>8. QED
  BY <1>5, <1>7

LEMMA CloseType ==
    ASSUME NEW k, NEW e \in EngineType(k), NEW i \in Index, NEW raw \in Int,
           Covered => raw >= 0, NEW reason \in Reason
    PROVE  /\ _close_position(e, i, raw, reason) \in EngineType(k)
           /\ _close_position(e, i, raw, reason).equity_curve = e.equity_curve
<1>1. CASE e.position = NoPosition
  BY <1>1 DEF _close_position
<1>2. CASE e.position # NoPosition
  <2>1. PICK p \in Holding : p = e.position
    BY <1>2 DEF EngineType, Engines
  <2>2. PICK q \in Nat, paid \in Int, from \in Index :
            q = p.quantity /\ paid = p.entry_price /\ from = p.entry_index
    BY DEF Holding
  <2>3. PICK price \in Int : price = raw - Slipped(raw) /\ (Covered => price >= 0)
    <3>1. Slipped(raw) \in Int /\ (Covered => Slipped(raw) <= raw)
      BY ChargesType
    <3>2. raw - Slipped(raw) \in Int /\ (Covered => raw - Slipped(raw) >= 0)
      BY <3>1
    <3>3. QED
      BY <3>2
  <2>4. PICK worth \in Int, cost \in Int : worth = price * q /\ cost = paid * q
    <3>1. price * q \in Int /\ paid * q \in Int
      OBVIOUS
    <3>2. QED
      BY <3>1
  <2>41. Covered => worth \in Nat
    <3>1. Covered => price \in Nat
      BY <2>3
    <3>2. QED
      BY <2>4, <3>1
  <2>5. PICK gain \in Int : gain = worth - _fee(worth) /\ (Covered => gain >= 0)
    <3>1. _fee(worth) \in Int /\ (Covered => _fee(worth) <= worth)
      BY <2>41, ChargesType
    <3>2. worth - _fee(worth) \in Int /\ (Covered => worth - _fee(worth) >= 0)
      BY <3>1
    <3>3. QED
      BY <3>2
  <2>6. PICK pnl \in Int : pnl = gain - cost - _fee(cost)
    <3>1. _fee(cost) \in Int
      BY ChargesType
    <3>2. gain - cost - _fee(cost) \in Int
      BY <3>1
    <3>3. QED
      BY <3>2
  <2>7. PICK trade \in ClosedTrade :
            trade = [entry |-> from, exit |-> i, reason |-> reason, net_pnl |-> pnl]
    BY DEF ClosedTrade
  <2> DEFINE new == [e EXCEPT !.cash = @ + gain, !.position = NoPosition,
                              !.trades = Append(@, trade)]
  <2>8. _close_position(e, i, raw, reason) = new
    BY <1>2, <2>1, <2>2, <2>3, <2>4, <2>5, <2>6, <2>7 DEF _close_position
  <2>9. /\ e.cash + gain \in Int /\ (Covered => e.cash + gain >= 0)
        /\ Append(e.trades, trade) \in Seq(ClosedTrade)
    <3>1. e.cash \in Int /\ (Covered => e.cash >= 0) /\ e.trades \in Seq(ClosedTrade)
      BY DEF EngineType, Engines
    <3>2. QED
      BY <2>5, <3>1
  <2>10. new \in EngineType(k) /\ new.equity_curve = e.equity_curve
    BY <2>9 DEF EngineType, Engines
  <2>11. QED
    BY <2>8, <2>10
<1>3. QED
  BY <1>1, <1>2

LEMMA PendingType ==
    ASSUME strategy \in Strategy, NEW s \in Series, NEW i \in Index, NEW e \in EngineType(i)
    PROVE  /\ _fill_pending(e, s, i) \in EngineType(i)
           /\ _fill_pending(e, s, i).equity_curve = e.equity_curve
<1>1. PICK raw \in Int : raw = s[i].open /\ (Covered => raw >= 0)
  BY BarFacts
<1>0. PICK free : free = [e EXCEPT !.pending = NoOrder]
  OBVIOUS
<1>2. free \in EngineType(i) /\ free.equity_curve = e.equity_curve
  BY <1>0 DEF EngineType, Engines
<1>3. PICK reason \in Reason : reason = "exit_signal"
  BY DEF Reason
<1>4. /\ _close_position(free, i, raw, reason) \in EngineType(i)
      /\ _close_position(free, i, raw, reason).equity_curve = e.equity_curve
  BY <1>1, <1>2, CloseType
<1>5. /\ _open_position(free, s, i, raw) \in EngineType(i)
      /\ _open_position(free, s, i, raw).equity_curve = e.equity_curve
  BY <1>2, OpenType
<1>6. \/ _fill_pending(e, s, i) = e
      \/ _fill_pending(e, s, i) = _close_position(free, i, raw, reason)
      \/ _fill_pending(e, s, i) = _open_position(free, s, i, raw)
  BY <1>0, <1>1, <1>3 DEF _fill_pending
<1>7. QED
  BY <1>4, <1>5, <1>6

LEMMA BarrierType ==
    ASSUME NEW s \in Series, NEW i \in Index, NEW e \in EngineType(i)
    PROVE  /\ _exit_on_barrier(e, s, i) \in EngineType(i)
           /\ _exit_on_barrier(e, s, i).equity_curve = e.equity_curve
<1>1. CASE e.position = NoPosition
  BY <1>1 DEF _exit_on_barrier
<1>2. CASE e.position # NoPosition
  <2>1. PICK p \in Holding : p = e.position
    BY <1>2 DEF EngineType, Engines
  <2>2. p.stop \in Levels(Nat) /\ p.target \in Levels(Int)
    BY DEF Holding
  <2>3. PICK b : b = s[i]
    OBVIOUS
  <2>4. PICK open \in Int : open = b.open /\ (Covered => open >= 0)
    BY <2>3, BarFacts
  <2>5. PICK low \in Int : (p.stop # {} => low = Min({open} \cup p.stop)) /\ (Covered => low >= 0)
    <3>1. CASE p.stop = {}
      BY <2>4, <3>1
    <3>2. CASE p.stop # {}
      <4>1. PICK stop \in Nat : p.stop = {stop}
        BY <2>2, <3>2 DEF Levels
      <4>2. PICK x \in Int : x = stop
        OBVIOUS
      <4>3. Min({open, x}) \in {open, x}
        BY PairBounds
      <4>4. {open} \cup p.stop = {open, x}
        BY <4>1, <4>2
      <4>5. Min({open, x}) \in Int /\ (Covered => Min({open, x}) >= 0)
        BY <2>4, <4>2, <4>3
      <4>6. QED
        BY <4>4, <4>5
    <3>3. QED
      BY <3>1, <3>2
  <2>51. PICK high \in Int : (p.target # {} => high = Max({open} \cup p.target)) /\ (Covered => high >= 0)
    <3>1. CASE p.target = {}
      BY <2>4, <3>1
    <3>2. CASE p.target # {}
      <4>1. PICK target \in Int : p.target = {target}
        BY <2>2, <3>2 DEF Levels
      <4>2. Max({open, target}) \in {open, target} /\ Max({open, target}) >= open
        BY PairBounds
      <4>3. {open} \cup p.target = {open, target}
        BY <4>1
      <4>4. Max({open, target}) \in Int /\ (Covered => Max({open, target}) >= 0)
        BY <2>4, <4>2
      <4>5. QED
        BY <4>3, <4>4
    <3>3. QED
      BY <3>1, <3>2
  <2>6. \/ _barrier_price(p, b) = << >>
        \/ _barrier_price(p, b) = <<low, "stop">>
        \/ _barrier_price(p, b) = <<high, "target">>
    BY <2>4, <2>5, <2>51 DEF _barrier_price
  <2>7. \/ _exit_on_barrier(e, s, i) = e
        \/ _exit_on_barrier(e, s, i) = _close_position(e, i, low, "stop")
        \/ _exit_on_barrier(e, s, i) = _close_position(e, i, high, "target")
    BY <1>2, <2>1, <2>3, <2>6 DEF _exit_on_barrier
  <2>8. PICK stopped \in Reason, aimed \in Reason : stopped = "stop" /\ aimed = "target"
    BY DEF Reason
  <2>9. /\ _close_position(e, i, low, stopped) \in EngineType(i)
        /\ _close_position(e, i, low, stopped).equity_curve = e.equity_curve
        /\ _close_position(e, i, high, aimed) \in EngineType(i)
        /\ _close_position(e, i, high, aimed).equity_curve = e.equity_curve
    BY <2>5, <2>51, CloseType
  <2>10. QED
    BY <2>7, <2>8, <2>9
<1>3. QED
  BY <1>1, <1>2

LEMMA ActType ==
    ASSUME strategy \in Strategy, NEW s \in Series, NEW i \in Index, NEW e \in EngineType(i),
           NEW kind \in {"entry", "exit"}
    PROVE  /\ _act(e, s, i, kind) \in EngineType(i)
           /\ _act(e, s, i, kind).equity_curve = e.equity_curve
<1>1. PICK raw \in Int : raw = s[i].close /\ (Covered => raw >= 0)
  BY BarFacts
<1>2. i \in 0 .. i
  BY IndexFacts
<1>3. PICK order \in Waiting(i) : order = [kind |-> kind, signal_index |-> i]
  BY <1>2 DEF Waiting
<1> DEFINE raised == [e EXCEPT !.pending = order]
<1>4. raised \in EngineType(i) /\ raised.equity_curve = e.equity_curve
  BY DEF EngineType, Engines
<1>5. PICK reason \in Reason : reason = "exit_signal"
  BY DEF Reason
<1>6. /\ _close_position(e, i, raw, reason) \in EngineType(i)
      /\ _close_position(e, i, raw, reason).equity_curve = e.equity_curve
  BY <1>1, CloseType
<1>7. /\ _open_position(e, s, i, raw) \in EngineType(i)
      /\ _open_position(e, s, i, raw).equity_curve = e.equity_curve
  BY OpenType
<1>8. \/ _act(e, s, i, kind) = raised
      \/ _act(e, s, i, kind) = _close_position(e, i, raw, reason)
      \/ _act(e, s, i, kind) = _open_position(e, s, i, raw)
  BY <1>1, <1>3, <1>5 DEF _act
<1> HIDE DEF raised
<1>9. QED
  BY <1>4, <1>6, <1>7, <1>8

LEMMA SignalType ==
    ASSUME strategy \in Strategy, NEW s \in Series, NEW i \in Index, NEW e \in EngineType(i)
    PROVE  /\ _signal(e, s, i) \in EngineType(i)
           /\ _signal(e, s, i).equity_curve = e.equity_curve
<1>1. \/ _signal(e, s, i) = e
      \/ _signal(e, s, i) = _act(e, s, i, "entry")
      \/ _signal(e, s, i) = _act(e, s, i, "exit")
  BY DEF _signal
<1>2. QED
  BY <1>1, ActType

LEMMA MarkType ==
    ASSUME NEW s \in Series, NEW i \in Index, NEW e \in EngineType(i)
    PROVE  /\ _mark_to_market(e, s, i) \in EngineType(i + 1)
           /\ Len(_mark_to_market(e, s, i).equity_curve) = Len(e.equity_curve) + 1
<1>1. PICK price \in Int : price = s[i].close
  BY BarFacts
<1>2. PICK equity \in Int : equity = _equity(e, price)
  BY EquityType
<1>3. PICK curve \in Seq(Int) : curve = e.equity_curve
  BY DEF EngineType, Engines
<1> DEFINE more == Append(curve, equity)
<1>4. more \in Seq(Int) /\ Len(more) = Len(curve) + 1
  OBVIOUS
<1>5. _mark_to_market(e, s, i) = [e EXCEPT !.equity_curve = more]
  BY <1>1, <1>2, <1>3 DEF _mark_to_market
<1> HIDE DEF more
<1>6. Waiting(i) \subseteq Waiting(i + 1)
  BY IndexFacts DEF Waiting
<1>7. [e EXCEPT !.equity_curve = more] \in EngineType(i + 1)
  BY <1>4, <1>6 DEF EngineType, Engines
<1>8. [e EXCEPT !.equity_curve = more].equity_curve = more
  BY DEF EngineType, Engines
<1>9. QED
  BY <1>3, <1>4, <1>5, <1>7, <1>8

-----------------------------------------------------------------------------
(* The run.                                                                *)

BacktestInv ==
    /\ bars \in Series /\ strategy \in Strategy
    /\ at \in 0 .. BarCount /\ step \in DOMAIN After
    /\ engine \in EngineType(at) /\ Len(engine.equity_curve) = at

LEMMA BacktestInvType == BacktestInv => BacktestTypeOK
<1> SUFFICES ASSUME BacktestInv PROVE BacktestTypeOK
  OBVIOUS
<1>1. engine.cash \in Int /\ (Covered => engine.cash >= 0) /\ engine.position \in {NoPosition} \cup Holding
      /\ engine.pending \in {NoOrder} \cup Waiting(at)
  BY DEF BacktestInv, EngineType, Engines
<1>2. engine.position.quantity \in Nat
  BY <1>1 DEF NoPosition, Holding
<1>3. QED
  BY <1>1, <1>2 DEF BacktestInv, BacktestTypeOK, Series, Waiting

LEMMA BacktestStarts == BacktestInit => BacktestInv
<1> SUFFICES ASSUME BacktestInit PROVE BacktestInv
  OBVIOUS
<1>1. StartCash \in Nat /\ BarCount \in Nat
  BY BacktestAssumption
<1>2. << >> \in Seq(ClosedTrade) /\ << >> \in Seq(Int) /\ Len(<< >>) = 0
  OBVIOUS
<1>3. engine \in EngineType(0) /\ engine.equity_curve = << >>
  BY <1>1, <1>2 DEF BacktestInit, EngineType, Engines
<1>4. QED
  BY <1>1, <1>2, <1>3 DEF BacktestInit, BacktestInv, Series, After

LEMMA BacktestStep == BacktestInv /\ [BacktestNext]_backtestVars => BacktestInv'
<1> SUFFICES ASSUME BacktestInv, [BacktestNext]_backtestVars PROVE BacktestInv'
  OBVIOUS
<1>1. CASE UNCHANGED backtestVars
  BY <1>1 DEF BacktestInv, backtestVars, EngineType, Engines, Waiting, Covered
<1>2. CASE BacktestNext
  <2>1. at \in Index /\ bars \in Series /\ strategy \in Strategy
    BY <1>2, IndexFacts DEF BacktestNext, BacktestInv
  <2>2. /\ bars' \in Series /\ strategy' \in Strategy /\ step' \in DOMAIN After
    BY <1>2 DEF BacktestNext, BacktestInv, After
  <2>3. engine \in EngineType(at) /\ Len(engine.equity_curve) = at
    BY DEF BacktestInv
  <2>4. engine' = Turned(step, engine, bars, at)
    BY <1>2 DEF BacktestNext
  <2>5. CASE step # "mark"
    <3>1. \/ engine' = _fill_pending(engine, bars, at)
          \/ engine' = _exit_on_barrier(engine, bars, at)
          \/ engine' = _signal(engine, bars, at)
      BY <2>4, <2>5 DEF Turned, BacktestInv, After
    <3>2. engine' \in EngineType(at) /\ engine'.equity_curve = engine.equity_curve
      BY <2>1, <2>3, <3>1, PendingType, BarrierType, SignalType
    <3>3. at' = at
      BY <1>2, <2>5 DEF BacktestNext
    <3>4. QED
      BY <2>2, <2>3, <3>2, <3>3 DEF BacktestInv
  <2>6. CASE step = "mark"
    <3>1. engine' = _mark_to_market(engine, bars, at)
      BY <2>4, <2>6 DEF Turned
    <3>2. engine' \in EngineType(at + 1) /\ Len(engine'.equity_curve) = at + 1
      BY <2>1, <2>3, <3>1, MarkType
    <3>3. at' = at + 1 /\ at' \in 0 .. BarCount
      BY <1>2, <2>1, <2>6, IndexFacts DEF BacktestNext
    <3>4. QED
      BY <2>2, <3>2, <3>3 DEF BacktestInv
  <2>7. QED
    BY <2>5, <2>6
<1>3. QED
  BY <1>1, <1>2

LEMMA BacktestInvariant == BacktestSpec => []BacktestInv
  BY BacktestStarts, BacktestStep, PTL DEF BacktestSpec

\* BacktestTypeOK: whatever the bars, the strategy, the fees and slips, positive or not, a
\* backtest's curve has a point for each bar gone through, and its cash is negative only
\* if prices are, or a fee or a slip takes more than the whole of a sale (_Engine.run).
THEOREM BacktestTypeCorrect == BacktestSpec => []BacktestTypeOK
  BY BacktestInvariant, BacktestInvType, PTL

\* LooksAheadInAtrOnly: no step of a backtest depends on a bar, or a part of one, that
\* is not yet there, but for the stop in multiples of the ATR (engine.py: run).
THEOREM NothingElseLooksAhead == BacktestSpec => []LooksAheadInAtrOnly
<1>1. BacktestInv => LooksAheadInAtrOnly
  BY ReadsNoLater DEF BacktestInv
<1>2. QED
  BY <1>1, BacktestInvariant, PTL

-----------------------------------------------------------------------------
(* The services together (Services.tla): whichever moves, the others       *)
(* stutter, so that each of them behaves as its own specification says.    *)

\* Whichever service a behaviour is about, its state keeps its shape, for any values of
\* the constants of all of them.
THEOREM ServicesTypeCorrect == ServicesSpec => []ServicesTypeOK
<1>1. ServicesInit => /\ RouteInit /\ PluginInit /\ ImportInit /\ ReplayInit /\ BacktestInit
                      /\ EvolveInit /\ SettingsInit /\ InstallInit /\ IntegrationInit
  BY DEF ServicesInit
<1>2. [ServicesNext]_servicesVars =>
          /\ [RouteNext]_routeVars /\ [PluginNext]_pluginVars /\ [ImportNext]_importVars
          /\ [ReplayNext]_replayVars /\ [BacktestNext]_backtestVars /\ [EvolveNext]_evolveVars
          /\ [SettingsNext]_settingsVars /\ [InstallNext]_installVars /\ [IntegrationNext]_agentVars
  BY DEF ServicesNext, Stands, servicesVars
<1>3. ServicesSpec => [](RouteTypeOK /\ PluginTypeOK /\ ImportTypeOK)
  BY <1>1, <1>2, RouteInitInv, RouteNextInv, RouteInvType, PluginTypeCorrect, ImportTypeCorrect, PTL
  DEF ServicesSpec, PluginSpec, ImportSpec
<1>4. ServicesSpec => [](ReplayTypeOK /\ BacktestTypeOK /\ EvolveTypeOK)
  BY <1>1, <1>2, ReplayTypeCorrect, BacktestTypeCorrect, EvolveTypeCorrect, PTL
  DEF ServicesSpec, ReplaySpec, BacktestSpec, EvolveSpec
<1>5. ServicesSpec => [](SettingsTypeOK /\ InstallTypeOK /\ IntegrationTypeOK)
  BY <1>1, <1>2, SettingsTypeCorrect, InstallTypeCorrect, IntegrationTypeCorrect, PTL
  DEF ServicesSpec, SettingsSpec, InstallSpec, IntegrationSpec
<1>6. /\ RouteTypeOK /\ PluginTypeOK /\ ImportTypeOK
      /\ ReplayTypeOK /\ BacktestTypeOK /\ EvolveTypeOK
      /\ SettingsTypeOK /\ InstallTypeOK /\ IntegrationTypeOK
      => ServicesTypeOK
  BY DEF ServicesTypeOK
<1>7. QED
  BY <1>3, <1>4, <1>5, <1>6, PTL
=============================================================================
