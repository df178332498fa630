----------------------------- MODULE ReadsProofs -----------------------------
(***************************************************************************)
(* Theorems about MCReads.  The parts share no state, so that each keeps   *)
(* its own invariant, whichever of them a behaviour is about.              *)
(***************************************************************************)
EXTENDS MCReads, FiniteSetTheorems, WellFoundedInduction, TLAPS

-----------------------------------------------------------------------------
(* Least and greatest numbers.  The sets 1..e of the elements e of S are   *)
(* well-founded by inclusion, and so are the sets e..n.                    *)

SetsUpTo(n, Sets) == Sets \subseteq SUBSET (1..n) /\ Sets # {}
HasLeast(Sets)    == \E x \in Sets : \A y \in Sets : y \subseteq x => y = x

LEMMA SetsAreWellFounded ==
  ASSUME NEW n \in Nat, NEW Sets, SetsUpTo(n, Sets)
  PROVE  HasLeast(Sets)
<1>1. IsFiniteSet(1..n)
  BY FS_Interval
<1>2. FiniteSubsetsOf(1..n) = SUBSET (1..n)
  BY <1>1, FS_FiniteSubsetsOfFinite
<1> DEFINE R == StrictSubsetOrdering(1..n)
<1>3. IsWellFoundedOn(R, SUBSET (1..n))
  BY <1>2, FS_StrictSubsetOrderingWellFounded
<1>4. \E x \in Sets : \A y \in Sets : ~(<<y, x>> \in R)
  <2> HIDE DEF R
  <2>1. QED
    BY <1>3, WFMin DEF SetsUpTo
<1>5. QED
  BY <1>4 DEF StrictSubsetOrdering, SetsUpTo, HasLeast

LEMMA LeastNumber ==
  ASSUME NEW n \in Nat, NEW S \in SUBSET (1..n), S # {}
  PROVE  \E e \in S : \A d \in S : e <= d
<1> DEFINE Sets == {1..e : e \in S}
<1>1. Sets \subseteq SUBSET (1..n)
  <2> SUFFICES ASSUME NEW e \in S PROVE 1..e \subseteq 1..n
    OBVIOUS
  <2>1. QED
    BY e \in 1..n
<1>2. SetsUpTo(n, Sets)
  BY <1>1, ZenonT(60) DEF SetsUpTo
<1>3. PICK e \in S : \A y \in Sets : y \subseteq 1..e => y = 1..e
  <2>1. HasLeast(Sets)
    BY <1>2, SetsAreWellFounded
  <2>2. QED
    BY <2>1 DEF HasLeast
<1>4. ASSUME NEW d \in S, ~(e <= d) PROVE FALSE
  <2>1. 1..d \subseteq 1..e /\ e \in 1..e /\ e \notin 1..d
    BY <1>4
  <2>2. 1..d \in Sets
    OBVIOUS
  <2>3. 1..d = 1..e
    BY <1>3, <2>1, <2>2
  <2>4. QED
    BY <2>1, <2>3
<1>5. QED
  BY <1>4

LEMMA GreatestNumber ==
  ASSUME NEW n \in Nat, NEW S \in SUBSET (1..n), S # {}
  PROVE  Max(S) \in S /\ \A d \in S : d <= Max(S)
<1> DEFINE Sets == {e..n : e \in S}
<1>1. Sets \subseteq SUBSET (1..n)
  <2> SUFFICES ASSUME NEW e \in S PROVE e..n \subseteq 1..n
    OBVIOUS
  <2>1. QED
    BY e \in 1..n
<1>2. SetsUpTo(n, Sets)
  BY <1>1, ZenonT(60) DEF SetsUpTo
<1>3. PICK e \in S : \A y \in Sets : y \subseteq e..n => y = e..n
  <2>1. HasLeast(Sets)
    BY <1>2, SetsAreWellFounded
  <2>2. QED
    BY <2>1 DEF HasLeast
<1>4. ASSUME NEW d \in S, ~(e >= d) PROVE FALSE
  <2>1. d..n \subseteq e..n /\ e \in e..n /\ e \notin d..n
    BY <1>4
  <2>2. d..n \in Sets
    OBVIOUS
  <2>3. d..n = e..n
    BY <1>3, <2>1, <2>2
  <2>4. QED
    BY <2>1, <2>3
<1>5. \E greatest \in S : \A d \in S : greatest >= d
  BY <1>4
<1>6. Max(S) \in S /\ \A d \in S : Max(S) >= d
  BY <1>5 DEF Max
<1>7. QED
  BY <1>6

-----------------------------------------------------------------------------
(* A page of the indexer: what comes first, and all of it unless it is full. *)

LEMMA PageIsFirst ==
  ASSUME NEW n \in Nat, NEW S \in SUBSET (1..n)
  PROVE  /\ Page(S) \subseteq S /\ IsFiniteSet(Page(S))
         /\ \A d \in S, e \in Page(S) : d <= e => d \in Page(S)
         /\ Cardinality(Page(S)) = PageLimit => Page(S) # {}
<1>1. IsFiniteSet(S)
  <2>1. IsFiniteSet(1..n)
    BY FS_Interval
  <2>2. QED
    BY <2>1, FS_Subset
<1>2. Page(S) \subseteq S /\ IsFiniteSet(Page(S))
  BY <1>1, FS_Subset DEF Page
<1>3. ASSUME NEW d \in S, NEW e \in Page(S), d <= e PROVE d \in Page(S)
  <2> DEFINE D == {c \in S : c <= d}
             E0 == {c \in S : c <= e}
  <2>1. D \subseteq E0 /\ E0 \subseteq S
    <3>1. \A c \in S : c \in Int
      OBVIOUS
    <3>2. d \in S /\ e \in S
      BY <1>2
    <3>3. d \in Int /\ e \in Int /\ d <= e
      BY <1>3, <3>1, <3>2
    <3>4. \A c \in S : c <= d => c <= e
      BY <3>1, <3>3
    <3>5. QED
      BY <3>4
  <2>2. IsFiniteSet(E0) /\ Cardinality(D) <= Cardinality(E0)
    BY <1>1, <2>1, FS_Subset
  <2>3. Cardinality(E0) <= PageLimit
    BY DEF Page
  <2>4. Cardinality(D) \in Nat /\ Cardinality(E0) \in Nat /\ PageLimit \in Nat
    BY <2>1, <2>2, FS_Subset, FS_CardinalityType, ConstantsOK
  <2> HIDE DEF D, E0
  <2>5. Cardinality(D) <= PageLimit
    BY <2>2, <2>3, <2>4
  <2>6. QED
    BY <2>5 DEF D, Page
<1>4. Cardinality(Page(S)) = PageLimit => Page(S) # {}
  BY FS_EmptySet, ConstantsOK
<1>5. QED
  BY <1>2, <1>3, <1>4

LEMMA ShortPageIsAll ==
  ASSUME NEW n \in Nat, NEW S \in SUBSET (1..n), Cardinality(Page(S)) # PageLimit
  PROVE  Page(S) = S
<1> SUFFICES ASSUME Page(S) # S PROVE FALSE
  OBVIOUS
<1> DEFINE P == Page(S)
<1>1. P \subseteq S /\ IsFiniteSet(P) /\ \A d \in S, e \in P : d <= e => d \in P
  BY PageIsFirst
<1>2. S \ P \in SUBSET (1..n) /\ S \ P # {}
  BY <1>1
<1>3. PICK e \in S \ P : \A d \in S \ P : e <= d
  BY <1>2, LeastNumber
<1>4. {c \in S : c <= e} = P \cup {e}
  <2>1. \A c \in S : c \in Nat
    OBVIOUS
  <2> HIDE DEF P
  <2>2. \A c \in S : c <= e => c \in P \cup {e}
    BY <1>3, <2>1
  <2>3. \A c \in P : c <= e
    BY <1>1, <1>3, <2>1
  <2>4. QED
    BY <1>1, <1>3, <2>1, <2>2, <2>3
<1>5. ~(Cardinality(P \cup {e}) <= PageLimit)
  BY <1>3, <1>4 DEF Page
<1>6. Cardinality(P \cup {e}) = Cardinality(P) + 1 /\ Cardinality(P) \in Nat
  BY <1>1, <1>3, FS_AddElement, FS_CardinalityType
<1>7. PageLimit \in Nat \ {0}
  BY ConstantsOK
<1>8. Cardinality(P) < PageLimit \/ Cardinality(P) > PageLimit
  BY <1>6, <1>7
<1>9. Cardinality(P) > PageLimit
  BY <1>5, <1>6, <1>7, <1>8
<1>10. P # {}
  BY <1>7, <1>9, FS_EmptySet
<1>11. Max(P) \in P /\ \A d \in P : d <= Max(P)
  BY <1>1, <1>10, GreatestNumber
<1>12. {c \in S : c <= Max(P)} = P
  BY <1>1, <1>11
<1>13. Cardinality({c \in S : c <= Max(P)}) <= PageLimit
  BY <1>11 DEF Page
<1>14. QED
  BY <1>6, <1>7, <1>9, <1>12, <1>13

-----------------------------------------------------------------------------
(* AssetSync: the types.                                                   *)

LEMMA ConstantTypes ==
  /\ Window \in Nat \ {0} /\ PageLimit \in Nat \ {0}
  /\ MaxClock \in Nat /\ MaxAssets \in Nat /\ MaxChanges \in Nat /\ MaxFail \in Nat
  /\ Always \in Int /\ Always < 0
BY ConstantsOK DEF Always

Supplies == UNION {[S -> Change] : S \in SUBSET Ids}
ReadRows == UNION {[S -> Row] : S \in SUBSET Ids}

LEMMA SupplyTypes ==
  /\ \A f \in Supplies : DOMAIN f \subseteq Ids /\ f \in [DOMAIN f -> Change]
  /\ \A S \in SUBSET Ids : [S -> Change] \subseteq Supplies
  /\ \A f \in ReadRows : DOMAIN f \subseteq Ids /\ f \in [DOMAIN f -> Row]
  /\ \A S \in SUBSET Ids : [S -> Row] \subseteq ReadRows
BY DEF Supplies, ReadRows

SyncType ==
  [job : {"sync"}, at : {"find", "mark", "fetch", "store"}, from : From,
   start : Time, last : Ids \cup {0}, supply : Supplies]
SaveType == [job : {"price", "info"}, rows : ReadRows]

\* The job of a run tells what it holds.
LEMMA RunTypes ==
  ASSUME TypeOK, NEW w \in Workers
  PROVE  /\ run[w] = Idle \/ run[w] \in SyncType \/ run[w] \in SaveType
         /\ run[w].job = "sync" => run[w] \in SyncType /\ run[w] # Idle
         /\ run[w].job \in {"price", "info"} => run[w] \in SaveType /\ run[w] # Idle
         /\ run[w] # Idle => run[w].job \in {"sync", "price", "info"}
<1>1. run[w] \in {Idle} \cup SyncType \cup SaveType
  BY DEF TypeOK, SyncType, SaveType, Sync, Save, Supplies, ReadRows
<1>2. CASE run[w] = Idle
  BY <1>2 DEF Idle
<1>3. CASE run[w] \in SyncType
  BY <1>3 DEF SyncType, Idle
<1>4. CASE run[w] \in SaveType
  BY <1>4 DEF SaveType, Idle
<1>5. QED
  BY <1>1, <1>2, <1>3, <1>4

LEMMA RunChanges ==
  ASSUME TypeOK, NEW w \in Workers, NEW q \in {Idle} \cup SyncType \cup SaveType,
         run' = [run EXCEPT ![w] = q]
  PROVE  run' \in [Workers -> {Idle} \cup Sync \cup Save]
BY DEF TypeOK, SyncType, SaveType, Sync, Save, Supplies, ReadRows

OtherTypes ==
  /\ clock \in Time
  /\ indexed \in Seq(Indexed) /\ Len(indexed) <= MaxAssets
  /\ asset \in [Ids -> Row]
  /\ mark \in BOOLEAN
  /\ changes \in 0..MaxChanges /\ fails \in 0..MaxFail
  /\ begun \in Time \cup {Always} /\ late \in BOOLEAN
  /\ swept \subseteq Time /\ best \in [Ids -> 0..MaxChanges]
  /\ overlapped \in BOOLEAN

LEMMA IndexerTypes ==
  ASSUME TypeOK, Tick \/ Add \/ ChangeSupply
  PROVE  TypeOK'
<1>1. CASE Tick
  <2>1. clock' \in Time
    BY <1>1, ConstantTypes DEF Tick, TypeOK, Time
  <2>2. QED
    BY <1>1, <2>1 DEF Tick, TypeOK, history
<1>2. ASSUME NEW table, ChangeIndexed(table), table \in Seq(Indexed), Len(table) <= MaxAssets
      PROVE  TypeOK'
  <2>1. changes' \in 0..MaxChanges
    BY <1>2, ConstantTypes DEF ChangeIndexed, TypeOK
  <2>2. QED
    BY <1>2, <2>1 DEF ChangeIndexed, TypeOK, history
<1>3. changes < MaxChanges => Changed \in Indexed
  BY ConstantTypes DEF TypeOK, Changed, Indexed, Change
<1>4. CASE Add
  <2>1. Append(indexed, Changed) \in Seq(Indexed) /\ Len(Append(indexed, Changed)) = Len(indexed) + 1
    BY <1>3, <1>4 DEF TypeOK, Add, ChangeIndexed
  <2>2. Len(Append(indexed, Changed)) <= MaxAssets
    BY <1>4, <2>1, ConstantTypes DEF TypeOK, Add
  <2>3. QED
    BY <1>2, <1>4, <2>1, <2>2 DEF Add
<1>5. CASE ChangeSupply
  <2>1. PICK d \in DOMAIN indexed : ChangeIndexed([indexed EXCEPT ![d] = Changed])
    BY <1>5 DEF ChangeSupply
  <2>2. [indexed EXCEPT ![d] = Changed] \in Seq(Indexed)
    BY <1>3, <2>1 DEF TypeOK, ChangeIndexed
  <2>3. Len([indexed EXCEPT ![d] = Changed]) = Len(indexed)
    BY DEF TypeOK
  <2>4. QED
    BY <1>2, <2>1, <2>2, <2>3 DEF TypeOK
<1>6. QED
  BY <1>1, <1>4, <1>5

LEMMA BeginTypes ==
  ASSUME TypeOK, NEW w \in Workers, BeginSync(w) \/ ReadForPrice(w) \/ ReadForInfo(w)
  PROVE  TypeOK'
<1>1. ASSUME NEW q \in SyncType \cup SaveType, Begin(w, q), begun' \in Time \cup {Always},
             late' \in BOOLEAN
      PROVE  TypeOK'
  <2>1. run' \in [Workers -> {Idle} \cup Sync \cup Save]
    BY <1>1, RunChanges DEF Begin
  <2>2. OtherTypes'
    BY <1>1 DEF Begin, TypeOK, OtherTypes
  <2>3. QED
    BY <2>1, <2>2 DEF TypeOK, OtherTypes
<1>2. CASE BeginSync(w)
  <2> DEFINE q == [job |-> "sync", at |-> "find", from |-> Since(clock), start |-> clock,
                   last |-> 0, supply |-> NoRows]
  <2>1. NoRows \in Supplies
    <3>1. NoRows \in [{} -> Change]
      BY DEF NoRows
    <3>2. QED
      BY <3>1, SupplyTypes
  <2>2. Since(clock) \in From
    BY ConstantTypes DEF Since, From, TypeOK, Time, Always
  <2>3. q \in SyncType
    BY <2>1, <2>2 DEF SyncType, TypeOK
  <2>4. late' \in BOOLEAN /\ begun' \in Time \cup {Always} /\ Begin(w, q)
    BY <1>2 DEF BeginSync, TypeOK
  <2> HIDE DEF q
  <2>5. QED
    BY <1>1, <2>3, <2>4
<1>3. ASSUME NEW kind \in {"price", "info"}, NEW S \in SUBSET Rows,
             Begin(w, [job |-> kind, rows |-> [d \in S |-> asset[d]]]), UNCHANGED <<begun, late>>
      PROVE  TypeOK'
  <2>1. S \in SUBSET Ids /\ [d \in S |-> asset[d]] \in [S -> Row]
    BY DEF Rows, TypeOK
  <2>2. [d \in S |-> asset[d]] \in ReadRows
    BY <2>1, SupplyTypes
  <2>3. [job |-> kind, rows |-> [d \in S |-> asset[d]]] \in SaveType
    BY <2>2 DEF SaveType
  <2>4. begun' \in Time \cup {Always} /\ late' \in BOOLEAN
    BY <1>3 DEF TypeOK
  <2>5. QED
    BY <1>1, <1>3, <2>3, <2>4
<1>4. CASE ReadForPrice(w) \/ ReadForInfo(w)
  BY <1>3, <1>4 DEF ReadForPrice, ReadForInfo
<1>5. QED
  BY <1>2, <1>4

\* A run of syncAsset goes on with a record of its own.
LEMMA StepTypes ==
  ASSUME TypeOK, NEW w \in Workers, FindMark(w) \/ SetMark(w) \/ FetchPage(w) \/ Store(w)
  PROVE  TypeOK'
<1>1. run[w] \in SyncType
  BY RunTypes DEF FindMark, SetMark, FetchPage, Store, At
<1>2. ASSUME NEW q \in {Idle} \cup SyncType, run' = [run EXCEPT ![w] = q], OtherTypes'
      PROVE  TypeOK'
  <2>1. run' \in [Workers -> {Idle} \cup Sync \cup Save]
    BY <1>2, RunChanges
  <2>2. QED
    BY <1>2, <2>1 DEF TypeOK, OtherTypes
<1>3. [run[w] EXCEPT !.at = "fetch"] \in SyncType
  BY <1>1 DEF SyncType
<1>4. run' = [run EXCEPT ![w].at = "fetch"] => run' = [run EXCEPT ![w] = [run[w] EXCEPT !.at = "fetch"]]
  OBVIOUS
<1>5. CASE FindMark(w)
  <2>1. OtherTypes'
    BY <1>5 DEF FindMark, TypeOK, OtherTypes, history
  <2>2. CASE mark
    BY <1>2, <1>3, <1>4, <1>5, <2>1, <2>2 DEF FindMark, Goto
  <2>3. CASE ~mark
    <3>1. run' = [run EXCEPT ![w] = [run[w] EXCEPT !.at = "mark", !.from = Always]]
      BY <1>5, <2>3 DEF FindMark, TypeOK
    <3>2. Always \in From
      BY ConstantTypes DEF From
    <3>3. [run[w] EXCEPT !.at = "mark", !.from = Always] \in SyncType
      BY <1>1, <3>2 DEF SyncType
    <3>4. QED
      BY <1>2, <2>1, <3>1, <3>3
  <2>4. QED
    BY <2>2, <2>3
<1>6. CASE SetMark(w)
  <2>1. OtherTypes'
    BY <1>6 DEF SetMark, TypeOK, OtherTypes, history
  <2>2. QED
    BY <1>2, <1>3, <1>4, <1>6, <2>1 DEF SetMark, Goto
<1>7. CASE FetchPage(w)
  <2>1. OtherTypes'
    BY <1>7 DEF FetchPage, TypeOK, OtherTypes, history
  <2> DEFINE response == Page(Newer(run[w].from, run[w].last))
             supply == [d \in DOMAIN run[w].supply \cup response |->
                          IF d \in response THEN indexed[d].supply ELSE run[w].supply[d]]
  <2>2. DOMAIN indexed = 1..Len(indexed) /\ Len(indexed) \in Nat /\ DOMAIN indexed \subseteq Ids
    BY ConstantTypes DEF TypeOK, Ids
  <2>3. Newer(run[w].from, run[w].last) \in SUBSET (1..Len(indexed))
    BY <2>2 DEF Newer
  <2>4. /\ response \subseteq DOMAIN indexed
        /\ Cardinality(response) = PageLimit => response # {}
    BY <2>2, <2>3, PageIsFirst
  <2>5. supply \in Supplies
    <3>1. run[w].supply \in Supplies
      BY <1>1 DEF SyncType
    <3>2. DOMAIN run[w].supply \subseteq Ids /\ run[w].supply \in [DOMAIN run[w].supply -> Change]
      BY <3>1, SupplyTypes
    <3>3. \A d \in DOMAIN indexed : indexed[d].supply \in Change
      <4>1. \A d \in DOMAIN indexed : indexed[d] \in Indexed
        BY <2>2 DEF TypeOK
      <4>2. QED
        BY <4>1 DEF Indexed
    <3> HIDE DEF response
    <3>4. supply \in [DOMAIN run[w].supply \cup response -> Change]
      BY <2>4, <3>2, <3>3
    <3>5. DOMAIN run[w].supply \cup response \in SUBSET Ids
      BY <2>2, <2>4, <3>2
    <3>6. QED
      BY <3>4, <3>5, SupplyTypes
  <2>6. CASE Cardinality(response) = PageLimit
    <3>1. Max(response) \in response
      <4> HIDE DEF response
      <4>1. QED
        BY <2>2, <2>4, <2>6, GreatestNumber
    <3> DEFINE q == [run[w] EXCEPT !.supply = supply, !.last = Max(response)]
    <3>2. run' = [run EXCEPT ![w] = q]
      BY <1>7, <2>6 DEF FetchPage, TypeOK
    <3> HIDE DEF response, supply
    <3>3. Max(response) \in Ids
      BY <2>2, <2>4, <3>1
    <3>4. q \in SyncType
      BY <1>1, <2>5, <3>3 DEF SyncType
    <3> HIDE DEF q
    <3>5. QED
      BY <1>2, <2>1, <3>2, <3>4
  <2>7. CASE Cardinality(response) # PageLimit
    <3> DEFINE q == [run[w] EXCEPT !.supply = supply, !.at = "store"]
    <3>1. run' = [run EXCEPT ![w] = q]
      BY <1>7, <2>7 DEF FetchPage, TypeOK
    <3> HIDE DEF response, supply
    <3>2. q \in SyncType
      BY <1>1, <2>5 DEF SyncType
    <3> HIDE DEF q
    <3>3. QED
      BY <1>2, <2>1, <3>1, <3>2
  <2>8. QED
    BY <2>6, <2>7
<1>8. CASE Store(w)
  <2> DEFINE q == run[w]
             table == [d \in Ids |-> IF d \in DOMAIN q.supply THEN Stored(asset[d], q.supply[d])
                                     ELSE asset[d]]
  <2>1. q.supply \in [DOMAIN q.supply -> Change]
    BY <1>1, SupplyTypes DEF SyncType
  <2>2. table \in [Ids -> Row]
    BY <2>1 DEF TypeOK, Row, Stored
  <2>3. asset' = table /\ best' = [d \in Ids |-> IF table[d].supply > best[d] THEN table[d].supply ELSE best[d]]
    BY <1>8 DEF Store, Write
  <2> HIDE DEF table
  <2>4. best' \in [Ids -> 0..MaxChanges]
    <3>1. \A d \in Ids : table[d].supply \in 0..MaxChanges
      BY <2>2, ConstantTypes DEF Row, Change
    <3>2. QED
      BY <2>3, <3>1 DEF TypeOK
  <2>5. swept' \subseteq Time
    BY <1>8 DEF Store, TypeOK
  <2>6. OtherTypes'
    BY <1>8, <2>2, <2>3, <2>4, <2>5 DEF Store, TypeOK, OtherTypes
  <2>7. QED
    BY <1>2, <1>8, <2>6 DEF Store, Finish
<1>9. QED
  BY <1>5, <1>6, <1>7, <1>8

LEMMA SaveTypes ==
  ASSUME TypeOK, NEW w \in Workers, SaveRows(w)
  PROVE  TypeOK'
<1>1. run[w] \in SaveType
  BY RunTypes DEF SaveRows
<1> DEFINE old == run[w].rows
<1>2. DOMAIN old \subseteq Ids /\ old \in [DOMAIN old -> Row]
  BY <1>1, SupplyTypes DEF SaveType
<1>3. PICK names \in SUBSET DOMAIN old :
        Write([d \in Ids |-> IF d \notin DOMAIN old THEN asset[d]
                             ELSE [old[d] EXCEPT !.named = @ \/ d \in names]])
  <2>1. PICK names \in SUBSET IF run[w].job = "info" THEN DOMAIN old ELSE {} :
          Write([d \in Ids |-> IF d \notin DOMAIN old THEN asset[d]
                               ELSE [old[d] EXCEPT !.named = @ \/ d \in names]])
    BY DEF SaveRows
  <2>2. names \in SUBSET DOMAIN old
    OBVIOUS
  <2>3. QED
    BY <2>1, <2>2
<1> DEFINE table == [d \in Ids |-> IF d \notin DOMAIN old THEN asset[d]
                                   ELSE [old[d] EXCEPT !.named = @ \/ d \in names]]
<1>4. table \in [Ids -> Row]
  <2>1. ASSUME NEW d \in DOMAIN old PROVE [old[d] EXCEPT !.named = @ \/ d \in names] \in Row
    <3>1. old[d] \in Row
      BY <1>2, <2>1
    <3>2. (old[d].named \/ d \in names) \in BOOLEAN
      OBVIOUS
    <3>3. QED
      BY <3>1, <3>2 DEF Row
  <2>2. QED
    BY <2>1 DEF TypeOK
<1>5. asset' = table /\ best' = [d \in Ids |-> IF table[d].supply > best[d] THEN table[d].supply ELSE best[d]]
  BY <1>3 DEF Write
<1> HIDE DEF table, old
<1>6. best' \in [Ids -> 0..MaxChanges]
  <2>1. \A d \in Ids : table[d].supply \in 0..MaxChanges
    BY <1>4, ConstantTypes DEF Row, Change
  <2>2. QED
    BY <1>5, <2>1 DEF TypeOK
<1>7. run' = [run EXCEPT ![w] = Idle]
  BY DEF SaveRows, Finish
<1>8. run' \in [Workers -> {Idle} \cup Sync \cup Save]
  BY <1>7, RunChanges
<1>9. QED
  BY <1>4, <1>5, <1>6, <1>8 DEF SaveRows, TypeOK

LEMMA FailTypes ==
  ASSUME TypeOK, Crash \/ \E w \in Workers : FailRun(w)
  PROVE  TypeOK'
<1>1. fails' \in 0..MaxFail
  BY ConstantTypes DEF Crash, FailRun, TypeOK
<1>2. run' \in [Workers -> {Idle} \cup Sync \cup Save]
  <2>1. CASE Crash
    BY <2>1 DEF Crash
  <2>2. ASSUME NEW w \in Workers, FailRun(w)
        PROVE  run' \in [Workers -> {Idle} \cup Sync \cup Save]
    BY <2>2, RunChanges DEF FailRun, Finish
  <2>3. QED
    BY <2>1, <2>2
<1>3. QED
  BY <1>1, <1>2 DEF Crash, FailRun, TypeOK, history

LEMMA AssetTypes ==
  /\ Init => TypeOK
  /\ TypeOK /\ [Next]_vars => TypeOK'
<1>1. Init => TypeOK
  <2> SUFFICES ASSUME Init PROVE TypeOK
    OBVIOUS
  <2>1. 0 \in Time /\ 0 \in 0..MaxFail /\ 0 \in 0..MaxChanges
    BY ConstantTypes DEF Time
  <2>2. NoRow \in Row
    BY DEF NoRow, Row
  <2>3. indexed \in Seq(Indexed) /\ Len(indexed) <= MaxAssets
    BY ConstantTypes DEF Init
  <2>4. QED
    BY <2>1, <2>2, <2>3 DEF Init, TypeOK
<1>2. ASSUME TypeOK, [Next]_vars PROVE TypeOK'
  <2>1. CASE Next
    BY <1>2, <2>1, IndexerTypes, BeginTypes, StepTypes, SaveTypes, FailTypes DEF Next, Step
  <2>2. CASE UNCHANGED vars
    BY <1>2, <2>2 DEF vars, history, TypeOK
  <2>3. QED
    BY <1>2, <2>1, <2>2
<1>3. QED
  BY <1>1, <1>2

-----------------------------------------------------------------------------
(* AssetSync: what is stored.  A supply is the number of its change, so    *)
(* that a newer one is greater.                                            *)

Known(d) == IF d \in DOMAIN indexed THEN indexed[d].supply ELSE 0

\* A run has no supply that the indexer had not; when it has read the page of
\* an asset that changed in its minute, it has the present one.
SyncHolds(q) ==
  /\ q.start <= clock
  /\ \A d \in DOMAIN q.supply : q.supply[d] <= Known(d)
  /\ q.at \in {"find", "mark"} => q.last = 0
  /\ q.at \in {"fetch", "store"} =>
       \A d \in DOMAIN indexed :
         q.from <= indexed[d].at /\ indexed[d].at < q.start /\ (q.at = "store" \/ d <= q.last)
           => d \in DOMAIN q.supply /\ q.supply[d] = indexed[d].supply
SaveHolds(q) == \A d \in DOMAIN q.rows : q.rows[d].supply <= best[d]
RunsHold ==
  \A w \in Workers :
    /\ run[w].job = "sync" => SyncHolds(run[w])
    /\ run[w].job \in {"price", "info"} => SaveHolds(run[w])

\* Nothing is stored but what the indexer had, and all that was swept.
NumbersRise ==
  /\ \A d \in DOMAIN indexed : indexed[d].supply <= changes /\ indexed[d].at <= clock
  /\ \A d \in Ids : asset[d].supply <= best[d] /\ best[d] <= Known(d)
  /\ \A t \in swept : t < clock
SweptWasStored ==
  \A d \in DOMAIN indexed : indexed[d].at \in swept => best[d] = indexed[d].supply

\* A run that is alone never takes a supply back.
AloneRun ==
  ~overlapped =>
    /\ \A v, w \in Workers : run[v] # Idle /\ run[w] # Idle => v = w
    /\ \A d \in Ids : asset[d].supply = best[d]
    /\ \A w \in Workers :
         /\ run[w].job = "sync" =>
              \A d \in DOMAIN run[w].supply : best[d] <= run[w].supply[d]
         /\ run[w].job \in {"price", "info"} =>
              \A d \in DOMAIN run[w].rows : run[w].rows[d].supply = asset[d].supply

StoredInv == RunsHold /\ NumbersRise /\ SweptWasStored /\ AloneRun

\* The numbers that the comparisons are about.
LEMMA NumberTypes ==
  ASSUME TypeOK
  PROVE  /\ clock \in Nat /\ changes \in Nat /\ swept \subseteq Nat
         /\ DOMAIN indexed \subseteq Ids /\ DOMAIN indexed = 1..Len(indexed)
         /\ Len(indexed) \in Nat
         /\ \A d \in DOMAIN indexed : indexed[d].supply \in Nat \ {0} /\ indexed[d].at \in Nat
         /\ \A d \in Ids : asset[d].supply \in Nat /\ best[d] \in Nat /\ Known(d) \in Nat
         /\ \A w \in Workers : run[w].job = "sync" =>
              /\ run[w].start \in Nat /\ run[w].from \in Int /\ run[w].last \in Nat
              /\ run[w].at \in {"find", "mark", "fetch", "store"}
              /\ DOMAIN run[w].supply \subseteq Ids
              /\ \A d \in DOMAIN run[w].supply : run[w].supply[d] \in Nat
         /\ \A w \in Workers : run[w].job \in {"price", "info"} =>
              /\ DOMAIN run[w].rows \subseteq Ids
              /\ \A d \in DOMAIN run[w].rows : run[w].rows[d] \in Row /\ run[w].rows[d].supply \in Nat
<1>1. clock \in Nat /\ changes \in Nat /\ swept \subseteq Nat
  BY ConstantTypes DEF TypeOK, Time
<1>2. DOMAIN indexed \subseteq Ids /\ DOMAIN indexed = 1..Len(indexed) /\ Len(indexed) \in Nat
  BY ConstantTypes DEF TypeOK, Ids
<1>3. \A d \in DOMAIN indexed : indexed[d].supply \in Nat \ {0} /\ indexed[d].at \in Nat
  <2>1. \A d \in DOMAIN indexed : indexed[d] \in Indexed
    BY <1>2 DEF TypeOK
  <2>2. QED
    BY <2>1, ConstantTypes DEF Indexed, Change, Time
<1>4. \A d \in Ids : asset[d].supply \in Nat /\ best[d] \in Nat
  <2>1. \A d \in Ids : asset[d] \in Row /\ best[d] \in 0..MaxChanges
    BY DEF TypeOK
  <2>2. QED
    BY <2>1, ConstantTypes DEF Row, Change
<1>5. \A d \in Ids : Known(d) \in Nat
  BY <1>3 DEF Known
<1>6. ASSUME NEW w \in Workers, run[w].job = "sync"
      PROVE  /\ run[w].start \in Nat /\ run[w].from \in Int /\ run[w].last \in Nat
             /\ run[w].at \in {"find", "mark", "fetch", "store"}
             /\ DOMAIN run[w].supply \subseteq Ids
             /\ \A d \in DOMAIN run[w].supply : run[w].supply[d] \in Nat
  <2>1. run[w] \in SyncType
    BY <1>6, RunTypes
  <2>2. /\ run[w].start \in Time /\ run[w].from \in From /\ run[w].last \in Ids \cup {0}
        /\ run[w].at \in {"find", "mark", "fetch", "store"} /\ run[w].supply \in Supplies
    BY <2>1 DEF SyncType
  <2>3. run[w].start \in Nat /\ run[w].from \in Int /\ run[w].last \in Nat
    BY <2>2, ConstantTypes DEF Time, From, Ids
  <2>4. /\ DOMAIN run[w].supply \subseteq Ids
        /\ \A d \in DOMAIN run[w].supply : run[w].supply[d] \in Change
    BY <2>2, SupplyTypes
  <2>5. Change \subseteq Nat
    BY ConstantTypes DEF Change
  <2>6. QED
    BY <2>2, <2>3, <2>4, <2>5
<1>7. ASSUME NEW w \in Workers, run[w].job \in {"price", "info"}
      PROVE  /\ DOMAIN run[w].rows \subseteq Ids
             /\ \A d \in DOMAIN run[w].rows : run[w].rows[d] \in Row /\ run[w].rows[d].supply \in Nat
  <2>1. run[w] \in SaveType
    BY <1>7, RunTypes
  <2>2. run[w].rows \in ReadRows
    BY <2>1 DEF SaveType
  <2>3. /\ DOMAIN run[w].rows \subseteq Ids
        /\ \A d \in DOMAIN run[w].rows : run[w].rows[d] \in Row
    BY <2>2, SupplyTypes
  <2>4. \A r \in Row : r.supply \in Nat
    BY ConstantTypes DEF Row, Change
  <2>5. QED
    BY <2>3, <2>4
<1>8. QED
  BY <1>1, <1>2, <1>3, <1>4, <1>5, <1>6, <1>7

\* An asset that changes has a greater supply, and a time that no run has
\* asked for.
LEMMA IndexerMoves ==
  ASSUME TypeOK, NumbersRise, Tick \/ Add \/ ChangeSupply
  PROVE  /\ clock' \in Nat /\ clock <= clock' /\ changes' \in Nat /\ changes <= changes'
         /\ DOMAIN indexed \subseteq DOMAIN indexed'
         /\ \A d \in DOMAIN indexed' :
              \/ d \in DOMAIN indexed /\ indexed'[d] = indexed[d]
              \/ /\ indexed'[d].at = clock /\ clock' = clock
                 /\ indexed'[d].supply = changes' /\ changes < changes'
         /\ UNCHANGED <<asset, mark, run, fails, history>>
<1>1. clock \in Nat /\ changes \in Nat
  BY NumberTypes
<1>2. CASE Tick
  BY <1>1, <1>2 DEF Tick
<1>3. CASE Add
  <2>1. indexed' = Append(indexed, Changed) /\ changes' = changes + 1 /\ clock' = clock
    BY <1>3 DEF Add, ChangeIndexed
  <2>2. DOMAIN indexed = 1..Len(indexed) /\ DOMAIN indexed' = 1..(Len(indexed) + 1)
    BY <2>1 DEF TypeOK
  <2>3. \A d \in DOMAIN indexed' : indexed'[d] = IF d \in DOMAIN indexed THEN indexed[d] ELSE Changed
    BY <2>1, <2>2 DEF TypeOK
  <2>4. QED
    BY <1>1, <1>3, <2>1, <2>2, <2>3, NumberTypes DEF Add, ChangeIndexed, Changed
<1>4. CASE ChangeSupply
  <2>1. PICK c \in DOMAIN indexed : ChangeIndexed([indexed EXCEPT ![c] = Changed])
    BY <1>4 DEF ChangeSupply
  <2>2. /\ indexed' = [indexed EXCEPT ![c] = Changed] /\ changes' = changes + 1 /\ clock' = clock
        /\ UNCHANGED <<asset, mark, run, fails, history>>
    BY <2>1 DEF ChangeIndexed
  <2>3. DOMAIN indexed' = DOMAIN indexed
    BY <2>2
  <2>4. \A d \in DOMAIN indexed : indexed'[d] = IF d = c THEN Changed ELSE indexed[d]
    BY <2>2
  <2>5. QED
    BY <1>1, <2>2, <2>3, <2>4 DEF Changed
<1>5. QED
  BY <1>2, <1>3, <1>4

LEMMA IndexerStored ==
  ASSUME TypeOK, StoredInv, Tick \/ Add \/ ChangeSupply
  PROVE  StoredInv'
<1>1. /\ clock' \in Nat /\ clock <= clock' /\ changes' \in Nat /\ changes <= changes'
      /\ DOMAIN indexed \subseteq DOMAIN indexed'
      /\ \A d \in DOMAIN indexed' :
           \/ d \in DOMAIN indexed /\ indexed'[d] = indexed[d]
           \/ /\ indexed'[d].at = clock /\ clock' = clock
              /\ indexed'[d].supply = changes' /\ changes < changes'
      /\ UNCHANGED <<asset, mark, run, fails, history>>
  BY IndexerMoves DEF StoredInv
<1>2. UNCHANGED <<asset, mark, run, fails, begun, late, swept, best, overlapped>>
  BY <1>1 DEF history
<1>3. clock \in Nat /\ changes \in Nat /\ swept \subseteq Nat
  BY NumberTypes
<1>4. \A d \in Ids : Known(d) <= Known(d)'
  <2> SUFFICES ASSUME NEW d \in Ids PROVE Known(d) <= Known(d)'
    OBVIOUS
  <2>1. CASE d \in DOMAIN indexed
    <3>1. d \in DOMAIN indexed' /\ indexed[d].supply <= changes /\ indexed[d].supply \in Nat
      BY <1>1, <2>1, NumberTypes DEF StoredInv, NumbersRise
    <3>2. indexed'[d] = indexed[d] \/ (indexed'[d].supply = changes' /\ changes < changes')
      BY <1>1, <3>1
    <3>3. indexed[d].supply <= indexed'[d].supply
      BY <1>1, <1>3, <3>1, <3>2
    <3>4. QED
      BY <2>1, <3>1, <3>3 DEF Known
  <2>2. CASE d \notin DOMAIN indexed
    <3>1. Known(d) = 0
      BY <2>2 DEF Known
    <3>2. CASE d \in DOMAIN indexed'
      <4>1. indexed'[d].supply = changes'
        BY <1>1, <2>2, <3>2
      <4>2. QED
        BY <1>1, <3>1, <3>2, <4>1 DEF Known
    <3>3. CASE d \notin DOMAIN indexed'
      BY <3>1, <3>3 DEF Known
    <3>4. QED
      BY <3>2, <3>3
  <2>3. QED
    BY <2>1, <2>2
<1>5. \A d \in Ids : Known(d) \in Nat /\ Known(d)' \in Nat
  <2>1. \A d \in Ids : Known(d) \in Nat
    BY NumberTypes
  <2>2. \A d \in DOMAIN indexed' : indexed'[d].supply \in Nat
    BY <1>1, NumberTypes
  <2>3. QED
    BY <2>1, <2>2 DEF Known
<1>6. NumbersRise'
  <2>1. \A d \in Ids : asset'[d].supply <= best'[d] /\ best'[d] <= Known(d)'
    BY <1>2, <1>4, <1>5, NumberTypes DEF StoredInv, NumbersRise
  <2>2. ASSUME NEW t \in swept' PROVE t < clock'
    <3>1. t \in swept /\ t \in Nat
      BY <1>2, <1>3, <2>2
    <3>2. t < clock
      BY <3>1 DEF StoredInv, NumbersRise
    <3>3. QED
      BY <1>1, <1>3, <3>1, <3>2
  <2>3. ASSUME NEW d \in DOMAIN indexed' PROVE indexed'[d].supply <= changes' /\ indexed'[d].at <= clock'
    <3>1. CASE d \in DOMAIN indexed /\ indexed'[d] = indexed[d]
      <4>1. indexed[d].supply <= changes /\ indexed[d].at <= clock
        BY <3>1 DEF StoredInv, NumbersRise
      <4>2. indexed[d].supply \in Nat /\ indexed[d].at \in Nat
        BY <3>1, NumberTypes
      <4>3. QED
        BY <1>1, <1>3, <3>1, <4>1, <4>2
    <3>2. QED
      BY <1>1, <1>3, <2>3, <3>1
  <2>4. QED
    BY <2>1, <2>2, <2>3 DEF NumbersRise
<1>7. SweptWasStored'
  BY <1>1, <1>2, <1>3 DEF StoredInv, NumbersRise, SweptWasStored
<1>8. ASSUME NEW w \in Workers, run[w].job = "sync" PROVE SyncHolds(run[w])'
  <2> DEFINE q == run[w]
  <2>1. SyncHolds(q) /\ q' = q
    BY <1>2, <1>8 DEF StoredInv, RunsHold
  <2>2. /\ q.start \in Nat /\ q.from \in Int /\ DOMAIN q.supply \subseteq Ids
        /\ \A d \in DOMAIN q.supply : q.supply[d] \in Nat
    BY <1>8, NumberTypes
  <2>3. q.start <= clock' /\ \A d \in DOMAIN q.supply : q.supply[d] <= Known(d)'
    <3>1. \A d \in DOMAIN q.supply : q.supply[d] <= Known(d) /\ d \in Ids
      BY <2>1, <2>2 DEF SyncHolds
    <3>2. q.start <= clock
      BY <2>1 DEF SyncHolds
    <3> HIDE DEF q
    <3>3. QED
      BY <1>1, <1>3, <1>4, <1>5, <2>2, <3>1, <3>2
  <2>4. ASSUME NEW d \in DOMAIN indexed', q.from <= indexed'[d].at, indexed'[d].at < q.start
        PROVE  d \in DOMAIN indexed /\ indexed'[d] = indexed[d]
    <3>1. q.start <= clock
      BY <2>1 DEF SyncHolds
    <3> HIDE DEF q
    <3>2. QED
      BY <1>1, <1>3, <2>2, <2>4, <3>1
  <2> HIDE DEF q
  <2>5. SyncHolds(q)'
    BY <1>2, <2>1, <2>3, <2>4 DEF SyncHolds
  <2>6. QED
    BY <2>5 DEF q
<1>9. RunsHold'
  BY <1>2, <1>8 DEF StoredInv, RunsHold, SaveHolds
<1>10. AloneRun'
  BY <1>2 DEF StoredInv, AloneRun
<1>11. QED
  BY <1>6, <1>7, <1>9, <1>10 DEF StoredInv

LEMMA BeginStored ==
  ASSUME TypeOK, StoredInv, NEW w \in Workers,
         BeginSync(w) \/ ReadForPrice(w) \/ ReadForInfo(w)
  PROVE  StoredInv'
<1>1. PICK q : Begin(w, q) /\ \/ q = [job |-> "sync", at |-> "find", from |-> Since(clock),
                                      start |-> clock, last |-> 0, supply |-> NoRows]
                              \/ \E kind \in {"price", "info"}, S \in SUBSET Rows :
                                   q = [job |-> kind, rows |-> [d \in S |-> asset[d]]]
  <2>1. CASE BeginSync(w)
    BY <2>1 DEF BeginSync
  <2>2. CASE ReadForPrice(w)
    BY <2>2 DEF ReadForPrice
  <2>3. CASE ReadForInfo(w)
    <3>1. PICK S \in SUBSET {d \in Rows : ~asset[d].named} :
            Begin(w, [job |-> "info", rows |-> [d \in S |-> asset[d]]])
      BY <2>3 DEF ReadForInfo
    <3>2. S \in SUBSET Rows
      OBVIOUS
    <3>3. QED
      BY <3>1, <3>2
  <2>4. QED
    BY <2>1, <2>2, <2>3
<1>2. /\ run[w] = Idle /\ run' = [run EXCEPT ![w] = q]
      /\ overlapped' = (overlapped \/ \E v \in Workers : run[v] # Idle)
      /\ UNCHANGED <<clock, indexed, asset, mark, changes, fails, swept, best>>
  BY <1>1 DEF Begin
<1>3. \A v \in Workers : run'[v] = IF v = w THEN q ELSE run[v]
  BY <1>2 DEF TypeOK
<1>4. Rows \subseteq Ids
  BY DEF Rows
<1>5. q.job = "sync" => q.start = clock /\ q.last = 0 /\ q.at = "find" /\ DOMAIN q.supply = {}
  BY <1>1 DEF NoRows
<1>6. q.job \in {"price", "info"} =>
        DOMAIN q.rows \subseteq Ids /\ \A d \in DOMAIN q.rows : q.rows[d] = asset[d]
  BY <1>1, <1>4
<1> HIDE <1>1
<1>7. RunsHold'
  <2>1. q.job = "sync" => SyncHolds(q)'
    BY <1>2, <1>5, NumberTypes DEF SyncHolds
  <2>2. q.job \in {"price", "info"} => SaveHolds(q)'
    BY <1>2, <1>6 DEF SaveHolds, StoredInv, NumbersRise
  <2>3. \A v \in Workers : v # w =>
          /\ run[v].job = "sync" => SyncHolds(run[v])'
          /\ run[v].job \in {"price", "info"} => SaveHolds(run[v])'
    BY <1>2, <1>3 DEF StoredInv, RunsHold, SyncHolds, SaveHolds, Known
  <2>4. QED
    BY <1>3, <2>1, <2>2, <2>3 DEF RunsHold
<1>8. NumbersRise' /\ SweptWasStored'
  BY <1>2 DEF StoredInv, NumbersRise, SweptWasStored, Known
<1>9. AloneRun'
  <2> SUFFICES ASSUME ~overlapped' PROVE AloneRun'
    BY DEF AloneRun
  <2>1. ~overlapped /\ \A v \in Workers : run[v] = Idle
    BY <1>2
  <2>2. \A d \in Ids : asset[d].supply = best[d]
    BY <2>1 DEF StoredInv, AloneRun
  <2>3. Idle.job \notin {"sync", "price", "info"}
    BY DEF Idle
  <2>4. \A v \in Workers : run'[v] # Idle \/ run'[v].job \in {"sync", "price", "info"} => v = w
    BY <1>3, <2>1, <2>3
  <2>5. QED
    BY <1>2, <1>3, <1>5, <1>6, <2>2, <2>4 DEF AloneRun
<1>10. QED
  BY <1>7, <1>8, <1>9 DEF StoredInv

\* A run goes on, and nothing else changes.
LEMMA OneRunStored ==
  ASSUME TypeOK, StoredInv, NEW w \in Workers, NEW q,
         run[w].job = "sync", q.job = "sync", run' = [run EXCEPT ![w] = q], SyncHolds(q),
         ~overlapped => \A d \in DOMAIN q.supply : best[d] <= q.supply[d],
         UNCHANGED <<clock, indexed, asset, changes, swept, best, overlapped>>
  PROVE  StoredInv'
<1>1. \A v \in Workers : run'[v] = IF v = w THEN q ELSE run[v]
  BY DEF TypeOK
<1>2. RunsHold'
  BY <1>1 DEF StoredInv, RunsHold, SyncHolds, SaveHolds, Known
<1>3. NumbersRise' /\ SweptWasStored'
  BY DEF StoredInv, NumbersRise, SweptWasStored, Known
<1>4. run[w] # Idle
  BY DEF Idle
<1>5. AloneRun'
  BY <1>1, <1>4 DEF StoredInv, AloneRun
<1>6. QED
  BY <1>2, <1>3, <1>5 DEF StoredInv

LEMMA MarkStored ==
  ASSUME TypeOK, StoredInv, NEW w \in Workers, FindMark(w) \/ SetMark(w)
  PROVE  StoredInv'
<1>1. run[w].job = "sync" /\ run[w].at \in {"find", "mark"} /\ run[w] \in SyncType
  BY RunTypes DEF FindMark, SetMark, At
<1>2. UNCHANGED <<clock, indexed, asset, changes, swept, best, overlapped>>
  BY DEF FindMark, SetMark, history
<1>3. SyncHolds(run[w]) /\ run[w].last = 0
  BY <1>1 DEF StoredInv, RunsHold, SyncHolds
<1>4. ~overlapped => \A d \in DOMAIN run[w].supply : best[d] <= run[w].supply[d]
  BY <1>1 DEF StoredInv, AloneRun
<1>5. \A d \in DOMAIN indexed : ~(d <= 0)
  BY NumberTypes
<1>6. CASE run' = [run EXCEPT ![w].at = "fetch"]
  <2> DEFINE q == [run[w] EXCEPT !.at = "fetch"]
  <2>1. run' = [run EXCEPT ![w] = q]
    BY <1>6
  <2>2. /\ q.job = "sync" /\ q.start = run[w].start /\ q.last = 0 /\ q.supply = run[w].supply
        /\ q.at = "fetch"
    BY <1>1, <1>3 DEF SyncType
  <2> HIDE DEF q
  <2>3. SyncHolds(q)
    BY <1>3, <1>5, <2>2 DEF SyncHolds
  <2>4. QED
    BY <1>1, <1>2, <1>4, <2>1, <2>2, <2>3, OneRunStored
<1>7. CASE run' = [run EXCEPT ![w].at = "mark", ![w].from = Always]
  <2> DEFINE q == [run[w] EXCEPT !.at = "mark", !.from = Always]
  <2>1. run' = [run EXCEPT ![w] = q]
    BY <1>7 DEF TypeOK
  <2>2. /\ q.job = "sync" /\ q.start = run[w].start /\ q.last = 0 /\ q.supply = run[w].supply
        /\ q.at = "mark"
    BY <1>1, <1>3 DEF SyncType
  <2> HIDE DEF q
  <2>3. SyncHolds(q)
    BY <1>3, <2>2 DEF SyncHolds
  <2>4. QED
    BY <1>1, <1>2, <1>4, <2>1, <2>2, <2>3, OneRunStored
<1>8. QED
  BY <1>6, <1>7 DEF FindMark, SetMark, Goto

\* What a page has is of now, and a page leaves nothing out.
LEMMA FetchStored ==
  ASSUME TypeOK, StoredInv, NEW w \in Workers, FetchPage(w)
  PROVE  StoredInv'
<1> DEFINE old == run[w]
           newer == Newer(old.from, old.last)
           response == Page(newer)
           supply == [d \in DOMAIN old.supply \cup response |->
                        IF d \in response THEN indexed[d].supply ELSE old.supply[d]]
<1>1. old.job = "sync" /\ old.at = "fetch" /\ old \in SyncType
  BY RunTypes DEF FetchPage, At
<1>2. UNCHANGED <<clock, indexed, asset, changes, swept, best, overlapped>>
  BY DEF FetchPage, history
<1>3. SyncHolds(old)
  BY <1>1 DEF StoredInv, RunsHold
<1>4. /\ old.start \in Nat /\ old.from \in Int /\ old.last \in Nat /\ DOMAIN old.supply \subseteq Ids
      /\ \A d \in DOMAIN old.supply : old.supply[d] \in Nat
  BY <1>1, NumberTypes
<1>5. DOMAIN indexed = 1..Len(indexed) /\ Len(indexed) \in Nat /\ DOMAIN indexed \subseteq Ids
  BY NumberTypes
<1>6. \A d \in DOMAIN indexed : indexed[d].at \in Nat /\ indexed[d].supply \in Nat
  BY NumberTypes
<1>7. newer = {d \in DOMAIN indexed : indexed[d].at >= old.from /\ d > old.last}
  BY DEF Newer
<1>8. newer \in SUBSET (1..Len(indexed))
  BY <1>5, <1>7
<1>9. /\ response \subseteq newer
      /\ \A d \in newer, e \in response : d <= e => d \in response
      /\ Cardinality(response) = PageLimit => response # {}
      /\ Cardinality(response) # PageLimit => response = newer
  <2> HIDE DEF newer
  <2>1. QED
    BY <1>5, <1>8, PageIsFirst, ShortPageIsAll
<1>10. \/ run' = [run EXCEPT ![w].supply = supply, ![w].last = Max(response)]
          /\ Cardinality(response) = PageLimit
       \/ run' = [run EXCEPT ![w].supply = supply, ![w].at = "store"]
          /\ Cardinality(response) # PageLimit
  BY DEF FetchPage
<1> HIDE DEF newer, response
<1>11. /\ DOMAIN supply = DOMAIN old.supply \cup response
       /\ \A d \in response : supply[d] = indexed[d].supply
       /\ \A d \in DOMAIN old.supply : d \notin response => supply[d] = old.supply[d]
  OBVIOUS
<1> HIDE DEF supply
<1>12. response \subseteq DOMAIN indexed
  BY <1>7, <1>9
<1>13. \A d \in DOMAIN supply : supply[d] <= Known(d)
  BY <1>3, <1>6, <1>11, <1>12 DEF SyncHolds, Known
<1>14. ~overlapped => \A d \in DOMAIN supply : best[d] <= supply[d]
  <2>1. \A d \in response : best[d] <= indexed[d].supply
    BY <1>5, <1>12 DEF StoredInv, NumbersRise, Known
  <2>2. ~overlapped => \A d \in DOMAIN old.supply : best[d] <= old.supply[d]
    BY <1>1 DEF StoredInv, AloneRun
  <2>3. QED
    BY <1>11, <2>1, <2>2
\* Up to the last asset of the page, or beyond it if the page is not full.
<1>15. ASSUME NEW d \in DOMAIN indexed, old.from <= indexed[d].at, indexed[d].at < old.start,
              d <= old.last \/ d \in response
       PROVE  d \in DOMAIN supply /\ supply[d] = indexed[d].supply
  <2>1. CASE d \in response
    BY <1>11, <2>1
  <2>2. CASE d \notin response
    <3>1. d \in DOMAIN old.supply /\ old.supply[d] = indexed[d].supply
      BY <1>1, <1>3, <1>15, <2>2 DEF SyncHolds
    <3>2. QED
      BY <1>11, <2>2, <3>1
  <2>3. QED
    BY <2>1, <2>2
<1>16. CASE run' = [run EXCEPT ![w].supply = supply, ![w].last = Max(response)]
            /\ Cardinality(response) = PageLimit
  <2> DEFINE q == [old EXCEPT !.supply = supply, !.last = Max(response)]
  <2>1. run' = [run EXCEPT ![w] = q]
    BY <1>16 DEF TypeOK
  <2>2. /\ q.job = "sync" /\ q.start = old.start /\ q.last = Max(response) /\ q.supply = supply
        /\ q.at = "fetch" /\ q.from = old.from
    BY <1>1 DEF SyncType
  <2> HIDE DEF q
  <2>3. response \in SUBSET (1..Len(indexed)) /\ response # {}
    BY <1>8, <1>9, <1>16
  <2>4. Max(response) \in response /\ \A d \in response : d <= Max(response)
    BY <1>5, <2>3, GreatestNumber
  <2>5. ASSUME NEW d \in DOMAIN indexed, old.from <= indexed[d].at, d <= Max(response)
        PROVE  d <= old.last \/ d \in response
    <3>1. CASE d <= old.last
      BY <3>1
    <3>2. CASE ~(d <= old.last)
      <4>1. d \in newer
        BY <1>4, <1>5, <1>6, <1>7, <2>5, <3>2
      <4>2. QED
        BY <1>9, <2>4, <2>5, <4>1
    <3>3. QED
      BY <3>1, <3>2
  <2>6. SyncHolds(q)
    BY <1>3, <1>13, <1>15, <2>2, <2>5 DEF SyncHolds
  <2>7. QED
    BY <1>1, <1>2, <1>14, <2>1, <2>2, <2>6, OneRunStored
<1>17. CASE run' = [run EXCEPT ![w].supply = supply, ![w].at = "store"]
            /\ Cardinality(response) # PageLimit
  <2> DEFINE q == [old EXCEPT !.supply = supply, !.at = "store"]
  <2>1. run' = [run EXCEPT ![w] = q]
    BY <1>17 DEF TypeOK
  <2>2. /\ q.job = "sync" /\ q.start = old.start /\ q.supply = supply
        /\ q.at = "store" /\ q.from = old.from
    BY <1>1 DEF SyncType
  <2> HIDE DEF q
  <2>3. ASSUME NEW d \in DOMAIN indexed, old.from <= indexed[d].at
        PROVE  d <= old.last \/ d \in response
    <3>1. CASE d <= old.last
      BY <3>1
    <3>2. CASE ~(d <= old.last)
      <4>1. d \in newer
        BY <1>4, <1>5, <1>6, <1>7, <2>3, <3>2
      <4>2. QED
        BY <1>9, <1>17, <4>1
    <3>3. QED
      BY <3>1, <3>2
  <2>4. SyncHolds(q)
    BY <1>3, <1>13, <1>15, <2>2, <2>3 DEF SyncHolds
  <2>5. QED
    BY <1>1, <1>2, <1>14, <2>1, <2>2, <2>4, OneRunStored
<1>18. QED
  BY <1>10, <1>16, <1>17

\* A run ends with a write.
LEMMA WriteStored ==
  ASSUME TypeOK, StoredInv, NEW w \in Workers, NEW table, Write(table), run[w] # Idle,
         run' = [run EXCEPT ![w] = Idle],
         \A d \in Ids : table[d].supply \in Nat /\ table[d].supply <= Known(d),
         ~overlapped => \A d \in Ids : best[d] <= table[d].supply,
         swept \subseteq swept', \A t \in swept' : t < clock,
         \A d \in DOMAIN indexed :
           indexed[d].at \in swept' \ swept => table[d].supply = indexed[d].supply,
         UNCHANGED <<clock, indexed, changes, overlapped>>
  PROVE  StoredInv'
<1>1. \A v \in Workers : run'[v] = IF v = w THEN Idle ELSE run[v]
  BY DEF TypeOK
<1>2. asset' = table /\ \A d \in Ids : best'[d] = IF table[d].supply > best[d] THEN table[d].supply ELSE best[d]
  BY DEF Write
<1>3. \A d \in Ids : best[d] \in Nat /\ Known(d) \in Nat /\ best[d] <= Known(d)
  BY NumberTypes DEF StoredInv, NumbersRise
<1>4. \A d \in Ids : /\ best[d] <= best'[d] /\ table[d].supply <= best'[d] /\ best'[d] <= Known(d)
                     /\ best'[d] \in Nat
  BY <1>2, <1>3
<1>5. Idle.job \notin {"sync", "price", "info"}
  BY DEF Idle
<1>6. \A d : Known(d)' = Known(d)
  BY DEF Known
<1>7. RunsHold'
  <2>1. ASSUME NEW v \in Workers, v # w
        PROVE  /\ run[v].job = "sync" => SyncHolds(run[v])'
               /\ run[v].job \in {"price", "info"} => SaveHolds(run[v])'
    <3>1. run'[v] = run[v]
      BY <1>1, <2>1
    <3>2. CASE run[v].job = "sync"
      BY <3>1, <3>2, <2>1 DEF StoredInv, RunsHold, SyncHolds, Known
    <3>3. CASE run[v].job \in {"price", "info"}
      <4>1. \A d \in DOMAIN run[v].rows : d \in Ids /\ run[v].rows[d].supply \in Nat
        BY <3>3, <2>1, NumberTypes
      <4>2. \A d \in DOMAIN run[v].rows : run[v].rows[d].supply <= best[d]
        BY <3>3, <2>1 DEF StoredInv, RunsHold, SaveHolds
      <4>3. \A d \in DOMAIN run[v].rows : run[v].rows[d].supply <= best'[d]
        BY <1>3, <1>4, <4>1, <4>2
      <4>4. QED
        BY <3>1, <3>3, <4>3 DEF SaveHolds
    <3>4. QED
      BY <3>2, <3>3
  <2>2. ASSUME NEW v \in Workers
        PROVE  /\ run'[v].job = "sync" => SyncHolds(run[v])'
               /\ run'[v].job \in {"price", "info"} => SaveHolds(run[v])'
    <3>1. CASE v = w
      BY <1>1, <1>5, <3>1
    <3>2. CASE v # w
      <4>1. run'[v] = run[v]
        BY <1>1, <3>2
      <4>2. QED
        BY <2>1, <3>2, <4>1
    <3>3. QED
      BY <3>1, <3>2
  <2>3. QED
    BY <2>2 DEF RunsHold
<1>8. NumbersRise'
  BY <1>2, <1>4, <1>6 DEF StoredInv, NumbersRise
<1>9. SweptWasStored'
  <2> SUFFICES ASSUME NEW d \in DOMAIN indexed, indexed[d].at \in swept'
               PROVE  best'[d] = indexed[d].supply
    BY DEF SweptWasStored
  <2>1. d \in Ids /\ Known(d) = indexed[d].supply
    BY NumberTypes DEF Known
  <2>2. best[d] = indexed[d].supply \/ table[d].supply = indexed[d].supply
    BY DEF StoredInv, SweptWasStored
  <2>3. QED
    BY <1>3, <1>4, <2>1, <2>2
<1>10. AloneRun'
  <2> SUFFICES ASSUME ~overlapped PROVE AloneRun'
    BY DEF AloneRun
  <2>1. \A v \in Workers : run[v] # Idle => v = w
    BY DEF StoredInv, AloneRun
  <2>2. \A v \in Workers : run'[v] = Idle
    BY <1>1, <2>1
  <2>3. \A d \in Ids : best[d] <= table[d].supply
    OBVIOUS
  <2>4. \A d \in Ids : table[d].supply = best'[d]
    BY <1>2, <1>3, <2>3
  <2>5. QED
    BY <1>2, <1>5, <2>2, <2>4 DEF AloneRun
<1>11. QED
  BY <1>7, <1>8, <1>9, <1>10 DEF StoredInv

LEMMA StoreStored ==
  ASSUME TypeOK, StoredInv, NEW w \in Workers, Store(w)
  PROVE  StoredInv'
<1> DEFINE q == run[w]
           table == [d \in Ids |-> IF d \in DOMAIN q.supply THEN Stored(asset[d], q.supply[d])
                                   ELSE asset[d]]
<1>1. q.job = "sync" /\ q.at = "store" /\ q # Idle
  BY DEF Store, At, Idle
<1>2. /\ Write(table) /\ run' = [run EXCEPT ![w] = Idle]
      /\ swept' = swept \cup {t \in Time : q.from <= t /\ t < q.start}
      /\ UNCHANGED <<clock, indexed, changes, overlapped>>
  BY DEF Store, Finish
<1>3. SyncHolds(q)
  BY <1>1 DEF StoredInv, RunsHold
<1>4. /\ q.start \in Nat /\ DOMAIN q.supply \subseteq Ids
      /\ \A d \in DOMAIN q.supply : q.supply[d] \in Nat
  BY <1>1, NumberTypes
<1>5. \A d \in Ids : table[d].supply = IF d \in DOMAIN q.supply THEN q.supply[d] ELSE asset[d].supply
  <2>1. \A d \in Ids : asset[d] \in Row
    BY DEF TypeOK
  <2>2. QED
    BY <2>1 DEF Stored, Row
<1> HIDE DEF table
<1>6. \A d \in Ids : /\ asset[d].supply \in Nat /\ best[d] \in Nat /\ Known(d) \in Nat
                     /\ asset[d].supply <= best[d] /\ best[d] <= Known(d)
  BY NumberTypes DEF StoredInv, NumbersRise
<1>7. \A d \in Ids : table[d].supply \in Nat /\ table[d].supply <= Known(d)
  BY <1>3, <1>4, <1>5, <1>6 DEF SyncHolds
<1>8. ~overlapped => \A d \in Ids : best[d] <= table[d].supply
  BY <1>1, <1>5, <1>6 DEF StoredInv, AloneRun
<1>9. ASSUME NEW t \in swept' PROVE t < clock
  <2>1. CASE t \in swept
    BY <2>1 DEF StoredInv, NumbersRise
  <2>2. CASE t \notin swept
    <3>1. t \in Time /\ t < q.start /\ q.start <= clock
      BY <1>2, <1>3, <1>9, <2>2 DEF SyncHolds
    <3>2. t \in Nat /\ clock \in Nat
      BY <3>1, ConstantTypes, NumberTypes DEF Time
    <3>3. QED
      BY <1>4, <3>1, <3>2
  <2>3. QED
    BY <2>1, <2>2
<1>10. ASSUME NEW d \in DOMAIN indexed, indexed[d].at \in swept' \ swept
       PROVE  table[d].supply = indexed[d].supply
  <2>1. q.from <= indexed[d].at /\ indexed[d].at < q.start
    BY <1>2, <1>10
  <2>2. d \in DOMAIN q.supply /\ q.supply[d] = indexed[d].supply
    BY <1>1, <1>3, <1>10, <2>1 DEF SyncHolds
  <2>3. QED
    BY <1>4, <1>5, <2>2
<1> HIDE DEF q
<1>11. swept \subseteq swept'
  BY <1>2
<1>12. QED
  BY <1>1, <1>2, <1>7, <1>8, <1>9, <1>10, <1>11, WriteStored DEF q

LEMMA SaveStored ==
  ASSUME TypeOK, StoredInv, NEW w \in Workers, SaveRows(w)
  PROVE  StoredInv'
<1> DEFINE old == run[w].rows
<1>1. run[w].job \in {"price", "info"} /\ run[w] # Idle
  BY DEF SaveRows, Idle
<1>2. PICK names :
        Write([d \in Ids |-> IF d \notin DOMAIN old THEN asset[d]
                             ELSE [old[d] EXCEPT !.named = @ \/ d \in names]])
  BY DEF SaveRows
<1> DEFINE table == [d \in Ids |-> IF d \notin DOMAIN old THEN asset[d]
                                   ELSE [old[d] EXCEPT !.named = @ \/ d \in names]]
<1>3. /\ Write(table) /\ run' = [run EXCEPT ![w] = Idle]
      /\ UNCHANGED <<clock, indexed, changes, swept, overlapped>>
  BY <1>2 DEF SaveRows, Finish
<1>4. DOMAIN old \subseteq Ids /\ \A d \in DOMAIN old : old[d] \in Row /\ old[d].supply \in Nat
  BY <1>1, NumberTypes
<1>5. \A d \in Ids : table[d].supply = IF d \in DOMAIN old THEN old[d].supply ELSE asset[d].supply
  BY <1>4 DEF Row
<1> HIDE DEF table
<1>6. \A d \in Ids : /\ asset[d].supply \in Nat /\ best[d] \in Nat /\ Known(d) \in Nat
                     /\ asset[d].supply <= best[d] /\ best[d] <= Known(d)
  BY NumberTypes DEF StoredInv, NumbersRise
<1>7. \A d \in DOMAIN old : old[d].supply <= best[d]
  BY <1>1 DEF StoredInv, RunsHold, SaveHolds
<1>8. \A d \in Ids : table[d].supply \in Nat /\ table[d].supply <= Known(d)
  BY <1>4, <1>5, <1>6, <1>7
<1>9. ~overlapped => \A d \in Ids : best[d] <= table[d].supply
  BY <1>1, <1>5, <1>6 DEF StoredInv, AloneRun
<1>10. \A t \in swept' : t < clock
  BY <1>3 DEF StoredInv, NumbersRise
<1>11. QED
  BY <1>1, <1>3, <1>8, <1>9, <1>10, WriteStored

LEMMA FailStored ==
  ASSUME TypeOK, StoredInv, Crash \/ \E w \in Workers : FailRun(w)
  PROVE  StoredInv'
<1>1. \A v \in Workers : run'[v] = run[v] \/ run'[v] = Idle
  BY DEF Crash, FailRun, Finish, TypeOK
<1>2. UNCHANGED <<clock, indexed, asset, changes, swept, best, overlapped>>
  BY DEF Crash, FailRun, history
<1>3. Idle.job \notin {"sync", "price", "info"}
  BY DEF Idle
<1>4. RunsHold'
  BY <1>1, <1>2, <1>3 DEF StoredInv, RunsHold, SyncHolds, SaveHolds, Known
<1>5. NumbersRise' /\ SweptWasStored'
  BY <1>2 DEF StoredInv, NumbersRise, SweptWasStored, Known
<1>6. AloneRun'
  BY <1>1, <1>2, <1>3 DEF StoredInv, AloneRun
<1>7. QED
  BY <1>4, <1>5, <1>6 DEF StoredInv

LEMMA AssetsStored ==
  /\ Init => StoredInv
  /\ TypeOK /\ StoredInv /\ [Next]_vars => StoredInv'
<1>1. Init => StoredInv
  <2> SUFFICES ASSUME Init PROVE StoredInv
    OBVIOUS
  <2>1. Idle.job \notin {"sync", "price", "info"}
    BY DEF Idle
  <2>2. RunsHold
    BY <2>1 DEF Init, RunsHold
  <2>3. DOMAIN indexed = {}
    BY DEF Init
  <2>4. NumbersRise
    BY <2>3 DEF Init, NumbersRise, Known, NoRow
  <2>5. AloneRun
    BY <2>1 DEF Init, AloneRun, NoRow
  <2>6. QED
    BY <2>2, <2>3, <2>4, <2>5 DEF StoredInv, SweptWasStored
<1>2. ASSUME TypeOK, StoredInv, [Next]_vars PROVE StoredInv'
  <2>1. CASE UNCHANGED vars
    BY <1>2, <2>1 DEF vars, history, StoredInv, RunsHold, SyncHolds, SaveHolds, NumbersRise,
                      SweptWasStored, AloneRun, Known
  <2>2. CASE Tick \/ Add \/ ChangeSupply \/ Crash
    BY <1>2, <2>2, IndexerStored, FailStored
  <2>3. ASSUME NEW w \in Workers, Step(w) PROVE StoredInv'
    BY <1>2, <2>3, BeginStored, MarkStored, FetchStored, StoreStored, SaveStored, FailStored DEF Step
  <2>4. QED
    BY <1>2, <2>1, <2>2, <2>3 DEF Next
<1>3. QED
  BY <1>1, <1>2

-----------------------------------------------------------------------------
(* AssetSync: the times that are asked for.                                *)

Syncs(w) == run[w].job = "sync"
Open(t)  == \E v \in Workers : Syncs(v) /\ run[v].from <= t /\ t < run[v].start

\* Until the mark is set, each open run asks for its own minute and after, or
\* will ask for everything; one of them sets the mark.  From then on, what no
\* run has stored is asked for by an open one.
Chain ==
  ~late /\ fails = 0 =>
    /\ begun = Always => ~mark /\ \A w \in Workers : ~Syncs(w)
    /\ ~mark => /\ begun # Always => \E w \in Workers : Syncs(w)
                /\ \A w \in Workers : Syncs(w) => \A t \in run[w].start..(begun - 1) : Open(t)
    /\ mark => \A t \in 0..(begun - 1) : t \in swept \/ Open(t)
Marks ==
  \A w \in Workers : Syncs(w) =>
    /\ run[w].at \in {"fetch", "store"} => mark
    /\ run[w].at = "mark" => run[w].from = Always
TimesInv == Marks /\ Chain

LEMMA TimeTypes ==
  ASSUME TypeOK
  PROVE  /\ clock \in Nat /\ begun \in Int /\ fails \in Nat /\ Window \in Nat
         /\ begun = Always \/ (begun \in Nat /\ begun <= MaxClock)
         /\ \A w \in Workers : Syncs(w) =>
              run[w].start \in Nat /\ run[w].from \in Int
BY NumberTypes, ConstantTypes DEF TypeOK, Time, Syncs

\* Runs ask for what they asked for, or for more.
LEMMA SameTimes ==
  ASSUME TypeOK, TimesInv, UNCHANGED <<late, fails, begun, mark, swept>>,
         \A v \in Workers :
           /\ Syncs(v)' <=> Syncs(v)
           /\ Syncs(v) => /\ run'[v].start = run[v].start
                          /\ run'[v].from = run[v].from \/ run'[v].from = Always
                          /\ run'[v].at \in {"fetch", "store"} => mark
                          /\ run'[v].at = "mark" => run'[v].from = Always
  PROVE  TimesInv'
<1>1. Marks'
  BY DEF Marks, Syncs
<1>2. ASSUME NEW t \in Int, t >= 0, Open(t) PROVE Open(t)'
  <2>1. PICK v \in Workers : Syncs(v) /\ run[v].from <= t /\ t < run[v].start
    BY <1>2 DEF Open
  <2>2. run'[v].from <= t
    BY <1>2, <2>1, ConstantTypes
  <2>3. QED
    BY <2>1, <2>2 DEF Open, Syncs
<1>3. \A w \in Workers : Syncs(w) => run[w].start \in Nat
  BY TimeTypes
<1>4. begun \in Int
  BY TimeTypes
<1>5. Chain'
  <2> SUFFICES ASSUME ~late, fails = 0 PROVE Chain'
    BY DEF Chain
  <2>1. begun = Always => ~mark /\ \A w \in Workers : ~Syncs(w)'
    BY DEF TimesInv, Chain
  <2>2. ~mark => /\ begun # Always => \E w \in Workers : Syncs(w)'
                 /\ \A w \in Workers : Syncs(w)' => \A t \in run'[w].start..(begun - 1) : Open(t)'
    <3> SUFFICES ASSUME ~mark
                 PROVE  /\ begun # Always => \E w \in Workers : Syncs(w)'
                        /\ \A w \in Workers : Syncs(w)' =>
                             \A t \in run'[w].start..(begun - 1) : Open(t)'
      OBVIOUS
    <3>1. begun # Always => \E w \in Workers : Syncs(w)'
      BY DEF TimesInv, Chain
    <3>2. ASSUME NEW w \in Workers, Syncs(w)', NEW t \in run'[w].start..(begun - 1) PROVE Open(t)'
      <4>1. Syncs(w) /\ run'[w].start = run[w].start /\ run[w].start \in Nat
        BY <1>3, <3>2
      <4>2. t \in Int /\ t >= 0 /\ Open(t)
        BY <1>4, <3>2, <4>1 DEF TimesInv, Chain
      <4>3. QED
        BY <1>2, <4>2
    <3>3. QED
      BY <3>1, <3>2
  <2>3. mark => \A t \in 0..(begun - 1) : t \in swept \/ Open(t)'
    BY <1>2, <1>4 DEF TimesInv, Chain
  <2>4. QED
    BY <2>1, <2>2, <2>3 DEF Chain
<1>6. QED
  BY <1>1, <1>5 DEF TimesInv

LEMMA SmallTimes ==
  ASSUME TypeOK, TimesInv, NEW w \in Workers,
         FindMark(w) \/ FetchPage(w) \/ SaveRows(w) \/ ReadForPrice(w) \/ ReadForInfo(w)
  PROVE  TimesInv'
<1>1. UNCHANGED <<late, fails, begun, mark, swept>>
  BY DEF FindMark, FetchPage, SaveRows, ReadForPrice, ReadForInfo, Begin, history
<1>2. ASSUME NEW q, run' = [run EXCEPT ![w] = q],
             Syncs(w) <=> q.job = "sync",
             Syncs(w) => /\ q.start = run[w].start
                         /\ q.from = run[w].from \/ q.from = Always
                         /\ q.at \in {"fetch", "store"} => mark
                         /\ q.at = "mark" => q.from = Always
      PROVE  TimesInv'
  <2>1. \A v \in Workers : run'[v] = IF v = w THEN q ELSE run[v]
    BY <1>2 DEF TypeOK
  <2>2. ASSUME NEW v \in Workers
        PROVE  /\ Syncs(v)' <=> Syncs(v)
               /\ Syncs(v) => /\ run'[v].start = run[v].start
                              /\ run'[v].from = run[v].from \/ run'[v].from = Always
                              /\ run'[v].at \in {"fetch", "store"} => mark
                              /\ run'[v].at = "mark" => run'[v].from = Always
    <3>1. CASE v = w
      BY <1>2, <2>1, <3>1 DEF Syncs
    <3>2. CASE v # w
      BY <2>1, <2>2, <3>2 DEF Syncs, TimesInv, Marks
    <3>3. QED
      BY <3>1, <3>2
  <2>3. QED
    BY <1>1, <2>2, SameTimes
<1>3. CASE FindMark(w)
  <2>1. run[w] \in SyncType /\ Syncs(w)
    BY <1>3, RunTypes DEF FindMark, At, Syncs
  <2>2. CASE mark
    <3> DEFINE q == [run[w] EXCEPT !.at = "fetch"]
    <3>1. run' = [run EXCEPT ![w] = q]
      BY <1>3, <2>2 DEF FindMark, Goto
    <3>2. q.job = "sync" /\ q.start = run[w].start /\ q.from = run[w].from /\ q.at = "fetch"
      BY <2>1 DEF SyncType
    <3> HIDE DEF q
    <3>3. QED
      BY <1>2, <2>1, <2>2, <3>1, <3>2
  <2>3. CASE ~mark
    <3> DEFINE q == [run[w] EXCEPT !.at = "mark", !.from = Always]
    <3>1. run' = [run EXCEPT ![w] = q]
      BY <1>3, <2>3 DEF FindMark, TypeOK
    <3>2. q.job = "sync" /\ q.start = run[w].start /\ q.from = Always /\ q.at = "mark"
      BY <2>1 DEF SyncType
    <3> HIDE DEF q
    <3>3. QED
      BY <1>2, <2>1, <3>1, <3>2
  <2>4. QED
    BY <2>2, <2>3
<1>4. CASE FetchPage(w)
  <2>1. run[w] \in SyncType /\ Syncs(w) /\ run[w].at = "fetch" /\ mark
    BY <1>4, RunTypes DEF FetchPage, At, Syncs, TimesInv, Marks
  <2>2. PICK s, n : \/ run' = [run EXCEPT ![w].supply = s, ![w].last = n]
                    \/ run' = [run EXCEPT ![w].supply = s, ![w].at = "store"]
    BY <1>4 DEF FetchPage
  <2>3. CASE run' = [run EXCEPT ![w].supply = s, ![w].last = n]
    <3> DEFINE q == [run[w] EXCEPT !.supply = s, !.last = n]
    <3>1. run' = [run EXCEPT ![w] = q]
      BY <2>3 DEF TypeOK
    <3>2. q.job = "sync" /\ q.start = run[w].start /\ q.from = run[w].from /\ q.at = "fetch"
      BY <2>1 DEF SyncType
    <3> HIDE DEF q
    <3>3. QED
      BY <1>2, <2>1, <3>1, <3>2
  <2>4. CASE run' = [run EXCEPT ![w].supply = s, ![w].at = "store"]
    <3> DEFINE q == [run[w] EXCEPT !.supply = s, !.at = "store"]
    <3>1. run' = [run EXCEPT ![w] = q]
      BY <2>4 DEF TypeOK
    <3>2. q.job = "sync" /\ q.start = run[w].start /\ q.from = run[w].from /\ q.at = "store"
      BY <2>1 DEF SyncType
    <3> HIDE DEF q
    <3>3. QED
      BY <1>2, <2>1, <3>1, <3>2
  <2>5. QED
    BY <2>2, <2>3, <2>4
<1>5. CASE SaveRows(w)
  <2>1. run' = [run EXCEPT ![w] = Idle] /\ ~Syncs(w) /\ Idle.job # "sync"
    BY <1>5 DEF SaveRows, Finish, Syncs, Idle
  <2>2. QED
    BY <1>2, <2>1
<1>6. CASE ReadForPrice(w) \/ ReadForInfo(w)
  <2>1. PICK q : q.job # "sync" /\ Begin(w, q)
    BY <1>6 DEF ReadForPrice, ReadForInfo
  <2>2. run' = [run EXCEPT ![w] = q] /\ ~Syncs(w)
    BY <2>1 DEF Begin, Syncs, Idle
  <2>3. QED
    BY <1>2, <2>1, <2>2
<1>7. QED
  BY <1>3, <1>4, <1>5, <1>6

LEMMA BeginTimes ==
  ASSUME TypeOK, TimesInv, NEW w \in Workers, BeginSync(w)
  PROVE  TimesInv'
<1> DEFINE q == [job |-> "sync", at |-> "find", from |-> Since(clock), start |-> clock,
                 last |-> 0, supply |-> NoRows]
<1>1. /\ run[w] = Idle /\ run' = [run EXCEPT ![w] = q] /\ begun' = clock
      /\ late' = (late \/ (begun # Always /\ clock > begun + Window))
      /\ UNCHANGED <<fails, mark, swept>>
  BY DEF BeginSync, Begin
<1>2. q.job = "sync" /\ q.at = "find" /\ q.start = clock /\ q.from = clock - Window
  BY DEF Since
<1> HIDE DEF q
<1>3. \A v \in Workers : run'[v] = IF v = w THEN q ELSE run[v]
  BY <1>1 DEF TypeOK
<1>4. ~Syncs(w) /\ Syncs(w)' /\ \A v \in Workers : v # w => run'[v] = run[v] /\ (Syncs(v)' <=> Syncs(v))
  BY <1>1, <1>2, <1>3 DEF Syncs, Idle
<1>5. Marks'
  BY <1>1, <1>2, <1>3, <1>4 DEF TimesInv, Marks
<1>6. clock \in Nat /\ begun \in Int /\ Window \in Nat /\ Always < 0 /\ Always \in Int
  BY TimeTypes, ConstantTypes
<1>7. ASSUME NEW t, Open(t) PROVE Open(t)'
  BY <1>4, <1>7 DEF Open
<1>8. ASSUME NEW t \in Int, clock - Window <= t, t < clock PROVE Open(t)'
  BY <1>2, <1>3, <1>4, <1>8 DEF Open
<1>9. Chain'
  <2> SUFFICES ASSUME ~late', fails = 0 PROVE Chain'
    BY <1>1 DEF Chain
  <2>1. ~late /\ (begun = Always \/ clock <= begun + Window)
    <3>1. ~late /\ ~(begun # Always /\ clock > begun + Window)
      BY <1>1, Zenon
    <3>2. QED
      BY <1>6, <3>1
  <2>2. begun' # Always
    BY <1>1, <1>6
  <2>3. ASSUME ~mark, NEW v \in Workers, Syncs(v)', NEW t \in run'[v].start..(clock - 1)
        PROVE  Open(t)'
    <3>1. v # w
      BY <1>2, <1>3, <1>6, <2>3
    <3>2. Syncs(v) /\ run'[v].start = run[v].start /\ run[v].start \in Nat
      BY <1>4, <2>3, <3>1, TimeTypes
    <3>3. begun # Always /\ clock <= begun + Window
      BY <2>1, <3>2 DEF TimesInv, Chain
    <3>4. t \in Int /\ run[v].start <= t /\ t < clock
      BY <1>6, <2>3, <3>2
    <3>5. CASE t < begun
      <4>1. t \in run[v].start..(begun - 1)
        BY <1>6, <3>2, <3>4, <3>5
      <4>2. Open(t)
        BY <2>1, <2>3, <3>2, <4>1 DEF TimesInv, Chain
      <4>3. QED
        BY <1>7, <4>2
    <3>6. CASE ~(t < begun)
      BY <1>6, <1>8, <3>3, <3>4, <3>6
    <3>7. QED
      BY <3>5, <3>6
  <2>4. ASSUME mark, NEW t \in 0..(clock - 1) PROVE t \in swept \/ Open(t)'
    <3>1. begun # Always /\ clock <= begun + Window
      BY <2>1, <2>4 DEF TimesInv, Chain
    <3>2. CASE t < begun
      <4>1. t \in 0..(begun - 1)
        BY <1>6, <2>4, <3>2
      <4>2. t \in swept \/ Open(t)
        BY <2>1, <2>4, <4>1 DEF TimesInv, Chain
      <4>3. QED
        BY <1>7, <4>2
    <3>3. CASE ~(t < begun)
      BY <1>6, <1>8, <2>4, <3>1, <3>3
    <3>4. QED
      BY <3>2, <3>3
  <2>5. QED
    BY <1>1, <1>4, <2>2, <2>3, <2>4 DEF Chain
<1>10. QED
  BY <1>5, <1>9 DEF TimesInv

\* The run that sets the mark asks for everything before it.
LEMMA SetMarkTimes ==
  ASSUME TypeOK, TimesInv, NEW w \in Workers, SetMark(w)
  PROVE  TimesInv'
<1> DEFINE q == [run[w] EXCEPT !.at = "fetch"]
<1>1. Syncs(w) /\ run[w].at = "mark" /\ run[w] \in SyncType
  BY RunTypes DEF SetMark, At, Syncs
<1>2. /\ run' = [run EXCEPT ![w] = q] /\ mark' = TRUE
      /\ UNCHANGED <<late, fails, begun, swept>>
  BY DEF SetMark, Goto, history
<1>3. q.job = "sync" /\ q.start = run[w].start /\ q.from = run[w].from /\ q.at = "fetch"
  BY <1>1 DEF SyncType
<1> HIDE DEF q
<1>4. \A v \in Workers : run'[v] = IF v = w THEN q ELSE run[v]
  BY <1>2 DEF TypeOK
<1>5. \A v \in Workers : /\ Syncs(v)' <=> Syncs(v)
                         /\ Syncs(v) => run'[v].start = run[v].start /\ run'[v].from = run[v].from
  BY <1>1, <1>3, <1>4 DEF Syncs
<1>6. Marks'
  BY <1>2, <1>3, <1>4 DEF TimesInv, Marks, Syncs
<1>7. \A t : Open(t) => Open(t)'
  BY <1>5 DEF Open
<1>8. run[w].from = Always /\ Always < 0 /\ Always \in Int /\ run[w].start \in Nat /\ begun \in Int
  BY <1>1, TimeTypes, ConstantTypes DEF TimesInv, Marks
<1>9. Chain'
  <2> SUFFICES ASSUME ~late, fails = 0 PROVE Chain'
    BY <1>2 DEF Chain
  <2>1. begun # Always
    BY <1>1 DEF TimesInv, Chain
  <2>2. ASSUME NEW t \in 0..(begun - 1) PROVE t \in swept \/ Open(t)'
    <3>1. CASE mark
      BY <1>7, <2>2, <3>1 DEF TimesInv, Chain
    <3>2. CASE ~mark /\ t < run[w].start
      <4>1. run[w].from <= t
        BY <1>8, <2>2
      <4>2. Open(t)
        BY <1>1, <3>2, <4>1 DEF Open
      <4>3. QED
        BY <1>7, <4>2
    <3>3. CASE ~mark /\ ~(t < run[w].start)
      <4>1. t \in run[w].start..(begun - 1)
        BY <1>8, <2>2, <3>3
      <4>2. Open(t)
        BY <1>1, <3>3, <4>1 DEF TimesInv, Chain
      <4>3. QED
        BY <1>7, <4>2
    <3>4. QED
      BY <3>1, <3>2, <3>3
  <2>3. QED
    BY <1>2, <2>1, <2>2 DEF Chain
<1>10. QED
  BY <1>6, <1>9 DEF TimesInv

LEMMA StoreTimes ==
  ASSUME TypeOK, TimesInv, NEW w \in Workers, Store(w)
  PROVE  TimesInv'
<1>1. Syncs(w) /\ run[w].at = "store" /\ mark
  BY DEF Store, At, Syncs, TimesInv, Marks
<1>2. /\ run' = [run EXCEPT ![w] = Idle]
      /\ swept' = swept \cup {t \in Time : run[w].from <= t /\ t < run[w].start}
      /\ UNCHANGED <<late, fails, begun, mark>>
  BY DEF Store, Finish
<1>3. \A v \in Workers : run'[v] = IF v = w THEN Idle ELSE run[v]
  BY <1>2 DEF TypeOK
<1>4. ~Syncs(w)' /\ \A v \in Workers : v # w => run'[v] = run[v] /\ (Syncs(v)' <=> Syncs(v))
  BY <1>3 DEF Syncs, Idle
<1>5. Marks'
  BY <1>2, <1>3, <1>4 DEF TimesInv, Marks
<1>6. Chain'
  <2> SUFFICES ASSUME ~late, fails = 0 PROVE Chain'
    BY <1>2 DEF Chain
  <2>1. begun # Always
    BY <1>1 DEF TimesInv, Chain
  <2>2. ASSUME NEW t \in 0..(begun - 1) PROVE t \in swept' \/ Open(t)'
    <3>1. t \in Time
      BY <2>1, <2>2, TimeTypes, ConstantTypes DEF Time
    <3>2. t \in swept \/ Open(t)
      BY <1>1, <2>2 DEF TimesInv, Chain
    <3>3. CASE t \in swept
      BY <1>2, <3>3
    <3>4. CASE Open(t)
      BY <1>2, <1>4, <3>1, <3>4 DEF Open
    <3>5. QED
      BY <3>2, <3>3, <3>4
  <2>3. QED
    BY <1>1, <1>2, <2>1, <2>2 DEF Chain
<1>7. QED
  BY <1>5, <1>6 DEF TimesInv

LEMMA AssetTimes ==
  /\ Init => TimesInv
  /\ TypeOK /\ TimesInv /\ [Next]_vars => TimesInv'
<1>1. Init => TimesInv
  <2> SUFFICES ASSUME Init PROVE TimesInv
    OBVIOUS
  <2>1. \A w \in Workers : ~Syncs(w)
    BY DEF Init, Syncs, Idle
  <2>2. QED
    BY <2>1 DEF Init, TimesInv, Marks, Chain
<1>2. ASSUME TypeOK, TimesInv, [Next]_vars PROVE TimesInv'
  <2>1. CASE UNCHANGED vars \/ Tick \/ Add \/ ChangeSupply
    <3>1. UNCHANGED <<run, late, fails, begun, mark, swept>>
      BY <2>1 DEF vars, Tick, Add, ChangeSupply, ChangeIndexed, history
    <3>2. QED
      BY <1>2, <3>1 DEF TimesInv, Marks, Chain, Syncs, Open
  <2>2. CASE Crash \/ \E w \in Workers : FailRun(w)
    <3>1. \A v \in Workers : run'[v] = run[v] \/ run'[v] = Idle
      BY <1>2, <2>2 DEF Crash, FailRun, Finish, TypeOK
    <3>2. fails' # 0 /\ mark' = mark
      BY <1>2, <2>2, TimeTypes DEF Crash, FailRun
    <3>3. Marks'
      BY <1>2, <3>1, <3>2 DEF TimesInv, Marks, Syncs, Idle
    <3>4. QED
      BY <3>2, <3>3 DEF TimesInv, Chain
  <2>3. ASSUME NEW w \in Workers, Step(w) PROVE TimesInv'
    BY <1>2, <2>2, <2>3, SmallTimes, BeginTimes, SetMarkTimes, StoreTimes DEF Step
  <2>4. QED
    BY <1>2, <2>1, <2>2, <2>3 DEF Next
<1>3. QED
  BY <1>1, <1>2

-----------------------------------------------------------------------------
(* AssetSync: the theorems.                                                *)

AssetInv == TypeOK /\ StoredInv /\ TimesInv

LEMMA AssetsKept ==
  /\ ReadsInit => AssetInv
  /\ AssetInv /\ [ReadsNext]_allVars => AssetInv'
<1>1. [ReadsNext]_allVars => [Next]_vars
  BY DEF ReadsNext, allVars, assetVars
<1>2. QED
  BY <1>1, AssetTypes, AssetsStored, AssetTimes DEF ReadsInit, AssetInv

\* The rows, the runs and the history of TokenProcessor.syncAsset are of their types.
THEOREM AssetTypesHold == ReadsSpec => []TypeOK
<1>1. AssetInv => TypeOK
  BY DEF AssetInv
<1>2. QED
  BY <1>1, AssetsKept, PTL DEF ReadsSpec

\* For pages and minutes of any length, any number of assets, of runs that
\* overlap and of runs that fail: an asset whose last change a run has asked
\* for has been stored with its present supply (syncAsset), and still has it
\* unless runs have overlapped.
THEOREM SweptStaysStored == ReadsSpec => []SweptIsStored
<1>1. AssetInv => SweptIsStored
  <2> SUFFICES ASSUME AssetInv, NEW d \in DOMAIN indexed, indexed[d].at \in swept
               PROVE  \/ asset[d].supply = indexed[d].supply
                      \/ overlapped /\ best[d] = indexed[d].supply
    BY DEF SweptIsStored
  <2>1. best[d] = indexed[d].supply /\ d \in Ids
    BY NumberTypes DEF AssetInv, StoredInv, SweptWasStored
  <2>2. ~overlapped => asset[d].supply = best[d]
    BY <2>1 DEF AssetInv, StoredInv, AloneRun
  <2>3. QED
    BY <2>1, <2>2
<1>2. QED
  BY <1>1, AssetsKept, PTL DEF ReadsSpec

\* If no run was late or failed, every time before the last run has been asked
\* for, whatever runs were open when the mark of the first one was set.
THEOREM TimesAreSwept == ReadsSpec => []NoTimeIsSkipped
<1>1. AssetInv => NoTimeIsSkipped
  <2> SUFFICES ASSUME AssetInv, ~late, fails = 0, \A w \in Workers : ~Syncs(w),
                      NEW t \in 0..(begun - 1)
               PROVE  t \in swept
    BY DEF NoTimeIsSkipped, Syncs
  <2>1. begun # Always
    BY ConstantTypes
  <2>2. mark
    BY <2>1 DEF AssetInv, TimesInv, Chain
  <2>3. t \in swept \/ Open(t)
    BY <2>2 DEF AssetInv, TimesInv, Chain
  <2>4. QED
    BY <2>3 DEF Open
<1>2. QED
  BY <1>1, AssetsKept, PTL DEF ReadsSpec

-----------------------------------------------------------------------------
(* HolderStatistics: how long a row stays.                                 *)
HolderRows   == [count : Nat, created : Nat]
DailyRecords == [date : H!Days, count : Nat]
HolderCounts == [date : H!Days, count : Nat, on : H!Days]

\* A day has some length, and Off is neither a row nor a record.
HoldersOK ==
  /\ DayLength \in Nat \ {0} /\ MaxTime \in Nat
  /\ Off \notin HolderRows \cup DailyRecords \cup HolderCounts

HolderTypes ==
  /\ time \in 0..MaxTime /\ holders \in Nat
  /\ daily \in {Off} \cup DailyRecords
  /\ stats \in [H!Days -> {Off} \cup HolderRows]
  /\ pc \in [Workers -> {"idle", "date", "store"}]
  /\ counted \in [Workers -> {Off} \cup HolderCounts]
  /\ \A r \in Workers : pc[r] # "idle" => counted[r] # Off
  /\ stored \subseteq H!Days

\* Nothing is written for a day to come, nor before its day began.
NotBeforeItsDay ==
  /\ daily # Off => daily.date <= H!Today
  /\ \A r \in Workers : counted[r] # Off => counted[r].date <= H!Today
  /\ \A d \in H!Days : stats[d] # Off => d * DayLength <= stats[d].created

RecentRowsStay == \A d \in stored : H!Today - 2 < d => stats[d] # Off

HolderInv == HolderTypes /\ NotBeforeItsDay /\ RecentRowsStay

LEMMA HolderConstants == HoldersOK
<1>1. H!Days \subseteq Nat
  BY DEF H!Days
<1>2. \A row \in HolderRows \cup DailyRecords \cup HolderCounts :
        row \in [count : Nat, created : Nat] \cup [date : Nat, count : Nat]
                  \cup [date : Nat, count : Nat, on : Nat]
  BY <1>1 DEF HolderRows, DailyRecords, HolderCounts
<1>3. QED
  BY <1>2, ReadsConstantsOK DEF HoldersOK

-----------------------------------------------------------------------------
(* Time and days.                                                          *)

LEMMA DayBounds ==
  ASSUME NEW t \in Nat, DayLength \in Nat \ {0}
  PROVE  /\ H!Day(t) \in Nat
         /\ H!Day(t) * DayLength <= t
         /\ t < H!Day(t) * DayLength + DayLength
<1>1. t \div DayLength \in Nat /\ (t \div DayLength) * DayLength <= t
  OBVIOUS
<1>2. t < (t \div DayLength) * DayLength + DayLength
  OBVIOUS
<1>3. QED
  BY <1>1, <1>2 DEF H!Day

LEMMA DayGrows ==
  ASSUME NEW s \in Nat, NEW t \in Nat, s <= t, DayLength \in Nat \ {0}
  PROVE  H!Day(s) <= H!Day(t)
BY DEF H!Day

LEMMA LaterDay ==
  ASSUME NEW s \in Int, NEW t \in Int, s <= t, DayLength \in Nat \ {0}
  PROVE  s * DayLength <= t * DayLength
OBVIOUS

LEMMA TodayIsADay ==
  ASSUME HoldersOK, HolderTypes
  PROVE  time \in Nat /\ H!Today \in H!Days /\ H!Today \in Nat /\ H!Days \subseteq Nat
<1>1. time \in Nat /\ time <= MaxTime /\ MaxTime \in Nat
  BY DEF HoldersOK, HolderTypes
<1>2. H!Today \in Nat
  BY <1>1, DayBounds DEF HoldersOK, H!Today
<1>3. H!Today <= MaxTime \div DayLength
  BY <1>1, DayGrows DEF HoldersOK, H!Today, H!Day
<1>4. MaxTime \div DayLength \in Nat
  BY <1>1, DayBounds DEF HoldersOK, H!Day
<1>5. QED
  BY <1>1, <1>2, <1>3, <1>4 DEF H!Days

\* The row of yesterday or today is younger than two days.
LEMMA RecentIsNotOld ==
  ASSUME HoldersOK, HolderInv, NEW d \in H!Days, H!Today - 2 < d, stats[d] # Off
  PROVE  ~H!Old(stats[d])
<1>1. time \in Nat /\ H!Today \in Nat /\ d \in Nat /\ DayLength \in Nat \ {0}
  BY TodayIsADay DEF HolderInv, HoldersOK
<1>2. stats[d].created \in Nat /\ d * DayLength <= stats[d].created
  BY DEF HolderInv, HolderTypes, NotBeforeItsDay, HolderRows
<1>3. time < H!Today * DayLength + DayLength
  BY <1>1, DayBounds DEF H!Today
<1>4. (H!Today - 1) * DayLength <= d * DayLength
  BY <1>1, LaterDay
<1>5. (H!Today - 1) * DayLength = H!Today * DayLength - DayLength
  BY <1>1
<1>6. H!Today * DayLength \in Int /\ d * DayLength \in Int
  BY <1>1
<1>7. QED
  BY <1>1, <1>2, <1>3, <1>4, <1>5, <1>6 DEF H!Old

-----------------------------------------------------------------------------
LEMMA DayTickKeeps ==
  ASSUME HoldersOK, HolderInv, H!Tick
  PROVE  HolderInv'
<1>1. time \in Nat /\ time' = time + 1 /\ time' \in 0..MaxTime
  BY TodayIsADay DEF H!Tick, HolderInv, HolderTypes, HoldersOK
<1>2. UNCHANGED <<holders, daily, stats, pc, counted, stored>>
  BY DEF H!Tick
<1>3. HolderTypes'
  BY <1>1, <1>2 DEF HolderInv, HolderTypes
<1>4. H!Today \in Nat /\ H!Today' \in Nat /\ H!Today <= H!Today' /\ H!Days \subseteq Nat
  BY <1>1, DayGrows, DayBounds, TodayIsADay DEF HoldersOK, HolderInv, H!Today
<1>5. NotBeforeItsDay'
  <2>1. daily # Off => daily.date \in Nat
    BY <1>4 DEF HolderInv, HolderTypes, DailyRecords
  <2>2. \A r \in Workers : counted[r] # Off => counted[r].date \in Nat
    BY <1>4 DEF HolderInv, HolderTypes, HolderCounts
  <2>3. QED
    BY <1>2, <1>4, <2>1, <2>2 DEF HolderInv, NotBeforeItsDay
<1>6. RecentRowsStay'
  <2>1. \A d \in stored : d \in Nat
    BY <1>4 DEF HolderInv, HolderTypes
  <2>2. \A d \in stored : H!Today' - 2 < d => H!Today - 2 < d
    BY <1>4, <2>1
  <2>3. QED
    BY <1>2, <2>2 DEF HolderInv, RecentRowsStay
<1>7. QED
  BY <1>3, <1>5, <1>6 DEF HolderInv

\* A run fetches something, which has no later day than today.
LEMMA DayRunKeeps ==
  ASSUME HoldersOK, HolderInv, NEW r \in Workers, NEW step \in {"idle", "date", "store"},
         NEW new \in {Off} \cup HolderCounts,
         pc' = [pc EXCEPT ![r] = step], counted' = [counted EXCEPT ![r] = new],
         step # "idle" => new # Off, new # Off => new.date <= H!Today,
         UNCHANGED <<time, holders, daily, stats, stored>>
  PROVE  HolderInv'
<1>1. HolderTypes'
  BY DEF HolderInv, HolderTypes
<1>2. NotBeforeItsDay'
  BY DEF HolderInv, HolderTypes, NotBeforeItsDay, H!Today
<1>3. QED
  BY <1>1, <1>2 DEF HolderInv, RecentRowsStay, H!Today

LEMMA DayFetchKeeps ==
  ASSUME HoldersOK, HolderInv, NEW r \in Workers,
         H!CountHolders(r) \/ H!DateCount(r) \/ H!FetchRecord(r) \/ H!FailRun(r)
  PROVE  HolderInv'
<1>1. H!Today \in H!Days /\ H!Today \in Nat
  BY TodayIsADay DEF HolderInv
<1>2. CASE H!CountHolders(r)
  <2> DEFINE new == [date |-> H!Today, count |-> holders, on |-> H!Today]
  <2>1. new \in HolderCounts /\ new # Off /\ new.date <= H!Today
    BY <1>1 DEF HolderCounts, HolderInv, HolderTypes, HoldersOK
  <2>2. pc' = [pc EXCEPT ![r] = "date"] /\ counted' = [counted EXCEPT ![r] = new]
    BY <1>2 DEF H!CountHolders, H!Goto
  <2>3. QED
    BY <1>2, <2>1, <2>2, DayRunKeeps DEF H!CountHolders
<1>3. CASE H!DateCount(r)
  <2> DEFINE new == [counted[r] EXCEPT !.date = H!Today]
  <2>1. counted[r] \in HolderCounts
    BY <1>3 DEF H!DateCount, HolderInv, HolderTypes
  <2>2. new \in HolderCounts /\ new # Off /\ new.date <= H!Today
    BY <1>1, <2>1 DEF HolderCounts, HoldersOK
  <2>3. pc' = [pc EXCEPT ![r] = "store"] /\ counted' = [counted EXCEPT ![r] = new]
    BY <1>3, <2>1 DEF H!DateCount, H!Goto
  <2>4. QED
    BY <1>3, <2>2, <2>3, DayRunKeeps DEF H!DateCount
<1>4. CASE H!FetchRecord(r)
  <2> DEFINE new == [date |-> daily.date, count |-> daily.count, on |-> daily.date]
  <2>1. daily \in DailyRecords /\ daily.date <= H!Today
    BY <1>4 DEF H!FetchRecord, HolderInv, HolderTypes, NotBeforeItsDay
  <2>2. new \in HolderCounts /\ new # Off /\ new.date <= H!Today
    BY <2>1 DEF HolderCounts, DailyRecords, HoldersOK
  <2>3. pc' = [pc EXCEPT ![r] = "store"] /\ counted' = [counted EXCEPT ![r] = new]
    BY <1>4 DEF H!FetchRecord, H!Goto
  <2>4. QED
    BY <1>4, <2>2, <2>3, DayRunKeeps DEF H!FetchRecord
<1>5. CASE H!FailRun(r)
  BY <1>5, DayRunKeeps DEF H!FailRun, H!Goto
<1>6. QED
  BY <1>2, <1>3, <1>4, <1>5

LEMMA UpsertKeeps ==
  ASSUME HoldersOK, HolderInv, NEW r \in Workers, H!Upsert(r)
  PROVE  HolderInv'
<1> DEFINE d == counted[r].date
           row == IF stats[d] = Off THEN [count |-> counted[r].count, created |-> time]
                  ELSE [stats[d] EXCEPT !.count = counted[r].count]
<1>1. counted[r] \in HolderCounts /\ counted[r] # Off /\ d \in H!Days /\ counted[r].count \in Nat
  <2>1. counted[r] \in HolderCounts /\ counted[r] # Off
    BY DEF H!Upsert, HolderInv, HolderTypes
  <2>2. QED
    BY <2>1 DEF HolderCounts
<1>2. /\ time \in Nat /\ H!Today \in Nat /\ d \in Nat /\ d <= H!Today
      /\ DayLength \in Nat \ {0}
  BY <1>1, TodayIsADay DEF HolderInv, NotBeforeItsDay, HoldersOK
<1>3. d * DayLength <= time
  <2>1. d * DayLength <= H!Today * DayLength
    BY <1>2, LaterDay
  <2>2. H!Today * DayLength <= time
    BY <1>2, DayBounds DEF H!Today
  <2>3. QED
    BY <1>2, <2>1, <2>2
<1>4. row \in HolderRows /\ row # Off /\ d * DayLength <= row.created
  <2>1. CASE stats[d] = Off
    BY <1>1, <1>2, <1>3, <2>1 DEF HolderRows, HoldersOK
  <2>2. CASE stats[d] # Off
    <3>1. stats[d] \in HolderRows /\ d * DayLength <= stats[d].created
      BY <1>1, <2>2 DEF HolderInv, HolderTypes, NotBeforeItsDay
    <3>2. QED
      BY <1>1, <2>2, <3>1 DEF HolderRows, HoldersOK
  <2>3. QED
    BY <2>1, <2>2
<1>5. /\ stats' = [stats EXCEPT ![d] = row] /\ stored' = stored \cup {d}
      /\ pc' = [pc EXCEPT ![r] = "idle"] /\ counted' = [counted EXCEPT ![r] = Off]
      /\ UNCHANGED <<time, holders, daily>>
  BY DEF H!Upsert, H!RowOf, H!Goto
<1> HIDE DEF row, d
<1>6. HolderTypes'
  BY <1>1, <1>4, <1>5 DEF HolderInv, HolderTypes
<1>7. NotBeforeItsDay'
  BY <1>1, <1>4, <1>5 DEF HolderInv, HolderTypes, NotBeforeItsDay, H!Today
<1>8. RecentRowsStay'
  BY <1>1, <1>4, <1>5 DEF HolderInv, HolderTypes, RecentRowsStay, H!Today
<1>9. QED
  BY <1>6, <1>7, <1>8 DEF HolderInv

LEMMA CleanKeeps ==
  ASSUME HoldersOK, HolderInv, H!Clean
  PROVE  HolderInv'
<1>1. /\ stats' = [d \in H!Days |-> IF stats[d] # Off /\ H!Old(stats[d]) THEN Off ELSE stats[d]]
      /\ UNCHANGED <<time, holders, daily, pc, counted, stored>>
  BY DEF H!Clean
<1>2. \A d \in H!Days : /\ stats'[d] # Off => stats'[d] = stats[d]
                      /\ stats'[d] \in {Off} \cup HolderRows
  BY <1>1 DEF HolderInv, HolderTypes
<1>3. HolderTypes'
  BY <1>1, <1>2 DEF HolderInv, HolderTypes
<1>4. NotBeforeItsDay'
  BY <1>1, <1>2 DEF HolderInv, NotBeforeItsDay, H!Today
<1>5. ASSUME NEW d \in stored, H!Today - 2 < d PROVE stats'[d] # Off
  <2>1. d \in H!Days /\ stats[d] # Off
    BY <1>5 DEF HolderInv, HolderTypes, RecentRowsStay
  <2>2. ~H!Old(stats[d])
    BY <1>5, <2>1, RecentIsNotOld
  <2>3. QED
    BY <1>1, <2>1, <2>2
<1>6. QED
  BY <1>1, <1>3, <1>4, <1>5 DEF HolderInv, RecentRowsStay, H!Today

-----------------------------------------------------------------------------
LEMMA RecordKeeps ==
  ASSUME HoldersOK, HolderInv, H!Record
  PROVE  HolderInv'
<1>1. daily' = [date |-> H!Today, count |-> holders] /\ UNCHANGED <<time, holders, stats, pc, counted, stored>>
  BY DEF H!Record
<1>2. daily' \in DailyRecords /\ daily'.date = H!Today /\ H!Today \in Nat
  BY <1>1, TodayIsADay DEF HolderInv, HolderTypes, DailyRecords
<1>3. HolderTypes'
  BY <1>1, <1>2 DEF HolderInv, HolderTypes
<1>4. NotBeforeItsDay'
  BY <1>1, <1>2 DEF HolderInv, NotBeforeItsDay, H!Today
<1>5. QED
  BY <1>1, <1>3, <1>4 DEF HolderInv, RecentRowsStay, H!Today

LEMMA HoldersInductive == HoldersOK /\ HolderInv /\ [H!Next]_(H!vars) => HolderInv'
<1> SUFFICES ASSUME HoldersOK, HolderInv, [H!Next]_(H!vars) PROVE HolderInv'
  OBVIOUS
<1>1. CASE H!Hold \/ UNCHANGED H!vars
  <2>1. UNCHANGED <<time, daily, stats, pc, counted, stored>> /\ holders' \in Nat
    BY <1>1 DEF H!Hold, H!vars, HolderInv, HolderTypes
  <2>2. QED
    BY <2>1 DEF HolderInv, HolderTypes, NotBeforeItsDay, RecentRowsStay, H!Today
<1>2. CASE H!Next
  BY <1>1, <1>2, DayTickKeeps, RecordKeeps, CleanKeeps, DayFetchKeeps, UpsertKeeps DEF H!Next
<1>3. QED
  BY <1>1, <1>2

-----------------------------------------------------------------------------
(* HolderStatistics: what a row counts.                                    *)

InDay(n, d) == opening[d] <= n /\ n <= H!Closing(d)

\* A day that has begun keeps its counts.
CountInv ==
  /\ opening \in [H!Days -> Nat] /\ opening[H!Today] <= holders
  /\ daily # Off => InDay(daily.count, daily.date)
  /\ \A r \in Workers : counted[r] # Off =>
       counted[r].on <= H!Today /\ InDay(counted[r].count, counted[r].on)
  /\ \A d \in H!Days : stats[d] # Off =>
       d <= H!Today /\ (d \notin crossed => InDay(stats[d].count, d))

DayInv == HolderInv /\ CountInv

LEMMA DayFacts ==
  ASSUME DayInv
  PROVE  /\ time \in Nat /\ H!Today \in H!Days /\ H!Today \in Nat /\ H!Days \subseteq Nat
         /\ holders \in Nat /\ \A d \in H!Days : opening[d] \in Nat
         /\ daily # Off => daily.date \in H!Days /\ daily.count \in Nat /\ daily.date <= H!Today
         /\ \A r \in Workers : counted[r] # Off =>
              counted[r].date \in H!Days /\ counted[r].on \in H!Days /\ counted[r].count \in Nat
         /\ \A d \in H!Days : stats[d] # Off => stats[d] \in HolderRows /\ stats[d].count \in Nat
<1>1. time \in Nat /\ H!Today \in H!Days /\ H!Today \in Nat /\ H!Days \subseteq Nat
  BY TodayIsADay, HolderConstants DEF DayInv, HolderInv
<1>2. holders \in Nat /\ \A d \in H!Days : opening[d] \in Nat
  BY DEF DayInv, HolderInv, HolderTypes, CountInv
<1>3. daily # Off => daily.date \in H!Days /\ daily.count \in Nat /\ daily.date <= H!Today
  BY DEF DayInv, HolderInv, HolderTypes, NotBeforeItsDay, DailyRecords
<1>4. ASSUME NEW r \in Workers, counted[r] # Off
      PROVE  counted[r].date \in H!Days /\ counted[r].on \in H!Days /\ counted[r].count \in Nat
  <2>1. counted[r] \in HolderCounts
    BY <1>4 DEF DayInv, HolderInv, HolderTypes
  <2>2. QED
    BY <2>1 DEF HolderCounts
<1>5. ASSUME NEW d \in H!Days, stats[d] # Off PROVE stats[d] \in HolderRows /\ stats[d].count \in Nat
  <2>1. stats[d] \in HolderRows
    BY <1>5 DEF DayInv, HolderInv, HolderTypes
  <2>2. QED
    BY <2>1 DEF HolderRows
<1>6. QED
  BY <1>1, <1>2, <1>3, <1>4, <1>5

LEMMA NextDay ==
  ASSUME NEW t \in Nat
  PROVE  H!Day(t + 1) \in {H!Day(t), H!Day(t) + 1}
<1>1. DayLength \in Nat \ {0}
  BY HolderConstants DEF HoldersOK
<1> DEFINE before == H!Day(t)
           after  == H!Day(t + 1)
<1>2. /\ before \in Nat /\ after \in Nat /\ t < before * DayLength + DayLength
      /\ after * DayLength <= t + 1 /\ before <= after
  BY <1>1, DayBounds, DayGrows
<1> HIDE DEF before, after
<1>3. ASSUME before + 2 <= after PROVE FALSE
  <2>1. (before + 2) * DayLength <= after * DayLength
    BY <1>1, <1>2, <1>3, LaterDay
  <2>2. (before + 2) * DayLength = before * DayLength + 2 * DayLength
    BY <1>1, <1>2
  <2>3. before * DayLength \in Int /\ after * DayLength \in Int
    BY <1>1, <1>2
  <2>4. QED
    BY <1>1, <1>2, <2>1, <2>2, <2>3
<1>4. after \in {before, before + 1}
  BY <1>2, <1>3
<1>5. QED
  BY <1>4 DEF before, after

\* The chain goes on: what was counted on a day that has begun still counts.
LEMMA DaysGoOn ==
  ASSUME DayInv, H!Tick \/ H!Hold, NEW d \in H!Days, d <= H!Today, NEW n \in Nat, InDay(n, d)
  PROVE  InDay(n, d)'
<1>1. /\ time \in Nat /\ H!Today \in H!Days /\ H!Today \in Nat /\ H!Days \subseteq Nat
      /\ holders \in Nat /\ \A e \in H!Days : opening[e] \in Nat
  BY DayFacts
<1>2. opening[d] <= n /\ n <= H!Closing(d)
  BY DEF InDay
<1>3. CASE H!Hold
  <2>1. holders' = holders + 1 /\ H!Today' = H!Today /\ opening' = opening
    BY <1>3 DEF H!Hold, H!Today
  <2>2. H!Closing(d)' = IF d = H!Today THEN holders + 1 ELSE opening[d + 1]
    BY <2>1 DEF H!Closing
  <2>3. n <= H!Closing(d)'
    <3>1. CASE d = H!Today
      BY <1>1, <1>2, <2>2, <3>1 DEF H!Closing
    <3>2. CASE d # H!Today
      BY <1>2, <2>2, <3>2 DEF H!Closing
    <3>3. QED
      BY <3>1, <3>2
  <2>4. QED
    BY <1>2, <2>1, <2>3 DEF InDay
<1>4. CASE H!Tick
  <2>1. /\ time' = time + 1 /\ holders' = holders
        /\ opening' = IF H!Day(time') = H!Today THEN opening
                      ELSE [opening EXCEPT ![H!Day(time')] = holders]
    BY <1>4 DEF H!Tick
  <2>2. H!Day(time') \in {H!Today, H!Today + 1} /\ H!Today' = H!Day(time')
    BY <1>1, <2>1, NextDay DEF H!Today
  <2>3. CASE H!Today' = H!Today
    <3>1. opening' = opening
      BY <2>1, <2>2, <2>3
    <3>2. H!Closing(d)' = H!Closing(d)
      BY <2>1, <2>3, <3>1 DEF H!Closing
    <3>3. QED
      BY <1>2, <3>1, <3>2 DEF InDay
  <2>4. CASE H!Today' = H!Today + 1
    <3>1. opening' = [opening EXCEPT ![H!Today + 1] = holders]
      <4>1. H!Day(time') = H!Today + 1 /\ H!Day(time') # H!Today
        BY <1>1, <2>2, <2>4
      <4>2. QED
        BY <2>1, <4>1
    <3>2. H!Today + 1 \in H!Days
      <4>1. HolderTypes'
        BY <1>4, DayTickKeeps, HolderConstants DEF DayInv, HolderInv
      <4>2. time' \in 0..MaxTime
        BY <4>1 DEF HolderTypes
      <4>3. MaxTime \in Nat /\ DayLength \in Nat \ {0} /\ time' \in Nat /\ time' <= MaxTime
        BY <4>2, HolderConstants DEF HoldersOK
      <4>4. H!Day(time') <= H!Day(MaxTime) /\ H!Day(MaxTime) \in Nat
        BY <4>3, DayGrows, DayBounds
      <4>5. H!Day(MaxTime) = MaxTime \div DayLength
        BY DEF H!Day
      <4>6. QED
        BY <1>1, <2>2, <2>4, <4>4, <4>5 DEF H!Days
    <3>3. d # H!Today + 1 /\ opening'[d] = opening[d]
      BY <1>1, <3>1
    <3>4. H!Closing(d)' = opening'[d + 1]
      BY <2>4, <3>3 DEF H!Closing
    <3>5. CASE d = H!Today
      BY <1>2, <3>1, <3>2, <3>3, <3>4, <3>5 DEF InDay, H!Closing, DayInv, CountInv
    <3>6. CASE d # H!Today
      <4>1. opening'[d + 1] = opening[d + 1]
        BY <1>1, <3>1, <3>6
      <4>2. QED
        BY <1>2, <3>3, <3>4, <3>6, <4>1 DEF InDay, H!Closing
    <3>7. QED
      BY <3>5, <3>6
  <2>5. QED
    BY <2>2, <2>3, <2>4
<1>5. QED
  BY <1>3, <1>4

LEMMA ChainCounts ==
  ASSUME DayInv, H!Tick \/ H!Hold
  PROVE  CountInv'
<1>1. /\ time \in Nat /\ H!Today \in H!Days /\ H!Today \in Nat /\ H!Days \subseteq Nat
      /\ holders \in Nat /\ \A d \in H!Days : opening[d] \in Nat
  BY DayFacts
<1>2. UNCHANGED <<daily, stats, counted, crossed>>
  BY DEF H!Tick, H!Hold
<1>3. H!Today' \in Nat /\ H!Today <= H!Today'
  <2>1. CASE H!Hold
    BY <1>1, <2>1 DEF H!Hold, H!Today
  <2>2. CASE H!Tick
    <3>1. H!Today' = H!Day(time + 1)
      BY <2>2 DEF H!Tick, H!Today
    <3>2. QED
      BY <1>1, <3>1, NextDay DEF H!Today
  <2>3. QED
    BY <2>1, <2>2
<1>4. opening' \in [H!Days -> Nat] /\ opening'[H!Today'] <= holders'
  <2>1. CASE H!Hold
    BY <1>1, <2>1 DEF H!Hold, H!Today, DayInv, CountInv
  <2>2. CASE H!Tick
    <3>1. /\ H!Today' = H!Day(time') /\ holders' = holders
          /\ opening' = IF H!Today' = H!Today THEN opening
                        ELSE [opening EXCEPT ![H!Today'] = holders]
      BY <2>2 DEF H!Tick, H!Today
    <3>2. CASE H!Today' = H!Today
      BY <3>1, <3>2 DEF DayInv, CountInv
    <3>3. CASE H!Today' # H!Today
      <4>1. opening' = [opening EXCEPT ![H!Today'] = holders]
        BY <3>1, <3>3
      <4>2. opening' \in [H!Days -> Nat]
        BY <1>1, <4>1 DEF DayInv, CountInv
      <4>3. H!Today' \in H!Days
        <5>1. HolderInv'
          BY <2>2, DayTickKeeps, HolderConstants DEF DayInv
        <5>2. time' \in 0..MaxTime
          BY <5>1 DEF HolderInv, HolderTypes
        <5>3. MaxTime \in Nat /\ DayLength \in Nat \ {0} /\ time' \in Nat /\ time' <= MaxTime
          BY <5>2, HolderConstants DEF HoldersOK
        <5>4. H!Day(time') <= H!Day(MaxTime) /\ H!Day(MaxTime) \in Nat /\ H!Day(time') \in Nat
          BY <5>3, DayGrows, DayBounds
        <5>5. H!Day(MaxTime) = MaxTime \div DayLength
          BY DEF H!Day
        <5>6. QED
          BY <3>1, <5>4, <5>5 DEF H!Days
      <4>4. QED
        BY <1>1, <3>1, <4>1, <4>2, <4>3 DEF DayInv, CountInv
    <3>4. QED
      BY <3>2, <3>3
  <2>3. QED
    BY <2>1, <2>2
<1>5. daily # Off => InDay(daily.count, daily.date)'
  <2> SUFFICES ASSUME daily # Off PROVE InDay(daily.count, daily.date)'
    OBVIOUS
  <2>1. daily.date \in H!Days /\ daily.count \in Nat /\ daily.date <= H!Today
    BY DayFacts
  <2>2. InDay(daily.count, daily.date)
    BY DEF DayInv, CountInv
  <2>3. \A d \in H!Days, n \in Nat : d <= H!Today /\ InDay(n, d) => opening'[d] <= n /\ n <= H!Closing(d)'
    BY DaysGoOn DEF InDay
  <2>4. QED
    BY <1>2, <2>1, <2>2, <2>3 DEF InDay, H!Closing
<1>6. ASSUME NEW r \in Workers, counted[r] # Off
      PROVE  counted[r].on <= H!Today' /\ InDay(counted[r].count, counted[r].on)'
  <2>1. counted[r].on \in H!Days /\ counted[r].count \in Nat
    BY <1>6, DayFacts
  <2>2. counted[r].on <= H!Today /\ InDay(counted[r].count, counted[r].on)
    BY <1>6 DEF DayInv, CountInv
  <2>3. \A d \in H!Days, n \in Nat : d <= H!Today /\ InDay(n, d) => opening'[d] <= n /\ n <= H!Closing(d)'
    BY DaysGoOn DEF InDay
  <2>4. counted[r].on <= H!Today'
    <3>1. counted[r].on \in Nat
      BY <1>1, <2>1
    <3>2. QED
      BY <1>1, <1>3, <2>2, <3>1
  <2>5. QED
    BY <1>2, <2>1, <2>2, <2>3, <2>4 DEF InDay, H!Closing
<1>7. ASSUME NEW d \in H!Days, stats[d] # Off
      PROVE  d <= H!Today' /\ (d \notin crossed => InDay(stats[d].count, d)')
  <2>1. stats[d].count \in Nat /\ d <= H!Today
    BY <1>7, DayFacts DEF DayInv, CountInv
  <2>2. d \notin crossed => InDay(stats[d].count, d)
    BY <1>7 DEF DayInv, CountInv
  <2>3. \A n \in Nat : InDay(n, d) => opening'[d] <= n /\ n <= H!Closing(d)'
    BY <1>7, <2>1, DaysGoOn DEF InDay
  <2>4. d <= H!Today'
    BY <1>1, <1>3, <2>1
  <2>5. QED
    BY <1>2, <2>1, <2>2, <2>3, <2>4 DEF InDay, H!Closing
<1>8. QED
  BY <1>2, <1>4, <1>5, <1>6, <1>7 DEF CountInv

\* A run or the indexer takes a count, and the chain stands still.
LEMMA StillCounts ==
  ASSUME DayInv, UNCHANGED <<time, holders, opening>>, UNCHANGED <<stats, crossed>>,
         daily' # Off => InDay(daily'.count, daily'.date),
         \A r \in Workers : counted'[r] # Off =>
           counted'[r].on <= H!Today /\ InDay(counted'[r].count, counted'[r].on)
  PROVE  CountInv'
<1>1. H!Today' = H!Today /\ \A d : H!Closing(d)' = H!Closing(d)
  BY DEF H!Today, H!Closing
<1>2. QED
  BY <1>1 DEF DayInv, CountInv, InDay, H!Today, H!Closing

LEMMA FetchCounts ==
  ASSUME DayInv, NEW r \in Workers,
         H!CountHolders(r) \/ H!DateCount(r) \/ H!FetchRecord(r) \/ H!FailRun(r)
  PROVE  CountInv'
<1>1. UNCHANGED <<time, holders, opening>> /\ UNCHANGED <<stats, crossed>> /\ daily' = daily
  BY DEF H!CountHolders, H!DateCount, H!FetchRecord, H!FailRun
<1>2. /\ H!Today \in H!Days /\ H!Today \in Nat /\ holders \in Nat
      /\ opening[H!Today] <= holders /\ opening[H!Today] \in Nat
  BY DayFacts DEF DayInv, CountInv
<1>3. daily # Off => InDay(daily.count, daily.date)
  BY DEF DayInv, CountInv
<1>4. ASSUME NEW new, counted' = [counted EXCEPT ![r] = new],
             new # Off => new.on <= H!Today /\ InDay(new.count, new.on)
      PROVE  CountInv'
  <2>1. \A v \in Workers : counted'[v] = IF v = r THEN new ELSE counted[v]
    BY <1>4 DEF DayInv, HolderInv, HolderTypes
  <2>2. \A v \in Workers : counted'[v] # Off =>
          counted'[v].on <= H!Today /\ InDay(counted'[v].count, counted'[v].on)
    BY <1>4, <2>1 DEF DayInv, CountInv
  <2>3. QED
    BY <1>1, <1>3, <2>2, StillCounts
<1>5. CASE H!CountHolders(r)
  <2> DEFINE new == [date |-> H!Today, count |-> holders, on |-> H!Today]
  <2>1. counted' = [counted EXCEPT ![r] = new] /\ new.on = H!Today /\ new.count = holders
    BY <1>5 DEF H!CountHolders
  <2>2. InDay(holders, H!Today)
    BY <1>2 DEF InDay, H!Closing
  <2> HIDE DEF new
  <2>3. new.on <= H!Today /\ InDay(new.count, new.on)
    BY <1>2, <2>1, <2>2
  <2>4. QED
    BY <1>4, <2>1, <2>3
<1>6. CASE H!DateCount(r)
  <2> DEFINE new == [counted[r] EXCEPT !.date = H!Today]
  <2>1. counted[r] \in HolderCounts /\ counted[r] # Off
    BY <1>6 DEF H!DateCount, DayInv, HolderInv, HolderTypes
  <2>2. /\ counted' = [counted EXCEPT ![r] = new]
        /\ new.on = counted[r].on /\ new.count = counted[r].count
    BY <1>6, <2>1 DEF H!DateCount, HolderCounts
  <2>3. counted[r].on <= H!Today /\ InDay(counted[r].count, counted[r].on)
    BY <2>1 DEF DayInv, CountInv
  <2> HIDE DEF new
  <2>4. QED
    BY <1>4, <2>2, <2>3
<1>7. CASE H!FetchRecord(r)
  <2> DEFINE new == [date |-> daily.date, count |-> daily.count, on |-> daily.date]
  <2>1. /\ counted' = [counted EXCEPT ![r] = new] /\ daily # Off
        /\ new.on = daily.date /\ new.count = daily.count
    BY <1>7 DEF H!FetchRecord
  <2>2. daily.date <= H!Today
    BY <2>1, DayFacts
  <2> HIDE DEF new
  <2>3. QED
    BY <1>3, <1>4, <2>1, <2>2
<1>8. CASE H!FailRun(r)
  BY <1>4, <1>8 DEF H!FailRun
<1>9. QED
  BY <1>5, <1>6, <1>7, <1>8

\* The row of a day is marked as crossed unless the count is of that day.
LEMMA UpsertCounts ==
  ASSUME DayInv, NEW r \in Workers, H!Upsert(r)
  PROVE  CountInv'
<1> DEFINE d   == counted[r].date
           row == IF stats[d] = Off THEN [count |-> counted[r].count, created |-> time]
                  ELSE [stats[d] EXCEPT !.count = counted[r].count]
<1>1. counted[r] # Off
  BY DEF H!Upsert, DayInv, HolderInv, HolderTypes
<1>2. d \in H!Days /\ d <= H!Today
  BY <1>1, DayFacts DEF DayInv, HolderInv, NotBeforeItsDay
<1>3. row.count = counted[r].count
  <2>1. CASE stats[d] = Off
    BY <2>1
  <2>2. CASE stats[d] # Off
    <3>1. stats[d] \in HolderRows
      BY <1>2, <2>2, DayFacts
    <3>2. QED
      BY <2>2, <3>1 DEF HolderRows
  <2>3. QED
    BY <2>1, <2>2
<1>4. /\ stats' = [stats EXCEPT ![d] = row]
      /\ crossed' = IF counted[r].on = d THEN crossed \ {d} ELSE crossed \cup {d}
      /\ counted' = [counted EXCEPT ![r] = Off]
      /\ UNCHANGED <<time, holders, opening, daily>>
  BY DEF H!Upsert, H!RowOf
<1> HIDE DEF row, d
<1>5. \A e \in H!Days : stats'[e] = IF e = d THEN row ELSE stats[e]
  BY <1>4 DEF DayInv, HolderInv, HolderTypes
<1>6. counted[r].on = d => InDay(row.count, d)
  BY <1>1, <1>3 DEF DayInv, CountInv
<1>7. \A v \in Workers : counted'[v] = IF v = r THEN Off ELSE counted[v]
  BY <1>4 DEF DayInv, HolderInv, HolderTypes
<1>8. \A e \in H!Days : stats'[e] # Off =>
        e <= H!Today /\ (e \notin crossed' => InDay(stats'[e].count, e))
  <2> SUFFICES ASSUME NEW e \in H!Days, stats'[e] # Off
               PROVE  e <= H!Today /\ (e \notin crossed' => InDay(stats'[e].count, e))
    OBVIOUS
  <2>1. CASE e = d
    BY <1>2, <1>4, <1>5, <1>6, <2>1
  <2>2. CASE e # d
    BY <1>4, <1>5, <2>2 DEF DayInv, CountInv
  <2>3. QED
    BY <2>1, <2>2
<1>9. QED
  BY <1>4, <1>7, <1>8 DEF DayInv, CountInv, InDay, H!Today, H!Closing

LEMMA CountsInductive ==
  /\ H!Init => DayInv
  /\ DayInv /\ [H!Next]_(H!vars) => DayInv'
<1>1. H!Init => DayInv
  <2> SUFFICES ASSUME H!Init PROVE DayInv
    OBVIOUS
  <2>1. time \in 0..MaxTime /\ holders \in Nat /\ daily = Off /\ stored = {}
    BY HolderConstants DEF H!Init, HoldersOK
  <2>2. HolderTypes
    BY <2>1 DEF H!Init, HolderTypes
  <2>3. HolderInv
    BY <2>1, <2>2 DEF H!Init, HolderInv, NotBeforeItsDay, RecentRowsStay
  <2>4. H!Today \in H!Days
    BY <2>2, TodayIsADay, HolderConstants
  <2>5. QED
    BY <2>1, <2>3, <2>4 DEF H!Init, DayInv, CountInv
<1>2. ASSUME DayInv, [H!Next]_(H!vars) PROVE DayInv'
  <2>1. HolderInv'
    BY <1>2, HoldersInductive, HolderConstants DEF DayInv
  <2>2. ASSUME UNCHANGED H!vars PROVE CountInv'
    BY <1>2, <2>2 DEF H!vars, DayInv, CountInv, InDay, H!Today, H!Closing
  <2>3. ASSUME H!Tick \/ H!Hold PROVE CountInv'
    BY <1>2, <2>3, ChainCounts
  <2>4. ASSUME H!Record PROVE CountInv'
    <3>1. /\ daily' = [date |-> H!Today, count |-> holders]
          /\ UNCHANGED <<time, holders, opening>> /\ UNCHANGED <<stats, crossed>> /\ counted' = counted
      BY <2>4 DEF H!Record
    <3>2. /\ H!Today \in H!Days /\ holders \in Nat /\ opening[H!Today] <= holders
          /\ opening[H!Today] \in Nat
      BY <1>2, DayFacts DEF DayInv, CountInv
    <3>3. InDay(holders, H!Today)
      BY <3>2 DEF InDay, H!Closing
    <3>4. InDay(daily'.count, daily'.date)
      BY <3>1, <3>3
    <3>5. \A r \in Workers : counted'[r] # Off =>
            counted'[r].on <= H!Today /\ InDay(counted'[r].count, counted'[r].on)
      BY <1>2, <3>1 DEF DayInv, CountInv
    <3>6. QED
      BY <1>2, <3>1, <3>4, <3>5, StillCounts
  <2>5. ASSUME H!Clean PROVE CountInv'
    <3>1. /\ \A d \in H!Days : stats'[d] # Off => stats'[d] = stats[d] /\ stats[d] # Off
          /\ UNCHANGED <<time, holders, opening, daily, counted, crossed>>
      BY <2>5 DEF H!Clean
    <3>2. QED
      BY <1>2, <3>1 DEF DayInv, CountInv, InDay, H!Today, H!Closing
  <2>6. ASSUME NEW r \in Workers,
               H!CountHolders(r) \/ H!DateCount(r) \/ H!FetchRecord(r) \/ H!Upsert(r) \/ H!FailRun(r)
        PROVE  CountInv'
    BY <1>2, <2>6, FetchCounts, UpsertCounts
  <2>7. CountInv'
    BY <1>2, <2>2, <2>3, <2>4, <2>5, <2>6 DEF H!Next
  <2>8. QED
    BY <2>1, <2>7 DEF DayInv
<1>3. QED
  BY <1>1, <1>2

LEMMA HoldersKept ==
  /\ ReadsInit /\ part = "holders" => DayInv
  /\ [ReadsNext]_allVars /\ (part = "holders" => DayInv) => (part' = "holders" => DayInv')
<1>1. ReadsInit /\ part = "holders" => H!Init
  BY DEF ReadsInit
<1>2. [ReadsNext]_allVars /\ part' = "holders" => part = "holders" /\ [H!Next]_(H!vars)
  BY DEF ReadsNext, allVars, holderVars, H!vars
<1>3. QED
  BY <1>1, <1>2, CountsInductive

\* However late the clean-up (cleanAssetHolder) and the runs are, for days of
\* any length, the lists of assets find the row of yesterday and of today
\* once it was stored: its age keeps it, although it is looked up by its date.
THEOREM RecentStatisticsStay == ReadsSpec => []ShownStatisticsStay
<1> DEFINE Kept == part = "holders" => DayInv
<1>1. ReadsInit => Kept
  BY HoldersKept
<1>2. Kept /\ [ReadsNext]_allVars => Kept'
  BY HoldersKept
<1>3. Kept => ShownStatisticsStay
  BY DEF DayInv, HolderInv, RecentRowsStay, ShownStatisticsStay, H!ShownStatisticsStay, H!Shown
<1>4. QED
  BY <1>1, <1>2, <1>3, PTL DEF ReadsSpec

\* And such a row counts what the asset had on that day, unless a run counted
\* before midnight and stored after it (getHolderWithPagination).
THEOREM CountsAreOfTheDay == ReadsSpec => []CountsAreOfTheirDay
<1> DEFINE Kept == part = "holders" => DayInv
<1>1. ReadsInit => Kept
  BY HoldersKept
<1>2. Kept /\ [ReadsNext]_allVars => Kept'
  BY HoldersKept
<1>3. Kept => CountsAreOfTheirDay
  <2> SUFFICES ASSUME DayInv, NEW d \in H!Days \ crossed, stats[d] # Off
               PROVE  stats[d].count \in opening[d]..H!Closing(d)
    BY DEF CountsAreOfTheirDay, H!CountsAreOfTheirDay
  <2>1. InDay(stats[d].count, d) /\ stats[d].count \in Nat /\ opening[d] \in Nat /\ d <= H!Today
    BY DayFacts DEF DayInv, CountInv
  <2>2. H!Closing(d) \in Nat
    <3>1. CASE d = H!Today
      BY <3>1, DayFacts DEF H!Closing
    <3>2. CASE d # H!Today
      <4>1. d + 1 \in H!Days
        <5>1. H!Today \in H!Days /\ H!Today \in Nat /\ d \in Nat
          BY DayFacts
        <5>2. \A e \in H!Days, n \in Nat : n <= e => n \in H!Days
          <6> DEFINE last == MaxTime \div DayLength
          <6>1. last = H!Day(MaxTime) /\ MaxTime \in Nat /\ DayLength \in Nat \ {0}
            BY HolderConstants DEF HoldersOK, H!Day
          <6>2. last \in Nat
            <7> HIDE DEF last
            <7>1. QED
              BY <6>1, DayBounds
          <6>3. H!Days = 0..last
            BY DEF H!Days
          <6> HIDE DEF last
          <6>4. QED
            BY <6>2, <6>3
        <5>3. d + 1 \in Nat /\ d + 1 <= H!Today
          BY <2>1, <3>2, <5>1
        <5>4. QED
          BY <5>1, <5>2, <5>3
      <4>2. QED
        BY <3>2, <4>1, DayFacts DEF H!Closing
    <3>3. QED
      BY <3>1, <3>2
  <2>3. QED
    BY <2>1, <2>2 DEF InDay
<1>4. QED
  BY <1>1, <1>2, <1>3, PTL DEF ReadsSpec

-----------------------------------------------------------------------------
(* Quests: the trades of the address.                                      *)

\* <<p, k>> is the k-th trade of pool p, counted from the oldest: later trades
\* leave it where it is.
AllPools == 1..PoolCount
OwnIn(P) ==
  {x \in P \X Nat : /\ 1 <= x[2] /\ x[2] <= Len(pool[x[1]])
                    /\ pool[x[1]][Len(pool[x[1]]) + 1 - x[2]]}
Unread   == {left[i] : i \in DOMAIN left}
Passes   == ~Q!Nothing(quest) /\ Q!AtLeast(Q!Found(quest), quest.amount)

QuestTypes ==
  /\ pool \in [AllPools -> Seq(BOOLEAN)] /\ quest \in Q!Quest
  /\ deeds \in Nat /\ senders \in Nat
  /\ pc \in {"start", "pools", "told", "failed"}
  /\ silent \in BOOLEAN /\ verdict \in BOOLEAN /\ proven \in BOOLEAN
  /\ left \in Seq(AllPools) /\ \A i, j \in DOMAIN left : i # j => left[i] # left[j]
  /\ IsFiniteSet(OwnIn(AllPools))

\* What was proven can be proven again, but for what was spent or pushed out.
StaysProven ==
  /\ proven /\ quest.kind # "hold-aura" => quest.amount # Q!NaN /\ deeds >= quest.amount
  /\ proven /\ quest.kind \notin {"hold-aura", "v2"} => Passes
  /\ pc = "told" => /\ verdict => proven
                    /\ ~verdict /\ proven =>
                         silent \/ quest.kind = "hold-aura" \/ (quest.kind = "v2" /\ Q!Pushed)

\* A reader of the pools has no trade twice, and the trades that it has not
\* found yet are in the pools that it has not read.
PoolsCount ==
  /\ quest.kind = "v2" => deeds = Cardinality(OwnIn(AllPools))
  /\ pc = "pools" =>
       /\ quest.kind = "v2"
       /\ senders <= Cardinality(OwnIn(AllPools \ Unread))
       /\ proven /\ ~Q!Pushed /\ ~silent =>
            senders + Cardinality(OwnIn(Unread)) >= quest.amount

QuestInv == QuestTypes /\ StaysProven /\ PoolsCount

LEMMA QuestFacts ==
  ASSUME QuestTypes
  PROVE  /\ quest.kind \in {"mint-nft", "hold-aura", "punka-cp", "v2", "v3"}
         /\ quest.amount \in Int /\ (quest.amount # Q!NaN => quest.amount \in Nat)
         /\ Q!NaN = -1 /\ Unread \subseteq AllPools
         /\ \A P \in SUBSET AllPools :
              /\ OwnIn(P) \subseteq OwnIn(AllPools) /\ IsFiniteSet(OwnIn(P))
              /\ Cardinality(OwnIn(P)) \in Nat
              /\ Cardinality(OwnIn(P)) <= Cardinality(OwnIn(AllPools))
<1>1. quest.kind \in {"mint-nft", "hold-aura", "punka-cp", "v2", "v3"}
      /\ quest.amount \in Amounts \cup {Q!NaN}
  BY DEF QuestTypes, Q!Quest, Q!Kinds
<1>2. Amounts \subseteq Nat
  BY ReadsConstantsOK
<1>3. Q!NaN = -1
  BY DEF Q!NaN
<1>7. quest.amount \in Int /\ (quest.amount # Q!NaN => quest.amount \in Nat)
  <2>1. CASE quest.amount \in Amounts
    <3> DEFINE amount == quest.amount
    <3>1. amount \in Nat
      BY <1>2, <2>1
    <3> HIDE DEF amount
    <3>2. amount \in Int /\ (amount # Q!NaN => amount \in Nat)
      BY <3>1
    <3>3. QED
      BY <3>2 DEF amount
  <2>2. CASE quest.amount = Q!NaN
    <3>1. quest.amount \in Int
      BY <1>3, <2>2
    <3>2. QED
      BY <2>2, <3>1
  <2>3. QED
    BY <1>1, <2>1, <2>2
<1>4. Unread \subseteq AllPools
  BY DEF QuestTypes, Unread
<1>5. ASSUME NEW P \in SUBSET AllPools
      PROVE  /\ OwnIn(P) \subseteq OwnIn(AllPools) /\ IsFiniteSet(OwnIn(P))
             /\ Cardinality(OwnIn(P)) \in Nat
             /\ Cardinality(OwnIn(P)) <= Cardinality(OwnIn(AllPools))
  <2>1. OwnIn(P) \subseteq OwnIn(AllPools)
    BY DEF OwnIn
  <2>2. IsFiniteSet(OwnIn(AllPools))
    BY DEF QuestTypes
  <2>3. QED
    BY <2>1, <2>2, FS_Subset, FS_CardinalityType
<1>6. QED
  BY <1>1, <1>3, <1>4, <1>5, <1>7

\* The trades of two sets of pools.
LEMMA PoolsAdd ==
  ASSUME QuestTypes, NEW P \in SUBSET AllPools, NEW p \in AllPools, p \notin P
  PROVE  Cardinality(OwnIn(P \cup {p})) = Cardinality(OwnIn(P)) + Cardinality(OwnIn({p}))
<1>1. P \cup {p} \in SUBSET AllPools /\ {p} \in SUBSET AllPools
  OBVIOUS
<1>2. IsFiniteSet(OwnIn(P)) /\ IsFiniteSet(OwnIn({p}))
  BY <1>1, QuestFacts
<1>3. OwnIn(P \cup {p}) = OwnIn(P) \cup OwnIn({p}) /\ OwnIn(P) \cap OwnIn({p}) = {}
  BY DEF OwnIn
<1>4. Cardinality(OwnIn(P) \cap OwnIn({p})) = 0
  BY <1>3, FS_EmptySet
<1>5. Cardinality(OwnIn(P)) \in Nat /\ Cardinality(OwnIn({p})) \in Nat
  BY <1>2, FS_CardinalityType
<1>6. Cardinality(OwnIn(P) \cup OwnIn({p})) =
        Cardinality(OwnIn(P)) + Cardinality(OwnIn({p})) - Cardinality(OwnIn(P) \cap OwnIn({p}))
  BY <1>2, FS_Union
<1>7. QED
  <2> DEFINE a == Cardinality(OwnIn(P))
             b == Cardinality(OwnIn({p}))
             c == Cardinality(OwnIn(P) \cap OwnIn({p}))
             d == Cardinality(OwnIn(P) \cup OwnIn({p}))
  <2>1. d = Cardinality(OwnIn(P \cup {p}))
    BY <1>3
  <2>2. a \in Nat /\ b \in Nat /\ c = 0 /\ d = a + b - c
    BY <1>4, <1>5, <1>6
  <2> HIDE DEF a, b, c, d
  <2>3. d = a + b
    BY <2>2
  <2>4. QED
    BY <2>1, <2>3 DEF a, b, d

\* The window of a pool shows its own trades, all of them unless some are
\* pushed out.
LEMMA WindowCounts ==
  ASSUME QuestTypes, NEW p \in AllPools
  PROVE  /\ Q!OwnTrades(Q!Latest(p)) \in Nat
         /\ Q!OwnTrades(Q!Latest(p)) <= Cardinality(OwnIn({p}))
         /\ ~Q!Pushed => Q!OwnTrades(Q!Latest(p)) = Cardinality(OwnIn({p}))
<1> DEFINE n == Len(pool[p])
           m == Q!Least(PoolWindow, n)
           S == {i \in 1..m : pool[p][i]}
           f == [i \in S |-> <<p, n + 1 - i>>]
<1>1. pool[p] \in Seq(BOOLEAN) /\ n \in Nat /\ PoolWindow \in Nat
  BY ReadsConstantsOK DEF QuestTypes
<1>2. m \in Nat /\ m <= n /\ (n <= PoolWindow => m = n)
  BY <1>1 DEF Q!Least
<1>3. DOMAIN Q!Latest(p) = 1..m /\ \A i \in 1..m : Q!Latest(p)[i] = pool[p][i]
  BY <1>1, <1>2 DEF Q!Latest
<1>4. Q!OwnTrades(Q!Latest(p)) = Cardinality(S)
  <2>1. {i \in DOMAIN Q!Latest(p) : Q!Latest(p)[i]} = S
    BY <1>3
  <2>2. Q!OwnTrades(Q!Latest(p)) =
          Cardinality({i \in DOMAIN Q!Latest(p) : Q!Latest(p)[i]})
    BY Zenon DEF Q!OwnTrades, Q!Cardinality, Cardinality
  <2>3. QED
    BY <2>1, <2>2
<1> HIDE DEF n, m
<1>5. f \in [S -> OwnIn({p})]
  <2>1. ASSUME NEW i \in S PROVE <<p, n + 1 - i>> \in OwnIn({p})
    <3> DEFINE k == n + 1 - i
    <3>1. i \in 1..m /\ pool[p][i]
      BY <2>1
    <3>2. k \in Nat /\ 1 <= k /\ k <= n /\ n + 1 - k = i
      BY <1>1, <1>2, <3>1
    <3> HIDE DEF k
    <3>3. <<p, k>> \in {p} \X Nat /\ <<p, k>>[1] = p /\ <<p, k>>[2] = k
      BY <3>2
    <3>4. <<p, k>> \in OwnIn({p})
      BY <3>1, <3>2, <3>3 DEF OwnIn, n
    <3>5. QED
      BY <3>4 DEF k
  <2>2. QED
    BY <2>1
<1>6. f \in Injection(S, OwnIn({p}))
  <2>1. ASSUME NEW i \in S, NEW j \in S, f[i] = f[j] PROVE i = j
    <3>1. <<p, n + 1 - i>> = <<p, n + 1 - j>>
      BY <2>1
    <3>2. n + 1 - i = n + 1 - j /\ i \in Nat /\ j \in Nat
      BY <2>1, <3>1
    <3>3. QED
      BY <1>1, <3>2
  <2> HIDE DEF f, S
  <2>2. QED
    BY <1>5, <2>1 DEF Injection, IsInjective
<1>7. IsFiniteSet(OwnIn({p})) /\ {p} \in SUBSET AllPools
  BY QuestFacts
<1>8. /\ IsFiniteSet(S) /\ Cardinality(S) <= Cardinality(OwnIn({p}))
      /\ Cardinality(S) = Cardinality(OwnIn({p})) <=> f \in Surjection(S, OwnIn({p}))
  <2> HIDE DEF f, S
  <2>1. QED
    BY <1>6, <1>7, FS_Injection
<1>9. Cardinality(S) \in Nat
  BY <1>8, FS_CardinalityType
<1>10. ASSUME ~Q!Pushed PROVE f \in Surjection(S, OwnIn({p}))
  <2>1. DOMAIN pool = AllPools
    BY DEF QuestTypes
  <2>2. n <= PoolWindow
    BY <1>1, <1>10, <2>1 DEF Q!Pushed, n
  <2>3. ASSUME NEW x \in OwnIn({p}) PROVE \E i \in S : f[i] = x
    <3>1. x = <<p, x[2]>> /\ x[2] \in Nat /\ 1 <= x[2] /\ x[2] <= n /\ pool[p][n + 1 - x[2]]
      BY <2>3 DEF OwnIn, n
    <3>2. n + 1 - x[2] \in S
      BY <1>1, <1>2, <2>2, <3>1
    <3>3. f[n + 1 - x[2]] = <<p, n + 1 - (n + 1 - x[2])>>
      BY <3>2
    <3>4. n + 1 - (n + 1 - x[2]) = x[2]
      BY <1>1, <3>1
    <3>5. QED
      BY <3>1, <3>2, <3>3, <3>4
  <2>4. QED
    BY <1>5, <2>3 DEF Surjection
<1>11. QED
  BY <1>4, <1>8, <1>9, <1>10

LEMMA QuestStarts ==
  ASSUME Q!Init
  PROVE  QuestInv
<1>1. quest.kind \in Q!Kinds
  BY DEF Q!Init, Q!Quest
<1>2. pool = [p \in AllPools |-> <<>>] /\ left = <<>>
  BY DEF Q!Init, AllPools
<1>3. OwnIn(AllPools) = {}
  BY <1>2 DEF OwnIn
<1>4. IsFiniteSet(OwnIn(AllPools)) /\ Cardinality(OwnIn(AllPools)) = 0
  BY <1>3, FS_EmptySet
<1>5. pool \in [AllPools -> Seq(BOOLEAN)] /\ left \in Seq(AllPools) /\ DOMAIN left = {}
  BY <1>2
<1>6. QuestTypes
  BY <1>4, <1>5 DEF Q!Init, QuestTypes
<1>7. StaysProven /\ PoolsCount
  BY <1>4 DEF Q!Init, StaysProven, PoolsCount
<1>8. QED
  BY <1>6, <1>7 DEF QuestInv

\* What stays where the pools, the quest and the deeds do.
LEMMA QuestFrame ==
  /\ UNCHANGED pool => (\A P : OwnIn(P)' = OwnIn(P)) /\ (Q!Pushed' <=> Q!Pushed)
  /\ UNCHANGED left => Unread' = Unread
  /\ UNCHANGED <<deeds, quest>> => (Passes' <=> Passes)
<1>1. UNCHANGED pool => (\A P : OwnIn(P)' = OwnIn(P)) /\ (Q!Pushed' <=> Q!Pushed)
  BY DEF OwnIn, Q!Pushed
<1>2. UNCHANGED left => Unread' = Unread
  BY DEF Unread
<1>3. UNCHANGED <<deeds, quest>> => (Passes' <=> Passes)
  BY DEF Passes, Q!Nothing, Q!AtLeast, Q!Found, Q!Least, Q!MintLimit, Q!NaN
<1>4. QED
  BY <1>1, <1>2, <1>3

\* A test that passed passes when there are more deeds, and it passes only if
\* there are enough of them.
LEMMA PassesFacts ==
  ASSUME QuestTypes, quest.kind # "v2"
  PROVE  /\ Passes => quest.amount # Q!NaN /\ deeds >= quest.amount
         /\ Passes /\ UNCHANGED quest /\ deeds' = deeds + 1 => Passes'
<1> DEFINE amount == quest.amount
           kind   == quest.kind
           limit  == Q!MintLimit(amount)
<1>1. /\ kind \in {"mint-nft", "hold-aura", "punka-cp", "v3"} /\ deeds \in Nat /\ Q!NaN = -1
      /\ amount \in Int /\ (amount # Q!NaN => amount \in Nat) /\ Graph \in Nat
  BY QuestFacts, ReadsConstantsOK DEF QuestTypes
<1>2. limit \in Nat
  BY <1>1 DEF Q!MintLimit
<1>3. Passes <=> /\ ~(kind \in {"punka-cp", "hold-aura"} /\ deeds = 0)
                 /\ amount # Q!NaN
                 /\ Q!Found(quest) >= amount
  BY DEF Passes, Q!Nothing, Q!AtLeast
<1>4. Q!Found(quest) = IF kind = "mint-nft" THEN Q!Least(deeds, limit)
                       ELSE IF kind = "v3" THEN Q!Least(deeds, Graph) ELSE deeds
  BY DEF Q!Found
<1>5. ASSUME UNCHANGED quest
      PROVE  Passes' <=> /\ ~(kind \in {"punka-cp", "hold-aura"} /\ deeds' = 0)
                         /\ amount # Q!NaN
                         /\ Q!Found(quest)' >= amount
  BY <1>5 DEF Passes, Q!Nothing, Q!AtLeast, Q!NaN
<1>6. ASSUME UNCHANGED quest
      PROVE  Q!Found(quest)' = IF kind = "mint-nft" THEN Q!Least(deeds', limit)
                               ELSE IF kind = "v3" THEN Q!Least(deeds', Graph) ELSE deeds'
  BY <1>6 DEF Q!Found, Q!Least, Q!MintLimit, Q!NaN
<1> DEFINE found == Q!Found(quest)
           next  == Q!Found(quest)'
<1>7. found \in Nat /\ found <= deeds
  BY <1>1, <1>2, <1>4 DEF Q!Least
<1>8. Passes => amount # Q!NaN /\ deeds >= amount
  <2> HIDE DEF found, amount, kind
  <2>1. found >= amount /\ found <= deeds /\ amount \in Int /\ found \in Nat /\ deeds \in Nat
        => deeds >= amount
    OBVIOUS
  <2>2. QED
    BY <1>1, <1>3, <1>7, <2>1 DEF found, amount
<1>9. ASSUME Passes, UNCHANGED quest, deeds' = deeds + 1
      PROVE  Passes'
  <2>1. deeds' \in Nat /\ deeds' # 0 /\ deeds <= deeds'
    BY <1>1, <1>9
  <2>2. next \in Nat /\ found <= next
    <3>1. Q!Least(deeds, limit) <= Q!Least(deeds', limit) /\ Q!Least(deeds', limit) \in Nat
      BY <1>1, <1>2, <2>1 DEF Q!Least
    <3>2. Q!Least(deeds, Graph) <= Q!Least(deeds', Graph) /\ Q!Least(deeds', Graph) \in Nat
      BY <1>1, <1>2, <2>1 DEF Q!Least
    <3>3. QED
      BY <1>4, <1>6, <1>9, <2>1, <3>1, <3>2
  <2>3. amount # Q!NaN /\ found >= amount
    BY <1>3, <1>9
  <2> HIDE DEF found, next, amount, kind
  <2>4. next >= amount
    BY <1>1, <1>7, <2>2, <2>3
  <2>5. QED
    BY <1>5, <1>9, <2>1, <2>3, <2>4 DEF next
<1>10. QED
  BY <1>8, <1>9 DEF amount

LEMMA ActKeepsQuests ==
  ASSUME QuestInv, Q!Act
  PROVE  QuestInv'
<1>1. PICK more \in {1, -1} :
        /\ quest.kind # "v2" /\ (more = -1 => quest.kind = "hold-aura")
        /\ deeds + more \in 0..MaxDeeds /\ deeds' = deeds + more
        /\ UNCHANGED <<pool, quest, pc, left, senders, silent, verdict, proven>>
  BY DEF Q!Act
<1>2. QuestTypes /\ deeds' \in Nat
  BY <1>1 DEF QuestInv, QuestTypes
<1>3. (\A P : OwnIn(P)' = OwnIn(P)) /\ (Q!Pushed' <=> Q!Pushed) /\ Unread' = Unread
  BY <1>1, QuestFrame
<1>4. QuestTypes'
  BY <1>1, <1>2, <1>3 DEF QuestTypes, AllPools
<1>5. Passes => Passes' \/ quest.kind = "hold-aura"
  BY <1>1, <1>2, PassesFacts
<1>6. proven /\ quest.kind # "hold-aura" => quest.amount # Q!NaN /\ deeds' >= quest.amount
  <2>1. deeds \in Nat /\ quest.amount \in Int /\ (quest.kind # "hold-aura" => deeds' = deeds + 1)
    BY <1>1, <1>2, QuestFacts DEF QuestTypes
  <2>2. proven /\ quest.kind # "hold-aura" => quest.amount # Q!NaN /\ deeds >= quest.amount
    BY DEF QuestInv, StaysProven
  <2>3. QED
    BY <2>1, <2>2
<1>7. StaysProven'
  BY <1>1, <1>3, <1>5, <1>6 DEF QuestInv, StaysProven, Q!NaN
<1>8. PoolsCount'
  BY <1>1, <1>3 DEF QuestInv, PoolsCount
<1>9. QED
  BY <1>4, <1>7, <1>8 DEF QuestInv

\* A trade is added in front, and its number is the greatest of its pool.
LEMMA TradeAdds ==
  ASSUME QuestInv, NEW p \in AllPools, NEW own \in BOOLEAN,
         pool' = [pool EXCEPT ![p] = <<own>> \o @]
  PROVE  /\ pool' \in [AllPools -> Seq(BOOLEAN)]
         /\ IsFiniteSet(OwnIn(AllPools)')
         /\ Cardinality(OwnIn(AllPools)')
              = Cardinality(OwnIn(AllPools)) + (IF own THEN 1 ELSE 0)
         /\ \A P \in SUBSET AllPools :
              Cardinality(OwnIn(P)') \in Nat /\ Cardinality(OwnIn(P)) <= Cardinality(OwnIn(P)')
         /\ Q!Pushed => Q!Pushed'
<1> DEFINE n   == Len(pool[p])
           x   == <<p, n + 1>>
           New(P) == IF own /\ p \in P THEN {x} ELSE {}
<1>1. QuestTypes /\ pool \in [AllPools -> Seq(BOOLEAN)] /\ pool[p] \in Seq(BOOLEAN) /\ n \in Nat
  BY DEF QuestInv, QuestTypes
<1>2. /\ pool' \in [AllPools -> Seq(BOOLEAN)] /\ pool'[p] = <<own>> \o pool[p]
      /\ \A q \in AllPools : q # p => pool'[q] = pool[q]
  BY <1>1
<1>3. Len(pool'[p]) = n + 1 /\ pool'[p][1] = own
      /\ \A i \in 1..n : pool'[p][i + 1] = pool[p][i]
  BY <1>1, <1>2
<1> HIDE DEF n
<1>4. ASSUME NEW P \in SUBSET AllPools PROVE OwnIn(P)' = OwnIn(P) \cup New(P)
  <2>1. ASSUME NEW q \in P, NEW k \in Nat, 1 <= k
        PROVE  (k <= Len(pool'[q]) /\ pool'[q][Len(pool'[q]) + 1 - k]) <=>
                 \/ k <= Len(pool[q]) /\ pool[q][Len(pool[q]) + 1 - k]
                 \/ own /\ q = p /\ k = n + 1
    <3>1. CASE q # p
      BY <1>2, <2>1, <3>1
    <3>2. ASSUME q = p, k = n + 1
          PROVE  (k <= Len(pool'[q]) /\ pool'[q][Len(pool'[q]) + 1 - k]) <=> own
      <4>1. Len(pool'[q]) + 1 - k = 1 /\ k <= Len(pool'[q])
        BY <1>1, <1>3, <2>1, <3>2
      <4>2. pool'[q][Len(pool'[q]) + 1 - k] = own
        BY <1>3, <3>2, <4>1
      <4>3. QED
        BY <4>1, <4>2, Zenon
    <3>3. ASSUME q = p, k = n + 1
          PROVE  ~(k <= Len(pool[q]))
      BY <1>1, <3>3 DEF n
    <3>4. ASSUME q = p, k <= n
          PROVE  pool'[q][Len(pool'[q]) + 1 - k] = pool[q][Len(pool[q]) + 1 - k]
      <4> DEFINE i == n + 1 - k
      <4>1. i \in 1..n /\ n + 1 + 1 - k = i + 1
        BY <1>1, <2>1, <3>4
      <4> HIDE DEF i
      <4>2. pool'[p][i + 1] = pool[p][i]
        BY <1>3, <4>1
      <4>3. Len(pool'[q]) + 1 - k = i + 1 /\ Len(pool[q]) + 1 - k = i
        BY <1>3, <3>4, <4>1 DEF i, n
      <4>4. QED
        BY <3>4, <4>2, <4>3
    <3>5. ASSUME q = p PROVE (k <= Len(pool'[q]) <=> k <= n \/ k = n + 1) /\ Len(pool[q]) = n
      BY <1>1, <1>3, <2>1, <3>5 DEF n
    <3>6. ASSUME k <= n PROVE k # n + 1
      BY <1>1, <2>1, <3>6
    <3>7. QED
      BY <3>1, <3>2, <3>3, <3>4, <3>5, <3>6
  <2>2. ASSUME NEW y PROVE y \in OwnIn(P)' <=> y \in OwnIn(P) \cup New(P)
    <3>1. y \in OwnIn(P)' <=> /\ y \in P \X Nat /\ 1 <= y[2]
                              /\ y[2] <= Len(pool'[y[1]])
                              /\ pool'[y[1]][Len(pool'[y[1]]) + 1 - y[2]]
      BY DEF OwnIn
    <3>2. y \in OwnIn(P) <=> /\ y \in P \X Nat /\ 1 <= y[2]
                             /\ y[2] <= Len(pool[y[1]])
                             /\ pool[y[1]][Len(pool[y[1]]) + 1 - y[2]]
      BY DEF OwnIn
    <3>3. y \in New(P) <=> y \in P \X Nat /\ 1 <= y[2] /\ own /\ y[1] = p /\ y[2] = n + 1
      BY <1>1
    <3>4. y \in P \X Nat => y[1] \in P /\ y[2] \in Nat
      OBVIOUS
    <3> HIDE DEF New, x
    <3>5. QED
      BY <2>1, <3>1, <3>2, <3>3, <3>4
  <2>3. QED
    BY <2>2
<1>5. ASSUME NEW P \in SUBSET AllPools PROVE x \notin OwnIn(P)
  BY <1>1 DEF OwnIn, n
<1>6. ASSUME NEW P \in SUBSET AllPools
      PROVE  /\ IsFiniteSet(OwnIn(P)') /\ Cardinality(OwnIn(P)') \in Nat
             /\ Cardinality(OwnIn(P)')
                  = Cardinality(OwnIn(P)) + (IF own /\ p \in P THEN 1 ELSE 0)
             /\ Cardinality(OwnIn(P)) <= Cardinality(OwnIn(P)')
  <2>1. IsFiniteSet(OwnIn(P)) /\ Cardinality(OwnIn(P)) \in Nat
    BY <1>1, QuestFacts
  <2>2. CASE own /\ p \in P
    <3>1. OwnIn(P)' = OwnIn(P) \cup {x} /\ x \notin OwnIn(P)
      BY <1>4, <1>5, <2>2
    <3>2. IsFiniteSet(OwnIn(P)') /\ Cardinality(OwnIn(P)') = Cardinality(OwnIn(P)) + 1
      <4> HIDE DEF x
      <4>1. QED
        BY <2>1, <3>1, FS_AddElement
    <3>3. QED
      BY <2>1, <2>2, <3>2
  <2>3. CASE ~(own /\ p \in P)
    <3>1. OwnIn(P)' = OwnIn(P)
      BY <1>4, <2>3
    <3>2. QED
      BY <2>1, <2>3, <3>1
  <2>4. QED
    BY <2>2, <2>3
<1>7. Q!Pushed => Q!Pushed'
  <2>1. DOMAIN pool = AllPools /\ DOMAIN pool' = AllPools /\ PoolWindow \in Nat
    BY <1>1, <1>2, ReadsConstantsOK
  <2>2. ASSUME NEW q \in AllPools, Len(pool[q]) > PoolWindow PROVE Len(pool'[q]) > PoolWindow
    BY <1>1, <1>2, <1>3, <2>1, <2>2 DEF n
  <2>3. QED
    BY <2>1, <2>2 DEF Q!Pushed
<1>8. AllPools \in SUBSET AllPools
  OBVIOUS
<1>9. QED
  BY <1>2, <1>6, <1>7, <1>8

LEMMA TradeKeepsQuests ==
  ASSUME QuestInv, Q!Trade
  PROVE  QuestInv'
<1>1. PICK p \in AllPools, own \in BOOLEAN :
        /\ quest.kind = "v2" /\ pool' = [pool EXCEPT ![p] = <<own>> \o @]
        /\ deeds' = deeds + (IF own THEN 1 ELSE 0)
        /\ UNCHANGED <<quest, pc, left, senders, silent, verdict, proven>>
  BY DEF Q!Trade, QuestInv, QuestTypes
<1>2. /\ pool' \in [AllPools -> Seq(BOOLEAN)] /\ IsFiniteSet(OwnIn(AllPools)')
      /\ Cardinality(OwnIn(AllPools)')
           = Cardinality(OwnIn(AllPools)) + (IF own THEN 1 ELSE 0)
      /\ \A P \in SUBSET AllPools :
           Cardinality(OwnIn(P)') \in Nat /\ Cardinality(OwnIn(P)) <= Cardinality(OwnIn(P)')
      /\ Q!Pushed => Q!Pushed'
  BY <1>1, TradeAdds
<1>3. QuestTypes /\ deeds \in Nat /\ deeds' \in Nat /\ deeds <= deeds' /\ senders \in Nat
  BY <1>1 DEF QuestInv, QuestTypes
<1>4. quest.amount \in Int /\ Unread \subseteq AllPools /\ AllPools \ Unread \subseteq AllPools
      /\ Cardinality(OwnIn(Unread)) \in Nat /\ Cardinality(OwnIn(AllPools \ Unread)) \in Nat
  BY <1>3, QuestFacts
<1>5. QuestTypes'
  BY <1>1, <1>2, <1>3 DEF QuestTypes, AllPools
<1>6. PICK U \in SUBSET AllPools : U = Unread
  BY <1>4
<1>7. StaysProven'
  <2>1. proven => quest.amount # Q!NaN /\ deeds >= quest.amount
    BY <1>1 DEF QuestInv, StaysProven
  <2>2. proven => quest.amount # Q!NaN /\ deeds' >= quest.amount
    BY <1>3, <1>4, <2>1
  <2>3. QED
    BY <1>1, <1>2, <2>2 DEF QuestInv, StaysProven, Q!NaN
<1>8. PoolsCount'
  <2>1. deeds' = Cardinality(OwnIn(AllPools)') /\ quest'.kind = "v2"
    <3>1. deeds = Cardinality(OwnIn(AllPools))
      BY <1>1 DEF QuestInv, PoolsCount
    <3>2. QED
      BY <1>1, <1>2, <3>1
  <2>2. /\ Cardinality(OwnIn(U)) \in Nat /\ Cardinality(OwnIn(U)') \in Nat
        /\ Cardinality(OwnIn(U)) <= Cardinality(OwnIn(U)')
        /\ Cardinality(OwnIn(AllPools \ U)) \in Nat /\ Cardinality(OwnIn(AllPools \ U)') \in Nat
        /\ Cardinality(OwnIn(AllPools \ U)) <= Cardinality(OwnIn(AllPools \ U)')
    <3>1. AllPools \ U \in SUBSET AllPools
      OBVIOUS
    <3>2. QED
      BY <1>2, <1>4, <1>6, <3>1
  <2>3. ASSUME pc = "pools" PROVE senders <= Cardinality(OwnIn(AllPools \ U)')
    <3>1. senders <= Cardinality(OwnIn(AllPools \ U))
      BY <1>6, <2>3 DEF QuestInv, PoolsCount
    <3>2. QED
      BY <1>3, <2>2, <3>1
  <2>4. ASSUME pc = "pools", proven, ~Q!Pushed', ~silent
        PROVE  senders + Cardinality(OwnIn(U)') >= quest.amount
    <3>1. senders + Cardinality(OwnIn(U)) >= quest.amount
      BY <1>2, <1>6, <2>4 DEF QuestInv, PoolsCount
    <3>2. QED
      BY <1>3, <1>4, <2>2, <3>1
  <2>5. Unread' = U
    BY <1>1, <1>6 DEF Unread
  <2>6. /\ OwnIn(AllPools \ Unread)' = OwnIn(AllPools \ U)'
        /\ OwnIn(Unread)' = OwnIn(U)'
    BY <2>5 DEF OwnIn, AllPools
  <2>7. QED
    BY <1>1, <2>1, <2>3, <2>4, <2>6 DEF PoolsCount
<1>9. QED
  BY <1>5, <1>7, <1>8 DEF QuestInv

LEMMA AtOnceKeepsQuests ==
  ASSUME QuestInv, Q!VerifyAtOnce \/ Q!Break \/ Q!AskAgain
  PROVE  QuestInv'
<1>1. QuestTypes /\ StaysProven /\ PoolsCount
  BY DEF QuestInv
<1>2. UNCHANGED <<pool, quest, deeds, left, senders>>
  BY DEF Q!VerifyAtOnce, Q!Break, Q!AskAgain
<1>3. /\ \A P : OwnIn(P)' = OwnIn(P)
      /\ (Q!Pushed' <=> Q!Pushed) /\ (Passes' <=> Passes) /\ Unread' = Unread
  BY <1>2, QuestFrame
<1>4. ASSUME Q!VerifyAtOnce
      PROVE  /\ pc' = "told" /\ quest.kind # "v2" /\ (verdict' <=> Passes)
             /\ (proven' <=> proven \/ Passes)
             /\ verdict' \in BOOLEAN /\ proven' \in BOOLEAN /\ silent' = silent
  BY <1>4 DEF Q!VerifyAtOnce, Q!Conclude, Q!Goto, Passes
<1>5. ASSUME Q!Break
      PROVE  /\ silent' = TRUE /\ (proven' <=> proven) /\ proven' \in BOOLEAN
             /\ \/ pc' = "failed" /\ verdict' = verdict
                \/ pc' = "told" /\ verdict' = FALSE
  BY <1>1, <1>5 DEF Q!Break, Q!Conclude, Q!Goto, QuestTypes
<1>6. ASSUME Q!AskAgain
      PROVE  pc' = "start" /\ silent' = FALSE /\ verdict' = verdict /\ proven' = proven
  BY <1>6 DEF Q!AskAgain, Q!Goto
<1>7. QuestTypes'
  <2>1. pc' \in {"start", "told", "failed"} /\ silent' \in BOOLEAN
        /\ verdict' \in BOOLEAN /\ proven' \in BOOLEAN
    BY <1>1, <1>4, <1>5, <1>6 DEF QuestTypes
  <2>2. QED
    BY <1>1, <1>2, <1>3, <2>1 DEF QuestTypes, AllPools
<1>8. StaysProven'
  <2>1. CASE Q!VerifyAtOnce
    <3>1. Passes => quest.amount # Q!NaN /\ deeds >= quest.amount
      BY <1>1, <1>4, <2>1, PassesFacts
    <3>2. QED
      BY <1>1, <1>2, <1>3, <1>4, <2>1, <3>1 DEF StaysProven, Q!NaN
  <2>2. CASE Q!Break
    BY <1>1, <1>2, <1>3, <1>5, <2>2 DEF StaysProven, Q!NaN
  <2>3. CASE Q!AskAgain
    BY <1>1, <1>2, <1>3, <1>6, <2>3 DEF StaysProven, Q!NaN
  <2>4. QED
    BY <2>1, <2>2, <2>3
<1>9. PoolsCount'
  <2>1. pc' # "pools"
    BY <1>4, <1>5, <1>6
  <2>2. QED
    BY <1>1, <1>2, <1>3, <2>1 DEF PoolsCount, AllPools
<1>10. QED
  BY <1>7, <1>8, <1>9 DEF QuestInv

LEMMA ListKeepsQuests ==
  ASSUME QuestInv, Q!ListPools
  PROVE  QuestInv'
<1>1. QuestTypes /\ StaysProven /\ PoolsCount
  BY DEF QuestInv
<1>2. /\ quest.kind = "v2" /\ left' = [p \in AllPools |-> p] /\ senders' = 0 /\ pc' = "pools"
      /\ UNCHANGED <<deeds, pool, quest, silent, verdict, proven>>
  BY DEF Q!ListPools, Q!Goto, AllPools
<1>3. (\A P : OwnIn(P)' = OwnIn(P)) /\ (Q!Pushed' <=> Q!Pushed) /\ (Passes' <=> Passes)
  BY <1>2, QuestFrame
<1>4. left' \in Seq(AllPools) /\ DOMAIN left' = AllPools /\ \A i \in AllPools : left'[i] = i
  <2>1. PoolCount \in Nat
    BY ReadsConstantsOK
  <2>2. QED
    BY <1>2, <2>1 DEF AllPools
<1>5. Unread' = AllPools
  BY <1>4 DEF Unread
<1>6. OwnIn(AllPools \ Unread)' = {} /\ OwnIn(Unread)' = OwnIn(AllPools)
  <2>1. OwnIn(Unread)' = OwnIn(AllPools)'
    BY <1>5 DEF OwnIn, AllPools
  <2>2. OwnIn(AllPools \ Unread)' = {}
    BY <1>5 DEF OwnIn, AllPools
  <2>3. QED
    BY <1>3, <2>1, <2>2
<1>7. QuestTypes'
  BY <1>1, <1>2, <1>3, <1>4 DEF QuestTypes, AllPools
<1>8. StaysProven'
  BY <1>1, <1>2, <1>3 DEF StaysProven, Q!NaN
<1>9. PoolsCount'
  <2>1. Cardinality(OwnIn(AllPools \ Unread)') = 0
    BY <1>6, FS_EmptySet
  <2>2. deeds = Cardinality(OwnIn(AllPools)) /\ deeds \in Nat /\ quest.amount \in Int
    BY <1>1, <1>2, QuestFacts DEF PoolsCount, QuestTypes
  <2>3. proven => 0 + Cardinality(OwnIn(Unread)') >= quest.amount
    <3>1. proven => deeds >= quest.amount
      BY <1>1, <1>2 DEF StaysProven
    <3>2. QED
      BY <1>6, <2>2, <3>1
  <2>4. OwnIn(AllPools)' = OwnIn(AllPools)
    BY <1>3 DEF AllPools
  <2>5. QED
    BY <1>2, <2>1, <2>2, <2>3, <2>4 DEF PoolsCount
<1>10. QED
  BY <1>7, <1>8, <1>9 DEF QuestInv

LEMMA ReadKeepsQuests ==
  ASSUME QuestInv, Q!ReadPool
  PROVE  QuestInv'
<1>1. QuestTypes /\ StaysProven /\ PoolsCount
  BY DEF QuestInv
<1> DEFINE h == Head(left)
           w == Q!OwnTrades(Q!Latest(h))
<1>2. /\ pc = "pools" /\ left # <<>> /\ left' = Tail(left)
      /\ \/ senders' = senders + w /\ UNCHANGED silent
         \/ silent' = TRUE /\ UNCHANGED senders
      /\ UNCHANGED <<deeds, pool, quest, pc, verdict, proven>>
  BY DEF Q!ReadPool
<1>3. (\A P : OwnIn(P)' = OwnIn(P)) /\ (Q!Pushed' <=> Q!Pushed) /\ (Passes' <=> Passes)
  BY <1>2, QuestFrame
<1>4. left \in Seq(AllPools) /\ \A i, j \in DOMAIN left : i # j => left[i] # left[j]
  BY <1>1 DEF QuestTypes
<1>5. /\ h = left[1] /\ h \in AllPools /\ DOMAIN left = 1..Len(left) /\ Len(left) \in Nat \ {0}
      /\ left' \in Seq(AllPools) /\ DOMAIN left' = 1..(Len(left) - 1)
      /\ \A i \in DOMAIN left' : left'[i] = left[i + 1] /\ i + 1 \in DOMAIN left /\ i + 1 # 1
  BY <1>2, <1>4
<1>6. \A i, j \in DOMAIN left' : i # j => left'[i] # left'[j]
  <2>1. \A i, j \in DOMAIN left' : i # j => i + 1 # j + 1
    BY <1>5
  <2>2. QED
    BY <1>4, <1>5, <2>1
<1>7. PICK U \in SUBSET AllPools : U = Unread'
  <2>1. Unread' = {left'[i] : i \in DOMAIN left'}
    BY DEF Unread
  <2>2. \A i \in DOMAIN left' : left'[i] \in AllPools
    BY <1>5
  <2>3. Unread' \in SUBSET AllPools
    BY <2>1, <2>2
  <2>4. QED
    BY <2>3
<1>8. Unread = U \cup {h} /\ h \notin U
  <2>1. U = {left'[i] : i \in DOMAIN left'}
    BY <1>7 DEF Unread
  <2>2. h \notin U
    BY <1>4, <1>5, <2>1
  <2>3. ASSUME NEW i \in DOMAIN left PROVE left[i] \in U \cup {h}
    <3>1. CASE i = 1
      BY <1>5, <3>1
    <3>2. CASE i # 1
      <4>1. i - 1 \in DOMAIN left' /\ (i - 1) + 1 = i
        BY <1>5, <2>3, <3>2
      <4>2. left'[i - 1] = left[i]
        BY <1>5, <4>1
      <4>3. QED
        BY <2>1, <4>1, <4>2
    <3>3. QED
      BY <3>1, <3>2
  <2>4. U \cup {h} \subseteq Unread
    BY <1>5, <2>1 DEF Unread
  <2>5. QED
    BY <2>2, <2>3, <2>4 DEF Unread
<1> DEFINE R == AllPools \ (U \cup {h})
           u == Cardinality(OwnIn(U))
           r == Cardinality(OwnIn(R))
           c == Cardinality(OwnIn({h}))
<1>9. /\ R \in SUBSET AllPools /\ AllPools \ Unread = R /\ h \notin R
      /\ AllPools \ U = R \cup {h} /\ {h} \in SUBSET AllPools
  BY <1>5, <1>8
<1>10. /\ u \in Nat /\ r \in Nat /\ c \in Nat /\ senders \in Nat /\ quest.amount \in Int
       /\ Cardinality(OwnIn(Unread)) = u + c
       /\ Cardinality(OwnIn(AllPools \ U)) = r + c
  <2> HIDE DEF h, R
  <2>1. u \in Nat /\ r \in Nat /\ c \in Nat /\ senders \in Nat /\ quest.amount \in Int
    BY <1>1, <1>9, QuestFacts DEF QuestTypes
  <2>2. Cardinality(OwnIn(U \cup {h})) = u + c
    BY <1>1, <1>5, <1>8, PoolsAdd
  <2>3. Cardinality(OwnIn(R \cup {h})) = r + c
    BY <1>1, <1>5, <1>9, PoolsAdd
  <2>4. QED
    BY <1>8, <1>9, <2>1, <2>2, <2>3
<1>11. w \in Nat /\ w <= c /\ (~Q!Pushed => w = c)
  <2> HIDE DEF h
  <2>1. QED
    BY <1>1, <1>5, WindowCounts
<1>12. quest.kind = "v2" /\ senders <= r
       /\ (proven /\ ~Q!Pushed /\ ~silent => senders + (u + c) >= quest.amount)
  BY <1>1, <1>2, <1>9, <1>10 DEF PoolsCount
<1> HIDE DEF u, r, c, w, R, h
<1>13. QuestTypes'
  <2>1. senders' \in Nat /\ silent' \in BOOLEAN
    <3>1. silent \in BOOLEAN
      BY <1>1 DEF QuestTypes
    <3>2. senders' \in Nat
      BY <1>2, <1>10, <1>11
    <3>3. QED
      BY <1>2, <3>1, <3>2
  <2>2. QED
    BY <1>1, <1>2, <1>3, <1>5, <1>6, <2>1 DEF QuestTypes, AllPools
<1>14. StaysProven'
  BY <1>1, <1>2, <1>3 DEF StaysProven, Q!NaN
<1>15. PoolsCount'
  <2>1. senders' <= r + c
    BY <1>2, <1>10, <1>11, <1>12
  <2>2. proven /\ ~Q!Pushed /\ ~silent' => senders' + u >= quest.amount
    <3>1. ASSUME proven, ~Q!Pushed, ~silent' PROVE senders' + u >= quest.amount
      <4>1. senders' = senders + c
        BY <1>2, <1>11, <3>1
      <4>2. senders + (u + c) >= quest.amount
        BY <1>2, <1>12, <3>1
      <4>3. QED
        BY <1>10, <4>1, <4>2
    <3>2. QED
      BY <3>1
  <2>3. OwnIn(Unread)' = OwnIn(U) /\ OwnIn(AllPools \ Unread)' = OwnIn(AllPools \ U)
    BY <1>2, <1>7 DEF OwnIn, AllPools
  <2>4. OwnIn(AllPools)' = OwnIn(AllPools)
    BY <1>3 DEF AllPools
  <2>5. deeds' = Cardinality(OwnIn(AllPools)')
    BY <1>1, <1>2, <1>12, <2>4 DEF PoolsCount
  <2>6. QED
    BY <1>2, <1>3, <1>10, <1>12, <2>1, <2>2, <2>3, <2>5 DEF PoolsCount, u
<1>16. QED
  BY <1>13, <1>14, <1>15 DEF QuestInv

LEMMA VerifyKeepsQuests ==
  ASSUME QuestInv, Q!VerifyV2
  PROVE  QuestInv'
<1>1. QuestTypes /\ StaysProven /\ PoolsCount
  BY DEF QuestInv
<1> DEFINE enough == Q!AtLeast(senders, quest.amount)
<1>2. /\ pc = "pools" /\ left = <<>> /\ pc' = "told"
      /\ UNCHANGED <<deeds, pool, quest, left, senders, silent>>
      /\ (verdict' <=> enough) /\ (proven' <=> proven \/ enough)
      /\ verdict' \in BOOLEAN /\ proven' \in BOOLEAN
  <2>1. /\ pc = "pools" /\ left = <<>> /\ pc' = "told"
        /\ UNCHANGED <<deeds, pool, quest, left, senders, silent>>
        /\ verdict' = enough /\ proven' = (proven \/ enough)
    BY DEF Q!VerifyV2, Q!Conclude, Q!Goto
  <2>2. enough \in BOOLEAN
    BY DEF Q!AtLeast
  <2> HIDE DEF enough
  <2>3. (verdict' <=> enough) /\ verdict' \in BOOLEAN
    BY <2>1, <2>2, Zenon
  <2>4. (proven' <=> proven \/ enough) /\ proven' \in BOOLEAN
    BY <2>1, Zenon
  <2>5. QED
    BY <2>1, <2>3, <2>4
<1>3. (\A P : OwnIn(P)' = OwnIn(P)) /\ (Q!Pushed' <=> Q!Pushed) /\ (Passes' <=> Passes)
      /\ Unread' = Unread
  BY <1>2, QuestFrame
<1>4. Unread = {} /\ AllPools \ Unread = AllPools
  BY <1>2 DEF Unread
<1>5. Cardinality(OwnIn(Unread)) = 0
  <2>1. OwnIn({}) = {}
    BY DEF OwnIn
  <2>2. QED
    BY <1>4, <2>1, FS_EmptySet
<1>6. quest.kind = "v2" /\ senders <= deeds
      /\ (proven /\ ~Q!Pushed /\ ~silent => senders >= quest.amount)
  <2>1. senders \in Nat /\ quest.amount \in Int
    BY <1>1, QuestFacts DEF QuestTypes
  <2>2. QED
    BY <1>1, <1>2, <1>4, <1>5, <2>1 DEF PoolsCount
<1>7. enough <=> quest.amount # Q!NaN /\ senders >= quest.amount
  BY DEF Q!AtLeast
<1>8. senders \in Nat /\ deeds \in Nat /\ quest.amount \in Int
  BY <1>1, QuestFacts DEF QuestTypes
<1>9. enough => quest.amount # Q!NaN /\ deeds >= quest.amount
  BY <1>6, <1>7, <1>8
<1>10. proven /\ ~enough => silent \/ Q!Pushed
  BY <1>1, <1>6, <1>7 DEF StaysProven
<1> HIDE DEF enough
<1>11. QuestTypes'
  BY <1>1, <1>2, <1>3 DEF QuestTypes, AllPools
<1>12. StaysProven'
  BY <1>1, <1>2, <1>3, <1>6, <1>9, <1>10 DEF StaysProven, Q!NaN
<1>13. PoolsCount'
  BY <1>1, <1>2, <1>3 DEF PoolsCount, AllPools
<1>14. QED
  BY <1>11, <1>12, <1>13 DEF QuestInv

LEMMA QuestsKept ==
  /\ ReadsInit => (part = "quest" => QuestInv)
  /\ (part = "quest" => QuestInv) /\ [ReadsNext]_allVars => (part = "quest" => QuestInv)'
<1>1. ASSUME ReadsInit, part = "quest" PROVE QuestInv
  BY <1>1, QuestStarts DEF ReadsInit
<1>2. ASSUME part = "quest" => QuestInv, [ReadsNext]_allVars, part' = "quest"
      PROVE  QuestInv'
  <2>1. part = "quest" /\ QuestInv
    BY <1>2 DEF ReadsNext, allVars
  <2>2. CASE Q!Next
    BY <2>1, <2>2, ActKeepsQuests, TradeKeepsQuests, AtOnceKeepsQuests, ListKeepsQuests,
       ReadKeepsQuests, VerifyKeepsQuests DEF Q!Next
  <2>3. CASE UNCHANGED <<pc, questVars>>
    <3>1. UNCHANGED <<pool, quest, deeds, left, senders, silent, verdict, proven, pc>>
      BY <2>3 DEF questVars
    <3>2. (\A P : OwnIn(P)' = OwnIn(P)) /\ (Q!Pushed' <=> Q!Pushed) /\ (Passes' <=> Passes)
          /\ Unread' = Unread
      BY <3>1, QuestFrame
    <3>3. OwnIn(Unread)' = OwnIn(Unread) /\ OwnIn(AllPools \ Unread)' = OwnIn(AllPools \ Unread)
          /\ OwnIn(AllPools)' = OwnIn(AllPools)
      BY <3>1, <3>2 DEF OwnIn, AllPools
    <3>4. QuestTypes'
      BY <2>1, <3>1, <3>3 DEF QuestInv, QuestTypes, AllPools
    <3>5. StaysProven'
      BY <2>1, <3>1, <3>2 DEF QuestInv, StaysProven, Q!NaN
    <3>6. PoolsCount'
      BY <2>1, <3>1, <3>2, <3>3 DEF QuestInv, PoolsCount
    <3>7. QED
      BY <3>4, <3>5, <3>6 DEF QuestInv
  <2>4. QED
    BY <1>2, <2>1, <2>2, <2>3 DEF ReadsNext, allVars
<1>3. QED
  BY <1>1, <1>2

\* A quest that is told to be done is done, and once told so it stays so, but
\* for a balance that was spent, an answer that did not come and trades that
\* later ones have pushed out of the window of their pool (verifyQuest).
THEOREM QuestsStay == ReadsSpec => []QuestsStayDone
<1> DEFINE Kept == part = "quest" => QuestInv
<1>1. ReadsInit => Kept
  BY QuestsKept
<1>2. Kept /\ [ReadsNext]_allVars => Kept'
  BY QuestsKept
<1>3. Kept => QuestsStayDone
  BY DEF QuestInv, StaysProven, QuestsStayDone, Q!QuestsStayDone
<1>4. QED
  BY <1>1, <1>2, <1>3, PTL DEF ReadsSpec

=============================================================================
