---------------------------- MODULE AnswersProofs ----------------------------
(***************************************************************************)
(* Theorems about the parts of MCReads that put an answer together from    *)
(* several pages or requests: the total balance of an account, the export  *)
(* of its transactions, and the notices of a page of the indexer.          *)
(***************************************************************************)
EXTENDS MCReads, SetLemmas

-----------------------------------------------------------------------------
(* The total balance of an account.  View(behind) is what the total would be *)
(* if nothing moved any more: what was read, and of what is still to be    *)
(* read what the chain has now.  The parts of behind do not get it: the    *)
(* indexer may not know the balance, the rewards may not be asked for.     *)

TotalSteps == {"ask", "staked", "reward", "unbonding", "commission", "answered", "failed"}
Requests   == {"account", "validator"} \cup T!Paged

TotalTypes ==
  /\ chain \in [T!Part -> Nat] /\ got \in [T!Part -> Nat] /\ balance \in Nat
  /\ isValidator \in BOOLEAN /\ otherCoin \in BOOLEAN /\ method \in {"single", "list"}
  /\ pc \in TotalSteps /\ moves \in Nat
  /\ waiting \subseteq Requests /\ (pc # "ask" => waiting = {})
  /\ key \in [T!Paged -> Nat] /\ \A p \in T!Paged \cap waiting : key[p] = T!NoKey

UnreadPages == {x \in T!Paged \X Validators :
                  \/ x[1] \in waiting
                  \/ key[x[1]] # T!NoKey /\ x[2] >= key[x[1]]}
UnreadParts ==
  UnreadPages
    \cup {T!Commission}
    \cup (IF "account" \in waiting THEN {T!Balance} ELSE {})
    \cup (IF pc \in {"ask", "staked", "reward"} THEN {T!Reward} ELSE {})

Held == IF "account" \in waiting THEN [got EXCEPT ![T!Balance] = balance] ELSE got
View(behind) == [x \in T!Part |-> IF x \in UnreadParts \ behind THEN chain[x] ELSE Held[x]]

\* amount is off from worth by what moved, or too low if something was missed.
Close(amount, worth, miss, moved) ==
  /\ SumOf(amount, T!Part) - SumOf(worth, T!Part) <= moved
  /\ miss = {} => SumOf(worth, T!Part) - SumOf(amount, T!Part) <= moved
Near(amount) == Close(amount, chain, missed, moves)

\* What has been read in pages, by the step that comes next.
PagesDone ==
  /\ pc \in {"reward", "unbonding", "commission"} => key["staked"] = T!NoKey
  /\ pc = "commission" => key["unbonding"] = T!NoKey

\* The rewards will not be asked for.
NoStakeSeen == "staked" \notin waiting /\ \A v \in Validators : got[<<"staked", v>>] = 0
StakesSeen ==
  /\ T!RewardsAreOfStakes(chain)
  /\ pc # "answered" /\ NoStakeSeen => key["staked"] = T!NoKey

Behinds == {behind \in SUBSET {T!Balance, T!Reward} : T!Reward \in behind => NoStakeSeen}
TotalInv ==
  /\ TotalTypes /\ PagesDone /\ StakesSeen
  /\ pc \in {"answered", "failed"} \/ \A x \in UnreadParts : got[x] = 0
  /\ isValidator \/ chain[T!Commission] = 0
  /\ pc \notin {"answered", "failed"} => \A behind \in Behinds : Near(View(behind))
  /\ pc = "answered" => Near(got)

TotalConstants ==
  /\ Validators \subseteq Nat \ {0} /\ IsFiniteSet(Validators)
  /\ PageSize \in Nat \ {0} /\ Coins \in Nat

LEMMA TotalIsSum ==
  ASSUME NEW f, NEW S
  PROVE  T!Total(f, S) = SumOf(f, S)
BY Zenon DEF T!Total, SumOf, T!MapThenSumSet, T!MapThenFoldSet, MapThenSumSet, MapThenFoldSet

LEMMA PartFacts ==
  /\ T!Part = {T!Balance, T!Reward, T!Commission} \cup (T!Paged \X Validators)
  /\ T!Balance # T!Reward /\ T!Balance # T!Commission /\ T!Reward # T!Commission
  /\ T!Balance \notin T!Paged \X Validators
  /\ T!Reward \notin T!Paged \X Validators
  /\ T!Commission \notin T!Paged \X Validators
  /\ T!Paged = {"staked", "unbonding"}
  /\ \A p \in T!Paged, v \in Validators :
       /\ <<p, v>> \in T!Part /\ <<p, v>>[1] = p /\ <<p, v>>[2] = v
       /\ <<p, v>> # T!Balance /\ <<p, v>> # T!Reward /\ <<p, v>> # T!Commission
BY DEF T!Part, T!Paged, T!Balance, T!Reward, T!Commission

LEMMA PartIsFinite ==
  ASSUME TotalConstants
  PROVE  IsFiniteSet(T!Part)
<1>1. IsFiniteSet({T!Balance, T!Reward, T!Commission}) /\ IsFiniteSet(T!Paged)
  <2>1. IsFiniteSet({T!Balance}) /\ IsFiniteSet({T!Balance, T!Reward})
    <3>1. IsFiniteSet({} \cup {T!Balance}) /\ IsFiniteSet({} \cup {T!Balance} \cup {T!Reward})
      BY FS_EmptySet, FS_AddElement
    <3>2. QED
      BY <3>1
  <2>2. IsFiniteSet({T!Balance, T!Reward} \cup {T!Commission})
    BY <2>1, FS_AddElement
  <2>3. IsFiniteSet({"staked"} \cup {"unbonding"})
    BY FS_Singleton, FS_AddElement
  <2>4. {T!Balance, T!Reward} \cup {T!Commission} = {T!Balance, T!Reward, T!Commission}
    OBVIOUS
  <2>5. {"staked"} \cup {"unbonding"} = T!Paged
    BY DEF T!Paged
  <2>6. QED
    BY <2>2, <2>3, <2>4, <2>5
<1>2. IsFiniteSet(T!Paged \X Validators)
  BY <1>1, FS_Product DEF TotalConstants
<1>3. QED
  BY <1>1, <1>2, FS_Union, PartFacts

\* An amount that is lower at some parts, for something that was missed.
LEMMA CloseBelow ==
  ASSUME TotalConstants,
         NEW v \in [T!Part -> Nat], NEW w \in [T!Part -> Nat], NEW c \in [T!Part -> Nat],
         NEW before, NEW after, NEW n \in Nat, Close(v, c, before, n),
         \A x \in T!Part : w[x] <= v[x],
         after = {} => before = {} /\ w = v
  PROVE  Close(w, c, after, n)
<1> DEFINE s(f) == SumOf(f, T!Part)
<1>1. s(v) \in Int /\ s(w) \in Int /\ s(c) \in Int
  BY PartIsFinite, SumIsInt
<1>2. s(w) <= s(v)
  BY PartIsFinite, SumIsMonotone
<1>3. s(v) - s(c) <= n /\ (before = {} => s(c) - s(v) <= n)
  BY DEF Close
<1>4. w = v => s(w) = s(v)
  OBVIOUS
<1> HIDE DEF s
<1>5. s(w) - s(c) <= n /\ (after = {} => s(c) - s(w) <= n)
  BY <1>1, <1>2, <1>3, <1>4
<1>6. QED
  BY <1>5 DEF Close, s

\* A coin moves, comes or goes; the amount gets it at the parts of open.
CoinMoves(c, d, x, y) ==
  /\ x # y
  /\ \A z \in T!Part : z # x /\ z # y => d[z] = c[z]
  /\ d[x] - c[x] \in {-1, 0, 1}
  /\ d[y] - c[y] = 0 \/ (d[x] - c[x] = -1 /\ d[y] - c[y] = 1)

LEMMA CloseMoves ==
  ASSUME TotalConstants,
         NEW v \in [T!Part -> Nat], NEW w \in [T!Part -> Nat],
         NEW c \in [T!Part -> Nat], NEW d \in [T!Part -> Nat],
         NEW open \in SUBSET T!Part, NEW x \in T!Part, NEW y \in T!Part, CoinMoves(c, d, x, y),
         \A z \in T!Part : w[z] - v[z] = IF z \in open THEN d[z] - c[z] ELSE 0,
         NEW miss, NEW n \in Nat, Close(v, c, miss, n)
  PROVE  Close(w, d, miss, n + 1)
<1> DEFINE s(f) == SumOf(f, T!Part)
<1>1. s(v) \in Int /\ s(w) \in Int /\ s(c) \in Int /\ s(d) \in Int
  BY PartIsFinite, SumIsInt
<1>2. s(v) - s(c) <= n /\ (miss = {} => s(c) - s(v) <= n)
  BY DEF Close
<1>3. IsFiniteSet(T!Part) /\ v \in [T!Part -> Int] /\ w \in [T!Part -> Int]
        /\ c \in [T!Part -> Int] /\ d \in [T!Part -> Int] /\ x # y
  BY PartIsFinite DEF CoinMoves
<1>4. s(d) = s(c) + (d[x] - c[x]) + (d[y] - c[y])
  BY <1>3, SumChangesAtTwo DEF CoinMoves
<1>5. s(w) = s(v) + (w[x] - v[x]) + (w[y] - v[y])
  <2>1. ASSUME NEW z \in T!Part, z # x, z # y PROVE w[z] = v[z]
    <3>1. w[z] \in Nat /\ v[z] \in Nat /\ d[z] \in Nat /\ c[z] \in Nat
      OBVIOUS
    <3>2. d[z] = c[z]
      BY <2>1 DEF CoinMoves
    <3>3. w[z] - v[z] = 0
      BY <3>1, <3>2
    <3>4. \A a, b \in Nat : a - b = 0 => a = b
      OBVIOUS
    <3>5. QED
      BY <3>1, <3>3, <3>4, Zenon
  <2>2. QED
    BY <1>3, <2>1, SumChangesAtTwo
<1>6. /\ w[x] - v[x] = (IF x \in open THEN d[x] - c[x] ELSE 0)
      /\ w[y] - v[y] = (IF y \in open THEN d[y] - c[y] ELSE 0)
  OBVIOUS
<1>7. /\ d[x] - c[x] \in {-1, 0, 1}
      /\ d[y] - c[y] = 0 \/ (d[x] - c[x] = -1 /\ d[y] - c[y] = 1)
  BY DEF CoinMoves
<1> HIDE DEF s
<1> DEFINE dx == d[x] - c[x]
           dy == d[y] - c[y]
           wx == w[x] - v[x]
           wy == w[y] - v[y]
<1>8. dx \in Int /\ dy \in Int /\ wx \in Int /\ wy \in Int
      /\ s(d) = s(c) + dx + dy /\ s(w) = s(v) + wx + wy
      /\ (wx = dx \/ wx = 0) /\ (wy = dy \/ wy = 0)
      /\ dx \in {-1, 0, 1} /\ (dy = 0 \/ (dx = -1 /\ dy = 1))
  BY <1>3, <1>4, <1>5, <1>6, <1>7
<1> HIDE DEF dx, dy, wx, wy
<1>9. s(w) - s(d) <= n + 1 /\ (miss = {} => s(d) - s(w) <= n + 1)
  BY <1>1, <1>2, <1>8
<1>10. QED
  BY <1>9 DEF Close, s

-----------------------------------------------------------------------------
(* Views of the total                                                      *)

LEMMA ViewTypes ==
  ASSUME TotalTypes
  PROVE  /\ Held \in [T!Part -> Nat]
         /\ UnreadParts \subseteq T!Part /\ UnreadPages \subseteq T!Paged \X Validators
         /\ \A behind : View(behind) \in [T!Part -> Nat]
<1>1. chain \in [T!Part -> Nat] /\ got \in [T!Part -> Nat] /\ balance \in Nat
  BY DEF TotalTypes
<1>2. Held \in [T!Part -> Nat]
  BY <1>1 DEF Held
<1>3. UnreadPages \subseteq T!Paged \X Validators
  BY DEF UnreadPages
<1>4. UnreadParts \subseteq T!Part
  <2>1. {T!Balance, T!Reward, T!Commission} \subseteq T!Part /\ T!Paged \X Validators \subseteq T!Part
    BY PartFacts
  <2>2. QED
    BY <1>3, <2>1 DEF UnreadParts
<1>5. \A behind : View(behind) \in [T!Part -> Nat]
  BY <1>1, <1>2 DEF View
<1>6. QED
  BY <1>2, <1>3, <1>4, <1>5

LEMMA ViewAt ==
  ASSUME NEW behind, NEW x \in T!Part
  PROVE  View(behind)[x] = IF x \in UnreadParts \ behind THEN chain[x] ELSE Held[x]
BY DEF View

\* Steps that read nothing of what is staked.
LEMMA BehindsStay ==
  ASSUME "staked" \in waiting' <=> "staked" \in waiting,
         \A v \in Validators : got'[<<"staked", v>>] = got[<<"staked", v>>]
  PROVE  (NoStakeSeen' <=> NoStakeSeen) /\ Behinds' = Behinds
<1>1. NoStakeSeen' <=> NoStakeSeen
  BY DEF NoStakeSeen
<1>2. QED
  BY <1>1 DEF Behinds

LEMMA StakesStaySeen ==
  ASSUME StakesSeen, chain' = chain, pc # "answered",
         "staked" \in waiting' <=> "staked" \in waiting,
         \A v \in Validators : got'[<<"staked", v>>] = got[<<"staked", v>>],
         key'["staked"] = key["staked"]
  PROVE  StakesSeen' /\ Behinds' = Behinds
<1>1. (NoStakeSeen' <=> NoStakeSeen) /\ Behinds' = Behinds
  BY BehindsStay
<1>2. T!RewardsAreOfStakes(chain)'
  BY DEF StakesSeen, T!RewardsAreOfStakes
<1>3. QED
  BY <1>1, <1>2 DEF StakesSeen

\* At the start nothing is read, and what is behind is behind by nothing.
LEMMA TotalStarts ==
  ASSUME TotalConstants, T!Init
  PROVE  TotalInv
<1>1. /\ chain \in [T!Part -> 0..Coins] /\ T!RewardsAreOfStakes(chain)
      /\ isValidator \/ chain[T!Commission] = 0
  BY DEF T!Init
<1>2. /\ balance = chain[T!Balance] /\ method \in {"single", "list"}
      /\ isValidator \in BOOLEAN /\ otherCoin \in BOOLEAN
      /\ pc = "ask" /\ waiting = {"account", "validator"} \cup T!Paged
      /\ key = [p \in T!Paged |-> T!NoKey] /\ got = [p \in T!Part |-> 0]
      /\ missed = {} /\ moves = 0
  BY DEF T!Init
<1>3. chain \in [T!Part -> Nat]
  BY <1>1 DEF TotalConstants
<1>4. ~NoStakeSeen
  BY <1>2 DEF NoStakeSeen, T!Paged
<1>5. StakesSeen
  BY <1>1, <1>4 DEF StakesSeen
<1>6. TotalTypes
  <2>1. T!NoKey \in Nat
    BY DEF T!NoKey
  <2>2. balance \in Nat
    BY <1>2, <1>3, PartFacts
  <2>3. waiting \subseteq Requests
    BY <1>2 DEF Requests
  <2>4. QED
    BY <1>2, <1>3, <2>1, <2>2, <2>3 DEF TotalTypes, TotalSteps
<1>7. ASSUME NEW behind \in Behinds PROVE Near(View(behind))
  <2>1. View(behind) = chain
    <3>1. ASSUME NEW x \in T!Part PROVE View(behind)[x] = chain[x]
      <4>1. x \in UnreadParts
        <5>1. CASE x \in T!Paged \X Validators
          BY <1>2, <5>1 DEF UnreadParts, UnreadPages
        <5>2. CASE x \in {T!Balance, T!Reward, T!Commission}
          BY <1>2, <5>2 DEF UnreadParts
        <5>3. QED
          BY <5>1, <5>2, PartFacts
      <4>2. CASE x \in behind
        <5>1. x = T!Balance
          BY <1>4, <4>2 DEF Behinds
        <5>2. Held[x] = chain[x]
          <6>1. Held = [got EXCEPT ![T!Balance] = balance]
            BY <1>2 DEF Held
          <6>2. QED
            BY <1>2, <5>1, <6>1, PartFacts
        <5>3. QED
          BY <4>2, <5>2, ViewAt
      <4>3. CASE x \notin behind
        BY <4>1, <4>3, ViewAt
      <4>4. QED
        BY <4>2, <4>3
    <3>2. View(behind) \in [T!Part -> Nat]
      BY <1>6, ViewTypes
    <3>3. QED
      BY <1>3, <3>1, <3>2
  <2>2. SumOf(chain, T!Part) \in Int
    BY <1>3, PartIsFinite, SumIsInt
  <2>3. QED
    BY <1>2, <2>1, <2>2 DEF Near, Close
<1>8. \A x \in UnreadParts : got[x] = 0
  BY <1>2, <1>6, ViewTypes
<1>9. PagesDone
  BY <1>2 DEF PagesDone
<1>10. QED
  BY <1>1, <1>2, <1>5, <1>6, <1>7, <1>8, <1>9 DEF TotalInv

-----------------------------------------------------------------------------
(* The chain and the indexer                                               *)

LEMMA ChainMovesTotal ==
  ASSUME TotalConstants, TotalInv, NEW d \in [T!Part -> Nat], T!Changed(d),
         isValidator \/ d[T!Commission] = 0,
         NEW x \in T!Part, NEW y \in T!Part, CoinMoves(chain, d, x, y)
  PROVE  TotalInv'
<1>1. TotalTypes /\ chain \in [T!Part -> Nat] /\ moves \in Nat
  BY DEF TotalInv, TotalTypes
<1>2. /\ chain' = d /\ moves' = moves + 1 /\ pc # "answered"
      /\ UNCHANGED <<isValidator, otherCoin, balance, method, pc, waiting, key, got, missed>>
  BY DEF T!Changed
<1>3. Behinds' = Behinds /\ StakesSeen'
  <2>1. (NoStakeSeen' <=> NoStakeSeen) /\ Behinds' = Behinds
    BY <1>2, BehindsStay
  <2>2. T!RewardsAreOfStakes(chain)'
    BY <1>2 DEF T!Changed, T!RewardsAreOfStakes
  <2>3. QED
    BY <1>2, <2>1, <2>2 DEF StakesSeen, TotalInv
<1>4. UnreadPages' = UnreadPages /\ UnreadParts' = UnreadParts /\ Held' = Held
  BY <1>2 DEF UnreadPages, UnreadParts, Held
<1>5. TotalTypes'
  BY <1>1, <1>2 DEF TotalTypes
<1>6. ASSUME NEW behind \in Behinds, pc # "failed" PROVE Near(View(behind))'
  <2> DEFINE v == View(behind)
             w == [z \in T!Part |-> IF z \in UnreadParts \ behind THEN d[z] ELSE Held[z]]
             open == UnreadParts \ behind
  <2>1. View(behind)' = w
    BY <1>2, <1>4 DEF View
  <2>2. Held \in [T!Part -> Nat] /\ v \in [T!Part -> Nat] /\ w \in [T!Part -> Nat]
    BY <1>1, ViewTypes
  <2>3. open \in SUBSET T!Part
    BY <1>1, ViewTypes
  <2>4. ASSUME NEW z \in T!Part
        PROVE  w[z] - v[z] = IF z \in open THEN d[z] - chain[z] ELSE 0
    <3>1. v[z] = (IF z \in open THEN chain[z] ELSE Held[z]) /\ Held[z] \in Nat
      BY <2>2, ViewAt
    <3>2. w[z] = IF z \in open THEN d[z] ELSE Held[z]
      OBVIOUS
    <3> HIDE DEF v, w, open
    <3>3. QED
      BY <3>1, <3>2
  <2>5. Close(v, chain, missed, moves)
    BY <1>2, <1>6 DEF TotalInv, Near
  <2> HIDE DEF v, w, open
  <2>6. Close(w, d, missed, moves + 1)
    BY <1>1, <2>2, <2>3, <2>4, <2>5, CloseMoves
  <2>7. QED
    BY <1>2, <2>1, <2>6 DEF Near
<1>7. PagesDone'
  BY <1>2 DEF TotalInv, PagesDone
<1>8. QED
  BY <1>2, <1>3, <1>4, <1>5, <1>6, <1>7 DEF TotalInv

LEMMA MoveKeepsTotal ==
  ASSUME TotalConstants, TotalInv, T!Move
  PROVE  TotalInv'
<1>1. PICK r \in T!Route :
        /\ r[1] # r[2] /\ chain[r[1]] > 0
        /\ T!Changed([chain EXCEPT ![r[1]] = @ - 1, ![r[2]] = @ + 1])
  BY DEF T!Move
<1>2. chain \in [T!Part -> Nat] /\ (isValidator \/ chain[T!Commission] = 0)
  BY DEF TotalInv, TotalTypes
<1>3. r[1] \in T!Part /\ r[2] \in T!Part /\ r[2] # T!Commission
  <2>1. r \in T!Part \X (T!Part \ {T!Commission})
    <3>1. \A v \in Validators : /\ <<"staked", v>> \in T!Part \ {T!Commission}
                                /\ <<"unbonding", v>> \in T!Part \ {T!Commission}
      BY PartFacts
    <3>2. T!Balance \in T!Part \ {T!Commission} /\ T!Reward \in T!Part /\ T!Commission \in T!Part
      BY PartFacts
    <3> DEFINE Givers == T!Part
               Takers == T!Part \ {T!Commission}
    <3>3. /\ \A v \in Validators : /\ <<T!Balance, <<"staked", v>>>> \in Givers \X Takers
                                   /\ <<<<"staked", v>>, <<"unbonding", v>>>> \in Givers \X Takers
                                   /\ <<<<"unbonding", v>>, T!Balance>> \in Givers \X Takers
          /\ \A v, u \in Validators : <<<<"staked", v>>, <<"staked", u>>>> \in Givers \X Takers
          /\ <<T!Reward, T!Balance>> \in Givers \X Takers /\ <<T!Commission, T!Balance>> \in Givers \X Takers
      <4>1. Takers \subseteq Givers
        OBVIOUS
      <4> HIDE DEF Givers, Takers
      <4>2. QED
        BY <3>1, <3>2, <4>1 DEF Givers, Takers
    <3> HIDE DEF Givers, Takers
    <3>4. r \in Givers \X Takers
      <4>1. /\ {<<T!Balance, <<"staked", v>>>> : v \in Validators} \subseteq Givers \X Takers
            /\ {<<<<"staked", v>>, <<"unbonding", v>>>> : v \in Validators} \subseteq Givers \X Takers
            /\ {<<<<"unbonding", v>>, T!Balance>> : v \in Validators} \subseteq Givers \X Takers
        BY <3>3
      <4>2. {<<<<"staked", v>>, <<"staked", w>>>> : v, w \in Validators} \subseteq Givers \X Takers
        BY <3>3
      <4>3. {<<T!Reward, T!Balance>>, <<T!Commission, T!Balance>>} \subseteq Givers \X Takers
        BY <3>3
      <4>4. QED
        BY <4>1, <4>2, <4>3 DEF T!Route
    <3>5. QED
      BY <3>4 DEF Givers, Takers
  <2>2. QED
    BY <2>1
<1> DEFINE a == r[1]
           b == r[2]
           d == [chain EXCEPT ![a] = @ - 1, ![b] = @ + 1]
<1>4. d \in [T!Part -> Nat] /\ d[a] = chain[a] - 1 /\ d[b] = chain[b] + 1
        /\ \A z \in T!Part : z # a /\ z # b => d[z] = chain[z]
  <2>1. chain[a] \in Nat /\ chain[b] \in Nat /\ chain[a] > 0 /\ a # b
    BY <1>1, <1>2, <1>3
  <2>2. chain[a] - 1 \in Nat /\ chain[b] + 1 \in Nat
    BY <2>1
  <2>3. QED
    BY <1>2, <1>3, <2>1, <2>2
<1>5. CoinMoves(chain, d, a, b)
  <2>1. chain[a] \in Nat /\ chain[b] \in Nat
    BY <1>2, <1>3
  <2>2. a # b
    BY <1>1
  <2> HIDE DEF a, b, d
  <2>3. QED
    BY <1>4, <2>1, <2>2 DEF CoinMoves
<1>6. isValidator \/ d[T!Commission] = 0
  <2>1. CASE T!Commission = a
    BY <1>1, <1>2, <2>1
  <2>2. CASE T!Commission # a
    BY <1>2, <1>3, <1>4, <2>2, PartFacts
  <2>3. QED
    BY <2>1, <2>2
<1>7. T!Changed(d)
  BY <1>1
<1> HIDE DEF d
<1>8. QED
  BY <1>3, <1>4, <1>5, <1>6, <1>7, ChainMovesTotal

Shifted(c, d, x, n) ==
  /\ c \in [T!Part -> Nat] /\ x \in {T!Balance, T!Reward, T!Commission} /\ n \in {-1, 1}
  /\ c[x] + n \in Nat /\ d = [c EXCEPT ![x] = c[x] + n]
OneMoves(c, d, x) ==
  /\ d \in [T!Part -> Nat] /\ x \in T!Part
  /\ \A z \in T!Part : z # x => d[z] = c[z]
  /\ \E y \in T!Part : CoinMoves(c, d, x, y)

LEMMA OneChanges ==
  ASSUME NEW c, NEW d, NEW x, NEW n, Shifted(c, d, x, n)
  PROVE  OneMoves(c, d, x)
<1> USE DEF Shifted
<1>1. x \in T!Part
  BY PartFacts
<1>2. /\ d \in [T!Part -> Nat] /\ d[x] = c[x] + n
      /\ \A z \in T!Part : z # x => d[z] = c[z]
  BY <1>1
<1>3. PICK y \in T!Part : y # x
  BY PartFacts
<1>4. d[y] = c[y] /\ c[y] \in Nat /\ c[x] \in Nat
  BY <1>1, <1>2, <1>3
<1>5. CoinMoves(c, d, x, y)
  BY <1>2, <1>3, <1>4 DEF CoinMoves
<1>6. QED
  BY <1>1, <1>2, <1>3, <1>5 DEF OneMoves

LEMMA EarnKeepsTotal ==
  ASSUME TotalConstants, TotalInv, T!Earn
  PROVE  TotalInv'
<1>1. PICK x \in {T!Balance, T!Reward, T!Commission} :
        /\ T!Changed([chain EXCEPT ![x] = @ + 1])
        /\ x = T!Commission => isValidator
  <2>1. PICK x \in {T!Balance, T!Reward} \cup (IF isValidator THEN {T!Commission} ELSE {}) :
          T!Changed([chain EXCEPT ![x] = @ + 1])
    BY DEF T!Earn
  <2>2. x = T!Commission => isValidator
    BY PartFacts
  <2>3. QED
    BY <2>1, <2>2
<1>2. chain \in [T!Part -> Nat] /\ (isValidator \/ chain[T!Commission] = 0)
  BY DEF TotalInv, TotalTypes
<1> DEFINE d == [chain EXCEPT ![x] = @ + 1]
<1>3. chain[x] + 1 \in Nat
  BY <1>2, PartFacts
<1>4. /\ d \in [T!Part -> Nat] /\ \A z \in T!Part : z # x => d[z] = chain[z]
      /\ x \in T!Part /\ \E y \in T!Part : CoinMoves(chain, d, x, y)
  <2>1. d = [chain EXCEPT ![x] = chain[x] + 1]
    OBVIOUS
  <2> HIDE DEF d
  <2>2. Shifted(chain, d, x, 1)
    BY <1>1, <1>2, <1>3, <2>1 DEF Shifted
  <2>3. OneMoves(chain, d, x)
    BY <2>2, OneChanges
  <2>4. QED
    BY <2>3 DEF OneMoves
<1>5. T!Changed(d)
  BY <1>1
<1> HIDE DEF d
<1>6. isValidator \/ d[T!Commission] = 0
  BY <1>1, <1>2, <1>4, PartFacts
<1>7. QED
  BY <1>4, <1>5, <1>6, ChainMovesTotal

LEMMA SpendKeepsTotal ==
  ASSUME TotalConstants, TotalInv, T!Spend
  PROVE  TotalInv'
<1>1. chain[T!Balance] > 0 /\ T!Changed([chain EXCEPT ![T!Balance] = @ - 1])
  BY DEF T!Spend
<1>2. chain \in [T!Part -> Nat] /\ (isValidator \/ chain[T!Commission] = 0)
  BY DEF TotalInv, TotalTypes
<1>3. chain[T!Balance] \in Nat
  BY <1>2, PartFacts
<1>4. chain[T!Balance] + (-1) \in Nat /\ chain[T!Balance] - 1 = chain[T!Balance] + (-1)
  BY <1>1, <1>3
<1> DEFINE d == [chain EXCEPT ![T!Balance] = @ + (-1)]
<1>5. /\ d \in [T!Part -> Nat] /\ \A z \in T!Part : z # T!Balance => d[z] = chain[z]
      /\ \E y \in T!Part : CoinMoves(chain, d, T!Balance, y)
  <2>1. d = [chain EXCEPT ![T!Balance] = chain[T!Balance] + (-1)]
    OBVIOUS
  <2> HIDE DEF d
  <2>2. Shifted(chain, d, T!Balance, -1)
    BY <1>2, <1>4, <2>1 DEF Shifted
  <2>3. OneMoves(chain, d, T!Balance)
    BY <2>2, OneChanges
  <2>4. QED
    BY <2>3 DEF OneMoves
<1>6. T!Changed(d) /\ T!Balance \in T!Part
  BY <1>1, <1>4, PartFacts
<1> HIDE DEF d
<1>7. isValidator \/ d[T!Commission] = 0
  BY <1>2, <1>5, PartFacts
<1>8. QED
  BY <1>5, <1>6, <1>7, ChainMovesTotal

LEMMA IndexKeepsTotal ==
  ASSUME TotalInv, T!Index
  PROVE  TotalInv'
<1>1. TotalTypes /\ chain \in [T!Part -> Nat] /\ got \in [T!Part -> Nat]
  BY DEF TotalInv, TotalTypes
<1>2. /\ balance' = chain[T!Balance]
      /\ UNCHANGED <<chain, isValidator, otherCoin, method, pc, waiting, key, got, missed, moves>>
  BY DEF T!Index
<1>3. UnreadPages' = UnreadPages /\ UnreadParts' = UnreadParts
  BY <1>2 DEF UnreadPages, UnreadParts
<1>4. TotalTypes'
  BY <1>1, <1>2, PartFacts DEF TotalTypes
<1>5. ASSUME NEW behind \in Behinds, pc \notin {"answered", "failed"}
      PROVE  Near(View(behind))'
  <2> DEFINE now == behind \ {T!Balance}
  <2>1. View(behind)' = IF "account" \in waiting THEN View(now) ELSE View(behind)
    <3>1. CASE "account" \notin waiting
      BY <1>2, <1>3, <3>1 DEF View, Held
    <3>2. CASE "account" \in waiting
      <4>1. ASSUME NEW x \in T!Part
            PROVE  (IF x \in UnreadParts \ behind THEN chain[x] ELSE Held'[x])
                     = (IF x \in UnreadParts \ now THEN chain[x] ELSE Held[x])
        <5>1. Held = [got EXCEPT ![T!Balance] = balance] /\ Held' = [got EXCEPT ![T!Balance] = balance']
          BY <1>2, <3>2 DEF Held
        <5>2. CASE x = T!Balance
          <6>1. x \in UnreadParts \ now
            BY <3>2, <5>2 DEF UnreadParts
          <6>2. Held'[x] = chain[x]
            BY <1>1, <1>2, <5>1, <5>2
          <6>3. QED
            BY <6>1, <6>2
        <5>3. CASE x # T!Balance
          <6>1. Held'[x] = Held[x] /\ (x \in now <=> x \in behind)
            BY <1>1, <5>1, <5>3
          <6>2. QED
            BY <6>1
        <5>4. QED
          BY <5>2, <5>3
      <4>2. View(behind)' = [x \in T!Part |-> IF x \in UnreadParts \ behind THEN chain[x] ELSE Held'[x]]
        BY <1>2, <1>3 DEF View
      <4> HIDE DEF now
      <4>3. View(now) = [x \in T!Part |-> IF x \in UnreadParts \ now THEN chain[x] ELSE Held[x]]
        BY DEF View
      <4>4. QED
        BY <3>2, <4>1, <4>2, <4>3
    <3>3. QED
      BY <3>1, <3>2
  <2>2. behind \in Behinds /\ now \in Behinds
    BY DEF Behinds
  <2> HIDE DEF now
  <2>3. Near(View(behind)) /\ Near(View(now))
    BY <1>5, <2>2 DEF TotalInv
  <2>4. Close(View(behind)', chain, missed, moves)
    BY <2>1, <2>3 DEF Near
  <2>5. QED
    BY <1>2, <2>4 DEF Near
<1>6. PagesDone'
  BY <1>2 DEF TotalInv, PagesDone
<1>7. Near(got)' <=> Near(got)
  BY <1>2 DEF Near
<1>8. Behinds' = Behinds /\ StakesSeen'
  <2>1. (NoStakeSeen' <=> NoStakeSeen) /\ Behinds' = Behinds
    BY <1>2, BehindsStay
  <2>2. T!RewardsAreOfStakes(chain)'
    BY <1>2 DEF TotalInv, StakesSeen, T!RewardsAreOfStakes
  <2>3. QED
    BY <1>2, <2>1, <2>2 DEF StakesSeen, TotalInv
<1>9. QED
  BY <1>2, <1>3, <1>4, <1>5, <1>6, <1>7, <1>8 DEF TotalInv

-----------------------------------------------------------------------------
(* The request                                                             *)

\* A step that reads: the coins stay where they are.  What it makes of a view
\* is a view that was there before, or less if something was missed.
LEMMA ReadingKeepsViews ==
  ASSUME TotalConstants, TotalInv, TotalTypes', T!Unmoved,
         pc \notin {"answered", "failed"}, NEW behind, NEW before \in Behinds,
         \A x \in T!Part : View(behind)'[x] <= View(before)[x],
         missed' = {} => missed = {} /\ \A x \in T!Part : View(behind)'[x] = View(before)[x]
  PROVE  Near(View(behind))'
<1>1. chain' = chain /\ moves' = moves
  BY DEF T!Unmoved
<1>2. chain \in [T!Part -> Nat] /\ moves \in Nat /\ TotalTypes
  BY DEF TotalInv, TotalTypes
<1>3. View(before) \in [T!Part -> Nat]
  BY <1>2, ViewTypes
<1>4. View(behind)' \in [T!Part -> Nat]
  <2>1. chain' \in [T!Part -> Nat] /\ got' \in [T!Part -> Nat] /\ balance' \in Nat
    BY DEF TotalTypes
  <2>2. Held' \in [T!Part -> Nat]
    BY <2>1 DEF Held
  <2>3. QED
    BY <2>1, <2>2 DEF View
<1>5. Close(View(before), chain, missed, moves)
  BY DEF TotalInv, Near
<1>6. missed' = {} => missed = {} /\ View(behind)' = View(before)
  BY <1>3, <1>4
<1> DEFINE w == View(behind)'
<1>7. w \in [T!Part -> Nat] /\ \A x \in T!Part : w[x] <= View(before)[x]
  BY <1>4
<1>8. missed' = {} => missed = {} /\ w = View(before)
  BY <1>6
<1> HIDE DEF w
<1>9. Close(w, chain, missed', moves)
  BY <1>2, <1>3, <1>5, <1>7, <1>8, CloseBelow
<1>10. QED
  BY <1>1, <1>9 DEF Near, w

LEMMA ViewNext ==
  ASSUME T!Unmoved, NEW behind, NEW x \in T!Part
  PROVE  View(behind)'[x] = IF x \in UnreadParts' \ behind THEN chain[x] ELSE Held'[x]
BY DEF View, T!Unmoved

LEMMA ReadAccountKeepsTotal ==
  ASSUME TotalConstants, TotalInv, T!ReadAccount
  PROVE  TotalInv'
<1>1. TotalTypes /\ got \in [T!Part -> Nat] /\ chain \in [T!Part -> Nat] /\ balance \in Nat
  BY DEF TotalInv, TotalTypes
<1>2. /\ pc = "ask" /\ "account" \in waiting /\ waiting' = waiting \ {"account"}
      /\ got' = [got EXCEPT ![T!Balance] = balance]
      /\ pc' = pc /\ key' = key /\ missed' = missed /\ T!Unmoved
  BY DEF T!ReadAccount
<1>3. chain' = chain /\ isValidator' = isValidator /\ otherCoin' = otherCoin
        /\ balance' = balance /\ method' = method /\ moves' = moves
  BY <1>2 DEF T!Unmoved
<1>4. TotalTypes'
  BY <1>1, <1>2, <1>3 DEF TotalTypes
<1>5. UnreadPages' = UnreadPages
  <2>1. \A p \in T!Paged : p \in waiting' <=> p \in waiting
    BY <1>2 DEF T!Paged
  <2>2. QED
    BY <1>2, <2>1 DEF UnreadPages
<1>6. UnreadParts' = UnreadParts \ {T!Balance}
  <2>1. T!Balance \notin UnreadPages
    BY <1>1, ViewTypes, PartFacts
  <2>2. QED
    BY <1>2, <1>5, <2>1, PartFacts DEF UnreadParts
<1>7. Held' = Held
  BY <1>2 DEF Held
<1>8. Behinds' = Behinds /\ StakesSeen'
  <2>1. "staked" \in waiting' <=> "staked" \in waiting
    BY <1>2
  <2>2. \A v \in Validators : got'[<<"staked", v>>] = got[<<"staked", v>>]
    BY <1>1, <1>2, PartFacts
  <2>3. QED
    BY <1>2, <1>3, <2>1, <2>2, StakesStaySeen DEF TotalInv
<1>9. ASSUME NEW behind \in Behinds PROVE Near(View(behind))'
  <2> DEFINE before == behind \cup {T!Balance}
  <2>1. before \in Behinds
    BY PartFacts DEF Behinds
  <2>2. \A x \in T!Part : View(behind)'[x] = View(before)[x]
    BY <1>2, <1>6, <1>7, ViewAt, ViewNext
  <2>3. View(before) \in [T!Part -> Nat]
    BY <1>1, ViewTypes
  <2>4. \A x \in T!Part : View(behind)'[x] <= View(before)[x]
    BY <2>2, <2>3
  <2> HIDE DEF before
  <2>5. QED
    BY <1>2, <1>4, <2>1, <2>2, <2>4, ReadingKeepsViews
<1>10. \A x \in UnreadParts' : got'[x] = 0
  BY <1>1, <1>2, <1>6, ViewTypes DEF TotalInv
<1>11. PagesDone'
  BY <1>2 DEF PagesDone
<1>12. QED
  BY <1>2, <1>3, <1>4, <1>8, <1>9, <1>10, <1>11 DEF TotalInv

LEMMA ReadValidatorKeepsTotal ==
  ASSUME TotalConstants, TotalInv, T!ReadValidator
  PROVE  TotalInv'
<1>1. TotalTypes
  BY DEF TotalInv
<1>2. /\ pc = "ask" /\ waiting' = waiting \ {"validator"} /\ got' = got
      /\ pc' = pc /\ key' = key /\ missed' = missed /\ T!Unmoved
  BY DEF T!ReadValidator
<1>3. chain' = chain /\ isValidator' = isValidator /\ otherCoin' = otherCoin
        /\ balance' = balance /\ method' = method /\ moves' = moves
  BY <1>2 DEF T!Unmoved
<1>4. TotalTypes'
  BY <1>1, <1>2, <1>3 DEF TotalTypes
<1>5. UnreadPages' = UnreadPages
  <2>1. \A p \in T!Paged : p \in waiting' <=> p \in waiting
    BY <1>2 DEF T!Paged
  <2>2. QED
    BY <1>2, <2>1 DEF UnreadPages
<1>6. UnreadParts' = UnreadParts /\ Held' = Held
  BY <1>2, <1>3, <1>5 DEF UnreadParts, Held
<1>7. ASSUME NEW behind PROVE View(behind)' = View(behind)
  BY <1>3, <1>6 DEF View
<1>8. Behinds' = Behinds /\ StakesSeen'
  <2>1. "staked" \in waiting' <=> "staked" \in waiting
    BY <1>2
  <2>2. QED
    BY <1>2, <1>3, <2>1, StakesStaySeen DEF TotalInv
<1>9. ASSUME NEW behind \in Behinds PROVE Near(View(behind))'
  <2>1. Close(View(behind), chain, missed, moves)
    BY <1>2 DEF TotalInv, Near
  <2>2. QED
    BY <1>2, <1>3, <1>7, <2>1 DEF Near
<1>10. PagesDone'
  BY <1>2 DEF PagesDone
<1>11. QED
  BY <1>2, <1>3, <1>4, <1>6, <1>8, <1>9, <1>10 DEF TotalInv

-----------------------------------------------------------------------------
(* Pages.  What is on a page comes before what is not, and the next page   *)
(* starts where this one ended.                                            *)

LEMMA TotalPage ==
  ASSUME TotalConstants, chain \in [T!Part -> Nat],
         NEW p \in T!Paged, NEW from \in Nat,
         NEW D, D = T!Delegations(p, from), NEW nk, nk = T!NextKey(p, from)
  PROVE  /\ D = {v \in Validators : v >= from /\ chain[<<p, v>>] > 0}
         /\ T!FirstOf(D) \subseteq D /\ nk \in Nat
         /\ nk = T!NoKey => T!FirstOf(D) = D
         /\ nk # T!NoKey => /\ nk >= from
                            /\ \A v \in D \ T!FirstOf(D) : v >= nk
                            /\ \A v \in T!FirstOf(D) : v < nk
<1> DEFINE rest == D \ T!FirstOf(D)
           lower(v) == {w \in D : w < v}
<1>1. D = {v \in Validators : v >= from /\ chain[<<p, v>>] > 0}
  BY DEF T!Delegations
<1>2. D \subseteq Nat \ {0} /\ IsFiniteSet(D)
  BY <1>1, FS_Subset DEF TotalConstants
<1>3. T!FirstOf(D) = {v \in D : Cardinality(lower(v)) < PageSize}
  BY Zenon DEF T!FirstOf, T!Cardinality, Cardinality
<1>4. nk = IF rest = {} THEN T!NoKey ELSE Min(rest)
  <2>1. T!NextKey(p, from) =
          IF T!Delegations(p, from) \ T!FirstOf(T!Delegations(p, from)) = {} THEN T!NoKey
          ELSE Min(T!Delegations(p, from) \ T!FirstOf(T!Delegations(p, from)))
    BY Zenon DEF T!NextKey, T!Min, Min
  <2>2. QED
    BY <2>1
<1>5. CASE rest = {}
  <2>1. T!FirstOf(D) \subseteq D
    BY <1>3
  <2>2. T!FirstOf(D) = D /\ nk = T!NoKey
    BY <1>4, <1>5, <2>1
  <2>3. nk \in Nat
    BY <2>2 DEF T!NoKey
  <2>4. QED
    BY <1>1, <2>2, <2>3
<1>6. CASE rest # {}
  <2>1. rest \subseteq D /\ IsFiniteSet(rest) /\ rest \in SUBSET Int
    BY <1>2, FS_Subset
  <2>2. nk = Min(rest)
    BY <1>4, <1>6
  <2>3. Min(rest) \in rest /\ \A v \in rest : Min(rest) <= v
    <3> HIDE DEF rest
    <3>1. QED
      BY <1>6, <2>1, FiniteSetHasLeast
  <2>4. nk \in rest /\ nk \in D /\ nk \in Nat \ {0} /\ nk >= from
    BY <1>1, <1>2, <2>1, <2>2, <2>3
  <2>5. \A v \in rest : v >= nk
    <3>1. \A v \in rest : v \in Nat
      BY <1>2, <2>1
    <3> HIDE DEF rest
    <3>2. QED
      BY <2>2, <2>3, <2>4, <3>1
  <2>6. ASSUME NEW v \in T!FirstOf(D), ~(v < nk) PROVE FALSE
    <3>1. v \in D /\ v \in Nat /\ nk <= v
      BY <1>2, <1>3, <2>4, <2>6
    <3>2. lower(nk) \subseteq lower(v) /\ lower(v) \subseteq D
      <4>1. \A w \in D : w \in Nat
        BY <1>2
      <4>2. \A w \in D : w < nk => w < v
        BY <2>4, <3>1, <4>1
      <4>3. QED
        BY <4>2
    <3>3. IsFiniteSet(lower(v)) /\ IsFiniteSet(lower(nk)) /\ Cardinality(lower(nk)) <= Cardinality(lower(v))
      <4> HIDE DEF lower
      <4>1. QED
        BY <1>2, <3>2, FS_Subset
    <3>4. Cardinality(lower(nk)) \in Nat /\ Cardinality(lower(v)) \in Nat /\ Cardinality(lower(v)) < PageSize
      BY <1>3, <2>6, <3>3, FS_CardinalityType
    <3>5. ~(Cardinality(lower(nk)) < PageSize)
      BY <1>3, <2>4
    <3> HIDE DEF lower
    <3>6. QED
      BY <3>3, <3>4, <3>5 DEF TotalConstants
  <2>7. QED
    BY <1>1, <1>3, <2>4, <2>5, <2>6 DEF T!NoKey
<1>7. QED
  BY <1>1, <1>5, <1>6

\* Only a page of nothing is empty.
LEMMA FirstIsThere ==
  ASSUME TotalConstants, chain \in [T!Part -> Nat], NEW p \in T!Paged, NEW from \in Nat,
         NEW D, D = T!Delegations(p, from), T!FirstOf(D) = {}
  PROVE  D = {} /\ T!NextKey(p, from) = T!NoKey
<1> DEFINE lower(v) == {w \in D : w < v}
<1>1. D = {v \in Validators : v >= from /\ chain[<<p, v>>] > 0}
  BY DEF T!Delegations
<1>2. D \subseteq Nat \ {0} /\ IsFiniteSet(D) /\ D \in SUBSET Int
  <2>1. D \subseteq Validators /\ D \subseteq Nat \ {0}
    BY <1>1 DEF TotalConstants
  <2>2. IsFiniteSet(D)
    BY <2>1, FS_Subset DEF TotalConstants
  <2>3. QED
    BY <2>1, <2>2
<1>3. T!FirstOf(D) = {v \in D : Cardinality(lower(v)) < PageSize}
  BY Zenon DEF T!FirstOf, T!Cardinality, Cardinality
<1>4. D = {}
  <2> SUFFICES ASSUME D # {} PROVE FALSE
    OBVIOUS
  <2> DEFINE v == Min(D)
  <2>1. v \in D /\ \A w \in D : v <= w
    BY <1>2, FiniteSetHasLeast
  <2> HIDE DEF v
  <2>2. lower(v) = {}
    BY <1>2, <2>1
  <2>3. Cardinality(lower(v)) = 0
    BY <2>2, FS_EmptySet
  <2>4. v \in T!FirstOf(D)
    BY <1>3, <2>1, <2>3 DEF TotalConstants
  <2>5. QED
    BY <2>4
<1>5. T!NextKey(p, from) =
        IF T!Delegations(p, from) \ T!FirstOf(T!Delegations(p, from)) = {} THEN T!NoKey
        ELSE T!Min(T!Delegations(p, from) \ T!FirstOf(T!Delegations(p, from)))
  BY Zenon DEF T!NextKey
<1>6. T!Delegations(p, from) \ T!FirstOf(T!Delegations(p, from)) = {}
  <2>1. T!Delegations(p, from) = {}
    BY <1>4
  <2> HIDE DEF lower
  <2>2. QED
    BY <2>1
<1>7. QED
  BY <1>4, <1>5, <1>6

\* What the rewards behind take from a view.
LEMMA RewardBehind ==
  ASSUME TotalConstants, TotalInv, pc \in {"ask", "staked"}, NEW behind, NEW before,
         before = behind \ {T!Reward}, NEW x \in T!Part
  PROVE  /\ View(behind)[x] <= View(before)[x]
         /\ chain[T!Reward] = 0 => View(behind)[x] = View(before)[x]
<1>1. TotalTypes /\ chain \in [T!Part -> Nat] /\ got \in [T!Part -> Nat] /\ Held \in [T!Part -> Nat]
  BY ViewTypes DEF TotalInv, TotalTypes
<1>2. /\ View(behind)[x] = IF x \in UnreadParts \ behind THEN chain[x] ELSE Held[x]
      /\ View(before)[x] = IF x \in UnreadParts \ before THEN chain[x] ELSE Held[x]
  BY ViewAt
<1>3. CASE x = T!Reward
  <2>1. x \in UnreadParts
    BY <1>3 DEF UnreadParts
  <2>2. got[x] = 0
    BY <2>1 DEF TotalInv
  <2>3. Held[x] = 0
    BY <1>1, <1>3, <2>2, PartFacts DEF Held
  <2>4. chain[x] \in Nat
    BY <1>1
  <2>5. QED
    BY <1>2, <1>3, <2>1, <2>3, <2>4
<1>4. CASE x # T!Reward
  <2>1. chain[x] \in Nat /\ Held[x] \in Nat
    BY <1>1
  <2>2. QED
    BY <1>2, <1>4, <2>1
<1>5. QED
  BY <1>3, <1>4

\* A page is read from a key on: its parts are read now, what the account has
\* beyond it is still unread, and if it is not then something was missed.
LEMMA PageKeepsTotal ==
  ASSUME TotalConstants, TotalInv, T!Unmoved, NEW p \in T!Paged, NEW from \in Nat,
         T!AddPage(p, from), pc \in {"ask", p},
         "staked" \in waiting' <=> p # "staked" /\ "staked" \in waiting,
         \A v \in Validators : <<p, v>> \in UnreadParts <=> v >= from,
         \A x \in T!Part : x[1] # p => (x \in UnreadParts' <=> x \in UnreadParts),
         \A v \in Validators : <<p, v>> \in UnreadParts' =>
           T!NextKey(p, from) # T!NoKey /\ v >= T!NextKey(p, from),
         missed' = {} =>
           /\ missed = {}
           /\ \A v \in Validators : T!NextKey(p, from) # T!NoKey /\ v >= T!NextKey(p, from)
                                      => <<p, v>> \in UnreadParts',
         TotalTypes', "account" \in waiting' <=> "account" \in waiting
  PROVE  /\ \A behind \in Behinds' : Near(View(behind))'
         /\ \A x \in UnreadParts' : got'[x] = 0
         /\ NoStakeSeen' => NoStakeSeen \/ (p = "staked" /\ T!NextKey(p, from) = T!NoKey)
<1> DEFINE D == T!Delegations(p, from)
           nk == T!NextKey(p, from)
           F == T!FirstOf(D)
<1>1. TotalTypes /\ chain \in [T!Part -> Nat] /\ got \in [T!Part -> Nat]
        /\ \A x \in UnreadParts : got[x] = 0
  BY DEF TotalInv, TotalTypes, T!Paged
<1>2. /\ D = {v \in Validators : v >= from /\ chain[<<p, v>>] > 0}
      /\ F \subseteq D /\ nk \in Nat
      /\ nk = T!NoKey => F = D
      /\ nk # T!NoKey => /\ nk >= from
                         /\ \A v \in D \ F : v >= nk
                         /\ \A v \in F : v < nk
  BY <1>1, TotalPage
<1>3. got' = [x \in T!Part |-> IF x \in {p} \X F THEN chain[x] ELSE got[x]]
  BY DEF T!AddPage
<1> HIDE DEF D, nk, F
<1>4. chain' = chain /\ moves' = moves /\ balance' = balance
  BY DEF T!Unmoved
<1>5. \A x \in T!Part : x \in T!Paged \X Validators /\ x[1] = p
                          => \E v \in Validators : x = <<p, v>>
  OBVIOUS
<1>6. ASSUME NEW x \in T!Part, ~(\E v \in Validators : x = <<p, v>>)
      PROVE  /\ got'[x] = got[x] /\ Held'[x] = Held[x]
             /\ x \in UnreadParts' <=> x \in UnreadParts
  <2>1. x[1] # p
    <3>1. CASE x \in {T!Balance, T!Reward, T!Commission}
      BY <3>1, PartFacts DEF T!Balance, T!Reward, T!Commission
    <3>2. CASE x \in T!Paged \X Validators
      BY <1>5, <1>6, <3>2
    <3>3. QED
      BY <3>1, <3>2, PartFacts
  <2>2. x \notin {p} \X F
    BY <2>1
  <2>3. got'[x] = got[x]
    BY <1>3, <2>2
  <2>4. got' \in [T!Part -> Nat]
    BY DEF TotalTypes
  <2>5. Held'[x] = Held[x]
    BY <1>1, <1>4, <2>3, <2>4 DEF Held
  <2>6. QED
    BY <2>1, <2>3, <2>5
<1>7. ASSUME NEW v \in Validators
      PROVE  LET x == <<p, v>> IN
             /\ x \in T!Part /\ x \notin {T!Balance, T!Reward, T!Commission}
             /\ Held[x] = got[x] /\ Held'[x] = got'[x]
             /\ got'[x] = IF v \in F THEN chain[x] ELSE got[x]
  <2> DEFINE x == <<p, v>>
  <2>1. x \in T!Part /\ x \notin {T!Balance, T!Reward, T!Commission}
    BY PartFacts
  <2>2. x \in {p} \X F <=> v \in F
    OBVIOUS
  <2>3. got'[x] = IF v \in F THEN chain[x] ELSE got[x]
    BY <1>3, <2>1, <2>2
  <2>4. got' \in [T!Part -> Nat]
    BY DEF TotalTypes
  <2> HIDE DEF x
  <2>5. Held[x] = got[x] /\ Held'[x] = got'[x]
    BY <1>1, <2>1, <2>4 DEF Held
  <2>6. QED
    BY <2>1, <2>3, <2>5 DEF x
<1>8. ASSUME NEW v \in Validators, <<p, v>> \in UnreadParts' PROVE got'[<<p, v>>] = 0
  <2>1. nk # T!NoKey /\ v >= nk
    BY <1>8 DEF nk
  <2>2. v \in Nat
    BY DEF TotalConstants
  <2>3. v \notin F /\ v >= from
    BY <1>2, <2>1, <2>2
  <2>4. <<p, v>> \in UnreadParts
    BY <2>3
  <2>5. QED
    BY <1>1, <1>7, <2>3, <2>4
<1>9. ASSUME NEW v \in Validators, NEW behind \in SUBSET {T!Balance, T!Reward}
      PROVE  LET x == <<p, v>> IN
             /\ View(behind)'[x] <= View(behind)[x]
             /\ missed' = {} => View(behind)'[x] = View(behind)[x]
  <2> DEFINE x == <<p, v>>
  <2>1. x \in T!Part /\ x \notin behind /\ chain[x] \in Nat /\ got[x] \in Nat
    BY <1>1, <1>7
  <2>2. View(behind)[x] = IF v >= from THEN chain[x] ELSE got[x]
    <3>1. View(behind)[x] = IF x \in UnreadParts \ behind THEN chain[x] ELSE Held[x]
      BY <2>1, ViewAt
    <3>2. QED
      BY <1>7, <2>1, <3>1
  <2>3. View(behind)'[x] = IF x \in UnreadParts' THEN chain[x]
                           ELSE IF v \in F THEN chain[x] ELSE got[x]
    <3>1. View(behind)'[x] = IF x \in UnreadParts' \ behind THEN chain[x] ELSE Held'[x]
      BY <2>1, ViewNext
    <3>2. QED
      BY <1>7, <2>1, <3>1
  <2>4. v \in Nat
    BY DEF TotalConstants
  <2>5. CASE v >= from
    <3>1. got[x] = 0
      BY <1>1, <2>5
    <3>2. ASSUME missed' = {}, x \notin UnreadParts', v \notin F PROVE chain[x] = 0
      <4>1. nk = T!NoKey \/ ~(v >= nk)
        BY <3>2 DEF nk
      <4>2. v \notin D
        BY <1>2, <2>4, <3>2, <4>1
      <4>3. ~(chain[x] > 0)
        BY <1>2, <2>5, <4>2
      <4>4. QED
        BY <2>1, <4>3
    <3> HIDE DEF x
    <3>3. QED
      BY <2>1, <2>2, <2>3, <2>5, <3>1, <3>2 DEF x
  <2>6. CASE ~(v >= from)
    <3>1. v \notin F
      BY <1>2, <2>4, <2>6
    <3>2. x \notin UnreadParts'
      <4>1. ASSUME x \in UnreadParts' PROVE FALSE
        <5>1. nk # T!NoKey /\ v >= nk
          BY <4>1 DEF nk
        <5>2. QED
          BY <1>2, <2>4, <2>6, <5>1
      <4>2. QED
        BY <4>1
    <3> HIDE DEF x
    <3>3. QED
      BY <2>1, <2>2, <2>3, <2>6, <3>1, <3>2 DEF x
  <2>7. QED
    BY <2>5, <2>6
<1>10. ASSUME NEW behind \in SUBSET {T!Balance, T!Reward}, NEW x \in T!Part
       PROVE  /\ View(behind)'[x] <= View(behind)[x]
              /\ missed' = {} => View(behind)'[x] = View(behind)[x]
  <2>1. View(behind)[x] \in Nat
    BY <1>1, ViewTypes
  <2>2. CASE \E v \in Validators : x = <<p, v>>
    BY <1>9, <2>2
  <2>3. CASE ~(\E v \in Validators : x = <<p, v>>)
    <3>1. View(behind)'[x] = View(behind)[x]
      BY <1>6, <2>3, ViewAt, ViewNext
    <3>2. QED
      BY <2>1, <3>1
  <2>4. QED
    BY <2>2, <2>3
<1>11. ASSUME NoStakeSeen', ~NoStakeSeen   \* the page is the first, and empty
        PROVE  p = "staked" /\ nk = T!NoKey /\ chain[T!Reward] = 0
  <2>1. p = "staked"
    <3>1. CASE p # "staked"
      <4>1. \A v \in Validators : got'[<<"staked", v>>] = got[<<"staked", v>>]
        <5> TAKE v \in Validators
        <5>1. <<"staked", v>> \in T!Part /\ <<"staked", v>> \notin {p} \X F
          BY <3>1, PartFacts
        <5>2. QED
          BY <1>3, <5>1
      <4>2. QED
        BY <1>11, <3>1, <4>1 DEF NoStakeSeen
    <3>2. QED
      BY <3>1
  <2>2. ASSUME NEW v \in Validators PROVE got'[<<p, v>>] = 0 /\ v \notin F
    <3>1. got'[<<p, v>>] = 0
      BY <1>11, <2>1 DEF NoStakeSeen
    <3>2. v \in F => chain[<<p, v>>] > 0 /\ got'[<<p, v>>] = chain[<<p, v>>]
      BY <1>2, <1>7
    <3>3. QED
      BY <3>1, <3>2
  <2>3. F = {}
    BY <1>2, <2>2
  <2>4. D = {} /\ nk = T!NoKey
    BY <1>1, <2>3, FirstIsThere DEF D, nk, F
  <2>5. \A v \in Validators : got[<<p, v>>] = 0
    BY <1>7, <2>2
  <2>6. "staked" \in waiting
    BY <1>11, <2>1, <2>5 DEF NoStakeSeen
  <2>7. \A v \in Validators : v >= from
    <3> TAKE v \in Validators
    <3>1. <<p, v>> \in UnreadParts
      BY <2>1, <2>6 DEF UnreadParts, UnreadPages
    <3>2. QED
      BY <3>1
  <2>8. \A v \in Validators : ~(chain[<<"staked", v>>] > 0)
    BY <1>2, <2>1, <2>4, <2>7
  <2>9. ~(chain[T!Reward] > 0)
    BY <2>8 DEF TotalInv, StakesSeen, T!RewardsAreOfStakes, T!PartsOf
  <2>10. chain[T!Reward] \in Nat
    BY <1>1, PartFacts
  <2>11. QED
    BY <2>1, <2>4, <2>9, <2>10
<1>12. ASSUME NEW behind \in Behinds' PROVE Near(View(behind))'
  <2>1. behind \in SUBSET {T!Balance, T!Reward} /\ (T!Reward \in behind => NoStakeSeen')
    BY DEF Behinds
  <2>2. pc \notin {"answered", "failed"}
    BY DEF T!Paged
  <2>3. missed' = {} => missed = {}
    OBVIOUS
  <2>4. CASE NoStakeSeen \/ T!Reward \notin behind
    <3>1. behind \in Behinds
      BY <2>1, <2>4 DEF Behinds
    <3>2. QED
      BY <1>10, <2>1, <2>2, <2>3, <3>1, ReadingKeepsViews
  <2>5. CASE ~NoStakeSeen /\ T!Reward \in behind
    <3> DEFINE before == behind \ {T!Reward}
    <3>1. before \in Behinds
      BY <2>1 DEF Behinds
    <3>2. chain[T!Reward] = 0 /\ p = "staked"
      BY <1>11, <2>1, <2>5
    <3>3. pc \in {"ask", "staked"}
      BY <3>2
    <3>4. \A x \in T!Part : View(behind)[x] = View(before)[x]
      BY <3>2, <3>3, RewardBehind
    <3>5. \A x \in T!Part : /\ View(behind)'[x] <= View(before)[x]
                            /\ missed' = {} => View(behind)'[x] = View(before)[x]
      <4> HIDE DEF before
      <4>1. QED
        BY <1>10, <2>1, <3>4
    <3> HIDE DEF before
    <3>6. QED
      BY <2>2, <2>3, <3>1, <3>5, ReadingKeepsViews
  <2>6. QED
    BY <2>4, <2>5
<1>13. ASSUME NEW x \in UnreadParts' PROVE got'[x] = 0
  <2>1. x \in T!Part
    <3>1. UnreadParts' \subseteq T!Part
      BY PartFacts DEF UnreadParts, UnreadPages
    <3>2. QED
      BY <3>1
  <2>2. CASE \E v \in Validators : x = <<p, v>>
    BY <1>8, <1>13, <2>2
  <2>3. CASE ~(\E v \in Validators : x = <<p, v>>)
    BY <1>1, <1>6, <1>13, <2>1, <2>3
  <2>4. QED
    BY <2>2, <2>3
<1>14. QED
  BY <1>11, <1>12, <1>13 DEF nk

LEMMA ReadFirstKeepsTotal ==
  ASSUME TotalConstants, TotalInv, NEW p \in T!Paged, T!ReadFirst(p)
  PROVE  TotalInv'
<1>1. TotalTypes /\ key \in [T!Paged -> Nat] /\ chain \in [T!Part -> Nat] /\ got \in [T!Part -> Nat]
  BY DEF TotalInv, TotalTypes
<1>2. /\ pc = "ask" /\ p \in waiting /\ waiting' = waiting \ {p}
      /\ T!AddPage(p, 1) /\ pc' = pc /\ T!Unmoved
      /\ \/ /\ method = "single"
            /\ key' = [key EXCEPT ![p] = T!NextKey(p, 1)] /\ missed' = missed
         \/ /\ key' = key
            /\ missed' = IF T!NextKey(p, 1) = T!NoKey THEN missed ELSE missed \cup {p}
  BY DEF T!ReadFirst
<1>3. chain' = chain /\ isValidator' = isValidator /\ otherCoin' = otherCoin
        /\ balance' = balance /\ method' = method /\ moves' = moves
  BY <1>2 DEF T!Unmoved
<1>4. T!NextKey(p, 1) \in Nat
  BY <1>1, TotalPage
<1>5. got' \in [T!Part -> Nat]
  BY <1>1, <1>2 DEF T!AddPage
<1>6. key[p] = T!NoKey /\ key' \in [T!Paged -> Nat]
        /\ (key'[p] = T!NoKey \/ key'[p] = T!NextKey(p, 1))
        /\ \A o \in T!Paged : o # p => key'[o] = key[o]
  BY <1>1, <1>2, <1>4 DEF TotalTypes
<1>7. TotalTypes'
  <2>1. \A o \in T!Paged \cap waiting' : key'[o] = T!NoKey
    BY <1>1, <1>2, <1>6 DEF TotalTypes
  <2>2. QED
    BY <1>1, <1>2, <1>3, <1>5, <1>6, <2>1 DEF TotalTypes
<1>8. \A v \in Validators : <<p, v>> \in UnreadParts <=> v >= 1
  <2>1. ASSUME NEW v \in Validators PROVE <<p, v>> \in UnreadParts /\ v >= 1
    <3>1. <<p, v>> \in UnreadPages
      BY <1>2 DEF UnreadPages
    <3>2. v >= 1
      BY DEF TotalConstants
    <3>3. QED
      BY <3>1, <3>2 DEF UnreadParts
  <2>2. QED
    BY <2>1
<1>9. \A x \in T!Part : x[1] # p => (x \in UnreadParts' <=> x \in UnreadParts)
  <2>1. ASSUME NEW x \in T!Paged \X Validators, x[1] # p
        PROVE  x \in UnreadPages' <=> x \in UnreadPages
    <3>1. x[1] \in T!Paged /\ key'[x[1]] = key[x[1]] /\ (x[1] \in waiting' <=> x[1] \in waiting)
      BY <1>2, <1>6, <2>1
    <3>2. QED
      BY <3>1 DEF UnreadPages
  <2>2. "account" \in waiting' <=> "account" \in waiting
    BY <1>2 DEF T!Paged
  <2>3. UnreadPages \subseteq T!Paged \X Validators /\ UnreadPages' \subseteq T!Paged \X Validators
    BY DEF UnreadPages
  <2>4. QED
    BY <1>2, <2>1, <2>2, <2>3 DEF UnreadParts
<1>10. ASSUME NEW v \in Validators
       PROVE  <<p, v>> \in UnreadParts' <=> key'[p] # T!NoKey /\ v >= key'[p]
  <2>1. <<p, v>> \in UnreadPages' <=> key'[p] # T!NoKey /\ v >= key'[p]
    <3>1. p \notin waiting'
      BY <1>2
    <3>2. <<p, v>> \in T!Paged \X Validators /\ <<p, v>>[1] = p /\ <<p, v>>[2] = v
      OBVIOUS
    <3>3. QED
      BY <3>1, <3>2 DEF UnreadPages
  <2>2. QED
    BY <2>1, PartFacts DEF UnreadParts
<1>11. missed' = {} => missed = {} /\ (T!NextKey(p, 1) = T!NoKey \/ key'[p] = T!NextKey(p, 1))
  BY <1>1, <1>2
<1>12. "account" \in waiting' <=> "account" \in waiting
  BY <1>2 DEF T!Paged
<1>13. "staked" \in waiting' <=> p # "staked" /\ "staked" \in waiting
  BY <1>2
<1>14. /\ \A behind \in Behinds' : Near(View(behind))'
       /\ \A x \in UnreadParts' : got'[x] = 0
       /\ NoStakeSeen' => NoStakeSeen \/ (p = "staked" /\ T!NextKey(p, 1) = T!NoKey)
  BY <1>2, <1>6, <1>7, <1>8, <1>9, <1>10, <1>11, <1>12, <1>13, PageKeepsTotal
<1>15. StakesSeen'
  <2>1. T!RewardsAreOfStakes(chain)'
    BY <1>3 DEF TotalInv, StakesSeen, T!RewardsAreOfStakes
  <2>2. ASSUME NoStakeSeen' PROVE key'["staked"] = T!NoKey
    <3>1. CASE p = "staked"
      <4>1. ~NoStakeSeen
        BY <1>2, <3>1 DEF NoStakeSeen
      <4>2. QED
        BY <1>6, <1>14, <2>2, <3>1, <4>1
    <3>2. CASE p # "staked"
      <4>1. NoStakeSeen /\ "staked" \in T!Paged
        BY <1>14, <2>2, <3>2 DEF T!Paged
      <4>2. key["staked"] = T!NoKey
        BY <1>2, <4>1 DEF TotalInv, StakesSeen
      <4>3. QED
        BY <1>6, <3>2, <4>1, <4>2
    <3>3. QED
      BY <3>1, <3>2
  <2>3. QED
    BY <2>1, <2>2 DEF StakesSeen
<1>16. PagesDone'
  BY <1>2 DEF PagesDone
<1>17. QED
  BY <1>2, <1>3, <1>7, <1>14, <1>15, <1>16 DEF TotalInv

LEMMA MissKeepsTotal ==
  ASSUME TotalConstants, TotalInv, T!Miss
  PROVE  TotalInv'
<1>1. TotalTypes /\ chain \in [T!Part -> Nat] /\ got \in [T!Part -> Nat] /\ balance \in Nat
        /\ \A x \in UnreadParts : pc = "ask" => got[x] = 0
  BY DEF TotalInv, TotalTypes
<1>2. PICK w \in waiting :
        /\ pc = "ask" /\ waiting' = waiting \ {w} /\ missed' = missed \cup {w}
        /\ pc' = pc /\ key' = key /\ got' = got /\ T!Unmoved
  BY DEF T!Miss
<1>3. chain' = chain /\ isValidator' = isValidator /\ otherCoin' = otherCoin
        /\ balance' = balance /\ method' = method /\ moves' = moves
  BY <1>2 DEF T!Unmoved
<1>4. TotalTypes'
  BY <1>1, <1>2, <1>3 DEF TotalTypes
<1>5. UnreadPages' \subseteq UnreadPages /\ UnreadParts' \subseteq UnreadParts
  <2>1. UnreadPages' \subseteq UnreadPages
    BY <1>2 DEF UnreadPages
  <2>2. QED
    BY <1>2, <2>1 DEF UnreadParts
<1>6. ASSUME NEW behind \in Behinds' PROVE Near(View(behind))'
  <2>1. ASSUME NEW x \in T!Part PROVE View(behind)'[x] <= View(behind)[x]
    <3>1. View(behind)[x] = IF x \in UnreadParts \ behind THEN chain[x] ELSE Held[x]
      BY ViewAt
    <3>2. View(behind)'[x] = IF x \in UnreadParts' \ behind THEN chain[x] ELSE Held'[x]
      BY <1>2, ViewNext
    <3>3. chain[x] \in Nat /\ Held[x] \in Nat
      BY <1>1, ViewTypes
    <3>4. Held'[x] = Held[x] \/ Held'[x] = 0
      <4>1. CASE x = T!Balance /\ "account" \in waiting /\ "account" \notin waiting'
        <5>1. x \in UnreadParts
          BY <4>1 DEF UnreadParts
        <5>2. Held' = got
          BY <1>2, <4>1 DEF Held
        <5>3. QED
          BY <1>1, <1>2, <5>1, <5>2
      <4>2. CASE ~(x = T!Balance /\ "account" \in waiting /\ "account" \notin waiting')
        BY <1>1, <1>2, <1>3, <4>2 DEF Held
      <4>3. QED
        BY <4>1, <4>2
    <3>5. CASE x \in UnreadParts /\ x \notin UnreadParts'
      <4>1. Held'[x] = 0
        <5>1. got[x] = 0
          BY <1>1, <1>2, <3>5
        <5>2. CASE x = T!Balance
          <6>1. "account" \notin waiting'
            BY <3>5, <5>2 DEF UnreadParts
          <6>2. QED
            BY <1>2, <5>1, <6>1 DEF Held
        <5>3. CASE x # T!Balance
          BY <1>1, <1>2, <5>1, <5>3 DEF Held
        <5>4. QED
          BY <5>2, <5>3
      <4>2. QED
        BY <3>1, <3>2, <3>3, <3>5, <4>1
    <3>6. CASE ~(x \in UnreadParts /\ x \notin UnreadParts')
      <4>1. x \in UnreadParts' <=> x \in UnreadParts
        BY <1>5, <3>6
      <4>2. QED
        BY <3>1, <3>2, <3>3, <3>4, <4>1
    <3>7. QED
      BY <3>5, <3>6
  <2>2. missed' # {}
    BY <1>2
  <2> DEFINE before == behind \ {T!Reward}
  <2>3. before \in Behinds
    BY DEF Behinds
  <2>4. \A x \in T!Part : View(behind)[x] <= View(before)[x]
    BY <1>2, RewardBehind
  <2>5. \A x \in T!Part : View(behind)'[x] <= View(before)[x]
    <3> TAKE x \in T!Part
    <3>1. View(behind)[x] \in Nat /\ View(before)[x] \in Nat
      BY <1>1, ViewTypes
    <3>2. View(behind)'[x] \in Nat
      <4>1. chain[x] \in Nat /\ Held' \in [T!Part -> Nat]
        <5>1. got' \in [T!Part -> Nat] /\ balance' \in Nat
          BY <1>1, <1>2, <1>3
        <5>2. QED
          BY <1>1, <5>1 DEF Held
      <4>2. View(behind)'[x] = IF x \in UnreadParts' \ behind THEN chain[x] ELSE Held'[x]
        BY <1>2, ViewNext
      <4>3. QED
        BY <4>1, <4>2
    <3> HIDE DEF before
    <3>3. QED
      BY <2>1, <2>4, <3>1, <3>2
  <2> HIDE DEF before
  <2>6. QED
    BY <1>2, <1>4, <2>2, <2>3, <2>5, ReadingKeepsViews
<1>7. \A x \in UnreadParts' : got'[x] = 0
  BY <1>1, <1>2, <1>5
<1>8. PagesDone'
  BY <1>2 DEF PagesDone
<1>9. StakesSeen'
  <2>1. T!RewardsAreOfStakes(chain)'
    BY <1>3 DEF TotalInv, StakesSeen, T!RewardsAreOfStakes
  <2>2. ASSUME NoStakeSeen' PROVE key["staked"] = T!NoKey
    <3>1. CASE NoStakeSeen
      BY <1>2, <3>1 DEF TotalInv, StakesSeen
    <3>2. CASE ~NoStakeSeen
      <4>1. "staked" \in T!Paged \cap waiting
        BY <1>2, <2>2, <3>2 DEF NoStakeSeen, T!Paged
      <4>2. QED
        BY <1>1, <4>1 DEF TotalTypes
    <3>3. QED
      BY <3>1, <3>2
  <2>3. QED
    BY <1>2, <2>1, <2>2 DEF StakesSeen
<1>10. QED
  BY <1>2, <1>3, <1>4, <1>6, <1>7, <1>8, <1>9 DEF TotalInv

LEMMA SameViews ==
  ASSUME TotalInv, T!Unmoved, pc \notin {"answered", "failed"}, pc' \notin {"answered", "failed"},
         TotalTypes', PagesDone', got' = got, missed' = missed, waiting' = waiting, key' = key,
         UnreadParts' = UnreadParts
  PROVE  TotalInv'
<1>1. chain' = chain /\ isValidator' = isValidator /\ balance' = balance /\ moves' = moves
  BY DEF T!Unmoved
<1>2. Held' = Held
  BY <1>1 DEF Held
<1>3. ASSUME NEW behind PROVE View(behind)' = View(behind)
  BY <1>1, <1>2 DEF View
<1>4. ASSUME NEW behind \in Behinds PROVE Near(View(behind))'
  <2>1. Close(View(behind), chain, missed, moves)
    BY DEF TotalInv, Near
  <2>2. QED
    BY <1>1, <1>3, <2>1 DEF Near
<1>5. Behinds' = Behinds /\ StakesSeen'
  BY <1>1, StakesStaySeen DEF TotalInv
<1>6. QED
  BY <1>1, <1>4, <1>5 DEF TotalInv

\* What is left in the end is at most what was still to be had.
LEMMA AnswerIsNear ==
  ASSUME TotalConstants, TotalInv, TotalTypes', T!Unmoved, pc \notin {"answered", "failed"},
         pc' = "answered", waiting = {}, PagesDone',
         \A x \in T!Part : got'[x] <= View({})[x],
         missed' = {} => missed = {} /\ \A x \in T!Part : got'[x] = View({})[x]
  PROVE  TotalInv'
<1>1. chain' = chain /\ isValidator' = isValidator /\ moves' = moves
  BY DEF T!Unmoved
<1>2. TotalTypes /\ chain \in [T!Part -> Nat] /\ moves \in Nat
  BY DEF TotalInv, TotalTypes
<1>3. View({}) \in [T!Part -> Nat]
  BY <1>2, ViewTypes
<1>4. got' \in [T!Part -> Nat]
  BY DEF TotalTypes
<1>5. Close(View({}), chain, missed, moves)
  <2>1. {} \in Behinds
    BY DEF Behinds
  <2>2. QED
    BY <2>1 DEF TotalInv, Near
<1>6. missed' = {} => missed = {} /\ got' = View({})
  BY <1>3, <1>4
<1>7. Close(got', chain, missed', moves)
  BY <1>2, <1>3, <1>4, <1>5, <1>6, CloseBelow
<1>8. Near(got)'
  BY <1>1, <1>7 DEF Near
<1>9. StakesSeen'
  BY <1>1 DEF TotalInv, StakesSeen, T!RewardsAreOfStakes
<1>10. QED
  BY <1>1, <1>8, <1>9 DEF TotalInv

LEMMA ProceedKeepsTotal ==
  ASSUME TotalConstants, TotalInv, T!Proceed
  PROVE  TotalInv'
<1>1. TotalTypes /\ chain \in [T!Part -> Nat] /\ got \in [T!Part -> Nat]
  BY DEF TotalInv, TotalTypes
<1>2. /\ pc = "ask" /\ waiting = {}
      /\ waiting' = waiting /\ key' = key /\ missed' = missed /\ T!Unmoved
      /\ \/ "account" \in missed /\ pc' = "answered" /\ got' = [p \in T!Part |-> 0]
         \/ got' = got /\ pc' \in {"staked", "failed"}
  BY DEF T!Proceed, T!Goto
<1>3. chain' = chain /\ isValidator' = isValidator /\ otherCoin' = otherCoin
        /\ balance' = balance /\ method' = method /\ moves' = moves
  BY <1>2 DEF T!Unmoved
<1>4. got' \in [T!Part -> Nat] /\ pc' \in TotalSteps
  BY <1>1, <1>2 DEF TotalSteps
<1>5. TotalTypes'
  BY <1>1, <1>2, <1>3, <1>4 DEF TotalTypes
<1>6. PagesDone'
  BY <1>2 DEF PagesDone
<1>7. CASE pc' = "answered"
  <2>1. View({}) \in [T!Part -> Nat]
    BY <1>1, ViewTypes
  <2>2. \A x \in T!Part : got'[x] <= View({})[x]
    BY <1>2, <1>7, <2>1
  <2>3. missed' # {}
    BY <1>2, <1>7
  <2>4. QED
    BY <1>2, <1>5, <1>6, <1>7, <2>2, <2>3, AnswerIsNear
<1>8. CASE pc' = "staked"
  <2>1. UnreadParts' = UnreadParts
    BY <1>2, <1>8 DEF UnreadParts, UnreadPages
  <2>2. got' = got
    BY <1>2, <1>8
  <2>3. QED
    BY <1>2, <1>5, <1>6, <1>8, <2>1, <2>2, SameViews
<1>9. CASE pc' = "failed"
  <2>1. StakesSeen'
    BY <1>2, <1>3, <1>9, StakesStaySeen DEF TotalInv
  <2>2. QED
    BY <1>3, <1>5, <1>6, <1>9, <2>1 DEF TotalInv
<1>10. QED
  BY <1>2, <1>7, <1>8, <1>9

LEMMA NextPageKeepsTotal ==
  ASSUME TotalConstants, TotalInv, NEW p \in T!Paged, T!NextPage(p)
  PROVE  TotalInv'
<1>1. TotalTypes /\ PagesDone /\ key \in [T!Paged -> Nat]
        /\ chain \in [T!Part -> Nat] /\ got \in [T!Part -> Nat]
  BY DEF TotalInv, TotalTypes
<1>2. /\ pc = p /\ key[p] # T!NoKey /\ waiting' = waiting /\ missed' = missed /\ T!Unmoved
      /\ \/ /\ T!AddPage(p, key[p]) /\ pc' = pc
            /\ key' = [key EXCEPT ![p] = T!NextKey(p, key[p])]
         \/ pc' = "failed" /\ key' = key /\ got' = got
  BY DEF T!NextPage, T!Goto
<1>3. chain' = chain /\ isValidator' = isValidator /\ otherCoin' = otherCoin
        /\ balance' = balance /\ method' = method /\ moves' = moves
  BY <1>2 DEF T!Unmoved
<1>4. p \in {"staked", "unbonding"} /\ waiting = {}
  BY <1>1, <1>2 DEF T!Paged, TotalTypes
<1>5. CASE pc' = "failed" /\ key' = key /\ got' = got
  <2>1. TotalTypes'
    BY <1>1, <1>2, <1>3, <1>4, <1>5 DEF TotalTypes, TotalSteps
  <2>2. PagesDone'
    BY <1>5 DEF PagesDone
  <2>3. StakesSeen'
    BY <1>2, <1>3, <1>4, <1>5, StakesStaySeen DEF TotalInv
  <2>4. QED
    BY <1>3, <1>5, <2>1, <2>2, <2>3 DEF TotalInv
<1>6. CASE T!AddPage(p, key[p]) /\ pc' = pc /\ key' = [key EXCEPT ![p] = T!NextKey(p, key[p])]
  <2>1. key[p] \in Nat /\ T!NextKey(p, key[p]) \in Nat
    BY <1>1, TotalPage
  <2>2. got' \in [T!Part -> Nat]
    BY <1>1, <1>6 DEF T!AddPage
  <2>3. key' \in [T!Paged -> Nat] /\ key'[p] = T!NextKey(p, key[p])
          /\ \A o \in T!Paged : o # p => key'[o] = key[o]
    BY <1>1, <1>6, <2>1
  <2>4. TotalTypes'
    BY <1>1, <1>2, <1>3, <1>4, <1>6, <2>2, <2>3 DEF TotalTypes
  <2>5. PagesDone'
    BY <1>1, <1>2, <1>4, <1>6, <2>3 DEF PagesDone, T!Paged
  <2>6. ASSUME NEW v \in Validators
        PROVE  /\ <<p, v>> \in UnreadParts <=> v >= key[p]
               /\ <<p, v>> \in UnreadParts' <=> key'[p] # T!NoKey /\ v >= key'[p]
    <3>1. <<p, v>> \in T!Paged \X Validators /\ <<p, v>>[1] = p /\ <<p, v>>[2] = v
      OBVIOUS
    <3>2. /\ <<p, v>> \in UnreadPages <=> v >= key[p]
          /\ <<p, v>> \in UnreadPages' <=> key'[p] # T!NoKey /\ v >= key'[p]
      BY <1>2, <1>4, <3>1 DEF UnreadPages
    <3>3. QED
      BY <3>2, PartFacts DEF UnreadParts
  <2>7. \A x \in T!Part : x[1] # p => (x \in UnreadParts' <=> x \in UnreadParts)
    <3>1. ASSUME NEW x \in T!Paged \X Validators, x[1] # p
          PROVE  x \in UnreadPages' <=> x \in UnreadPages
      <4>1. x[1] \in T!Paged /\ key'[x[1]] = key[x[1]]
        BY <2>3, <3>1
      <4>2. QED
        BY <1>2, <4>1 DEF UnreadPages
    <3>2. UnreadPages \subseteq T!Paged \X Validators /\ UnreadPages' \subseteq T!Paged \X Validators
      BY DEF UnreadPages
    <3>3. QED
      BY <1>2, <1>6, <3>1, <3>2 DEF UnreadParts
  <2>8. pc \notin {"answered", "failed"}
    BY <1>2, <1>4
  <2>9. /\ \A behind \in Behinds' : Near(View(behind))'
        /\ \A x \in UnreadParts' : got'[x] = 0
        /\ NoStakeSeen' => NoStakeSeen \/ (p = "staked" /\ T!NextKey(p, key[p]) = T!NoKey)
    <3>1. "staked" \in waiting' <=> p # "staked" /\ "staked" \in waiting
      BY <1>2, <1>4
    <3>2. QED
      BY <1>2, <1>6, <2>1, <2>3, <2>4, <2>6, <2>7, <3>1, PageKeepsTotal
  <2>10. StakesSeen'
    <3>1. T!RewardsAreOfStakes(chain)'
      BY <1>3 DEF TotalInv, StakesSeen, T!RewardsAreOfStakes
    <3>2. ASSUME NoStakeSeen' PROVE key'["staked"] = T!NoKey
      <4>1. CASE p = "staked"
        BY <2>3, <2>8, <2>9, <3>2, <1>2, <4>1 DEF TotalInv, StakesSeen
      <4>2. CASE p # "staked"
        <5>1. NoStakeSeen /\ "staked" \in T!Paged
          BY <2>9, <3>2, <4>2 DEF T!Paged
        <5>2. key["staked"] = T!NoKey
          BY <2>8, <5>1 DEF TotalInv, StakesSeen
        <5>3. QED
          BY <2>3, <4>2, <5>1, <5>2
      <4>3. QED
        BY <4>1, <4>2
    <3>3. QED
      BY <3>1, <3>2 DEF StakesSeen
  <2>11. QED
    BY <1>1, <1>3, <1>6, <2>4, <2>5, <2>8, <2>9, <2>10 DEF TotalInv
<1>7. QED
  BY <1>2, <1>5, <1>6

LEMMA PagesEndKeepsTotal ==
  ASSUME TotalConstants, TotalInv, NEW p \in T!Paged, T!PagesEnd(p)
  PROVE  TotalInv'
<1>1. TotalTypes /\ PagesDone
  BY DEF TotalInv
<1>2. /\ pc = p /\ key[p] = T!NoKey /\ pc' = T!After[p]
      /\ waiting' = waiting /\ key' = key /\ got' = got /\ missed' = missed /\ T!Unmoved
  BY DEF T!PagesEnd, T!Goto
<1>3. chain' = chain /\ isValidator' = isValidator /\ otherCoin' = otherCoin
        /\ balance' = balance /\ method' = method /\ moves' = moves
  BY <1>2 DEF T!Unmoved
<1>4. \/ pc = "staked" /\ pc' = "reward" /\ key["staked"] = T!NoKey
      \/ pc = "unbonding" /\ pc' = "commission" /\ key["unbonding"] = T!NoKey
  BY <1>2 DEF T!Paged, T!After
<1>5. TotalTypes'
  BY <1>1, <1>2, <1>3, <1>4 DEF TotalTypes, TotalSteps
<1>6. PagesDone'
  BY <1>1, <1>2, <1>4 DEF PagesDone
<1>7. UnreadParts' = UnreadParts
  BY <1>2, <1>4 DEF UnreadParts, UnreadPages
<1>8. QED
  BY <1>2, <1>4, <1>5, <1>6, <1>7, SameViews

LEMMA ReadRewardKeepsTotal ==
  ASSUME TotalConstants, TotalInv, T!ReadReward
  PROVE  TotalInv'
<1>1. TotalTypes /\ PagesDone /\ chain \in [T!Part -> Nat] /\ got \in [T!Part -> Nat]
  BY DEF TotalInv, TotalTypes
<1>2. /\ pc = "reward" /\ waiting' = waiting /\ key' = key /\ T!Unmoved
      /\ \/ got' = [got EXCEPT ![T!Reward] = chain[T!Reward]] /\ missed' = missed /\ pc' = "unbonding"
         \/ got' = got /\ missed' = missed \cup {T!Reward[1]} /\ pc' = "unbonding"
         \/ got' = got /\ missed' = missed /\ pc' = "failed"
         \/ /\ got' = got /\ missed' = missed /\ pc' = "unbonding"
            /\ ~(\E x \in T!PartsOf("staked") : got[x] > 0)
  BY DEF T!ReadReward, T!ReadLast, T!Goto, T!Reward
<1>3. chain' = chain /\ isValidator' = isValidator /\ otherCoin' = otherCoin
        /\ balance' = balance /\ method' = method /\ moves' = moves
  BY <1>2 DEF T!Unmoved
<1>4. got' \in [T!Part -> Nat] /\ waiting = {}
  BY <1>1, <1>2, PartFacts DEF TotalTypes
<1>5. TotalTypes' /\ PagesDone'
  <2>1. pc' \in TotalSteps
    BY <1>2 DEF TotalSteps
  <2>2. TotalTypes'
    BY <1>1, <1>2, <1>3, <1>4, <2>1 DEF TotalTypes
  <2>3. PagesDone'
    BY <1>1, <1>2 DEF PagesDone
  <2>4. QED
    BY <2>2, <2>3
<1>6. Behinds' = Behinds /\ StakesSeen'
  <2>1. \A v \in Validators : got'[<<"staked", v>>] = got[<<"staked", v>>]
    <3> TAKE v \in Validators
    <3>1. <<"staked", v>> # T!Reward /\ <<"staked", v>> \in T!Part
      BY PartFacts
    <3>2. QED
      BY <1>1, <1>2, <3>1
  <2>2. QED
    BY <1>2, <1>3, <2>1, StakesStaySeen DEF TotalInv
<1>7. CASE pc' = "failed"
  BY <1>3, <1>5, <1>6, <1>7 DEF TotalInv
<1>8. CASE pc' = "unbonding"
  <2>1. UnreadParts' = UnreadParts \ {T!Reward} /\ T!Reward \in UnreadParts /\ T!Reward \in T!Part
    <3>1. UnreadPages' = UnreadPages /\ T!Reward \notin UnreadPages
      BY <1>1, <1>2, ViewTypes, PartFacts DEF UnreadPages
    <3>2. QED
      BY <1>2, <1>4, <1>8, <3>1, PartFacts DEF UnreadParts
  <2>2. Held = got /\ Held' = got' /\ got[T!Reward] = 0
    BY <1>2, <1>4, <2>1 DEF Held, TotalInv
  <2>3. ASSUME NEW behind \in Behinds PROVE Near(View(behind))'
    <3> DEFINE without == behind \ {T!Reward}
               with == behind \cup {T!Reward}
    <3>1. /\ \A x \in T!Part :
              View(behind)'[x] = IF x \in UnreadParts' \ behind THEN chain[x] ELSE got'[x]
          /\ \A b : \A x \in T!Part : View(b)[x] = IF x \in UnreadParts \ b THEN chain[x] ELSE got[x]
      BY <1>2, <2>2, ViewAt, ViewNext
    <3>2. \A x \in T!Part : x # T!Reward =>
             View(behind)'[x] = View(without)[x] /\ View(behind)'[x] = View(with)[x]
      <4>1. \A x \in T!Part : x # T!Reward => got'[x] = got[x]
        BY <1>1, <1>2
      <4>2. QED
        BY <2>1, <3>1, <4>1
    <3>3. /\ View(behind)'[T!Reward] = got'[T!Reward] /\ View(with)[T!Reward] = 0
          /\ View(without)[T!Reward] = chain[T!Reward]
      BY <2>1, <2>2, <3>1
    <3>4. View(without) \in [T!Part -> Nat] /\ View(with) \in [T!Part -> Nat]
      BY <1>1, ViewTypes
    <3>5. without \in Behinds /\ (NoStakeSeen => with \in Behinds)
      BY DEF Behinds
    <3>6. got'[T!Reward] = chain[T!Reward] \/ (got' = got /\ (missed' # {} \/ NoStakeSeen))
      <4>1. CASE ~(\E x \in T!PartsOf("staked") : got[x] > 0)
        <5>1. \A v \in Validators : got[<<"staked", v>>] = 0
          <6> TAKE v \in Validators
          <6>1. <<"staked", v>> \in T!PartsOf("staked") /\ got[<<"staked", v>>] \in Nat
            BY <1>1, PartFacts DEF T!PartsOf
          <6>2. QED
            BY <4>1, <6>1
        <5>2. NoStakeSeen
          BY <1>4, <5>1 DEF NoStakeSeen
        <5>3. QED
          BY <1>1, <1>2, <1>8, <2>1, <5>2
      <4>2. CASE \E x \in T!PartsOf("staked") : got[x] > 0
        BY <1>1, <1>2, <1>8, <2>1, <4>2
      <4>3. QED
        BY <4>1, <4>2
    <3>7. missed' = {} => missed = {}
      BY <1>2
    <3>8. chain[T!Reward] \in Nat
      BY <1>1, <2>1
    <3> HIDE DEF with, without
    <3>9. CASE got'[T!Reward] = chain[T!Reward]
      <4>1. \A x \in T!Part : View(behind)'[x] = View(without)[x]
        BY <3>2, <3>3, <3>9
      <4>2. \A x \in T!Part : View(behind)'[x] <= View(without)[x]
        BY <3>4, <4>1
      <4>3. QED
        BY <1>2, <1>5, <3>5, <3>7, <4>1, <4>2, ReadingKeepsViews
    <3>10. CASE got' = got /\ missed' # {}
      <4>1. \A x \in T!Part : View(behind)'[x] <= View(without)[x]
        BY <2>2, <3>2, <3>3, <3>4, <3>8, <3>10
      <4>2. QED
        BY <1>2, <1>5, <3>5, <3>10, <4>1, ReadingKeepsViews
    <3>11. CASE got' = got /\ NoStakeSeen
      <4>1. \A x \in T!Part : View(behind)'[x] = View(with)[x]
        BY <2>2, <3>2, <3>3, <3>11
      <4>2. \A x \in T!Part : View(behind)'[x] <= View(with)[x]
        BY <3>4, <4>1
      <4>3. QED
        BY <1>2, <1>5, <3>5, <3>7, <3>11, <4>1, <4>2, ReadingKeepsViews
    <3>12. QED
      BY <3>6, <3>9, <3>10, <3>11
  <2>4. \A x \in UnreadParts' : got'[x] = 0
    <3>1. \A x \in UnreadParts : got[x] = 0 /\ x \in T!Part
      BY <1>1, <1>2, ViewTypes DEF TotalInv
    <3>2. \A x \in UnreadParts' : got'[x] = got[x]
      BY <1>1, <1>2, <2>1, <3>1
    <3>3. QED
      BY <2>1, <3>1, <3>2
  <2>5. QED
    BY <1>3, <1>5, <1>6, <1>8, <2>3, <2>4 DEF TotalInv
<1>9. QED
  BY <1>2, <1>7, <1>8

LEMMA ReadCommissionKeepsTotal ==
  ASSUME TotalConstants, TotalInv, T!ReadCommission
  PROVE  TotalInv'
<1>1. TotalTypes /\ PagesDone /\ chain \in [T!Part -> Nat] /\ got \in [T!Part -> Nat]
        /\ (isValidator \/ chain[T!Commission] = 0)
  BY DEF TotalInv, TotalTypes
<1>2. /\ pc = "commission" /\ waiting' = waiting /\ key' = key /\ T!Unmoved
      /\ \/ /\ got' = [got EXCEPT ![T!Commission] = chain[T!Commission]]
            /\ missed' = missed /\ pc' = "answered"
         \/ got' = got /\ missed' = missed \cup {T!Commission[1]} /\ pc' = "answered"
         \/ got' = got /\ missed' = missed /\ pc' = "failed"
         \/ /\ got' = got /\ missed' = missed /\ pc' = "answered"
            /\ ~(isValidator /\ "validator" \notin missed)
  BY DEF T!ReadCommission, T!ReadLast, T!Goto, T!Commission
<1>3. chain' = chain /\ isValidator' = isValidator /\ otherCoin' = otherCoin
        /\ balance' = balance /\ method' = method /\ moves' = moves
  BY <1>2 DEF T!Unmoved
<1>4. got' \in [T!Part -> Nat] /\ waiting = {}
  BY <1>1, <1>2, PartFacts DEF TotalTypes
<1>5. TotalTypes' /\ PagesDone'
  <2>1. pc' \in TotalSteps
    BY <1>2 DEF TotalSteps
  <2>2. TotalTypes'
    BY <1>1, <1>2, <1>3, <1>4, <2>1 DEF TotalTypes
  <2>3. PagesDone'
    BY <1>2 DEF PagesDone
  <2>4. QED
    BY <2>2, <2>3
<1>6. CASE pc' = "failed"
  <2>1. StakesSeen'
    BY <1>2, <1>3, <1>6, StakesStaySeen DEF TotalInv
  <2>2. QED
    BY <1>3, <1>5, <1>6, <2>1 DEF TotalInv
<1>7. CASE pc' = "answered"
  <2>1. UnreadParts = {T!Commission}
    <3>1. UnreadPages = {}
      BY <1>1, <1>2, <1>4 DEF UnreadPages, PagesDone, T!Paged
    <3>2. QED
      BY <1>2, <1>4, <3>1 DEF UnreadParts
  <2>2. got[T!Commission] = 0 /\ Held = got
    BY <1>2, <1>4, <2>1 DEF TotalInv, Held
  <2>3. ASSUME NEW x \in T!Part
        PROVE  got'[x] <= View({})[x] /\ (missed' = {} => got'[x] = View({})[x])
    <3>1. View({})[x] = IF x = T!Commission THEN chain[x] ELSE got[x]
      BY <2>1, <2>2, ViewAt
    <3>2. chain[x] \in Nat /\ got[x] \in Nat
      BY <1>1
    <3>3. CASE x = T!Commission
      <4>1. got'[x] = chain[x] \/ got'[x] = 0
        BY <1>1, <1>2, <2>2, <3>3
      <4>2. missed' = {} => got'[x] = chain[x]
        BY <1>1, <1>2, <1>7, <2>2, <3>3
      <4>3. QED
        BY <3>1, <3>2, <3>3, <4>1, <4>2
    <3>4. CASE x # T!Commission
      <4>1. got'[x] = got[x]
        BY <1>1, <1>2, <3>4
      <4>2. QED
        BY <3>1, <3>2, <3>4, <4>1
    <3>5. QED
      BY <3>3, <3>4
  <2>4. missed' = {} => missed = {}
    BY <1>2
  <2>5. QED
    BY <1>2, <1>4, <1>5, <1>7, <2>3, <2>4, AnswerIsNear
<1>8. QED
  BY <1>2, <1>6, <1>7

-----------------------------------------------------------------------------
(* The theorem                                                             *)

LEMMA TotalKept ==
  ASSUME TotalConstants, TotalInv, [T!Next]_(T!vars)
  PROVE  TotalInv'
<1>1. CASE T!Request
  BY <1>1, ReadAccountKeepsTotal, ReadValidatorKeepsTotal, MissKeepsTotal, ProceedKeepsTotal,
     ReadRewardKeepsTotal, ReadCommissionKeepsTotal, ReadFirstKeepsTotal, NextPageKeepsTotal,
     PagesEndKeepsTotal DEF T!Request
<1>2. CASE UNCHANGED T!vars
  <2>1. /\ chain' = chain /\ isValidator' = isValidator /\ otherCoin' = otherCoin
        /\ balance' = balance /\ method' = method /\ pc' = pc /\ waiting' = waiting
        /\ key' = key /\ got' = got /\ missed' = missed /\ moves' = moves
    BY <1>2 DEF T!vars
  <2>2. UnreadPages' = UnreadPages /\ UnreadParts' = UnreadParts /\ Held' = Held
    BY <2>1 DEF UnreadPages, UnreadParts, Held
  <2>3. \A behind : View(behind)' = View(behind)
    BY <2>1, <2>2 DEF View
  <2>4. \A behind \in Behinds : Near(View(behind))' <=> Near(View(behind))
    BY <2>1, <2>3 DEF Near
  <2>5. Near(got)' <=> Near(got)
    BY <2>1 DEF Near
  <2>6. TotalTypes' /\ PagesDone'
    BY <2>1 DEF TotalInv, TotalTypes, PagesDone
  <2>7. Behinds' = Behinds /\ StakesSeen'
    <3>1. (NoStakeSeen' <=> NoStakeSeen) /\ Behinds' = Behinds
      BY <2>1, BehindsStay
    <3>2. QED
      BY <2>1, <3>1 DEF TotalInv, StakesSeen, T!RewardsAreOfStakes
  <2>8. QED
    BY <2>1, <2>2, <2>4, <2>5, <2>6, <2>7 DEF TotalInv
<1>3. CASE T!Move \/ T!Earn \/ T!Spend \/ T!Index
  BY <1>3, MoveKeepsTotal, EarnKeepsTotal, SpendKeepsTotal, IndexKeepsTotal
<1>4. QED
  BY <1>1, <1>2, <1>3 DEF T!Next, T!Quiet

\* Whatever moves while the indexer and the node are asked, for any number of
\* validators, delegations in a page and coins: the total that
\* getTotalBalanceByAddress and getTotalBalanceByListAddress answer is off by
\* one coin for each that moves at most, unless an answer was left out; then
\* it is still not higher.
THEOREM TotalsAreNear == ReadsSpec => []TotalIsNearWorth
<1> DEFINE Kept == part = "total" => TotalInv
<1>1. TotalConstants
  BY ReadsConstantsOK DEF TotalConstants
<1>2. ReadsInit => Kept
  <2>1. ReadsInit /\ part = "total" => T!Init
    BY DEF ReadsInit
  <2>2. QED
    BY <1>1, <2>1, TotalStarts
<1>3. Kept /\ [ReadsNext]_allVars => Kept'
  <2>1. [ReadsNext]_allVars /\ part' = "total" => part = "total" /\ [T!Next]_(T!vars)
    BY DEF ReadsNext, allVars, totalVars, T!vars
  <2>2. QED
    BY <1>1, <2>1, TotalKept
<1>4. Kept => TotalIsNearWorth
  <2>1. T!Amount = SumOf(got, T!Part) /\ T!Worth = SumOf(chain, T!Part)
    BY TotalIsSum DEF T!Amount, T!Worth
  <2>2. QED
    BY <2>1 DEF TotalInv, Near, Close, TotalIsNearWorth, T!TotalIsNearWorth
<1>5. QED
  BY <1>2, <1>3, <1>4, PTL DEF ReadsSpec

-----------------------------------------------------------------------------
(* The export.  The records of the account have heights that rise with     *)
(* their ids.  What was fetched is in the range, once each, newest first,  *)
(* and lies above the bound of the next page; what is not there is below   *)
(* it, or in a block that a page split.                                    *)

ExportConstants ==
  /\ ExportPage \in Nat \ {0} /\ MaxLoop \in Nat \ {0}
  /\ ExportLimit \in Nat /\ MaxHeight \in Nat /\ MaxRecords \in Nat
ExportSteps == {"fetch", "write", "done", "failed"}

\* E!Asked and E!InRange, of a request.
AskedOf(q, h) ==
  CASE q.by = "height"                           -> h > E!Above(q.min)
    [] q.by = "date" /\ q.kind.dates = "open"    -> h > q.min /\ h < q.max
    [] OTHER                                     -> h >= q.min /\ h <= q.max
InRangeOf(q, h) == AskedOf(q, h) /\ (q.by = "height" => h <= q.max)

LogTypes ==
  /\ height \in Nat /\ log \in Seq(Nat \ {0})
  /\ \A i, j \in DOMAIN log : i <= j => log[i] <= log[j]
  /\ \A i \in DOMAIN log : log[i] <= height
ExportTypes ==
  /\ LogTypes
  /\ request \in E!Request /\ pc \in ExportSteps
  /\ below \in Nat /\ loops \in Nat /\ known \in Nat /\ known <= Len(log)
  /\ pc = "fetch" => loops < MaxLoop
  /\ result \in Seq(Nat) /\ \A n \in DOMAIN result : result[n] \in DOMAIN log
  /\ rows \in Seq(Nat)

InFile(s) == {s[n] : n \in DOMAIN s}
Heights == request.kind.heights
Paging  == Heights \/ loops <= 1

\* s has each record once, all in the range, the newest first.
OnceNewestFirst(s, q, l) ==
  /\ \A n, m \in DOMAIN s : s[n] = s[m] => n = m
  /\ \A n \in DOMAIN s : InRangeOf(q, l[s[n]])
  /\ \A n, m \in DOMAIN s : n < m => l[s[n]] >= l[s[m]]
AllAbove(s, l, h) == \A n \in DOMAIN s : h <= l[s[n]]

NothingYet   == below = E!FirstBound(request) /\ result = <<>> /\ known = 0
BelowResult  == below # E!NoBound /\ AllAbove(result, log, below)
BelowMaximum == below # E!NoBound /\ below <= request.max + 1

Fetched(i) == i \in InFile(result) \/ log[i] \in split
CutEarly   == broken \/ loops = MaxLoop \/ Len(result) >= ExportLimit
Wanted     == {i \in 1..known : InRangeOf(request, log[i])}

FileIsGood ==
  Paging =>
    /\ \A n, m \in DOMAIN result : result[n] = result[m] => n = m
    /\ \A x \in DOMAIN rows : InRangeOf(request, log[rows[x]])
    /\ \A x \in 1..(Len(rows) - 1) : log[rows[x]] >= log[rows[x + 1]]
FileHasAll ==
  Heights =>
    \A i \in Wanted :
      \/ i \in InFile(rows)
      \/ log[i] \in split
      \/ AllAbove(rows, log, log[i]) /\ (broken \/ loops = MaxLoop \/ Len(rows) >= ExportLimit)

ExportInv ==
  /\ ExportTypes
  /\ pc = "fetch" =>
       /\ loops = 0 => NothingYet
       /\ loops > 0 /\ Heights => BelowResult
       /\ request.by = "height" /\ (Heights \/ loops = 0) => BelowMaximum
       /\ Heights => \A i \in Wanted : Fetched(i) \/ log[i] < below
  /\ pc \in {"fetch", "write"} /\ Paging => OnceNewestFirst(result, request, log)
  /\ pc = "write" /\ Heights =>
       \A i \in Wanted : Fetched(i) \/ (AllAbove(result, log, log[i]) /\ CutEarly)
  /\ pc = "done" => FileIsGood /\ FileHasAll

LEMMA RangeIsOfRequest ==
  ASSUME NEW h
  PROVE  /\ E!Asked(h) <=> AskedOf(request, h)
         /\ E!InRange(h) <=> InRangeOf(request, h)
BY DEF E!Asked, E!InRange, AskedOf, InRangeOf

LEMMA RequestTypes ==
  ASSUME ExportConstants, NEW q \in E!Request
  PROVE  /\ q.min \in Nat /\ q.max \in Nat /\ q.by \in {"height", "date"}
         /\ q.kind.heights \in BOOLEAN /\ q.kind.order \in {"id", "height"}
         /\ q.kind.several \in BOOLEAN /\ E!FirstBound(q) \in Nat
<1>1. q.min \in 0..MaxHeight /\ q.max \in 1..MaxHeight /\ q.by \in {"height", "date"} /\ q.kind \in E!Kinds
  BY DEF E!Request
<1>2. /\ q.kind.heights \in BOOLEAN /\ q.kind.order \in {"id", "height"}
      /\ q.kind.several \in BOOLEAN
  <2>1. \A k \in E!Kinds : /\ k.heights = TRUE \/ k.heights = FALSE
                           /\ k.order = "id" \/ k.order = "height"
                           /\ k.several = TRUE \/ k.several = FALSE
    BY DEF E!Kinds, E!Executed, E!EvmExecuted, E!CoinTransfer, E!TokenTransfer, E!Erc20Transfer,
       E!NftTransfer
  <2>2. QED
    BY <1>1, <2>1, Zenon
<1>3. q.min \in Nat /\ q.max \in Nat
  BY <1>1 DEF ExportConstants
<1>4. E!FirstBound(q) \in Nat
  BY <1>3 DEF E!FirstBound, E!NoBound
<1>5. QED
  BY <1>1, <1>2, <1>3, <1>4

LEMMA ExportStarts ==
  ASSUME ExportConstants, E!Init
  PROVE  ExportInv
<1>1. /\ height = 0 /\ log = <<>> /\ request \in E!Request /\ pc = "fetch"
      /\ below = E!FirstBound(request) /\ result = <<>> /\ loops = 0 /\ rows = <<>>
      /\ known = 0
  BY DEF E!Init
<1>2. E!FirstBound(request) \in Nat /\ request.max \in Nat
  BY <1>1, RequestTypes
<1>3. ExportTypes
  <2>1. LogTypes
    BY <1>1 DEF LogTypes
  <2>2. 0 < MaxLoop
    BY DEF ExportConstants
  <2>3. QED
    BY <1>1, <1>2, <2>1, <2>2 DEF ExportTypes, ExportSteps
<1>4. OnceNewestFirst(result, request, log)
  BY <1>1 DEF OnceNewestFirst
<1>5. request.by = "height" => BelowMaximum
  BY <1>1, <1>2 DEF BelowMaximum, E!FirstBound, E!NoBound
<1>6. Wanted = {} /\ NothingYet
  BY <1>1 DEF Wanted, NothingYet
<1>7. QED
  BY <1>1, <1>3, <1>4, <1>5, <1>6 DEF ExportInv

\* The indexer goes on: what was fetched stays what it was.
LEMMA OnceGrows ==
  ASSUME NEW s, NEW q, NEW k, NEW l, \A n \in DOMAIN s : l[s[n]] = k[s[n]], OnceNewestFirst(s, q, k)
  PROVE  OnceNewestFirst(s, q, l)
BY DEF OnceNewestFirst

LEMMA IndexKeepsExport ==
  ASSUME ExportConstants, ExportInv, E!IndexBlock
  PROVE  ExportInv'
<1>1. /\ ExportTypes /\ height \in Nat /\ log \in Seq(Nat \ {0}) /\ known \in Nat /\ known <= Len(log)
      /\ \A i, j \in DOMAIN log : i <= j => log[i] <= log[j]
      /\ \A i \in DOMAIN log : log[i] <= height
      /\ result \in Seq(Nat) /\ \A n \in DOMAIN result : result[n] \in DOMAIN log
  BY DEF ExportInv, ExportTypes, LogTypes
<1>2. PICK n \in 0..(MaxRecords - Len(log)) : log' = log \o [i \in 1..n |-> height + 1]
  BY DEF E!IndexBlock
<1>3. /\ pc = "fetch" /\ pc' = pc /\ height' = height + 1 /\ request' = request /\ below' = below
      /\ result' = result /\ loops' = loops /\ rows' = rows /\ known' = known /\ split' = split
      /\ broken' = broken
  BY DEF E!IndexBlock
<1> DEFINE new == [i \in 1..n |-> height + 1]
<1>4. n \in Nat /\ Len(log) \in Nat
  BY <1>1, <1>2 DEF ExportConstants
<1>5. /\ log' \in Seq(Nat \ {0}) /\ Len(log') = Len(log) + n
      /\ \A i \in 1..Len(log) : log'[i] = log[i]
      /\ \A i \in 1..Len(log') : i \notin 1..Len(log) => log'[i] = height + 1
  <2>1. new \in Seq(Nat \ {0}) /\ Len(new) = n /\ \A i \in 1..n : new[i] = height + 1
    BY <1>1, <1>4
  <2>2. log' = log \o new
    BY <1>2
  <2> HIDE DEF new
  <2>3. log' \in Seq(Nat \ {0}) /\ Len(log') = Len(log) + n
    <3>1. log \in Seq(Nat \ {0}) /\ new \in Seq(Nat \ {0}) /\ Len(new) = n
      BY <1>1, <2>1, Zenon
    <3>2. log \o new \in Seq(Nat \ {0}) /\ Len(log \o new) = Len(log) + Len(new)
      <4> DEFINE S == Nat \ {0}
      <4>1. log \in Seq(S) /\ new \in Seq(S)
        BY <3>1
      <4> HIDE DEF S
      <4>2. log \o new \in Seq(S) /\ Len(log \o new) = Len(log) + Len(new)
        BY <4>1, Appended
      <4>3. QED
        BY <4>2 DEF S
    <3>3. QED
      BY <2>2, <3>1, <3>2, Zenon
  <2>4. ASSUME NEW i \in 1..Len(log) PROVE log'[i] = log[i]
    <3>1. Len(new) = n
      BY <2>1, Zenon
    <3>2. i \in 1..(Len(log) + Len(new)) /\ i <= Len(log)
      BY <1>4, <3>1
    <3>3. QED
      BY <1>1, <2>1, <2>2, <3>2
  <2>5. ASSUME NEW i \in 1..Len(log'), i \notin 1..Len(log) PROVE log'[i] = height + 1
    <3>1. i - Len(log) \in 1..n /\ i > Len(log)
      BY <1>4, <2>3, <2>5
    <3>2. log'[i] = new[i - Len(log)]
      BY <1>1, <1>4, <2>1, <2>2, <3>1
    <3>3. QED
      BY <2>1, <3>1, <3>2
  <2>6. QED
    BY <2>3, <2>4, <2>5
<1>6. DOMAIN log = 1..Len(log) /\ DOMAIN log' = 1..Len(log') /\ 1..Len(log) \subseteq 1..Len(log')
  BY <1>1, <1>4, <1>5
<1>7. LogTypes'
  <2>1. ASSUME NEW i \in DOMAIN log', NEW j \in DOMAIN log', i <= j PROVE log'[i] <= log'[j]
    <3>1. CASE j \in 1..Len(log)
      <4>1. i \in 1..Len(log)
        BY <1>4, <1>5, <1>6, <2>1, <3>1
      <4>2. QED
        BY <1>1, <1>5, <1>6, <2>1, <3>1, <4>1
    <3>2. CASE j \notin 1..Len(log)
      <4>1. log'[j] = height + 1
        BY <1>5, <1>6, <3>2
      <4>2. log'[i] = height + 1 \/ (i \in DOMAIN log /\ log'[i] = log[i])
        BY <1>5, <1>6
      <4>3. \A k \in DOMAIN log : log[k] \in Nat
        BY <1>1
      <4>4. QED
        BY <1>1, <4>1, <4>2, <4>3
    <3>3. QED
      BY <3>1, <3>2
  <2>2. ASSUME NEW i \in DOMAIN log' PROVE log'[i] <= height'
    <3>1. log'[i] = height + 1 \/ (i \in DOMAIN log /\ log'[i] = log[i])
      BY <1>5, <1>6
    <3>2. \A k \in DOMAIN log : log[k] \in Nat
      BY <1>1
    <3>3. QED
      BY <1>1, <1>3, <3>1, <3>2
  <2>3. height' \in Nat
    BY <1>1, <1>3
  <2>4. QED
    BY <1>5, <2>1, <2>2, <2>3 DEF LogTypes
<1>8. ExportTypes'
  <2>1. known' <= Len(log')
    BY <1>1, <1>3, <1>4, <1>5
  <2>2. \A x \in DOMAIN result' : result'[x] \in DOMAIN log'
    BY <1>1, <1>3, <1>6
  <2>3. QED
    BY <1>1, <1>3, <1>7, <2>1, <2>2 DEF ExportTypes
<1>9. Wanted' = Wanted /\ \A i \in Wanted : log'[i] = log[i] /\ (Fetched(i)' <=> Fetched(i))
  <2>1. \A i \in 1..known : i \in 1..Len(log) /\ log'[i] = log[i]
    BY <1>1, <1>4, <1>5
  <2>2. QED
    BY <1>3, <2>1 DEF Wanted, Fetched
<1>10. \A x \in DOMAIN result : log'[result[x]] = log[result[x]]
  BY <1>1, <1>5, <1>6
<1>11. BelowResult => BelowResult'
  BY <1>3, <1>10 DEF BelowResult, AllAbove
<1>12. OnceNewestFirst(result, request, log) => OnceNewestFirst(result, request, log')
  BY <1>10, OnceGrows
<1>13. (NothingYet => NothingYet') /\ (BelowMaximum => BelowMaximum')
  BY <1>3 DEF NothingYet, BelowMaximum
<1>14. (Paging' <=> Paging) /\ (Heights' <=> Heights)
  BY <1>3 DEF Paging, Heights
<1>15. QED
  BY <1>3, <1>8, <1>9, <1>11, <1>12, <1>13, <1>14 DEF ExportInv

-----------------------------------------------------------------------------
(* A page of the export                                                    *)

\* d lists the records of P, each once, as a page does: newest first.
Lists(d, P, l) ==
  /\ d \in Seq(P) /\ InFile(d) = P
  /\ \A n, m \in DOMAIN d : d[n] = d[m] => n = m
  /\ \A n, m \in DOMAIN d : n < m => l[d[n]] >= l[d[m]]

\* P has the newest of S: it is cut at height h if it is full.
Newest(P, S, full, h, l) ==
  /\ P \subseteq S
  /\ full \/ P = S
  /\ full => /\ h \in {l[i] : i \in P}
             /\ \A i \in P : h <= l[i]
             /\ \A i \in S \ P : l[i] <= h

LEMMA PageIsListed ==
  ASSUME LogTypes, NEW P \in SUBSET DOMAIN log
  PROVE  IsFiniteSet(P) /\ Lists(E!Descending(P), P, log)
<1>1. /\ log \in Seq(Nat \ {0}) /\ Len(log) \in Nat /\ DOMAIN log = 1..Len(log)
      /\ \A i, j \in DOMAIN log : i <= j => log[i] <= log[j]
      /\ \A i \in DOMAIN log : log[i] \in Nat
  BY DEF LogTypes
<1>2. P \in SUBSET Int /\ IsFiniteSet(P)
  <2>1. IsFiniteSet(1..Len(log)) /\ P \subseteq 1..Len(log)
    BY <1>1, FS_Interval
  <2>2. IsFiniteSet(P)
    BY <2>1, FS_Subset
  <2>3. QED
    BY <2>1, <2>2
<1>3. E!Descending(P) = Ranked(P)
  BY Zenon DEF E!Descending, E!Cardinality, Cardinality, Ranked, GreaterIn
<1> DEFINE d == Ranked(P)
           n == Cardinality(P)
<1>4. /\ n \in Nat /\ d \in [1..n -> P]
      /\ \A x, y \in 1..n : x < y => d[x] > d[y]
      /\ \A i \in P : \E x \in 1..n : d[x] = i
  BY <1>2, RankedDescends
<1> HIDE DEF d, n
<1>5. d \in Seq(P) /\ DOMAIN d = 1..n /\ \A x \in 1..n : d[x] \in P /\ d[x] \in Int
  BY <1>2, <1>4
<1>6. InFile(d) = P
  BY <1>4, <1>5 DEF InFile
<1>7. \A x, y \in 1..n : d[x] = d[y] => x = y
  <2> SUFFICES ASSUME NEW x \in 1..n, NEW y \in 1..n, d[x] = d[y] PROVE x = y
    OBVIOUS
  <2>1. ~(d[x] > d[y]) /\ ~(d[y] > d[x])
    BY <1>5
  <2>2. ~(x < y) /\ ~(y < x)
    BY <1>4, <2>1
  <2>3. QED
    BY <1>4, <2>2
<1>8. \A x, y \in 1..n : x < y => log[d[x]] >= log[d[y]]
  <2> SUFFICES ASSUME NEW x \in 1..n, NEW y \in 1..n, x < y PROVE log[d[x]] >= log[d[y]]
    OBVIOUS
  <2> DEFINE i == d[x]
             j == d[y]
  <2>1. i > j /\ i \in DOMAIN log /\ j \in DOMAIN log /\ i \in Int /\ j \in Int
    BY <1>4, <1>5
  <2> HIDE DEF i, j
  <2>2. log[j] <= log[i] /\ log[i] \in Nat /\ log[j] \in Nat
    BY <1>1, <2>1
  <2>3. QED
    BY <2>2 DEF i, j
<1>9. Lists(d, P, log)
  BY <1>5, <1>6, <1>7, <1>8 DEF Lists
<1>10. QED
  BY <1>2, <1>3, <1>9 DEF d

LEMMA PageIsNewest ==
  ASSUME ExportConstants, ExportTypes, NEW P \in E!Pages(E!Matching)
  PROVE  /\ E!Matching \subseteq DOMAIN log
         /\ Newest(P, E!Matching, E!Full(P), E!LastHeight(P), log)
<1> DEFINE found == E!Matching
<1>1. /\ log \in Seq(Nat \ {0}) /\ Len(log) \in Nat /\ DOMAIN log = 1..Len(log)
      /\ \A i, j \in DOMAIN log : i <= j => log[i] <= log[j]
      /\ \A i \in DOMAIN log : log[i] \in Nat
      /\ LogTypes /\ request \in E!Request
  BY DEF ExportTypes, LogTypes
<1>2. found \subseteq DOMAIN log
  BY DEF E!Matching
<1> HIDE DEF found
<1>3. \/ P = found
      \/ /\ P \subseteq found /\ E!Cardinality(P) = ExportPage
         /\ \A i \in P, j \in found \ P : E!Newer(i, j)
  BY DEF E!Pages, found
<1>4. P \subseteq found /\ P \in SUBSET DOMAIN log /\ IsFiniteSet(P)
  BY <1>1, <1>2, <1>3, PageIsListed
<1>5. E!Cardinality(P) = Cardinality(P) /\ Cardinality(P) \in Nat
  <2>1. E!Cardinality(P) = Cardinality(P)
    BY Zenon DEF E!Cardinality, Cardinality
  <2>2. QED
    BY <1>4, <2>1, FS_CardinalityType
<1>6. E!Full(P) \/ P = found
  BY <1>3, <1>5 DEF E!Full, ExportConstants
<1>7. ASSUME E!Full(P)
      PROVE  /\ E!LastHeight(P) \in {log[i] : i \in P}
             /\ \A i \in P : E!LastHeight(P) <= log[i]
             /\ \A i \in found \ P : log[i] <= E!LastHeight(P)
  <2>1. P # {}
    <3>1. Cardinality(P) # 0
      BY <1>5, <1>7 DEF E!Full, ExportConstants
    <3>2. QED
      BY <3>1, FS_EmptySet
  <2> DEFINE m == Min(P)
  <2>2. E!LastHeight(P) = log[m]
    <3>1. E!Min(P) = Min(P)
      BY Zenon DEF E!Min, Min
    <3>2. QED
      BY <3>1 DEF E!LastHeight
  <2>3. m \in P /\ \A i \in P : m <= i
    <3>1. P \in SUBSET Int
      BY <1>1, <1>4
    <3>2. QED
      BY <1>4, <2>1, <3>1, FiniteSetHasLeast
  <2> HIDE DEF m
  <2>4. \A i \in P : log[m] <= log[i]
    BY <1>1, <1>4, <2>3
  <2>5. ASSUME NEW j \in found \ P PROVE log[j] <= log[m]
    <3>1. E!Newer(m, j)
      BY <1>3, <2>3
    <3>2. m \in 1..Len(log) /\ j \in 1..Len(log) /\ log[m] \in Nat /\ log[j] \in Nat
      BY <1>1, <1>2, <1>4, <2>3
    <3>3. m > j \/ log[m] >= log[j]
      BY <3>1 DEF E!Newer
    <3>4. CASE m > j
      <4>1. j <= m
        BY <1>1, <3>2, <3>4
      <4>2. QED
        BY <1>1, <3>2, <4>1
    <3>5. QED
      BY <3>2, <3>3, <3>4
  <2>6. QED
    BY <2>2, <2>3, <2>4, <2>5
<1>8. QED
  BY <1>2, <1>4, <1>6, <1>7 DEF Newest, found

\* What a page adds to a file that has each record once: the records of the
\* page, if they are all lower than what is there.
LEMMA OnceAppended ==
  ASSUME NEW S, NEW s \in Seq(S), NEW d \in Seq(S), NEW q, NEW l,
         OnceNewestFirst(s, q, l), OnceNewestFirst(d, q, l),
         \A x \in S : l[x] \in Nat,
         \A n \in DOMAIN s, m \in DOMAIN d : l[d[m]] < l[s[n]]
  PROVE  OnceNewestFirst(s \o d, q, l)
<1> DEFINE f == s \o d
           k == Len(s)
           Part1(n) == n \in DOMAIN s /\ f[n] = s[n]
           Part2(n) == n - k \in DOMAIN d /\ f[n] = d[n - k]
<1>1. /\ k \in Nat /\ DOMAIN s = 1..k /\ DOMAIN d = 1..Len(d) /\ Len(d) \in Nat
      /\ DOMAIN f = 1..(k + Len(d))
      /\ \A n \in 1..k : f[n] = s[n]
      /\ \A n \in 1..(k + Len(d)) : n \notin 1..k => n - k \in 1..Len(d) /\ f[n] = d[n - k]
  BY Appended
<1>2. /\ \A n \in DOMAIN s : s[n] \in S /\ l[s[n]] \in Nat
      /\ \A n \in DOMAIN d : d[n] \in S /\ l[d[n]] \in Nat
  OBVIOUS
<1> HIDE DEF f, k
<1>3. \A n \in DOMAIN f : Part1(n) \/ (n \notin DOMAIN s /\ Part2(n))
  BY <1>1
<1>4. ASSUME NEW n \in DOMAIN f PROVE InRangeOf(q, l[f[n]])
  BY <1>3 DEF OnceNewestFirst
<1>5. ASSUME NEW n \in DOMAIN f, NEW m \in DOMAIN f, f[n] = f[m] PROVE n = m
  <2>1. CASE Part1(n) /\ Part1(m)
    BY <1>5, <2>1 DEF OnceNewestFirst
  <2>2. CASE Part2(n) /\ Part2(m)
    <3>1. \A x, y \in DOMAIN d : d[x] = d[y] => x = y
      BY DEF OnceNewestFirst
    <3>2. n - k = m - k
      BY <1>5, <2>2, <3>1
    <3>3. QED
      BY <1>1, <3>2
  <2>3. CASE Part1(n) /\ Part2(m)
    <3>1. l[f[m]] < l[f[n]] /\ l[f[n]] \in Nat
      BY <1>2, <2>3
    <3>2. QED
      BY <1>5, <3>1
  <2>4. CASE Part2(n) /\ Part1(m)
    <3>1. l[f[n]] < l[f[m]] /\ l[f[n]] \in Nat
      BY <1>2, <2>4
    <3>2. QED
      BY <1>5, <3>1
  <2>5. QED
    BY <1>3, <2>1, <2>2, <2>3, <2>4
<1>6. ASSUME NEW n \in DOMAIN f, NEW m \in DOMAIN f, n < m PROVE l[f[n]] >= l[f[m]]
  <2>1. CASE Part1(n) /\ Part1(m)
    BY <1>6, <2>1 DEF OnceNewestFirst
  <2>2. CASE Part2(n) /\ Part2(m)
    <3>1. n - k < m - k
      BY <1>1, <1>6
    <3>2. QED
      BY <2>2, <3>1 DEF OnceNewestFirst
  <2>3. CASE Part1(n) /\ Part2(m)
    <3>1. l[f[m]] < l[f[n]] /\ l[f[n]] \in Nat /\ l[f[m]] \in Nat
      BY <1>2, <2>3
    <3>2. QED
      BY <3>1
  <2>4. CASE n \notin DOMAIN s /\ Part1(m)
    BY <1>1, <1>6, <2>4
  <2>5. QED
    BY <1>3, <2>1, <2>2, <2>3, <2>4
<1>7. OnceNewestFirst(f, q, l)
  BY <1>4, <1>5, <1>6 DEF OnceNewestFirst
<1>8. QED
  BY <1>7 DEF f

LEMMA FetchKeepsExport ==
  ASSUME ExportConstants, ExportInv, E!FetchPage
  PROVE  ExportInv'
<1> DEFINE found == E!Matching
<1>1. PICK P \in E!Pages(found) :
        /\ result' = result \o E!Descending(P)
        /\ below' = IF E!Full(P) THEN E!NextBound(P) ELSE below
        /\ split' = IF E!Full(P) THEN split \cup {E!LastHeight(P)} ELSE split
        /\ pc' = IF E!Loop(P) THEN "fetch" ELSE "write"
  BY DEF E!FetchPage, E!Goto
<1>2. /\ pc = "fetch" /\ loops' = loops + 1 /\ known' = IF loops = 0 THEN Len(log) ELSE known
      /\ height' = height /\ log' = log /\ request' = request /\ rows' = rows /\ broken' = broken
  BY DEF E!FetchPage
<1> DEFINE d == E!Descending(P)
           h == E!LastHeight(P)
           full == E!Full(P)
<1>3. found \subseteq DOMAIN log /\ Newest(P, found, full, h, log)
  BY PageIsNewest DEF ExportInv
<1>4. P \subseteq found /\ P \in SUBSET DOMAIN log
  BY <1>3 DEF Newest
<1>5. IsFiniteSet(P) /\ Lists(d, P, log)
  BY <1>4, PageIsListed DEF ExportInv, ExportTypes
<1>6. /\ ExportTypes /\ LogTypes /\ request \in E!Request /\ result \in Seq(Nat) /\ below \in Nat
      /\ \A n \in DOMAIN result : result[n] \in DOMAIN log
      /\ loops \in Nat /\ loops < MaxLoop /\ known \in Nat /\ known <= Len(log) /\ rows \in Seq(Nat)
      /\ Len(log) \in Nat /\ DOMAIN log = 1..Len(log) /\ \A i \in DOMAIN log : log[i] \in Nat \ {0}
  BY <1>2 DEF ExportInv, ExportTypes, LogTypes
<1>7. /\ request.max \in Nat /\ request.by \in {"height", "date"} /\ Heights \in BOOLEAN
  BY <1>6, RequestTypes DEF Heights
<1>8. \A i : i \in found <=> /\ i \in DOMAIN log /\ AskedOf(request, log[i])
                             /\ below # E!NoBound => log[i] < below
  <2>1. \A i \in DOMAIN log : E!Asked(log[i]) <=> AskedOf(request, log[i])
    BY RangeIsOfRequest
  <2>2. QED
    BY <2>1 DEF E!Matching
<1>9. below' = IF full THEN (IF Heights THEN h ELSE E!NoBound) ELSE below
  BY <1>1 DEF E!NextBound, Heights
<1>10. pc' = "fetch" => full /\ loops' < MaxLoop
  BY <1>1 DEF E!Loop
<1>11. pc' # "fetch" => pc' = "write" /\ (full => Len(result') >= ExportLimit \/ loops' >= MaxLoop)
  <2>1. Len(result') \in Nat
    <3>1. d \in Seq(Nat)
      BY <1>4, <1>5, <1>6 DEF Lists
    <3> HIDE DEF d
    <3>2. Len(result \o d) \in Nat
      BY <1>6, <3>1, Appended
    <3>3. QED
      BY <1>1, <3>2 DEF d
  <2>2. pc' # "fetch" => pc' = "write" /\ ~E!Loop(P)
    BY <1>1
  <2>3. QED
    BY <1>2, <1>6, <2>1, <2>2 DEF E!Loop, ExportConstants
<1>12. result' = result \o d /\ split' = IF full THEN split \cup {h} ELSE split
  BY <1>1
<1> HIDE DEF found, d, h, full
<1>13. /\ d \in Seq(Nat) /\ InFile(d) = P /\ DOMAIN d = 1..Len(d)
       /\ \A n \in DOMAIN d : d[n] \in P /\ d[n] \in DOMAIN log
  <2>1. d \in Seq(P) /\ InFile(d) = P
    BY <1>5 DEF Lists
  <2>2. QED
    BY <1>4, <1>6, <2>1
<1>14. /\ result' \in Seq(Nat) /\ Len(result) \in Nat
       /\ DOMAIN result \subseteq DOMAIN result'
       /\ \A n \in DOMAIN result : result'[n] = result[n]
       /\ \A n \in DOMAIN result' : \/ n \in DOMAIN result /\ result'[n] = result[n]
                                    \/ result'[n] \in P
       /\ \A i \in P : \E n \in DOMAIN result' : result'[n] = i
  <2>1. /\ result' \in Seq(Nat) /\ Len(result) \in Nat /\ Len(d) \in Nat
        /\ DOMAIN result = 1..Len(result) /\ DOMAIN result' = 1..(Len(result) + Len(d))
        /\ \A n \in 1..Len(result) : result'[n] = result[n]
        /\ \A n \in 1..(Len(result) + Len(d)) :
             n \notin 1..Len(result) =>
               n - Len(result) \in 1..Len(d) /\ result'[n] = d[n - Len(result)]
    BY <1>6, <1>12, <1>13, Appended
  <2>2. ASSUME NEW i \in P PROVE \E n \in DOMAIN result' : result'[n] = i
    <3>1. PICK x \in 1..Len(d) : d[x] = i
      BY <1>13 DEF InFile
    <3> DEFINE y == Len(result) + x
    <3>2. y \in 1..(Len(result) + Len(d)) /\ y \notin 1..Len(result) /\ y - Len(result) = x
      BY <2>1
    <3> HIDE DEF y
    <3>3. QED
      BY <2>1, <3>1, <3>2
  <2>3. DOMAIN result \subseteq DOMAIN result'
    BY <2>1
  <2>4. \A n \in DOMAIN result : result'[n] = result[n]
    BY <2>1
  <2>5. ASSUME NEW n \in DOMAIN result'
        PROVE  (n \in DOMAIN result /\ result'[n] = result[n]) \/ result'[n] \in P
    BY <1>13, <2>1
  <2>6. QED
    BY <2>1, <2>2, <2>3, <2>4, <2>5
<1>15. ExportTypes'
  <2>1. LogTypes'
    BY <1>2, <1>6 DEF LogTypes
  <2>2. below' \in Nat
    <3>1. full => h \in Nat
      BY <1>3, <1>4, <1>6 DEF Newest
    <3>2. QED
      BY <1>6, <1>9, <3>1 DEF E!NoBound
  <2>3. \A n \in DOMAIN result' : result'[n] \in DOMAIN log'
    BY <1>2, <1>4, <1>6, <1>14
  <2>4. known' \in Nat /\ known' <= Len(log') /\ loops' \in Nat
    BY <1>2, <1>6
  <2>5. pc' \in ExportSteps /\ (pc' = "fetch" => loops' < MaxLoop)
    BY <1>10, <1>11 DEF ExportSteps
  <2>6. QED
    BY <1>2, <1>6, <1>14, <2>1, <2>2, <2>3, <2>4, <2>5 DEF ExportTypes
<1>16. (Heights' <=> Heights) /\ (Paging' => Paging /\ (loops = 0 \/ Heights))
  BY <1>2, <1>6 DEF Heights, Paging
<1>17. loops = 0 => result = <<>> /\ known = 0 /\ below = E!FirstBound(request)
  BY <1>2 DEF ExportInv, NothingYet
<1>18. loops # 0 /\ Heights => below # E!NoBound /\ AllAbove(result, log, below)
  BY <1>2, <1>6 DEF ExportInv, BelowResult
<1>19. \A i \in P : log[i] \in Nat /\ AskedOf(request, log[i]) /\ (below # E!NoBound => log[i] < below)
  BY <1>4, <1>6, <1>8
<1>20. loops = 0 \/ Heights => \A n \in DOMAIN result, i \in P : log[i] < log[result[n]]
  <2>1. CASE loops = 0
    BY <1>17, <2>1
  <2>2. CASE loops # 0 /\ Heights
    <3>1. \A n \in DOMAIN result : below <= log[result[n]] /\ log[result[n]] \in Nat
      BY <1>6, <1>18, <2>2 DEF AllAbove
    <3>2. \A i \in P : log[i] < below /\ log[i] \in Nat
      BY <1>18, <1>19, <2>2
    <3>3. QED
      BY <1>6, <3>1, <3>2
  <2>3. QED
    BY <2>1, <2>2
<1>21. Paging' => OnceNewestFirst(result', request, log)
  <2>1. SUFFICES ASSUME loops = 0 \/ Heights, Paging PROVE OnceNewestFirst(result', request, log)
    BY <1>16
  <2>2. OnceNewestFirst(result, request, log)
    BY <1>2, <2>1 DEF ExportInv
  <2>3. \A i \in P : request.by = "height" => log[i] <= request.max
    <3>1. request.by = "height" => below # E!NoBound /\ below <= request.max + 1
      BY <1>2, <2>1 DEF ExportInv, BelowMaximum
    <3>2. QED
      BY <1>6, <1>7, <1>19, <3>1
  <2>4. OnceNewestFirst(d, request, log)
    BY <1>5, <1>13, <1>19, <2>3 DEF OnceNewestFirst, Lists, InRangeOf
  <2> DEFINE Logged == DOMAIN log
  <2>5. result \in Seq(Logged) /\ d \in Seq(Logged)
    <3>1. /\ result \in Seq(Nat) /\ \A n \in DOMAIN result : result[n] \in Logged
          /\ d \in Seq(Nat) /\ \A n \in DOMAIN d : d[n] \in Logged
      BY <1>6, <1>13
    <3> HIDE DEF Logged
    <3>2. QED
      BY <3>1, SeqOfElements
  <2>6. /\ \A x \in Logged : log[x] \in Nat
        /\ \A n \in DOMAIN result, m \in DOMAIN d : log[d[m]] < log[result[n]]
    BY <1>6, <1>13, <1>20, <2>1
  <2> HIDE DEF Logged
  <2>7. OnceNewestFirst(result \o d, request, log)
    BY <2>2, <2>4, <2>5, <2>6, OnceAppended
  <2>8. QED
    BY <1>12, <2>7
<1>22. \A i : Fetched(i) => Fetched(i)'
  BY <1>2, <1>12, <1>14 DEF Fetched, InFile
<1>23. \A i \in P : Fetched(i)'
  BY <1>14 DEF Fetched, InFile
<1>24. Heights => \A i \in Wanted' : Fetched(i)' \/ (full /\ i \in found /\ log[i] < h)
  <2> SUFFICES ASSUME Heights, NEW i \in Wanted'
               PROVE  Fetched(i)' \/ (full /\ i \in found /\ log[i] < h)
    OBVIOUS
  <2>1. i \in 1..known' /\ InRangeOf(request, log[i])
    BY <1>2 DEF Wanted
  <2>2. i \in DOMAIN log /\ log[i] \in Nat /\ AskedOf(request, log[i])
    BY <1>2, <1>6, <2>1 DEF InRangeOf
  <2>3. Fetched(i)' \/ i \in found
    <3>1. CASE loops = 0
      <4>1. below # E!NoBound => request.by = "height" /\ below = request.max + 1
        BY <1>17, <3>1 DEF E!FirstBound
      <4>2. below # E!NoBound => log[i] < below
        BY <1>7, <2>1, <2>2, <4>1 DEF InRangeOf
      <4>3. QED
        BY <1>8, <2>2, <4>2
    <3>2. CASE loops # 0
      <4>1. i \in Wanted
        BY <1>2, <2>1, <3>2 DEF Wanted
      <4>2. Fetched(i) \/ log[i] < below
        BY <1>2, <4>1 DEF ExportInv
      <4>3. QED
        BY <1>8, <1>22, <2>2, <4>2
    <3>3. QED
      BY <3>1, <3>2
  <2>4. CASE i \in found /\ i \notin P
    <3>1. full /\ h \in Nat /\ log[i] <= h
      <4>1. full /\ log[i] <= h /\ h \in {log[j] : j \in P}
        BY <1>3, <2>4 DEF Newest
      <4>2. QED
        BY <1>19, <4>1
    <3>2. log[i] = h => Fetched(i)'
      BY <1>2, <1>12, <3>1 DEF Fetched
    <3>3. QED
      BY <2>2, <2>4, <3>1, <3>2
  <2>5. QED
    BY <1>23, <2>3, <2>4
<1>25. full /\ Heights => AllAbove(result', log, h) /\ h # E!NoBound /\ h \in Nat /\ (below # E!NoBound => h < below)
  <2> SUFFICES ASSUME full, Heights
               PROVE  AllAbove(result', log, h) /\ h # E!NoBound /\ h \in Nat
                        /\ (below # E!NoBound => h < below)
    OBVIOUS
  <2>1. PICK j \in P : h = log[j]
    BY <1>3 DEF Newest
  <2>2. h \in Nat /\ h # 0 /\ (below # E!NoBound => h < below)
    BY <1>4, <1>6, <1>19, <2>1
  <2>3. \A i \in P : h <= log[i]
    BY <1>3 DEF Newest
  <2>4. \A n \in DOMAIN result : h <= log[result[n]]
    <3> TAKE n \in DOMAIN result
    <3>1. log[j] < log[result[n]] /\ log[result[n]] \in Nat
      BY <1>6, <1>20
    <3>2. QED
      BY <2>1, <2>2, <3>1
  <2>5. AllAbove(result', log, h)
    BY <1>14, <2>3, <2>4 DEF AllAbove
  <2>6. QED
    BY <2>2, <2>5 DEF E!NoBound
<1>26. ASSUME pc' = "fetch"
       PROVE  /\ loops' = 0 => NothingYet'
              /\ loops' > 0 /\ Heights' => BelowResult'
              /\ request'.by = "height" /\ (Heights' \/ loops' = 0) => BelowMaximum'
              /\ Heights' => \A i \in Wanted' : Fetched(i)' \/ log'[i] < below'
  <2>1. full /\ loops' # 0 /\ (Heights => below' = h)
    BY <1>2, <1>6, <1>9, <1>10, <1>26
  <2>2. Heights => BelowResult'
    BY <1>2, <1>25, <2>1 DEF BelowResult
  <2>3. request.by = "height" /\ Heights => BelowMaximum'
    <3>1. request.by = "height" /\ Heights => below # E!NoBound /\ below <= request.max + 1
      BY <1>2 DEF ExportInv, BelowMaximum
    <3>2. QED
      BY <1>2, <1>6, <1>7, <1>25, <2>1, <3>1 DEF BelowMaximum
  <2>4. Heights => \A i \in Wanted' : Fetched(i)' \/ log'[i] < below'
    BY <1>2, <1>24, <2>1
  <2>5. QED
    BY <1>2, <1>16, <2>1, <2>2, <2>3, <2>4
<1>27. ASSUME pc' = "write", Heights, NEW i \in Wanted'
       PROVE  Fetched(i)' \/ (AllAbove(result', log, log[i]) /\ CutEarly')
  <2>1. SUFFICES ASSUME full, i \in found, log[i] < h PROVE AllAbove(result', log, log[i]) /\ CutEarly'
    BY <1>24, <1>27
  <2>2. \A n \in DOMAIN result' : h <= log[result'[n]] /\ result'[n] \in DOMAIN log
    BY <1>4, <1>6, <1>14, <1>25, <1>27, <2>1 DEF AllAbove
  <2>3. AllAbove(result', log, log[i])
    <3> SUFFICES ASSUME NEW n \in DOMAIN result' PROVE log[i] <= log[result'[n]]
      BY DEF AllAbove
    <3>1. h <= log[result'[n]] /\ log[result'[n]] \in Nat
      BY <1>6, <2>2
    <3>2. i \in DOMAIN log /\ log[i] \in Nat /\ h \in Nat
      BY <1>6, <1>8, <1>25, <1>27, <2>1
    <3>3. QED
      BY <2>1, <3>1, <3>2
  <2>4. CutEarly'
    <3>1. loops' >= MaxLoop => loops' = MaxLoop
      BY <1>2, <1>6 DEF ExportConstants
    <3>2. QED
      BY <1>2, <1>11, <1>27, <2>1, <3>1 DEF CutEarly
  <2>5. QED
    BY <2>3, <2>4
<1>28. pc' \in {"fetch", "write"}
  BY <1>10, <1>11
<1>29. QED
  BY <1>2, <1>15, <1>16, <1>21, <1>26, <1>27, <1>28 DEF ExportInv

LEMMA MissKeepsExport ==
  ASSUME ExportConstants, ExportInv, E!MissPage
  PROVE  ExportInv'
<1>1. /\ pc = "fetch" /\ pc' = "write" /\ broken' = TRUE /\ height' = height /\ log' = log
      /\ request' = request /\ below' = below /\ result' = result /\ loops' = loops /\ rows' = rows
      /\ split' = split /\ known' = IF loops = 0 THEN Len(log) ELSE known
  BY DEF E!MissPage, E!Goto
<1>2. /\ ExportTypes /\ LogTypes /\ below \in Nat /\ loops \in Nat /\ known \in Nat
      /\ Len(log) \in Nat /\ DOMAIN log = 1..Len(log) /\ \A i \in DOMAIN log : log[i] \in Nat
      /\ \A n \in DOMAIN result : result[n] \in DOMAIN log
  BY DEF ExportInv, ExportTypes, LogTypes
<1>3. ExportTypes'
  <2>1. LogTypes'
    BY <1>1, <1>2 DEF LogTypes
  <2>2. known' \in Nat /\ known' <= Len(log')
    BY <1>1, <1>2 DEF ExportTypes
  <2>3. QED
    BY <1>1, <1>2, <2>1, <2>2 DEF ExportTypes, ExportSteps
<1>4. (Heights' <=> Heights) /\ (Paging' <=> Paging)
  BY <1>1 DEF Heights, Paging
<1>5. Paging => OnceNewestFirst(result, request, log)
  BY <1>1 DEF ExportInv
<1>6. ASSUME Heights, NEW i \in Wanted'
      PROVE  Fetched(i)' \/ (AllAbove(result', log, log[i]) /\ CutEarly')
  <2>1. CutEarly'
    BY <1>1 DEF CutEarly
  <2>2. CASE loops = 0
    <3>1. result = << >>
      BY <1>1, <2>2 DEF ExportInv, NothingYet
    <3>2. AllAbove(result', log, log[i])
      BY <1>1, <3>1 DEF AllAbove
    <3>3. QED
      BY <2>1, <3>2
  <2>3. CASE loops # 0
    <3>1. i \in Wanted /\ i \in DOMAIN log
      BY <1>1, <1>2, <1>6, <2>3 DEF Wanted, ExportTypes
    <3>2. (Fetched(i) \/ log[i] < below) /\ AllAbove(result, log, below)
      BY <1>1, <1>2, <1>6, <2>3, <3>1 DEF ExportInv, BelowResult
    <3>3. Fetched(i) => Fetched(i)'
      BY <1>1 DEF Fetched
    <3>4. log[i] < below => AllAbove(result', log, log[i])
      <4> SUFFICES ASSUME log[i] < below, NEW n \in DOMAIN result PROVE log[i] <= log[result[n]]
        BY <1>1 DEF AllAbove
      <4>1. below <= log[result[n]] /\ log[result[n]] \in Nat /\ log[i] \in Nat
        BY <1>2, <3>1, <3>2 DEF AllAbove
      <4>2. QED
        BY <1>2, <4>1
    <3>5. QED
      BY <2>1, <3>2, <3>3, <3>4
  <2>4. QED
    BY <2>2, <2>3
<1>7. QED
  BY <1>1, <1>3, <1>4, <1>5, <1>6 DEF ExportInv

LEMMA FailKeepsExport ==
  ASSUME ExportInv, E!Fail
  PROVE  ExportInv'
<1>1. /\ pc' = "failed" /\ height' = height /\ log' = log /\ request' = request /\ below' = below
      /\ result' = result /\ loops' = loops /\ rows' = rows /\ known' = known
  BY DEF E!Fail, E!Goto
<1>2. ExportTypes'
  BY <1>1 DEF ExportInv, ExportTypes, LogTypes, ExportSteps
<1>3. QED
  BY <1>1, <1>2 DEF ExportInv

\* The rows of a file repeat its records in their order, p tells which is
\* where.  A file that is cut has the first of them, and is full.
RowsOf(s, f, p, limit) ==
  /\ f \in Seq(Nat) /\ Len(f) \in Nat /\ DOMAIN f = 1..Len(f)
  /\ \A x \in DOMAIN f : p[x] \in DOMAIN s /\ f[x] = s[p[x]]
  /\ \A x, y \in DOMAIN f : x <= y => p[x] <= p[y]
  /\ \A n \in DOMAIN s : \/ \E x \in DOMAIN f : p[x] = n
                         \/ Len(f) >= limit /\ \A x \in DOMAIN f : p[x] <= n
  /\ Len(f) >= Len(s) \/ Len(f) >= limit

LEMMA RowsAreSpread ==
  ASSUME ExportConstants, request \in E!Request, result \in Seq(Nat),
         NEW transfers \in [DOMAIN result -> E!Several]
  PROVE  \E p : RowsOf(result, E!Truncated(E!AllRows(transfers)), p, ExportLimit)
<1> DEFINE F == FlattenSeq(Copies(result, transfers))
           f == E!Truncated(E!AllRows(transfers))
<1>1. E!AllRows(transfers) = F
  <2> DEFINE c == Copies(result, transfers)
  <2>1. E!AllRows(transfers) = E!FlattenSeq(c)
    BY DEF E!AllRows, Copies
  <2>2. E!FlattenSeq(c) = FlattenSeq(c)
    <3> HIDE DEF c
    <3>1. QED
      BY Zenon DEF E!FlattenSeq, FlattenSeq
  <2>3. QED
    BY <2>1, <2>2
<1>2. F \in Seq(Nat) /\ \E p : Spread(result, Len(result), F, p)
  <2>1. \A n \in DOMAIN result : transfers[n] \in Nat \ {0}
    <3>1. E!Several \subseteq Nat \ {0}
      BY DEF E!Several
    <3>2. QED
      BY <3>1
  <2>2. QED
    BY <2>1, CopiesSpread
<1>3. f = F \/ (f = SubSeq(F, 1, ExportLimit) /\ Len(F) > ExportLimit)
  BY <1>1 DEF E!Truncated
<1> HIDE DEF F, f
<1>4. PICK p : Spread(result, Len(result), F, p)
  BY <1>2
<1>5. /\ DOMAIN F = 1..Len(F) /\ Len(F) \in Nat /\ Len(F) >= Len(result)
      /\ \A x \in 1..Len(F) : p[x] \in DOMAIN result /\ F[x] = result[p[x]]
      /\ \A x, y \in 1..Len(F) : x <= y => p[x] <= p[y]
      /\ \A n \in DOMAIN result : \E x \in 1..Len(F) : p[x] = n
  <2>1. DOMAIN result = 1..Len(result)
    OBVIOUS
  <2>2. QED
    BY <1>4, <2>1 DEF Spread
<1>6. CASE f = F
  <2>1. RowsOf(result, f, p, ExportLimit)
    BY <1>2, <1>5, <1>6 DEF RowsOf
  <2>2. QED
    BY <2>1 DEF f
<1>7. CASE f = SubSeq(F, 1, ExportLimit) /\ Len(F) > ExportLimit
  <2>1. ExportLimit \in Nat
    BY DEF ExportConstants
  <2>2. /\ f \in Seq(Nat) /\ Len(f) = ExportLimit /\ DOMAIN f = 1..ExportLimit
        /\ \A x \in 1..ExportLimit : f[x] = F[x]
    <3>1. ExportLimit <= Len(F)
      BY <1>5, <1>7, <2>1
    <3>2. QED
      BY <1>2, <1>7, <2>1, <3>1, Prefix
  <2>3. \A x \in 1..ExportLimit : x \in 1..Len(F)
    BY <1>5, <1>7, <2>1
  <2>4. ASSUME NEW n \in DOMAIN result
        PROVE  (\E x \in DOMAIN f : p[x] = n) \/ \A x \in DOMAIN f : p[x] <= n
    <3>1. PICK y \in 1..Len(F) : p[y] = n
      BY <1>5
    <3>2. CASE y \in 1..ExportLimit
      BY <2>2, <3>1, <3>2
    <3>3. CASE y \notin 1..ExportLimit
      <4>1. \A x \in 1..ExportLimit : x <= y
        BY <1>5, <2>1, <3>3
      <4>2. QED
        BY <1>5, <2>2, <2>3, <3>1, <4>1
    <3>4. QED
      BY <3>2, <3>3
  <2>5. Len(f) >= ExportLimit /\ Len(f) \in Nat /\ DOMAIN f = 1..Len(f)
    BY <2>1, <2>2
  <2>6. \A x \in DOMAIN f : p[x] \in DOMAIN result /\ f[x] = result[p[x]]
    BY <1>5, <2>2, <2>3
  <2>7. \A x, y \in DOMAIN f : x <= y => p[x] <= p[y]
    BY <1>5, <2>2, <2>3
  <2>8. RowsOf(result, f, p, ExportLimit)
    BY <2>2, <2>4, <2>5, <2>6, <2>7 DEF RowsOf
  <2>9. QED
    BY <2>8 DEF f
<1>8. QED
  BY <1>3, <1>6, <1>7

LEMMA WriteKeepsExport ==
  ASSUME ExportConstants, ExportInv, E!WriteFile
  PROVE  ExportInv'
<1>1. PICK transfers \in [DOMAIN result -> E!Several] : rows' = E!Truncated(E!AllRows(transfers))
  BY DEF E!WriteFile
<1>2. /\ pc = "write" /\ pc' = "done" /\ height' = height /\ log' = log /\ request' = request
      /\ below' = below /\ result' = result /\ loops' = loops /\ known' = known /\ split' = split
      /\ broken' = broken
  BY DEF E!WriteFile, E!Goto
<1>3. /\ ExportTypes /\ LogTypes /\ request \in E!Request /\ result \in Seq(Nat)
      /\ DOMAIN log = 1..Len(log) /\ known \in Nat /\ known <= Len(log) /\ Len(log) \in Nat
      /\ \A i \in DOMAIN log : log[i] \in Nat
      /\ DOMAIN result = 1..Len(result) /\ Len(result) \in Nat
      /\ \A n \in DOMAIN result : result[n] \in DOMAIN log
  BY DEF ExportInv, ExportTypes, LogTypes
<1>4. PICK p : RowsOf(result, rows', p, ExportLimit)
  BY <1>1, <1>3, RowsAreSpread
<1> DEFINE f == rows'
<1>5. /\ f \in Seq(Nat) /\ Len(f) \in Nat /\ DOMAIN f = 1..Len(f)
      /\ \A x \in DOMAIN f : p[x] \in DOMAIN result /\ f[x] = result[p[x]]
      /\ \A x, y \in DOMAIN f : x <= y => p[x] <= p[y]
      /\ \A n \in DOMAIN result : \/ \E x \in DOMAIN f : p[x] = n
                                  \/ Len(f) >= ExportLimit /\ \A x \in DOMAIN f : p[x] <= n
      /\ Len(f) >= Len(result) \/ Len(f) >= ExportLimit
  BY <1>4 DEF RowsOf
<1> HIDE DEF f
<1>6. ExportTypes'
  <2>1. LogTypes'
    BY <1>2, <1>3 DEF LogTypes
  <2>2. rows' \in Seq(Nat)
    BY <1>5 DEF f
  <2>3. QED
    BY <1>2, <1>3, <2>1, <2>2 DEF ExportTypes, ExportSteps
<1>7. (Heights' <=> Heights) /\ (Paging' <=> Paging)
  BY <1>2 DEF Heights, Paging
<1>8. ASSUME Paging
      PROVE  /\ \A n, m \in DOMAIN result : result[n] = result[m] => n = m
             /\ \A x \in DOMAIN f : InRangeOf(request, log[f[x]])
             /\ \A x \in 1..(Len(f) - 1) : log[f[x]] >= log[f[x + 1]]
             /\ \A n, m \in DOMAIN result : n <= m => log[result[n]] >= log[result[m]]
  <2>1. OnceNewestFirst(result, request, log)
    BY <1>2, <1>8 DEF ExportInv
  <2>2. /\ \A n, m \in DOMAIN result : result[n] = result[m] => n = m
        /\ \A x \in DOMAIN f : InRangeOf(request, log[f[x]])
    BY <1>5, <2>1 DEF OnceNewestFirst
  <2>3. ASSUME NEW n \in DOMAIN result, NEW m \in DOMAIN result, n <= m
        PROVE  log[result[n]] >= log[result[m]]
    <3>1. log[result[n]] \in Nat
      BY <1>3
    <3>2. n = m \/ n < m
      BY <1>3, <2>3
    <3>3. QED
      BY <2>1, <3>1, <3>2 DEF OnceNewestFirst
  <2>4. ASSUME NEW x \in 1..(Len(f) - 1) PROVE log[f[x]] >= log[f[x + 1]]
    <3>1. x \in DOMAIN f /\ x + 1 \in DOMAIN f /\ x <= x + 1
      BY <1>5
    <3>2. /\ p[x] \in DOMAIN result /\ p[x + 1] \in DOMAIN result /\ p[x] <= p[x + 1]
          /\ f[x] = result[p[x]] /\ f[x + 1] = result[p[x + 1]]
      BY <1>5, <3>1
    <3>3. QED
      BY <2>3, <3>2
  <2>5. QED
    BY <2>2, <2>3, <2>4
<1>9. FileIsGood'
  BY <1>2, <1>7, <1>8 DEF FileIsGood, f
<1>10. ASSUME Heights, NEW i \in Wanted
       PROVE  \/ i \in InFile(f) \/ log[i] \in split
              \/ AllAbove(f, log, log[i]) /\ (broken \/ loops = MaxLoop \/ Len(f) >= ExportLimit)
  <2>1. Fetched(i) \/ (AllAbove(result, log, log[i]) /\ CutEarly)
    BY <1>2, <1>10 DEF ExportInv
  <2>2. CASE i \in InFile(result)
    <3>1. PICK n \in DOMAIN result : result[n] = i
      BY <2>2 DEF InFile
    <3>2. CASE \E x \in DOMAIN f : p[x] = n
      BY <1>5, <3>1, <3>2 DEF InFile
    <3>3. CASE Len(f) >= ExportLimit /\ \A x \in DOMAIN f : p[x] <= n
      <4>1. ASSUME NEW x \in DOMAIN f PROVE log[i] <= log[f[x]]
        <5>1. log[result[p[x]]] >= log[result[n]] /\ f[x] = result[p[x]] /\ p[x] \in DOMAIN result
          <6>1. Paging
            BY <1>10 DEF Paging
          <6>2. QED
            BY <1>5, <1>8, <3>3, <6>1
        <5>2. log[result[p[x]]] \in Nat /\ log[result[n]] \in Nat
          BY <1>3, <5>1
        <5>3. QED
          BY <3>1, <5>1, <5>2
      <4>2. QED
        BY <3>3, <4>1 DEF AllAbove
    <3>4. QED
      BY <1>5, <3>2, <3>3
  <2>3. CASE AllAbove(result, log, log[i]) /\ CutEarly
    <3>1. AllAbove(f, log, log[i])
      BY <1>5, <2>3 DEF AllAbove
    <3>2. ASSUME Len(result) >= ExportLimit PROVE Len(f) >= ExportLimit
      BY <1>3, <1>5, <3>2 DEF ExportConstants
    <3>3. QED
      BY <2>3, <3>1, <3>2 DEF CutEarly
  <2>4. QED
    BY <2>1, <2>2, <2>3 DEF Fetched
<1>11. FileHasAll'
  <2>1. Wanted' = Wanted
    BY <1>2 DEF Wanted
  <2>2. QED
    BY <1>2, <1>7, <1>10, <2>1 DEF FileHasAll, f
<1>12. QED
  BY <1>2, <1>6, <1>9, <1>11 DEF ExportInv

LEMMA ExportKept ==
  ASSUME ExportConstants, ExportInv, [E!Next]_(E!vars)
  PROVE  ExportInv'
<1>1. CASE E!IndexBlock
  BY <1>1, IndexKeepsExport
<1>2. CASE E!FetchPage
  BY <1>2, FetchKeepsExport
<1>3. CASE E!MissPage
  BY <1>3, MissKeepsExport
<1>4. CASE E!Fail
  BY <1>4, FailKeepsExport
<1>5. CASE E!WriteFile
  BY <1>5, WriteKeepsExport
<1>6. CASE UNCHANGED E!vars
  <2>1. /\ height' = height /\ log' = log /\ request' = request /\ pc' = pc /\ below' = below
        /\ result' = result /\ loops' = loops /\ rows' = rows /\ known' = known /\ split' = split
        /\ broken' = broken
    BY <1>6 DEF E!vars
  <2>2. /\ ExportTypes' /\ (Heights' <=> Heights) /\ (Paging' <=> Paging) /\ Wanted' = Wanted
        /\ (BelowResult' <=> BelowResult) /\ (BelowMaximum' <=> BelowMaximum)
        /\ (NothingYet' <=> NothingYet) /\ (CutEarly' <=> CutEarly)
        /\ \A i : Fetched(i)' <=> Fetched(i)
    BY <2>1 DEF ExportInv, ExportTypes, LogTypes, Heights, Paging, Wanted, BelowResult, BelowMaximum,
       NothingYet, CutEarly, Fetched
  <2>3. (FileIsGood' <=> FileIsGood) /\ (FileHasAll' <=> FileHasAll)
    BY <2>1, <2>2 DEF FileIsGood, FileHasAll
  <2>4. QED
    BY <2>1, <2>2, <2>3 DEF ExportInv
<1>7. QED
  BY <1>1, <1>2, <1>3, <1>4, <1>5, <1>6 DEF E!Next, E!Quiet

LEMMA ExportsAreGood ==
  ReadsSpec => [](part = "export" => ExportInv)
<1> DEFINE Kept == part = "export" => ExportInv
<1>1. ExportConstants
  BY ReadsConstantsOK DEF ExportConstants
<1>2. ReadsInit => Kept
  <2>1. ReadsInit /\ part = "export" => E!Init
    BY DEF ReadsInit
  <2>2. QED
    BY <1>1, <2>1, ExportStarts
<1>3. Kept /\ [ReadsNext]_allVars => Kept'
  <2>1. [ReadsNext]_allVars /\ part' = "export" => part = "export" /\ [E!Next]_(E!vars)
    BY DEF ReadsNext, allVars, exportVars, E!vars
  <2>2. QED
    BY <1>1, <2>1, ExportKept
<1>4. QED
  BY <1>2, <1>3, PTL DEF ReadsSpec

\* Whatever blocks the indexer adds between two pages, for any size of a page
\* and any limits: the file that ExportCsvService writes of what queryData
\* fetched has each record once, only records of the range, the newest first;
\* of the kinds whose records have no height, if it came in one page.
THEOREM FilesHaveEachRecordOnce == ReadsSpec => []EachRecordOnce
<1>1. (part = "export" => ExportInv) => EachRecordOnce
  <2> SUFFICES ASSUME part = "export", ExportInv, pc = "done", request.kind.heights \/ loops <= 1
               PROVE  /\ E!IsInjective(result)
                      /\ \A i \in E!Range(rows) : E!InRange(log[i])
                      /\ \A n \in 1..(Len(rows) - 1) : log[rows[n]] >= log[rows[n + 1]]
    BY DEF EachRecordOnce, E!EachRecordOnce
  <2>1. /\ \A n, m \in DOMAIN result : result[n] = result[m] => n = m
        /\ \A x \in DOMAIN rows : InRangeOf(request, log[rows[x]])
        /\ \A x \in 1..(Len(rows) - 1) : log[rows[x]] >= log[rows[x + 1]]
    BY DEF ExportInv, FileIsGood, Paging, Heights
  <2>2. E!IsInjective(result)
    BY <2>1 DEF E!IsInjective
  <2>3. \A i \in E!Range(rows) : E!InRange(log[i])
    BY <2>1, RangeIsOfRequest DEF E!Range
  <2>4. QED
    BY <2>1, <2>2, <2>3
<1>2. QED
  BY <1>1, ExportsAreGood, PTL

\* A record of the range that was indexed when queryData asked for its first
\* page is in the file, unless a page ended inside its block, or it is older
\* than all that is in the file and a page did not come, MAX_LOOP pages were
\* fetched or the file is full.
THEOREM FilesHaveKnownGaps == ReadsSpec => []OnlyKnownGaps
<1>1. (part = "export" => ExportInv) => OnlyKnownGaps
  <2> SUFFICES ASSUME part = "export", ExportInv, pc = "done", request.kind.heights,
                      NEW i \in 1..known, E!InRange(log[i])
               PROVE  \/ i \in E!Range(rows)
                      \/ log[i] \in split
                      \/ E!CutOff(i) /\ (broken \/ loops = MaxLoop \/ Len(rows) >= ExportLimit)
    BY DEF OnlyKnownGaps, E!OnlyKnownGaps
  <2>1. i \in Wanted
    BY RangeIsOfRequest DEF Wanted
  <2>2. \/ i \in InFile(rows) \/ log[i] \in split
        \/ AllAbove(rows, log, log[i]) /\ (broken \/ loops = MaxLoop \/ Len(rows) >= ExportLimit)
    BY <2>1 DEF ExportInv, FileHasAll, Heights
  <2>3. InFile(rows) = E!Range(rows)
    BY DEF InFile, E!Range
  <2>4. AllAbove(rows, log, log[i]) => E!CutOff(i)
    <3> SUFFICES ASSUME AllAbove(rows, log, log[i]), NEW x \in DOMAIN rows
                 PROVE  log[rows[x]] >= log[i]
      BY DEF E!CutOff, E!Range
    <3>1. QED
      BY DEF AllAbove
  <2>5. QED
    BY <2>2, <2>3, <2>4
<1>2. QED
  BY <1>1, ExportsAreGood, PTL

-----------------------------------------------------------------------------
(* The notices of a page.  The entries that ask for a side of a            *)
(* transaction are picked from the watch list, once each; a notice is told *)
(* by its user, address, transaction and side.                             *)

Noted == [user : Users, address : Addresses, tx : Txs, side : M!Side, num : Nat, tagged : BOOLEAN]
ToldOf(n) == <<n.user, n.address, n.tx, n.side>>

MatchTypes ==
  /\ job \in M!Jobs
  /\ page \in Seq(M!Move) /\ \A i \in DOMAIN page : page[i] \in M!Moves
  /\ entries \in Seq(M!Entry)
  /\ \A i, j \in DOMAIN entries :
       entries[i].user = entries[j].user /\ entries[i].address = entries[j].address => i = j
  /\ tag \in [user : Users, address : Addresses]

\* f tells each of X once, and nothing else.
Told(f, X) ==
  /\ f \in Seq(Noted)
  /\ \A x, y \in DOMAIN f : ToldOf(f[x]) = ToldOf(f[y]) => x = y
  /\ \A x \in DOMAIN f : ToldOf(f[x]) \in X
  /\ \A z \in X : \E x \in DOMAIN f : ToldOf(f[x]) = z
Correct(n) ==
  /\ job # "executed" => n.num = Cardinality(M!MovesOf(n.address, n.tx, n.side))
  /\ n.tagged <=> tag = [user |-> n.user, address |-> n.address]
ExpectedOn(side) == {x \in M!Expected : x[4] = side}

\* A run of the coin job may fail on settings.
Lacking == job = "coin" /\ \E i \in DOMAIN entries : entries[i].lacks # {}
AllTold ==
  /\ Told(notices, M!Expected)
  /\ \A x \in DOMAIN notices : Correct(notices[x])

MatchInv ==
  /\ MatchTypes /\ pc \in {"page", "entries", "done"}
  /\ pc = "done" /\ ~Lacking => AllTold

LEMMA ThoseAreChosen ==
  ASSUME NEW S, NEW s \in Seq(S), NEW I \in SUBSET DOMAIN s
  PROVE  M!Those(s, I) \in Seq(S) /\ \E p : ChosenAt(s, I, M!Those(s, I), p)
<1>1. M!Those(s, I) = Chosen(s, I)
  BY Zenon DEF M!Those, Chosen, PlacesTo, M!Cardinality, Cardinality
<1>2. QED
  BY <1>1, ChosenIsThere

\* new Set keeps one of each.
OneOfEach(t, s) ==
  /\ DOMAIN t = 1..Len(t) /\ Len(t) \in Nat
  /\ \A n, m \in DOMAIN t : t[n] = t[m] => n = m
  /\ \A n \in DOMAIN t : \E i \in DOMAIN s : t[n] = s[i]
  /\ \A i \in DOMAIN s : \E n \in DOMAIN t : t[n] = s[i]

LEMMA UniqueHasOne ==
  ASSUME NEW S, NEW s \in Seq(S)
  PROVE  M!Unique(s) \in Seq(S) /\ OneOfEach(M!Unique(s), s)
<1> DEFINE I == {i \in DOMAIN s : \A j \in 1..(i - 1) : s[j] # s[i]}
           t == M!Unique(s)
<1>1. t = M!Those(s, I) /\ I \in SUBSET DOMAIN s /\ DOMAIN s = 1..Len(s) /\ Len(s) \in Nat
  BY DEF M!Unique
<1>2. \A i \in I : \A k \in I : i < k => s[i] # s[k]
  <2> SUFFICES ASSUME NEW i \in I, NEW k \in I, i < k PROVE s[i] # s[k]
    OBVIOUS
  <2>1. i \in 1..(k - 1)
    BY <1>1
  <2>2. QED
    BY <2>1
<1>3. ASSUME NEW i \in DOMAIN s PROVE \E k \in I : s[k] = s[i]
  <2> DEFINE same == {j \in DOMAIN s : s[j] = s[i]}
             k == Min(same)
  <2>1. same \in SUBSET Int /\ IsFiniteSet(same) /\ same # {}
    <3>1. IsFiniteSet(1..Len(s)) /\ same \subseteq 1..Len(s) /\ i \in same
      BY <1>1, FS_Interval
    <3> HIDE DEF same
    <3>2. QED
      BY <3>1, FS_Subset
  <2>2. k \in same /\ \A e \in same : k <= e
    <3> HIDE DEF same
    <3>1. QED
      BY <2>1, FiniteSetHasLeast
  <2> HIDE DEF k
  <2>3. \A j \in 1..(k - 1) : j \in DOMAIN s /\ ~(k <= j)
    BY <1>1, <2>2
  <2>4. k \in I
    BY <2>2, <2>3
  <2>5. QED
    BY <2>2, <2>4
<1> HIDE DEF I, t
<1>4. t \in Seq(S) /\ \E p : ChosenAt(s, I, t, p)
  BY <1>1, ThoseAreChosen
<1>5. PICK p : ChosenAt(s, I, t, p)
  BY <1>4
<1>6. /\ DOMAIN t = 1..Len(t) /\ Len(t) \in Nat
      /\ \A n \in DOMAIN t : p[n] \in I /\ t[n] = s[p[n]]
      /\ \A n, m \in DOMAIN t : p[n] = p[m] => n = m
      /\ \A i \in I : \E n \in DOMAIN t : p[n] = i
  BY <1>5 DEF ChosenAt
<1>7. ASSUME NEW n \in DOMAIN t, NEW m \in DOMAIN t, t[n] = t[m] PROVE n = m
  <2>1. p[n] \in I /\ p[m] \in I /\ s[p[n]] = s[p[m]]
    BY <1>6, <1>7
  <2>2. ~(p[n] < p[m]) /\ ~(p[m] < p[n])
    BY <1>2, <2>1
  <2>3. p[n] = p[m]
    <3>1. p[n] \in Int /\ p[m] \in Int
      BY <1>1, <2>1
    <3>2. QED
      BY <2>2, <3>1
  <2>4. QED
    BY <1>6, <2>3
<1>8. \A n \in DOMAIN t : \E i \in DOMAIN s : t[n] = s[i]
  BY <1>1, <1>6
<1>9. \A i \in DOMAIN s : \E n \in DOMAIN t : t[n] = s[i]
  BY <1>3, <1>6
<1>10. OneOfEach(t, s)
  BY <1>6, <1>7, <1>8, <1>9 DEF OneOfEach
<1>11. QED
  BY <1>4, <1>10 DEF t

\* s has a notice of a transaction for each entry of the watch list that asks
\* for this side of it and has one of the addresses in A.
Asks(e, A, side) == side \in entries[e].on /\ entries[e].address \in A
ToldIn(s, tx, A, side, num) ==
  /\ s \in Seq(Noted)
  /\ \A k \in DOMAIN s : \E e \in DOMAIN entries :
       /\ Asks(e, A, side)
       /\ s[k] = [user |-> entries[e].user, address |-> entries[e].address, tx |-> tx,
                  side |-> side, num |-> num, tagged |-> M!Tagged(entries[e])]
  /\ \A k, j \in DOMAIN s : s[k].user = s[j].user /\ s[k].address = s[j].address => k = j
  /\ \A e \in DOMAIN entries : Asks(e, A, side) =>
       \E k \in DOMAIN s : s[k].user = entries[e].user /\ s[k].address = entries[e].address

LEMMA HitsAreTold ==
  ASSUME MatchTypes, NEW side \in M!Side, NEW A, NEW tx \in Txs, NEW num \in Nat,
         NEW hits, NEW s,
         hits = M!Those(M!Watchers(side), {i \in DOMAIN M!Watchers(side) :
                                             M!Watchers(side)[i].address \in A}),
         s = [k \in DOMAIN hits |->
                [user |-> hits[k].user, address |-> hits[k].address, tx |-> tx,
                 side |-> side, num |-> num, tagged |-> M!Tagged(hits[k])]]
  PROVE  ToldIn(s, tx, A, side, num)
<1> DEFINE W == M!Watchers(side)
           J == {i \in DOMAIN entries : side \in entries[i].on}
           I == {i \in DOMAIN W : W[i].address \in A}
<1>1. entries \in Seq(M!Entry) /\ W = M!Those(entries, J) /\ J \in SUBSET DOMAIN entries
  BY DEF MatchTypes, M!Watchers
<1> HIDE DEF W, J
<1>2. W \in Seq(M!Entry) /\ \E p : ChosenAt(entries, J, W, p)
  BY <1>1, ThoseAreChosen
<1>3. PICK p : ChosenAt(entries, J, W, p)
  BY <1>2
<1>4. hits = M!Those(W, I) /\ I \in SUBSET DOMAIN W
  BY DEF W
<1> HIDE DEF I
<1>5. hits \in Seq(M!Entry) /\ \E q : ChosenAt(W, I, hits, q)
  BY <1>2, <1>4, ThoseAreChosen
<1>6. PICK q : ChosenAt(W, I, hits, q)
  BY <1>5
<1>7. /\ DOMAIN hits = 1..Len(hits) /\ Len(hits) \in Nat
      /\ \A k \in DOMAIN hits : q[k] \in I /\ hits[k] = W[q[k]]
      /\ \A k, j \in DOMAIN hits : q[k] = q[j] => k = j
      /\ \A i \in I : \E k \in DOMAIN hits : q[k] = i
  BY <1>6 DEF ChosenAt
<1>8. /\ \A i \in DOMAIN W : p[i] \in J /\ W[i] = entries[p[i]]
      /\ \A i, j \in DOMAIN W : p[i] = p[j] => i = j
      /\ \A e \in J : \E i \in DOMAIN W : p[i] = e
  BY <1>3 DEF ChosenAt
<1>9. \A k \in DOMAIN hits : /\ p[q[k]] \in DOMAIN entries /\ Asks(p[q[k]], A, side)
                             /\ hits[k] = entries[p[q[k]]]
  <2> TAKE k \in DOMAIN hits
  <2>1. q[k] \in I /\ q[k] \in DOMAIN W /\ hits[k] = W[q[k]] /\ W[q[k]].address \in A
    BY <1>7 DEF I
  <2>2. p[q[k]] \in J /\ W[q[k]] = entries[p[q[k]]]
    BY <1>8, <2>1
  <2>3. p[q[k]] \in DOMAIN entries /\ side \in entries[p[q[k]]].on
    BY <2>2 DEF J
  <2>4. QED
    BY <2>1, <2>2, <2>3 DEF Asks
<1>10. \A e \in DOMAIN entries : Asks(e, A, side) => \E k \in DOMAIN hits : hits[k] = entries[e]
  <2> SUFFICES ASSUME NEW e \in DOMAIN entries, Asks(e, A, side)
               PROVE  \E k \in DOMAIN hits : hits[k] = entries[e]
    OBVIOUS
  <2>1. e \in J
    BY DEF J, Asks
  <2>2. PICK i \in DOMAIN W : p[i] = e
    BY <1>8, <2>1
  <2>3. W[i] = entries[e] /\ i \in I
    BY <1>8, <2>2 DEF I, Asks
  <2>4. PICK k \in DOMAIN hits : q[k] = i
    BY <1>7, <2>3
  <2>5. QED
    BY <1>7, <2>3, <2>4
<1>11. /\ DOMAIN s = DOMAIN hits
       /\ \A k \in DOMAIN s :
            s[k] = [user |-> hits[k].user, address |-> hits[k].address, tx |-> tx,
                    side |-> side, num |-> num, tagged |-> M!Tagged(hits[k])]
  OBVIOUS
<1>12. s \in Seq(Noted)
  <2>1. \A k \in DOMAIN hits : s[k] \in Noted
    <3> TAKE k \in DOMAIN hits
    <3>1. hits[k] \in M!Entry
      BY <1>5
    <3>2. hits[k].user \in Users /\ hits[k].address \in Addresses /\ M!Tagged(hits[k]) \in BOOLEAN
      BY <3>1 DEF M!Entry, M!Tagged
    <3>3. QED
      BY <1>11, <3>2 DEF Noted
  <2>2. s = [k \in 1..Len(hits) |-> s[k]]
    BY <1>7
  <2>3. \A k \in 1..Len(hits) : s[k] \in Noted
    BY <1>7, <2>1
  <2>4. QED
    <3>1. IsList(s, Len(hits), Noted)
      BY <1>7, <2>2, <2>3, Zenon DEF IsList
    <3>2. QED
      BY <3>1, SeqFromElements
<1>13. \A k \in DOMAIN s : \E e \in DOMAIN entries :
         /\ Asks(e, A, side)
         /\ s[k] = [user |-> entries[e].user, address |-> entries[e].address, tx |-> tx,
                    side |-> side, num |-> num, tagged |-> M!Tagged(entries[e])]
  BY <1>9, <1>11
<1>14. ASSUME NEW k \in DOMAIN s, NEW j \in DOMAIN s, s[k].user = s[j].user, s[k].address = s[j].address
       PROVE  k = j
  <2>1. hits[k].user = hits[j].user /\ hits[k].address = hits[j].address
    BY <1>11, <1>14
  <2>2. p[q[k]] = p[q[j]]
    <3>1. \A a, b \in DOMAIN entries :
            entries[a].user = entries[b].user /\ entries[a].address = entries[b].address => a = b
      BY DEF MatchTypes
    <3>2. p[q[k]] \in DOMAIN entries /\ p[q[j]] \in DOMAIN entries
            /\ hits[k] = entries[p[q[k]]] /\ hits[j] = entries[p[q[j]]]
      BY <1>9, <1>11
    <3>3. QED
      BY <2>1, <3>1, <3>2
  <2>3. q[k] \in DOMAIN W /\ q[j] \in DOMAIN W
    BY <1>4, <1>7, <1>11
  <2>4. QED
    BY <1>7, <1>8, <1>11, <2>2, <2>3
<1>15. \A e \in DOMAIN entries : Asks(e, A, side) =>
         \E k \in DOMAIN s : s[k].user = entries[e].user /\ s[k].address = entries[e].address
  BY <1>10, <1>11
<1> HIDE DEF I
<1>16. \A k, j \in DOMAIN s : s[k].user = s[j].user /\ s[k].address = s[j].address => k = j
  BY <1>14
<1>17. QED
  BY <1>12, <1>13, <1>15, <1>16 DEF ToldIn

\* Group n is told of transaction tx[n] and has the addresses A[n]: each move
\* of an address is in one group.
Grouped(c, tx, A, num, side) ==
  /\ c \in Nat
  /\ \A n \in 1..c : tx[n] \in Txs /\ A[n] \subseteq Addresses /\ num[n] \in Nat
  /\ \A n, m \in 1..c : \A a \in A[n] : tx[n] = tx[m] /\ a \in A[m] => n = m
  /\ \A n \in 1..c : \A a \in A[n] :
       /\ M!MovesOf(a, tx[n], side) # {}
       /\ job # "executed" => num[n] = Cardinality(M!MovesOf(a, tx[n], side))
  /\ \A t \in Txs, a \in Addresses :
       M!MovesOf(a, t, side) # {} => \E n \in 1..c : tx[n] = t /\ a \in A[n]

LEMMA JoinedAreTold ==
  ASSUME MatchTypes, NEW side \in M!Side, NEW seqs, NEW tx, NEW A, NEW num,
         seqs \in Seq(Seq(Noted)), Grouped(Len(seqs), tx, A, num, side),
         \A n \in 1..Len(seqs) : ToldIn(seqs[n], tx[n], A[n], side, num[n])
  PROVE  LET F == M!FlattenSeq(seqs) IN
         Told(F, ExpectedOn(side)) /\ \A x \in DOMAIN F : Correct(F[x])
<1> DEFINE F == FlattenSeq(seqs)
           c == Len(seqs)
<1>1. M!FlattenSeq(seqs) = F
  BY Zenon DEF M!FlattenSeq, FlattenSeq
<1>2. F \in Seq(Noted) /\ \E a, b : Placed(seqs, c, F, a, b)
  BY FlattenedIsPlaced
<1>3. PICK a, b : Placed(seqs, c, F, a, b)
  BY <1>2
<1> HIDE DEF F
<1>4. /\ \A x \in DOMAIN F : a[x] \in 1..c /\ b[x] \in DOMAIN seqs[a[x]] /\ F[x] = seqs[a[x]][b[x]]
      /\ \A x, y \in DOMAIN F : a[x] = a[y] /\ b[x] = b[y] => x = y
      /\ \A n \in 1..c : \A k \in DOMAIN seqs[n] : \E x \in DOMAIN F : a[x] = n /\ b[x] = k
  BY <1>3, Zenon DEF Placed
<1>5. /\ \A n \in 1..c : tx[n] \in Txs /\ A[n] \subseteq Addresses /\ num[n] \in Nat
      /\ \A n, m \in 1..c : \A z \in A[n] : tx[n] = tx[m] /\ z \in A[m] => n = m
      /\ \A n \in 1..c : \A z \in A[n] :
           /\ M!MovesOf(z, tx[n], side) # {}
           /\ job # "executed" => num[n] = Cardinality(M!MovesOf(z, tx[n], side))
      /\ \A t \in Txs, z \in Addresses :
           M!MovesOf(z, t, side) # {} => \E n \in 1..c : tx[n] = t /\ z \in A[n]
  BY Zenon DEF Grouped
<1> DEFINE Is(x, e) ==
             /\ Asks(e, A[a[x]], side)
             /\ F[x].user = entries[e].user /\ F[x].address = entries[e].address
             /\ F[x].tx = tx[a[x]] /\ F[x].side = side /\ F[x].num = num[a[x]]
             /\ F[x].tagged = M!Tagged(entries[e])
<1>6. \A x \in DOMAIN F : \E e \in DOMAIN entries : Is(x, e)
  <2> TAKE x \in DOMAIN F
  <2>1. a[x] \in 1..c /\ b[x] \in DOMAIN seqs[a[x]] /\ F[x] = seqs[a[x]][b[x]]
    BY <1>4
  <2>2. ToldIn(seqs[a[x]], tx[a[x]], A[a[x]], side, num[a[x]])
    BY <2>1
  <2>3. PICK e \in DOMAIN entries :
          /\ Asks(e, A[a[x]], side)
          /\ seqs[a[x]][b[x]] =
               [user |-> entries[e].user, address |-> entries[e].address, tx |-> tx[a[x]],
                side |-> side, num |-> num[a[x]], tagged |-> M!Tagged(entries[e])]
    BY <2>1, <2>2 DEF ToldIn
  <2>4. QED
    BY <2>1, <2>3
<1>7. entries \in Seq(M!Entry) /\ tag \in [user : Users, address : Addresses]
  BY DEF MatchTypes
<1>8. ASSUME NEW x \in DOMAIN F, NEW y \in DOMAIN F, ToldOf(F[x]) = ToldOf(F[y]) PROVE x = y
  <2>1. F[x].user = F[y].user /\ F[x].address = F[y].address /\ F[x].tx = F[y].tx
    BY <1>8 DEF ToldOf
  <2>2. /\ F[x].tx = tx[a[x]] /\ F[x].address \in A[a[x]]
        /\ F[y].tx = tx[a[y]] /\ F[y].address \in A[a[y]]
    BY <1>6 DEF Asks
  <2>3. a[x] = a[y]
    <3>1. a[x] \in 1..c /\ a[y] \in 1..c /\ tx[a[x]] = tx[a[y]]
      BY <1>4, <2>1, <2>2
    <3>2. F[x].address \in A[a[x]] /\ F[x].address \in A[a[y]]
      BY <2>1, <2>2
    <3>3. QED
      BY <1>5, <3>1, <3>2
  <2>4. b[x] = b[y]
    <3>1. a[x] \in 1..c /\ b[x] \in DOMAIN seqs[a[x]] /\ b[y] \in DOMAIN seqs[a[x]]
            /\ F[x] = seqs[a[x]][b[x]] /\ F[y] = seqs[a[x]][b[y]]
      BY <1>4, <2>3
    <3>2. ToldIn(seqs[a[x]], tx[a[x]], A[a[x]], side, num[a[x]])
      BY <3>1
    <3>3. \A k, j \in DOMAIN seqs[a[x]] :
            seqs[a[x]][k].user = seqs[a[x]][j].user /\ seqs[a[x]][k].address = seqs[a[x]][j].address
              => k = j
      BY <3>2, Zenon DEF ToldIn
    <3>4. QED
      BY <2>1, <3>1, <3>3
  <2>5. QED
    BY <1>4, <2>3, <2>4
<1>9. ASSUME NEW x \in DOMAIN F PROVE ToldOf(F[x]) \in ExpectedOn(side) /\ Correct(F[x])
  <2>1. PICK e \in DOMAIN entries : Is(x, e)
    BY <1>6
  <2>2. /\ entries[e].user \in Users /\ entries[e].address \in Addresses /\ entries[e].on \subseteq M!Side
        /\ entries[e].address \in A[a[x]] /\ side \in entries[e].on
    <3>1. entries[e] \in M!Entry
      BY <1>7
    <3>2. QED
      BY <2>1, <3>1 DEF M!Entry, Asks
  <2>3. a[x] \in 1..c /\ tx[a[x]] \in Txs
    BY <1>4, <1>5
  <2>4. M!MovesOf(F[x].address, F[x].tx, side) # {}
          /\ (job # "executed" => F[x].num = Cardinality(M!MovesOf(F[x].address, F[x].tx, side)))
    BY <1>5, <2>1, <2>2, <2>3
  <2> DEFINE z == ToldOf(F[x])
  <2>5. z = <<entries[e].user, entries[e].address, tx[a[x]], side>>
    BY <2>1 DEF ToldOf
  <2>6. /\ z \in Users \X Addresses \X Txs \X M!Side
        /\ z[1] = entries[e].user /\ z[2] = F[x].address /\ z[3] = F[x].tx /\ z[4] = side
        /\ z[2] = entries[e].address
    BY <2>1, <2>2, <2>3, <2>5
  <2> HIDE DEF z
  <2>7. z \in ExpectedOn(side)
    BY <2>2, <2>4, <2>6 DEF ExpectedOn, M!Expected
  <2>8. F[x].tagged <=> tag = [user |-> F[x].user, address |-> F[x].address]
    <3>1. tag = [user |-> tag.user, address |-> tag.address]
      BY <1>7
    <3>2. F[x].tagged <=> tag.user = F[x].user /\ tag.address = F[x].address
      BY <2>1, <2>2 DEF M!Tagged
    <3>3. QED
      BY <3>1, <3>2
  <2>9. Correct(F[x])
    BY <2>1, <2>4, <2>8 DEF Correct
  <2>10. QED
    BY <2>7, <2>9 DEF z
<1>10. ASSUME NEW z \in ExpectedOn(side) PROVE \E x \in DOMAIN F : ToldOf(F[x]) = z
  <2>1. /\ z \in Users \X Addresses \X Txs \X M!Side /\ z[4] = side
        /\ M!MovesOf(z[2], z[3], side) # {}
    BY DEF ExpectedOn, M!Expected
  <2>2. PICK e \in DOMAIN entries : entries[e].user = z[1] /\ entries[e].address = z[2] /\ side \in entries[e].on
    BY <2>1 DEF ExpectedOn, M!Expected
  <2>3. PICK n \in 1..c : tx[n] = z[3] /\ z[2] \in A[n]
    BY <1>5, <2>1
  <2>4. Asks(e, A[n], side) /\ ToldIn(seqs[n], tx[n], A[n], side, num[n])
    BY <2>2, <2>3 DEF Asks
  <2>5. PICK k \in DOMAIN seqs[n] : seqs[n][k].user = z[1] /\ seqs[n][k].address = z[2]
    BY <2>2, <2>4 DEF ToldIn
  <2>6. PICK x \in DOMAIN F : a[x] = n /\ b[x] = k
    BY <1>4, <2>5
  <2>7. F[x] = seqs[n][k] /\ F[x].tx = z[3] /\ F[x].side = z[4]
    BY <1>4, <1>6, <2>1, <2>3, <2>6
  <2>8. ToldOf(F[x]) = <<z[1], z[2], z[3], z[4]>>
    BY <2>5, <2>7 DEF ToldOf
  <2>9. z = <<z[1], z[2], z[3], z[4]>>
    BY <2>1
  <2>10. QED
    BY <2>8, <2>9
<1>11. Told(F, ExpectedOn(side))
  BY <1>2, <1>8, <1>9, <1>10 DEF Told
<1>12. QED
  BY <1>1, <1>9, <1>11

\* The keys by which getTxNotifySent and getTxNotifyReceived group a page: each
\* pair of a transaction and its end on this side, once.
KeysOf(keys, side) ==
  /\ DOMAIN keys = 1..Len(keys) /\ Len(keys) \in Nat
  /\ \A n \in DOMAIN keys : /\ keys[n] = <<keys[n][1], keys[n][2]>>
                            /\ keys[n][1] \in Txs /\ keys[n][2] \in Addresses
  /\ \A n, m \in DOMAIN keys : keys[n] = keys[m] => n = m
  /\ \A n \in DOMAIN keys : \E i \in DOMAIN page :
       keys[n] = <<page[i].tx, M!End(page[i], side)>>
  /\ \A i \in DOMAIN page : M!End(page[i], side) # Off =>
       \E n \in DOMAIN keys : keys[n] = <<page[i].tx, M!End(page[i], side)>>

LEMMA KeysAreOfPage ==
  ASSUME MatchTypes, NEW side \in M!Side, NEW named, NEW keys,
         named = M!Those(page, {i \in DOMAIN page : M!End(page[i], side) # Off}),
         keys = M!Unique([i \in DOMAIN named |-> <<named[i].tx, M!End(named[i], side)>>])
  PROVE  KeysOf(keys, side)
<1> DEFINE I == {i \in DOMAIN page : M!End(page[i], side) # Off}
           pairs == [i \in DOMAIN named |-> <<named[i].tx, M!End(named[i], side)>>]
           S == Txs \X Addresses
<1>1. page \in Seq(M!Move) /\ I \in SUBSET DOMAIN page /\ named = M!Those(page, I)
  BY DEF MatchTypes
<1>2. \A i \in I : page[i].tx \in Txs /\ M!End(page[i], side) \in Addresses
  <2> TAKE i \in I
  <2>1. page[i] \in M!Move /\ M!End(page[i], side) # Off
    BY <1>1
  <2>2. QED
    BY <2>1 DEF M!Move, M!End
<1> HIDE DEF I
<1>3. named \in Seq(M!Move) /\ \E p : ChosenAt(page, I, named, p)
  BY <1>1, ThoseAreChosen
<1>4. PICK p : ChosenAt(page, I, named, p)
  BY <1>3
<1>5. /\ DOMAIN named = 1..Len(named) /\ Len(named) \in Nat
      /\ \A n \in DOMAIN named : p[n] \in I /\ named[n] = page[p[n]]
      /\ \A i \in I : \E n \in DOMAIN named : p[n] = i
  BY <1>4 DEF ChosenAt
<1>6. pairs \in Seq(S)
  <2>1. \A n \in DOMAIN named : named[n].tx \in Txs /\ M!End(named[n], side) \in Addresses
    BY <1>2, <1>5
  <2>2. \A n \in 1..Len(named) : pairs[n] \in S
    BY <1>5, <2>1
  <2>3. pairs = [n \in 1..Len(named) |-> pairs[n]]
    BY <1>5
  <2>4. IsList(pairs, Len(named), S)
    <3> HIDE DEF pairs, S
    <3>1. QED
      BY <1>5, <2>2, <2>3, Zenon DEF IsList
  <2> HIDE DEF pairs, S
  <2>5. QED
    BY <2>4, SeqFromElements
<1>7. \A n \in DOMAIN pairs : n \in DOMAIN named /\ pairs[n] = <<page[p[n]].tx, M!End(page[p[n]], side)>>
  BY <1>5
<1>8. \A n \in DOMAIN named : n \in DOMAIN pairs
  OBVIOUS
<1> HIDE DEF pairs
<1>9. keys = M!Unique(pairs)
  BY DEF pairs
<1>10. keys \in Seq(S) /\ OneOfEach(keys, pairs)
  <2> HIDE DEF S
  <2>1. QED
    BY <1>6, <1>9, UniqueHasOne
<1>11. /\ DOMAIN keys = 1..Len(keys) /\ Len(keys) \in Nat
       /\ \A n, m \in DOMAIN keys : keys[n] = keys[m] => n = m
       /\ \A n \in DOMAIN keys : \E i \in DOMAIN pairs : keys[n] = pairs[i]
       /\ \A i \in DOMAIN pairs : \E n \in DOMAIN keys : keys[n] = pairs[i]
  BY <1>10 DEF OneOfEach
<1>12. \A n \in DOMAIN keys : /\ keys[n] = <<keys[n][1], keys[n][2]>>
                              /\ keys[n][1] \in Txs /\ keys[n][2] \in Addresses
  <2> TAKE n \in DOMAIN keys
  <2>1. keys[n] \in S
    BY <1>10
  <2>2. QED
    BY <2>1, SMTT(30)
<1>13. ASSUME NEW n \in DOMAIN keys
       PROVE  \E i \in DOMAIN page : keys[n] = <<page[i].tx, M!End(page[i], side)>>
  <2>1. PICK x \in DOMAIN pairs : keys[n] = pairs[x]
    BY <1>11
  <2>2. p[x] \in DOMAIN page
    BY <1>1, <1>5, <1>7, <2>1
  <2>3. QED
    BY <1>7, <2>1, <2>2
<1>14. ASSUME NEW i \in DOMAIN page, M!End(page[i], side) # Off
       PROVE  \E n \in DOMAIN keys : keys[n] = <<page[i].tx, M!End(page[i], side)>>
  <2>1. i \in I
    BY <1>14 DEF I
  <2>2. PICK x \in DOMAIN named : p[x] = i
    BY <1>5, <2>1
  <2>3. PICK n \in DOMAIN keys : keys[n] = pairs[x]
    BY <1>8, <1>11, <2>2
  <2>4. QED
    BY <1>7, <1>8, <2>2, <2>3
<1>15. QED
  BY <1>11, <1>12, <1>13, <1>14 DEF KeysOf

LEMMA GroupIsTold ==
  ASSUME MatchTypes, Off \notin Addresses, NEW side \in M!Side, NEW tx \in Txs, NEW a \in Addresses,
         NEW acts, Len(acts) \in Nat, NEW g, NEW hits, NEW s,
         g = IF side = "sent" THEN M!Group(tx, a, Off, acts) ELSE M!Group(tx, Off, a, acts),
         hits = M!Hits(g, M!Watchers(side)),
         s = [k \in DOMAIN hits |->
                M!Notice(hits[k], g, IF hits[k].address = g.to THEN "received" ELSE "sent")]
  PROVE  ToldIn(s, tx, {a}, side, Len(acts))
<1> DEFINE W == M!Watchers(side)
           I == {i \in DOMAIN W : W[i].address \in {a}}
           of(k) == [user |-> hits[k].user, address |-> hits[k].address, tx |-> tx,
                     side |-> side, num |-> Len(acts), tagged |-> M!Tagged(hits[k])]
<1>1. /\ g.tx = tx /\ g.moves = acts /\ DOMAIN g = {"tx", "from", "to", "moves"}
      /\ side = "sent" => g.from = a /\ g.to = Off
      /\ side # "sent" => side = "received" /\ g.from = Off /\ g.to = a
  BY DEF M!Group, M!Side
<1>2. ~M!IsRestakeTx(g)
  BY <1>1 DEF M!IsRestakeTx
<1>3. W \in Seq(M!Entry) /\ \A i \in DOMAIN W : W[i].address \in Addresses
  <2>1. /\ entries \in Seq(M!Entry)
        /\ W = M!Those(entries, {i \in DOMAIN entries : side \in entries[i].on})
    BY DEF MatchTypes, M!Watchers
  <2> HIDE DEF W
  <2>2. W \in Seq(M!Entry)
    BY <2>1, ThoseAreChosen
  <2>3. \A i \in DOMAIN W : W[i] \in M!Entry
    BY <2>2
  <2>4. QED
    BY <2>2, <2>3 DEF M!Entry
<1>4. hits = M!Those(W, I)
  <2> HIDE DEF W
  <2>1. \A i \in DOMAIN W :
          (W[i].address \in {g.from, g.to} /\ ~(W[i].quiet /\ M!IsRestakeTx(g))) <=> W[i].address = a
    <3> TAKE i \in DOMAIN W
    <3>1. W[i].address \in Addresses /\ W[i].address # Off
      BY <1>3
    <3>2. W[i].address \in {g.from, g.to} <=> W[i].address = a
      BY <1>1, <3>1
    <3>3. QED
      BY <1>2, <3>2
  <2>2. hits = M!Those(W, {i \in DOMAIN W : /\ W[i].address \in {g.from, g.to}
                                            /\ ~(W[i].quiet /\ M!IsRestakeTx(g))})
    BY DEF M!Hits, W
  <2>3. {i \in DOMAIN W : /\ W[i].address \in {g.from, g.to}
                          /\ ~(W[i].quiet /\ M!IsRestakeTx(g))} = I
    BY <2>1
  <2>4. QED
    BY <2>2, <2>3
<1>5. \A k \in DOMAIN hits : hits[k].address = a
  <2> HIDE DEF W
  <2>1. I \in SUBSET DOMAIN W
    OBVIOUS
  <2>2. \A i \in I : W[i].address = a
    OBVIOUS
  <2> HIDE DEF I
  <2>3. PICK p : ChosenAt(W, I, hits, p)
    BY <1>3, <1>4, <2>1, ThoseAreChosen
  <2>4. \A k \in DOMAIN hits : p[k] \in I /\ hits[k] = W[p[k]]
    BY <2>3 DEF ChosenAt
  <2>5. QED
    BY <2>2, <2>4
<1>6. \A k \in DOMAIN hits :
        M!Notice(hits[k], g, IF hits[k].address = g.to THEN "received" ELSE "sent") = of(k)
  <2> TAKE k \in DOMAIN hits
  <2>1. (IF hits[k].address = g.to THEN "received" ELSE "sent") = side
    BY <1>1, <1>5
  <2>2. QED
    BY <1>1, <2>1 DEF M!Notice
<1>7. s = [k \in DOMAIN hits |-> of(k)]
  BY <1>6
<1>8. QED
  BY <1>4, <1>7, HitsAreTold

LEMMA SideIsTold ==
  ASSUME MatchTypes, Off \notin Addresses, NEW side \in M!Side, NEW groups,
         groups = IF side = "sent" THEN M!NotifySent(page) ELSE M!NotifyReceived(page)
  PROVE  LET F == M!NoticesOf(groups, side) IN
         Told(F, ExpectedOn(side)) /\ \A x \in DOMAIN F : Correct(F[x])
<1> DEFINE named == M!Those(page, {i \in DOMAIN page : M!End(page[i], side) # Off})
           keys == M!Unique([i \in DOMAIN named |-> <<named[i].tx, M!End(named[i], side)>>])
           own(n) == {i \in DOMAIN page : <<page[i].tx, M!End(page[i], side)>> = keys[n]}
           acts(n) == M!Those(page, own(n))
           group(n) == IF side = "sent" THEN M!Group(keys[n][1], keys[n][2], Off, acts(n))
                                        ELSE M!Group(keys[n][1], Off, keys[n][2], acts(n))
           hits(n) == M!Hits(groups[n], M!Watchers(side))
           part_of(n) == [k \in DOMAIN hits(n) |->
                            M!Notice(hits(n)[k], groups[n],
                                     IF hits(n)[k].address = groups[n].to THEN "received" ELSE "sent")]
           seqs == [n \in DOMAIN groups |-> part_of(n)]
<1>1. groups = [n \in DOMAIN keys |-> group(n)]
  <2>1. CASE side = "sent"
    <3>1. \A m : M!End(m, side) = m.from
      BY <2>1 DEF M!End
    <3>2. keys = M!SentKeys(M!Those(page, {i \in DOMAIN page : page[i].from # Off}))
      BY <3>1 DEF M!SentKeys
    <3>3. \A n : group(n) = M!Group(keys[n][1], keys[n][2], Off,
                                    M!Those(page, {i \in DOMAIN page : <<page[i].tx, page[i].from>> = keys[n]}))
      <4> HIDE DEF keys
      <4>1. QED
        BY <2>1, <3>1
    <3> HIDE DEF keys, group
    <3>4. QED
      BY <2>1, <3>2, <3>3 DEF M!NotifySent
  <2>2. CASE side # "sent"
    <3>1. \A m : M!End(m, side) = m.to
      BY <2>2 DEF M!End
    <3>2. keys = M!ReceivedKeys(M!Those(page, {i \in DOMAIN page : page[i].to # Off}))
      BY <3>1 DEF M!ReceivedKeys
    <3>3. \A n : group(n) = M!Group(keys[n][1], Off, keys[n][2],
                                    M!Those(page, {i \in DOMAIN page : <<page[i].tx, page[i].to>> = keys[n]}))
      <4> HIDE DEF keys
      <4>1. QED
        BY <2>2, <3>1
    <3> HIDE DEF keys, group
    <3>4. QED
      BY <2>2, <3>2, <3>3 DEF M!NotifyReceived
  <2>3. QED
    BY <2>1, <2>2
<1>2. KeysOf(keys, side)
  BY KeysAreOfPage
<1>3. M!NoticesOf(groups, side) = M!FlattenSeq(seqs)
  <2> HIDE DEF keys
  <2>1. QED
    BY DEF M!NoticesOf
<1> HIDE DEF keys
<1>4. /\ DOMAIN keys = 1..Len(keys) /\ Len(keys) \in Nat
      /\ \A n \in DOMAIN keys : /\ keys[n] = <<keys[n][1], keys[n][2]>>
                                /\ keys[n][1] \in Txs /\ keys[n][2] \in Addresses
      /\ \A n, m \in DOMAIN keys : keys[n] = keys[m] => n = m
      /\ \A n \in DOMAIN keys : \E i \in DOMAIN page :
           keys[n] = <<page[i].tx, M!End(page[i], side)>>
      /\ \A i \in DOMAIN page : M!End(page[i], side) # Off =>
           \E n \in DOMAIN keys : keys[n] = <<page[i].tx, M!End(page[i], side)>>
  BY <1>2, Zenon DEF KeysOf
<1>5. page \in Seq(M!Move)
  BY DEF MatchTypes
<1>6. ASSUME NEW n \in DOMAIN keys
      PROVE  /\ own(n) = M!MovesOf(keys[n][2], keys[n][1], side)
             /\ Len(acts(n)) \in Nat /\ Len(acts(n)) = Cardinality(own(n))
  <2>1. own(n) = M!MovesOf(keys[n][2], keys[n][1], side)
    <3>1. \A i \in DOMAIN page : <<page[i].tx, M!End(page[i], side)>> = keys[n]
            <=> page[i].tx = keys[n][1] /\ M!End(page[i], side) = keys[n][2]
      BY <1>4
    <3>2. QED
      BY <3>1 DEF M!MovesOf
  <2>2. own(n) \in SUBSET DOMAIN page
    OBVIOUS
  <2>3. \E p : ChosenAt(page, own(n), acts(n), p)
    <3> HIDE DEF own
    <3>1. QED
      BY <1>5, <2>2, ThoseAreChosen
  <2>4. Len(acts(n)) \in Nat /\ Len(acts(n)) = Cardinality(own(n))
    <3> HIDE DEF own, acts
    <3>1. QED
      BY <2>3 DEF ChosenAt
  <2> HIDE DEF own, acts
  <2>5. QED
    BY <2>1, <2>4
<1> HIDE DEF own, acts
<1> DEFINE tx == [n \in DOMAIN keys |-> keys[n][1]]
           A == [n \in DOMAIN keys |-> {keys[n][2]}]
           num == [n \in DOMAIN keys |-> Len(acts(n))]
<1>7. ASSUME NEW n \in DOMAIN keys PROVE ToldIn(part_of(n), tx[n], A[n], side, num[n])
  <2>1. groups[n] = group(n)
    <3> HIDE DEF group
    <3>1. QED
      BY <1>1
  <2>2. keys[n][1] \in Txs /\ keys[n][2] \in Addresses /\ Len(acts(n)) \in Nat
    BY <1>4, <1>6
  <2>3. ToldIn(part_of(n), keys[n][1], {keys[n][2]}, side, Len(acts(n)))
    BY <2>1, <2>2, GroupIsTold
  <2> HIDE DEF part_of
  <2>4. QED
    BY <2>3
<1>8. /\ DOMAIN seqs = 1..Len(keys) /\ \A n \in DOMAIN keys : seqs[n] = part_of(n)
      /\ seqs \in Seq(Seq(Noted)) /\ Len(seqs) = Len(keys)
  <2>1. DOMAIN groups = DOMAIN keys
    <3> HIDE DEF group
    <3>1. QED
      BY <1>1
  <2>2. \A n \in DOMAIN keys : part_of(n) \in Seq(Noted)
    <3> HIDE DEF part_of
    <3>1. QED
      BY <1>7 DEF ToldIn
  <2>3. DOMAIN seqs = 1..Len(keys) /\ \A n \in 1..Len(keys) : seqs[n] = part_of(n)
    <3> HIDE DEF part_of
    <3>1. QED
      BY <1>4, <2>1
  <2>4. seqs = [n \in 1..Len(keys) |-> seqs[n]]
    <3> HIDE DEF part_of
    <3>1. QED
      BY <1>4, <2>1
  <2>5. IsList(seqs, Len(keys), Seq(Noted))
    <3> HIDE DEF part_of, seqs
    <3>1. QED
      BY <1>4, <2>2, <2>3, <2>4 DEF IsList
  <2> HIDE DEF part_of, seqs
  <2>6. QED
    BY <1>4, <2>3, <2>5, SeqFromElements
<1> HIDE DEF part_of, seqs
<1>9. Grouped(Len(seqs), tx, A, num, side)
  <2>1. \A n \in 1..Len(keys) : tx[n] \in Txs /\ A[n] \subseteq Addresses /\ num[n] \in Nat
    BY <1>4, <1>6
  <2>2. ASSUME NEW n \in 1..Len(keys), NEW m \in 1..Len(keys), NEW a \in A[n],
               tx[n] = tx[m], a \in A[m]
        PROVE  n = m
    <3>1. keys[n][1] = keys[m][1] /\ keys[n][2] = keys[m][2]
      BY <1>4, <2>2
    <3>2. keys[n] = keys[m]
      BY <1>4, <3>1
    <3>3. QED
      BY <1>4, <3>2
  <2>3. ASSUME NEW n \in 1..Len(keys), NEW a \in A[n]
        PROVE  /\ M!MovesOf(a, tx[n], side) # {}
               /\ num[n] = Cardinality(M!MovesOf(a, tx[n], side))
    <3>1. n \in DOMAIN keys /\ a = keys[n][2] /\ tx[n] = keys[n][1] /\ num[n] = Len(acts(n))
      BY <1>4, <2>3
    <3>2. num[n] = Cardinality(M!MovesOf(a, tx[n], side))
      BY <1>6, <3>1
    <3>3. PICK i \in DOMAIN page : keys[n] = <<page[i].tx, M!End(page[i], side)>>
      BY <1>4, <3>1
    <3>4. i \in M!MovesOf(a, tx[n], side)
      BY <3>1, <3>3 DEF M!MovesOf
    <3>5. QED
      BY <3>2, <3>4
  <2>4. ASSUME NEW t \in Txs, NEW a \in Addresses, M!MovesOf(a, t, side) # {}
        PROVE  \E n \in 1..Len(keys) : tx[n] = t /\ a \in A[n]
    <3>1. PICK i \in DOMAIN page : page[i].tx = t /\ M!End(page[i], side) = a
      BY <2>4 DEF M!MovesOf
    <3>2. PICK n \in DOMAIN keys : keys[n] = <<t, a>>
      BY <1>4, <3>1
    <3>3. tx[n] = t /\ a \in A[n] /\ n \in 1..Len(keys)
      BY <1>4, <3>2
    <3>4. QED
      BY <3>3
  <2> HIDE DEF tx, A, num
  <2>5. QED
    BY <1>4, <1>8, <2>1, <2>2, <2>3, <2>4 DEF Grouped
<1>10. \A n \in 1..Len(seqs) : ToldIn(seqs[n], tx[n], A[n], side, num[n])
  <2> HIDE DEF tx, A, num
  <2> TAKE n \in 1..Len(seqs)
  <2>1. n \in DOMAIN keys /\ seqs[n] = part_of(n)
    BY <1>4, <1>8
  <2>2. ToldIn(part_of(n), tx[n], A[n], side, num[n])
    BY <1>7, <2>1, Zenon
  <2>3. QED
    BY <2>1, <2>2, Zenon
<1> HIDE DEF tx, A, num
<1>11. QED
  BY <1>3, <1>8, <1>9, <1>10, JoinedAreTold

\* The messages of a transaction on the page, and their senders.
InTx(tx) == {i \in DOMAIN page : page[i].tx = tx}
SendersOf(tx) == {page[i].from : i \in InTx(tx)}

LEMMA MessagesHaveSenders ==
  ASSUME MatchTypes, job = "executed"
  PROVE  \A i \in DOMAIN page : page[i].tx \in Txs /\ page[i].from \in Addresses /\ page[i].to = Off
<1> TAKE i \in DOMAIN page
<1>1. page[i] \in M!Moves
  BY DEF MatchTypes
<1>2. page[i] \in M!Move /\ page[i].from # Off /\ page[i].to = Off
  BY <1>1 DEF M!Moves
<1>3. QED
  BY <1>2 DEF M!Move

LEMMA TransactionIsTold ==
  ASSUME MatchTypes, job = "executed", NEW tx \in Txs, InTx(tx) # {},
         NEW acts, acts = M!Those(page, InTx(tx)),
         NEW hits, hits = M!Senders(acts, M!Watchers("sent")), NEW s,
         s = [k \in DOMAIN hits |-> M!Notice(hits[k], [tx |-> acts[1].tx, moves |-> acts], "sent")]
  PROVE  ToldIn(s, tx, SendersOf(tx), "sent", Len(acts)) /\ Len(acts) \in Nat
<1> DEFINE W == M!Watchers("sent")
           of(k) == [user |-> hits[k].user, address |-> hits[k].address, tx |-> tx,
                     side |-> "sent", num |-> Len(acts), tagged |-> M!Tagged(hits[k])]
<1>1. page \in Seq(M!Move) /\ InTx(tx) \in SUBSET DOMAIN page
  BY DEF MatchTypes, InTx
<1>2. \E p : ChosenAt(page, InTx(tx), acts, p)
  BY <1>1, ThoseAreChosen
<1>3. PICK p : ChosenAt(page, InTx(tx), acts, p)
  BY <1>2
<1>4. /\ DOMAIN acts = 1..Len(acts) /\ Len(acts) \in Nat
      /\ \A n \in DOMAIN acts : p[n] \in InTx(tx) /\ acts[n] = page[p[n]]
      /\ \A i \in InTx(tx) : \E n \in DOMAIN acts : p[n] = i
  BY <1>3 DEF ChosenAt
<1>5. acts[1].tx = tx
  <2>1. PICK i \in InTx(tx) : TRUE
    OBVIOUS
  <2>2. PICK n \in DOMAIN acts : p[n] = i
    BY <1>4, <2>1
  <2>3. 1 \in DOMAIN acts
    BY <1>4, <2>2
  <2>4. QED
    BY <1>4, <2>3 DEF InTx
<1>6. \A a : (\E j \in DOMAIN acts : acts[j].from = a) <=> a \in SendersOf(tx)
  <2> TAKE a
  <2>1. ASSUME NEW j \in DOMAIN acts, acts[j].from = a PROVE a \in SendersOf(tx)
    BY <1>4, <2>1 DEF SendersOf
  <2>2. ASSUME a \in SendersOf(tx) PROVE \E j \in DOMAIN acts : acts[j].from = a
    <3>1. PICK i \in InTx(tx) : page[i].from = a
      BY <2>2 DEF SendersOf
    <3>2. PICK n \in DOMAIN acts : p[n] = i
      BY <1>4, <3>1
    <3>3. QED
      BY <1>4, <3>1, <3>2
  <2>3. QED
    BY <2>1, <2>2
<1> HIDE DEF W
<1>7. hits = M!Those(W, {i \in DOMAIN W : W[i].address \in SendersOf(tx)})
  <2>1. hits = M!Those(W, {i \in DOMAIN W : \E j \in DOMAIN acts : acts[j].from = W[i].address})
    BY DEF M!Senders, W
  <2>2. {i \in DOMAIN W : \E j \in DOMAIN acts : acts[j].from = W[i].address}
          = {i \in DOMAIN W : W[i].address \in SendersOf(tx)}
    BY <1>6
  <2>3. QED
    BY <2>1, <2>2
<1>8. \A k : M!Notice(hits[k], [tx |-> acts[1].tx, moves |-> acts], "sent") = of(k)
  BY <1>5 DEF M!Notice
<1>9. s = [k \in DOMAIN hits |-> of(k)]
  BY <1>8
<1>10. "sent" \in M!Side
  BY DEF M!Side
<1>11. hits = M!Those(M!Watchers("sent"), {i \in DOMAIN M!Watchers("sent") :
                                             M!Watchers("sent")[i].address \in SendersOf(tx)})
  BY <1>7 DEF W
<1>12. ToldIn(s, tx, SendersOf(tx), "sent", Len(acts))
  BY <1>4, <1>9, <1>10, <1>11, HitsAreTold
<1>13. QED
  BY <1>4, <1>12

\* processExecutedNotification tells of each transaction those who watch one
\* of its senders.
LEMMA ExecutedIsTold ==
  ASSUME MatchTypes, job = "executed"
  PROVE  /\ Told(M!ExecutedNotices, ExpectedOn("sent"))
         /\ \A x \in DOMAIN M!ExecutedNotices : Correct(M!ExecutedNotices[x])
<1> DEFINE all == [i \in DOMAIN page |-> page[i].tx]
           txs == M!Unique(all)
           acts(n) == M!Those(page, InTx(txs[n]))
           hits(n) == M!Senders(acts(n), M!Watchers("sent"))
           part_of(n) == [k \in DOMAIN hits(n) |->
                            M!Notice(hits(n)[k], [tx |-> acts(n)[1].tx, moves |-> acts(n)], "sent")]
           seqs == [n \in DOMAIN txs |-> part_of(n)]
<1>1. page \in Seq(M!Move) /\ DOMAIN page = 1..Len(page) /\ Len(page) \in Nat
  BY DEF MatchTypes
<1>2. all \in Seq(Txs) /\ DOMAIN all = DOMAIN page /\ \A i \in DOMAIN page : all[i] = page[i].tx
  <2>1. all = [i \in 1..Len(page) |-> all[i]] /\ \A i \in 1..Len(page) : all[i] \in Txs
    BY <1>1, MessagesHaveSenders
  <2>2. IsList(all, Len(page), Txs)
    <3> HIDE DEF all
    <3>1. QED
      BY <1>1, <2>1, Zenon DEF IsList
  <2>3. all \in Seq(Txs)
    <3> HIDE DEF all
    <3>1. QED
      BY <2>2, SeqFromElements
  <2>4. QED
    BY <2>3
<1> HIDE DEF all
<1>3. txs \in Seq(Txs) /\ OneOfEach(txs, all)
  BY <1>2, UniqueHasOne
<1>4. M!ExecutedNotices = M!FlattenSeq(seqs)
  <2>1. M!Transactions = [n \in DOMAIN txs |-> acts(n)]
    BY DEF M!Transactions, InTx, all
  <2> HIDE DEF txs, acts
  <2>2. QED
    BY <2>1 DEF M!ExecutedNotices
<1> HIDE DEF txs
<1>5. /\ DOMAIN txs = 1..Len(txs) /\ Len(txs) \in Nat /\ \A n \in DOMAIN txs : txs[n] \in Txs
      /\ \A n, m \in DOMAIN txs : txs[n] = txs[m] => n = m
      /\ \A n \in DOMAIN txs : \E i \in DOMAIN page : txs[n] = page[i].tx
      /\ \A i \in DOMAIN page : \E n \in DOMAIN txs : txs[n] = page[i].tx
  <2>1. \A n \in DOMAIN txs : txs[n] \in Txs
    BY <1>3
  <2>2. QED
    BY <1>2, <1>3, <2>1 DEF OneOfEach
<1> DEFINE tx == [n \in DOMAIN txs |-> txs[n]]
           A == [n \in DOMAIN txs |-> SendersOf(txs[n])]
           num == [n \in DOMAIN txs |-> Len(acts(n))]
<1>6. ASSUME NEW n \in DOMAIN txs
      PROVE  ToldIn(part_of(n), tx[n], A[n], "sent", num[n]) /\ num[n] \in Nat
  <2>1. InTx(txs[n]) # {} /\ txs[n] \in Txs
    BY <1>5 DEF InTx
  <2>2. ToldIn(part_of(n), txs[n], SendersOf(txs[n]), "sent", Len(acts(n))) /\ Len(acts(n)) \in Nat
    BY <2>1, TransactionIsTold
  <2> HIDE DEF part_of, acts
  <2>3. QED
    BY <2>2
<1>7. /\ DOMAIN seqs = 1..Len(txs) /\ \A n \in DOMAIN txs : seqs[n] = part_of(n)
      /\ seqs \in Seq(Seq(Noted)) /\ Len(seqs) = Len(txs)
  <2> HIDE DEF part_of
  <2>1. \A n \in DOMAIN txs : part_of(n) \in Seq(Noted)
    BY <1>6 DEF ToldIn
  <2>2. DOMAIN seqs = 1..Len(txs) /\ \A n \in 1..Len(txs) : seqs[n] = part_of(n)
    BY <1>5
  <2>3. seqs = [n \in 1..Len(txs) |-> seqs[n]]
    BY <1>5
  <2> HIDE DEF seqs
  <2>4. IsList(seqs, Len(txs), Seq(Noted))
    BY <1>5, <2>1, <2>2, <2>3 DEF IsList
  <2>5. QED
    BY <1>5, <2>2, <2>4, SeqFromElements
<1> HIDE DEF part_of, seqs, acts
<1>8. Grouped(Len(seqs), tx, A, num, "sent")
  <2>1. \A n \in 1..Len(txs) : tx[n] \in Txs /\ A[n] \subseteq Addresses /\ num[n] \in Nat
    <3>1. \A t : SendersOf(t) \subseteq Addresses
      BY MessagesHaveSenders DEF SendersOf, InTx
    <3>2. QED
      BY <1>5, <1>6, <3>1
  <2>2. ASSUME NEW n \in 1..Len(txs), NEW m \in 1..Len(txs), tx[n] = tx[m] PROVE n = m
    BY <1>5, <2>2
  <2>3. ASSUME NEW n \in 1..Len(txs), NEW a \in A[n] PROVE M!MovesOf(a, tx[n], "sent") # {}
    <3>1. PICK i \in DOMAIN page : page[i].tx = tx[n] /\ page[i].from = a
      BY <1>5 DEF SendersOf, InTx
    <3>2. i \in M!MovesOf(a, tx[n], "sent")
      BY <3>1 DEF M!MovesOf, M!End
    <3>3. QED
      BY <3>2
  <2>4. ASSUME NEW t \in Txs, NEW a \in Addresses, M!MovesOf(a, t, "sent") # {}
        PROVE  \E n \in 1..Len(txs) : tx[n] = t /\ a \in A[n]
    <3>1. PICK i \in DOMAIN page : page[i].tx = t /\ page[i].from = a
      BY <2>4 DEF M!MovesOf, M!End
    <3>2. PICK n \in DOMAIN txs : txs[n] = t
      BY <1>5, <3>1
    <3>3. tx[n] = t /\ a \in A[n] /\ n \in 1..Len(txs)
      BY <1>5, <3>1, <3>2 DEF SendersOf, InTx
    <3>4. QED
      BY <3>3
  <2> HIDE DEF tx, A, num
  <2>5. QED
    BY <1>5, <1>7, <2>1, <2>2, <2>3, <2>4 DEF Grouped
<1>9. \A n \in 1..Len(seqs) : ToldIn(seqs[n], tx[n], A[n], "sent", num[n])
  <2> HIDE DEF tx, A, num
  <2> TAKE n \in 1..Len(seqs)
  <2>1. n \in DOMAIN txs /\ seqs[n] = part_of(n)
    BY <1>5, <1>7
  <2>2. ToldIn(part_of(n), tx[n], A[n], "sent", num[n])
    BY <1>6, <2>1, Zenon
  <2>3. QED
    BY <2>1, <2>2, Zenon
<1> HIDE DEF tx, A, num
<1>10. "sent" \in M!Side
  BY DEF M!Side
<1>11. QED
  BY <1>4, <1>7, <1>8, <1>9, <1>10, JoinedAreTold

\* One list of notices after the other.
LEMMA BothAreTold ==
  ASSUME NEW f, NEW g, NEW X, NEW Y, NEW Z, Told(f, X), Told(g, Y),
         X \cap Y = {}, Z = X \cup Y,
         \A x \in DOMAIN f : Correct(f[x]), \A x \in DOMAIN g : Correct(g[x])
  PROVE  Told(f \o g, Z) /\ \A x \in DOMAIN (f \o g) : Correct((f \o g)[x])
<1> DEFINE h == f \o g
<1>1. f \in Seq(Noted) /\ g \in Seq(Noted)
  BY DEF Told
<1>2. /\ h \in Seq(Noted) /\ Len(f) \in Nat /\ Len(g) \in Nat
      /\ DOMAIN f = 1..Len(f) /\ DOMAIN g = 1..Len(g) /\ DOMAIN h = 1..(Len(f) + Len(g))
      /\ \A i \in 1..Len(f) : h[i] = f[i]
      /\ \A i \in 1..(Len(f) + Len(g)) :
           i \notin 1..Len(f) => i - Len(f) \in 1..Len(g) /\ h[i] = g[i - Len(f)]
  BY <1>1, Appended
<1> HIDE DEF h
<1>3. /\ \A x, y \in DOMAIN f : ToldOf(f[x]) = ToldOf(f[y]) => x = y
      /\ \A x \in DOMAIN f : ToldOf(f[x]) \in X
      /\ \A z \in X : \E x \in DOMAIN f : ToldOf(f[x]) = z
      /\ \A x, y \in DOMAIN g : ToldOf(g[x]) = ToldOf(g[y]) => x = y
      /\ \A x \in DOMAIN g : ToldOf(g[x]) \in Y
      /\ \A z \in Y : \E x \in DOMAIN g : ToldOf(g[x]) = z
  BY DEF Told
<1>4. ASSUME NEW x \in DOMAIN h
      PROVE  \/ x \in DOMAIN f /\ h[x] = f[x] /\ ToldOf(h[x]) \in X
             \/ x \notin DOMAIN f /\ x - Len(f) \in DOMAIN g /\ h[x] = g[x - Len(f)] /\ ToldOf(h[x]) \in Y
  BY <1>2, <1>3
<1>5. ASSUME NEW x \in DOMAIN h, NEW y \in DOMAIN h, ToldOf(h[x]) = ToldOf(h[y]) PROVE x = y
  <2>1. CASE x \in DOMAIN f
    <3>1. y \in DOMAIN f
      BY <1>3, <1>4, <1>5, <2>1
    <3>2. QED
      BY <1>3, <1>4, <1>5, <2>1, <3>1
  <2>2. CASE x \notin DOMAIN f
    <3>1. y \notin DOMAIN f
      BY <1>3, <1>4, <1>5, <2>2
    <3>2. x - Len(f) = y - Len(f)
      BY <1>3, <1>4, <1>5, <2>2, <3>1
    <3>3. x \in Nat /\ y \in Nat
      BY <1>2
    <3>4. QED
      BY <1>2, <3>2, <3>3
  <2>3. QED
    BY <2>1, <2>2
<1>6. \A x \in DOMAIN h : ToldOf(h[x]) \in Z /\ Correct(h[x])
  BY <1>4
<1>7. ASSUME NEW z \in Z PROVE \E x \in DOMAIN h : ToldOf(h[x]) = z
  <2>1. CASE z \in X
    <3>1. PICK x \in DOMAIN f : ToldOf(f[x]) = z
      BY <1>3, <2>1
    <3>2. x \in DOMAIN h /\ h[x] = f[x]
      BY <1>2
    <3>3. QED
      BY <3>1, <3>2
  <2>2. CASE z \in Y
    <3>1. PICK y \in DOMAIN g : ToldOf(g[y]) = z
      BY <1>3, <2>2
    <3> DEFINE x == Len(f) + y
    <3>2. x \in DOMAIN h /\ x \notin 1..Len(f) /\ x - Len(f) = y
      BY <1>2
    <3>3. h[x] = g[y]
      <4> HIDE DEF x
      <4>1. QED
        BY <1>2, <3>2
    <3>4. QED
      BY <3>1, <3>2, <3>3
  <2>3. QED
    BY <2>1, <2>2
<1>8. Told(h, Z)
  BY <1>2, <1>5, <1>6, <1>7 DEF Told
<1>9. QED
  BY <1>6, <1>8 DEF h

LEMMA RunTells ==
  ASSUME MatchTypes, Off \notin Addresses, M!Run, ~Lacking
  PROVE  Told(notices', M!Expected) /\ \A x \in DOMAIN notices' : Correct(notices'[x])
<1>1. ~M!Throws
  BY DEF M!Throws, Lacking
<1>2. \A z \in M!Expected : z[4] \in M!Side /\ (z[4] = "sent" \/ z[4] = "received")
  BY DEF M!Expected, M!Side
<1>3. /\ ExpectedOn("sent") \cap ExpectedOn("received") = {}
      /\ M!Expected = ExpectedOn("sent") \cup ExpectedOn("received")
  BY <1>2 DEF ExpectedOn
<1>4. CASE job = "executed"
  <2>1. notices' = M!ExecutedNotices
    BY <1>1, <1>4 DEF M!Run
  <2>2. ExpectedOn("received") = {}
    <3> SUFFICES ASSUME NEW z \in ExpectedOn("received") PROVE FALSE
      OBVIOUS
    <3>1. z[2] \in Addresses /\ M!MovesOf(z[2], z[3], "received") # {}
      BY DEF ExpectedOn, M!Expected
    <3>2. PICK i \in DOMAIN page : M!End(page[i], "received") = z[2]
      BY <3>1 DEF M!MovesOf
    <3>3. page[i].to = z[2]
      BY <3>2 DEF M!End
    <3>4. QED
      BY <1>4, <3>1, <3>3, MessagesHaveSenders
  <2>3. M!Expected = ExpectedOn("sent")
    BY <1>3, <2>2
  <2>4. QED
    BY <1>4, <2>1, <2>3, ExecutedIsTold
<1>5. CASE job # "executed"
  <2> DEFINE f == M!NoticesOf(M!NotifySent(page), "sent")
             g == M!NoticesOf(M!NotifyReceived(page), "received")
  <2>1. notices' = f \o g
    BY <1>1, <1>5 DEF M!Run
  <2>2. "sent" \in M!Side /\ "received" \in M!Side
    BY DEF M!Side
  <2>3. Told(f, ExpectedOn("sent")) /\ \A x \in DOMAIN f : Correct(f[x])
    BY <2>2, SideIsTold
  <2>4. Told(g, ExpectedOn("received")) /\ \A x \in DOMAIN g : Correct(g[x])
    BY <2>2, SideIsTold
  <2> HIDE DEF f, g
  <2>5. QED
    BY <1>3, <2>1, <2>3, <2>4, BothAreTold
<1>6. QED
  BY <1>4, <1>5

LEMMA MatchStarts ==
  ASSUME M!Init PROVE MatchInv
<1>1. page = <<>> /\ entries = <<>> /\ pc = "page"
  BY DEF M!Init
<1>2. page \in Seq(M!Move) /\ entries \in Seq(M!Entry) /\ DOMAIN page = {} /\ DOMAIN entries = {}
  BY <1>1
<1>3. QED
  BY <1>1, <1>2 DEF M!Init, MatchInv, MatchTypes

LEMMA MatchKept ==
  ASSUME MatchInv, Off \notin Addresses, [M!Next]_(M!vars)
  PROVE  MatchInv'
<1>1. MatchTypes
  BY DEF MatchInv
<1>2. CASE M!AddMove
  <2>1. PICK m \in M!Moves : page' = Append(page, m)
    BY <1>2 DEF M!AddMove
  <2>2. /\ pc' = "page" /\ job' = job /\ entries' = entries /\ tag' = tag
    BY <1>2 DEF M!AddMove
  <2>3. m \in M!Move /\ page \in Seq(M!Move) /\ M!Moves' = M!Moves
    BY <1>1, <2>1, <2>2 DEF M!Moves, MatchTypes
  <2>4. page' \in Seq(M!Move) /\ \A i \in DOMAIN page' : page'[i] \in M!Moves
    <3>1. /\ DOMAIN page' = 1..(Len(page) + 1) /\ page' \in Seq(M!Move) /\ Len(page) \in Nat
          /\ \A i \in 1..(Len(page) + 1) :
               IF i = Len(page) + 1 THEN page'[i] = m ELSE i \in DOMAIN page /\ page'[i] = page[i]
      BY <2>1, <2>3
    <3>2. \A i \in DOMAIN page : page[i] \in M!Moves
      BY <1>1 DEF MatchTypes
    <3>3. QED
      BY <2>1, <3>1, <3>2
  <2>5. MatchTypes'
    BY <1>1, <2>2, <2>3, <2>4 DEF MatchTypes
  <2>6. QED
    BY <2>2, <2>5 DEF MatchInv
<1>3. CASE M!AddEntry
  <2>1. PICK e \in M!Entry :
          /\ \A i \in DOMAIN entries : <<entries[i].user, entries[i].address>> # <<e.user, e.address>>
          /\ entries' = Append(entries, e)
    BY <1>3 DEF M!AddEntry
  <2>2. pc' = "entries" /\ job' = job /\ page' = page /\ tag' = tag
    BY <1>3 DEF M!AddEntry
  <2>3. /\ entries \in Seq(M!Entry)
        /\ \A i, j \in DOMAIN entries :
             entries[i].user = entries[j].user /\ entries[i].address = entries[j].address => i = j
    BY <1>1 DEF MatchTypes
  <2>4. /\ DOMAIN entries' = 1..(Len(entries) + 1) /\ entries' \in Seq(M!Entry) /\ Len(entries) \in Nat
        /\ \A i \in 1..(Len(entries) + 1) :
             IF i = Len(entries) + 1 THEN entries'[i] = e
                                     ELSE i \in DOMAIN entries /\ entries'[i] = entries[i]
    BY <2>1, <2>3
  <2>5. \A i \in DOMAIN entries : ~(entries[i].user = e.user /\ entries[i].address = e.address)
    BY <2>1
  <2>6. \A i, j \in DOMAIN entries' :
          entries'[i].user = entries'[j].user /\ entries'[i].address = entries'[j].address => i = j
    BY <2>3, <2>4, <2>5
  <2>7. M!Moves' = M!Moves
    BY <2>2 DEF M!Moves
  <2>8. MatchTypes'
    BY <1>1, <2>2, <2>4, <2>6, <2>7 DEF MatchTypes
  <2>9. QED
    BY <2>2, <2>8 DEF MatchInv
<1>4. CASE M!Run
  <2>1. pc' = "done" /\ job' = job /\ page' = page /\ entries' = entries /\ tag' = tag
    BY <1>4 DEF M!Run
  <2>2. ~Lacking =>
          Told(notices', M!Expected) /\ \A x \in DOMAIN notices' : Correct(notices'[x])
    BY <1>1, <1>4, RunTells
  <2>3. M!Moves' = M!Moves /\ M!Expected' = M!Expected /\ (Lacking' <=> Lacking)
    BY <2>1 DEF M!Moves, M!Expected, M!MovesOf, M!End, Lacking
  <2>4. MatchTypes'
    BY <1>1, <2>1, <2>3 DEF MatchTypes
  <2>5. ~Lacking => Told(notices, M!Expected)'
    BY <2>2, <2>3 DEF Told
  <2>6. ~Lacking => (\A x \in DOMAIN notices : Correct(notices[x]))'
    BY <2>1, <2>2 DEF Correct, M!MovesOf, M!End
  <2>7. QED
    BY <2>1, <2>3, <2>4, <2>5, <2>6 DEF MatchInv, AllTold
<1>5. CASE M!Quiet \/ UNCHANGED M!vars
  <2>1. /\ pc' = pc /\ job' = job /\ page' = page /\ entries' = entries /\ tag' = tag
        /\ notices' = notices
    BY <1>5 DEF M!Quiet, M!vars
  <2>2. M!Moves' = M!Moves /\ M!Expected' = M!Expected /\ (Lacking' <=> Lacking)
    BY <2>1 DEF M!Moves, M!Expected, M!MovesOf, M!End, Lacking
  <2>3. MatchTypes'
    BY <1>1, <2>1, <2>2 DEF MatchTypes
  <2>4. ASSUME pc = "done", ~Lacking
        PROVE  Told(notices, M!Expected)' /\ (\A x \in DOMAIN notices : Correct(notices[x]))'
    <3>1. Told(notices, M!Expected) /\ \A x \in DOMAIN notices : Correct(notices[x])
      BY <2>4 DEF MatchInv, AllTold
    <3>2. Told(notices, M!Expected)'
      BY <2>1, <2>2, <3>1 DEF Told
    <3>3. (\A x \in DOMAIN notices : Correct(notices[x]))'
      BY <2>1, <3>1 DEF Correct, M!MovesOf, M!End
    <3>4. QED
      BY <3>2, <3>3
  <2>5. QED
    BY <2>1, <2>2, <2>3, <2>4 DEF MatchInv, AllTold
<1>6. QED
  BY <1>2, <1>3, <1>4, <1>5 DEF M!Next

\* There are as many notices as there are to be.
LEMMA ToldAreCounted ==
  ASSUME NEW f, NEW X, Told(f, X)
  PROVE  Len(f) = Cardinality(X) /\ X = {ToldOf(n) : n \in M!Range(f)}
<1>1. /\ f \in Seq(Noted) /\ DOMAIN f = 1..Len(f) /\ Len(f) \in Nat
      /\ \A x, y \in DOMAIN f : ToldOf(f[x]) = ToldOf(f[y]) => x = y
      /\ \A x \in DOMAIN f : ToldOf(f[x]) \in X
      /\ \A z \in X : \E x \in DOMAIN f : ToldOf(f[x]) = z
  BY DEF Told
<1> DEFINE b == [x \in 1..Len(f) |-> ToldOf(f[x])]
<1>2. /\ b \in [1..Len(f) -> X]
      /\ \A x, y \in 1..Len(f) : b[x] = b[y] => x = y
      /\ \A z \in X : \E x \in 1..Len(f) : b[x] = z
  <2>1. \A x \in 1..Len(f) : b[x] = ToldOf(f[x])
    OBVIOUS
  <2>2. QED
    BY <1>1, <2>1
<1> HIDE DEF b
<1>3. ExistsBijection(1..Len(f), X)
  <2>1. b \in Bijection(1..Len(f), X)
    BY <1>2 DEF Bijection, Injection, IsInjective, Surjection
  <2>2. QED
    BY <2>1 DEF ExistsBijection
<1>4. Len(f) = Cardinality(X)
  BY <1>1, <1>3, FS_CountingElements
<1>5. X = {ToldOf(n) : n \in M!Range(f)}
  BY <1>1 DEF M!Range
<1>6. QED
  BY <1>4, <1>5

\* Whatever the page and the watch list are, a run that does not fail on the
\* settings of a user tells each user once of each transaction and each side
\* of it that his settings ask for, of the number of its transfers and with
\* his own name tag, and of nothing else (processExecutedNotification,
\* getTxNotifySent and getTxNotifyReceived, processCoinTransferNotification
\* and those of tokens and NFTs).
THEOREM NoticesAreAsAsked == ReadsSpec => []NoticesFollowSettings
<1> DEFINE Kept == part = "match" => MatchInv
<1>1. Off \notin Addresses
  BY ReadsConstantsOK
<1>2. ReadsInit => Kept
  <2>1. ReadsInit /\ part = "match" => M!Init
    BY DEF ReadsInit
  <2>2. QED
    BY <2>1, MatchStarts
<1>3. Kept /\ [ReadsNext]_allVars => Kept'
  <2>1. [ReadsNext]_allVars /\ part' = "match" => part = "match" /\ [M!Next]_(M!vars)
    BY DEF ReadsNext, allVars, matchVars, M!vars
  <2>2. QED
    BY <1>1, <2>1, MatchKept
<1>4. Kept => NoticesFollowSettings
  <2> DEFINE told == {<<n.user, n.address, n.tx, n.side>> : n \in M!Range(notices)}
  <2> SUFFICES ASSUME Kept, part = "match", pc = "done", ~Lacking
               PROVE  /\ Len(notices) = M!Cardinality(told) /\ told = M!Expected
                      /\ \A n \in M!Range(notices) : Correct(n)
    BY DEF NoticesFollowSettings, M!NoticesFollowSettings, Lacking, Correct, M!Cardinality,
           Cardinality
  <2>1. Told(notices, M!Expected) /\ \A x \in DOMAIN notices : Correct(notices[x])
    BY DEF MatchInv, AllTold
  <2>2. Len(notices) = Cardinality(M!Expected) /\ M!Expected = {ToldOf(n) : n \in M!Range(notices)}
    BY <2>1, ToldAreCounted
  <2>3. \A n \in M!Range(notices) : Correct(n)
    BY <2>1 DEF M!Range
  <2>4. /\ \A S : M!Cardinality(S) = Cardinality(S)
        /\ {ToldOf(n) : n \in M!Range(notices)} = told
    BY Zenon DEF M!Cardinality, Cardinality, ToldOf
  <2>5. QED
    BY <2>2, <2>3, <2>4
<1>5. QED
  BY <1>2, <1>3, <1>4, PTL DEF ReadsSpec

=============================================================================
