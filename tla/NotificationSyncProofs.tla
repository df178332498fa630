----------------------- MODULE NotificationSyncProofs -----------------------
(***************************************************************************)
(* Theorems about NotificationSync, for any number of users, jobs and      *)
(* workers, any page limit, quota, height and number of failures.          *)
(***************************************************************************)
EXTENDS NotificationSync, FiniteSetTheorems, TLAPS

-----------------------------------------------------------------------------
(* Type correctness.                                                       *)

LEMMA UpToIsFinite ==
  ASSUME NEW n \in Int
  PROVE  IsFiniteSet(1..n)
<1>1. 1 \in Int
  OBVIOUS
<1>2. QED
  BY <1>1, FS_Interval

\* Heights, users, transactions and ends are finitely many, so events are.
LEMMA EventIsFinite == IsFiniteSet(Event)
<1> DEFINE Rest == Users \X (Txs \X Ends)
           P == (1..MaxHeight) \X Rest
           f == [p \in P |-> <<p[1], p[2][1], p[2][2][1], p[2][2][2]>>]
<1>1. IsFiniteSet(Rest)
  BY ConstantsOK, FS_Product
<1>2. IsFiniteSet(P)
  <2>1. IsFiniteSet(1..MaxHeight)
    BY ConstantsOK, UpToIsFinite
  <2> HIDE DEF Rest
  <2>2. QED
    BY <1>1, <2>1, FS_Product
<1>3. f \in Surjection(P, Event)
  <2>1. f \in [P -> Event]
    BY DEF Event
  <2>2. ASSUME NEW e \in Event PROVE \E p \in P : f[p] = e
    <3>1. <<e[1], <<e[2], <<e[3], e[4]>>>>>> \in P
      BY DEF Event
    <3>2. f[<<e[1], <<e[2], <<e[3], e[4]>>>>>>] = e
      BY <3>1 DEF Event
    <3>3. QED
      BY <3>1, <3>2
  <2> HIDE DEF f, P
  <2>3. QED
    BY <2>1, <2>2 DEF Surjection
<1> HIDE DEF f, P
<1>4. QED
  BY <1>2, <1>3, FS_Surjection

\* The page of a run is finite, so what a user gets from it can be counted.
LEMMA SubsetsOfEventAreFinite ==
  ASSUME NEW S \in SUBSET Event
  PROVE  IsFiniteSet(S) /\ Cardinality(S) \in Nat
<1>1. IsFiniteSet(S)
  BY EventIsFinite, FS_Subset
<1>2. QED
  BY <1>1, FS_CardinalityType

LEMMA NoticesCount ==
  ASSUME TypeOK, NEW w \in Workers, NEW u
  PROVE  /\ Notices(w) \in SUBSET Event
         /\ Cardinality(NoticesOf(w, u)) \in Nat
<1>1. page[w] \in SUBSET Event
  BY DEF TypeOK, RunTypes
<1>2. Notices(w) \in SUBSET Event /\ NoticesOf(w, u) \in SUBSET Event
  BY <1>1 DEF Notices, NoticesOf
<1>3. QED
  BY <1>2, SubsetsOfEventAreFinite

\* A page is all there is, or it is full; its transactions are complete.
LEMMA PageIsFullOrAll ==
  ASSUME NEW S, NEW P \in Pages(S)
  PROVE  /\ P \subseteq S
         /\ P = S \/ Cardinality(Items(P)) = PageLimit
         /\ Cardinality(Items(S)) <= PageLimit => P = S
         /\ Cardinality(Items(P)) <= PageLimit
<1>1. CASE Cardinality(Items(S)) <= PageLimit
  BY <1>1 DEF Pages
<1>2. CASE ~(Cardinality(Items(S)) <= PageLimit)
  <2>1. PICK Q \in SUBSET Items(S) :
          Cardinality(Q) = PageLimit /\ P = {e \in S : <<e[1], e[3]>> \in Q}
    BY <1>2 DEF Pages
  <2>2. Items(P) = Q
    BY <2>1 DEF Items
  <2>3. Cardinality(Items(P)) = PageLimit /\ PageLimit \in Nat
    BY <2>1, <2>2, ConstantsOK
  <2>4. Cardinality(Items(P)) <= PageLimit
    BY <2>3
  <2>5. QED
    BY <1>2, <2>1, <2>3, <2>4
<1>3. QED
  BY <1>1, <1>2

\* What a step adds to the rows that no counter will hold is a number.
LEMMA LossesCount ==
  ASSUME TypeOK, NEW w \in Workers
  PROVE  /\ \A u \in Users : Cardinality(ToCount(w, u)) \in Nat
         /\ pc[w] = "count" => user[w] \in Users /\ Overwritten(w) \in Nat
         /\ pc[w] = "orphan" => user[w] \in Users
<1>1. ASSUME NEW u \in Users PROVE Cardinality(ToCount(w, u)) \in Nat
  <2>1. ToCount(w, u) \in SUBSET Event
    BY NoticesCount DEF ToCount, NoticesOf
  <2>2. QED
    BY <2>1, SubsetsOfEventAreFinite
<1>2. pc[w] \in {"count", "orphan"} => user[w] \in Users
  BY DEF TypeOK, RunTypes
<1>3. pc[w] = "count" => total[user[w]] \in {-1} \cup Nat /\ read[w] \in Nat
  BY <1>2 DEF TypeOK, RunTypes, UserTypes, NoRow
<1>4. QED
  BY <1>1, <1>2, <1>3 DEF Overwritten

LEMMA ReturnTypes ==
  ASSUME RunTypes, NEW w \in Workers, Return(w)
  PROVE  RunTypes'
BY ConstantsOK DEF RunTypes, Return, Steps

LEMMA GotoTypes ==
  ASSUME RunTypes, NEW w \in Workers, NEW s \in Steps \ {"count", "orphan"},
         pc[w] # "idle", Goto(w, s), UNCHANGED locals
  PROVE  RunTypes'
BY DEF RunTypes, Goto, locals

LEMMA NextUserTypes ==
  ASSUME RunTypes, NEW w \in Workers, pc[w] # "idle", NextUser(w)
  PROVE  RunTypes'
<1>1. CASE todo[w] = {user[w]}
  BY <1>1, ReturnTypes DEF NextUser
<1>2. CASE todo[w] # {user[w]}
  BY <1>2, ConstantsOK DEF NextUser, Goto, RunTypes, Steps
<1>3. QED
  BY <1>1, <1>2

\* Every disjunct of Next keeps the types: rows, cursors and counters stay
\* natural numbers and a run's local variables stay within their sets.
LEMMA TypeStep == TypeOK /\ [Next]_vars => TypeOK'
<1> SUFFICES ASSUME TypeOK, [Next]_vars PROVE TypeOK'
  OBVIOUS
<1> USE DEF TypeOK
<1>1. ASSUME IndexBlock PROVE TypeOK'
  <2>1. StoreTypes'
    <3>1. PICK touched \in [Jobs -> SUBSET (Users \X Txs \X Ends)] :
            events' = [j \in Jobs |->
                         events[j] \cup
                         {<<height + 1, t[1], t[2], t[3]>> : t \in touched[j]}]
      BY <1>1 DEF IndexBlock
    <3>2. height' \in 0..MaxHeight /\ height + 1 \in 1..MaxHeight
      BY <1>1, ConstantsOK DEF IndexBlock, StoreTypes
    <3>3. ASSUME NEW j \in Jobs PROVE events'[j] \in SUBSET Event
      BY <3>1, <3>2 DEF StoreTypes, Event
    <3>4. events' \in [Jobs -> SUBSET Event]
      BY <3>1, <3>3
    <3>5. QED
      BY <1>1, <3>2, <3>4 DEF StoreTypes, IndexBlock, queueVars
  <2>2. UserTypes' /\ RunTypes' /\ HistoryTypes'
    BY <1>1 DEF IndexBlock, queueVars, userVars, history, locals, UserTypes, RunTypes, HistoryTypes
  <2>3. QED
    BY <2>1, <2>2
<1>2. ASSUME NEW w \in Workers, NEW j \in Jobs, Begin(w, j) PROVE TypeOK'
  <2>1. RunTypes'
    <3>1. CASE point[j] = NoPoint
      BY <1>2, <3>1 DEF Begin, Goto, RunTypes, Steps
    <3>2. CASE point[j] # NoPoint
      <4>1. point[j] \in 0..MaxHeight
        BY <3>2 DEF StoreTypes
      <4>2. QED
        BY <1>2, <3>2, <4>1 DEF Begin, Goto, RunTypes, Steps
    <3>3. QED
      BY <3>1, <3>2
  <2>2. StoreTypes' /\ UserTypes' /\ HistoryTypes'
    BY <1>2 DEF Begin, queueVars, userVars, history, locals, StoreTypes, UserTypes, HistoryTypes
  <2>3. QED
    BY <2>1, <2>2
<1>3. ASSUME NEW w \in Workers, CreateSyncPoint(w) PROVE TypeOK'
  <2>1. StoreTypes'
    BY <1>3 DEF CreateSyncPoint, StoreTypes, RunTypes
  <2>2. RunTypes'
    BY <1>3, ReturnTypes DEF CreateSyncPoint
  <2>3. HistoryTypes'
    <3>1. CASE point[job[w]] = NoPoint
      <4>1. job[w] \in Jobs
        BY <1>3 DEF CreateSyncPoint, RunTypes
      <4>2. excused[job[w]] \cup events[job[w]] \in SUBSET Event
        BY <4>1 DEF HistoryTypes, StoreTypes
      <4>3. excused' \in [Jobs -> SUBSET Event]
        BY <1>3, <3>1, <4>2 DEF CreateSyncPoint, HistoryTypes
      <4>4. QED
        BY <1>3, <4>3 DEF CreateSyncPoint, HistoryTypes
    <3>2. CASE point[job[w]] # NoPoint
      BY <1>3, <3>2 DEF CreateSyncPoint, HistoryTypes
    <3>3. QED
      BY <3>1, <3>2
  <2>4. UserTypes'
    BY <1>3 DEF CreateSyncPoint, queueVars, userVars, history, locals, UserTypes
  <2>5. QED
    BY <2>1, <2>2, <2>3, <2>4
<1>4. ASSUME NEW w \in Workers, ReadWatchList(w) PROVE TypeOK'
  <2>1. RunTypes'
    <3>1. CASE Return(w)
      BY <3>1, ReturnTypes
    <3>2. CASE ~Return(w)
      <4>1. /\ pc[w] = "watch" /\ pc' = [pc EXCEPT ![w] = "fetch"]
            /\ \E S \in SUBSET Users : watch' = [watch EXCEPT ![w] = S]
            /\ \E b \in BOOLEAN : lacking' = [lacking EXCEPT ![w] = b]
            /\ UNCHANGED <<job, from, page, todo, user, read>>
        BY <1>4, <3>2 DEF ReadWatchList, Goto
      <4>2. QED
        BY <4>1 DEF RunTypes, Steps
    <3>3. QED
      BY <3>1, <3>2
  <2>2. StoreTypes' /\ UserTypes' /\ HistoryTypes'
    BY <1>4 DEF ReadWatchList, queueVars, userVars, history, locals, StoreTypes, UserTypes, HistoryTypes
  <2>3. QED
    BY <2>1, <2>2
<1>5. ASSUME NEW w \in Workers, FetchPage(w) PROVE TypeOK'
  <2>1. RunTypes'
    <3>1. PICK response \in Pages(Newer(job[w], from[w])) :
            IF response = {}
            THEN Return(w)
            ELSE /\ Goto(w, "prepare")
                 /\ page' = [page EXCEPT ![w] = response]
                 /\ UNCHANGED <<job, from, watch, lacking, todo, user, read>>
      BY <1>5 DEF FetchPage
    <3>2. Newer(job[w], from[w]) \in SUBSET Event
      <4>1. job[w] \in Jobs
        BY <1>5 DEF FetchPage, RunTypes
      <4>2. QED
        BY <4>1 DEF Newer, StoreTypes
    <3>3. response \in SUBSET Event
      BY <3>1, <3>2 DEF Pages
    <3>4. CASE response = {}
      BY <3>1, <3>4, ReturnTypes
    <3>5. CASE response # {}
      BY <1>5, <3>1, <3>3, <3>5 DEF FetchPage, Goto, RunTypes, Steps
    <3>6. QED
      BY <3>4, <3>5
  <2>2. StoreTypes' /\ UserTypes' /\ HistoryTypes'
    BY <1>5 DEF FetchPage, queueVars, userVars, history, locals, StoreTypes, UserTypes, HistoryTypes
  <2>3. QED
    BY <2>1, <2>2
<1>6. ASSUME NEW w \in Workers, Prepare(w) PROVE TypeOK'
  <2>1. RunTypes'
    BY <1>6, ReturnTypes, GotoTypes DEF Prepare, Steps
  <2>2. StoreTypes' /\ UserTypes' /\ HistoryTypes'
    BY <1>6 DEF Prepare, queueVars, userVars, history, locals, StoreTypes, UserTypes, HistoryTypes
  <2>3. QED
    BY <2>1, <2>2
<1>7. ASSUME NEW w \in Workers, SaveNotifications(w) PROVE TypeOK'
  <2>1. StoreTypes'
    BY <1>7 DEF SaveNotifications, StoreTypes, RunTypes
  <2>2. RunTypes'
    BY <1>7, GotoTypes DEF SaveNotifications, Steps
  <2>3. HistoryTypes'
    BY <1>7, NoticesCount DEF SaveNotifications, HistoryTypes
  <2>4. UserTypes'
    BY <1>7 DEF SaveNotifications, queueVars, userVars, history, locals, UserTypes
  <2>5. QED
    BY <2>1, <2>2, <2>3, <2>4
<1>8. ASSUME NEW w \in Workers, AdvanceCursor(w) PROVE TypeOK'
  <2>1. StoreTypes'
    <3>1. PICK first \in page[w] :
            point' = [point EXCEPT ![job[w]] = NewPoint(first)]
      BY <1>8 DEF AdvanceCursor
    <3>2. NewPoint(first) \in 0..MaxHeight
      BY ConstantsOK DEF RunTypes, Event, NewPoint
    <3>3. point' \in [Jobs -> {NoPoint} \cup 0..MaxHeight]
      BY <3>1, <3>2 DEF StoreTypes
    <3>4. QED
      BY <1>8, <3>3 DEF AdvanceCursor, StoreTypes
  <2>2. RunTypes'
    <3>1. CASE Notices(w) = {}
      BY <1>8, <3>1, ReturnTypes DEF AdvanceCursor
    <3>2. CASE Notices(w) # {}
      <4>1. {e[2] : e \in Notices(w)} \in SUBSET Users
        BY DEF RunTypes, Notices, Event
      <4>2. QED
        BY <1>8, <3>2, <4>1 DEF AdvanceCursor, Goto, RunTypes, Steps
    <3>3. QED
      BY <3>1, <3>2
  <2>3. HistoryTypes'
    BY <1>8 DEF AdvanceCursor, HistoryTypes, StoreTypes, RunTypes, LeftOut, Newer
  <2>4. UserTypes'
    BY <1>8 DEF AdvanceCursor, queueVars, userVars, history, locals, UserTypes
  <2>5. QED
    BY <2>1, <2>2, <2>3, <2>4
<1>9. ASSUME NEW w \in Workers, ReadQuota(w) PROVE TypeOK'
  <2>1. RunTypes'
    BY <1>9 DEF ReadQuota, Goto, RunTypes, UserTypes, Steps, NoRow
  <2>2. StoreTypes' /\ UserTypes' /\ HistoryTypes'
    BY <1>9 DEF ReadQuota, queueVars, userVars, history, locals, StoreTypes, UserTypes, HistoryTypes
  <2>3. QED
    BY <2>1, <2>2
<1>10. ASSUME NEW w \in Workers, WriteQuota(w) PROVE TypeOK'
  <2>1. UserTypes'
    BY <1>10, NoticesCount DEF WriteQuota, UserTypes, RunTypes, Counted, userVars
  <2>2. RunTypes'
    BY <1>10, NextUserTypes DEF WriteQuota
  <2>3. StoreTypes' /\ HistoryTypes'
    BY <1>10, LossesCount DEF WriteQuota, queueVars, userVars, history, locals, StoreTypes, HistoryTypes
  <2>4. QED
    BY <2>1, <2>2, <2>3
<1>11. ASSUME NEW w \in Workers, InsertOrphan(w) PROVE TypeOK'
  <2>1. UserTypes'
    BY <1>11 DEF InsertOrphan, UserTypes, RunTypes, userVars
  <2>2. RunTypes'
    BY <1>11, NextUserTypes DEF InsertOrphan
  <2>3. StoreTypes' /\ HistoryTypes'
    BY <1>11, LossesCount, NoticesCount DEF InsertOrphan, queueVars, userVars, history, locals, StoreTypes, HistoryTypes
  <2>4. QED
    BY <2>1, <2>2, <2>3
<1>12. ASSUME NEW w \in Workers, FailRun(w) PROVE TypeOK'
  <2>1. StoreTypes'
    BY <1>12, ConstantsOK DEF FailRun, StoreTypes
  <2>2. RunTypes'
    BY <1>12, ReturnTypes DEF FailRun
  <2>3. HistoryTypes'
    BY <1>12, LossesCount DEF FailRun, HistoryTypes, RunTypes
  <2>4. UserTypes'
    BY <1>12 DEF FailRun, queueVars, userVars, history, locals, UserTypes
  <2>5. QED
    BY <2>1, <2>2, <2>3, <2>4
<1>13. ASSUME NEW u \in Users, Untrack(u) PROVE TypeOK'
  <2>1. UserTypes'
    BY <1>13 DEF Untrack, UserTypes
  <2>2. StoreTypes' /\ RunTypes' /\ HistoryTypes'
    BY <1>13 DEF Untrack, queueVars, userVars, history, locals, StoreTypes, RunTypes, HistoryTypes
  <2>3. QED
    BY <2>1, <2>2
<1>14. ASSUME NEW u \in Users, FailUntrack(u) PROVE TypeOK'
  <2>1. StoreTypes'
    BY <1>14, ConstantsOK DEF FailUntrack, StoreTypes
  <2>2. UserTypes'
    BY <1>14 DEF FailUntrack, UserTypes, userVars
  <2>3. RunTypes' /\ HistoryTypes'
    BY <1>14 DEF FailUntrack, queueVars, userVars, history, locals, RunTypes, HistoryTypes
  <2>4. QED
    BY <2>1, <2>2, <2>3
<1>15. ASSUME NEW u \in Users, Request(u) PROVE TypeOK'
  <2>1. UserTypes'
    <3>1. CASE SetTracking(u)
      BY <3>1 DEF SetTracking, UserTypes, queueVars
    <3>2. CASE RegisterActivity(u)
      BY <3>2 DEF RegisterActivity, UserTypes, NoRow
    <3>3. CASE RegisterToken(u)
      BY <3>3 DEF RegisterToken, UserTypes, queueVars
    <3>4. CASE DeleteToken(u)
      BY <3>4 DEF DeleteToken, UserTypes, queueVars
    <3>5. CASE SetSettings(u)
      BY <3>5 DEF SetSettings, UserTypes, queueVars
    <3>6. QED
      BY <1>15, <3>1, <3>2, <3>3, <3>4, <3>5 DEF Request
  <2>2. StoreTypes' /\ RunTypes' /\ HistoryTypes'
    BY <1>15 DEF Request, SetTracking, SetSettings, RegisterActivity, RegisterToken, DeleteToken, queueVars, userVars, history, locals, StoreTypes, RunTypes, HistoryTypes
  <2>3. QED
    BY <2>1, <2>2
<1>16. ASSUME ResetRead \/ ResetSave PROVE TypeOK'
  <2>1. UserTypes'
    <3>1. CASE ResetRead
      <4>1. {u \in Users : total[u] # NoRow} \in SUBSET Users
        OBVIOUS
      <4>2. reset' \in [active : BOOLEAN, rows : SUBSET Users]
        BY <3>1, <4>1 DEF ResetRead
      <4>3. resets' \in 0..MaxReset
        BY <3>1, ConstantsOK DEF ResetRead, UserTypes
      <4>4. QED
        BY <3>1, <4>2, <4>3 DEF ResetRead, UserTypes, queueVars, userVars
    <3>2. CASE ResetSave
      BY <3>2 DEF ResetSave, NoReset, UserTypes, userVars
    <3>3. QED
      BY <1>16, <3>1, <3>2
  <2>2. HistoryTypes'
    BY <1>16 DEF ResetRead, ResetSave, HistoryTypes, history
  <2>3. StoreTypes' /\ RunTypes'
    BY <1>16 DEF ResetRead, ResetSave, queueVars, userVars, history, locals, StoreTypes, RunTypes
  <2>4. QED
    BY <2>1, <2>2, <2>3
<1>17. CASE UNCHANGED vars
  BY <1>17 DEF vars, queueVars, userVars, history, locals, StoreTypes, UserTypes, RunTypes, HistoryTypes
<1>18. QED
  BY <1>1, <1>2, <1>3, <1>4, <1>5, <1>6, <1>7, <1>8, <1>9, <1>10, <1>11, <1>12, <1>13, <1>14, <1>15, <1>16, <1>17 DEF Next, Step

LEMMA TypesAtInit == Init => TypeOK
<1> SUFFICES ASSUME Init PROVE TypeOK
  OBVIOUS
<1>1. StoreTypes
  BY ConstantsOK DEF Init, StoreTypes, NoPoint
<1>2. UserTypes
  BY ConstantsOK DEF Init, UserTypes, NoReset, NoRow
<1>3. RunTypes
  BY ConstantsOK DEF Init, RunTypes, Steps
<1>4. HistoryTypes
  BY DEF Init, HistoryTypes
<1>5. QED
  BY <1>1, <1>2, <1>3, <1>4 DEF TypeOK

\* The pipelines, the reset and the users' requests keep every variable in
\* its type, whatever the interleaving.
THEOREM TypeCorrect == Spec => []TypeOK
BY TypesAtInit, TypeStep, PTL DEF Spec

-----------------------------------------------------------------------------
(* Nothing is lost but for a known reason.                                 *)

\* Every event of j at or below h has a row or an excuse.
Accounted(j, h) ==
  \A e \in events[j] : e[1] <= h => saved[j][e] > 0 \/ e \in excused[j]

\* No event, cursor or poll lies beyond the last indexed block, so a new
\* block is above all of them.
WithinChain ==
  /\ \A j \in Jobs : point[j] <= height /\ \A e \in events[j] : e[1] <= height
  /\ \A w \in Workers : /\ from[w] <= height
                        /\ \A e \in page[w] : e[1] <= height

\* What a run holds: the cursor it started from is accounted for; its page
\* has all that lies between that cursor and the page's first entry unless it
\* is full; and once it is about to move the cursor, its rows are stored.
RunKnows(w) ==
  /\ pc[w] \in {"watch", "fetch", "prepare", "save", "cursor"} =>
       Accounted(job[w], from[w])
  /\ pc[w] \in {"prepare", "save", "cursor"} =>
       \A first \in page[w] : (\A e \in page[w] : first[1] >= e[1]) =>
         \A e \in events[job[w]] :
           from[w] < e[1] /\ e[1] <= first[1] =>
             e \in page[w] \/ Cardinality(Items(page[w])) = PageLimit
  /\ pc[w] = "cursor" => \A e \in Notices(w) : saved[job[w]][e] > 0

LossInv ==
  /\ TypeOK
  /\ WithinChain
  /\ OnlyKnownLosses
  /\ \A w \in Workers : RunKnows(w)

\* What every step keeps of the facts a run relies on: rows and excuses are
\* never taken back, and a new event lies above the old height.
Grows ==
  /\ height' \in Int /\ height <= height'
  /\ \A j \in Jobs :
       /\ events'[j] \subseteq Event
       /\ \A e \in events'[j] : e \in events[j] \/ e[1] > height
       /\ \A e \in Event : saved'[j][e] \in Nat /\ saved[j][e] <= saved'[j][e]
       /\ excused[j] \subseteq excused'[j]

LEMMA StepGrows == TypeOK /\ [Next]_vars => Grows
<1> SUFFICES ASSUME TypeOK, [Next]_vars PROVE Grows
  OBVIOUS
<1>1. TypeOK'
  BY TypeStep
<1>2. StoreTypes /\ HistoryTypes /\ StoreTypes' /\ RunTypes
  BY <1>1 DEF TypeOK
<1> HIDE DEF TypeOK
<1>3. height' \in Int /\ height \in Int
  BY <1>2, ConstantsOK DEF StoreTypes
<1>4. ASSUME NEW j \in Jobs
      PROVE  /\ events'[j] \subseteq Event
             /\ \A e \in Event : saved'[j][e] \in Nat /\ saved[j][e] \in Nat
  BY <1>2 DEF StoreTypes
<1>5. CASE IndexBlock
  <2>1. PICK touched \in [Jobs -> SUBSET (Users \X Txs \X Ends)] :
          events' = [j \in Jobs |->
                       events[j] \cup
                         {<<height + 1, t[1], t[2], t[3]>> : t \in touched[j]}]
    BY <1>5 DEF IndexBlock
  <2>2. height' = height + 1 /\ UNCHANGED <<saved, excused>>
    BY <1>5 DEF IndexBlock, queueVars, history
  <2>3. ASSUME NEW j \in Jobs, NEW e \in events'[j]
        PROVE  e \in events[j] \/ e[1] > height
    BY <2>1, <2>2, <1>3
  <2>4. QED
    BY <1>3, <1>4, <2>2, <2>3 DEF Grows
<1>6. CASE \E w \in Workers : CreateSyncPoint(w) \/ AdvanceCursor(w)
  <2>1. UNCHANGED <<height, events, saved>>
    BY <1>6 DEF CreateSyncPoint, AdvanceCursor
  <2>2. ASSUME NEW j \in Jobs PROVE excused[j] \subseteq excused'[j]
    <3>1. ASSUME NEW w \in Workers, CreateSyncPoint(w)
          PROVE  excused[j] \subseteq excused'[j]
      BY <3>1, <1>2 DEF CreateSyncPoint, HistoryTypes
    <3>2. ASSUME NEW w \in Workers, AdvanceCursor(w)
          PROVE  excused[j] \subseteq excused'[j]
      <4>1. PICK first \in page[w] :
              excused' = [excused EXCEPT ![job[w]] = @ \cup LeftOut(w, first[1])]
        BY <3>2 DEF AdvanceCursor
      <4>2. QED
        BY <4>1, <1>2 DEF HistoryTypes
    <3>3. QED
      BY <1>6, <3>1, <3>2
  <2>3. QED
    BY <1>3, <1>4, <2>1, <2>2 DEF Grows
<1>7. CASE \E w \in Workers : SaveNotifications(w)
  <2>1. PICK w \in Workers : SaveNotifications(w)
    BY <1>7
  <2>2. UNCHANGED <<height, events, excused>>
    BY <2>1 DEF SaveNotifications
  <2>3. ASSUME NEW j \in Jobs, NEW e \in Event
        PROVE  saved[j][e] <= saved'[j][e]
    <3>1. CASE j = job[w]
      <4>1. saved'[j][e] = saved[j][e] + IF e \in Notices(w) THEN 1 ELSE 0
        BY <2>1, <3>1, <1>2 DEF SaveNotifications, StoreTypes
      <4>2. QED
        BY <4>1, <1>4
    <3>2. CASE j # job[w]
      <4>1. saved'[j] = saved[j]
        BY <2>1, <3>2, <1>2 DEF SaveNotifications, StoreTypes
      <4>2. QED
        BY <4>1, <1>4
    <3>3. QED
      BY <3>1, <3>2
  <2>4. QED
    BY <1>3, <1>4, <2>2, <2>3 DEF Grows
<1>8. CASE UNCHANGED <<height, events, saved, excused>>
  BY <1>3, <1>4, <1>8 DEF Grows
<1>9. QED
  BY <1>5, <1>6, <1>7, <1>8 DEF Next, Step, Request, vars, queueVars, history,
     Begin, ReadWatchList, FetchPage, Prepare, ReadQuota, WriteQuota, InsertOrphan,
     FailRun, Untrack, FailUntrack, ResetRead, ResetSave, SetTracking, SetSettings,
     RegisterActivity, RegisterToken, DeleteToken

LEMMA AccountedKept ==
  ASSUME StoreTypes, Grows, NEW j \in Jobs, NEW h \in Int, h <= height, Accounted(j, h)
  PROVE  \A e \in events'[j] : e[1] <= h => saved'[j][e] > 0 \/ e \in excused'[j]
<1> SUFFICES ASSUME NEW e \in events'[j], e[1] <= h
             PROVE  saved'[j][e] > 0 \/ e \in excused'[j]
  OBVIOUS
<1>1. e \in Event /\ height \in Int /\ e[1] \in Int
  BY ConstantsOK DEF Grows, Event, StoreTypes
<1>2. e \in events[j]
  BY <1>1 DEF Grows
<1>3. CASE saved[j][e] > 0
  BY <1>1, <1>3 DEF Grows, StoreTypes
<1>4. CASE e \in excused[j]
  BY <1>4 DEF Grows
<1>5. QED
  BY <1>2, <1>3, <1>4 DEF Accounted

\* A step that leaves a run's local state alone leaves it what it knows.
LEMMA RunKept ==
  ASSUME TypeOK, WithinChain, Grows, NEW w \in Workers, RunKnows(w),
         pc'[w] = pc[w], job'[w] = job[w], from'[w] = from[w], watch'[w] = watch[w], page'[w] = page[w]
  PROVE  RunKnows(w)'
<1> USE DEF TypeOK
<1>1. CASE pc'[w] \notin {"watch", "fetch", "prepare", "save", "cursor"}
  BY <1>1 DEF RunKnows
<1>2. CASE pc'[w] \in {"watch", "fetch", "prepare", "save", "cursor"}
  <2>1. pc[w] \in {"watch", "fetch", "prepare", "save", "cursor"}
    BY <1>2
  <2>2. job[w] \in Jobs /\ from[w] \in Int /\ from[w] <= height /\ height \in Int
    BY <2>1, ConstantsOK DEF RunTypes, WithinChain, StoreTypes
  <2>3. Accounted(job[w], from[w])'
    <3>1. \A e \in events'[job[w]] : e[1] <= from[w] =>
             saved'[job[w]][e] > 0 \/ e \in excused'[job[w]]
      BY <2>1, <2>2, AccountedKept DEF RunKnows
    <3>2. QED
      BY <3>1 DEF Accounted
  <2>4. ASSUME pc'[w] \in {"prepare", "save", "cursor"},
               NEW first \in page[w], \A e \in page[w] : first[1] >= e[1],
               NEW e \in events'[job[w]], from[w] < e[1], e[1] <= first[1]
        PROVE  e \in page[w] \/ Cardinality(Items(page[w])) = PageLimit
    <3>1. first[1] <= height /\ first[1] \in Int /\ e[1] \in Int
      <4>1. first \in Event /\ e \in Event
        BY <2>2 DEF RunTypes, Grows
      <4>2. QED
        BY <4>1, ConstantsOK DEF WithinChain, Event
    <3>2. e \in events[job[w]]
      BY <2>2, <2>4, <3>1 DEF Grows
    <3>3. pc[w] \in {"prepare", "save", "cursor"}
      BY <2>4
    <3>4. QED
      BY <2>4, <3>2, <3>3 DEF RunKnows
  <2>5. ASSUME pc'[w] = "cursor", NEW e \in Notices(w)
        PROVE  saved'[job[w]][e] > 0
    <3>1. pc[w] = "cursor" /\ e \in Event
      BY <2>5 DEF Notices, RunTypes
    <3>2. saved[job[w]][e] > 0
      BY <2>5, <3>1 DEF RunKnows
    <3>3. QED
      BY <2>2, <3>1, <3>2 DEF Grows, StoreTypes
  <2>6. Notices(w)' = Notices(w)
    BY DEF Notices
  <2>7. QED
    BY <2>3, <2>4, <2>5, <2>6 DEF RunKnows
<1>3. QED
  BY <1>1, <1>2

\* A step of a run leaves the other runs' local state alone.
LEMMA OthersKept ==
  ASSUME TypeOK, NEW w \in Workers, NEW v \in Workers, v # w,
         \/ Step(w) \/ FailRun(w) \/ \E j \in Jobs : Begin(w, j)
  PROVE  /\ pc'[v] = pc[v] /\ job'[v] = job[v] /\ from'[v] = from[v]
         /\ watch'[v] = watch[v] /\ page'[v] = page[v]
         /\ todo'[v] = todo[v] /\ user'[v] = user[v] /\ read'[v] = read[v]
BY DEF Step, FailRun, Begin, CreateSyncPoint, ReadWatchList, FetchPage, Prepare,
       SaveNotifications, AdvanceCursor, ReadQuota, WriteQuota, InsertOrphan,
       NextUser, Goto, Return, locals, TypeOK, RunTypes

\* The step of a run establishes what the run knows afterwards.
LEMMA OwnStep ==
  ASSUME LossInv, NEW w \in Workers,
         Step(w) \/ FailRun(w) \/ \E j \in Jobs : Begin(w, j)
  PROVE  RunKnows(w)'
<1> USE DEF LossInv, TypeOK
<1>1. pc[w] \in Steps /\ from[w] \in Int /\ (pc[w] # "idle" => job[w] \in Jobs)
  BY ConstantsOK DEF RunTypes
<1>2. CASE pc'[w] \in {"idle", "create", "quota", "count", "orphan"}
  BY <1>2 DEF RunKnows
<1>3. ASSUME NEW j \in Jobs, Begin(w, j), point[j] # NoPoint PROVE RunKnows(w)'
  <2>1. /\ pc'[w] = "watch" /\ job'[w] = j /\ from'[w] = point[j]
        /\ UNCHANGED <<events, saved, excused>>
    BY <1>3 DEF Begin, Goto, RunTypes, history
  <2>2. Accounted(j, point[j])
    BY DEF OnlyKnownLosses, Accounted
  <2>3. QED
    BY <2>1, <2>2 DEF RunKnows, Accounted
<1>4. ASSUME ReadWatchList(w), pc'[w] = "fetch" PROVE RunKnows(w)'
  <2>1. /\ pc[w] = "watch" /\ job'[w] = job[w] /\ from'[w] = from[w]
        /\ UNCHANGED <<events, saved, excused>>
    BY <1>4 DEF ReadWatchList, Return, RunTypes, history
  <2>2. QED
    BY <1>4, <2>1 DEF RunKnows, Accounted
<1>5. ASSUME FetchPage(w), pc'[w] = "prepare" PROVE RunKnows(w)'
  <2>1. PICK response \in Pages(Newer(job[w], from[w])) :
          IF response = {}
          THEN Return(w)
          ELSE /\ Goto(w, "prepare")
               /\ page' = [page EXCEPT ![w] = response]
               /\ UNCHANGED <<job, from, watch, lacking, todo, user, read>>
    BY <1>5 DEF FetchPage
  <2>2. response # {}
    BY <1>5, <2>1 DEF Return, RunTypes
  <2>3. /\ pc[w] = "fetch" /\ job'[w] = job[w] /\ from'[w] = from[w]
        /\ page'[w] = response
        /\ UNCHANGED <<events, saved, excused>>
    BY <1>5, <2>1, <2>2 DEF FetchPage, RunTypes, history
  <2>4. response = Newer(job[w], from[w]) \/ Cardinality(Items(response)) = PageLimit
    BY PageIsFullOrAll
  <2>5. \A e \in events[job[w]] :
          from[w] < e[1] => e \in response \/ Cardinality(Items(response)) = PageLimit
    <3>1. ASSUME NEW e \in events[job[w]] PROVE e[1] \in Int
      BY <1>1, <2>3, ConstantsOK DEF StoreTypes, Event
    <3>2. QED
      BY <1>1, <2>4, <3>1 DEF Newer
  <2>6. QED
    BY <1>5, <2>3, <2>5 DEF RunKnows, Accounted
<1>6. ASSUME Prepare(w), pc'[w] \in {"save", "cursor"} PROVE RunKnows(w)'
  <2>1. /\ pc[w] = "prepare" /\ UNCHANGED locals
        /\ UNCHANGED <<events, saved, excused>>
        /\ pc'[w] = "cursor" => Notices(w) = {}
    BY <1>6 DEF Prepare, Goto, Return, RunTypes, history
  <2>2. Notices(w)' = Notices(w)
    BY <2>1 DEF Notices, locals
  <2>3. QED
    BY <1>6, <2>1, <2>2 DEF RunKnows, Accounted, locals
<1>7. ASSUME SaveNotifications(w) PROVE RunKnows(w)'
  <2>1. /\ pc[w] = "save" /\ pc'[w] = "cursor" /\ UNCHANGED locals
        /\ UNCHANGED <<events, excused>>
    BY <1>7 DEF SaveNotifications, Goto, RunTypes
  <2>2. ASSUME NEW e \in Event
        PROVE  /\ saved[job[w]][e] \in Nat
               /\ saved'[job[w]][e] =
                    saved[job[w]][e] + IF e \in Notices(w) THEN 1 ELSE 0
    BY <1>1, <1>7, <2>1 DEF SaveNotifications, StoreTypes
  <2>3. events[job[w]] \subseteq Event /\ Notices(w) \subseteq Event
    BY <1>1, <2>1 DEF StoreTypes, RunTypes, Notices
  <2>4. \A e \in Notices(w) : saved'[job[w]][e] > 0
    BY <2>2, <2>3
  <2>5. \A e \in events[job[w]] : saved[job[w]][e] > 0 => saved'[job[w]][e] > 0
    BY <2>2, <2>3
  <2>6. Notices(w)' = Notices(w)
    BY <2>1 DEF Notices, locals
  <2>7. QED
    BY <2>1, <2>4, <2>5, <2>6 DEF RunKnows, Accounted, locals
<1>8. CASE \E j \in Jobs : Begin(w, j)
  <2>1. PICK j \in Jobs : Begin(w, j)
    BY <1>8
  <2>2. point[j] = NoPoint => pc'[w] = "create"
    BY <2>1 DEF Begin, Goto, RunTypes
  <2>3. QED
    BY <1>2, <1>3, <2>1, <2>2
<1>9. CASE ReadWatchList(w) \/ FetchPage(w) \/ Prepare(w)
  <2>1. /\ ReadWatchList(w) => pc'[w] \in {"idle", "fetch"}
        /\ FetchPage(w) => pc'[w] \in {"idle", "prepare"}
        /\ Prepare(w) => pc'[w] \in {"idle", "save", "cursor"}
    BY DEF ReadWatchList, FetchPage, Prepare, Goto, Return, RunTypes
  <2>2. QED
    BY <1>2, <1>4, <1>5, <1>6, <1>9, <2>1
<1>10. CASE \/ CreateSyncPoint(w) \/ AdvanceCursor(w) \/ ReadQuota(w)
            \/ WriteQuota(w) \/ InsertOrphan(w) \/ FailRun(w)
  <2>1. pc'[w] \in {"idle", "quota", "count", "orphan"}
    BY <1>10 DEF CreateSyncPoint, AdvanceCursor, ReadQuota, WriteQuota, InsertOrphan,
                 FailRun, NextUser, Goto, Return, RunTypes
  <2>2. QED
    BY <1>2, <2>1
<1>11. QED
  BY <1>7, <1>8, <1>9, <1>10 DEF Step

\* The cursor of the job moves to a height at and below which all is
\* accounted for: by the cursor the run started from, by a row it stored, or
\* by an excuse.
LEMMA CursorStep ==
  ASSUME LossInv, NEW w \in Workers, AdvanceCursor(w)
  PROVE  OnlyKnownLosses'
<1> USE DEF LossInv, TypeOK
<1>1. PICK first \in page[w] :
        /\ \A e \in page[w] : first[1] >= e[1]
        /\ point' = [point EXCEPT ![job[w]] = NewPoint(first)]
        /\ excused' = [excused EXCEPT ![job[w]] = @ \cup LeftOut(w, first[1])]
  BY DEF AdvanceCursor
<1>2. pc[w] = "cursor" /\ job[w] \in Jobs /\ UNCHANGED <<events, saved>>
  BY DEF AdvanceCursor, RunTypes
<1>3. first[1] \in Int /\ from[w] \in Int
  BY ConstantsOK DEF RunTypes, Event
<1>4. ASSUME NEW e \in events[job[w]], e[1] <= first[1]
      PROVE  saved[job[w]][e] > 0 \/ e \in excused'[job[w]]
  <2>1. /\ Accounted(job[w], from[w])
        /\ from[w] < e[1] => e \in page[w] \/ Cardinality(Items(page[w])) = PageLimit
        /\ \A f \in Notices(w) : saved[job[w]][f] > 0
    BY <1>1, <1>2, <1>4 DEF RunKnows
  <2>2. e \in Event /\ e[1] \in Int
    BY <1>2, ConstantsOK DEF StoreTypes, Event
  <2>3. excused'[job[w]] = excused[job[w]] \cup LeftOut(w, first[1])
    BY <1>1, <1>2 DEF HistoryTypes
  <2>4. CASE e[1] <= from[w]
    BY <2>1, <2>3, <2>4 DEF Accounted
  <2>5. CASE from[w] < e[1]
    <3>1. e \in Newer(job[w], from[w])
      BY <1>3, <2>2, <2>5 DEF Newer
    <3>2. CASE e \in page[w] /\ e[2] \in watch[w]
      BY <2>1, <3>2 DEF Notices
    <3>3. CASE ~(e \in page[w] /\ e[2] \in watch[w])
      BY <1>4, <2>1, <2>3, <2>5, <3>1, <3>3 DEF LeftOut
    <3>4. QED
      BY <3>2, <3>3
  <2>6. QED
    BY <1>3, <2>2, <2>4, <2>5
<1>5. ASSUME NEW j \in Jobs, j # job[w]
      PROVE  point'[j] = point[j] /\ excused'[j] = excused[j]
  BY <1>1, <1>5 DEF StoreTypes, HistoryTypes
<1>6. point'[job[w]] = first[1]
  BY <1>1, <1>2 DEF StoreTypes, NewPoint
<1>7. QED
  BY <1>2, <1>4, <1>5, <1>6 DEF OnlyKnownLosses

\* Cursors and pages come from events, events from indexed blocks.
LEMMA WithinChainStep == LossInv /\ [Next]_vars => WithinChain'
<1> SUFFICES ASSUME LossInv, [Next]_vars PROVE WithinChain'
  OBVIOUS
<1> USE DEF LossInv, TypeOK
<1>1. Grows /\ height \in Int /\ TypeOK'
  BY StepGrows, TypeStep, ConstantsOK DEF StoreTypes
<1>2. ASSUME NEW j \in Jobs, NEW e \in events'[j] PROVE e[1] <= height'
  <2>1. CASE IndexBlock
    <3>1. PICK touched \in [Jobs -> SUBSET (Users \X Txs \X Ends)] :
            events' = [k \in Jobs |->
                         events[k] \cup
                         {<<height + 1, t[1], t[2], t[3]>> : t \in touched[k]}]
      BY <2>1 DEF IndexBlock
    <3>2. e \in events[j] \/ e[1] = height + 1
      BY <3>1
    <3>3. e \in Event /\ e[1] \in Int
      BY <1>1, ConstantsOK DEF Grows, Event
    <3>4. QED
      BY <1>1, <2>1, <3>2, <3>3 DEF IndexBlock, WithinChain
  <2>2. CASE UNCHANGED <<height, events>>
    BY <2>2 DEF WithinChain
  <2>3. QED
    BY <2>1, <2>2 DEF Next, Step, Request, vars, Begin, CreateSyncPoint,
       ReadWatchList, FetchPage, Prepare, SaveNotifications, AdvanceCursor, ReadQuota,
       WriteQuota, InsertOrphan, FailRun, Untrack, FailUntrack, ResetRead, ResetSave,
       SetTracking, SetSettings, RegisterActivity, RegisterToken, DeleteToken
<1>3. ASSUME NEW j \in Jobs PROVE point'[j] <= height'
  <2>1. point[j] \in Int /\ point'[j] \in Int /\ height' \in Int
    BY <1>1, ConstantsOK DEF StoreTypes, NoPoint
  <2>2. CASE point'[j] = point[j]
    BY <1>1, <2>1, <2>2 DEF Grows, WithinChain
  <2>3. ASSUME NEW w \in Workers, CreateSyncPoint(w) PROVE point'[j] <= height'
    BY <1>1, <2>1, <2>3 DEF CreateSyncPoint, WithinChain, StoreTypes
  <2>4. ASSUME NEW w \in Workers, AdvanceCursor(w) PROVE point'[j] <= height'
    <3>1. PICK first \in page[w] :
            point' = [point EXCEPT ![job[w]] = NewPoint(first)]
      BY <2>4 DEF AdvanceCursor
    <3>2. first[1] <= height /\ UNCHANGED height
      BY <2>4 DEF AdvanceCursor, WithinChain
    <3>3. QED
      BY <3>1, <3>2 DEF NewPoint, StoreTypes, WithinChain
  <2>5. \/ UNCHANGED point
        \/ \E w \in Workers : CreateSyncPoint(w) \/ AdvanceCursor(w)
    BY DEF Next, Step, Request, vars, queueVars, IndexBlock, Begin,
       ReadWatchList, FetchPage, Prepare, SaveNotifications, ReadQuota,
       WriteQuota, InsertOrphan, FailRun, Untrack, FailUntrack, ResetRead, ResetSave,
       SetTracking, SetSettings, RegisterActivity, RegisterToken, DeleteToken
  <2>6. QED
    BY <2>2, <2>3, <2>4, <2>5
<1>4. ASSUME NEW w \in Workers
      PROVE  from'[w] <= height' /\ \A e \in page'[w] : e[1] <= height'
  <2>1. /\ from[w] <= height' /\ 0 <= height'
        /\ \A e \in page[w] : e[1] <= height'
        /\ \A j \in Jobs : point[j] <= height'
    <3>1. from[w] \in Int /\ page[w] \subseteq Event /\ height' \in Int /\ 0 <= height
      BY <1>1, ConstantsOK DEF RunTypes, StoreTypes
    <3>2. \A e \in Event : e[1] \in Int
      BY ConstantsOK DEF Event
    <3>3. \A j \in Jobs : point[j] \in Int
      BY ConstantsOK DEF StoreTypes, NoPoint
    <3>4. QED
      BY <1>1, <3>1, <3>2, <3>3 DEF Grows, WithinChain
  <2>2. CASE from'[w] = from[w] /\ page'[w] = page[w]
    BY <2>1, <2>2
  <2>3. CASE Return(w)
    BY <2>1, <2>3 DEF Return, RunTypes
  <2>4. CASE \E j \in Jobs : Begin(w, j)
    BY <2>1, <2>4 DEF Begin, RunTypes
  <2>5. CASE FetchPage(w) /\ ~Return(w)
    <3>1. PICK response \in Pages(Newer(job[w], from[w])) :
            page' = [page EXCEPT ![w] = response] /\ UNCHANGED from
      BY <2>5 DEF FetchPage
    <3>2. response \subseteq events[job[w]] /\ job[w] \in Jobs
      <4>1. response \subseteq Newer(job[w], from[w])
        BY <3>1, PageIsFullOrAll
      <4>2. QED
        BY <2>5, <4>1 DEF Newer, FetchPage, RunTypes
    <3>3. page'[w] = response /\ UNCHANGED height
      BY <2>5, <3>1 DEF RunTypes, FetchPage
    <3>4. QED
      BY <2>1, <3>1, <3>2, <3>3 DEF WithinChain
  <2>6. \/ from'[w] = from[w] /\ page'[w] = page[w]
        \/ Return(w) \/ FetchPage(w) \/ \E j \in Jobs : Begin(w, j)
    <3>1. ASSUME NEW v \in Workers, v # w,
                 Step(v) \/ FailRun(v) \/ \E j \in Jobs : Begin(v, j)
          PROVE  from'[w] = from[w] /\ page'[w] = page[w]
      BY <3>1, OthersKept
    <3>2. ASSUME Step(w) \/ FailRun(w) \/ \E j \in Jobs : Begin(w, j)
          PROVE  \/ from'[w] = from[w] /\ page'[w] = page[w]
                 \/ Return(w) \/ FetchPage(w) \/ \E j \in Jobs : Begin(w, j)
      BY <3>2 DEF Step, FailRun, CreateSyncPoint, ReadWatchList, Prepare,
         SaveNotifications, AdvanceCursor, ReadQuota, WriteQuota, InsertOrphan,
         NextUser, locals
    <3>3. CASE UNCHANGED <<from, page>>
      BY <3>3
    <3>4. QED
      BY <3>1, <3>2, <3>3 DEF Next, Request, vars, queueVars, locals, IndexBlock, Untrack,
         FailUntrack, ResetRead, ResetSave, SetTracking, SetSettings, RegisterActivity,
         RegisterToken, DeleteToken
  <2>7. QED
    BY <2>2, <2>3, <2>4, <2>5, <2>6
<1>5. QED
  BY <1>2, <1>3, <1>4 DEF WithinChain

LEMMA LossStep == LossInv /\ [Next]_vars => LossInv'
<1> SUFFICES ASSUME LossInv, [Next]_vars PROVE LossInv'
  OBVIOUS
<1> USE DEF LossInv
<1>1. TypeOK' /\ Grows /\ WithinChain'
  BY TypeStep, StepGrows, WithinChainStep
<1>2. OnlyKnownLosses'
  <2>1. CASE \E w \in Workers : AdvanceCursor(w)
    BY <2>1, CursorStep
  <2>2. CASE \E w \in Workers : CreateSyncPoint(w)
    <3>1. PICK w \in Workers : CreateSyncPoint(w)
      BY <2>2
    <3>2. UNCHANGED <<events, saved>> /\ job[w] \in Jobs
      BY <3>1 DEF CreateSyncPoint, TypeOK, RunTypes
    <3>3. ASSUME NEW j \in Jobs
          PROVE  \/ point'[j] = point[j] /\ excused'[j] = excused[j]
                 \/ events[j] \subseteq excused'[j]
      BY <3>1, <3>2 DEF CreateSyncPoint, TypeOK, StoreTypes, HistoryTypes
    <3>4. QED
      BY <3>2, <3>3 DEF OnlyKnownLosses
  <2>3. CASE UNCHANGED point
    <3>1. ASSUME NEW j \in Jobs
          PROVE  \A e \in events'[j] :
                   e[1] <= point[j] => saved'[j][e] > 0 \/ e \in excused'[j]
      <4>1. point[j] \in Int /\ point[j] <= height
        BY ConstantsOK DEF TypeOK, StoreTypes, NoPoint, WithinChain
      <4>2. Accounted(j, point[j])
        BY DEF Accounted, OnlyKnownLosses
      <4>3. QED
        BY <1>1, <4>1, <4>2, AccountedKept DEF TypeOK
    <3>2. QED
      BY <2>3, <3>1 DEF OnlyKnownLosses
  <2>4. QED
    BY <2>1, <2>2, <2>3 DEF Next, Step, Request, vars, queueVars, IndexBlock, Begin,
       ReadWatchList, FetchPage, Prepare, SaveNotifications, ReadQuota,
       WriteQuota, InsertOrphan, FailRun, Untrack, FailUntrack, ResetRead, ResetSave,
       SetTracking, SetSettings, RegisterActivity, RegisterToken, DeleteToken
<1>3. ASSUME NEW w \in Workers PROVE RunKnows(w)'
  <2>1. CASE Step(w) \/ FailRun(w) \/ \E j \in Jobs : Begin(w, j)
    BY <2>1, OwnStep
  <2>2. CASE \E v \in Workers \ {w} :
               Step(v) \/ FailRun(v) \/ \E j \in Jobs : Begin(v, j)
    BY <1>1, <2>2, OthersKept, RunKept
  <2>3. CASE UNCHANGED <<pc, job, from, watch, page>>
    BY <1>1, <2>3, RunKept
  <2>4. QED
    BY <2>1, <2>2, <2>3 DEF Next, Request, vars, queueVars, locals, IndexBlock, Untrack,
       FailUntrack, ResetRead, ResetSave, SetTracking, SetSettings, RegisterActivity,
       RegisterToken, DeleteToken
<1>4. QED
  BY <1>1, <1>2, <1>3

\* Whatever dies between the rows and the cursor, and however the runs of a
\* job overlap: an event that a cursor has passed has a notification row, or
\* it was let go for one of the reasons the code knows.
THEOREM NothingIsLost == Spec => []OnlyKnownLosses
<1>1. Init => LossInv
  BY TypesAtInit DEF Init, LossInv, WithinChain, OnlyKnownLosses, RunKnows, NoPoint
<1>2. LossInv => OnlyKnownLosses
  BY DEF LossInv
<1>3. QED
  BY <1>1, <1>2, LossStep, PTL DEF Spec


-----------------------------------------------------------------------------
(* Where runs of one job do not overlap.                                   *)

RunOf(w) == Step(w) \/ FailRun(w) \/ \E j \in Jobs : Begin(w, j)

\* Only a run moves a run, a cursor or the rows.
LEMMA RunsOnly ==
  [Next]_vars => \/ \E w \in Workers : RunOf(w)
                 \/ UNCHANGED <<point, saved, redo, pc, locals>>
BY DEF RunOf, Next, Request, vars, queueVars, history, IndexBlock, Untrack,
       FailUntrack, ResetRead, ResetSave, SetTracking, SetSettings, RegisterActivity,
       RegisterToken, DeleteToken

\* What a run of w does to its place: it begins, goes on, or returns.
LEMMA OwnMove ==
  ASSUME TypeOK, NEW w \in Workers, RunOf(w)
  PROVE  \/ Return(w) /\ pc[w] # "idle"
         \/ \E j \in Jobs : Begin(w, j)
         \/ pc[w] # "idle" /\ pc'[w] # "idle" /\ UNCHANGED <<job, from>>
BY DEF RunOf, Step, FailRun, CreateSyncPoint, ReadWatchList, FetchPage, Prepare,
       SaveNotifications, AdvanceCursor, ReadQuota, WriteQuota, InsertOrphan,
       NextUser, Goto, locals, TypeOK, RunTypes

\* No two workers run the same job, and an idle worker holds none.
OneRun ==
  /\ \A v, w \in Workers : v # w /\ job[v] = job[w] => job[v] = NoJob
  /\ \A w \in Workers : pc[w] = "idle" => job[w] = NoJob

\* Runs that overlapped stay on record.
LEMMA OverlapStays == [Next]_vars /\ overlapped => overlapped'
BY DEF Next, Step, Request, vars, history, IndexBlock, Begin, CreateSyncPoint,
       ReadWatchList, FetchPage, Prepare, SaveNotifications, AdvanceCursor,
       ReadQuota, WriteQuota, InsertOrphan, FailRun, Untrack, FailUntrack, ResetRead,
       ResetSave, SetTracking, SetSettings, RegisterActivity, RegisterToken, DeleteToken

LEMMA OneRunStep ==
  ASSUME ~overlapped', TypeOK, OneRun, [Next]_vars
  PROVE  OneRun'
<1>1. ASSUME NEW w \in Workers, RunOf(w) PROVE OneRun'
  <2>1. ASSUME NEW v \in Workers, v # w
        PROVE  job'[v] = job[v] /\ pc'[v] = pc[v]
    BY <1>1, <2>1, OthersKept DEF RunOf
  <2>2. CASE Return(w)
    <3>1. job'[w] = NoJob
      BY <2>2 DEF Return, TypeOK, RunTypes
    <3>2. QED
      BY <2>1, <3>1 DEF OneRun
  <2>3. CASE \E j \in Jobs : Begin(w, j)
    <3>1. PICK j \in Jobs : Begin(w, j)
      BY <2>3
    <3>2. job'[w] = j /\ pc'[w] # "idle" /\ \A v \in Workers : job[v] # j
      BY <3>1 DEF Begin, Goto, TypeOK, RunTypes
    <3>3. QED
      BY <2>1, <3>2 DEF OneRun
  <2>4. CASE pc[w] # "idle" /\ pc'[w] # "idle" /\ UNCHANGED <<job, from>>
    BY <2>1, <2>4 DEF OneRun
  <2>5. QED
    BY <1>1, <2>2, <2>3, <2>4, OwnMove
<1>2. CASE UNCHANGED <<pc, locals>>
  BY <1>2 DEF OneRun, locals
<1>3. QED
  BY <1>1, <1>2, RunsOnly

\* The other workers that run do so in other jobs.
LEMMA Alone ==
  ASSUME TypeOK, OneRun, NEW w \in Workers, NEW v \in Workers, v # w,
         pc[w] # "idle"
  PROVE  job[w] \in Jobs /\ job[v] # job[w]
BY ConstantsOK DEF TypeOK, RunTypes, OneRun

\* A step moves a cursor in two ways: the first run of the job creates it, or
\* it goes to the highest entry of a page.
LEMMA CursorMoves ==
  ASSUME TypeOK, NEW w \in Workers, RunOf(w), NEW j \in Jobs, point'[j] # point[j]
  PROVE  /\ job[w] = j
         /\ \/ pc[w] = "create" /\ point[j] = NoPoint /\ point'[j] = height
            \/ /\ pc[w] = "cursor"
               /\ \E first \in page[w] : /\ \A e \in page[w] : first[1] >= e[1]
                                         /\ point'[j] = first[1]
<1>1. CreateSyncPoint(w) \/ AdvanceCursor(w)
  BY DEF RunOf, Step, FailRun, Begin, ReadWatchList, FetchPage, Prepare,
         SaveNotifications, ReadQuota, WriteQuota, InsertOrphan
<1>2. CASE CreateSyncPoint(w)
  BY <1>2 DEF CreateSyncPoint, TypeOK, StoreTypes
<1>3. CASE AdvanceCursor(w)
  BY <1>3 DEF AdvanceCursor, NewPoint, TypeOK, StoreTypes
<1>4. QED
  BY <1>1, <1>2, <1>3

Polling == {"watch", "fetch", "prepare", "save", "cursor"}

\* Until it moves the cursor, a run stands at the cursor it read, and its page
\* lies above it.
Follows(w) ==
  /\ pc[w] \in Polling => /\ from[w] = point[job[w]]
                          /\ point[job[w]] # NoPoint
  /\ pc[w] \in {"prepare", "save", "cursor"} =>
       \A e \in page[w] : from[w] < e[1]

LEMMA FollowsStep ==
  ASSUME TypeOK, OneRun, \A w \in Workers : Follows(w), [Next]_vars,
         NEW v \in Workers
  PROVE  Follows(v)'
<1>1. ASSUME NEW w \in Workers, RunOf(w), v # w PROVE Follows(v)'
  <2>1. /\ pc'[v] = pc[v] /\ job'[v] = job[v] /\ from'[v] = from[v]
        /\ page'[v] = page[v]
    BY <1>1, OthersKept DEF RunOf
  <2>2. pc[v] \in Polling => point'[job[v]] = point[job[v]]
    <3>1. ASSUME pc[v] \in Polling, point'[job[v]] # point[job[v]] PROVE FALSE
      <4>1. pc[v] # "idle" /\ job[v] \in Jobs
        BY <3>1 DEF Polling, TypeOK, RunTypes
      <4>2. job[w] = job[v]
        BY <1>1, <3>1, <4>1, CursorMoves
      <4>3. QED
        BY <1>1, <4>1, <4>2, Alone
    <3>2. QED
      BY <3>1
  <2>3. QED
    BY <2>1, <2>2 DEF Follows, Polling
<1>2. ASSUME RunOf(v) PROVE Follows(v)'
  <2>1. CASE pc'[v] \notin Polling
    BY <2>1 DEF Follows, Polling
  <2>2. CASE \E j \in Jobs : Begin(v, j)
    <3>1. PICK j \in Jobs : Begin(v, j)
      BY <2>2
    <3>2. CASE point[j] = NoPoint
      BY <2>1, <3>1, <3>2 DEF Begin, Goto, TypeOK, RunTypes, Follows, Polling
    <3>3. CASE point[j] # NoPoint
      BY <3>1, <3>3 DEF Begin, Goto, TypeOK, RunTypes, Follows, Polling
    <3>4. QED
      BY <3>2, <3>3
  <2>3. CASE FetchPage(v) /\ pc'[v] = "prepare"
    <3>1. PICK response \in Pages(Newer(job[v], from[v])) :
            IF response = {}
            THEN Return(v)
            ELSE /\ Goto(v, "prepare")
                 /\ page' = [page EXCEPT ![v] = response]
                 /\ UNCHANGED <<job, from, watch, lacking, todo, user, read>>
      BY <2>3 DEF FetchPage
    <3>2. response # {}
      BY <2>3, <3>1 DEF Return, TypeOK, RunTypes
    <3>3. /\ pc[v] = "fetch" /\ job'[v] = job[v] /\ from'[v] = from[v]
          /\ page'[v] = response /\ UNCHANGED point
      BY <2>3, <3>1, <3>2 DEF FetchPage, TypeOK, RunTypes
    <3>4. \A e \in response : e[1] > from[v]
      BY DEF Pages, Newer
    <3>5. /\ from[v] \in Int
          /\ \A e \in response : e[1] \in Int
      <4>1. from[v] \in Int /\ page'[v] \subseteq Event
        BY TypeStep, ConstantsOK DEF TypeOK, RunTypes
      <4>2. QED
        BY <3>3, <4>1, ConstantsOK DEF Event
    <3>6. QED
      BY <2>3, <3>3, <3>4, <3>5 DEF Follows, Polling
  <2>4. CASE /\ ReadWatchList(v) \/ Prepare(v) \/ SaveNotifications(v)
             /\ pc'[v] \in Polling
    <3>1. /\ job'[v] = job[v] /\ from'[v] = from[v] /\ page'[v] = page[v]
          /\ pc[v] \in Polling /\ UNCHANGED point
          /\ pc'[v] \in {"prepare", "save", "cursor"} => pc[v] \in {"prepare", "save"}
      BY <2>4 DEF ReadWatchList, Prepare, SaveNotifications, Goto, Return, locals,
                  TypeOK, RunTypes, Polling
    <3>2. QED
      BY <2>4, <3>1 DEF Follows
  <2>5. /\ FetchPage(v) => pc'[v] \in {"prepare", "idle"}
        /\ \/ CreateSyncPoint(v) \/ AdvanceCursor(v) \/ ReadQuota(v)
           \/ WriteQuota(v) \/ InsertOrphan(v) \/ FailRun(v)
           => pc'[v] \notin Polling
    BY DEF FetchPage, CreateSyncPoint, AdvanceCursor, ReadQuota, WriteQuota,
           InsertOrphan, FailRun, NextUser, Goto, Return, TypeOK, RunTypes, Polling
  <2>6. QED
    BY <1>2, <2>1, <2>2, <2>3, <2>4, <2>5 DEF RunOf, Step, Polling
<1>3. CASE UNCHANGED <<point, pc, locals>>
  BY <1>3 DEF Follows, locals
<1>4. QED
  BY <1>1, <1>2, <1>3, RunsOnly

\* The row of a cursor is created once and goes up from there.
LEMMA CursorRises ==
  ASSUME TypeOK, \A w \in Workers : Follows(w), [Next]_vars, NEW j \in Jobs
  PROVE  point'[j] >= point[j]
<1>1. point[j] \in Int /\ height \in Int /\ point[j] >= NoPoint /\ height >= NoPoint
  BY ConstantsOK DEF TypeOK, StoreTypes, NoPoint
<1>2. CASE point'[j] = point[j]
  BY <1>1, <1>2
<1>3. CASE point'[j] # point[j]
  <2>1. PICK w \in Workers : RunOf(w)
    BY <1>3, RunsOnly
  <2>2. CASE pc[w] = "create" /\ point[j] = NoPoint /\ point'[j] = height
    BY <1>1, <2>2
  <2>3. CASE pc[w] = "cursor"
    <3>1. PICK first \in page[w] : point'[j] = first[1]
      BY <1>3, <2>1, <2>3, CursorMoves
    <3>2. from[w] = point[j] /\ from[w] < first[1]
      BY <1>3, <2>1, <2>3, CursorMoves DEF Follows, Polling
    <3>3. first[1] \in Int
      BY ConstantsOK DEF TypeOK, RunTypes, Event
    <3>4. QED
      BY <1>1, <3>1, <3>2, <3>3
  <2>4. QED
    BY <1>3, <2>1, <2>2, <2>3, CursorMoves
<1>4. QED
  BY <1>2, <1>3

\* As long as no runs of one job overlapped, its cursor never moves back, so no
\* block is polled again once the cursor has passed it.
THEOREM CursorsRise == Spec => CursorNeverRegresses
<1> DEFINE Inv == /\ TypeOK
                  /\ ~overlapped => OneRun /\ \A w \in Workers : Follows(w)
<1>1. Init => Inv
  BY TypesAtInit DEF Init, OneRun, Follows, Polling
<1>2. Inv /\ [Next]_vars => Inv'
  BY TypeStep, OverlapStays, OneRunStep, FollowsStep
<1>3. Inv /\ [Next]_vars => [~overlapped => \A j \in Jobs : point'[j] >= point[j]]_point
  BY CursorRises
<1>4. QED
  BY <1>1, <1>2, <1>3, PTL DEF Spec, CursorNeverRegresses


-----------------------------------------------------------------------------
(* Where runs of one job do not overlap: how often an event is stored.     *)

\* A run of j stands between the rows it stored, e's among them, and the
\* cursor.
Stores(w, j, e) == job[w] = j /\ pc[w] = "cursor" /\ e \in Notices(w)

\* Above the cursor of j, an event has no more rows than runs died over them,
\* save for the row of a run that is about to move the cursor.
RowsAhead ==
  \A j \in Jobs : \A e \in Event :
    /\ saved[j][e] <= 1 + redo[j]
    /\ e[1] > point[j] /\ (\A w \in Workers : ~Stores(w, j, e)) =>
         saved[j][e] <= redo[j]

\* Rows of an event are added by a run at "save" whose page has the event, and
\* a run that dies over rows it stored is counted.
LEMMA RowMoves ==
  ASSUME TypeOK, NEW w \in Workers, RunOf(w), NEW j \in Jobs, NEW e \in Event
  PROVE  /\ redo'[j] \in Nat /\ redo[j] \in Nat /\ redo'[j] >= redo[j]
         /\ saved'[j][e] \in Nat /\ saved[j][e] \in Nat
         /\ \/ saved'[j][e] = saved[j][e]
            \/ /\ SaveNotifications(w) /\ job[w] = j /\ e \in Notices(w)
               /\ saved'[j][e] = saved[j][e] + 1 /\ redo'[j] = redo[j]
<1>1. TypeOK'
  BY TypeStep DEF RunOf, Next
<1>2. redo[j] \in Nat /\ saved[j][e] \in Nat /\ saved'[j][e] \in Nat /\ redo'[j] \in Nat
  BY <1>1 DEF TypeOK, StoreTypes, HistoryTypes
<1>3. redo'[j] >= redo[j]
  <2>1. CASE FailRun(w)
    BY <1>2, <2>1 DEF FailRun, TypeOK, HistoryTypes
  <2>2. CASE UNCHANGED redo
    BY <1>2, <2>2
  <2>3. QED
    BY <2>1, <2>2 DEF RunOf, Step, Begin, CreateSyncPoint, ReadWatchList, FetchPage,
       Prepare, SaveNotifications, AdvanceCursor, ReadQuota, WriteQuota,
       InsertOrphan, history
<1>4. CASE SaveNotifications(w)
  <2>1. job[w] \in Jobs /\ redo' = redo
    BY <1>4 DEF SaveNotifications, TypeOK, RunTypes
  <2>2. CASE job[w] = j
    <3>1. saved'[j][e] = saved[j][e] + IF e \in Notices(w) THEN 1 ELSE 0
      BY <1>4, <2>2 DEF SaveNotifications, TypeOK, StoreTypes
    <3>2. QED
      BY <1>2, <1>4, <2>1, <2>2, <3>1
  <2>3. CASE job[w] # j
    BY <1>2, <1>4, <2>1, <2>3 DEF SaveNotifications, TypeOK, StoreTypes
  <2>4. QED
    BY <2>2, <2>3
<1>5. CASE UNCHANGED saved
  BY <1>2, <1>3, <1>5
<1>6. QED
  BY <1>4, <1>5 DEF RunOf, Step, FailRun, Begin, CreateSyncPoint, ReadWatchList,
     FetchPage, Prepare, AdvanceCursor, ReadQuota, WriteQuota, InsertOrphan

\* How a step of w ends its standing between rows and cursor.
LEMMA StoresMoves ==
  ASSUME TypeOK, NEW w \in Workers, RunOf(w), NEW j \in Jobs, NEW e \in Event,
         Stores(w, j, e), ~Stores(w, j, e)'
  PROVE  \/ redo'[j] = redo[j] + 1
         \/ e[1] <= point'[j]
<1>1. pc[w] = "cursor" /\ job[w] = j /\ e \in page[w] /\ e[1] \in Int
  BY ConstantsOK DEF Stores, Notices, Event
<1>2. AdvanceCursor(w) \/ FailRun(w)
  BY <1>1 DEF RunOf, Step, Begin, CreateSyncPoint, ReadWatchList, FetchPage, Prepare,
     SaveNotifications, ReadQuota, WriteQuota, InsertOrphan
<1>3. CASE FailRun(w)
  BY <1>1, <1>3 DEF FailRun, Stores, TypeOK, HistoryTypes
<1>4. CASE AdvanceCursor(w)
  <2>1. PICK first \in page[w] :
          /\ \A f \in page[w] : first[1] >= f[1]
          /\ point' = [point EXCEPT ![job[w]] = NewPoint(first)]
    BY <1>4 DEF AdvanceCursor
  <2>2. point'[j] = first[1] /\ first[1] \in Int
    BY <1>1, <2>1, ConstantsOK DEF NewPoint, TypeOK, StoreTypes, RunTypes, Event
  <2>3. QED
    BY <1>1, <2>1, <2>2
<1>5. QED
  BY <1>2, <1>3, <1>4

LEMMA RowsAheadStep ==
  ASSUME TypeOK, OneRun, \A w \in Workers : Follows(w), RowsAhead, [Next]_vars
  PROVE  RowsAhead'
<1>1. ASSUME NEW w \in Workers, RunOf(w), NEW j \in Jobs, NEW e \in Event
      PROVE  /\ saved'[j][e] <= 1 + redo'[j]
             /\ e[1] > point'[j] /\ (\A v \in Workers : ~Stores(v, j, e)') =>
                  saved'[j][e] <= redo'[j]
  <2>1. /\ redo'[j] \in Nat /\ redo[j] \in Nat /\ redo'[j] >= redo[j]
        /\ saved'[j][e] \in Nat /\ saved[j][e] \in Nat
    BY <1>1, RowMoves
  <2>2. /\ e[1] \in Int /\ point[j] \in Int /\ point'[j] \in Int
        /\ point'[j] >= point[j]
    <3>1. point'[j] >= point[j]
      BY <1>1, CursorRises
    <3>2. TypeOK'
      BY TypeStep
    <3>3. QED
      BY <3>1, <3>2, ConstantsOK DEF TypeOK, StoreTypes, NoPoint, Event
  <2>3. CASE /\ SaveNotifications(w) /\ job[w] = j /\ e \in Notices(w)
             /\ saved'[j][e] = saved[j][e] + 1 /\ redo'[j] = redo[j]
    <3>1. pc[w] = "save" /\ pc'[w] = "cursor" /\ UNCHANGED locals
      BY <2>3 DEF SaveNotifications, Goto, TypeOK, RunTypes
    <3>2. e[1] > point[j]
      BY <2>2, <2>3, <3>1 DEF Follows, Polling, Notices
    <3>3. ASSUME NEW v \in Workers PROVE ~Stores(v, j, e)
      BY <2>3, <3>1, Alone DEF Stores
    <3>4. saved[j][e] <= redo[j]
      BY <3>2, <3>3 DEF RowsAhead
    <3>5. Stores(w, j, e)'
      BY <2>3, <3>1 DEF Stores, Notices, locals
    <3>6. QED
      BY <2>1, <2>3, <3>4, <3>5
  <2>4. CASE saved'[j][e] = saved[j][e]
    <3>1. saved'[j][e] <= 1 + redo'[j]
      BY <2>1, <2>4 DEF RowsAhead
    <3>2. ASSUME e[1] > point'[j], \A v \in Workers : ~Stores(v, j, e)'
          PROVE  saved'[j][e] <= redo'[j]
      <4>1. e[1] > point[j]
        BY <2>2, <3>2
      <4>2. CASE \A v \in Workers : ~Stores(v, j, e)
        BY <2>1, <2>4, <4>1, <4>2 DEF RowsAhead
      <4>3. CASE \E v \in Workers : Stores(v, j, e)
        <5>1. PICK v \in Workers : Stores(v, j, e)
          BY <4>3
        <5>2. v = w
          <6>1. ASSUME v # w PROVE FALSE
            <7>1. /\ pc'[v] = pc[v] /\ job'[v] = job[v] /\ page'[v] = page[v]
                  /\ watch'[v] = watch[v]
              BY <1>1, <6>1, OthersKept DEF RunOf
            <7>2. Stores(v, j, e)'
              BY <5>1, <7>1 DEF Stores, Notices
            <7>3. QED
              BY <3>2, <7>2
          <6>2. QED
            BY <6>1
        <5>3. redo'[j] = redo[j] + 1
          <6>1. Stores(w, j, e) /\ ~Stores(w, j, e)'
            BY <3>2, <5>1, <5>2
          <6>2. ~(e[1] <= point'[j])
            BY <2>2, <3>2
          <6>3. QED
            BY <1>1, <6>1, <6>2, StoresMoves
        <5>4. QED
          BY <2>1, <2>4, <5>3 DEF RowsAhead
      <4>4. QED
        BY <4>2, <4>3
    <3>3. QED
      BY <3>1, <3>2
  <2>5. QED
    BY <1>1, <2>3, <2>4, RowMoves
<1>2. CASE UNCHANGED <<point, saved, redo, pc, locals>>
  BY <1>2 DEF RowsAhead, Stores, Notices, locals
<1>3. QED
  BY <1>1, <1>2, RunsOnly DEF RowsAhead

\* As long as no runs of one job overlapped, an event is stored again only by a
\* rerun after a run that died with its rows stored and its cursor not moved.
THEOREM RowsArePerAttempt == Spec => []OneRowPerAttempt
<1> DEFINE Inv ==
      /\ TypeOK
      /\ ~overlapped => OneRun /\ (\A w \in Workers : Follows(w)) /\ RowsAhead
<1>1. Init => Inv
  BY TypesAtInit DEF Init, OneRun, Follows, Polling, RowsAhead
<1>2. Inv /\ [Next]_vars => Inv'
  BY TypeStep, OverlapStays, OneRunStep, FollowsStep, RowsAheadStep
<1>3. Inv => OneRowPerAttempt
  BY DEF RowsAhead, OneRowPerAttempt
<1>4. QED
  BY <1>1, <1>2, <1>3, PTL DEF Spec


-----------------------------------------------------------------------------
(* The quota.                                                              *)

\* The rows ever stored for a user are finitely many.
LEMMA RowsAreFinite ==
  ASSUME TypeOK, NEW u \in Users
  PROVE  IsFiniteSet(RowsOf(u))
<1> DEFINE His == {f \in Event : f[2] = u}
           Times(j, e) == {<<j, e, n>> : n \in 1..saved[j][e]}
           Parts == {Times(j, e) : j \in Jobs, e \in His}
<1>1. IsFiniteSet(Jobs \X His)
  <2>1. IsFiniteSet(His)
    BY EventIsFinite, FS_Subset
  <2>2. QED
    BY <2>1, ConstantsOK, FS_Product
<1>2. IsFiniteSet(Parts)
  <2> DEFINE f == [p \in Jobs \X His |-> Times(p[1], p[2])]
  <2>1. f \in Surjection(Jobs \X His, Parts)
    <3> HIDE DEF Times, His
    <3>1. f \in [Jobs \X His -> Parts]
      OBVIOUS
    <3>2. ASSUME NEW t \in Parts PROVE \E p \in Jobs \X His : f[p] = t
      <4>1. PICK j \in Jobs, e \in His : t = Times(j, e)
        OBVIOUS
      <4>2. <<j, e>> \in Jobs \X His /\ f[<<j, e>>] = t
        BY <4>1
      <4>3. QED
        BY <4>2
    <3> HIDE DEF f, Parts
    <3>3. QED
      BY <3>1, <3>2 DEF Surjection
  <2> HIDE DEF f
  <2>2. QED
    BY <1>1, <2>1, FS_Surjection
<1>3. ASSUME NEW t \in Parts PROVE IsFiniteSet(t)
  <2>1. PICK j \in Jobs, e \in His : t = Times(j, e)
    OBVIOUS
  <2>2. IsFiniteSet(1..saved[j][e])
    <3>1. PICK n \in Int : n = saved[j][e]
      BY DEF TypeOK, StoreTypes
    <3>2. IsFiniteSet(1..n)
      BY UpToIsFinite
    <3>3. QED
      BY <3>1, <3>2
  <2> DEFINE g == [n \in 1..saved[j][e] |-> <<j, e, n>>]
  <2>3. g \in Surjection(1..saved[j][e], t)
    BY <2>1 DEF Surjection
  <2> HIDE DEF g
  <2>4. QED
    BY <2>2, <2>3, FS_Surjection
<1>4. RowsOf(u) = UNION Parts
  BY DEF RowsOf
<1> HIDE DEF Parts
<1>5. QED
  BY <1>2, <1>3, <1>4, FS_UNION

\* A run of w has stored rows for u which it has not counted yet ...
Pending(w, u) ==
  \/ pc[w] = "cursor"
  \/ pc[w] \in {"quota", "count", "orphan"} /\ u \in todo[w]
Owed(w, u) == IF Pending(w, u) THEN NoticesOf(w, u) ELSE {}

\* ... or is about to count them, on top of the value it read.
Counting(w, u) == pc[w] = "count" /\ user[w] = u
UserAtHand(w) == pc[w] \in {"count", "orphan"} => user[w] \in todo[w]

\* m gives each run the rows it has not counted yet.
Held(m)  == UNION {m[w] : w \in Workers}
Without(m, w) == [m EXCEPT ![w] = {}]
Apart(m) == \A v, w \in Workers : v # w => m[v] \cap m[w] = {}
Backs(m, u) ==
  /\ Apart(m)
  /\ \A w \in Workers : Cardinality(m[w]) = Cardinality(Owed(w, u))
  /\ total[u] <= Cardinality(RowsOf(u) \ Held(m))
  /\ \A w \in Workers :
       Counting(w, u) => read[w] <= Cardinality(RowsOf(u) \ Held(m))
Backed(u) == \E m \in [Workers -> SUBSET RowsOf(u)] : Backs(m, u)

\* Rows that a run lets go join those that nobody holds.
LetsGo(R, m, w) ==
  /\ Without(m, w) \in [Workers -> SUBSET R] /\ Apart(Without(m, w))
  /\ Cardinality(R \ Held(m)) \in Nat /\ Cardinality(m[w]) \in Nat
  /\ Cardinality(R \ Held(Without(m, w))) =
       Cardinality(R \ Held(m)) + Cardinality(m[w])

LEMMA LetGo ==
  ASSUME NEW R, IsFiniteSet(R), NEW m \in [Workers -> SUBSET R], Apart(m),
         NEW w \in Workers
  PROVE  LetsGo(R, m, w)
<1>1. /\ Without(m, w) \in [Workers -> SUBSET R] /\ Without(m, w)[w] = {}
      /\ \A v \in Workers : v # w => Without(m, w)[v] = m[v]
  BY DEF Without
<1>2. Apart(Without(m, w))
  BY <1>1 DEF Apart
<1>3. R \ Held(Without(m, w)) = (R \ Held(m)) \cup m[w]
  BY <1>1 DEF Apart, Held
<1>4. (R \ Held(m)) \cap m[w] = {}
  BY DEF Held
<1>5. IsFiniteSet(R \ Held(m)) /\ IsFiniteSet(m[w])
  BY FS_Subset
<1>6. Cardinality(R \ Held(m)) \in Nat /\ Cardinality(m[w]) \in Nat
  BY <1>5, FS_CardinalityType
<1>7. Cardinality((R \ Held(m)) \cap m[w]) = 0
  BY <1>4, FS_EmptySet
<1>8. Cardinality((R \ Held(m)) \cup m[w]) =
        Cardinality(R \ Held(m)) + Cardinality(m[w]) - Cardinality((R \ Held(m)) \cap m[w])
  BY <1>5, FS_Union
<1>9. Cardinality((R \ Held(m)) \cup m[w]) = Cardinality(R \ Held(m)) + Cardinality(m[w])
  BY <1>6, <1>7, <1>8
<1>10. QED
  BY <1>1, <1>2, <1>3, <1>6, <1>9 DEF LetsGo

\* A step that stores nothing keeps the counter backed, if it counts what the
\* run at hand held or puts the counter back.
LEMMA Settled ==
  ASSUME TypeOK, TypeOK', NEW u \in Users, Backed(u), NEW w \in Workers,
         saved' = saved,
         \A v \in Workers : v # w =>
           Owed(v, u)' = Owed(v, u) /\ (Counting(v, u)' => Counting(v, u) /\ read'[v] = read[v]),
         Owed(w, u)' = Owed(w, u) \/ Owed(w, u)' = {},
         Counting(w, u)' => read'[w] <= total[u] \/ (Counting(w, u) /\ read'[w] = read[w]),
         \/ total'[u] <= total[u]
         \/ total'[u] <= 0
         \/ /\ Counting(w, u) /\ Owed(w, u)' = {}
            /\ total'[u] <= read[w] + Cardinality(Owed(w, u))
  PROVE  Backed(u)'
<1>1. PICK m \in [Workers -> SUBSET RowsOf(u)] : Backs(m, u)
  BY DEF Backed
<1>2. RowsOf(u)' = RowsOf(u)
  BY DEF RowsOf
<1>3. Apart(m) /\ IsFiniteSet(RowsOf(u))
  BY <1>1, RowsAreFinite DEF Backs
<1>4. /\ total[u] \in Int /\ total'[u] \in Int
      /\ \A v \in Workers : read[v] \in Int /\ read'[v] \in Int
  BY DEF TypeOK, UserTypes, RunTypes, NoRow
<1>5. LetsGo(RowsOf(u), m, w)
  BY <1>1, <1>3, LetGo
<1> DEFINE none == Without(m, w)
           free == Cardinality(RowsOf(u) \ Held(m))
<1>6. /\ total[u] <= free
      /\ Cardinality(m[w]) = Cardinality(Owed(w, u))
      /\ \A v \in Workers : Counting(v, u) => read[v] <= free
  BY <1>1 DEF Backs
<1>7. free \in Nat /\ Cardinality(m[w]) \in Nat
  BY <1>5 DEF LetsGo
<1> HIDE DEF free, none
<1>8. ASSUME NEW v \in Workers, Counting(v, u)' PROVE read'[v] <= free
  <2>1. \/ read'[v] <= total[u]
        \/ Counting(v, u) /\ read'[v] = read[v]
    BY <1>8
  <2>2. QED
    BY <1>4, <1>6, <1>7, <2>1
<1>9. CASE Owed(w, u)' = {}
  <2>1. /\ none[w] = {} /\ Cardinality(none[w]) = 0
        /\ \A v \in Workers : v # w => none[v] = m[v]
    BY <1>1, FS_EmptySet DEF Without, none
  <2>2. \A v \in Workers : Cardinality(none[v]) = Cardinality(Owed(v, u)')
    BY <1>1, <1>9, <2>1, FS_EmptySet DEF Backs
  <2>3. total'[u] <= free + Cardinality(m[w])
    BY <1>4, <1>6, <1>7
  <2>4. ASSUME NEW v \in Workers, Counting(v, u)'
        PROVE  read'[v] <= free + Cardinality(m[w])
    BY <1>4, <1>7, <1>8, <2>4
  <2>5. /\ none \in [Workers -> SUBSET RowsOf(u)] /\ Apart(none)
        /\ Cardinality(RowsOf(u) \ Held(none)) = free + Cardinality(m[w])
    BY <1>5 DEF free, none, LetsGo
  <2>6. Backs(none, u)'
    BY <1>2, <2>2, <2>3, <2>4, <2>5 DEF Backs
  <2>7. QED
    BY <1>2, <2>5, <2>6 DEF Backed
<1>10. CASE Owed(w, u)' # {}
  <2>1. \A v \in Workers : Cardinality(m[v]) = Cardinality(Owed(v, u)')
    BY <1>1, <1>10 DEF Backs
  <2>2. total'[u] <= free
    BY <1>4, <1>10, <1>6, <1>7
  <2>4. Backs(m, u)'
    BY <1>2, <1>3, <1>8, <2>1, <2>2 DEF Backs, free
  <2>5. QED
    BY <1>2, <2>4 DEF Backed
<1>11. QED
  BY <1>9, <1>10


LEMMA RowMember ==
  ASSUME NEW s, NEW u, NEW i, NEW e, NEW n
  PROVE  <<i, e, n>> \in UNION {{<<j, f, k>> : k \in 1..s[j][f]} :
                                 j \in Jobs, f \in {f \in Event : f[2] = u}}
           <=> i \in Jobs /\ e \in Event /\ e[2] = u /\ n \in 1..s[i][e]
<1> DEFINE His == {f \in Event : f[2] = u}
           Row(j, f) == {<<j, f, k>> : k \in 1..s[j][f]}
           All == UNION {Row(j, f) : j \in Jobs, f \in His}
<1>1. \A j, f : <<i, e, n>> \in Row(j, f) <=> i = j /\ e = f /\ n \in 1..s[j][f]
  OBVIOUS
<1> HIDE DEF Row
<1>2. <<i, e, n>> \in All <=> \E j \in Jobs, f \in His : <<i, e, n>> \in Row(j, f)
  <2> HIDE DEF His
  <2> QED
    OBVIOUS
<1>3. <<i, e, n>> \in All <=> i \in Jobs /\ e \in His /\ n \in 1..s[i][e]
  <2> HIDE DEF His, All
  <2> QED
    BY <1>1, <1>2
<1>4. QED
  BY <1>3 DEF Row

\* The rows that a run stores for u are new, one for each notification.
LEMMA StoredAnew ==
  ASSUME TypeOK, TypeOK', NEW u \in Users, NEW w \in Workers, SaveNotifications(w)
  PROVE  \E new : /\ RowsOf(u)' = RowsOf(u) \cup new
                  /\ new \cap RowsOf(u) = {}
                  /\ Cardinality(new) = Cardinality(NoticesOf(w, u))
<1> DEFINE j == job[w]
           new == {<<j, e, saved[j][e] + 1>> : e \in NoticesOf(w, u)}
<1>1. j \in Jobs
  BY DEF SaveNotifications, TypeOK, RunTypes
<1>2. NoticesOf(w, u) \subseteq {e \in Event : e[2] = u} /\ NoticesOf(w, u) \subseteq Notices(w)
  BY NoticesCount DEF NoticesOf
<1>3. \A i \in Jobs, e \in Event :
        /\ saved[i][e] \in Nat
        /\ saved'[i][e] = IF i = j /\ e \in Notices(w) THEN saved[i][e] + 1 ELSE saved[i][e]
  <2>1. ASSUME NEW i \in Jobs, NEW e \in Event
        PROVE  /\ saved[i][e] \in Nat
               /\ saved'[i][e] = IF i = j /\ e \in Notices(w) THEN saved[i][e] + 1 ELSE saved[i][e]
    <3>1. saved[i][e] \in Nat
      BY DEF TypeOK, StoreTypes
    <3>2. CASE i = j
      BY <3>1, <3>2 DEF SaveNotifications, TypeOK, StoreTypes
    <3>3. CASE i # j
      BY <3>1, <3>3 DEF SaveNotifications, TypeOK, StoreTypes
    <3>4. QED
      BY <3>1, <3>2, <3>3
  <2>2. QED
    BY <2>1
<1> HIDE DEF j
<1>4. \A i, e, n : <<i, e, n>> \in RowsOf(u) <=>
        i \in Jobs /\ e \in Event /\ e[2] = u /\ n \in 1..saved[i][e]
  BY RowMember DEF RowsOf
<1>5. \A i, e, n : <<i, e, n>> \in RowsOf(u)' <=>
        i \in Jobs /\ e \in Event /\ e[2] = u /\ n \in 1..saved'[i][e]
  BY RowMember DEF RowsOf
<1>6. /\ \A r \in RowsOf(u) : r = <<r[1], r[2], r[3]>>
      /\ \A r \in RowsOf(u)' : r = <<r[1], r[2], r[3]>>
      /\ \A r \in new : r = <<r[1], r[2], r[3]>>
  BY DEF RowsOf
<1>7. \A i, e, n : <<i, e, n>> \in new <=>
        i = j /\ e \in NoticesOf(w, u) /\ n = saved[j][e] + 1
  OBVIOUS
<1> HIDE DEF new
<1>8. \A i, e, n : <<i, e, n>> \in RowsOf(u)' <=> <<i, e, n>> \in RowsOf(u) \cup new
  <2>1. ASSUME NEW i, NEW e, NEW n
        PROVE  <<i, e, n>> \in RowsOf(u)' <=> <<i, e, n>> \in RowsOf(u) \cup new
    <3>1. CASE i \in Jobs /\ e \in Event /\ e[2] = u
      <4>1. CASE i = j /\ e \in Notices(w)
        <5>1. e \in NoticesOf(w, u)
          BY <3>1, <4>1 DEF NoticesOf
        <5>2. saved[i][e] \in Nat /\ saved'[i][e] = saved[i][e] + 1
          BY <1>3, <3>1, <4>1
        <5>3. n \in 1..saved'[i][e] <=> n \in 1..saved[i][e] \/ n = saved[i][e] + 1
          BY <5>2
        <5>4. QED
          BY <1>4, <1>5, <1>7, <3>1, <4>1, <5>1, <5>3
      <4>2. CASE ~(i = j /\ e \in Notices(w))
        <5>1. saved'[i][e] = saved[i][e]
          BY <1>3, <3>1, <4>2
        <5>2. <<i, e, n>> \notin new
          BY <1>2, <1>7, <4>2
        <5>3. QED
          BY <1>4, <1>5, <3>1, <5>1, <5>2
      <4>3. QED
        BY <4>1, <4>2
    <3>2. CASE ~(i \in Jobs /\ e \in Event /\ e[2] = u)
      BY <1>1, <1>2, <1>4, <1>5, <1>7, <3>2
    <3>3. QED
      BY <3>1, <3>2
  <2>2. QED
    BY <2>1
<1>9. RowsOf(u)' = RowsOf(u) \cup new
  <2>1. ASSUME NEW r \in RowsOf(u)' PROVE r \in RowsOf(u) \cup new
    BY <1>6, <1>8
  <2>2. ASSUME NEW r \in RowsOf(u) \cup new PROVE r \in RowsOf(u)'
    BY <1>6, <1>8
  <2>3. QED
    BY <2>1, <2>2
<1>10. new \cap RowsOf(u) = {}
  <2>1. ASSUME NEW i, NEW e, NEW n, <<i, e, n>> \in new, <<i, e, n>> \in RowsOf(u)
        PROVE  FALSE
    <3>1. i \in Jobs /\ e \in Event /\ n \in 1..saved[i][e] /\ n = saved[i][e] + 1
      BY <1>4, <1>7, <2>1
    <3>2. saved[i][e] \in Nat
      BY <1>3, <3>1
    <3>3. QED
      BY <3>1, <3>2
  <2>2. QED
    BY <1>6, <2>1
<1>11. Cardinality(new) = Cardinality(NoticesOf(w, u))
  <2> DEFINE f == [e \in NoticesOf(w, u) |-> <<j, e, saved[j][e] + 1>>]
  <2>1. f \in [NoticesOf(w, u) -> new]
    BY <1>7
  <2>2. \A d, e \in NoticesOf(w, u) : f[d] = f[e] => d = e
    OBVIOUS
  <2>3. ASSUME NEW r \in new PROVE \E e \in NoticesOf(w, u) : f[e] = r
    <3>1. r = <<j, r[2], saved[j][r[2]] + 1>> /\ r[2] \in NoticesOf(w, u)
      BY <1>6, <1>7
    <3>2. f[r[2]] = r
      BY <3>1
    <3>3. QED
      BY <3>1, <3>2
  <2> HIDE DEF f
  <2>4. f \in Bijection(NoticesOf(w, u), new)
    BY <2>1, <2>2, <2>3 DEF Bijection, Injection, IsInjective, Surjection
  <2>5. ExistsBijection(NoticesOf(w, u), new)
    BY <2>4 DEF ExistsBijection
  <2>6. IsFiniteSet(NoticesOf(w, u))
    BY <1>2, EventIsFinite, FS_Subset
  <2>7. QED
    BY <2>5, <2>6, FS_Bijection
<1>12. QED
  BY <1>9, <1>10, <1>11

\* The run that stores them holds them.
LEMMA SaveBacked ==
  ASSUME TypeOK, TypeOK', NEW u \in Users, Backed(u), NEW w \in Workers,
         SaveNotifications(w)
  PROVE  Backed(u)'
<1>1. PICK m \in [Workers -> SUBSET RowsOf(u)] : Backs(m, u)
  BY DEF Backed
<1>2. PICK new : /\ RowsOf(u)' = RowsOf(u) \cup new
                 /\ new \cap RowsOf(u) = {}
                 /\ Cardinality(new) = Cardinality(NoticesOf(w, u))
  BY StoredAnew
<1>3. /\ pc[w] = "save" /\ pc'[w] = "cursor"
      /\ \A v \in Workers : v # w => pc'[v] = pc[v]
      /\ UNCHANGED <<total, locals>>
  BY DEF SaveNotifications, Goto, TypeOK, RunTypes
<1>4. /\ Owed(w, u) = {} /\ Owed(w, u)' = NoticesOf(w, u)
      /\ \A v \in Workers : v # w => Owed(v, u)' = Owed(v, u)
      /\ \A v \in Workers : Counting(v, u)' => Counting(v, u) /\ read'[v] = read[v]
  BY <1>3 DEF Owed, Pending, Counting, NoticesOf, Notices, locals
<1>5. m[w] = {}
  <2>1. IsFiniteSet(m[w])
    BY <1>1, RowsAreFinite, FS_Subset
  <2>2. Cardinality(m[w]) = 0
    BY <1>1, <1>4, FS_EmptySet DEF Backs
  <2>3. QED
    BY <2>1, <2>2, FS_EmptySet
<1> DEFINE m2 == [m EXCEPT ![w] = new]
<1>6. /\ m2 \in [Workers -> SUBSET (RowsOf(u)')] /\ m2[w] = new
      /\ \A v \in Workers : v # w => m2[v] = m[v]
  BY <1>1, <1>2
<1> HIDE DEF m2
<1>7. Apart(m2)
  BY <1>1, <1>2, <1>6 DEF Apart, Backs
<1>8. RowsOf(u)' \ Held(m2) = RowsOf(u) \ Held(m)
  BY <1>1, <1>2, <1>5, <1>6 DEF Held
<1>9. \A v \in Workers : Cardinality(m2[v]) = Cardinality(Owed(v, u)')
  BY <1>1, <1>2, <1>4, <1>6 DEF Backs
<1>10. Backs(m2, u)'
  BY <1>1, <1>3, <1>4, <1>7, <1>8, <1>9 DEF Backs
<1>11. QED
  BY <1>6, <1>10 DEF Backed


LEMMA HandStep ==
  ASSUME TypeOK, \A w \in Workers : UserAtHand(w), [Next]_vars, NEW v \in Workers
  PROVE  UserAtHand(v)'
<1>1. ASSUME NEW w \in Workers, RunOf(w), v # w PROVE UserAtHand(v)'
  <2>1. pc'[v] = pc[v] /\ todo'[v] = todo[v] /\ user'[v] = user[v]
    BY <1>1, OthersKept DEF RunOf
  <2>2. QED
    BY <2>1 DEF UserAtHand
<1>2. ASSUME RunOf(v) PROVE UserAtHand(v)'
  <2>1. CASE ReadQuota(v)
    BY <2>1 DEF ReadQuota, Goto, UserAtHand, TypeOK, RunTypes
  <2>2. CASE ~ReadQuota(v)
    <3>1. pc'[v] \notin {"count", "orphan"}
      BY <1>2, <2>2 DEF RunOf, Step, FailRun, Begin, CreateSyncPoint, ReadWatchList,
         FetchPage, Prepare, SaveNotifications, AdvanceCursor, WriteQuota,
         InsertOrphan, NextUser, Goto, Return, TypeOK, RunTypes
    <3>2. QED
      BY <3>1 DEF UserAtHand
  <2>3. QED
    BY <2>1, <2>2
<1>3. CASE UNCHANGED <<pc, locals>>
  BY <1>3 DEF UserAtHand, locals
<1>4. QED
  BY <1>1, <1>2, <1>3, RunsOnly

\* What a run owes a user starts with the rows it stores and ends, unchanged,
\* when it counts them or returns.
LEMMA OwedMoves ==
  ASSUME TypeOK, NEW w \in Workers, UserAtHand(w), RunOf(w), ~SaveNotifications(w),
         NEW u \in Users
  PROVE  /\ Owed(w, u)' = Owed(w, u) \/ Owed(w, u)' = {}
         /\ Counting(w, u)' => read'[w] <= total[u]
         /\ saved' = saved
         /\ \/ total'[u] <= total[u]
            \/ /\ Counting(w, u) /\ Owed(w, u)' = {}
               /\ total'[u] <= read[w] + Cardinality(Owed(w, u))
<1> USE DEF TypeOK, RunTypes
<1>1. total[u] \in Int
  BY DEF UserTypes, NoRow
<1>2. CASE \/ FailRun(w) \/ CreateSyncPoint(w) \/ ReadWatchList(w) \/ FetchPage(w)
           \/ \E j \in Jobs : Begin(w, j)
  <2>1. /\ pc'[w] \in {"idle", "create", "watch", "fetch", "prepare"}
        /\ UNCHANGED <<saved, total>>
    BY <1>2 DEF FailRun, Begin, CreateSyncPoint, ReadWatchList, FetchPage, Goto, Return
  <2>2. QED
    BY <1>1, <2>1 DEF Owed, Pending, Counting
<1>3. CASE Prepare(w)
  <2>1. /\ pc'[w] \in {"idle", "save", "cursor"}
        /\ pc'[w] = "cursor" => Notices(w) = {} /\ UNCHANGED locals
        /\ UNCHANGED <<saved, total>>
    BY <1>3 DEF Prepare, Goto, Return
  <2>2. Owed(w, u)' = {}
    BY <2>1 DEF Owed, Pending, NoticesOf, Notices, locals
  <2>3. QED
    BY <1>1, <2>1, <2>2 DEF Counting
<1>4. CASE AdvanceCursor(w)
  <2>1. /\ pc[w] = "cursor" /\ pc'[w] \in {"idle", "quota"} /\ UNCHANGED <<saved, total>>
        /\ pc'[w] = "quota" => UNCHANGED <<page, watch>>
    BY <1>4 DEF AdvanceCursor, Goto, Return
  <2>2. Owed(w, u)' = Owed(w, u) \/ Owed(w, u)' = {}
    BY <2>1 DEF Owed, Pending, NoticesOf, Notices
  <2>3. QED
    BY <1>1, <2>1, <2>2 DEF Counting
<1>5. CASE ReadQuota(w)
  <2>1. /\ pc[w] = "quota" /\ pc'[w] \in {"count", "orphan"}
        /\ UNCHANGED <<saved, total, page, watch, todo>>
    BY <1>5 DEF ReadQuota, Goto
  <2>2. Counting(w, u)' => read'[w] = total[u]
    BY <1>5 DEF ReadQuota, Goto, Counting
  <2>3. Owed(w, u)' = Owed(w, u)
    BY <2>1 DEF Owed, Pending, NoticesOf, Notices
  <2>4. QED
    BY <1>1, <2>1, <2>2, <2>3
<1>6. CASE WriteQuota(w) \/ InsertOrphan(w)
  <2>1. /\ pc[w] \in {"count", "orphan"} /\ pc'[w] \in {"idle", "quota"}
        /\ user[w] \in todo[w] /\ saved' = saved
        /\ pc'[w] = "quota" => /\ UNCHANGED <<page, watch>>
                               /\ todo'[w] = todo[w] \ {user[w]}
    BY <1>6 DEF WriteQuota, InsertOrphan, NextUser, Goto, Return, UserAtHand
  <2>2. /\ Owed(w, u)' = Owed(w, u) \/ Owed(w, u)' = {}
        /\ user[w] = u => Owed(w, u) = NoticesOf(w, u) /\ Owed(w, u)' = {}
    BY <2>1 DEF Owed, Pending, NoticesOf, Notices
  <2>3. CASE WriteQuota(w) /\ user[w] = u
    <3>1. Counting(w, u) /\ total'[u] = read[w] + Cardinality(NoticesOf(w, u))
      BY <2>3 DEF WriteQuota, Counting, Counted, UserTypes
    <3>2. read[w] \in Int /\ Cardinality(NoticesOf(w, u)) \in Int
      BY NoticesCount
    <3>3. QED
      BY <2>1, <2>2, <2>3, <3>1, <3>2 DEF Counting
  <2>4. CASE ~(WriteQuota(w) /\ user[w] = u)
    <3>1. total'[u] = total[u]
      BY <1>6, <2>4 DEF WriteQuota, InsertOrphan, UserTypes
    <3>2. QED
      BY <1>1, <2>1, <2>2, <3>1 DEF Counting
  <2>5. QED
    BY <2>3, <2>4
<1>7. QED
  BY <1>2, <1>3, <1>4, <1>5, <1>6 DEF RunOf, Step

LEMMA QuotaStep ==
  ASSUME TypeOK, \A w \in Workers : UserAtHand(w), [Next]_vars,
         NEW u \in Users, Backed(u)
  PROVE  Backed(u)'
<1>1. TypeOK'
  BY TypeStep
<1>2. ASSUME NEW w \in Workers, RunOf(w), ~SaveNotifications(w) PROVE Backed(u)'
  <2>1. ASSUME NEW v \in Workers, v # w
        PROVE  /\ Owed(v, u)' = Owed(v, u)
               /\ Counting(v, u)' => Counting(v, u) /\ read'[v] = read[v]
    <3>1. /\ pc'[v] = pc[v] /\ watch'[v] = watch[v] /\ page'[v] = page[v]
          /\ todo'[v] = todo[v] /\ user'[v] = user[v] /\ read'[v] = read[v]
      BY <1>2, <2>1, OthersKept DEF RunOf
    <3>2. QED
      BY <3>1 DEF Owed, Pending, NoticesOf, Notices, Counting
  <2>2. /\ Owed(w, u)' = Owed(w, u) \/ Owed(w, u)' = {}
        /\ Counting(w, u)' => read'[w] <= total[u]
        /\ saved' = saved
        /\ \/ total'[u] <= total[u]
           \/ /\ Counting(w, u) /\ Owed(w, u)' = {}
              /\ total'[u] <= read[w] + Cardinality(Owed(w, u))
    BY <1>2, OwedMoves
  <2>3. QED
    BY <1>1, <2>1, <2>2, Settled
<1>3. CASE UNCHANGED <<point, saved, redo, pc, locals>>
  <2>1. PICK m \in [Workers -> SUBSET RowsOf(u)] : Backs(m, u)
    BY DEF Backed
  <2>2. total'[u] = total[u] \/ total'[u] <= 0
    <3>1. CASE UNCHANGED total
      BY <3>1
    <3>2. CASE ResetSave
      BY <3>2 DEF ResetSave
    <3>3. CASE \E x \in Users : RegisterActivity(x)
      BY <3>3 DEF RegisterActivity, TypeOK, UserTypes
    <3>4. ASSUME NEW w \in Workers, WriteQuota(w) PROVE FALSE
      <4>1. pc'[w] # "count"
        BY <3>4 DEF WriteQuota, NextUser, Goto, Return, TypeOK, RunTypes
      <4>2. QED
        BY <1>3, <3>4, <4>1 DEF WriteQuota
    <3>5. QED
      BY <3>1, <3>2, <3>3, <3>4 DEF Next, Step, Request, vars, queueVars, IndexBlock,
         Begin, CreateSyncPoint, ReadWatchList, FetchPage, Prepare,
         SaveNotifications, AdvanceCursor, ReadQuota, InsertOrphan, FailRun,
         Untrack, FailUntrack, ResetRead, SetTracking, SetSettings, RegisterToken, DeleteToken
  <2>3. Cardinality(RowsOf(u) \ Held(m)) \in Nat
    BY RowsAreFinite, FS_Subset, FS_CardinalityType
  <2>4. total'[u] \in Int
    BY <1>1 DEF TypeOK, UserTypes, NoRow
  <2>5. total'[u] <= Cardinality(RowsOf(u) \ Held(m))
    BY <2>1, <2>2, <2>3, <2>4 DEF Backs
  <2>6. /\ RowsOf(u)' = RowsOf(u)
        /\ \A v \in Workers : /\ Owed(v, u)' = Owed(v, u)
                              /\ Counting(v, u)' <=> Counting(v, u)
                              /\ read'[v] = read[v]
    BY <1>3 DEF RowsOf, Owed, Pending, NoticesOf, Notices, Counting, locals
  <2>7. Backs(m, u)'
    BY <2>1, <2>5, <2>6 DEF Backs
  <2>8. QED
    BY <2>1, <2>6, <2>7 DEF Backed
<1>4. QED
  BY <1>1, <1>2, <1>3, RunsOnly, SaveBacked

LEMMA BackedIsEnough ==
  ASSUME TypeOK, NEW u \in Users, Backed(u)
  PROVE  total[u] <= Cardinality(RowsOf(u))
<1>1. PICK m \in [Workers -> SUBSET RowsOf(u)] : Backs(m, u)
  BY DEF Backed
<1>2. IsFiniteSet(RowsOf(u))
  BY RowsAreFinite
<1>3. /\ Cardinality(RowsOf(u)) \in Int /\ Cardinality(RowsOf(u) \ Held(m)) \in Int
      /\ Cardinality(RowsOf(u) \ Held(m)) <= Cardinality(RowsOf(u))
  BY <1>2, FS_Subset, FS_CardinalityType
<1>4. total[u] \in Int
  BY DEF TypeOK, UserTypes, NoRow
<1>5. QED
  BY <1>1, <1>3, <1>4 DEF Backs

\* The quota counter of a user is backed by rows: with lost updates, dead
\* runs, overlaps and resets it may count less than was stored, never more.
THEOREM CountersAreBacked == Spec => []QuotaBackedByRows
<1> DEFINE Inv == /\ TypeOK
                  /\ \A w \in Workers : UserAtHand(w)
                  /\ \A u \in Users : Backed(u)
<1>1. Init => Inv
  <2> SUFFICES ASSUME Init PROVE Inv
    OBVIOUS
  <2>1. TypeOK
    BY TypesAtInit
  <2>2. \A w \in Workers : /\ UserAtHand(w)
                           /\ \A u : Owed(w, u) = {} /\ ~Counting(w, u)
    BY DEF Init, UserAtHand, Owed, Pending, Counting
  <2>3. ASSUME NEW u \in Users PROVE Backed(u)
    <3> DEFINE none == [w \in Workers |-> {}]
    <3>1. none \in [Workers -> SUBSET RowsOf(u)] /\ Apart(none)
      BY DEF Apart
    <3>2. \A w \in Workers : Cardinality(none[w]) = Cardinality(Owed(w, u))
      BY <2>2
    <3>3. total[u] <= 0
      BY DEF Init, NoRow
    <3>4. Cardinality(RowsOf(u) \ Held(none)) \in Nat /\ total[u] \in Int
      BY <2>1, RowsAreFinite, FS_Subset, FS_CardinalityType DEF TypeOK, UserTypes, NoRow
    <3> HIDE DEF none
    <3>5. Backs(none, u)
      BY <2>2, <3>1, <3>2, <3>3, <3>4 DEF Backs
    <3>6. QED
      BY <3>1, <3>5 DEF Backed
  <2>4. QED
    BY <2>1, <2>2, <2>3
<1>2. Inv /\ [Next]_vars => Inv'
  BY TypeStep, HandStep, QuotaStep
<1>3. Inv => QuotaBackedByRows
  BY BackedIsEnough DEF QuotaBackedByRows
<1>4. QED
  BY <1>1, <1>2, <1>3, PTL DEF Spec

-----------------------------------------------------------------------------
(* How far the quota is overshot, whatever runs die or overlap.            *)

\* The rows that the runs have under way, as pairs of a run and an event
PairsOf(T) == {p \in Workers \X Event : p[2] \in T[p[1]]}
Others(T, w) == {p \in PairsOf(T) : p[1] # w}

\* A page is at most so many rows of one user.
Share == PageLimit * Cardinality(Ends)

LEMMA ShareIsNat == Share \in Nat /\ Cardinality(Ends) \in Nat /\ Cardinality(Workers) \in Nat
<1>1. Cardinality(Ends) \in Nat /\ Cardinality(Workers) \in Nat /\ PageLimit \in Nat
  BY ConstantsOK, FS_CardinalityType
<1>2. QED
  BY <1>1 DEF Share

\* The pairs are those of one run and those of the others.
LEMMA PairsSplit ==
  ASSUME NEW T \in [Workers -> SUBSET Event], NEW w \in Workers
  PROVE  /\ IsFiniteSet(PairsOf(T)) /\ Cardinality(Others(T, w)) \in Nat
         /\ Cardinality(T[w]) \in Nat
         /\ Cardinality(PairsOf(T)) = Cardinality(Others(T, w)) + Cardinality(T[w])
<1> DEFINE All == Workers \X Event
           Own == {p \in PairsOf(T) : p[1] = w}
           f   == [e \in T[w] |-> <<w, e>>]
<1>1. IsFiniteSet(All)
  BY EventIsFinite, ConstantsOK, FS_Product
<1>2. PairsOf(T) \in SUBSET All /\ Own \in SUBSET All /\ Others(T, w) \in SUBSET All
  BY DEF PairsOf, Others
<1>3. /\ IsFiniteSet(PairsOf(T)) /\ IsFiniteSet(Own) /\ IsFiniteSet(Others(T, w))
      /\ Cardinality(Own) \in Nat /\ Cardinality(Others(T, w)) \in Nat
  <2> HIDE DEF All, Own
  <2>1. QED
    BY <1>1, <1>2, FS_Subset, FS_CardinalityType
<1>4. T[w] \in SUBSET Event /\ IsFiniteSet(T[w]) /\ Cardinality(T[w]) \in Nat
  BY SubsetsOfEventAreFinite
<1>5. f \in Bijection(T[w], Own)
  <2>1. f \in [T[w] -> Own]
    BY <1>4 DEF PairsOf
  <2>2. \A a, b \in T[w] : f[a] = f[b] => a = b
    OBVIOUS
  <2>3. \A p \in Own : \E e \in T[w] : f[e] = p
    <3>1. ASSUME NEW p \in Own PROVE p[2] \in T[w] /\ f[p[2]] = p
      BY DEF PairsOf
    <3>2. QED
      BY <3>1
  <2> HIDE DEF f, Own
  <2>4. QED
    BY <2>1, <2>2, <2>3 DEF Bijection, Injection, IsInjective, Surjection
<1>6. Cardinality(Own) = Cardinality(T[w])
  <2> HIDE DEF f, Own
  <2>1. ExistsBijection(T[w], Own)
    BY <1>5 DEF ExistsBijection
  <2>2. QED
    BY <2>1, <1>4, FS_Bijection
<1>7. /\ PairsOf(T) = Own \cup Others(T, w)
      /\ Own \cap Others(T, w) = {}
  BY DEF Others
<1>8. Cardinality(PairsOf(T)) = Cardinality(Own) + Cardinality(Others(T, w)) - Cardinality({})
  <2> HIDE DEF Own
  <2>1. QED
    BY <1>3, <1>7, FS_Union
<1>9. QED
  <2> HIDE DEF Own
  <2>1. Cardinality({}) = 0
    BY FS_EmptySet
  <2>2. QED
    BY <1>3, <1>4, <1>6, <1>8, <2>1

\* What two states have under way differs by what one run has.
LEMMA PairsDiffer ==
  ASSUME NEW T \in [Workers -> SUBSET Event], NEW U \in [Workers -> SUBSET Event],
         NEW w \in Workers, \A v \in Workers : v # w => U[v] = T[v]
  PROVE  Cardinality(PairsOf(U)) + Cardinality(T[w]) =
           Cardinality(PairsOf(T)) + Cardinality(U[w])
<1>1. Others(T, w) = Others(U, w)
  BY DEF Others, PairsOf
<1>2. QED
  BY <1>1, PairsSplit

\* The transactions of a page can be numbered from 1 to PageLimit.
LEMMA Ranked ==
  ASSUME NEW S \in SUBSET Event, Cardinality(Items(S)) <= PageLimit
  PROVE  \E r \in [Items(S) -> 1..PageLimit] :
           \A a, b \in Items(S) : r[a] = r[b] => a = b
<1>1. IsFiniteSet(Items(S))
  <2>1. Items(S) \in SUBSET ((1..MaxHeight) \X Txs)
    BY DEF Items, Event
  <2>2. IsFiniteSet(1..MaxHeight)
    BY ConstantsOK, UpToIsFinite
  <2>3. IsFiniteSet((1..MaxHeight) \X Txs)
    BY <2>2, ConstantsOK, FS_Product
  <2>4. QED
    BY <2>1, <2>3, FS_Subset
<1> DEFINE n == Cardinality(Items(S))
<1>2. n \in Nat /\ ExistsBijection(1..n, Items(S))
  BY <1>1, FS_CardinalityType
<1>3. PICK g \in Bijection(1..n, Items(S)) : TRUE
  BY <1>2 DEF ExistsBijection
<1>4. /\ g \in [1..n -> Items(S)]
      /\ \A a \in Items(S) : \E i \in 1..n : g[i] = a
  BY <1>3 DEF Bijection, Surjection
<1> DEFINE r == [a \in Items(S) |-> CHOOSE i \in 1..n : g[i] = a]
<1>5. \A a \in Items(S) : r[a] \in 1..n /\ g[r[a]] = a
  BY <1>4
<1>6. 1..n \subseteq 1..PageLimit
  <2> HIDE DEF n
  <2>1. PageLimit \in Nat /\ n <= PageLimit
    BY ConstantsOK DEF n
  <2>2. QED
    BY <1>2, <2>1
<1>7. r \in [Items(S) -> 1..PageLimit]
  BY <1>5, <1>6
<1> HIDE DEF r
<1>8. QED
  BY <1>5, <1>7

\* Runs that hold nothing yet leave room for their page.
LEMMA PairsBound ==
  ASSUME NEW T \in [Workers -> SUBSET Event], NEW u,
         \A w \in Workers : /\ \A e \in T[w] : e[2] = u
                            /\ Cardinality(Items(T[w])) <= PageLimit,
         NEW W \in SUBSET Workers, \A w \in W : T[w] = {}
  PROVE  Cardinality(PairsOf(T)) + Share * Cardinality(W) <= Share * Cardinality(Workers)
<1> DEFINE Slots == (Workers \ W) \X ((1..PageLimit) \X Ends)
<1>1. ASSUME NEW w \in Workers
      PROVE  \E r \in [Items(T[w]) -> 1..PageLimit] :
               \A a, b \in Items(T[w]) : r[a] = r[b] => a = b
  <2>1. T[w] \in SUBSET Event /\ Cardinality(Items(T[w])) <= PageLimit
    OBVIOUS
  <2>2. QED
    BY <2>1, Ranked
<1> DEFINE rank == [w \in Workers |->
                      CHOOSE r \in [Items(T[w]) -> 1..PageLimit] :
                        \A a, b \in Items(T[w]) : r[a] = r[b] => a = b]
<1>2. \A w \in Workers : /\ rank[w] \in [Items(T[w]) -> 1..PageLimit]
                         /\ \A a, b \in Items(T[w]) : rank[w][a] = rank[w][b] => a = b
  BY <1>1
<1> HIDE DEF rank
<1> DEFINE item(p) == <<p[2][1], p[2][3]>>
           f == [p \in PairsOf(T) |-> <<p[1], <<rank[p[1]][item(p)], p[2][4]>>>>]
<1>3. ASSUME NEW p \in PairsOf(T)
      PROVE  /\ p \in Workers \X Event /\ p[1] \in Workers \ W
             /\ item(p) \in Items(T[p[1]])
             /\ p[2][2] = u /\ p[2][4] \in Ends
  BY DEF PairsOf, Items, Event
<1>4. f \in [PairsOf(T) -> Slots]
  <2>1. ASSUME NEW p \in PairsOf(T) PROVE f[p] \in Slots
    <3>1. rank[p[1]][item(p)] \in 1..PageLimit
      <4> HIDE DEF item
      <4>1. QED
        BY <1>2, <1>3
    <3>2. p[1] \in Workers \ W /\ p[2][4] \in Ends
      BY <1>3
    <3> HIDE DEF item
    <3>3. QED
      BY <3>1, <3>2
  <2> HIDE DEF Slots, item
  <2>2. QED
    BY <2>1
<1>5. ASSUME NEW p \in PairsOf(T), NEW q \in PairsOf(T), f[p] = f[q] PROVE p = q
  <2>1. p[1] = q[1] /\ p[2][4] = q[2][4] /\ rank[p[1]][item(p)] = rank[q[1]][item(q)]
    <3> HIDE DEF item
    <3>1. QED
      BY <1>5
  <2>2. item(p) = item(q)
    <3>1. p[1] \in Workers /\ item(p) \in Items(T[p[1]]) /\ item(q) \in Items(T[p[1]])
      BY <1>3, <2>1
    <3> HIDE DEF item
    <3>2. QED
      BY <1>2, <2>1, <3>1
  <2>3. p[2][1] = q[2][1] /\ p[2][3] = q[2][3]
    BY <2>2
  <2>4. p[2][2] = q[2][2] /\ p \in Workers \X Event /\ q \in Workers \X Event
    <3> HIDE DEF item, f
    <3>1. p[2][2] = u /\ p \in Workers \X Event
      BY <1>3
    <3>2. q[2][2] = u /\ q \in Workers \X Event
      BY <1>3
    <3>3. QED
      BY <3>1, <3>2
  <2>5. p[2] \in Event /\ q[2] \in Event
    BY <2>4
  <2>6. p[2] = q[2]
    BY <2>1, <2>3, <2>4, <2>5 DEF Event
  <2>7. p = <<p[1], p[2]>> /\ q = <<q[1], q[2]>>
    BY <2>4
  <2>8. QED
    BY <2>1, <2>6, <2>7
<1> HIDE DEF f
<1>6. /\ IsFiniteSet(Workers \ W) /\ IsFiniteSet(W)
      /\ Cardinality(Workers \ W) = Cardinality(Workers) - Cardinality(W)
      /\ Cardinality(W) \in Nat /\ Cardinality(Workers \ W) \in Nat
  <2>1. Workers \cap W = W
    OBVIOUS
  <2>2. QED
    BY <2>1, ConstantsOK, FS_Difference, FS_Subset, FS_CardinalityType
<1>7. /\ IsFiniteSet((1..PageLimit) \X Ends)
      /\ Cardinality((1..PageLimit) \X Ends) = Share
  <2>1. PageLimit \in Nat /\ PageLimit >= 1
    BY ConstantsOK
  <2>2. IsFiniteSet(1..PageLimit) /\ Cardinality(1..PageLimit) = PageLimit
    BY <2>1, FS_Interval
  <2>3. QED
    BY <2>2, ConstantsOK, FS_Product DEF Share
<1>8. IsFiniteSet(Slots) /\ Cardinality(Slots) = Cardinality(Workers \ W) * Share
  <2> DEFINE E == (1..PageLimit) \X Ends
  <2>1. IsFiniteSet(E) /\ Cardinality(E) = Share
    BY <1>7
  <2> HIDE DEF E
  <2>2. IsFiniteSet((Workers \ W) \X E) /\ Cardinality((Workers \ W) \X E) = Cardinality(Workers \ W) * Share
    BY <1>6, <2>1, FS_Product
  <2>3. QED
    BY <2>2 DEF E
<1>9. Cardinality(PairsOf(T)) <= Cardinality(Slots) /\ IsFiniteSet(PairsOf(T))
  <2> HIDE DEF Slots
  <2>1. f \in Injection(PairsOf(T), Slots)
    BY <1>4, <1>5 DEF Injection, IsInjective
  <2>2. QED
    BY <1>8, <2>1, FS_Injection
<1>10. Cardinality(PairsOf(T)) \in Nat
  BY <1>9, FS_CardinalityType
<1>11. (Cardinality(Workers) - Cardinality(W)) * Share =
         Share * Cardinality(Workers) - Share * Cardinality(W)
  BY <1>6, ShareIsNat
<1>12. Share * Cardinality(Workers) \in Nat /\ Share * Cardinality(W) \in Nat
  BY <1>6, ShareIsNat
<1>13. Cardinality(PairsOf(T)) <= Share * Cardinality(Workers) - Share * Cardinality(W)
  BY <1>6, <1>8, <1>9, <1>11
<1> HIDE DEF f, Slots, rank
<1>14. QED
  BY <1>10, <1>12, <1>13

\* The rows of u that each run has stored and not yet counted
Owes(u) == [w \in Workers |-> ToCount(w, u)]

\* The runs that have u on their watch list and his rows still to store
Waiting(u) == {w \in Workers : pc[w] \in {"fetch", "prepare", "save"} /\ u \in watch[w]}

Base(u) == IF total[u] = NoRow THEN 0 ELSE total[u]

\* What was stored today is counted, lost to every counter, or under way ...
Told(u) == today[u] <= Base(u) + uncounted[u] + Cardinality(PairsOf(Owes(u)))

\* ... and a user on a watch list was below the limit, whatever the others do.
Room(u) ==
  today[u] + Share * Cardinality(Waiting(u))
    <= Limit - 1 + Share * Cardinality(Workers) + uncounted[u]

\* A page fits the limit of the query, and a run that has users left to count
\* is in the loop that counts them.
InOrder(w) ==
  /\ Cardinality(Items(page[w])) <= PageLimit
  /\ todo[w] # {} => pc[w] \in {"quota", "count", "orphan"}

LEMMA ItemsCount ==
  ASSUME NEW S \in SUBSET Event
  PROVE  IsFiniteSet(Items(S)) /\ Cardinality(Items(S)) \in Nat
<1>1. Items(S) \in SUBSET ((1..MaxHeight) \X Txs)
  BY DEF Items, Event
<1>2. IsFiniteSet(1..MaxHeight)
  BY ConstantsOK, UpToIsFinite
<1>3. IsFiniteSet((1..MaxHeight) \X Txs)
  BY <1>2, ConstantsOK, FS_Product
<1>4. QED
  BY <1>1, <1>3, FS_Subset, FS_CardinalityType

\* What the runs have under way of one user: sets of his events, each no more
\* than a page.
LEMMA OwesTypes ==
  ASSUME TypeOK, \A w \in Workers : InOrder(w), NEW u
  PROVE  /\ Owes(u) \in [Workers -> SUBSET Event]
         /\ \A w \in Workers : /\ Owes(u)[w] = ToCount(w, u)
                               /\ \A e \in Owes(u)[w] : e[2] = u
                               /\ Cardinality(Items(Owes(u)[w])) <= PageLimit
         /\ \A w \in Workers : Cardinality(ToCount(w, u)) \in Nat
         /\ Cardinality(PairsOf(Owes(u))) \in Nat
<1>1. ASSUME NEW w \in Workers
      PROVE  /\ ToCount(w, u) \in SUBSET Event /\ \A e \in ToCount(w, u) : e[2] = u
             /\ Cardinality(Items(ToCount(w, u))) <= PageLimit
             /\ Cardinality(ToCount(w, u)) \in Nat
  <2>1. page[w] \in SUBSET Event /\ ToCount(w, u) \subseteq page[w]
        /\ \A e \in ToCount(w, u) : e[2] = u
    BY DEF TypeOK, RunTypes, ToCount, NoticesOf, Notices
  <2>2. Items(ToCount(w, u)) \in SUBSET Items(page[w])
    BY <2>1 DEF Items
  <2>3. /\ IsFiniteSet(Items(page[w])) /\ Cardinality(Items(page[w])) \in Nat
        /\ Cardinality(Items(ToCount(w, u))) \in Nat
    BY <2>1, ItemsCount
  <2>4. Cardinality(Items(ToCount(w, u))) <= Cardinality(Items(page[w]))
    BY <2>2, <2>3, FS_Subset
  <2>5. Cardinality(Items(page[w])) <= PageLimit /\ PageLimit \in Nat
    BY ConstantsOK DEF InOrder
  <2>6. Cardinality(ToCount(w, u)) \in Nat
    BY <2>1, SubsetsOfEventAreFinite
  <2>7. QED
    BY <2>1, <2>3, <2>4, <2>5, <2>6
<1>2. Owes(u) \in [Workers -> SUBSET Event]
  BY <1>1 DEF Owes
<1>3. \A w \in Workers : Owes(u)[w] = ToCount(w, u)
  BY DEF Owes
<1>4. Cardinality(PairsOf(Owes(u))) \in Nat
  <2>1. IsFiniteSet(Workers \X Event)
    BY ConstantsOK, EventIsFinite, FS_Product
  <2>2. PairsOf(Owes(u)) \in SUBSET (Workers \X Event)
    BY DEF PairsOf
  <2>3. QED
    BY <2>1, <2>2, FS_Subset, FS_CardinalityType
<1>5. QED
  BY <1>1, <1>2, <1>3, <1>4

\* A page gives a user at most Share rows.
LEMMA NoticesFit ==
  ASSUME TypeOK, NEW w \in Workers, InOrder(w), NEW u
  PROVE  Cardinality(NoticesOf(w, u)) \in Nat /\ Cardinality(NoticesOf(w, u)) <= Share
<1>1. page[w] \in SUBSET Event /\ Cardinality(Items(page[w])) <= PageLimit
  BY DEF TypeOK, RunTypes, InOrder
<1>2. PICK r \in [Items(page[w]) -> 1..PageLimit] :
        \A a, b \in Items(page[w]) : r[a] = r[b] => a = b
  BY <1>1, Ranked
<1> DEFINE item(e) == <<e[1], e[3]>>
           N == NoticesOf(w, u)
           Slots == (1..PageLimit) \X Ends
           f == [e \in N |-> <<r[item(e)], e[4]>>]
<1>3. ASSUME NEW e \in N
      PROVE  e \in Event /\ item(e) \in Items(page[w]) /\ e[2] = u /\ e[4] \in Ends
  BY <1>1 DEF NoticesOf, Notices, Items, Event
<1>4. f \in [N -> Slots]
  <2>1. ASSUME NEW e \in N PROVE r[item(e)] \in 1..PageLimit /\ e[4] \in Ends
    <3> HIDE DEF item, N
    <3>1. QED
      BY <1>2, <1>3
  <2> HIDE DEF item, N
  <2>2. QED
    BY <2>1
<1>5. ASSUME NEW a \in N, NEW b \in N, f[a] = f[b] PROVE a = b
  <2>1. a[4] = b[4] /\ r[item(a)] = r[item(b)]
    <3> HIDE DEF item, N
    <3>1. QED
      BY <1>5
  <2>2. item(a) = item(b)
    <3> HIDE DEF item, N, f
    <3>1. QED
      BY <1>2, <1>3, <2>1
  <2>3. a[1] = b[1] /\ a[3] = b[3]
    BY <2>2
  <2>4. a \in Event /\ b \in Event /\ a[2] = u /\ b[2] = u
    <3> HIDE DEF item, N, f
    <3>1. QED
      BY <1>3
  <2> HIDE DEF item, N, f
  <2>5. QED
    BY <2>1, <2>3, <2>4 DEF Event
<1>6. /\ IsFiniteSet(Slots) /\ Cardinality(Slots) = Share
  <2>1. PageLimit \in Nat /\ PageLimit >= 1
    BY ConstantsOK
  <2>2. IsFiniteSet(1..PageLimit) /\ Cardinality(1..PageLimit) = PageLimit
    BY <2>1, FS_Interval
  <2>3. QED
    BY <2>2, ConstantsOK, FS_Product DEF Share
<1>7. Cardinality(N) <= Share
  <2> HIDE DEF f, N, Slots
  <2>1. f \in Injection(N, Slots)
    BY <1>4, <1>5 DEF Injection, IsInjective
  <2>2. QED
    BY <1>6, <2>1, FS_Injection
<1>8. Cardinality(N) \in Nat
  BY NoticesCount
<1>9. QED
  BY <1>7, <1>8

LEMMA InOrderStep ==
  ASSUME TypeOK, [Next]_vars, NEW v \in Workers, InOrder(v)
  PROVE  InOrder(v)'
<1>1. CASE UNCHANGED <<pc, locals>>
  BY <1>1 DEF InOrder, locals
<1>2. ASSUME NEW w \in Workers, RunOf(w), w # v PROVE InOrder(v)'
  BY <1>2, OthersKept DEF RunOf, InOrder
<1>3. ASSUME RunOf(v) PROVE InOrder(v)'
  <2> USE DEF TypeOK, RunTypes
  <2>1. Cardinality(Items({})) = 0 /\ PageLimit \in Nat
    <3>1. Items({}) = {}
      BY DEF Items
    <3>2. QED
      BY <3>1, FS_EmptySet, ConstantsOK
  <2>2. CASE Return(v)
    BY <2>1, <2>2 DEF Return, InOrder
  <2>3. CASE FetchPage(v) /\ ~Return(v)
    <3>1. PICK response \in Pages(Newer(job[v], from[v])) :
            page' = [page EXCEPT ![v] = response] /\ UNCHANGED todo
      BY <2>3 DEF FetchPage
    <3>2. Cardinality(Items(response)) <= PageLimit
      BY <3>1, PageIsFullOrAll, ConstantsOK
    <3>3. pc[v] = "fetch"
      BY <2>3 DEF FetchPage
    <3>4. QED
      BY <3>1, <3>2, <3>3 DEF InOrder
  <2>4. CASE ~FetchPage(v) /\ ~Return(v)
    BY <1>3, <2>4 DEF RunOf, Step, FailRun, Begin, CreateSyncPoint, ReadWatchList, Prepare,
       SaveNotifications, AdvanceCursor, ReadQuota, WriteQuota, InsertOrphan,
       NextUser, Goto, locals, InOrder
  <2>5. QED
    BY <2>2, <2>3, <2>4
<1>4. QED
  BY <1>1, <1>2, <1>3, RunsOnly

\* A run's steps up to the save, the move of the cursor and the read of a
\* counter leave what it has under way, and the counters, as they are.
LEMMA QuietSteps ==
  ASSUME TypeOK, NEW w \in Workers, InOrder(w), NEW u \in Users,
         \/ \E j \in Jobs : Begin(w, j)
         \/ CreateSyncPoint(w) \/ ReadWatchList(w) \/ FetchPage(w) \/ Prepare(w)
         \/ AdvanceCursor(w) \/ ReadQuota(w)
  PROVE  UNCHANGED <<total, today, uncounted, ToCount(w, u)>>
<1> USE DEF TypeOK, RunTypes
<1>1. UNCHANGED <<total, today, uncounted>>
  BY DEF Begin, CreateSyncPoint, ReadWatchList, FetchPage, Prepare, AdvanceCursor,
     ReadQuota, history
<1>2. CASE (\E j \in Jobs : Begin(w, j)) \/ CreateSyncPoint(w) \/ ReadWatchList(w) \/ FetchPage(w)
  <2>1. pc[w] \in {"idle", "create", "watch", "fetch"} /\ todo[w] = {}
    BY <1>2 DEF Begin, CreateSyncPoint, ReadWatchList, FetchPage, InOrder
  <2>2. pc'[w] # "cursor" /\ todo'[w] = {}
    BY <1>2, <2>1 DEF Begin, CreateSyncPoint, ReadWatchList, FetchPage, Goto, Return
  <2>3. QED
    BY <1>1, <2>1, <2>2 DEF ToCount
<1>3. CASE Prepare(w)
  <2>1. pc[w] = "prepare" /\ todo[w] = {}
    BY <1>3 DEF Prepare, InOrder
  <2>2. CASE Return(w)
    <3>1. pc'[w] = "idle" /\ todo'[w] = {}
      BY <2>2 DEF Return
    <3>2. QED
      BY <1>1, <2>1, <3>1 DEF ToCount
  <2>3. CASE ~Return(w)
    <3>1. UNCHANGED locals /\ (pc'[w] = "cursor" => Notices(w) = {})
      BY <1>3, <2>3 DEF Prepare, Goto
    <3>2. ToCount(w, u) = {} /\ ToCount(w, u)' = {}
      BY <2>1, <3>1 DEF ToCount, NoticesOf, Notices, locals
    <3>3. QED
      BY <1>1, <3>2
  <2>4. QED
    BY <2>2, <2>3
<1>4. CASE AdvanceCursor(w)
  <2>1. pc[w] = "cursor" /\ ToCount(w, u) = NoticesOf(w, u)
    BY <1>4 DEF AdvanceCursor, ToCount
  <2>2. CASE Notices(w) = {}
    <3>1. pc'[w] = "idle" /\ todo'[w] = {}
      BY <1>4, <2>2 DEF AdvanceCursor, Return
    <3>2. QED
      BY <1>1, <2>1, <2>2, <3>1 DEF ToCount, NoticesOf
  <2>3. CASE Notices(w) # {}
    <3>1. /\ pc'[w] = "quota" /\ UNCHANGED <<page, watch>>
          /\ todo'[w] = {e[2] : e \in Notices(w)}
      BY <1>4, <2>3 DEF AdvanceCursor, Goto
    <3>2. NoticesOf(w, u)' = NoticesOf(w, u)
      BY <3>1 DEF NoticesOf, Notices
    <3>3. u \notin todo'[w] => NoticesOf(w, u) = {}
      BY <3>1 DEF NoticesOf
    <3>4. QED
      BY <1>1, <2>1, <3>1, <3>2, <3>3 DEF ToCount
  <2>4. QED
    BY <2>2, <2>3
<1>5. CASE ReadQuota(w)
  <2>1. /\ pc[w] = "quota" /\ pc'[w] \in {"count", "orphan"}
        /\ UNCHANGED <<page, watch, todo>>
    BY <1>5 DEF ReadQuota, Goto
  <2>2. QED
    BY <1>1, <2>1 DEF ToCount, NoticesOf, Notices
<1>6. QED
  BY <1>2, <1>3, <1>4, <1>5

\* After it has counted one user's rows, a run has the others' under way.
LEMMA NextUserOwes ==
  ASSUME TypeOK, NEW w \in Workers, pc[w] \in {"count", "orphan"}, NextUser(w), NEW u
  PROVE  IF u = user[w] THEN ToCount(w, u)' = {} ELSE ToCount(w, u)' = ToCount(w, u)
<1> USE DEF TypeOK, RunTypes
<1>1. CASE todo[w] = {user[w]}
  <2>1. pc'[w] = "idle" /\ todo'[w] = {}
    BY <1>1 DEF NextUser, Return
  <2>2. QED
    BY <1>1, <2>1 DEF ToCount
<1>2. CASE todo[w] # {user[w]}
  <2>1. /\ pc'[w] = "quota" /\ UNCHANGED <<page, watch>>
        /\ todo'[w] = todo[w] \ {user[w]}
    BY <1>2 DEF NextUser, Goto
  <2>2. QED
    BY <2>1 DEF ToCount, NoticesOf, Notices
<1>3. QED
  BY <1>1, <1>2

\* A run's step stores no more of u's rows than it counts, loses to every
\* counter, or has under way after it.
LEMMA RunTells ==
  ASSUME TypeOK, NEW w \in Workers, InOrder(w), RunOf(w), NEW u \in Users
  PROVE  /\ today'[u] + Cardinality(ToCount(w, u)) + Base(u) + uncounted[u]
              <= today[u] + Base(u)' + uncounted'[u] + Cardinality(ToCount(w, u)')
         /\ uncounted[u] <= uncounted'[u]
<1> USE DEF TypeOK
<1>1. /\ today[u] \in Nat /\ uncounted[u] \in Nat /\ Base(u) \in Nat
      /\ total[u] \in {-1} \cup Nat
  BY DEF HistoryTypes, UserTypes, Base, NoRow
<1>2. /\ Cardinality(ToCount(w, u)) \in Nat /\ Cardinality(NoticesOf(w, u)) \in Nat
      /\ Cardinality({}) = 0
      /\ ToCount(w, u) # {} => ToCount(w, u) = NoticesOf(w, u)
  BY LossesCount, NoticesCount, FS_EmptySet DEF ToCount
<1>3. CASE \/ \E j \in Jobs : Begin(w, j)
           \/ CreateSyncPoint(w) \/ ReadWatchList(w) \/ FetchPage(w) \/ Prepare(w)
           \/ AdvanceCursor(w) \/ ReadQuota(w)
  <2>1. UNCHANGED <<total, today, uncounted, ToCount(w, u)>>
    BY <1>3, QuietSteps
  <2>2. Base(u)' = Base(u) /\ Cardinality(ToCount(w, u)') = Cardinality(ToCount(w, u))
    BY <2>1 DEF Base
  <2>3. QED
    BY <1>1, <1>2, <2>1, <2>2
<1>4. CASE SaveNotifications(w)
  <2>1. /\ pc[w] = "save" /\ pc'[w] = "cursor" /\ UNCHANGED <<total, uncounted, locals>>
        /\ today'[u] = today[u] + Cardinality(NoticesOf(w, u))
    BY <1>4 DEF SaveNotifications, Goto, RunTypes
  <2>2. ToCount(w, u) = {}
    BY <2>1 DEF ToCount, InOrder
  <2>3. ToCount(w, u)' = NoticesOf(w, u) /\ Base(u)' = Base(u)
    BY <2>1 DEF ToCount, NoticesOf, Notices, locals, Base
  <2>4. Cardinality(ToCount(w, u)') = Cardinality(NoticesOf(w, u))
    BY <2>3
  <2>5. QED
    BY <1>1, <1>2, <2>1, <2>2, <2>3, <2>4
<1>5. CASE WriteQuota(w)
  <2>1. /\ pc[w] = "count" /\ NextUser(w) /\ UNCHANGED today
        /\ user[w] \in Users /\ Overwritten(w) \in Nat /\ read[w] \in Nat
        /\ total' = [total EXCEPT ![user[w]] = Counted(w)]
        /\ uncounted' = [uncounted EXCEPT ![user[w]] = @ + Overwritten(w)]
    BY <1>5, LossesCount DEF WriteQuota, RunTypes
  <2>2. CASE u = user[w]
    <3>1. /\ total'[u] = read[w] + Cardinality(NoticesOf(w, u))
          /\ uncounted'[u] = uncounted[u] + (IF total[u] > read[w] THEN total[u] - read[w] ELSE 0)
      BY <2>1, <2>2 DEF UserTypes, HistoryTypes, Counted, Overwritten
    <3>2. ToCount(w, u)' = {}
      BY <2>1, <2>2, NextUserOwes
    <3>3. Cardinality(ToCount(w, u)') = 0
      BY <1>2, <3>2
    <3>4. Base(u)' = read[w] + Cardinality(NoticesOf(w, u))
      BY <1>2, <2>1, <3>1 DEF Base, NoRow
    <3>5. Cardinality(ToCount(w, u)) <= Cardinality(NoticesOf(w, u))
      BY <1>2
    <3>6. Base(u) + uncounted[u] <= read[w] + uncounted'[u] /\ uncounted'[u] \in Nat
      BY <1>1, <2>1, <3>1 DEF Base, NoRow
    <3>7. uncounted[u] <= uncounted'[u]
      BY <1>1, <2>1, <3>1
    <3>8. QED
      BY <1>1, <1>2, <2>1, <3>3, <3>4, <3>5, <3>6, <3>7
  <2>3. CASE u # user[w]
    <3>1. total'[u] = total[u] /\ uncounted'[u] = uncounted[u]
      BY <2>1, <2>3 DEF UserTypes, HistoryTypes
    <3>2. ToCount(w, u)' = ToCount(w, u)
      BY <2>1, <2>3, NextUserOwes
    <3>3. Base(u)' = Base(u) /\ Cardinality(ToCount(w, u)') = Cardinality(ToCount(w, u))
      BY <3>1, <3>2 DEF Base
    <3>4. QED
      BY <1>1, <1>2, <2>1, <3>1, <3>3
  <2>4. QED
    BY <2>2, <2>3
<1>6. CASE InsertOrphan(w)
  <2>1. /\ pc[w] = "orphan" /\ NextUser(w) /\ UNCHANGED <<today, total>>
        /\ user[w] \in Users
        /\ uncounted' = [uncounted EXCEPT ![user[w]] = @ + Cardinality(NoticesOf(w, user[w]))]
    BY <1>6, LossesCount DEF InsertOrphan
  <2>2. Base(u)' = Base(u)
    BY <2>1 DEF Base
  <2>3. CASE u = user[w]
    <3>1. uncounted'[u] = uncounted[u] + Cardinality(NoticesOf(w, u))
      BY <2>1, <2>3 DEF HistoryTypes
    <3>2. ToCount(w, u)' = {}
      BY <2>1, <2>3, NextUserOwes
    <3>3. Cardinality(ToCount(w, u)') = 0 /\ Cardinality(ToCount(w, u)) <= Cardinality(NoticesOf(w, u))
      BY <1>2, <3>2
    <3>4. QED
      BY <1>1, <1>2, <2>1, <2>2, <3>1, <3>3
  <2>4. CASE u # user[w]
    <3>1. uncounted'[u] = uncounted[u]
      BY <2>1, <2>4 DEF HistoryTypes
    <3>2. ToCount(w, u)' = ToCount(w, u)
      BY <2>1, <2>4, NextUserOwes
    <3>3. Cardinality(ToCount(w, u)') = Cardinality(ToCount(w, u))
      BY <3>2
    <3>4. QED
      BY <1>1, <1>2, <2>1, <2>2, <3>1, <3>3
  <2>5. QED
    BY <2>3, <2>4
<1>7. CASE FailRun(w)
  <2>1. /\ pc'[w] = "idle" /\ todo'[w] = {} /\ UNCHANGED <<today, total>>
        /\ uncounted'[u] = uncounted[u] + Cardinality(ToCount(w, u))
    BY <1>7 DEF FailRun, Return, RunTypes
  <2>2. ToCount(w, u)' = {} /\ Base(u)' = Base(u)
    BY <2>1 DEF ToCount, Base
  <2>3. Cardinality(ToCount(w, u)') = 0
    BY <1>2, <2>2
  <2>4. QED
    BY <1>1, <1>2, <2>1, <2>2, <2>3
<1>8. QED
  BY <1>3, <1>4, <1>5, <1>6, <1>7 DEF RunOf, Step

\* A run's step puts u on its watch list only below the limit, and stores rows
\* of his only once, at most a page.
LEMMA RunWaits ==
  ASSUME TypeOK, NEW w \in Workers, InOrder(w), RunOf(w), NEW u \in Users
  PROVE  \/ Waiting(u)' \subseteq Waiting(u) /\ today'[u] = today[u]
         \/ /\ w \in Waiting(u) /\ Waiting(u)' = Waiting(u) \ {w}
            /\ today'[u] <= today[u] + Share
         \/ /\ ToCount(w, u) = {} /\ Waiting(u)' \subseteq Waiting(u) \cup {w}
            /\ total[u] < Limit /\ UNCHANGED <<today, uncounted>>
<1> USE DEF TypeOK, RunTypes
<1>1. \A v \in Workers \ {w} : v \in Waiting(u)' <=> v \in Waiting(u)
  BY OthersKept DEF RunOf, Waiting
<1>2. CASE SaveNotifications(w)
  <2>1. /\ pc[w] = "save" /\ pc'[w] = "cursor" /\ UNCHANGED locals
        /\ today'[u] = today[u] + Cardinality(NoticesOf(w, u)) /\ today[u] \in Nat
    BY <1>2 DEF SaveNotifications, Goto, HistoryTypes
  <2>2. w \notin Waiting(u)'
    BY <2>1 DEF Waiting
  <2>3. CASE u \in watch[w]
    <3>1. w \in Waiting(u)
      BY <2>1, <2>3 DEF Waiting
    <3>2. Waiting(u)' = Waiting(u) \ {w}
      BY <1>1, <2>2 DEF Waiting
    <3>3. today'[u] <= today[u] + Share
      BY <2>1, NoticesFit, ShareIsNat
    <3>4. QED
      BY <3>1, <3>2, <3>3
  <2>4. CASE u \notin watch[w]
    <3>1. NoticesOf(w, u) = {}
      BY <2>4 DEF NoticesOf, Notices
    <3>2. today'[u] = today[u]
      BY <2>1, <3>1, FS_EmptySet
    <3>3. Waiting(u)' \subseteq Waiting(u)
      BY <1>1, <2>2 DEF Waiting
    <3>4. QED
      BY <3>2, <3>3
  <2>5. QED
    BY <2>3, <2>4
<1>3. CASE ReadWatchList(w)
  <2>1. pc[w] = "watch" /\ todo[w] = {} /\ UNCHANGED <<today, uncounted>>
    BY <1>3 DEF ReadWatchList, InOrder, history
  <2>2. ToCount(w, u) = {}
    BY <2>1 DEF ToCount
  <2>3. CASE w \in Waiting(u)'
    <3>1. total[u] < Limit
      <4>1. u \in watch'[w] /\ pc'[w] # "idle"
        BY <2>3 DEF Waiting
      <4>2. ~AtLimit(u)
        BY <1>3, <4>1 DEF ReadWatchList, Return
      <4>3. total[u] \in Int /\ Limit \in Int
        BY ConstantsOK DEF UserTypes, NoRow
      <4>4. QED
        BY <4>2, <4>3 DEF AtLimit
    <3>2. Waiting(u)' \subseteq Waiting(u) \cup {w}
      BY <1>1 DEF Waiting
    <3>3. QED
      BY <2>1, <2>2, <3>1, <3>2
  <2>4. CASE w \notin Waiting(u)'
    <3>1. Waiting(u)' \subseteq Waiting(u)
      BY <1>1, <2>4 DEF Waiting
    <3>2. QED
      BY <2>1, <3>1
  <2>5. QED
    BY <2>3, <2>4
<1>4. CASE ~SaveNotifications(w) /\ ~ReadWatchList(w)
  <2>1. UNCHANGED today
    BY <1>4 DEF RunOf, Step, FailRun, Begin, CreateSyncPoint, FetchPage, Prepare, AdvanceCursor,
       ReadQuota, WriteQuota, InsertOrphan, history
  <2>2. w \in Waiting(u)' => w \in Waiting(u)
    <3>1. CASE pc'[w] \in {"fetch", "prepare", "save"}
      <4>1. pc[w] \in {"fetch", "prepare"} /\ watch'[w] = watch[w]
        BY <1>4, <3>1 DEF RunOf, Step, FailRun, Begin, CreateSyncPoint, FetchPage, Prepare,
           AdvanceCursor, ReadQuota, WriteQuota, InsertOrphan, NextUser, Goto, Return, locals
      <4>2. QED
        BY <4>1 DEF Waiting
    <3>2. CASE pc'[w] \notin {"fetch", "prepare", "save"}
      BY <3>2 DEF Waiting
    <3>3. QED
      BY <3>1, <3>2
  <2>3. Waiting(u)' \subseteq Waiting(u)
    BY <1>1, <2>2 DEF Waiting
  <2>4. QED
    BY <2>1, <2>3
<1>5. QED
  BY <1>2, <1>3, <1>4

\* Fewer runs that wait need less room.
LEMMA LessRoom ==
  ASSUME NEW V \in SUBSET Workers, NEW W \in SUBSET Workers
  PROVE  /\ Cardinality(V) \in Nat /\ Cardinality(W) \in Nat
         /\ Share * Cardinality(V) \in Nat /\ Share * Cardinality(W) \in Nat
         /\ V \subseteq W => Share * Cardinality(V) <= Share * Cardinality(W)
         /\ \A w \in W : V = W \ {w} =>
              Share * Cardinality(W) = Share * Cardinality(V) + Share
<1>1. /\ IsFiniteSet(V) /\ IsFiniteSet(W)
      /\ Cardinality(V) \in Nat /\ Cardinality(W) \in Nat
  BY ConstantsOK, FS_Subset, FS_CardinalityType
<1>2. ASSUME V \subseteq W PROVE Share * Cardinality(V) <= Share * Cardinality(W)
  <2>1. Cardinality(V) <= Cardinality(W)
    BY <1>1, <1>2, FS_Subset
  <2> DEFINE v == Cardinality(V)
             n == Cardinality(W)
  <2> HIDE DEF v, n
  <2>2. \A s, x, y \in Nat : x <= y => s * x <= s * y
    OBVIOUS
  <2>3. QED
    BY <1>1, <2>1, <2>2, ShareIsNat
<1>3. ASSUME NEW w \in W, V = W \ {w}
      PROVE  Share * Cardinality(W) = Share * Cardinality(V) + Share
  <2>1. Cardinality(V) = Cardinality(W) - 1
    BY <1>1, <1>3, FS_RemoveElement
  <2>2. \A s, x, y \in Nat : x = y - 1 => s * y = s * x + s
    OBVIOUS
  <2>3. QED
    BY <1>1, <2>1, <2>2, ShareIsNat
<1>4. QED
  BY <1>1, <1>2, <1>3, ShareIsNat

LEMMA RunBounded ==
  ASSUME TypeOK, TypeOK', \A v \in Workers : InOrder(v) /\ InOrder(v)',
         NEW w \in Workers, RunOf(w), NEW u \in Users, Told(u), Room(u)
  PROVE  Told(u)' /\ Room(u)'
<1>1. /\ today[u] \in Nat /\ uncounted[u] \in Nat /\ Base(u) \in Nat
      /\ today'[u] \in Nat /\ uncounted'[u] \in Nat /\ Base(u)' \in Nat
      /\ total[u] \in {-1} \cup Nat /\ Limit \in Nat \ {0}
  BY ConstantsOK DEF TypeOK, HistoryTypes, UserTypes, Base, NoRow
<1>2. /\ Owes(u) \in [Workers -> SUBSET Event]
      /\ Cardinality(PairsOf(Owes(u))) \in Nat
      /\ \A v \in Workers : Owes(u)[v] = ToCount(v, u) /\ Cardinality(ToCount(v, u)) \in Nat
  BY OwesTypes
<1>3. Owes(u)' \in [Workers -> SUBSET Event]
  BY DEF Owes, ToCount, NoticesOf, Notices, TypeOK, RunTypes
<1>4. \A v \in Workers : Owes(u)'[v] = ToCount(v, u)'
  BY DEF Owes
<1>5. \A v \in Workers : v # w => Owes(u)'[v] = Owes(u)[v]
  <2>1. ASSUME NEW v \in Workers, v # w PROVE ToCount(v, u)' = ToCount(v, u)
    BY <2>1, OthersKept DEF RunOf, ToCount, NoticesOf, Notices
  <2>2. QED
    BY <1>2, <1>4, <2>1
<1>6. /\ Cardinality(PairsOf(Owes(u)')) + Cardinality(ToCount(w, u)) =
           Cardinality(PairsOf(Owes(u))) + Cardinality(ToCount(w, u)')
      /\ Cardinality(PairsOf(Owes(u)')) \in Nat /\ Cardinality(ToCount(w, u)') \in Nat
  <2> DEFINE T == Owes(u)
             U == Owes(u)'
  <2>1. T \in [Workers -> SUBSET Event] /\ U \in [Workers -> SUBSET Event]
        /\ T[w] = ToCount(w, u) /\ U[w] = ToCount(w, u)'
    BY <1>2, <1>3, <1>4
  <2>2. \A v \in Workers : v # w => U[v] = T[v]
    BY <1>5
  <2> HIDE DEF T, U
  <2>3. Cardinality(PairsOf(U)) + Cardinality(T[w]) = Cardinality(PairsOf(T)) + Cardinality(U[w])
    BY <2>1, <2>2, PairsDiffer
  <2>4. Cardinality(U[w]) \in Nat /\ IsFiniteSet(PairsOf(U)) /\ Cardinality(PairsOf(U)) \in Nat
    BY <2>1, PairsSplit, FS_CardinalityType
  <2>5. QED
    BY <2>1, <2>3, <2>4 DEF T, U
<1>7. /\ today'[u] + Cardinality(ToCount(w, u)) + Base(u) + uncounted[u]
              <= today[u] + Base(u)' + uncounted'[u] + Cardinality(ToCount(w, u)')
      /\ uncounted[u] <= uncounted'[u]
  BY RunTells
<1>8. today'[u] <= Base(u)' + uncounted'[u] + Cardinality(PairsOf(Owes(u)'))
  BY <1>1, <1>2, <1>6, <1>7 DEF Told
<1>9. Told(u)'
  <2>1. PairsOf(Owes(u))' = PairsOf(Owes(u)')
    BY DEF PairsOf
  <2>2. QED
    BY <1>8, <2>1 DEF Told
<1> DEFINE V == Waiting(u)'
           W == Waiting(u)
<1>10. /\ V \in SUBSET Workers /\ W \in SUBSET Workers
       /\ Share \in Nat /\ Share * Cardinality(Workers) \in Nat
  BY ShareIsNat DEF Waiting
<1>11. today'[u] + Share * Cardinality(V) <= Limit - 1 + Share * Cardinality(Workers) + uncounted'[u]
  <2>1. today[u] + Share * Cardinality(W) <= Limit - 1 + Share * Cardinality(Workers) + uncounted[u]
    BY DEF Room
  <2> HIDE DEF V, W
  <2>2. /\ Share * Cardinality(V) \in Nat /\ Share * Cardinality(W) \in Nat
        /\ V \subseteq W => Share * Cardinality(V) <= Share * Cardinality(W)
        /\ w \in W /\ V = W \ {w} => Share * Cardinality(W) = Share * Cardinality(V) + Share
    BY <1>10, LessRoom
  <2>3. CASE V \subseteq W /\ today'[u] = today[u]
    BY <1>1, <1>7, <1>10, <2>1, <2>2, <2>3
  <2>4. CASE w \in W /\ V = W \ {w} /\ today'[u] <= today[u] + Share
    BY <1>1, <1>7, <1>10, <2>1, <2>2, <2>4
  <2>5. CASE /\ ToCount(w, u) = {} /\ V \subseteq W \cup {w} /\ total[u] < Limit
             /\ UNCHANGED <<today, uncounted>>
    <3>1. \A v \in V : Owes(u)[v] = {}
      <4>1. ASSUME NEW v \in W PROVE ToCount(v, u) = {}
        BY DEF W, Waiting, ToCount, InOrder
      <4>2. QED
        BY <1>2, <1>10, <2>5, <4>1
    <3>2. \A v \in Workers : /\ \A e \in Owes(u)[v] : e[2] = u
                             /\ Cardinality(Items(Owes(u)[v])) <= PageLimit
      BY OwesTypes
    <3>3. Cardinality(PairsOf(Owes(u))) + Share * Cardinality(V) <= Share * Cardinality(Workers)
      <4> DEFINE T == Owes(u)
      <4> HIDE DEF T
      <4>1. T \in [Workers -> SUBSET Event] /\ (\A v \in V : T[v] = {})
            /\ \A v \in Workers : /\ \A e \in T[v] : e[2] = u
                                  /\ Cardinality(Items(T[v])) <= PageLimit
        BY <1>2, <3>1, <3>2 DEF T
      <4>2. Cardinality(PairsOf(T)) + Share * Cardinality(V) <= Share * Cardinality(Workers)
        BY <1>10, <4>1, PairsBound
      <4>3. QED
        BY <4>2 DEF T
    <3>4. Base(u) <= Limit - 1
      BY <1>1, <2>5 DEF Base, NoRow
    <3>5. today[u] <= Base(u) + uncounted[u] + Cardinality(PairsOf(Owes(u)))
      BY DEF Told
    <3>6. today'[u] = today[u] /\ uncounted'[u] = uncounted[u]
      BY <2>5
    <3>7. QED
      BY <1>1, <1>2, <1>10, <2>2, <3>3, <3>4, <3>5, <3>6
  <2>6. QED
    BY <2>3, <2>4, <2>5, RunWaits DEF V, W
<1>12. QED
  BY <1>9, <1>11 DEF Room

LEMMA BoundedStep ==
  ASSUME TypeOK, TypeOK', \A v \in Workers : InOrder(v) /\ InOrder(v)',
         [Next]_vars, NEW u \in Users, Told(u), Room(u)
  PROVE  Told(u)' /\ Room(u)'
<1>1. CASE \E w \in Workers : RunOf(w)
  BY <1>1, RunBounded
<1>2. CASE UNCHANGED <<pc, locals, today, uncounted>> /\ Base(u)' = Base(u)
  <2>1. Owes(u)' = Owes(u) /\ Waiting(u)' = Waiting(u)
    BY <1>2 DEF Owes, ToCount, NoticesOf, Notices, Waiting, locals
  <2>2. PairsOf(Owes(u))' = PairsOf(Owes(u))
    BY <2>1 DEF PairsOf
  <2>3. QED
    BY <1>2, <2>1, <2>2 DEF Told, Room
<1>3. CASE ResetSave
  <2>1. /\ UNCHANGED <<pc, locals>> /\ today'[u] = 0 /\ uncounted'[u] = 0
        /\ Base(u)' \in Nat
    BY <1>3 DEF ResetSave, TypeOK, UserTypes, Base, NoRow
  <2>2. Owes(u)' = Owes(u) /\ Waiting(u)' = Waiting(u)
    BY <2>1 DEF Owes, ToCount, NoticesOf, Notices, Waiting, locals
  <2>3. PairsOf(Owes(u))' = PairsOf(Owes(u)) /\ Cardinality(PairsOf(Owes(u))) \in Nat
    BY <2>2, OwesTypes DEF PairsOf
  <2>4. Told(u)'
    <3>1. 0 <= Base(u)' + 0 + Cardinality(PairsOf(Owes(u)))
      BY <2>1, <2>3
    <3>2. QED
      BY <2>1, <2>3, <3>1 DEF Told
  <2>5. /\ Share * Cardinality(Waiting(u)) <= Share * Cardinality(Workers)
        /\ Share * Cardinality(Waiting(u)) \in Nat /\ Share * Cardinality(Workers) \in Nat
    <3>1. Waiting(u) \in SUBSET Workers /\ Workers \in SUBSET Workers
      BY DEF Waiting
    <3>2. QED
      BY <3>1, LessRoom
  <2>6. Room(u)'
    BY <2>1, <2>2, <2>5, ConstantsOK DEF Room
  <2>7. QED
    BY <2>4, <2>6
<1>4. \/ \E w \in Workers : RunOf(w)
      \/ UNCHANGED <<pc, locals, today, uncounted>> /\ Base(u)' = Base(u)
      \/ ResetSave
  <2>1. ASSUME NEW x \in Users, RegisterActivity(x)
        PROVE  UNCHANGED <<pc, locals, today, uncounted>> /\ Base(u)' = Base(u)
    BY <2>1 DEF RegisterActivity, TypeOK, UserTypes, Base, NoRow, history
  <2>2. UNCHANGED total => Base(u)' = Base(u)
    BY DEF Base
  <2>3. QED
    BY <2>1, <2>2 DEF RunOf, Next, Request, vars, queueVars, history, IndexBlock, Untrack,
       FailUntrack, ResetRead, SetTracking, SetSettings, RegisterToken, DeleteToken
<1>5. QED
  BY <1>1, <1>2, <1>3, <1>4

\* However many jobs share the counter, whatever runs overlap, die or meet the
\* reset: between two resets no user gets more rows than Limit - 1, a page of
\* every run, and the rows that a lost count, or a run that died, hid.
THEOREM DailyRowsBounded == Spec => []RowsOfADayAreBounded
<1> DEFINE Inv == /\ TypeOK
                  /\ \A w \in Workers : InOrder(w)
                  /\ \A u \in Users : Told(u) /\ Room(u)
<1>1. Init => Inv
  <2> SUFFICES ASSUME Init PROVE Inv
    OBVIOUS
  <2>1. TypeOK
    BY TypesAtInit
  <2>2. ASSUME NEW w \in Workers PROVE InOrder(w)
    <3>1. page[w] = {} /\ todo[w] = {} /\ Items({}) = {}
      BY DEF Init, Items
    <3>2. Cardinality(Items(page[w])) = 0 /\ 0 <= PageLimit
      BY <3>1, FS_EmptySet, ConstantsOK
    <3>3. QED
      BY <3>1, <3>2 DEF InOrder
  <2>3. ASSUME NEW u \in Users PROVE Told(u) /\ Room(u)
    <3>1. today[u] = 0 /\ uncounted[u] = 0 /\ Base(u) = 0
      BY DEF Init, Base
    <3>2. Cardinality(PairsOf(Owes(u))) \in Nat
      BY <2>1, <2>2, OwesTypes
    <3>3. Waiting(u) \in SUBSET Workers /\ Workers \in SUBSET Workers
      BY DEF Waiting
    <3>4. /\ Share * Cardinality(Waiting(u)) <= Share * Cardinality(Workers)
          /\ Share * Cardinality(Waiting(u)) \in Nat /\ Share * Cardinality(Workers) \in Nat
      BY <3>3, LessRoom
    <3>5. QED
      BY <3>1, <3>2, <3>4, ConstantsOK DEF Told, Room
  <2>4. QED
    BY <2>1, <2>2, <2>3
<1>2. Inv /\ [Next]_vars => Inv'
  <2> SUFFICES ASSUME Inv, [Next]_vars PROVE Inv'
    OBVIOUS
  <2>1. TypeOK' /\ \A w \in Workers : InOrder(w)'
    BY TypeStep, InOrderStep
  <2>2. ASSUME NEW u \in Users PROVE Told(u)' /\ Room(u)'
    BY <2>1, BoundedStep
  <2>3. QED
    BY <2>1, <2>2
<1>3. Inv => RowsOfADayAreBounded
  <2> SUFFICES ASSUME Inv, NEW u \in Users
               PROVE  today[u] <= Limit - 1 + Cardinality(Workers) * (PageLimit * Cardinality(Ends))
                                    + uncounted[u]
    BY DEF RowsOfADayAreBounded
  <2>1. today[u] \in Nat /\ uncounted[u] \in Nat /\ Limit \in Nat
    BY ConstantsOK DEF TypeOK, HistoryTypes
  <2>2. Waiting(u) \in SUBSET Workers /\ Workers \in SUBSET Workers
    BY DEF Waiting
  <2>3. Share * Cardinality(Waiting(u)) \in Nat /\ Share * Cardinality(Workers) \in Nat
    BY <2>2, LessRoom
  <2>4. Cardinality(Workers) * (PageLimit * Cardinality(Ends)) = Share * Cardinality(Workers)
    BY ShareIsNat DEF Share
  <2>5. QED
    BY <2>1, <2>3, <2>4 DEF Room
<1>4. QED
  BY <1>1, <1>2, <1>3, PTL DEF Spec

=============================================================================
