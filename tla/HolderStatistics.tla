-------------------------- MODULE HolderStatistics --------------------------
(***************************************************************************)
(* How many hold an asset, day by day (token_holder_statistic).  Hourly    *)
(* runs ask the indexer and store a row for the asset and the day, a job   *)
(* at midnight deletes old rows, and the lists of assets show the rows of  *)
(* yesterday and today.  The module has one asset.                         *)
(***************************************************************************)
EXTENDS Integers

CONSTANTS
  Runs,          \* slots for concurrent runs
  DayLength,     \* ticks of a day
  MaxClock,      \* bound: time
  MaxChanges,    \* bound: changes of the number of holders
  None           \* no row, no record, nothing fetched

VARIABLES
  kind,          \* "counted" for native, ibc and ERC20, or "cw20"
  now,
  holders,       \* the number of holders, as the number of the change that made it
  opening,       \* opening[d]: holders when day d began
  daily,         \* cw20_total_holder_stats: the indexer's own record, the last one
  stats,         \* stats[d]: the row of day d
  pc, got,       \* what a run has fetched
  stored,        \* history: days that ever had a row
  crossed        \* history: days whose row was counted on an earlier day

vars == <<kind, now, holders, opening, daily, stats, pc, got, stored, crossed>>

Days == 0..(MaxClock \div DayLength)
Day(t) == t \div DayLength
Today == Day(now)

Init ==
  /\ kind \in {"counted", "cw20"}
  /\ now = 0 /\ holders = 0 /\ opening = [d \in Days |-> 0]
  /\ daily = None
  /\ stats = [d \in Days |-> None]
  /\ pc = [r \in Runs |-> "idle"] /\ got = [r \in Runs |-> None]
  /\ stored = {} /\ crossed = {}

-----------------------------------------------------------------------------
Tick ==
  /\ now < MaxClock /\ now' = now + 1
  /\ opening' = IF Day(now') = Today THEN opening ELSE [opening EXCEPT ![Day(now')] = holders]
  /\ UNCHANGED <<kind, holders, daily, stats, pc, got, stored, crossed>>

Hold ==
  /\ holders < MaxChanges /\ holders' = holders + 1
  /\ UNCHANGED <<kind, now, opening, daily, stats, pc, got, stored, crossed>>

Record ==
  /\ kind = "cw20"
  /\ daily' = [date |-> Today, count |-> holders]
  /\ UNCHANGED <<kind, now, holders, opening, stats, pc, got, stored, crossed>>

-----------------------------------------------------------------------------
Goto(r, step) == pc' = [pc EXCEPT ![r] = step]

\* getHolderWithPagination counts a hundred assets in a request; ours need
\* not be in the last one.
CountHolders(r) ==
  /\ pc[r] = "idle" /\ kind = "counted"
  /\ got' = [got EXCEPT ![r] = [date |-> Today, count |-> holders, on |-> Today]]
  /\ Goto(r, "date")
  /\ UNCHANGED <<kind, now, holders, opening, daily, stats, stored, crossed>>

\* "date = new Date()", when the last page has come.
DateCount(r) ==
  /\ pc[r] = "date"
  /\ got' = [got EXCEPT ![r].date = Today]
  /\ Goto(r, "store")
  /\ UNCHANGED <<kind, now, holders, opening, daily, stats, stored, crossed>>

\* getNewCw20Info: without a record of the indexer there is nothing to store.
FetchRecord(r) ==
  /\ pc[r] = "idle" /\ daily # None
  /\ got' = [got EXCEPT ![r] = [date |-> daily.date, count |-> daily.count,
                                on |-> daily.date]]
  /\ Goto(r, "store")
  /\ UNCHANGED <<kind, now, holders, opening, daily, stats, stored, crossed>>

\* upsertTokenHolderStatistic: only total_holder of a row is updated; which
\* row the keys (asset, date) tell.
RowByAsset(d) == IF \E e \in Days : stats[e] # None
                 THEN CHOOSE e \in Days : stats[e] # None ELSE d
RowOf(d)      == d
Upsert(r) ==
  /\ pc[r] = "store"
  /\ LET d   == RowOf(got[r].date)
         row == IF stats[d] = None THEN [count |-> got[r].count, created |-> now]
                ELSE [stats[d] EXCEPT !.count = got[r].count]
     IN /\ stats' = [stats EXCEPT ![d] = row]
        /\ stored' = stored \cup {d}
        /\ crossed' = IF got[r].on = got[r].date THEN crossed \ {d} ELSE crossed \cup {d}
  /\ Goto(r, "idle") /\ got' = [got EXCEPT ![r] = None]
  /\ UNCHANGED <<kind, now, holders, opening, daily>>

\* A run that misses an answer throws, its catch logs; or its process dies.
FailRun(r) ==
  /\ pc[r] # "idle"
  /\ Goto(r, "idle") /\ got' = [got EXCEPT ![r] = None]
  /\ UNCHANGED <<kind, now, holders, opening, daily, stats, stored, crossed>>

\* cleanAssetHolder: due at midnight, but Bull may start it at any later time.
OldAfterADay(row) == row.created < now - DayLength
Old(row)          == row.created < now - 2 * DayLength
Clean ==
  /\ stats' = [d \in Days |-> IF stats[d] # None /\ Old(stats[d]) THEN None ELSE stats[d]]
  /\ UNCHANGED <<kind, now, holders, opening, daily, pc, got, stored, crossed>>

Next ==
  \/ Tick \/ Hold \/ Record \/ Clean
  \/ \E r \in Runs :
       CountHolders(r) \/ DateCount(r) \/ FetchRecord(r) \/ Upsert(r) \/ FailRun(r)

Spec == Init /\ [][Next]_vars

-----------------------------------------------------------------------------
(* Properties                                                              *)

\* getAssets, getAssetsDetail: "date > now - 2 days".
Shown == {d \in Days : d > Today - 2 /\ d <= Today}

\* However late the clean-up and the runs are, a day that is shown keeps its
\* row once it has one, although rows are shown by their date and deleted by
\* their age.
ShownStatisticsStay == \A d \in Shown \cap stored : stats[d] # None

\* The row of a day has a number of holders that the asset had on that day,
\* unless the run that wrote it last counted before midnight.
Closing(d) == IF d = Today THEN holders ELSE opening[d + 1]
CountsAreOfTheirDay ==
  \A d \in Days \ crossed :
    stats[d] # None => stats[d].count \in opening[d]..Closing(d)

=============================================================================
