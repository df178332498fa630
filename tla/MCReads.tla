------------------------------ MODULE MCReads ------------------------------
(***************************************************************************)
(* Small instances, for TLC, of what the API reads from the indexer, from  *)
(* nodes and from other services.  The parts share no state: a behaviour   *)
(* is one of AssetSync or of one of the modules instantiated below, and    *)
(* the variables of the other parts keep a fixed value.                    *)
(***************************************************************************)
EXTENDS AssetSync, TLC

CONSTANTS
  Users, Addresses, Txs, Restakes, Amounts,
  Off,          \* the value of a variable that is not in use
  ExportPage, MaxLoop, ExportLimit, MaxHeight, MaxRecords,   \* ExportPages
  MaxMoves, MaxEntries,                           \* NotificationMatch
  Validators, PageSize, Coins, MaxChainMoves,     \* AccountTotal
  PoolCount, PoolWindow, Graph, MaxDeeds, MaxTrades,  \* Quests
  DayLength, MaxTime, MaxHolders                      \* HolderStatistics

ASSUME ReadsConstantsOK ==
  /\ DayLength \in Nat \ {0} /\ MaxTime \in Nat
  /\ Off \notin [count : Nat, created : Nat] \cup [date : Nat, count : Nat]
                   \cup [date : Nat, count : Nat, on : Nat]
  /\ Off \notin Addresses
  /\ Amounts \cup {PoolCount, PoolWindow, Graph} \subseteq Nat
  /\ {ExportPage, MaxLoop} \subseteq Nat \ {0} /\ {ExportLimit, MaxHeight, MaxRecords} \subseteq Nat
  /\ Validators \subseteq Nat \ {0} /\ IsFiniteSet(Validators)
  /\ PageSize \in Nat \ {0} /\ Coins \in Nat

VARIABLES
  part, pc,
  height, log, request, below, result, loops, rows, known, split, broken,
  job, page, entries, tag, notices,
  chain, isValidator, otherCoin, balance, method, waiting, key, got, missed, moves,
  pool, quest, deeds, left, senders, silent, verdict, proven,
  sort, time, holders, opening, daily, stats, counted, stored, crossed

assetVars   == vars
exportVars  == <<height, log, request, below, result, loops, rows, known, split, broken>>
matchVars   == <<job, page, entries, tag, notices>>
totalVars   == <<chain, isValidator, otherCoin, balance, method, waiting, key, got, missed, moves>>
questVars   == <<pool, quest, deeds, left, senders, silent, verdict, proven>>
holderVars  == <<sort, time, holders, opening, daily, stats, counted, stored, crossed>>
allVars     == <<part, pc, assetVars, exportVars, matchVars, totalVars, questVars, holderVars>>

E == INSTANCE ExportPages WITH PageLimit <- ExportPage
M == INSTANCE NotificationMatch WITH Null <- Off
T == INSTANCE AccountTotal WITH indexed <- balance, MaxMoves <- MaxChainMoves
Q == INSTANCE Quests WITH broken <- silent, Window <- PoolWindow
H == INSTANCE HolderStatistics WITH
       Runs <- Workers, MaxClock <- MaxTime, MaxChanges <- MaxHolders, None <- Off,
       kind <- sort, now <- time, got <- counted

Unused(x) == x = Off
NoExport ==
  /\ Unused(height) /\ Unused(log) /\ Unused(request) /\ Unused(below) /\ Unused(result)
  /\ Unused(loops) /\ Unused(rows) /\ Unused(known) /\ Unused(split) /\ Unused(broken)
NoMatch ==
  Unused(job) /\ Unused(page) /\ Unused(entries) /\ Unused(tag) /\ Unused(notices)
NoTotal ==
  /\ Unused(chain) /\ Unused(isValidator) /\ Unused(otherCoin) /\ Unused(balance)
  /\ Unused(method) /\ Unused(waiting) /\ Unused(key) /\ Unused(got) /\ Unused(missed)
  /\ Unused(moves)
NoQuest ==
  /\ Unused(pool) /\ Unused(quest) /\ Unused(deeds) /\ Unused(left) /\ Unused(senders)
  /\ Unused(silent) /\ Unused(verdict) /\ Unused(proven)
NoHolders ==
  /\ Unused(sort) /\ Unused(time) /\ Unused(holders) /\ Unused(opening) /\ Unused(daily)
  /\ Unused(stats) /\ Unused(counted) /\ Unused(stored) /\ Unused(crossed)

ReadsInit ==
  /\ Init
  /\ part \in {"assets", "export", "match", "total", "quest", "holders"}
  /\ part = "assets" => Unused(pc)
  /\ IF part = "export"  THEN E!Init ELSE NoExport
  /\ IF part = "match"   THEN M!Init ELSE NoMatch
  /\ IF part = "total"   THEN T!Init ELSE NoTotal
  /\ IF part = "quest"   THEN Q!Init ELSE NoQuest
  /\ IF part = "holders" THEN H!Init ELSE NoHolders

ReadsNext ==
  /\ UNCHANGED part
  /\ part = "assets" => UNCHANGED pc
  /\ IF part = "assets"  THEN Next   ELSE UNCHANGED assetVars
  /\ IF part = "export"  THEN E!Next ELSE UNCHANGED exportVars
  /\ IF part = "match"   THEN M!Next ELSE UNCHANGED matchVars
  /\ IF part = "total"   THEN T!Next ELSE UNCHANGED totalVars
  /\ IF part = "quest"   THEN Q!Next ELSE UNCHANGED questVars
  /\ IF part = "holders" THEN H!Next ELSE UNCHANGED holderVars

ReadsSpec == ReadsInit /\ [][ReadsNext]_allVars

-----------------------------------------------------------------------------
\* A file has every record once, newest first, whatever blocks arrive between
\* two pages, but for kinds whose pages have no height (ExportCsvService).
EachRecordOnce == part = "export" => E!EachRecordOnce

\* What was indexed when the export began is missing from the file only for
\* the known reasons, a page that splits a block among them.
OnlyKnownGaps == part = "export" => E!OnlyKnownGaps

\* A user has the notices that his settings ask for, and no other
\* (NotificationUtil).
NoticesFollowSettings == part = "match" => M!NoticesFollowSettings

\* The total is wrong by what moves while it is summed up at most, or too low
\* by an answer that was left out (AccountService).
TotalIsNearWorth == part = "total" => T!TotalIsNearWorth

\* A quest is told to be done only if it is, and then stays so but for the
\* known reasons (Micro3CampaignService).
QuestsStayDone == part = "quest" => Q!QuestsStayDone

\* A day that is shown keeps its row of holders, however late the clean-up is
\* (TokenProcessor).
ShownStatisticsStay == part = "holders" => H!ShownStatisticsStay

\* The row of a day has a number of holders of that day, unless a run counted
\* before midnight and stored after it.
CountsAreOfTheirDay == part = "holders" => H!CountsAreOfTheirDay

Symmetry == Permutations(Workers) \cup Permutations(Users) \cup Permutations(Addresses)

=============================================================================
