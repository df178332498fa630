----------------------------- MODULE AssetSync -----------------------------
(***************************************************************************)
(* The assets of one explorer (token.processor.ts).  Every minute syncAsset*)
(* asks the indexer for the assets that changed in the minute before it    *)
(* started, and stores their supply when it has read all pages; the first  *)
(* run asks for all of them, after it has set a mark that there was one.   *)
(* The other jobs of the queue, which fetch prices and the information     *)
(* that a token lacks, read rows of the same table, wait for other         *)
(* services, and save the rows with every column as they read it.          *)
(*                                                                         *)
(* Times are those of one clock: updated_at of the indexer and the start   *)
(* of a run.  A change is visible to queries as soon as it is made.        *)
(***************************************************************************)
EXTENDS Integers, Sequences, FiniteSetsExt

CONSTANTS
  Workers,      \* slots in which Bull runs the jobs of the queue
  Window,       \* the minute that a run looks back, in ticks
  PageLimit,    \* INDEXER_API_V2.MAX_REQUEST, what a page of the indexer holds
  MaxClock,     \* bound: ticks
  MaxAssets,    \* bound: assets of the indexer
  MaxChanges,   \* bound: assets added and supplies changed
  MaxFail       \* bound: runs that fail, processes that die

ASSUME ConstantsOK ==
  /\ {Window, PageLimit} \subseteq Nat \ {0}
  /\ {MaxClock, MaxAssets, MaxChanges, MaxFail} \subseteq Nat

VARIABLES
  clock,
  indexed,   \* the indexer's assets; the id is the position
  asset,     \* asset[d]: the row of d
  mark,      \* the FIRST_TIME_SYNC_ASSETS row of sync_point
  run,       \* run[w]: what the run in slot w holds
  changes,   \* the changes of the indexer so far
  fails,
  begun,     \* history: when the last run of syncAsset started
  late,      \* history: a run started later than Window after the last one
  swept,     \* history: times whose changes a run has asked for and stored
  best,      \* history: best[d], the newest supply that was stored for d
  overlapped \* history: two runs were open at the same time

history == <<begun, late, swept, best, overlapped>>
vars == <<clock, indexed, asset, mark, run, changes, fails, history>>

Time    == 0..MaxClock
Always  == -(Window + 1)     \* "from = null": before every time
From    == Always..MaxClock
Ids     == 1..MaxAssets
Change  == 1..MaxChanges     \* a supply is the number of the change that set it
Indexed == [supply : Change, at : Time]
NoRow   == [supply |-> 0, named |-> FALSE]
Row     == [supply : Change \cup {0}, named : BOOLEAN]
NoRows  == [d \in {} |-> 0]

\* named: the token has an image, a symbol and a name.
Idle == [job |-> "none"]
Sync == [job : {"sync"}, at : {"find", "mark", "fetch", "store"}, from : From,
         start : Time, last : Ids \cup {0}, supply : UNION {[S -> Change] : S \in SUBSET Ids}]
Save == [job : {"price", "info"}, rows : UNION {[S -> Row] : S \in SUBSET Ids}]

TypeOK ==
  /\ clock \in Time
  /\ indexed \in Seq(Indexed) /\ Len(indexed) <= MaxAssets
  /\ asset \in [Ids -> Row]
  /\ mark \in BOOLEAN
  /\ run \in [Workers -> {Idle} \cup Sync \cup Save]
  /\ changes \in 0..MaxChanges /\ fails \in 0..MaxFail
  /\ begun \in Time \cup {Always} /\ late \in BOOLEAN
  /\ swept \subseteq Time /\ best \in [Ids -> 0..MaxChanges]
  /\ overlapped \in BOOLEAN

Init ==
  /\ clock = 0 /\ indexed = <<>>
  /\ asset = [d \in Ids |-> NoRow]
  /\ mark = FALSE
  /\ run = [w \in Workers |-> Idle]
  /\ changes = 0 /\ fails = 0
  /\ begun = Always /\ late = FALSE
  /\ swept = {} /\ best = [d \in Ids |-> 0]
  /\ overlapped = FALSE

-----------------------------------------------------------------------------
(* The indexer, which the jobs only read.                                  *)

Tick ==
  /\ clock < MaxClock
  /\ clock' = clock + 1
  /\ UNCHANGED <<indexed, asset, mark, run, changes, fails, history>>

ChangeIndexed(rows) ==
  /\ changes < MaxChanges
  /\ changes' = changes + 1
  /\ indexed' = rows
  /\ UNCHANGED <<clock, asset, mark, run, fails, history>>

Changed == [supply |-> changes + 1, at |-> clock]
Add     == Len(indexed) < MaxAssets /\ ChangeIndexed(Append(indexed, Changed))
ChangeSupply == \E d \in DOMAIN indexed : ChangeIndexed([indexed EXCEPT ![d] = Changed])

-----------------------------------------------------------------------------
(* syncAsset                                                               *)

Begin(w, q) ==
  /\ run[w] = Idle
  /\ run' = [run EXCEPT ![w] = q]
  /\ overlapped' = (overlapped \/ \E v \in Workers : run[v] # Idle)
  /\ UNCHANGED <<clock, indexed, asset, mark, changes, fails, swept, best>>

At(w, at)   == run[w].job = "sync" /\ run[w].at = at
Goto(w, at) == run' = [run EXCEPT ![w].at = at]
Finish(w)   == run' = [run EXCEPT ![w] = Idle]

\* "new Date().getTime() - 60 * 1000"
SincePast(t)  == t - 2 * Window
SinceShort(t) == t - Window + 1
Since(t)      == t - Window

BeginSync(w) ==
  /\ Begin(w, [job |-> "sync", at |-> "find", from |-> Since(clock), start |-> clock,
               last |-> 0, supply |-> NoRows])
  /\ late' = (late \/ (begun # Always /\ clock > begun + Window))
  /\ begun' = clock

FindMark(w) ==
  /\ At(w, "find")
  /\ IF mark THEN Goto(w, "fetch")
     ELSE run' = [run EXCEPT ![w].at = "mark", ![w].from = Always]
  /\ UNCHANGED <<clock, indexed, asset, mark, changes, fails, history>>

SetMark(w) ==
  /\ At(w, "mark")
  /\ mark' = TRUE
  /\ Goto(w, "fetch")
  /\ UNCHANGED <<clock, indexed, asset, changes, fails, history>>

\* "updated_at: { _gte: $from }, id: { _gt: $id_gt }"
NewerOnly(from, last) == {d \in DOMAIN indexed : indexed[d].at > from /\ d > last}
Newer(from, last)     == {d \in DOMAIN indexed : indexed[d].at >= from /\ d > last}

\* "order_by: { id: asc }"
Page(S) == {d \in S : Cardinality({c \in S : c <= d}) <= PageLimit}

\* getDataWithPagination: full pages are followed by another one.
FetchPage(w) ==
  /\ At(w, "fetch")
  /\ LET q == run[w]
         response == Page(Newer(q.from, q.last))
         supply == [d \in DOMAIN q.supply \cup response |->
                      IF d \in response THEN indexed[d].supply ELSE q.supply[d]]
     IN IF Cardinality(response) = PageLimit
        THEN run' = [run EXCEPT ![w].supply = supply, ![w].last = Max(response)]
        ELSE run' = [run EXCEPT ![w].supply = supply, ![w].at = "store"]
  /\ UNCHANGED <<clock, indexed, asset, mark, changes, fails, history>>

\* storeAsset inserts the assets that have no row and updates the others.
StoredOnce(row, supply) == IF row = NoRow THEN [row EXCEPT !.supply = supply] ELSE row
Stored(row, supply)     == [row EXCEPT !.supply = supply]

Write(rows) ==
  /\ asset' = rows
  /\ best' = [d \in Ids |-> IF rows[d].supply > best[d] THEN rows[d].supply ELSE best[d]]

Store(w) ==
  /\ At(w, "store")
  /\ LET q == run[w] IN
     /\ Write([d \in Ids |-> IF d \in DOMAIN q.supply THEN Stored(asset[d], q.supply[d])
                             ELSE asset[d]])
     /\ swept' = swept \cup {t \in Time : q.from <= t /\ t < q.start}
  /\ Finish(w)
  /\ UNCHANGED <<clock, indexed, mark, changes, fails, begun, late, overlapped>>

-----------------------------------------------------------------------------
(* The other jobs                                                          *)

Rows == {d \in Ids : asset[d] # NoRow}

\* syncCoingeckoPrice reads the rows of a page of tokens while it waits for
\* their prices; nothing waits for it.
ReadForPrice(w) ==
  /\ \E S \in SUBSET Rows \ {{}} :
       Begin(w, [job |-> "price", rows |-> [d \in S |-> asset[d]]])
  /\ UNCHANGED <<begun, late>>

\* getNewCw20Info, getNewErc20Info: rows of one type that lack something.
ReadForInfo(w) ==
  /\ \E S \in SUBSET {d \in Rows : ~asset[d].named} \ {{}} :
       Begin(w, [job |-> "info", rows |-> [d \in S |-> asset[d]]])
  /\ UNCHANGED <<begun, late>>

\* The rows are saved as they were read, but for the columns of the job: those
\* of the price are left out here, and the indexer may not have the others.
SaveRows(w) ==
  /\ run[w].job \in {"price", "info"}
  /\ LET read == run[w].rows IN
     \E known \in SUBSET IF run[w].job = "info" THEN DOMAIN read ELSE {} :
       Write([d \in Ids |-> IF d \notin DOMAIN read THEN asset[d]
                            ELSE [read[d] EXCEPT !.named = @ \/ d \in known]])
  /\ Finish(w)
  /\ UNCHANGED <<clock, indexed, mark, changes, fails, begun, late, swept, overlapped>>

\* A request or a statement fails; the catch of the job only logs.
FailRun(w) ==
  /\ run[w] # Idle /\ fails < MaxFail
  /\ fails' = fails + 1
  /\ Finish(w)
  /\ UNCHANGED <<clock, indexed, asset, mark, changes, history>>

\* The process dies with all its runs, as when a save of prices, which nothing
\* waits for, is rejected.
Crash ==
  /\ fails < MaxFail /\ \E w \in Workers : run[w] # Idle
  /\ fails' = fails + 1
  /\ run' = [w \in Workers |-> Idle]
  /\ UNCHANGED <<clock, indexed, asset, mark, changes, history>>

Step(w) ==
  \/ BeginSync(w) \/ FindMark(w) \/ SetMark(w) \/ FetchPage(w) \/ Store(w)
  \/ ReadForPrice(w) \/ ReadForInfo(w) \/ SaveRows(w) \/ FailRun(w)

Next == Tick \/ Add \/ ChangeSupply \/ Crash \/ \E w \in Workers : Step(w)

Spec == Init /\ [][Next]_vars

-----------------------------------------------------------------------------
(* Properties                                                              *)

\* An asset whose last change falls into a time that a run has asked for and
\* stored has a row with the present supply, whatever changes between the
\* pages of a run.  When runs overlap, a run with older pages or a save of rows
\* that were read before may take a supply back, but it has been stored.
SweptIsStored ==
  \A d \in DOMAIN indexed :
    indexed[d].at \in swept =>
      \/ asset[d].supply = indexed[d].supply
      \/ overlapped /\ best[d] = indexed[d].supply

\* As the first run asks for everything and each later one for the minute
\* before it, no time is left out as long as no run is late and none fails.
\* A first run that fails is never made up for, as it has set the mark.
NoTimeIsSkipped ==
  ~late /\ fails = 0 /\ (\A w \in Workers : run[w].job # "sync") => 0..(begun - 1) \subseteq swept

=============================================================================
