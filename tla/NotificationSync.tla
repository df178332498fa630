-------------------------- MODULE NotificationSync --------------------------
(***************************************************************************)
(* The notification pipelines of one explorer: four repeatable Bull jobs   *)
(* (notification.processor.ts) that poll the indexer above a stored cursor *)
(* (a row of sync_point), store a notification for every watched address   *)
(* that an event touches, move the cursor and count what each user got     *)
(* against a daily quota (the DAILY_NOTIFICATIONS rows of user_activity).  *)
(*                                                                         *)
(* Every await of a job is a point where other jobs, the midnight reset    *)
(* and the users' requests run, and where the job may die.  A database     *)
(* statement is one step.  An event <<height, user, tx, end>> is what one   *)
(* notification is about: a transaction at that height has an address the  *)
(* user watches on a side he asks for.  The indexer pages transactions; a  *)
(* transaction has as many events as it has such ends.                     *)
(***************************************************************************)
EXTENDS Integers, FiniteSets

CONSTANTS
  Jobs,          \* the pipelines: executed, coin, token and nft transfers
  CoinJobs,      \* those of them that read nativeCoinReceived and -Sent
  Users,         \* users that own an entry of the watch list
  Careless,      \* users that may save settings without one of those keys
  Txs,           \* transactions of a block
  Ends,          \* a watched address and its side, sender or receiver
  Workers,       \* slots in which Bull runs a job (all instances together)
  Registered,    \* users that have registered for notifications at Init
  Newcomers,     \* users that may register, or delete their token, after it
  PageLimit,     \* "limit" of the indexer queries, in transactions
  Limit,         \* limitNotifications, the daily quota
  MaxHeight,     \* bound: blocks indexed
  MaxFail,       \* bound: runs that die, updates that fail
  MaxReset,      \* bound: midnights
  NoJob, NoUser  \* sentinels of an idle worker

ASSUME ConstantsOK ==
  /\ IsFiniteSet(Jobs) /\ IsFiniteSet(Users) /\ IsFiniteSet(Workers)
  /\ IsFiniteSet(Txs) /\ IsFiniteSet(Ends)
  /\ CoinJobs \subseteq Jobs /\ Registered \cup Newcomers \cup Careless \subseteq Users
  /\ {PageLimit, Limit} \subseteq Nat \ {0}
  /\ {MaxHeight, MaxFail, MaxReset} \subseteq Nat
  /\ NoJob \notin Jobs /\ NoUser \notin Users

VARIABLES
  height,       \* last block the indexer holds
  events,       \* events[j]: what the query of job j can return
  point,        \* point[j]: the job's sync_point row
  saved,        \* saved[j][e]: notification rows ever stored for e
  total,        \* total[u]: the user's DAILY row of this explorer
  orphan,       \* orphan[u]: a DAILY row without explorer, and its place
  tracking,     \* tracking[u]: watch_list.tracking
  partial,      \* users with an entry whose settings lack a coin key
  token,        \* users with an ACTIVE notification_token
  registering,  \* users between the two inserts of a registration
  untrack,      \* users whose "tracking: false" update is in flight
  reset,        \* the midnight job: the rows it read
  pc, job,      \* pc[w], job[w]: where worker w stands, and in which job
  from,         \* from[w]: the run's currentTxHeight
  watch,        \* watch[w]: its watchList, as the users it belongs to
  lacking,      \* lacking[w]: whether settings in it lack a coin key
  page,         \* page[w]: the response of the indexer
  todo, user,   \* the loop of blockLimitNotification: users left, user at hand
  read,         \* read[w]: his currentTotal
  fails, resets,
  overlapped,   \* history: whether a run outlived the next tick of its job
  excused,      \* history: events the cursor may pass without a row
  redo,         \* history: runs that died between the rows and the cursor
  today,        \* history: rows stored for the user since the last reset
  uncounted     \* history: those of them that no counter will ever hold

locals    == <<job, from, watch, lacking, page, todo, user, read>>
queueVars == <<point, saved, total, orphan, untrack, pc, locals>>
userVars  == <<tracking, partial, token, registering>>
history   == <<overlapped, excused, redo, today, uncounted>>
vars == <<height, events, queueVars, userVars, reset, fails, resets, history>>

NoPoint == -1
NoRow   == -1
NoReset == [active |-> FALSE, rows |-> {}]
Event   == (1..MaxHeight) \X Users \X Txs \X Ends
Steps == {"idle", "create", "watch", "fetch", "prepare", "save", "cursor",
          "quota", "count", "orphan"}

StoreTypes ==
  /\ height \in 0..MaxHeight
  /\ events \in [Jobs -> SUBSET Event]
  /\ point \in [Jobs -> {NoPoint} \cup 0..MaxHeight]
  /\ saved \in [Jobs -> [Event -> Nat]]
  /\ fails \in 0..MaxFail
UserTypes ==
  /\ total \in [Users -> {NoRow} \cup Nat]
  /\ orphan \in [Users -> {"none", "before", "after"}]
  /\ tracking \in [Users -> BOOLEAN] /\ partial \subseteq Careless
  /\ token \subseteq Users /\ registering \subseteq Users
  /\ untrack \subseteq Users
  /\ reset \in [active : BOOLEAN, rows : SUBSET Users] /\ resets \in 0..MaxReset
RunTypes ==
  /\ pc \in [Workers -> Steps]
  /\ job \in [Workers -> Jobs \cup {NoJob}]
  /\ from \in [Workers -> 0..MaxHeight]
  /\ watch \in [Workers -> SUBSET Users] /\ todo \in [Workers -> SUBSET Users]
  /\ page \in [Workers -> SUBSET Event] /\ lacking \in [Workers -> BOOLEAN]
  /\ user \in [Workers -> Users \cup {NoUser}]
  /\ read \in [Workers -> Nat]
  /\ \A w \in Workers : /\ pc[w] # "idle" => job[w] \in Jobs
                        /\ pc[w] \in {"count", "orphan"} => user[w] \in Users
HistoryTypes ==
  /\ overlapped \in BOOLEAN
  /\ excused \in [Jobs -> SUBSET Event]
  /\ redo \in [Jobs -> Nat]
  /\ today \in [Users -> Nat] /\ uncounted \in [Users -> Nat]
TypeOK == StoreTypes /\ UserTypes /\ RunTypes /\ HistoryTypes

Init ==
  /\ height = 0
  /\ events = [j \in Jobs |-> {}]
  /\ point = [j \in Jobs |-> NoPoint]
  /\ saved = [j \in Jobs |-> [e \in Event |-> 0]]
  /\ token \in {R \in SUBSET Users : Registered \subseteq R}
  /\ total = [u \in Users |-> IF u \in token THEN 0 ELSE NoRow]
  /\ orphan = [u \in Users |-> "none"]
  /\ tracking \in [Users -> BOOLEAN] /\ partial \in SUBSET Careless
  /\ registering = {} /\ untrack = {}
  /\ reset = NoReset
  /\ pc = [w \in Workers |-> "idle"] /\ job = [w \in Workers |-> NoJob]
  /\ from = [w \in Workers |-> 0] /\ read = [w \in Workers |-> 0]
  /\ watch = [w \in Workers |-> {}] /\ todo = [w \in Workers |-> {}]
  /\ page = [w \in Workers |-> {}] /\ user = [w \in Workers |-> NoUser]
  /\ lacking = [w \in Workers |-> FALSE]
  /\ fails = 0 /\ resets = 0
  /\ overlapped = FALSE /\ excused = [j \in Jobs |-> {}]
  /\ redo = [j \in Jobs |-> 0]
  /\ today = [u \in Users |-> 0] /\ uncounted = [u \in Users |-> 0]

-----------------------------------------------------------------------------
(* The indexer, which the jobs only read.                                  *)

\* One block is indexed: its events show up in the tables of every job.
IndexBlock ==
  /\ height < MaxHeight
  /\ height' = height + 1
  /\ \E touched \in [Jobs -> SUBSET (Users \X Txs \X Ends)] :
       events' = [j \in Jobs |->
                    events[j] \cup
                      {<<height + 1, t[1], t[2], t[3]>> : t \in touched[j]}]
  /\ UNCHANGED <<queueVars, userVars, reset, fails, resets, history>>

\* "height: {_gt: $heightGT}"
NewerBelow(j, p)     == {e \in events[j] : e[1] < p}
NewerInclusive(j, p) == {e \in events[j] : e[1] >= p}
Newer(j, p)          == {e \in events[j] : e[1] > p}

\* The transactions of a set of events
Items(S) == {<<e[1], e[3]>> : e \in S}

\* "order_by: {height: desc}, limit: 100": the newest PageLimit transactions,
\* each with all its events.
Pages(S) ==
  IF Cardinality(Items(S)) <= PageLimit
  THEN {S}
  ELSE {{e \in S : <<e[1], e[3]>> \in P} :
          P \in {Q \in SUBSET Items(S) :
                   /\ Cardinality(Q) = PageLimit
                   /\ \A i \in Q, k \in Items(S) \ Q : i[1] >= k[1]}}

-----------------------------------------------------------------------------
(* One run of a job.                                                       *)

Goto(w, step) == pc' = [pc EXCEPT ![w] = step]
Return(w) ==
  /\ pc' = [pc EXCEPT ![w] = "idle"] /\ job' = [job EXCEPT ![w] = NoJob]
  /\ from' = [from EXCEPT ![w] = 0] /\ read' = [read EXCEPT ![w] = 0]
  /\ watch' = [watch EXCEPT ![w] = {}] /\ todo' = [todo EXCEPT ![w] = {}]
  /\ lacking' = [lacking EXCEPT ![w] = FALSE]
  /\ page' = [page EXCEPT ![w] = {}] /\ user' = [user EXCEPT ![w] = NoUser]

\* The rows are read oldest first, so an orphan row that precedes the row of
\* the explorer is met by "activity.explorer.id", which throws on it.
Poisoned(u) == orphan[u] = "before"

AtLimitLate(u) == total[u] > Limit
AtLimit(u)     == total[u] >= Limit

\* A tick of the job's cron: the run reads its sync_point.
Begin(w, j) ==
  /\ pc[w] = "idle"
  /\ overlapped' = (overlapped \/ \E v \in Workers : job[v] = j)
  /\ job' = [job EXCEPT ![w] = j]
  /\ IF point[j] = NoPoint
     THEN Goto(w, "create") /\ UNCHANGED from
     ELSE Goto(w, "watch") /\ from' = [from EXCEPT ![w] = point[j]]
  /\ UNCHANGED <<height, events, point, saved, total, orphan, untrack, watch, lacking,
                 page, todo, user, read, userVars, reset, fails, resets, excused,
                 redo, today, uncounted>>

\* updateBlockNotification: the first run of a job starts it at the chain's
\* height.  A second row, from an overlapping first run, is never read.
CreateSyncPoint(w) ==
  /\ pc[w] = "create"
  /\ LET j == job[w] IN
       IF point[j] = NoPoint
       THEN /\ point' = [point EXCEPT ![j] = height]
            /\ excused' = [excused EXCEPT ![j] = @ \cup events[j]]
       ELSE UNCHANGED <<point, excused>>
  /\ Return(w)
  /\ UNCHANGED <<height, events, saved, total, orphan, untrack, userVars, reset,
                 fails, resets, overlapped, redo, today, uncounted>>

\* queryWatchList: tracked entries of users below the limit.
ReadWatchList(w) ==
  /\ pc[w] = "watch"
  /\ LET tracked == {u \in Users : tracking[u]}
         below   == {u \in tracked : ~AtLimit(u)}
     IN IF (\E u \in tracked : Poisoned(u)) \/ below = {}
        THEN Return(w)
        ELSE /\ Goto(w, "fetch")
             /\ watch' = [watch EXCEPT ![w] = below]
             /\ lacking' = [lacking EXCEPT ![w] = below \cap partial # {}]
             /\ UNCHANGED <<job, from, page, todo, user, read>>
  /\ UNCHANGED <<height, events, point, saved, total, orphan, untrack, userVars,
                 reset, fails, resets, history>>

\* fetchDataFromGraphQL: an empty page ends the run.
FetchPage(w) ==
  /\ pc[w] = "fetch"
  /\ \E response \in Pages(Newer(job[w], from[w])) :
       IF response = {}
       THEN Return(w)
       ELSE /\ Goto(w, "prepare")
            /\ page' = [page EXCEPT ![w] = response]
            /\ UNCHANGED <<job, from, watch, lacking, todo, user, read>>
  /\ UNCHANGED <<height, events, point, saved, total, orphan, untrack, userVars,
                 reset, fails, resets, history>>

\* The notifications of the page: one for every transaction, watched address
\* and side.
Notices(w) == {e \in page[w] : e[2] \in watch[w]}

\* preProcessNotification reads the rows of every user with a token; after
\* it, coin transfers read ".turnOn" of settings that may lack the key.
Prepare(w) ==
  /\ pc[w] = "prepare"
  /\ IF (\E u \in token : Poisoned(u)) \/ (lacking[w] /\ job[w] \in CoinJobs)
     THEN Return(w)
     ELSE Goto(w, IF Notices(w) = {} THEN "cursor" ELSE "save") /\ UNCHANGED locals
  /\ UNCHANGED <<height, events, point, saved, total, orphan, untrack, userVars,
                 reset, fails, resets, history>>

NoticesOf(w, u) == {e \in Notices(w) : e[2] = u}

\* Pushes to firebase, which nothing waits for, and the insert of all rows.
SaveNotifications(w) ==
  /\ pc[w] = "save"
  /\ saved' = [saved EXCEPT ![job[w]] =
                 [e \in Event |-> @[e] + IF e \in Notices(w) THEN 1 ELSE 0]]
  /\ today' = [u \in Users |-> today[u] + Cardinality(NoticesOf(w, u))]
  /\ Goto(w, "cursor")
  /\ UNCHANGED <<height, events, point, total, orphan, untrack, locals, userVars,
                 reset, fails, resets, overlapped, excused, redo, uncounted>>

\* The height of response[0]
NewPointAtHead(first)   == height
NewPointPast(first)     == first[1] + 1
NewPoint(first)         == first[1]

\* What the cursor legitimately passes over: entries that were not tracked
\* or whose user was at the limit, and transactions that a full page left out.
LeftOut(w, h) ==
  {e \in Newer(job[w], from[w]) :
     /\ e[1] <= h
     /\ IF e \in page[w]
        THEN e[2] \notin watch[w]
        ELSE Cardinality(Items(page[w])) = PageLimit}

\* The cursor moves to the first, that is the highest, entry of the page.
AdvanceCursor(w) ==
  /\ pc[w] = "cursor"
  /\ \E first \in page[w] :
       /\ \A e \in page[w] : first[1] >= e[1]
       /\ point' = [point EXCEPT ![job[w]] = NewPoint(first)]
       /\ excused' = [excused EXCEPT ![job[w]] = @ \cup LeftOut(w, first[1])]
  /\ IF Notices(w) = {}
     THEN Return(w)
     ELSE /\ Goto(w, "quota")
          /\ todo' = [todo EXCEPT ![w] = {e[2] : e \in Notices(w)}]
          /\ UNCHANGED <<job, from, watch, lacking, page, user, read>>
  /\ UNCHANGED <<height, events, saved, total, orphan, untrack, userVars, reset,
                 fails, resets, overlapped, redo, today, uncounted>>

\* blockLimitNotification, first half of one turn of its loop: the read.
ReadQuota(w) ==
  /\ pc[w] = "quota"
  /\ \E u \in todo[w] :
       /\ user' = [user EXCEPT ![w] = u]
       /\ IF total[u] = NoRow
          THEN Goto(w, "orphan") /\ UNCHANGED read
          ELSE Goto(w, "count") /\ read' = [read EXCEPT ![w] = total[u]]
  /\ UNCHANGED <<height, events, point, saved, total, orphan, untrack, job, from,
                 watch, lacking, page, todo, userVars, reset, fails, resets, history>>

NextUser(w) ==
  IF todo[w] = {user[w]}
  THEN Return(w)
  ELSE /\ Goto(w, "quota")
       /\ todo' = [todo EXCEPT ![w] = @ \ {user[w]}]
       /\ user' = [user EXCEPT ![w] = NoUser]
       /\ read' = [read EXCEPT ![w] = 0]
       /\ UNCHANGED <<job, from, watch, lacking, page>>

CountedTwice(w) == read[w] + Cardinality(NoticesOf(w, user[w])) + 1
Counted(w)      == read[w] + Cardinality(NoticesOf(w, user[w]))

\* What other runs added to the counter since w read it
Overwritten(w) ==
  LET now == total[user[w]] IN IF now > read[w] THEN now - read[w] ELSE 0

\* ... and the write of what was read plus the user's share of the page; at
\* the limit an update that turns tracking off is started, not awaited.
WriteQuota(w) ==
  /\ pc[w] = "count"
  /\ total' = [total EXCEPT ![user[w]] = Counted(w)]
  /\ untrack' = IF Counted(w) >= Limit THEN untrack \cup {user[w]} ELSE untrack
  /\ uncounted' = [uncounted EXCEPT ![user[w]] = @ + Overwritten(w)]
  /\ NextUser(w)
  /\ UNCHANGED <<height, events, point, saved, orphan, userVars, reset, fails,
                 resets, overlapped, excused, redo, today>>

\* ... or, when the user has no row, the insert of one that lacks its explorer.
InsertOrphan(w) ==
  /\ pc[w] = "orphan"
  /\ orphan' = [orphan EXCEPT ![user[w]] =
                  IF @ # "none" THEN @
                  ELSE IF total[user[w]] = NoRow THEN "before" ELSE "after"]
  /\ uncounted' = [uncounted EXCEPT ![user[w]] = @ + Cardinality(NoticesOf(w, user[w]))]
  /\ NextUser(w)
  /\ UNCHANGED <<height, events, point, saved, total, untrack, userVars, reset,
                 fails, resets, overlapped, excused, redo, today>>

\* The un-awaited update of watch_list.
Untrack(u) ==
  /\ u \in untrack
  /\ untrack' = untrack \ {u}
  /\ tracking' = [tracking EXCEPT ![u] = FALSE]
  /\ UNCHANGED <<height, events, point, saved, total, orphan, pc, locals, partial,
                 token, registering, reset, fails, resets, history>>

\* The rows that run w has stored for u and not yet counted
ToCount(w, u) == IF pc[w] = "cursor" \/ u \in todo[w] THEN NoticesOf(w, u) ELSE {}

\* A request to the indexer or a statement is rejected (the job's catch only
\* logs), or the process dies: the run ends where it is.
FailRun(w) ==
  /\ pc[w] # "idle"
  /\ fails < MaxFail
  /\ fails' = fails + 1
  /\ redo' = IF pc[w] = "cursor" /\ Notices(w) # {}
             THEN [redo EXCEPT ![job[w]] = @ + 1] ELSE redo
  /\ uncounted' = [u \in Users |-> uncounted[u] + Cardinality(ToCount(w, u))]
  /\ Return(w)
  /\ UNCHANGED <<height, events, point, saved, total, orphan, untrack, userVars,
                 reset, resets, overlapped, excused, today>>

\* The un-awaited update fails: nothing tries it again.
FailUntrack(u) ==
  /\ u \in untrack
  /\ fails < MaxFail
  /\ fails' = fails + 1
  /\ untrack' = untrack \ {u}
  /\ UNCHANGED <<height, events, point, saved, total, orphan, pc, locals, userVars,
                 reset, resets, history>>

-----------------------------------------------------------------------------
(* resetNotification, at midnight: the rows are read, then saved with 0.   *)
(* Its clean-up of rows older than 30 days touches nothing that is read    *)
(* here: saved counts the rows ever stored.                                *)

ResetRead ==
  /\ ~reset.active
  /\ resets < MaxReset
  /\ resets' = resets + 1
  /\ reset' = [active |-> TRUE, rows |-> {u \in Users : total[u] # NoRow}]
  /\ UNCHANGED <<height, events, queueVars, userVars, fails, history>>

ResetSave ==
  /\ reset.active
  /\ reset' = NoReset
  /\ total' = [u \in Users |-> IF u \in reset.rows THEN 0 ELSE total[u]]
  /\ today' = [u \in Users |-> 0] /\ uncounted' = [u \in Users |-> 0]
  /\ UNCHANGED <<height, events, point, saved, orphan, untrack, pc, locals, userVars,
                 fails, resets, overlapped, excused, redo>>

-----------------------------------------------------------------------------
(* Requests of the users.                                                  *)

\* WatchListService.create and update: the user sets tracking as he likes.
SetTracking(u) ==
  /\ tracking' = [tracking EXCEPT ![u] = ~@]
  /\ UNCHANGED <<height, events, queueVars, partial, token, registering, reset,
                 fails, resets, history>>

\* ... and settings that hold all keys or, as checkKeysInObjects only refuses
\* unknown keys and empty objects, some of them.
SetSettings(u) ==
  /\ u \in Careless
  /\ partial' = IF u \in partial THEN partial \ {u} ELSE partial \cup {u}
  /\ UNCHANGED <<height, events, queueVars, tracking, token, registering, reset,
                 fails, resets, history>>

\* UserService.registerNotificationToken: first the DAILY row, if missing ...
RegisterActivity(u) ==
  /\ u \in Newcomers \ registering
  /\ registering' = registering \cup {u}
  /\ total' = [total EXCEPT ![u] = IF @ = NoRow THEN 0 ELSE @]
  /\ UNCHANGED <<height, events, point, saved, orphan, untrack, pc, locals, tracking,
                 partial, token, reset, fails, resets, history>>

\* ... then the token, if missing.
RegisterToken(u) ==
  /\ u \in registering
  /\ registering' = registering \ {u}
  /\ token' = token \cup {u}
  /\ UNCHANGED <<height, events, queueVars, tracking, partial, reset, fails, resets, history>>

\* UserService.deleteNotificationToken
DeleteToken(u) ==
  /\ u \in Newcomers \cap token
  /\ token' = token \ {u}
  /\ UNCHANGED <<height, events, queueVars, tracking, partial, registering, reset,
                 fails, resets, history>>

-----------------------------------------------------------------------------
Step(w) ==
  \/ CreateSyncPoint(w) \/ ReadWatchList(w) \/ FetchPage(w) \/ Prepare(w)
  \/ SaveNotifications(w) \/ AdvanceCursor(w) \/ ReadQuota(w) \/ WriteQuota(w)
  \/ InsertOrphan(w)

Request(u) ==
  SetTracking(u) \/ SetSettings(u) \/ RegisterActivity(u) \/ RegisterToken(u) \/ DeleteToken(u)

Next ==
  \/ IndexBlock
  \/ \E w \in Workers : Step(w) \/ FailRun(w) \/ \E j \in Jobs : Begin(w, j)
  \/ \E u \in Users : Untrack(u) \/ FailUntrack(u) \/ Request(u)
  \/ ResetRead \/ ResetSave

Spec == Init /\ [][Next]_vars

\* Bull starts every repeatable job again and again, and node runs a job's
\* next step once what it awaits has settled.
FairSpec ==
  /\ Spec
  /\ \A w \in Workers : WF_vars(Step(w))
  /\ \A j \in Jobs : WF_vars(\E w \in Workers : Begin(w, j))

-----------------------------------------------------------------------------
(* Properties.                                                             *)

\* Every event at or below a job's cursor has a notification row, or was let
\* go for a reason the code knows: it precedes the job's first sync point,
\* its entry was not tracked or its user over the limit when the watch list
\* was read, or the page was full.  Whatever dies between the rows and the
\* cursor, and however runs overlap, nothing else is lost.
OnlyKnownLosses ==
  \A j \in Jobs : \A e \in events[j] :
    e[1] <= point[j] => saved[j][e] > 0 \/ e \in excused[j]

\* As long as no runs of one job overlapped, its cursor never moves back, so no
\* block is polled again once the cursor has passed it.
CursorNeverRegresses ==
  [][~overlapped => \A j \in Jobs : point'[j] >= point[j]]_point

\* As long as no runs of one job overlapped, an event is stored again only by a
\* rerun after a run that died with its rows stored and its cursor not moved.
OneRowPerAttempt ==
  ~overlapped => \A j \in Jobs, e \in Event : saved[j][e] <= 1 + redo[j]

\* The quota counter of a user is backed by rows: with lost updates, dead
\* runs, overlaps and resets it may count less than was stored, never more.
\* So tracking is never turned off for a user who did not get Limit rows.
RowsOf(u) ==
  UNION {{<<j, e, n>> : n \in 1..saved[j][e]} :
           j \in Jobs, e \in {f \in Event : f[2] = u}}
QuotaBackedByRows == \A u \in Users : total[u] <= Cardinality(RowsOf(u))

\* No user gets more rows between two resets than Limit - 1, one page of every
\* run that Bull can have under way, and the rows that no counter will hold:
\* overwritten by another run's count, or of a run that died, or counted in a
\* row without explorer.  However the jobs share the counter, a user who is
\* counted as having Limit rows gets no further page.
RowsOfADayAreBounded ==
  \A u \in Users :
    today[u] <= Limit - 1 + Cardinality(Workers) * (PageLimit * Cardinality(Ends))
                  + uncounted[u]

\* "Process limit when 100 notification per day": once no job is running, and
\* if no runs of one job overlapped, a user who got Limit rows since the last
\* reset is counted as being there.
LimitIsProcessed ==
  ~overlapped /\ (\A w \in Workers : pc[w] = "idle") =>
    \A u \in Users : total[u] # NoRow /\ today[u] >= Limit => AtLimit(u)

\* "Get all watch list with tracking true", less those at the limit: a run
\* that finds a tracked entry of a user below the limit goes on to fetch.
UnderLimitEntriesAreRead ==
  [][\A w \in Workers :
       /\ pc[w] = "watch" /\ pc'[w] # "watch"
       /\ \E u \in Users : tracking[u] /\ ~AtLimit(u)
       => pc'[w] = "fetch"]_pc

\* "Get all watch list with tracking true": a run of the coin transfers that
\* has read such an entry and found transactions goes past the settings.
SettingsAreRead ==
  [][\A w \in Workers :
       /\ pc[w] = "prepare" /\ pc'[w] # "prepare"
       /\ \A u \in token : ~Poisoned(u)
       => pc'[w] \in {"save", "cursor"}]_pc

\* While all entries are tracked, all settings hold the coin keys and no
\* counter row without explorer is in the way, an event above a job's cursor
\* is stored in the end, or left out by a full page, or its user reaches the
\* limit.
EveryEventIsNotified ==
  ([]\A u \in Users : tracking[u] /\ u \notin partial /\ ~Poisoned(u)) =>
    \A j \in Jobs, e \in Event :
      (e \in events[j] /\ point[j] \in 0..(e[1] - 1))
        ~> (saved[j][e] > 0 \/ e \in excused[j] \/ AtLimit(e[2]))

=============================================================================
