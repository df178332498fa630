# A verification project for aura-explorer-api

The explorer API is a NestJS service over MySQL. It serves the explorers of several chains, polls the
indexer of each chain with Bull jobs (Redis), and pushes notifications to its users. This directory holds
TLA+ models of the parts that keep state under concurrency, TLC runs on small instances of them, and
proofs that TLAPS checks for every instance. Paths below are relative to the repository's `src/`.

Four facts of the code shape every module:

- **A statement is a step.** Apart from one transaction (`UserService.createUserWithPassword`), every
  database statement commits on its own. Each `await` is a point where other requests, other jobs and
  other instances run. An action is what happens between two awaits.
- **A save writes what was read.** `repository.save(entity)` and `update(id, wholeEntity)` write columns
  as they were read, several awaits earlier.
- **An answer may be missing.** Requests to the indexer, to nodes and to other services return `null` on
  any error, or are dropped from a list of answers; each caller goes on in its own way.
- **Jobs poll above a cursor.** A row of `sync_point` holds the height up to which a job has seen the
  indexer. The job reads it, fetches a page above it, stores what follows from the page, and moves it.
  The four notification jobs and the CW4973 job are independent instances of that loop.

## Inventory

| Component | State | Operations | What is hard | What makes it correct |
|---|---|---|---|---|
| Notification pipelines (`components/queues/notification`) | `sync_point`, `notification`, daily `user_activity` | four cron jobs, midnight reset, quota | overlapping runs, death between rows and cursor, full pages, lost counter updates, un-awaited updates, settings that lack a key | nothing is lost but for a known reason; a row is not repeated without cause; the quota counts what was stored; the rows of a day are bounded |
| Registration for notifications (`UserService`) | `notification_token`, daily `user_activity` | register, delete | rows that jobs insert in its place | a run can read every tracked entry |
| Account bound tokens (`soulbound-token`) | `soulbound_token`, `soulbound_reject_list` | create, update, pick, reject, notify | requests against the sync job | offers never reopen, at most five are shown |
| CW4973 sync (`queues/cw4973`) | `sync_point`, `soulbound_token` | cron job | un-awaited saves of stale rows, swallowed errors, transactions of several messages | a row says what the chain says |
| Users, authentication, mails (`user`, `auth`, `mail`, `queues/send-mail`) | `user`, `user_activity`, JWTs, mail queue | register, verify, resend, reset, change, rename, login, refresh, Google | stale whole-row saves, mails queued before commit, check then act on the mail limit | old sessions end, verification stays, secrets were mailed, the mail limit |
| Watch list (`watch-list`), private name tags (`private-name-tag`) | `watch_list`, `private_name_tag` | create, update, delete | count, checks and insert in separate statements | bounded tables, one entry for an address, unique names |
| Public name tags (`public-name-tag`) | `public_name_tag` | create, update, delete, pages by next key | check then insert, checks that overlook rows, a query of the next page that fails | unique keys, errors an administrator can understand |
| Encryption (`encryption`) | `cipher_keys` | find, make, store and read the key at the start | two instances start at a time, a key is written in another format than it is read | what one instance encrypts, the others decrypt |
| Assets and token jobs (`asset`, `queues/token`) | `asset`, `token_markets`, `token_holder_statistic`, sync mark | first full sync, sync of the last minute, prices, holders | mark saved before the work, windows no longer than the period, stale saves | what was asked for is stored, no time is left out |
| CW20 tokens, token markets, chain info (`cw20-token`, `chain-info`) | their rows | create, update, delete, lists | validators, read, merge and save in separate statements | rows as they were asked for, duplicates told before the database does |
| Contract verification (`contract`) | none of its own; the indexer's attempts | hand over, steps, status | the attempt appears later than the request, several requests | a code is verified once; polls tell a story |
| Page of an account bound token (`contract`) | `soulbound_token.ipfs` | fetch on demand, store | failed fetches that are stored, requests side by side | a page is empty only after attempts of its own |
| Export (`export-csv`) | none | pages by decreasing height | blocks that a page splits or that arrive meanwhile, missing pages | each transaction once, known gaps only |
| Cached answers (`CacheInterceptor`) | cache by URL | keep, serve | the chain is in a header, slow handlers | whose data a client sees, and how old |
| Notifications of a user (`notification`) | `notification.is_read` | list, read, read all, quota | – | – |
| Accounts of a chain (`account`) | none | totals of one account and of a list | many answers while coins move, pages, missing answers | the amount is wrong by what moved at most |
| Micro 3 campaign (`micro3-campaign`) | none | verify a quest | the last ten trades of each pool, missing answers | what is done stays done |
| Indexer queries (`shared/utils/service.util.ts`) | none | query, null on error | callers that take null for an answer | – |
| Google, bootstrap | none | wiring | – | – |

The components meet in MySQL and in the Bull queues and hardly call each other. The pipelines read
`watch_list` and write its `tracking` column. Registration, the mails and the pipelines share
`user_activity`. The CW4973 job and `SoulboundTokenService` write the same rows. Name tags are read by the
pipelines only for the text of a push message. The reads for clients meet the jobs only in the rows they show.

Roles are not modelled: no statement of the code changes the role of an existing user.

## Modules, in the order of the plan

1. `NotificationSync`, `MCNotificationSync`, `NotificationSyncProofs`: pipelines, quota, registration. *Done.*
2. `Soulbound`, `MCSoulbound`, `SoulboundProofs`: tokens and their sync job. *Done.*
3. `Account`, `MCAccount`, `AccountProofs`: one e-mail address. *Done.*
4. `EntryTable` (abstract), `UserEntries`, `MCUserEntries`, `UserEntriesProofs`: watch list and private
   name tags of one user. *Done; the refinement is proved.*
5. `AssetSync`, `HolderStatistics`: the assets of one explorer and their numbers of holders. *Done.*
6. `PublicNameTags`, `AdminRecords`, `CipherKey`, `RejectList`, `TokenContent`, `ContractVerification`,
   `CachedReads`: what else is written, kept or handed over. *Done.*
7. `ExportPages`, `NotificationMatch`, `AccountTotal`, `Quests`: what is read in several answers. *Done.*
8. `MCRecords` and `MCReads`, the instances for TLC of 4 and 6, and of 5 and 7. *Done.*
9. `RecordsProofs` and `ReadsProofs`: the theorems about the parts of `MCRecords`, and about `AssetSync`,
   `HolderStatistics` and `Quests` in `MCReads`. *Done.*
10. `SetLemmas` and `AnswersProofs`: facts about finite sets, sums, orders and sequences, and with them the theorems
    about `AccountTotal`, `ExportPages` and `NotificationMatch`. *Done.*

The modules are independent of each other, as the parts share rows but not steps; the column that two
of them touch (`watch_list.tracking`, the daily activity) is owned by NotificationSync. Within a module
the parts that interact are composed: four jobs with the reset and the users' requests, the sync job with
the token requests, all handlers of an account, both tables of a user's entries.

### NotificationSync

| Variables | Code |
|---|---|
| `height`, `events` | the indexer; an event is one end (a watched address on one side) of a transaction at a height |
| `point`, `saved`, `total`, `orphan` | `sync_point`, `notification`, the daily counter row, a counter row without explorer |
| `tracking`, `token`, `registering` | `watch_list.tracking`, `notification_token`, a registration between its two inserts |
| `partial` | users with settings that lack a key of the coin transfers |
| `pc` … `read` | the local variables of a run in one slot of Bull |
| `untrack`, `reset` | an update that nothing awaits, and the midnight job between read and save |
| `overlapped`, `excused`, `redo`, `today`, `uncounted` | history variables for the properties |

A run is `Begin`, `ReadWatchList`, `FetchPage`, `Prepare`, `SaveNotifications`, `AdvanceCursor`, then
`ReadQuota` and `WriteQuota` (or `InsertOrphan`) for each user; `FailRun` ends it anywhere. One model run
stands for each of the four handlers, whose bodies differ in their queries and in the settings they read:
`Prepare` throws in the job of the coin transfers (`CoinJobs`) if an entry of its watch list lacks
`nativeCoinReceived` or `nativeCoinSent` (`lacking`), as `.turnOn` of `undefined` does. `SetSettings` saves such
settings for the users in `Careless`; the validator lets them pass. `Pages` is the newest `PageLimit`
transactions, each with all its events; where heights tie it is any choice, as the query orders by height
alone. So a page may give a user more rows than it has transactions. All jobs share the counter of a user.
The clean-up of rows older than 30 days and the wording of a notification are abstracted. A user has one device, and
his entries share one tracking flag and one settings object.

### Soulbound

`chain` is the sequence of takes and unequips, each of which names the activity whose message the job reads for it:
for every activity of a transaction that is `transaction_messages[0]`, so that a transaction with several messages
shows the job its first one again and again (`InTransactions`), and none of them if the first is neither a take nor
an unequip (`read` = 0). `TokenRead` and `SaysTake` are what the job makes of it. `row` is the table, `writes` the
saves the job has started and not awaited. They land in any order (`Land`) and are lost by `Crash`. `Begin`,
`FetchPage`, `InsertTaken`, `FindRow`, `StartWrite` and `AdvanceCursor` are the job. `Create`, `Reject`,
`UpdateNotify`, `PutRead`/`PutWrite` and `PickCount`/`PickQuery`/`PickWrite` are the requests. `Swallow` is the
`catch` around one activity. `diverged` collects the tokens whose row may differ from the chain, each at the step
that makes it so. `soulbound_reject_list` is left out: no statement that changes a token reads it; `RejectList` has
it.

### Account

`account` is the row, `acts` the mail counters, `mails` what was ever queued, `sessions` what was ever
signed. A handler reads the row into `request[r].row`, and `SaveUser` writes all of it back.
`sendResetPasswordEmail` reads the user with his activities, and the save cascades: activities are written
back as they were read, and those that were created in between lose their user (TypeORM's default for
rows that are no longer in the relation). A code, a token or a password is the number of the request that
made it. A tick is the second in which times are compared; `Gap` ticks are the five minutes between
mails. The day has `Day` ticks, so that midnight and the expiry of a reset link fall into a run. The
delivery of a mail is external: once queued, it may be used at any later time.

### UserEntries and EntryTable

`entries[id]` is the row with that id, in either table, or `Removed`. A creation goes through the
statements of `validate` one at a time (`CountEntries`, `FindAddress`, `FindName`) and then `Insert`, which
the unique key (address, user) guards. `UpdateTag`, `LoadTag` and `WriteTag` are `updateNameTag`, which
writes the whole row it has read; `MoveWatched` and `WriteWatched` are the update of the watch list.
`EntryTable` says what is promised whatever requests are open: no address twice in a table, at most
`Bound` entries in an explorer, and a removed entry never comes back. `Rows` forgets the names, and
`Bound` is the limit plus the requests that may be open beside one.

### AssetSync

`indexed` is the indexer's asset table, ordered by id, and `asset` the explorer's. A run of `syncAsset` is
`BeginSync`, `FindMark`, `SetMark` on the first run, `FetchPage` for each page, and `Store`. `ReadForPrice`
and `ReadForInfo` stand for the jobs that read rows, ask another service, and save all columns of the rows
in `SaveRows`. The supply of an asset is the number of the change that set it, so that `best` can tell
whether a supply was ever stored. `from = null` is `Always`, a time before all others. A tick is the
precision of `updated_at`; the minute has `Window` ticks, so that a run that starts a tick after the minute
is late: the window of the code has no margin for that. The ERC20 explorers take the same path with
another query, which looks at the `updated_at` of the contract; that this moves with the supply is assumed
of the indexer. The columns of the price are left out.

### HolderStatistics

One asset and its rows by day. `CountHolders` and `DateCount` are `getHolders`: the count of an asset comes
with one of several requests, the date when all have come. `FetchRecord` is the cw20 job, which stores the
indexer's own record of a day. `Upsert` changes `total_holder` of a row and leaves `created_at`, which
`Clean` goes by, while the lists go by the date. `Clean` may come at any time, as a delayed Bull job does.

### Records of administrators, keys, rejections, contents, verifications, cached answers

- **PublicNameTags**: `FindAddress` and `FindName` are the lookups of `validate`, `Save` and `Rename` the writes,
  which the unique keys may refuse; `keyError` remembers the last refusal. Formats that are refused at once are not
  requests of the model.
- **AdminRecords**: one kind of record per behaviour, with its key column and another one, which for ibc tokens is
  the second column of the unique pair (chain_id, denom). A body may leave out either; `Merge` takes them column by
  column, and `SameKey` compares them, where a column that is null or undefined equals nothing. A request goes
  through the validator of its body (`Validate`; it belongs to the first column, and is not asked if the body leaves
  that one out), the lookup of its row (`Find`) and the save of the merged copy (`SaveUpdated`). `asked` is what the
  rows would be if each request had only changed what it names.
- **CipherKey**: `keys` has, for each stored key, the form in which it was written; `Readable` is what `getKey`
  makes of it. `Stop` is a crash or an error at any await of the start.
- **RejectList**: one receiver. `FindMinter`, `FindContracts`, `Block` and `RejectAll` are the awaits of
  `rejectToken`; `RejectNamed` is what it does for a contract that the indexer does not have. A creation asks
  `checkRejectToken` or does not, and saves later. `excused` collects the tokens that a rejection cannot have met.
- **TokenContent**: the column `ipfs` of one token, read, fetched with two retries, and stored whatever it holds by
  then.
- **ContractVerification**: `attempts` is the indexer's table, the attempt that was updated last in front, `posted`
  what was handed over and is not indexed. `CheckCode` and `Post` are the two halves of `verifyCodeId`; `Poll`
  computes the steps from the first attempt. The service behind (`Accept`, `Advance`) is external.
- **CachedReads**: a URL, an explorer in the header, the version of what a handler read. `Fresh` and `Keep` are the
  interceptor's, `Handle` the handler; a next page of name tags fails, as its query names a column that two of its
  tables have. The controller documents the next page (`public-name-tag.controller.ts:167-172`); no property says
  anything of it. `changed` is when the data of an explorer changed last, `seen` the newest version of its own that
  an explorer was shown at a URL, `raced` where data changed between a handler's read and its answer.

### Reads in several answers

- **ExportPages**: a record is its number in `log`, which holds heights; a kind of export is how its query
  orders and bounds the records. `FetchPage` is one turn of `queryData`, `Pages` every answer the query
  allows, where heights tie. `split`, `known` and `broken` say why a record may be missing.
- **NotificationMatch**: from a page of moves and a watch list to notices, as the functions of
  `notification.util.ts` compute them; NotificationSync says when that happens and what is stored. An entry has the
  settings that are on and those that lack; `Throws` is the filter of the coin transfers, which reads `turnOn` of
  each, and such a run makes no notices at all.
- **AccountTotal**: `chain` has the parts of an account's worth, `got` what was read of them. At the start the coins
  are in any of the parts: balance, stakes, unbondings, rewards, commission. There is a reward only while something is
  staked (`RewardsAreOfStakes`), as the chain pays it out with the last coin of a delegation. `Move`, `Earn`
  and `Spend` change the chain between any two answers; `NextPage` goes on from a key of the node.
- **Quests**: `deeds` is what the address did, `pool` the trades of each pool. `VerifyAtOnce` stands for the
  quests that need one answer, `ListPools`, `ReadPool` and `VerifyV2` for the walk through the pools.

### MCRecords and MCReads

These parts share no rows and no steps with each other. A behaviour of `MCRecords` or `MCReads` is one of
`UserEntries` or `AssetSync`, or of one of the instances, which `part` selects; the variables of the other
parts keep one value. So the runs check each part by itself over one state space, with the constants in one
place, and nothing is claimed of a product of them.

## Runs

| Run | Question | Bounds |
|---|---|---|
| `notification_safety` | do two pipelines side by side, or overlapping runs of one, lose, repeat or go back, and how many rows does a day get? | 2 jobs, 2 workers, 1 user, 2 blocks, pages of 1 transaction with 2 ends, limit 2, 1 failure, 1 midnight; `Scenario` |
| `notification_liveness` | is every event notified in the end? | the coin transfers, 2 workers, 2 blocks, pages of 1, limit 2, 1 failure, settings that may lack a key |
| `notification_lost_count` | *violation*: two jobs count at the same time | 2 jobs, no failure |
| `notification_orphan_row` | *violation*: a counter row without explorer stops all runs | 1 user who never registered |
| `notification_settings` | *violation*: settings without a key stop the coin transfers | 1 user, 1 block |
| `soulbound_mirror` | does the row follow the chain, and what do stale saves break? | 2 tokens, requests about one of them, 3 activities, blocks of up to 2, pages of 2, 1 failure; `Scenario`, `OnlyAsked` |
| `soulbound_pick_limit` | *violation*: concurrent picks pass the maximum | 2 tokens, maximum 1 |
| `account_races` | what survives stale saves of the row? | 4 requests in 2 slots, 4 instants over 2 days, 1 failure |
| `account_mail_limit` | *violation*: concurrent mails pass the limit | 3 requests, 1 day |
| `records` | do the rows of users and administrators survive two requests at a time; can keys, rejections, contents, verifications and cached answers be relied on? | entries: 4 requests in 2 slots, 2 explorers, 4 addresses, limit 2; administrators and rejections: 3 requests in 2 slots, 2 keys and 2 values of the other column, 2 contracts, 2 tokens; 2 instances, 5 starts; 3 steps, 2 attempts; 3 tries, 4 pages; time to live 2, 4 instants |
| `user_entries_names` | *violation*: a rename through another explorer | 1 slot |
| `reads` | is what is put together from several answers complete but for known gaps? | assets: 2 slots, 4 instants, minute of 2, 2 assets, 2 changes, pages of 1, 1 failure; exports: pages of 2, 2 pages, 4 rows, 3 blocks, 5 records; notices: 2 users, 2 addresses, 2 transactions (1 restaking), 2 moves, 2 entries; totals: 2 validators, pages of 1, 2 coins, 2 moves; quests: 2 pools, window 2, 3 deeds, 4 trades; holders: 3 days of 2 ticks, 2 runs, 1 change |

Why the bounds are enough. A lost or a repeated event needs one page before and one after the cursor, and one death
between the two statements; pages of one event with events of the same height make every page full. An overlap needs
two workers in one job. Passing the quota needs a page larger than what is left of it, which one transaction with
two ends is, two jobs that count at the same time, and the reset a second day. The constraint `Scenario` of
`notification_safety` joins two instances in one state space: either two jobs run side by side with both ends, all
users registered and no midnight, or one job's runs overlap, users register late, and a midnight passes or something
fails, with one end. It prunes states and changes no step. A stale save needs one request that reads, one that
writes in between, and the save; with four requests the registration, the operation it disturbs and a later look at
the consequences fit into a run. The bounds of the token run allow take, unequip and take again, with a block that a
page splits, or a transaction with messages about two tokens. Its `Scenario` lets activities, failures and open
requests share one bound, and `OnlyAsked` has requests about one token only: what the other does is to be read in
its place, and to count among the tokens that are held. The limit of two entries can be passed and seen to be passed
by one. With pages of one asset, an asset can change before, between and after the pages of a run. Two slots let a
second run or a save of stale rows fall into a first run, and four instants allow two windows in a row. An export of
five records in pages of two has a second page, a block that a page splits, and a file that is full; three blocks
allow one to arrive between two pages. Two validators in pages of one let a coin move from a page that was read to
one that is not. A window of two trades is passed by the third. Three days let a row become old enough to be
deleted. Three requests of administrators leave room for one that reads, one that writes in between, and one that
looks. Two coins lie in the same part or in two, a stake and its reward among them. Two attempts of three steps, of
which the second may run out of resources, have a failure of each kind before, at and after it.

`CHECK_DEADLOCK` is nowhere switched off. Where a bound would end a behaviour, `Quiet` stutters: in
`Account`, `UserEntries`, `AdminRecords`, `PublicNameTags` and `RejectList` only where no request is open, so
that a request that is stuck is still a deadlock; in the other modules where the one request they follow has
ended, or no further start is left.

### Findings

- *A count is lost* (`LimitIsProcessed`): the pipelines read, add and write the same daily counter.
- *A row without explorer* (`UnderLimitEntriesAreRead`): the insert of a missing counter omits the
  explorer, and every later run throws on it while it reads the watch list, for all users.
- *Settings without a key* (`SettingsAreRead`): the validator accepts settings without `nativeCoinReceived` or
  `nativeCoinSent`, and every run of the coin transfers that reads them throws, for all users.
- *The five tokens on display* (`PickLimitHolds`): count, contract query and write are separate.
- *Five mails a day* (`MailLimitHolds`): the counter is saved after the mail was queued.
- *Duplicate private names* (`NamesAreUnique`): the check uses the explorer of the request, the update
  any tag of the user.

The passing runs state what holds in spite of each: `QuotaBackedByRows` (the counter never exceeds the rows),
`RowsOfADayAreBounded` (lost counts are all that lets the rows of a day grow), `EveryEventIsNotified` (while
settings hold all keys and no such row is met), `PickedWasTaken`, `MailLimitHoldsAlone`, `NamesAreUniqueAlone`,
`OvershootIsBounded`.

Some properties name exceptions, each of which the code has:

- `EachRecordOnce`: cw20 and nft transfers have no height of their own, so that `heightLT` of their second
  page is undefined, and the page starts again with the newest records (`export-csv.service.ts:697`).
- `OnlyKnownGaps`: the next page starts below the last height, whatever the page left of that block.
- `KeyErrorsAreKnown`: for a new tag, `Not(req.id)` compares with an id that is not there, so that "Duplicate
  name tag" is never told; the unique key refuses instead (`public-name-tag.service.ts:182`).
- `RowsAreAsAsked`: an update saves the copy it has read, and may bring back a row that was removed.
- `DuplicatesAreTold`: the validators exclude the id of the body, the services update the id of the path. And an
  update that names one column of an ibc token's pair is looked up with the other undefined, which finds nothing, or not
  validated at all; merged with the stored column it may meet the unique key of the database, whose answer is true
  (`is-unique-many-column.validator.ts:28`).
- `RowsOfADayAreBounded` counts apart the rows that no counter will hold: overwritten by the count of another job, of
  a run that died, or counted in a row without explorer.
- `StatusMirrorsChain`: the job reads the first message of a transaction for each of its activities
  (`cw4973.processor.ts:94`). An activity for which it reads another one is passed over, and an unequip changes nothing
  if no take of its token was read.
- `SecretsAreReadable` holds because a key that an instance stores is written as a list of bytes and read as
  hex: no instance can start with it (`encryption.service.ts:47`, `:60`). The key has to be stored by hand.
- `AnswersAreFresh`: an answer is kept under its URL and served to clients of other explorers, so that what is promised
  is only that a change shows when the time to live has passed, and that no client sees its own data go back. An answer
  that was out of date when it was kept is excepted.
- `NoticesFollowSettings`: it is about runs that make notices, and so not about coin transfers with settings that lack a
  key. Users who set `inactiveAutoRestake` are meant not to be told of restaking transactions
  (`notification.util.ts:91-107`), but the groups that are tested have lost `tx_msg`, so that they are. The property
  says nothing of these notices, so that it does not depend on the intent or on the code.
- `QuestsStayDone`: ten trades of others in a pool take a proven quest back.
- `RejectionsHold`: `create` does not read the reject list.
- `VerifiedOnce`: two requests may both find nothing and hand the same code over.

### Fairness

Only `EveryEventIsNotified` needs it, under `FairSpec`. Each step of a run that is under way is weakly
fair, as node resumes a handler when what it awaits has settled, and requests to the indexer have
timeouts. Starting a run of each job is weakly fair, as the jobs are repeatable and Bull starts them again
on every tick. Nothing is assumed of failures, users, the indexer, the midnight job or the un-awaited
updates. The property is about times in which every entry stays tracked, all settings hold the keys of the coin
transfers and no counter row without explorer is in the way, and it allows for a user who reaches his limit and for
events that a full page left out.

## Proofs

Checked by TLAPS for all values of the constants, from the assumptions that the modules state and TLC evaluates:

| Module | Assumption |
|---|---|
| `NotificationSync` | jobs, users, workers, the transactions of a block and the ends are finitely many, the page and the quota are positive, bounds are numbers, `NoJob` is no job and `NoUser` no user |
| `UserEntries` | requests are finitely many and there is one, the limit is positive, `NoName` is no name and `Removed` no entry |
| `Account` | five mails, the five minutes and the day are positive, bounds are numbers, `None` is no number and `NoUser` no row |
| `Soulbound` | the limits are positive, bounds are numbers, `NoRow` is no row and `NoToken` no token |
| `AssetSync` | the minute and the page are positive, bounds are numbers |
| `MCRecords` | `RecordsConstantsOK`: the time to live and the number of attempts are numbers, a verification has a step |
| `MCReads` | `ReadsConstantsOK`: a day has some length; amounts, pools, windows, coins and bounds are numbers; the pages of an export and of a node and the number of an export's pages are positive; there are finitely many validators, numbered from 1 on; `Off` is no row and no address |

Each safety property that a passing run checks has its theorem, and so has each action property and the refinement;
the one liveness property is model-checked only.
The properties below are also checked by TLC, in the runs above; the inductive invariants were
proved without a run of their own unless it is said otherwise.

**NotificationSyncProofs.** `TypeCorrect`. `NothingIsLost`: `Spec => []OnlyKnownLosses`. The property is
not inductive: when the cursor moves, what makes it safe is what the run did several steps earlier. The
invariant `LossInv` adds `WithinChain` (events and cursors lie at or below the height) and `RunKnows(w)`,
which says of each stage of a run what it has established: everything up to the cursor it read is
accounted for; its page holds all newer events or is full; the events of its page that it does not store
are untracked; and after the save every notice has a row. `Grows` (rows and excuses are never taken back,
a new block is higher than all cursors) carries these facts over the steps of other runs, which is why
overlapping runs do no harm, even if the slower one moves the cursor back.

`CountersAreBacked`: `Spec => []QuotaBackedByRows`. The counter is read, and written several awaits later, by runs
of several jobs. The invariant is a witness: to each run are given the rows of the user that it has stored and not
counted, no row to two runs (`Apart`), and both the counter and every value that a run has read are at most the
number of the rows that nobody holds (`Backs`). A write adds exactly what its run held, so that it may lose
what another counted, but never counts a row twice. A run that dies lets its rows go, which only helps.

Two properties are about runs of one job that have not overlapped (`~overlapped`). `CursorsRise`: `OneRun` and
`Follows(w)`, that a run stands at the cursor which it read until it moves it. `RowsArePerAttempt`: above the cursor an
event has at most one row for each run that died over its rows, and one more while a run stands between rows and cursor
(`RowsAhead`).

`DailyRowsBounded`: `Spec => []RowsOfADayAreBounded`, for any number of jobs, overlapping runs, deaths and resets. The
rows of the day are those that the counter holds, those that no counter will hold, and those that runs have stored and
not yet counted (`Told`); a write over another run's count moves as many rows to the second kind as it loses. `Room`
leaves one page for each run that has the user on its watch list and his rows still to store: to enter it, the run has
seen him below the limit, and the rows that are not counted yet belong to the other runs, one page each at most
(`Waiting`, `Owes`, `InOrder`).

**UserEntriesProofs.** `TypeCorrect`. `OvershootHolds`: `Spec => []OvershootIsBounded`. The inductive
part, `AdmittedFit`, counts for each table and explorer the entries *and* the requests that have passed
the limit and not yet inserted: passing the limit needs fewer than `Limit` entries, and an insert trades a
request for a row. `ReadsHold` says that a row a request has read and will write back still has the
address and the explorer of the live row, so that writing it neither moves nor duplicates an entry.
`Implements`: `Spec => ImplementsTable`, step by step. An insert is `Add` (the room follows from
`AdmittedFit`, the free address from the unique key), `WriteTag` is a stutter (`ReadsHold`),
`WriteWatched` is `Move`, a delete is `Remove`, and all else leaves the rows alone. `NamesAreUniqueOneByOne`:
`Spec => []NamesAreUniqueAlone`. Names have no unique key, so that all rests on the check: `AloneInv` says that what
it found holds until the row is written (`NameIsFree`), and that nobody else is open meanwhile (`OneOpen`), as long as
no requests overlapped and no tag was updated through another explorer.

**AccountProofs.** `SecretsWereMailed`: `Spec => []EveryStoredSecretWasMailed`. Any handler may save a row
that it read long ago, so the invariant is about all rows that are held: `Fits` says, by the statement a
request has reached, which secrets of its row were mailed. A request may hold only one that was not, the one
it made itself, and it has mailed that one when it reaches the save. Mails are never taken back
(`StaysMailed`), so what one request does cannot harm what another holds.

The other theorems share two layers. `World` types the row, the activities, the mails and the sessions; `Handlers`
says of each request what it holds where it stands (`HoldsRow`, `KnowsUser`): a request past the guards has a user,
and a user whom it saw verified unless the verification has been undone. `TypesHold` and `VerificationHolds`
(`[][...]_vars`) follow from them. `SessionsRefused` adds `Passwords`: rows with the same password agree on the time
from which sessions are required, also where one of them is an old copy in a request, and the password that a
reset or a change is about to set is in no row yet. `MailLimitKept` adds `Alone`, for as long as no two requests for
mails overlapped and none died: either the one activity of a kind tells of all mails of the kind, or the one
request that is about to save it does (`Ledger`). The queue decides, over midnight (`Days`), that the next mail is far
enough from the last and within the number of its day (`Room`, `Queued`).

**SoulboundProofs.** `Basics` types the variables and says that a run works above its cursor on a page in the order
of the heights, that rows are never deleted, and that a save carries the status of the activity it was started for.
`OffersStayClosed` and `DisplayedWereTaken` follow from what each save and request read: whatever holds a picked row
has seen a take (`PicksAreTaken`). `RowsMirrorChain`: `Mirror` adds, for tokens that have not diverged, that the row
and every save keep the minter's signature (`SignedByMinter`), that of the activities handled on this page
(`Handled`) and below the cursor (`Settled`) the last one of a token is in the row or is its last pending save
(`Latest`). All of them are about the message that the job reads for an activity: `ReadOn` says that it is one of
the same transaction and at or before the activity, and `Findable` that it inserts a row or follows one that did,
which `IsFollowed` gives for the activities that the property is about. A crash, a swallowed error, a full block or
a landing out of order adds the token to `diverged` in the same step.

**RecordsProofs.** The parts share no variables, so that each has its own invariant under `part = ...`.

- *Keys* (`SecretsReadable`): `UsesInstalled` and `WroteWithInstalled` tie every instance that is up, and every cipher,
  to a row in the readable form, and `InstalledOnce` says that there is at most one, however many rows instances add.
- *Contents* (`EmptyPagesTried`): `ViewIsEarned` holds the reason with the request until it answers; the column, which
  others overwrite meanwhile, is not read again.
- *Rejections* (`RejectionsStand`): `MetOrExcused` says, for a rejection that has read the contracts of its minter,
  that it will meet every token on offer or that the token is excused; each creation in between keeps it, because the
  minter is on the list or the contract is among those that were read. `ContractsAreThere` keeps the minters that
  requests hold in step with the indexer. A rejection for a contract that the indexer did not have (`RejectNamedKeeps`)
  adds to what was rejected by name.
- *Cached answers* (`AnswersStayFresh`): `AnswersItsOwn` says that what a handler has read is the present data of the
  explorer that asked, unless that changed under it; `NotBehind` that what is kept under a URL is at least what its
  explorer has seen there, and was kept before the last change if it is not the present data. With the time to live that
  is an answer younger than the change by less than it; that other explorers replace the answer and are served it in
  between does no harm.
- *Administrators* (`RecordsAreAsAsked`, `DuplicatesToldTrue`, `KeyErrorsStayKnown`): `AloneIsOnly` says that a request
  which nobody crowded is the only one open, so that what its lookups found (`Validated`, `Passed`) holds when it
  writes; `UniqueKeys` and `UniqueTags` are the unique keys of the tables. What a
  body names in full and the validator has not found taken, the merged row may take (`WantedIsAllowed`), which leaves the
  bodies that name one column of a pair. A merge into a row that was removed
  after it was read brings back only rows that `stale` names. This proof found an error of the model
  beyond TLC's three requests: a save that is merged into a row which a stale update had brought back, while the record of
  what was asked still says removed. `SaveNew` was corrected.
- *Verifications* (`VerifiedOnceOnly`, `PollsStayInOrder`): `Story` orders the attempts by their ids, all but the last
  failed, lets at most one code be under way, and says that what was told has not gone back; it holds until two
  requests hand the same code over.

**ReadsProofs.** A page is the least numbers above a mark. That a nonempty set of numbers has a least one is
proved without induction, from the library's theorem that finite subsets are well-founded by inclusion
(`SetsAreWellFounded`, `LeastNumber`, `PageIsFirst`).

- *Assets* (`AssetTypesHold`, `SweptStaysStored`, `TimesAreSwept`): `StoredInv` says that no run holds a supply
  which the indexer had not, that a run past the page of an asset that changed in its window holds the present one
  (`SyncHolds`), and that a run which is alone never takes a supply back (`AloneRun`). `Chain` covers the time:
  until the mark is set, every open run asks for its own minute and all after, or for everything; from then on what
  no run has stored is asked for by an open one.
- *Holders* (`RecentStatisticsStay`, `CountsAreOfTheDay`): `NotBeforeItsDay` bounds the age of a row by its date,
  and turns the date of yesterday into an age under two days, with the division by the length of a day treated in
  lemmas of its own. `CountInv` keeps each count between the least and the most of its day, from the answer to the
  row.
- *Quests* (`QuestsStay`): a trade is named by its number from the oldest, so that later trades leave it where it is
  (`OwnIn`). `PoolsCount` says that what a walk through the pools has found is in the pools it has read, no trade
  twice, and that what it has not found is in those it has not, unless trades were pushed out of a window.
  `WindowCounts` maps a window into the trades of its pool, one to one, and onto them if none was pushed out.

**SetLemmas.** What the definitions of the community modules compute by recursion cannot be proved by induction
here, as the induction theorems take an operator. What takes its place is induction along inclusion: a set of
subsets of a finite set that has each set whose smaller subsets it has, has them all (`SubsetInduction`,
from the library's theorem that the strict inclusion of finite subsets is well-founded). From it follow
a least number (`FiniteSetHasLeast`), steps from 0 to n (`CountingUp`), the fold that `SumOf` is, taken apart
at any element (`SumsAgree`, `SumPicks`), sums that differ at one or two places (`SumChangesAtOne`,
`SumChangesAtTwo`), the listing of a set by rank (`RankedDescends`), the elements that a filter leaves of a sequence,
in their order and once each (`ChosenIsThere`), and the sequence that `FlattenSeq` makes of copies
(`CopiesSpread`) and of any sequences (`FlattenedIsPlaced`).

**AnswersProofs.** Two answers that are put together from several requests while the chain goes on, and the notices
of a page. TLC checked `ExportInv`, `MatchInv` and `TotalInv` on the constants of the run `reads`.

- *Totals* (`TotalsAreNear`): the total is compared with what it would be if nothing moved any more, which is what
  was read and, of the parts that are still to be read, what the chain has now (`View`). Each move of a coin changes
  its distance from the worth by one at most, wherever the coin comes from or goes to, and each answer turns a part
  of the view from the chain's into what was read, which is the same number at that moment. The indexer may be
  behind, and the node is not asked for the rewards if no stake was read, so that `TotalInv` says it with and
  without those two parts (`Behinds`, which depends on whether a stake was read, `NoStakeSeen`). When the first page
  of the stakes is empty, nothing is staked (`FirstIsThere`), so that there is no reward either, which is all that
  the view loses then (`RewardBehind`); what comes after is a move (`StakesSeen`).
- *Exports* (`FilesHaveEachRecordOnce`, `FilesHaveKnownGaps`): the heights rise with the ids of the records
  (`LogTypes`), so that new blocks come on top of what was fetched. `ExportInv` says that what was fetched is in the
  range, once each and newest first, and lies at or above the bound of the next page (`BelowResult`), while what was
  wanted and is not there lies below that bound or in a block that a page split (`Wanted`, `Fetched`).
  `PageIsNewest` takes this from the order of the query, `OnceAppended` over the join of the pages, and
  `RowsAreSpread` into the rows of the file, which repeat the records in their order.
- *Notices* (`NoticesAreAsAsked`): of a run that does not throw (`Lacking`), nothing changes between two steps, so
  that all is in the functions which make notices of a page. `KeysAreOfPage` says that the groups have each pair of
  a transaction and its end on one side once; `GroupIsTold` and `TransactionIsTold` that a group is told to each
  entry which asks for it, once, as no user watches an address twice; and `JoinedAreTold` that the groups together
  tell all that is expected. That the two sides of a transfer tell different things (`BothAreTold`) closes the
  argument. `MatchInv` adds only the types and the uniqueness of the watch list.

Only model-checked: `EveryEventIsNotified` (fairness and `ENABLED` are out of the prover's reach). The properties of
the violation runs are refuted, and so not proved.

## Not modelled

`PROJECT.json` lists every component with its status. Not modelled at all: the notifications of a user (marks
of what is read, which each request sets by itself, and lists), and bootstrap, logging and configuration,
which keep no state. The statistics job of the Micro 3 campaign is commented out in the code.

Within modelled parts: lists and searches that only read; the administrator's creation and deletion of users,
and roles; the values of prices and the lists of tokens that the jobs fetch; templates and delivery of mails
and push messages; device tokens beyond one per user, and the duplicate daily counters that two registrations
at a time can insert (`user.service.ts:500`); the empty private name, which is looked up encrypted and stored
as it is (`private-name-tag.service.ts:138`); assets whose denomination two explorers share (the unique key is
the denomination alone); layout and wording of exported files; in one transaction, a first message
about a token of another contract or of another receiver, which the job looks for among the tokens of the activity's; a
column that an administrator sets to null explicitly. The indexer, the nodes of the chains, the
verification service and the KMS are external: they answer late, wrongly ordered where a query leaves the order
open, or not at all, as the code that calls them expects.
