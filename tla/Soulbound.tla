----------------------------- MODULE Soulbound -----------------------------
(***************************************************************************)
(* Account bound tokens (CW4973) of one contract.  A minter offers a token *)
(* to a receiver (SoulboundTokenService.create); the receiver takes it and *)
(* may unequip it on the chain, or rejects the offer, and picks tokens to  *)
(* display.  CW4973Processor polls the indexer above a cursor and mirrors  *)
(* what happened on the chain into the rows of soulbound_token.            *)
(*                                                                         *)
(* The processor does not await its writes: they land in any order, among  *)
(* the requests, and die with the process.  One process runs one such job. *)
(***************************************************************************)
EXTENDS Integers, FiniteSets, SequencesExt

CONSTANTS
  Tokens,        \* tokens of the contract that one receiver may be offered
  Requests,      \* slots for his concurrent requests
  MaxPicked,     \* SOULBOUND_PICKED_TOKEN.MAX
  PageLimit,     \* PAGE_REQUEST.MAX
  BlockSize,     \* bound: activities in one block
  MaxActivity,   \* bound: activities on the chain
  MaxFail,       \* bound: swallowed errors, failed runs and crashes
  NoRow,         \* a token without a row
  NoToken        \* what a message names that is neither a take nor an unequip

ASSUME ConstantsOK ==
  /\ {MaxPicked, PageLimit, BlockSize} \subseteq Nat \ {0}
  /\ {MaxActivity, MaxFail} \subseteq Nat
  /\ NoToken \notin Tokens

VARIABLES
  chain,    \* the activities of the contract, in the order of the chain
  row,      \* row[t]: the soulbound_token row of t
  point,    \* the job's sync_point row
  pc,       \* where the job stands
  since,    \* the cursor it read
  page,     \* the response of the indexer, as positions in chain
  at,       \* the element of the page at hand
  item,     \* the row that was read for it
  writes,   \* the saves that nothing waits for, in the order of their start
  request,  \* request[r]: what the request in slot r has read so far
  fails,
  diverged  \* history: tokens whose row may differ from the chain, and why not

jobVars == <<point, pc, since, page, at, item>>
vars == <<chain, row, jobVars, writes, request, fails, diverged>>

NoPoint  == -1
Activity == [height : 1..MaxActivity, token : Tokens, read : 0..MaxActivity]
Status   == {"Unclaimed", "Equipped", "Unequipped", "Pending", "Rejected"}
Row      == [status : Status, picked : BOOLEAN, notify : BOOLEAN,
             signer : {"minter", "receiver"}]
ASSUME NoRowIsNoRow == NoRow \notin Row
Idle     == [op |-> "idle"]
Pick     == [op : {"counted", "queried"}, token : Tokens, picked : BOOLEAN]
Put      == [op : {"put"}, token : Tokens, row : Row]

TypeOK ==
  /\ chain \in Seq(Activity) /\ Len(chain) <= MaxActivity
  /\ row \in [Tokens -> Row \cup {NoRow}]
  /\ point \in {NoPoint} \cup 0..MaxActivity /\ since \in 0..MaxActivity
  /\ pc \in {"idle", "create", "fetch", "insert", "find", "count", "cursor"}
  /\ page \in Seq(DOMAIN chain)
  /\ pc \in {"insert", "find", "count"} => at \in DOMAIN page
  /\ item \in Row \cup {NoRow} /\ (pc = "count" => item # NoRow)
  /\ writes \in Seq([at : DOMAIN chain, row : Row])
  /\ request \in [Requests -> {Idle} \cup Pick \cup Put]
  /\ fails \in 0..MaxFail
  /\ diverged \subseteq Tokens \cup {NoToken}

Init ==
  /\ chain = <<>>
  /\ row = [t \in Tokens |-> NoRow]
  /\ point = NoPoint /\ since = 0
  /\ pc = "idle" /\ page = <<>> /\ at = 0 /\ item = NoRow
  /\ writes = <<>>
  /\ request = [r \in Requests |-> Idle]
  /\ fails = 0 /\ diverged = {}

-----------------------------------------------------------------------------
(* The chain and its indexer, which the code only reads.                   *)

\* A receiver holds a token or not: his activities on it alternate between
\* take (or the minter's give) and unequip.
IsTake(i) ==
  Cardinality({k \in 1..i : chain[k].token = chain[i].token}) % 2 = 1

\* nft_info answers for t.
TakenOrOffered(t) == row[t] # NoRow
Taken(t) == Cardinality({i \in DOMAIN chain : chain[i].token = t}) % 2 = 1

Height == IF chain = <<>> THEN 0 ELSE Last(chain).height

\* For every activity of a transaction the job reads the transaction's first
\* message: that of activity chain[i].read, or, when this is 0, a message that
\* is neither a take nor an unequip.
InTransactions(n, reads) ==
  \A i \in 1..n : reads[i] # 0 =>
    \E k \in 1..i : \A j \in k..i : reads[j] = Len(chain) + k
Block ==
  \E n \in 1..BlockSize :
  \E tokens \in [1..n -> Tokens], reads \in [1..n -> 0..(Len(chain) + n)] :
    /\ Len(chain) + n <= MaxActivity
    /\ InTransactions(n, reads)
    /\ chain' = chain \o [i \in 1..n |->
                           [height |-> Height + 1, token |-> tokens[i], read |-> reads[i]]]
    /\ UNCHANGED <<row, jobVars, writes, request, fails, diverged>>

\* The token that the message names which is read for activity i of chain c,
\* and what it says of it.
TokenRead(c, i) == IF c[i].read = 0 THEN NoToken ELSE c[c[i].read].token
TokenOf(i)      == TokenRead(chain, i)
SaysTake(i)     == TokenOf(i) # NoToken /\ IsTake(chain[i].read)

\* "height: {_gt: $heightGT}, order_by: {height: asc}, limit: $limit"; the
\* order within a block is the database's.
Newer(p) == {i \in DOMAIN chain : chain[i].height > p}
Pages(p) ==
  LET n == IF Cardinality(Newer(p)) < PageLimit THEN Cardinality(Newer(p)) ELSE PageLimit
  IN {s \in [1..n -> Newer(p)] :
        /\ IsInjective(s)
        /\ \A a, b \in 1..n : a < b => chain[s[a]].height <= chain[s[b]].height
        /\ \A i \in Newer(p) \ Range(s) : chain[i].height >= chain[s[n]].height}

-----------------------------------------------------------------------------
(* handleJobSyncCw4973Status                                               *)

Begin ==
  /\ pc = "idle"
  /\ IF point = NoPoint
     THEN pc' = "create" /\ UNCHANGED since
     ELSE pc' = "fetch" /\ since' = point
  /\ UNCHANGED <<chain, row, point, page, at, item, writes, request, fails, diverged>>

Return == pc' = "idle" /\ since' = 0 /\ page' = <<>> /\ at' = 0 /\ item' = NoRow

CreateSyncPoint ==
  /\ pc = "create"
  /\ point' = 0
  /\ Return
  /\ UNCHANGED <<chain, row, writes, request, fails, diverged>>

\* The handling of one activity starts; only a take may insert a row.
Enter(p, k) ==
  /\ at' = k /\ item' = NoRow
  /\ pc' = IF k > Len(p) THEN "cursor" ELSE IF SaysTake(p[k]) THEN "insert" ELSE "find"

FetchPage ==
  /\ pc = "fetch"
  /\ \E response \in Pages(since) :
       IF response = <<>>
       THEN Return
       ELSE page' = response /\ Enter(response, 1) /\ UNCHANGED since
  /\ UNCHANGED <<chain, row, point, writes, request, fails, diverged>>

current == TokenOf(page[at])
NewRow(told) ==
  [status |-> "Unclaimed", picked |-> FALSE, notify |-> told, signer |-> "minter"]

\* A take of a token that was never offered here inserts its row; the unique
\* key keeps a row that was created in the meantime.
InsertTaken ==
  /\ pc = "insert"
  /\ row' = [row EXCEPT ![current] = IF @ = NoRow THEN NewRow(FALSE) ELSE @]
  /\ pc' = "find"
  /\ UNCHANGED <<chain, point, since, page, at, item, writes, request, fails, diverged>>

\* A take looks for its row by the minter's signature, an unequip by token id;
\* any other message finds none.
FindRow ==
  /\ pc = "find"
  /\ LET r == row[current] IN
       IF /\ current # NoToken /\ r # NoRow
          /\ SaysTake(page[at]) => r.signer = "minter"
       THEN pc' = "count" /\ item' = r /\ UNCHANGED at
       ELSE Enter(page, at + 1)
  /\ UNCHANGED <<chain, row, point, since, page, writes, request, fails, diverged>>

Held == {t \in Tokens : row[t] # NoRow /\ row[t].status \in {"Equipped", "Unequipped"}}

\* The row to save.  A first take shows the token while few are held.
SyncedIfShown(r, i) ==
  IF ~SaysTake(i)
  THEN [r EXCEPT !.status = "Unequipped", !.picked = FALSE]
  ELSE IF Cardinality(Held) < MaxPicked /\ r.status = "Unclaimed"
       THEN [r EXCEPT !.status = "Equipped", !.picked = TRUE]
       ELSE r
Synced(r, i) ==
  IF SaysTake(i)
  THEN [r EXCEPT !.status = "Equipped",
                 !.picked = @ \/ (Cardinality(Held) < MaxPicked /\ r.status = "Unclaimed")]
  ELSE [r EXCEPT !.status = "Unequipped", !.picked = FALSE]

StartWrite ==
  /\ pc = "count"
  /\ writes' = Append(writes, [at |-> page[at], row |-> Synced(item, page[at])])
  /\ Enter(page, at + 1)
  /\ UNCHANGED <<chain, row, point, since, page, request, fails, diverged>>

\* Tokens of the messages up to the new cursor that the page left out, and
\* tokens whose messages it had in the wrong order.
LeftOut ==
  LET last == chain[Last(page)].height
  IN {TokenOf(i) : i \in {k \in Newer(since) \ Range(page) : chain[k].height <= last}}
Swapped ==
  {TokenOf(page[a]) :
     a \in {a \in DOMAIN page : \E b \in DOMAIN page :
              /\ a < b /\ chain[page[b]].read < chain[page[a]].read
              /\ TokenOf(page[a]) = TokenOf(page[b])}}

\* The height of the last element of the page.
NewPointAtHead == Height
NewPointPast   == chain[Last(page)].height + 1
NewPoint       == chain[Last(page)].height

AdvanceCursor ==
  /\ pc = "cursor"
  /\ point' = NewPoint
  /\ diverged' = diverged \cup LeftOut \cup Swapped
  /\ Return
  /\ UNCHANGED <<chain, row, writes, request, fails>>

\* A save lands.  It writes every column as it was read, whatever happened to
\* the row since; another one of the token may overtake it.
Land(k) ==
  /\ k \in DOMAIN writes
  /\ LET t == TokenOf(writes[k].at) IN
       /\ row' = [row EXCEPT ![t] = writes[k].row]
       /\ diverged' = IF \E m \in 1..(k - 1) : TokenOf(writes[m].at) = t
                      THEN diverged \cup {t} ELSE diverged
  /\ writes' = RemoveAt(writes, k)
  /\ UNCHANGED <<chain, jobVars, request, fails>>

-----------------------------------------------------------------------------
(* Failures.                                                               *)

\* handleSyncCw4973NftStatus swallows an error: the job goes on.
Swallow ==
  /\ pc \in {"insert", "find", "count"}
  /\ fails < MaxFail
  /\ fails' = fails + 1
  /\ diverged' = diverged \cup {current}
  /\ Enter(page, at + 1)
  /\ UNCHANGED <<chain, row, point, since, page, writes, request>>

\* The job fails outside of it: Bull runs it again.
FailRun ==
  /\ pc \in {"create", "fetch", "cursor"}
  /\ fails < MaxFail
  /\ fails' = fails + 1
  /\ Return
  /\ UNCHANGED <<chain, row, point, writes, request, diverged>>

\* The process dies, with the saves and the requests that are under way.  A
\* lost save is repeated only when the cursor has not passed its activity.
Crash ==
  /\ fails < MaxFail
  /\ fails' = fails + 1
  /\ diverged' = diverged \cup
       {TokenOf(w.at) : w \in {v \in Range(writes) : chain[v.at].height <= point}}
  /\ writes' = <<>>
  /\ request' = [r \in Requests |-> Idle]
  /\ Return
  /\ UNCHANGED <<chain, row, point>>

-----------------------------------------------------------------------------
(* Requests.                                                               *)

\* SoulboundTokenService.create: the unique key admits one row for a token.
Create(t) ==
  /\ row[t] = NoRow
  /\ row' = [row EXCEPT ![t] = NewRow(TRUE)]
  /\ UNCHANGED <<chain, jobVars, writes, request, fails, diverged>>

\* rejectToken: one offer, or all those of the minter.
Reject(S) ==
  /\ row' = [t \in Tokens |->
               IF t \in S /\ row[t] # NoRow /\ row[t].status = "Unclaimed"
               THEN [row[t] EXCEPT !.status = "Rejected", !.notify = FALSE] ELSE row[t]]
  /\ UNCHANGED <<chain, jobVars, writes, request, fails, diverged>>

UpdateNotify(t) ==
  /\ row[t] # NoRow
  /\ row' = [row EXCEPT ![t] = [@ EXCEPT !.notify = FALSE]]
  /\ UNCHANGED <<chain, jobVars, writes, request, fails, diverged>>

Answer(r) == request' = [request EXCEPT ![r] = Idle]

\* update: reads the row and writes all of it back, pending, with the
\* receiver's signature in place of the minter's.
PutRead(r, t) ==
  /\ request[r] = Idle /\ row[t] # NoRow
  /\ request' = [request EXCEPT ![r] = [op |-> "put", token |-> t, row |-> row[t]]]
  /\ UNCHANGED <<chain, row, jobVars, writes, fails, diverged>>
PutWrite(r) ==
  /\ request[r].op = "put"
  /\ row' = [row EXCEPT ![request[r].token] =
               [request[r].row EXCEPT !.status = "Pending", !.signer = "receiver"]]
  /\ diverged' = diverged \cup {request[r].token}
  /\ Answer(r)
  /\ UNCHANGED <<chain, jobVars, writes, fails>>

Picked == {t \in Tokens : row[t] # NoRow /\ row[t].picked}

\* pickedNft: counts what is picked ...
PickCount(r, t, picked) ==
  /\ request[r] = Idle /\ row[t] # NoRow
  /\ picked => Cardinality(Picked) < MaxPicked
  /\ request' = [request EXCEPT ![r] = [op |-> "counted", token |-> t, picked |-> picked]]
  /\ UNCHANGED <<chain, row, jobVars, writes, fails, diverged>>

\* ... asks the contract whether the token exists ...
PickQuery(r) ==
  /\ request[r].op = "counted"
  /\ IF Taken(request[r].token)
     THEN request' = [request EXCEPT ![r] = [@ EXCEPT !.op = "queried"]]
     ELSE Answer(r)
  /\ UNCHANGED <<chain, row, jobVars, writes, fails, diverged>>

\* ... and writes.
PickWrite(r) ==
  /\ request[r].op = "queried"
  /\ row' = [row EXCEPT ![request[r].token] = [@ EXCEPT !.picked = request[r].picked]]
  /\ Answer(r)
  /\ UNCHANGED <<chain, jobVars, writes, fails, diverged>>

-----------------------------------------------------------------------------
Job ==
  \/ Begin \/ CreateSyncPoint \/ FetchPage \/ InsertTaken \/ FindRow \/ StartWrite
  \/ AdvanceCursor

Next ==
  \/ Block
  \/ Job \/ \E k \in DOMAIN writes : Land(k)
  \/ Swallow \/ FailRun \/ Crash
  \/ \E t \in Tokens : Create(t) \/ Reject({t}) \/ UpdateNotify(t)
  \/ Reject(Tokens)
  \/ \E r \in Requests :
       \/ \E t \in Tokens : PutRead(r, t) \/ \E b \in BOOLEAN : PickCount(r, t, b)
       \/ PutWrite(r) \/ PickQuery(r) \/ PickWrite(r)

Spec == Init /\ [][Next]_vars

-----------------------------------------------------------------------------
(* Properties.                                                             *)

\* Activity i is read as what it is; and so was some take of its token before,
\* in case it is an unequip, which inserts no row.
WasRead(i) == chain[i].read = i
IsFollowed(i) ==
  /\ WasRead(i)
  /\ ~IsTake(i) => \E k \in 1..(i - 1) :
                     chain[k].token = chain[i].token /\ IsTake(k) /\ WasRead(k)

\* Once the cursor has passed the last activity of a token and its saves have
\* landed, the row says what the chain says; the only exceptions are a PUT of
\* the row, a swallowed error, saves lost or overtaken, blocks that the page
\* cut or reordered, and activities for which the job read another message.
StatusMirrorsChain ==
  \A t \in Tokens \ diverged : \A i \in DOMAIN chain :
    /\ chain[i].token = t /\ \A k \in DOMAIN chain : chain[k].token = t => k <= i
    /\ IsFollowed(i)
    /\ chain[i].height <= point
    /\ \A w \in Range(writes) : TokenOf(w.at) # t
    => row[t] # NoRow /\ row[t].status = IF IsTake(i) THEN "Equipped" ELSE "Unequipped"

\* A row that left Unclaimed is never offered again, nor is an offer announced
\* again that was read or rejected, although saves and PUTs write every column
\* as it was before.
Announced(t) == row[t] # NoRow /\ row[t].status = "Unclaimed" /\ row[t].notify
OfferNeverReopens ==
  [][\A t \in Tokens : row[t] # NoRow =>
       /\ row'[t] # NoRow
       /\ row[t].status # "Unclaimed" => row'[t].status # "Unclaimed"
       /\ ~Announced(t) => ~Announced(t)']_row

\* Only tokens that were taken on the chain are ever displayed.
PickedWasTaken == \A t \in Picked : \E i \in DOMAIN chain : chain[i].token = t

\* "You can only pick maximun 5 Account Bound tokens to display"
PickLimitHolds == Cardinality(Picked) <= MaxPicked

=============================================================================
