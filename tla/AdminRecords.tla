---------------------------- MODULE AdminRecords ----------------------------
(***************************************************************************)
(* The records that administrators keep: cw20 tokens and ibc tokens of     *)
(* token_markets, chains of chain_info (Cw20TokenService,                  *)
(* ChainInfoService).  Validators of the request body look for the unique  *)
(* columns first; then the service reads a row, merges the body into it    *)
(* and saves it, in statements of their own.                               *)
(***************************************************************************)
EXTENDS Integers, Sequences

CONSTANTS
  Keys,          \* contract addresses, chain_ids of ibc tokens or chain ids
  Others,        \* values of another column: the denom of an ibc token
  Requests,      \* slots for concurrent requests
  MaxRequests,   \* bound: requests that are started
  NoValue        \* a column that is null or left out, a deleted row, an idle slot

VARIABLES
  kind,          \* which of the records
  rows,          \* rows[id]
  request,
  started,
  asked,         \* history: rows[id] if each request had done what it asks for
  stale,         \* history: ids saved from a copy that was no longer the row
  crowded,       \* history: open requests that were not alone all the time
  refused        \* history: the last request with a duplicate

vars == <<kind, rows, request, started, asked, stale, crowded, refused>>

Column(S) == S \cup {NoValue}
NoId == 0

Init ==
  /\ kind \in {"cw20", "ibc", "chain"}
  /\ rows = <<>> /\ asked = <<>>
  /\ request = [r \in Requests |-> NoValue]
  /\ started = 0 /\ stale = {} /\ crowded = {} /\ refused = NoValue

Live == {id \in DOMAIN rows : rows[id] # NoValue}

\* @Unique(['contract_address']), @Index(['chain_id', 'denom']),
\* @Unique(['chainId']): a column that is null, or undefined in a lookup,
\* equals nothing.
SameKey(a, b) ==
  /\ a.key # NoValue /\ a.key = b.key
  /\ kind = "ibc" => a.other # NoValue /\ a.other = b.other
KeysAllow(id, row) == \A i \in Live \ {id} : ~SameKey(row, rows[i])

\* Repository.merge, column by column: what the body leaves out stays.
Merge(row, body) ==
  [key   |-> IF body.key = NoValue THEN row.key ELSE body.key,
   other |-> IF body.other = NoValue THEN row.other ELSE body.other]

\* The row that a request wants.
Wanted(q) ==
  IF q.id \in Live THEN Merge(rows[q.id], q) ELSE [key |-> q.key, other |-> q.other]

-----------------------------------------------------------------------------
Open == {r \in Requests : request[r] # NoValue}
At(r, op, step) == r \in Open /\ request[r].op = op /\ request[r].at = step

Start(r, q) ==
  /\ r \notin Open /\ started < MaxRequests
  /\ started' = started + 1
  /\ request' = [request EXCEPT ![r] = q]
  /\ crowded' = IF Open = {} THEN crowded ELSE crowded \cup Open \cup {r}
  /\ UNCHANGED <<kind, rows, asked, stale, refused>>
Continue(r, q) ==
  /\ request' = [request EXCEPT ![r] = q]
  /\ UNCHANGED <<kind, rows, started, asked, stale, crowded, refused>>
Close(r) ==
  /\ request' = [request EXCEPT ![r] = NoValue]
  /\ crowded' = crowded \ {r}
  /\ UNCHANGED <<kind, started>>
NotFound(r) == Close(r) /\ UNCHANGED <<rows, asked, stale, refused>>
Duplicate(r, by) ==
  /\ refused' = [q |-> request[r], by |-> by, alone |-> r \notin crowded,
                 taken |-> ~KeysAllow(request[r].id, Wanted(request[r]))]
  /\ Close(r) /\ UNCHANGED <<rows, asked, stale>>

\* Repository.save: a row with the id is updated, otherwise one is inserted,
\* under the id if there is one.
Save(r, id, body, wish, fresh) ==
  LET new == IF id \in Live THEN Merge(rows[id], body) ELSE body
      put(s, row) == IF id = NoId THEN Append(s, row) ELSE [s EXCEPT ![id] = row]
  IN IF KeysAllow(id, new)
     THEN /\ rows' = put(rows, new)
          /\ asked' = put(asked, wish)
          /\ stale' = IF fresh THEN stale ELSE stale \cup {id}
          /\ Close(r) /\ UNCHANGED refused
     ELSE Duplicate(r, "database")

-----------------------------------------------------------------------------
\* POST: only an ibc token may come without its chain_id.  The pipe keeps
\* columns that the DTO does not name, the id among them.
Create(r) ==
  \E id \in {NoId} \cup DOMAIN rows, key \in Column(Keys), other \in Others :
    /\ key = NoValue => kind = "ibc"
    /\ Start(r, [op |-> "create", at |-> "validate", id |-> id, body |-> id, key |-> key,
                 other |-> other])

\* PUT: the id of the row is in the path; the id of the body is what the
\* validator excludes.  The validators belong to the first column: a body that
\* leaves it out, though it may change the denom, is not validated.
Update(r) ==
  \E id \in Live, body \in {NoId} \cup DOMAIN rows, key \in Column(Keys), other \in Column(Others) :
    Start(r, [op |-> "update", at |-> IF key = NoValue THEN "find" ELSE "validate",
              id |-> id, body |-> body, key |-> key, other |-> other])

\* IsUniqueConstraint, IsUniqueManyColumnConstraint look for the columns of
\* the body, id: Not(body.id || 0).
TakenByAny(q) == \E id \in Live : SameKey(q, rows[id])
Taken(q)      == \E id \in Live \ {q.body} : SameKey(q, rows[id])

Validate(r) ==
  \E op \in {"create", "update"} :
    /\ At(r, op, "validate")
    /\ IF Taken(request[r])
       THEN Duplicate(r, "validator")
       ELSE Continue(r, [request[r] EXCEPT !.at = IF op = "create" THEN "save" ELSE "find"])

SaveNew(r) ==
  /\ At(r, "create", "save")
  /\ LET q == request[r]
         row == [key |-> q.key, other |-> q.other]
         known == q.id \in Live /\ asked[q.id] # NoValue
     IN Save(r, q.id, row, IF known THEN Merge(asked[q.id], row) ELSE row, TRUE)

Find(r) ==
  /\ At(r, "update", "find")
  /\ LET q == request[r]
     IN IF q.id \in Live
        THEN Continue(r, [f \in DOMAIN q \cup {"found"} |->
                            IF f = "found" THEN rows[q.id] ELSE IF f = "at" THEN "save" ELSE q[f]])
        ELSE NotFound(r)

\* The merged copy is saved whole.
MergedUnder(q) == Merge(q, q.found)
Merged(q)      == Merge(q.found, q)
SaveUpdated(r) ==
  /\ At(r, "update", "save")
  /\ LET q == request[r]
     IN Save(r, q.id, Merged(q),
             IF asked[q.id] = NoValue THEN NoValue ELSE Merge(asked[q.id], q),
             q.found = rows[q.id])

\* DELETE: the row was found a statement earlier.
Remove(r) ==
  \E id \in Live : Start(r, [op |-> "remove", at |-> "delete", id |-> id])
Delete(r) ==
  /\ At(r, "remove", "delete")
  /\ LET id == request[r].id
     IN /\ rows'  = [rows  EXCEPT ![id] = NoValue]
        /\ asked' = [asked EXCEPT ![id] = NoValue]
        /\ stale' = stale \ {id}
  /\ Close(r) /\ UNCHANGED refused

Quiet == Open = {} /\ UNCHANGED vars

Step(r) ==
  Create(r) \/ Update(r) \/ Validate(r) \/ SaveNew(r) \/ Find(r) \/ SaveUpdated(r)
    \/ Remove(r) \/ Delete(r)

Next == Quiet \/ \E r \in Requests : Step(r)

Spec == Init /\ [][Next]_vars

-----------------------------------------------------------------------------
(* Properties                                                              *)

\* A row is what the requests asked for, each of which changed the columns
\* it names, unless an update was saved from a copy that another request
\* had made out of date: then it brings back columns, or a deleted row.
RowsAreAsAsked ==
  \A id \in DOMAIN rows : rows[id] # asked[id] => id \in stale

\* The body of an ibc token that names one column of the pair.
PartOfPair(q) == kind = "ibc" /\ (q.key = NoValue) # (q.other = NoValue)

\* What an administrator who is alone is told of duplicates is true, except
\* when the body of an update does not name the id in the path; and it comes
\* from the validator, not from the database, but for a body that names only
\* one column of an ibc token's pair, which is merged with the stored one.
DuplicatesAreTold ==
  refused # NoValue /\ refused.alone /\ refused.q.body = refused.q.id =>
    /\ refused.taken
    /\ refused.by = "validator" \/ PartOfPair(refused.q)

=============================================================================
