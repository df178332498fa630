----------------------------- MODULE RejectList -----------------------------
(***************************************************************************)
(* A receiver rejects all account bound tokens of a minter                 *)
(* (SoulboundTokenService.rejectToken): the minter's contracts are read    *)
(* from the indexer, the minter goes on the reject list, and what is on    *)
(* offer is rejected, one after another.  create does not read the list;   *)
(* clients ask checkRejectToken before.  The module has one receiver.      *)
(***************************************************************************)
EXTENDS Integers, Sequences

CONSTANTS
  Minters, Contracts,
  Requests,      \* slots for concurrent requests
  MaxRequests,   \* bound: requests that are started
  MaxTokens,     \* bound: tokens that are created
  None           \* no contract yet, an idle slot

VARIABLES
  minter,        \* minter[c], in the indexer
  tokens,        \* soulbound_token: contract, status
  blocked,       \* soulbound_reject_list: minters
  request, started,
  done,          \* history: minters for whom a rejection of all has finished
  single,        \* history: tokens that were rejected one by one, or by a
                 \* contract that the indexer did not have
  excused        \* history: tokens that a rejection of all need not have met

vars == <<minter, tokens, blocked, request, started, done, single, excused>>

Init ==
  /\ minter = [c \in Contracts |-> None]
  /\ tokens = <<>> /\ blocked = {}
  /\ request = [r \in Requests |-> None] /\ started = 0
  /\ done = {} /\ single = {} /\ excused = {}

\* The chain has a new contract.
Instantiate ==
  \E c \in Contracts, m \in Minters :
    /\ minter[c] = None
    /\ minter' = [minter EXCEPT ![c] = m]
    /\ UNCHANGED <<tokens, blocked, request, started, done, single, excused>>

\* The receiver takes a token on the chain, and the sync job sees it.
Take ==
  \E i \in DOMAIN tokens :
    /\ tokens[i].status # "Equipped"
    /\ tokens' = [tokens EXCEPT ![i].status = "Equipped"]
    /\ UNCHANGED <<minter, blocked, request, started, done, single, excused>>

-----------------------------------------------------------------------------
Open == {r \in Requests : request[r] # None}
At(r, step) == r \in Open /\ request[r].at = step
Start(r, q) ==
  /\ r \notin Open /\ started < MaxRequests
  /\ started' = started + 1
  /\ request' = [request EXCEPT ![r] = q]
  /\ UNCHANGED <<minter, tokens, blocked, done, single, excused>>
Continue(r, q) ==
  request' = [request EXCEPT ![r] = q] /\ UNCHANGED <<minter, tokens, started, single, excused>>
Close(r) == request' = [request EXCEPT ![r] = None] /\ UNCHANGED started

\* checkRejectToken, or no question at all; then create finds the contract
\* and fetches what the token's uri holds.
Refused(m) == m \in blocked
Create(r) ==
  \E c \in Contracts, asked \in BOOLEAN :
    /\ minter[c] # None
    /\ asked => ~Refused(minter[c])
    /\ Start(r, [at |-> "save", contract |-> c, asked |-> asked])

\* A rejection that has read the contracts does not meet one that is new; a
\* rejection that has put the minter on the list is missed by a request that
\* did not ask, or asked before.
Missed(c) ==
  \/ minter[c] \in blocked
  \/ \E r \in Open : /\ request[r].at \in {"block", "reject"}
                     /\ request[r].minter = minter[c] /\ c \notin request[r].contracts
SaveToken(r) ==
  /\ At(r, "save") /\ Len(tokens) < MaxTokens
  /\ tokens' = Append(tokens, [contract |-> request[r].contract, status |-> "Unclaimed"])
  /\ excused' = IF Missed(request[r].contract) THEN excused \cup {Len(tokens')} ELSE excused
  /\ Close(r) /\ UNCHANGED <<minter, blocked, done, single>>

\* updateRejectStatus
Rejected(contracts, ids) ==
  [i \in DOMAIN tokens |->
     IF tokens[i].status = "Unclaimed" /\ tokens[i].contract \in contracts /\ i \in ids
     THEN [tokens[i] EXCEPT !.status = "Rejected"] ELSE tokens[i]]

RejectOne ==
  \E i \in DOMAIN tokens :
    /\ tokens' = Rejected({tokens[i].contract}, {i})
    /\ single' = single \cup {i}
    /\ UNCHANGED <<minter, blocked, request, started, done, excused>>

\* rejectToken with rejectAll.  What is on offer in a contract that the indexer
\* does not have is rejected, and nobody goes on the list.
FindMinter(r) ==
  \E c \in Contracts :
    Start(r, IF minter[c] = None THEN [at |-> "named", contract |-> c]
             ELSE [at |-> "contracts", minter |-> minter[c], named |-> c])
RejectNamed(r) ==
  /\ At(r, "named")
  /\ tokens' = Rejected({request[r].contract}, DOMAIN tokens)
  /\ single' = single \cup {i \in DOMAIN tokens : tokens[i].contract = request[r].contract}
  /\ Close(r) /\ UNCHANGED <<minter, blocked, done, excused>>

ContractsNamed(q) == {q.named}
ContractsOf(q)    == {c \in Contracts : minter[c] = q.minter}
FindContracts(r) ==
  /\ At(r, "contracts")
  /\ Continue(r, [at |-> "block", minter |-> request[r].minter,
                  contracts |-> ContractsOf(request[r])])
  /\ UNCHANGED <<blocked, done>>
Block(r) ==
  /\ At(r, "block")
  /\ blocked' = blocked \cup {request[r].minter}
  /\ Continue(r, [request[r] EXCEPT !.at = "reject"]) /\ UNCHANGED done
RejectAll(r) ==
  /\ At(r, "reject")
  /\ tokens' = Rejected(request[r].contracts, DOMAIN tokens)
  /\ done' = done \cup {request[r].minter}
  /\ Close(r) /\ UNCHANGED <<minter, blocked, single, excused>>

\* An error or a crash; the uri of a token may be invalid.
Fail(r) ==
  /\ r \in Open /\ Close(r)
  /\ UNCHANGED <<minter, tokens, blocked, done, single, excused>>

Quiet == Open = {} /\ UNCHANGED vars

Next ==
  \/ Instantiate \/ Take \/ RejectOne \/ Quiet
  \/ \E r \in Requests :
       \/ Create(r) \/ SaveToken(r) \/ FindMinter(r) \/ FindContracts(r) \/ Block(r)
       \/ RejectAll(r) \/ RejectNamed(r) \/ Fail(r)

Spec == Init /\ [][Next]_vars

-----------------------------------------------------------------------------
(* Properties                                                              *)

\* Once all tokens of a minter were rejected, none is on offer but one that
\* was created after the minter went on the list, by a request that did not
\* ask or asked before, or in a contract that was not there yet.  And
\* nothing is rejected that the receiver did not reject.
RejectionsHold ==
  \A i \in DOMAIN tokens :
    LET m == minter[tokens[i].contract] IN
    /\ tokens[i].status = "Unclaimed" /\ m \in done => i \in excused
    /\ tokens[i].status = "Rejected" => i \in single \/ m \in done

=============================================================================
