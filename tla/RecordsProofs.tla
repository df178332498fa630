---------------------------- MODULE RecordsProofs ----------------------------
(***************************************************************************)
(* Theorems about the parts of MCRecords, for all values of the constants. *)
(* Each part is proved about the specification of its module, under the    *)
(* names that MCRecords gives its variables; a behaviour of MCRecords is a *)
(* behaviour of the part that it selects.                                  *)
(***************************************************************************)
EXTENDS MCRecords, TLAPS

-----------------------------------------------------------------------------
(* CipherKey: what one instance encrypts, the others decrypt.              *)

KeyTypes ==
  /\ keys \in Seq({"bytes", "hex"})
  /\ pc \in [Instances -> {"down", "check", "insert", "read", "up"}]
  /\ key \in [Instances -> Nat \cup {Removed}]

InstalledOnce ==
  \A j, k \in DOMAIN keys : keys[j] = "hex" /\ keys[k] = "hex" => j = k

\* An instance that is up uses the installed key, and so did all before it.
UsesInstalled ==
  \A i \in Instances : pc[i] = "up" => key[i] \in DOMAIN keys /\ keys[key[i]] = "hex"
WroteWithInstalled ==
  \A k \in secrets : k \in DOMAIN keys /\ keys[k] = "hex"

KeyInv == KeyTypes /\ InstalledOnce /\ UsesInstalled /\ WroteWithInstalled

-----------------------------------------------------------------------------
\* A row that is added moves no other row.
LEMMA KeyAppendKeeps ==
  ASSUME KeyInv, NEW text \in {"bytes", "hex"}, keys' = Append(keys, text)
  PROVE  /\ keys' \in Seq({"bytes", "hex"})
         /\ DOMAIN keys' = DOMAIN keys \cup {Len(keys) + 1}
         /\ keys'[Len(keys) + 1] = text
         /\ \A k \in DOMAIN keys : keys'[k] = keys[k] /\ k # Len(keys) + 1
BY DEF KeyInv, KeyTypes

\* What instances use stays what it was if rows are only added.
LEMMA KeyInsertKeeps ==
  ASSUME KeyInv, NEW i \in Instances, K!Insert(i)
  PROVE  KeyInv'
<1>1. KeyTypes'
  BY KeyAppendKeeps DEF KeyInv, KeyTypes, K!Insert, K!Goto
<1>2. InstalledOnce'
  BY KeyAppendKeeps DEF KeyInv, InstalledOnce, K!Insert
<1>3. UsesInstalled' /\ WroteWithInstalled'
  BY KeyAppendKeeps DEF KeyInv, KeyTypes, UsesInstalled, WroteWithInstalled, K!Insert, K!Goto
<1>4. QED
  BY <1>1, <1>2, <1>3 DEF KeyInv

LEMMA KeyInstallKeeps ==
  ASSUME KeyInv, K!Install
  PROVE  KeyInv'
<1>1. KeyTypes'
  BY KeyAppendKeeps DEF KeyInv, KeyTypes, K!Install
<1>2. InstalledOnce'
  BY KeyAppendKeeps DEF KeyInv, InstalledOnce, K!Install
<1>3. UsesInstalled' /\ WroteWithInstalled'
  BY KeyAppendKeeps DEF KeyInv, UsesInstalled, WroteWithInstalled, K!Install
<1>4. QED
  BY <1>1, <1>2, <1>3 DEF KeyInv

LEMMA KeyInductive == KeyInv /\ [K!Next]_(K!vars) => KeyInv'
<1> SUFFICES ASSUME KeyInv, [K!Next]_(K!vars) PROVE KeyInv'
  OBVIOUS
<1>1. CASE K!Install
  BY <1>1, KeyInstallKeeps
<1>2. CASE UNCHANGED K!vars
  BY <1>2 DEF KeyInv, KeyTypes, InstalledOnce, UsesInstalled, WroteWithInstalled, K!vars
<1>3. ASSUME NEW i \in Instances,
             K!Start(i) \/ K!Check(i) \/ K!Insert(i) \/ K!ReadKey(i) \/ K!Encrypt(i) \/ K!Stop(i)
      PROVE  KeyInv'
  <2>1. CASE K!Start(i) \/ K!Check(i)
    BY <2>1 DEF KeyInv, KeyTypes, InstalledOnce, UsesInstalled, WroteWithInstalled,
                K!Start, K!Check, K!Goto
  <2>2. CASE K!Insert(i)
    BY <2>2, KeyInsertKeeps
  <2>3. CASE K!ReadKey(i)
    <3>1. PICK id \in DOMAIN keys :
            IF K!Readable(keys[id])
            THEN K!Goto(i, "up") /\ key' = [key EXCEPT ![i] = id]
            ELSE K!Goto(i, "down") /\ UNCHANGED key
      BY <2>3 DEF K!ReadKey
    <3>2. id \in Nat
      BY DEF KeyInv, KeyTypes
    <3>3. KeyTypes' /\ UsesInstalled'
      BY <2>3, <3>1, <3>2 DEF KeyInv, KeyTypes, UsesInstalled, K!ReadKey, K!Readable, K!Goto
    <3>4. QED
      BY <2>3, <3>3 DEF KeyInv, InstalledOnce, WroteWithInstalled, K!ReadKey
  <2>4. CASE K!Encrypt(i)
    BY <2>4 DEF KeyInv, KeyTypes, InstalledOnce, UsesInstalled, WroteWithInstalled, K!Encrypt
  <2>5. CASE K!Stop(i)
    BY <2>5 DEF KeyInv, KeyTypes, InstalledOnce, UsesInstalled, WroteWithInstalled, K!Stop, K!Goto
  <2>6. QED
    BY <1>3, <2>1, <2>2, <2>3, <2>4, <2>5
<1>4. QED
  BY <1>1, <1>2, <1>3 DEF K!Next, K!Quiet

\* Whatever instances start side by side, in any number and with any number
\* of keys that instances made themselves, an instance that is up decrypts
\* all that any other encrypted (onModuleInit, getKey, encrypt): no instance
\* is up but with the key that an operator installed, of which there is one.
THEOREM SecretsReadable == RecordsSpec => []SecretsAreReadable
<1> DEFINE Kept == part = "keys" => KeyInv
<1>1. RecordsInit => Kept
  BY DEF RecordsInit, K!Init, KeyInv, KeyTypes, InstalledOnce, UsesInstalled, WroteWithInstalled
<1>2. Kept /\ [RecordsNext]_allVars => Kept'
  BY KeyInductive DEF RecordsNext, allVars, keyVars, K!vars
<1>3. Kept => SecretsAreReadable
  BY DEF SecretsAreReadable, K!SecretsAreReadable, KeyInv, InstalledOnce,
         UsesInstalled, WroteWithInstalled
<1>4. QED
  BY <1>1, <1>2, <1>3, PTL DEF RecordsSpec

-----------------------------------------------------------------------------
(* TokenContent: a page is empty only after tries of its own.              *)

ContentTypes ==
  /\ ipfs \in {"null", "{}", "content"} /\ host \in BOOLEAN
  /\ view \in [Requests -> {"null", "{}", "content"}]
  /\ pc \in [Requests -> {"idle", "fetch", "store", "show"}]
  /\ tries \in [Requests -> Nat]

\* What a request is about to store or to show was fetched, or every attempt
\* to fetch it failed; what others store meanwhile is not read again.
ViewIsEarned ==
  \A r \in Requests :
    pc[r] \in {"store", "show"} =>
      view[r] = "content" \/ (view[r] = "{}" /\ tries[r] = Tries)

ContentInv == ContentTypes /\ ViewIsEarned /\ P!EmptyMeansTried

-----------------------------------------------------------------------------
\* A fetch writes one of two texts, and ends with '{}' after the last try.
LEMMA ContentFetchStep ==
  ASSUME ContentTypes, NEW r \in Requests, P!Fetch(r)
  PROVE  \E step \in {"store", "fetch"}, found \in {"content", "{}"} :
           /\ pc' = [pc EXCEPT ![r] = step]
           /\ view' = [view EXCEPT ![r] = found]
           /\ step = "store" => found = "content" \/ tries'[r] = Tries
<1>1. CASE host = TRUE
  BY <1>1 DEF P!Fetch, P!Goto
<1>2. CASE host = FALSE
  <2>1. CASE tries'[r] = Tries
    BY <1>2, <2>1 DEF P!Fetch, P!Goto
  <2>2. CASE tries'[r] # Tries
    BY <1>2, <2>2 DEF P!Fetch, P!Goto
  <2>3. QED
    BY <2>1, <2>2
<1>3. QED
  BY <1>1, <1>2, Zenon DEF ContentTypes

LEMMA TriesStayTries ==
  ASSUME tries \in [Requests -> Nat], NEW r \in Requests,
         tries' = [tries EXCEPT ![r] = @ + 1]
  PROVE  tries' \in [Requests -> Nat]
OBVIOUS

LEMMA ContentFetchKeeps ==
  ASSUME ContentInv, NEW r \in Requests, P!Fetch(r)
  PROVE  ContentInv'
<1>1. PICK step \in {"store", "fetch"}, found \in {"content", "{}"} :
        /\ pc' = [pc EXCEPT ![r] = step]
        /\ view' = [view EXCEPT ![r] = found]
        /\ step = "store" => found = "content" \/ tries'[r] = Tries
  BY ContentFetchStep DEF ContentInv
<1>2. /\ tries' = [tries EXCEPT ![r] = @ + 1]
      /\ UNCHANGED <<ipfs, host, shown>>
  BY DEF P!Fetch
<1>3. ContentTypes'
  <2>1. pc' \in [Requests -> {"idle", "fetch", "store", "show"}]
    BY <1>1 DEF ContentInv, ContentTypes
  <2>2. view' \in [Requests -> {"null", "{}", "content"}]
    BY <1>1 DEF ContentInv, ContentTypes
  <2>3. tries' \in [Requests -> Nat]
    BY <1>2, TriesStayTries DEF ContentInv, ContentTypes
  <2>4. ipfs' \in {"null", "{}", "content"} /\ host' \in BOOLEAN
    BY <1>2, Zenon DEF ContentInv, ContentTypes
  <2>5. QED
    BY <2>1, <2>2, <2>3, <2>4 DEF ContentTypes
<1>4. ASSUME NEW s \in Requests, pc'[s] \in {"store", "show"}
      PROVE  view'[s] = "content" \/ (view'[s] = "{}" /\ tries'[s] = Tries)
  <2> USE DEF ContentInv, ContentTypes, ViewIsEarned
  <2>1. CASE s = r
    BY <1>1, <1>4, <2>1
  <2>2. CASE s # r
    BY <1>1, <1>2, <1>4, <2>2
  <2>3. QED
    BY <2>1, <2>2
<1>5. QED
  BY <1>2, <1>3, <1>4 DEF ContentInv, ViewIsEarned, P!EmptyMeansTried

LEMMA ContentInductive == ContentInv /\ [P!Next]_(P!vars) => ContentInv'
<1> SUFFICES ASSUME ContentInv, [P!Next]_(P!vars) PROVE ContentInv'
  OBVIOUS
<1> USE DEF ContentInv, ContentTypes, ViewIsEarned, P!EmptyMeansTried, P!Goto
<1>1. CASE P!Toggle
  BY <1>1 DEF P!Toggle
<1>2. CASE UNCHANGED P!vars
  BY <1>2 DEF P!vars
<1>3. ASSUME NEW r \in Requests, P!Ask(r) \/ P!Fetch(r) \/ P!Store(r) \/ P!Show(r)
      PROVE  ContentInv'
  <2>1. CASE P!Ask(r)
    <3>1. ContentTypes'
      BY <2>1 DEF P!Ask
    <3>2. ViewIsEarned'
      BY <2>1 DEF P!Ask, P!Empty
    <3>3. QED
      BY <2>1, <3>1, <3>2 DEF P!Ask
  <2>2. CASE P!Fetch(r)
    BY <2>2, ContentFetchKeeps
  <2>3. CASE P!Store(r)
    <3>1. ContentTypes'
      BY <2>3 DEF P!Store
    <3>2. ViewIsEarned'
      BY <2>3 DEF P!Store
    <3>3. QED
      BY <2>3, <3>1, <3>2 DEF P!Store
  <2>4. CASE P!Show(r)
    <3>1. ContentTypes' /\ ViewIsEarned'
      BY <2>4 DEF P!Show
    <3>2. P!EmptyMeansTried'
      BY <2>4 DEF P!Show
    <3>3. QED
      BY <3>1, <3>2
  <2>5. QED
    BY <1>3, <2>1, <2>2, <2>3, <2>4
<1>4. QED
  BY <1>1, <1>2, <1>3 DEF P!Next, P!Quiet

\* Whatever requests for the token run side by side, whenever its host is
\* away, and even when a failed request stores '{}' over content, a page
\* without content was shown after all attempts of its own request failed
\* (ContractService.getCW4973Detail).
THEOREM EmptyPagesTried == RecordsSpec => []EmptyMeansTried
<1> DEFINE Kept == part = "content" => ContentInv
<1>1. RecordsInit => Kept
  <2>1. RecordsInit /\ part = "content" => P!Init
    BY DEF RecordsInit
  <2>2. P!Init => ContentInv
    BY DEF P!Init, ContentInv, ContentTypes, ViewIsEarned, P!EmptyMeansTried
  <2>3. QED
    BY <2>1, <2>2
<1>2. Kept /\ [RecordsNext]_allVars => Kept'
  BY ContentInductive DEF RecordsNext, allVars, contentVars, P!vars
<1>3. Kept => EmptyMeansTried
  BY DEF EmptyMeansTried, ContentInv
<1>4. QED
  BY <1>1, <1>2, <1>3, PTL DEF RecordsSpec

-----------------------------------------------------------------------------
(* RejectList: a rejection of all tokens of a minter meets them.           *)

Offer     == [contract : Contracts, status : {"Unclaimed", "Equipped", "Rejected"}]
Saving    == [at : {"save"}, contract : Contracts, asked : BOOLEAN]
Naming    == [at : {"contracts"}, minter : Minters, named : Contracts]
Unknown   == [at : {"named"}, contract : Contracts]
Rejecting == [at : {"block", "reject"}, minter : Minters, contracts : SUBSET Contracts]

RejectTypes ==
  /\ minter \in [Contracts -> Minters \cup {Removed}]
  /\ tokens \in Seq(Offer)
  /\ rejecting \in [Requests -> {Removed} \cup Saving \cup Naming \cup Unknown \cup Rejecting]
  /\ done \subseteq blocked

\* The contracts of tokens, and of requests, are there, under their minter.
KnowsContracts(r) ==
  /\ R!At(r, "save") => minter[rejecting[r].contract] # Removed
  /\ R!At(r, "contracts") \/ R!At(r, "block") \/ R!At(r, "reject") => rejecting[r].minter # Removed
  /\ R!At(r, "block") \/ R!At(r, "reject") =>
       \A c \in rejecting[r].contracts : minter[c] = rejecting[r].minter
  /\ R!At(r, "reject") => rejecting[r].minter \in blocked
ContractsAreThere ==
  /\ \A i \in DOMAIN tokens : minter[tokens[i].contract] # Removed
  /\ \A r \in Requests : KnowsContracts(r)

\* A rejection of all that has read the contracts meets every token of its
\* minter, but the excused.
MetOrExcused ==
  \A r \in Requests : R!At(r, "block") \/ R!At(r, "reject") =>
    \A i \in DOMAIN tokens :
      tokens[i].status = "Unclaimed" /\ minter[tokens[i].contract] = rejecting[r].minter =>
        i \in excused \/ tokens[i].contract \in rejecting[r].contracts

RejectInv == RejectTypes /\ ContractsAreThere /\ MetOrExcused /\ R!RejectionsHold

-----------------------------------------------------------------------------
(* What requests may do to each other.                                     *)

LEMMA RejectShapes ==
  ASSUME RejectTypes, NEW r \in Requests
  PROVE  /\ R!At(r, "save") => rejecting[r] \in Saving
         /\ R!At(r, "contracts") => rejecting[r] \in Naming
         /\ R!At(r, "block") \/ R!At(r, "reject") => rejecting[r] \in Rejecting
BY DEF RejectTypes, R!At, R!Open, Saving, Naming, Unknown, Rejecting

\* A request that goes on leaves the others where they are.
LEMMA RejectOthersStay ==
  ASSUME RejectTypes, NEW r \in Requests, NEW q, rejecting' = [rejecting EXCEPT ![r] = q],
         NEW s \in Requests, s # r
  PROVE  rejecting'[s] = rejecting[s] /\ \A step : R!At(s, step)' <=> R!At(s, step)
BY DEF RejectTypes, R!At, R!Open

LEMMA OthersKnow ==
  ASSUME RejectTypes, NEW r \in Requests, NEW q, rejecting' = [rejecting EXCEPT ![r] = q],
         NEW s \in Requests, s # r, KnowsContracts(s),
         UNCHANGED minter, blocked \subseteq blocked'
  PROVE  KnowsContracts(s)'
BY RejectOthersStay DEF KnowsContracts

\* updateRejectStatus changes the status of the tokens it meets.
LEMMA RejectedTokens ==
  ASSUME RejectTypes, NEW contracts, NEW ids
  PROVE  /\ R!Rejected(contracts, ids) \in Seq(Offer)
         /\ DOMAIN R!Rejected(contracts, ids) = DOMAIN tokens
         /\ \A i \in DOMAIN tokens :
              /\ R!Rejected(contracts, ids)[i].contract = tokens[i].contract
              /\ R!Rejected(contracts, ids)[i].status =
                   IF tokens[i].status = "Unclaimed" /\ tokens[i].contract \in contracts
                        /\ i \in ids
                   THEN "Rejected" ELSE tokens[i].status
<1> DEFINE new == R!Rejected(contracts, ids)
<1>1. DOMAIN tokens = 1..Len(tokens) /\ Len(tokens) \in Nat
  BY DEF RejectTypes
<1>2. ASSUME NEW i \in DOMAIN tokens
      PROVE  /\ tokens[i] \in Offer /\ new[i] \in Offer
             /\ new[i].contract = tokens[i].contract
             /\ new[i].status =
                  IF tokens[i].status = "Unclaimed" /\ tokens[i].contract \in contracts
                       /\ i \in ids
                  THEN "Rejected" ELSE tokens[i].status
  <2>1. tokens[i] \in Offer
    BY DEF RejectTypes
  <2>2. CASE tokens[i].status = "Unclaimed" /\ tokens[i].contract \in contracts /\ i \in ids
    <3>1. new[i] = [tokens[i] EXCEPT !.status = "Rejected"]
      BY <2>2 DEF R!Rejected
    <3>2. QED
      BY <2>1, <2>2, <3>1 DEF Offer
  <2>3. CASE ~(tokens[i].status = "Unclaimed" /\ tokens[i].contract \in contracts /\ i \in ids)
    <3>1. new[i] = tokens[i]
      BY <2>3 DEF R!Rejected
    <3>2. QED
      BY <2>1, <2>3, <3>1
  <2>4. QED
    BY <2>2, <2>3
<1>3. new = [i \in 1..Len(tokens) |-> new[i]]
  BY <1>1 DEF R!Rejected
<1>4. new \in Seq(Offer)
  BY <1>1, <1>2, <1>3
<1>5. QED
  BY <1>2, <1>4 DEF R!Rejected

-----------------------------------------------------------------------------
(* One lemma for each action that does more than to start or end a request. *)

LEMMA RejectInstantiateKeeps ==
  ASSUME RejectInv, R!Instantiate
  PROVE  RejectInv'
<1>1. PICK c \in Contracts, m \in Minters :
        minter[c] = Removed /\ minter' = [minter EXCEPT ![c] = m]
  BY DEF R!Instantiate
<1>2. UNCHANGED <<tokens, blocked, rejecting, begun, done, single, excused>>
  BY DEF R!Instantiate
<1>3. \A d \in Contracts : minter[d] # Removed => minter'[d] = minter[d]
  BY <1>1 DEF RejectInv, RejectTypes
<1>4. \A i \in DOMAIN tokens : tokens[i].contract \in Contracts
  <2>1. \A i \in DOMAIN tokens : tokens[i] \in Offer
    BY DEF RejectInv, RejectTypes
  <2>2. QED
    BY <2>1 DEF Offer
<1>5. RejectTypes'
  BY <1>1, <1>2 DEF RejectInv, RejectTypes
<1>6. ContractsAreThere'
  <2>1. \A i \in DOMAIN tokens' : minter'[tokens'[i].contract] # Removed
    BY <1>2, <1>3, <1>4 DEF RejectInv, ContractsAreThere
  <2>2. ASSUME NEW r \in Requests
        PROVE  /\ R!At(r, "save") => minter'[rejecting[r].contract] # Removed
               /\ R!At(r, "block") \/ R!At(r, "reject") =>
                    \A d \in rejecting[r].contracts : minter'[d] = rejecting[r].minter
    BY RejectShapes, <1>3 DEF RejectInv, ContractsAreThere, KnowsContracts, Saving, Rejecting
  <2>3. QED
    BY <1>2, <2>1, <2>2 DEF RejectInv, ContractsAreThere, KnowsContracts, R!At, R!Open
<1>7. MetOrExcused' /\ R!RejectionsHold'
  BY <1>2, <1>3, <1>4 DEF RejectInv, ContractsAreThere, MetOrExcused, R!RejectionsHold, R!At, R!Open
<1>8. QED
  BY <1>5, <1>6, <1>7 DEF RejectInv

LEMMA RejectTakeKeeps ==
  ASSUME RejectInv, R!Take
  PROVE  RejectInv'
<1>1. PICK k \in DOMAIN tokens : tokens' = [tokens EXCEPT ![k].status = "Equipped"]
  BY DEF R!Take
<1>2. UNCHANGED <<minter, blocked, rejecting, begun, done, single, excused>>
  BY DEF R!Take
<1>3. /\ tokens' \in Seq(Offer) /\ DOMAIN tokens' = DOMAIN tokens
      /\ \A i \in DOMAIN tokens :
           /\ tokens'[i].contract = tokens[i].contract
           /\ tokens'[i].status = tokens[i].status \/ tokens'[i].status = "Equipped"
  <2>1. tokens[k] \in Offer /\ [tokens[k] EXCEPT !.status = "Equipped"] \in Offer
    <3>1. tokens[k] \in Offer
      BY DEF RejectInv, RejectTypes
    <3>2. QED
      BY <3>1 DEF Offer
  <2>2. tokens' = [tokens EXCEPT ![k] = [tokens[k] EXCEPT !.status = "Equipped"]]
    BY <1>1
  <2>3. /\ tokens' \in Seq(Offer) /\ DOMAIN tokens' = DOMAIN tokens
        /\ \A i \in DOMAIN tokens : i # k => tokens'[i] = tokens[i]
        /\ tokens'[k] = [tokens[k] EXCEPT !.status = "Equipped"]
    BY <2>1, <2>2 DEF RejectInv, RejectTypes
  <2>4. QED
    BY <2>1, <2>3 DEF Offer
<1>4. QED
  BY <1>2, <1>3 DEF RejectInv, RejectTypes, ContractsAreThere, KnowsContracts, MetOrExcused,
                    R!RejectionsHold, R!At, R!Open

LEMMA RejectSaveTokenKeeps ==
  ASSUME RejectInv, NEW r \in Requests, R!SaveToken(r)
  PROVE  RejectInv'
<1> DEFINE c == rejecting[r].contract
           n == Len(tokens) + 1
<1>1. c \in Contracts /\ minter[c] # Removed /\ R!At(r, "save")
  BY RejectShapes DEF RejectInv, ContractsAreThere, KnowsContracts, R!SaveToken, Saving
<1>2. /\ tokens' \in Seq(Offer) /\ DOMAIN tokens' = DOMAIN tokens \cup {n}
      /\ tokens'[n].contract = c
      /\ \A i \in DOMAIN tokens : tokens'[i] = tokens[i]
  BY <1>1 DEF RejectInv, RejectTypes, R!SaveToken, Offer
<1>3. Len(tokens') = n
  BY DEF RejectInv, RejectTypes, R!SaveToken
<1>4. excused' = IF R!Missed(c) THEN excused \cup {n} ELSE excused
  BY <1>3 DEF R!SaveToken
<1>5. rejecting' = [rejecting EXCEPT ![r] = Removed] /\ UNCHANGED <<minter, blocked, done, single>>
  BY DEF R!SaveToken, R!Close
<1>6. \A s \in Requests : R!At(s, "save")' \/ R!At(s, "contracts")' \/ R!At(s, "block")' \/ R!At(s, "reject")'
        => s # r
  BY <1>5 DEF RejectInv, RejectTypes, R!At, R!Open
<1>7. RejectTypes'
  BY <1>2, <1>5 DEF RejectInv, RejectTypes
<1>8. ContractsAreThere'
  <2>1. \A i \in DOMAIN tokens' : minter'[tokens'[i].contract] # Removed
    BY <1>1, <1>2, <1>5 DEF RejectInv, ContractsAreThere
  <2>2. ASSUME NEW s \in Requests PROVE KnowsContracts(s)'
    <3>1. CASE s = r
      BY <1>6, <3>1 DEF KnowsContracts
    <3>2. CASE s # r
      BY <1>5, <3>2, OthersKnow DEF RejectInv, ContractsAreThere
    <3>3. QED
      BY <3>1, <3>2
  <2>3. QED
    BY <2>1, <2>2 DEF ContractsAreThere
<1>9. ASSUME NEW s \in Requests, R!At(s, "block")' \/ R!At(s, "reject")',
             NEW i \in DOMAIN tokens', tokens'[i].status = "Unclaimed",
             minter'[tokens'[i].contract] = rejecting'[s].minter
      PROVE  i \in excused' \/ tokens'[i].contract \in rejecting'[s].contracts
  <2>1. rejecting'[s] = rejecting[s] /\ (R!At(s, "block") \/ R!At(s, "reject"))
    BY <1>5, <1>6, <1>9, RejectOthersStay DEF RejectInv
  <2>2. CASE i \in DOMAIN tokens
    BY <1>2, <1>4, <1>5, <1>9, <2>1, <2>2 DEF RejectInv, MetOrExcused
  <2>3. CASE i = n
    <3>1. R!Missed(c) \/ c \in rejecting[s].contracts
      BY <1>2, <1>5, <1>9, <2>1, <2>3 DEF R!Missed, R!At
    <3>2. QED
      BY <1>2, <1>4, <2>1, <2>3, <3>1
  <2>4. QED
    BY <1>2, <2>2, <2>3
<1>10. R!RejectionsHold'
  <2>1. tokens'[n].status = "Unclaimed"
    BY <1>1 DEF RejectInv, RejectTypes, R!SaveToken
  <2>2. minter[c] \in done => n \in excused'
    BY <1>4 DEF RejectInv, RejectTypes, R!Missed
  <2>3. excused \subseteq excused'
    BY <1>4
  <2>4. QED
    BY <1>2, <1>5, <2>1, <2>2, <2>3 DEF RejectInv, R!RejectionsHold
<1>11. QED
  BY <1>7, <1>8, <1>9, <1>10 DEF RejectInv, MetOrExcused

\* A request that starts, or that ends without a trace.
LEMMA RejectRequestKeeps ==
  ASSUME RejectInv, NEW r \in Requests, NEW q,
         rejecting' = [rejecting EXCEPT ![r] = q],
         q \in {Removed} \cup Saving \cup Naming \cup Unknown,
         q # Removed /\ q.at = "save" => minter[q.contract] # Removed,
         q # Removed /\ q.at = "contracts" => q.minter # Removed,
         UNCHANGED <<minter, tokens, blocked, done, single, excused>>
  PROVE  RejectInv'
<1>1. RejectTypes'
  BY DEF RejectInv, RejectTypes
<1>2. rejecting'[r] = q
  BY DEF RejectInv, RejectTypes
<1>3. q # Removed => q.at \in {"save", "contracts", "named"}
  BY DEF Saving, Naming, Unknown
<1>4. ASSUME NEW s \in Requests PROVE KnowsContracts(s)'
  <2>1. CASE s = r
    BY <1>2, <1>3, <2>1 DEF KnowsContracts, R!At, R!Open
  <2>2. CASE s # r
    BY <2>2, OthersKnow DEF RejectInv, ContractsAreThere
  <2>3. QED
    BY <2>1, <2>2
<1>5. ContractsAreThere'
  BY <1>4 DEF RejectInv, ContractsAreThere
<1>6. ASSUME NEW s \in Requests, R!At(s, "block")' \/ R!At(s, "reject")'
      PROVE  rejecting'[s] = rejecting[s] /\ (R!At(s, "block") \/ R!At(s, "reject"))
  <2>1. s # r
    BY <1>2, <1>3, <1>6 DEF R!At, R!Open
  <2>2. QED
    BY <1>6, <2>1, RejectOthersStay DEF RejectInv
<1>7. MetOrExcused'
  BY <1>6 DEF RejectInv, MetOrExcused
<1>8. QED
  BY <1>1, <1>5, <1>7 DEF RejectInv, R!RejectionsHold

LEMMA RejectOneKeeps ==
  ASSUME RejectInv, R!RejectOne
  PROVE  RejectInv'
<1>1. PICK k \in DOMAIN tokens :
        tokens' = R!Rejected({tokens[k].contract}, {k}) /\ single' = single \cup {k}
  BY DEF R!RejectOne
<1>2. UNCHANGED <<minter, blocked, rejecting, begun, done, excused>>
  BY DEF R!RejectOne
<1>3. /\ tokens' \in Seq(Offer) /\ DOMAIN tokens' = DOMAIN tokens
      /\ \A i \in DOMAIN tokens :
           /\ tokens'[i].contract = tokens[i].contract
           /\ tokens'[i].status = tokens[i].status \/ (tokens'[i].status = "Rejected" /\ i = k)
  BY <1>1, RejectedTokens DEF RejectInv
<1>4. RejectTypes'
  BY <1>2, <1>3 DEF RejectInv, RejectTypes
<1>5. ContractsAreThere' /\ MetOrExcused'
  BY <1>2, <1>3 DEF RejectInv, ContractsAreThere, KnowsContracts, MetOrExcused, R!At, R!Open
<1>6. R!RejectionsHold'
  BY <1>1, <1>2, <1>3 DEF RejectInv, R!RejectionsHold
<1>7. QED
  BY <1>4, <1>5, <1>6 DEF RejectInv

LEMMA RejectNamedKeeps ==
  ASSUME RejectInv, NEW r \in Requests, R!RejectNamed(r)
  PROVE  RejectInv'
<1> DEFINE c == rejecting[r].contract
<1>1. /\ rejecting' = [rejecting EXCEPT ![r] = Removed]
      /\ tokens' = R!Rejected({c}, DOMAIN tokens)
      /\ single' = single \cup {i \in DOMAIN tokens : tokens[i].contract = c}
      /\ UNCHANGED <<minter, blocked, done, excused>>
  BY DEF R!RejectNamed, R!Close
<1>2. /\ tokens' \in Seq(Offer) /\ DOMAIN tokens' = DOMAIN tokens
      /\ \A i \in DOMAIN tokens :
           /\ tokens'[i].contract = tokens[i].contract
           /\ \/ tokens'[i].status = tokens[i].status
              \/ tokens'[i].status = "Rejected" /\ tokens[i].contract = c
  BY <1>1, RejectedTokens DEF RejectInv
<1> HIDE DEF c
<1>3. RejectTypes'
  BY <1>1, <1>2 DEF RejectInv, RejectTypes
<1>4. ASSUME NEW s \in Requests PROVE KnowsContracts(s)'
  <2>1. CASE s = r
    BY <1>1, <2>1 DEF RejectInv, RejectTypes, KnowsContracts, R!At, R!Open
  <2>2. CASE s # r
    BY <1>1, <2>2, OthersKnow DEF RejectInv, ContractsAreThere
  <2>3. QED
    BY <2>1, <2>2
<1>5. ContractsAreThere'
  BY <1>1, <1>2, <1>4 DEF RejectInv, ContractsAreThere
<1>6. ASSUME NEW s \in Requests, R!At(s, "block")' \/ R!At(s, "reject")'
      PROVE  rejecting'[s] = rejecting[s] /\ (R!At(s, "block") \/ R!At(s, "reject"))
  <2>1. s # r
    BY <1>1, <1>6 DEF RejectInv, RejectTypes, R!At, R!Open
  <2>2. QED
    BY <1>1, <1>6, <2>1, RejectOthersStay DEF RejectInv
<1>7. MetOrExcused'
  BY <1>1, <1>2, <1>6 DEF RejectInv, MetOrExcused
<1>8. R!RejectionsHold'
  BY <1>1, <1>2 DEF RejectInv, R!RejectionsHold
<1>9. QED
  BY <1>3, <1>5, <1>7, <1>8 DEF RejectInv

LEMMA RejectFindContractsKeeps ==
  ASSUME RejectInv, NEW r \in Requests, R!FindContracts(r)
  PROVE  RejectInv'
<1> DEFINE q == [at |-> "block", minter |-> rejecting[r].minter,
                 contracts |-> R!ContractsOf(rejecting[r])]
<1>1. rejecting[r] \in Naming /\ rejecting[r].minter # Removed
  BY RejectShapes DEF RejectInv, ContractsAreThere, KnowsContracts, R!FindContracts
<1>2. q \in Rejecting
  BY <1>1 DEF Naming, Rejecting, R!ContractsOf
<1>3. rejecting' = [rejecting EXCEPT ![r] = q] /\ rejecting'[r] = q
  BY DEF RejectInv, RejectTypes, R!FindContracts, R!Continue
<1>4. UNCHANGED <<minter, tokens, blocked, done, single, excused>>
  BY DEF R!FindContracts, R!Continue
<1>5. RejectTypes'
  BY <1>2, <1>3, <1>4 DEF RejectInv, RejectTypes
<1>6. ASSUME NEW s \in Requests PROVE KnowsContracts(s)'
  <2>1. CASE s = r
    BY <1>1, <1>3, <1>4, <2>1 DEF KnowsContracts, R!At, R!ContractsOf
  <2>2. CASE s # r
    BY <1>3, <1>4, <2>2, OthersKnow DEF RejectInv, ContractsAreThere
  <2>3. QED
    BY <2>1, <2>2
<1>7. ASSUME NEW s \in Requests, R!At(s, "block")' \/ R!At(s, "reject")',
             NEW i \in DOMAIN tokens, tokens[i].status = "Unclaimed",
             minter[tokens[i].contract] = rejecting'[s].minter
      PROVE  i \in excused \/ tokens[i].contract \in rejecting'[s].contracts
  <2>1. CASE s = r
    <3>1. tokens[i] \in Offer
      BY DEF RejectInv, RejectTypes
    <3>2. tokens[i].contract \in R!ContractsOf(rejecting[r])
      BY <1>3, <1>7, <2>1, <3>1 DEF Offer, R!ContractsOf
    <3>3. QED
      BY <1>3, <2>1, <3>2
  <2>2. CASE s # r
    BY <1>3, <1>7, <2>2, RejectOthersStay DEF RejectInv, MetOrExcused
  <2>3. QED
    BY <2>1, <2>2
<1>8. QED
  BY <1>4, <1>5, <1>6, <1>7 DEF RejectInv, ContractsAreThere, MetOrExcused, R!RejectionsHold

LEMMA RejectBlockKeeps ==
  ASSUME RejectInv, NEW r \in Requests, R!Block(r)
  PROVE  RejectInv'
<1> DEFINE q == [rejecting[r] EXCEPT !.at = "reject"]
<1>1. R!At(r, "block") /\ rejecting[r] \in Rejecting
  BY RejectShapes DEF RejectInv, R!Block
<1>2. q \in Rejecting /\ q.minter = rejecting[r].minter /\ q.contracts = rejecting[r].contracts
  BY <1>1 DEF Rejecting
<1>3. rejecting' = [rejecting EXCEPT ![r] = q] /\ rejecting'[r] = q
  BY DEF RejectInv, RejectTypes, R!Block, R!Continue
<1>4. /\ UNCHANGED <<minter, tokens, done, single, excused>>
      /\ blocked' = blocked \cup {rejecting[r].minter}
  BY DEF R!Block, R!Continue
<1>5. RejectTypes'
  BY <1>2, <1>3, <1>4 DEF RejectInv, RejectTypes
<1>6. ASSUME NEW s \in Requests PROVE KnowsContracts(s)'
  <2>1. CASE s = r
    <3>1. q.at = "reject" /\ q.minter \in blocked' /\ q.minter # Removed
      BY <1>1, <1>2, <1>4 DEF Rejecting, RejectInv, ContractsAreThere, KnowsContracts
    <3>2. \A c \in q.contracts : minter[c] = q.minter
      BY <1>1, <1>2 DEF RejectInv, ContractsAreThere, KnowsContracts
    <3>3. QED
      BY <1>3, <1>4, <2>1, <3>1, <3>2 DEF KnowsContracts, R!At
  <2>2. CASE s # r
    BY <1>3, <1>4, <2>2, OthersKnow DEF RejectInv, ContractsAreThere
  <2>3. QED
    BY <2>1, <2>2
<1>7. ASSUME NEW s \in Requests, R!At(s, "block")' \/ R!At(s, "reject")'
      PROVE  /\ rejecting'[s].minter = rejecting[s].minter
             /\ rejecting'[s].contracts = rejecting[s].contracts
             /\ R!At(s, "block") \/ R!At(s, "reject")
  BY <1>1, <1>2, <1>3, <1>7, RejectOthersStay DEF RejectInv
<1>8. MetOrExcused'
  BY <1>4, <1>7 DEF RejectInv, MetOrExcused
<1>9. QED
  BY <1>4, <1>5, <1>6, <1>8 DEF RejectInv, ContractsAreThere, R!RejectionsHold

LEMMA RejectAllKeeps ==
  ASSUME RejectInv, NEW r \in Requests, R!RejectAll(r)
  PROVE  RejectInv'
<1> DEFINE m == rejecting[r].minter
           contracts == rejecting[r].contracts
<1>1. /\ R!At(r, "reject") /\ rejecting[r] \in Rejecting /\ m # Removed /\ m \in blocked
      /\ \A c \in contracts : minter[c] = m
  BY RejectShapes DEF RejectInv, ContractsAreThere, KnowsContracts, R!RejectAll
<1>2. /\ rejecting' = [rejecting EXCEPT ![r] = Removed] /\ done' = done \cup {m}
      /\ tokens' = R!Rejected(contracts, DOMAIN tokens)
      /\ UNCHANGED <<minter, blocked, single, excused>>
  BY DEF R!RejectAll, R!Close
<1>3. /\ tokens' \in Seq(Offer) /\ DOMAIN tokens' = DOMAIN tokens
      /\ \A i \in DOMAIN tokens :
           /\ tokens'[i].contract = tokens[i].contract
           /\ tokens'[i].status = IF tokens[i].status = "Unclaimed" /\ tokens[i].contract \in contracts
                                  THEN "Rejected" ELSE tokens[i].status
  BY <1>2, RejectedTokens DEF RejectInv
<1>4. RejectTypes'
  BY <1>1, <1>2, <1>3 DEF RejectInv, RejectTypes
<1>5. ASSUME NEW s \in Requests PROVE KnowsContracts(s)'
  <2>1. CASE s = r
    BY <1>2, <2>1 DEF RejectInv, RejectTypes, KnowsContracts, R!At, R!Open
  <2>2. CASE s # r
    BY <1>2, <2>2, OthersKnow DEF RejectInv, ContractsAreThere
  <2>3. QED
    BY <2>1, <2>2
<1>6. ContractsAreThere'
  BY <1>2, <1>3, <1>5 DEF RejectInv, ContractsAreThere
<1>7. ASSUME NEW s \in Requests, R!At(s, "block")' \/ R!At(s, "reject")'
      PROVE  rejecting'[s] = rejecting[s] /\ (R!At(s, "block") \/ R!At(s, "reject"))
  <2>1. s # r
    BY <1>2, <1>7 DEF RejectInv, RejectTypes, R!At, R!Open
  <2>2. QED
    BY <1>2, <1>7, <2>1, RejectOthersStay DEF RejectInv
<1>8. MetOrExcused'
  BY <1>2, <1>3, <1>7 DEF RejectInv, MetOrExcused
<1>9. ASSUME NEW i \in DOMAIN tokens
      PROVE  /\ tokens'[i].status = "Unclaimed" /\ minter[tokens'[i].contract] \in done' =>
                  i \in excused
             /\ tokens'[i].status = "Rejected" =>
                  i \in single \/ minter[tokens'[i].contract] \in done'
  <2>1. tokens[i].status = "Unclaimed" /\ minter[tokens[i].contract] = m =>
          i \in excused \/ tokens[i].contract \in contracts
    BY <1>1 DEF RejectInv, MetOrExcused
  <2>2. QED
    BY <1>1, <1>2, <1>3, <2>1 DEF RejectInv, R!RejectionsHold
<1>10. QED
  BY <1>2, <1>3, <1>4, <1>6, <1>8, <1>9 DEF RejectInv, R!RejectionsHold

-----------------------------------------------------------------------------
LEMMA RejectStartKeeps ==
  ASSUME RejectInv, NEW r \in Requests, R!Create(r) \/ R!FindMinter(r) \/ R!Fail(r)
  PROVE  RejectInv'
<1>1. CASE R!Create(r)
  <2>1. PICK c \in Contracts, asking \in BOOLEAN :
          minter[c] # Removed /\ R!Start(r, [at |-> "save", contract |-> c, asked |-> asking])
    BY <1>1 DEF R!Create
  <2>2. [at |-> "save", contract |-> c, asked |-> asking] \in Saving
    BY DEF Saving
  <2>3. QED
    BY <2>1, <2>2, RejectRequestKeeps DEF R!Start
<1>2. CASE R!FindMinter(r)
  <2>1. PICK c \in Contracts :
          R!Start(r, IF minter[c] = Removed THEN [at |-> "named", contract |-> c]
                     ELSE [at |-> "contracts", minter |-> minter[c], named |-> c])
    BY <1>2 DEF R!FindMinter
  <2>2. CASE minter[c] = Removed
    <3>1. R!Start(r, [at |-> "named", contract |-> c]) /\ [at |-> "named", contract |-> c] \in Unknown
      BY <2>1, <2>2 DEF Unknown
    <3>2. QED
      BY <3>1, RejectRequestKeeps DEF R!Start
  <2>3. CASE minter[c] # Removed
    <3>1. R!Start(r, [at |-> "contracts", minter |-> minter[c], named |-> c])
      BY <2>1, <2>3
    <3>2. [at |-> "contracts", minter |-> minter[c], named |-> c] \in Naming
      BY <2>3 DEF Naming, RejectInv, RejectTypes
    <3>3. QED
      BY <2>3, <3>1, <3>2, RejectRequestKeeps DEF R!Start
  <2>4. QED
    BY <2>2, <2>3
<1>3. CASE R!Fail(r)
  BY <1>3, RejectRequestKeeps DEF R!Fail, R!Close
<1>4. QED
  BY <1>1, <1>2, <1>3

LEMMA RejectInductive == RejectInv /\ [R!Next]_(R!vars) => RejectInv'
<1> SUFFICES ASSUME RejectInv, [R!Next]_(R!vars) PROVE RejectInv'
  OBVIOUS
<1>1. CASE UNCHANGED R!vars
  BY <1>1 DEF R!vars, RejectInv, RejectTypes, ContractsAreThere, KnowsContracts, MetOrExcused,
              R!RejectionsHold, R!At, R!Open
<1>2. CASE R!Next
  BY <1>1, <1>2, RejectInstantiateKeeps, RejectTakeKeeps, RejectOneKeeps, RejectStartKeeps, RejectSaveTokenKeeps,
     RejectFindContractsKeeps, RejectBlockKeeps, RejectAllKeeps, RejectNamedKeeps DEF R!Next, R!Quiet
<1>3. QED
  BY <1>1, <1>2

\* Whatever requests run side by side, for any number of them: once all
\* tokens of a minter were rejected (rejectToken with rejectAll), none is on
\* offer that a rejection should have met, and no token is rejected that the
\* receiver did not reject.
THEOREM RejectionsStand == RecordsSpec => []RejectionsHold
<1> DEFINE Kept == part = "rejects" => RejectInv
<1>1. RecordsInit => Kept
  BY DEF RecordsInit, R!Init, RejectInv, RejectTypes, ContractsAreThere, KnowsContracts,
         MetOrExcused, R!RejectionsHold, R!At, R!Open
<1>2. Kept /\ [RecordsNext]_allVars => Kept'
  BY RejectInductive DEF RecordsNext, allVars, rejectVars, R!vars
<1>3. Kept => RejectionsHold
  BY DEF RejectionsHold, RejectInv
<1>4. QED
  BY <1>1, <1>2, <1>3, PTL DEF RecordsSpec

-----------------------------------------------------------------------------
(* CachedReads: when a change is shown, and how old an answer may be.      *)

Asked  == [explorer : Explorers, url : Urls]
Read   == [of : Explorers, version : Nat]
Answer == [of : Explorers, version : Nat, stored : Nat]

CacheTypes ==
  /\ now \in Nat /\ data \in [Explorers -> Nat] /\ changed \in [Explorers -> Nat]
  /\ seen \in [Explorers -> [Urls -> Nat]]
  /\ pc \in [Requests -> {"idle", "handle", "keep"}]
  /\ query \in [Requests -> Asked \cup {Removed}]
  /\ answer \in [Requests -> Read \cup {Removed}]
  /\ cache \in [Urls -> Answer \cup {Removed}]

\* What a handler has read is of the explorer that asked, and still its data
\* unless the data has changed under the handler.
AnswersItsOwn(r) ==
  /\ pc[r] # "idle" => query[r] \in Asked
  /\ pc[r] = "keep" =>
       /\ answer[r] \in Read /\ answer[r].of = query[r].explorer
       /\ answer[r].version <= data[query[r].explorer]
       /\ \/ <<query[r].explorer, query[r].url>> \in raced
          \/ answer[r].version = data[query[r].explorer]

\* What is kept under a URL is not behind what its explorer has seen there,
\* and if it is not the present data it was kept before the last change.
KeptAt(u, a) ==
  /\ a \in Answer /\ a.version <= data[a.of] /\ a.stored <= now
  /\ \/ <<a.of, u>> \in raced
     \/ seen[a.of][u] <= a.version /\ (a.version # data[a.of] => a.stored <= changed[a.of])
NotBehind(u) == cache[u] # Removed => KeptAt(u, cache[u])

SeenIsThere == \A e \in Explorers, u \in Urls : seen[e][u] <= data[e]

CacheInv ==
  /\ CacheTypes /\ C!AnswersAreFresh /\ SeenIsThere
  /\ \A r \in Requests : AnswersItsOwn(r)
  /\ \A u \in Urls : NotBehind(u)

\* To tell e an answer moves what e has seen at u to the version of the answer
\* at most, and nothing else.
LEMMA TellSees ==
  ASSUME CacheTypes, NEW e \in Explorers, NEW u \in Urls, NEW a \in Answer, C!Tell(e, u, a)
  PROVE  /\ seen' \in [Explorers -> [Urls -> Nat]]
         /\ \A f \in Explorers, v \in Urls :
              seen'[f][v] = IF f = e /\ v = u /\ a.of = e /\ a.version > seen[e][u]
                            THEN a.version ELSE seen[f][v]
<1>1. a.version \in Nat
  BY DEF Answer
<1>2. CASE a.of = e /\ a.version > seen[e][u]
  <2>1. seen' = [seen EXCEPT ![e] = [seen[e] EXCEPT ![u] = a.version]]
    BY <1>2 DEF C!Tell
  <2>2. QED
    BY <1>1, <1>2, <2>1 DEF CacheTypes
<1>3. CASE ~(a.of = e /\ a.version > seen[e][u])
  BY <1>3 DEF C!Tell, CacheTypes
<1>4. QED
  BY <1>2, <1>3

\* An answer may be told, and stay in the cache, if it is the present data or
\* is fresh and was kept before the last change.
LEMMA TellIsFresh ==
  ASSUME CacheInv, NEW e \in Explorers, NEW u \in Urls, NEW a \in Answer, C!Tell(e, u, a),
         KeptAt(u, a), UNCHANGED <<now, data, changed, raced>>,
         <<a.of, u>> \notin raced /\ a.version # data[a.of] => now < a.stored + Ttl
  PROVE  /\ C!AnswersAreFresh' /\ SeenIsThere' /\ KeptAt(u, a)'
         /\ seen' \in [Explorers -> [Urls -> Nat]]
         /\ \A f \in Explorers, v \in Urls : v # u => seen'[f][v] = seen[f][v]
<1>1. /\ a.version \in Nat /\ a.of \in Explorers /\ a.stored \in Nat
      /\ now \in Nat /\ changed[a.of] \in Nat /\ data[a.of] \in Nat /\ seen[a.of][u] \in Nat
      /\ Ttl \in Nat
  BY RecordsConstantsOK DEF Answer, CacheInv, CacheTypes
<1>2. /\ seen' \in [Explorers -> [Urls -> Nat]]
      /\ \A f \in Explorers, v \in Urls :
           seen'[f][v] = IF f = e /\ v = u /\ a.of = e /\ a.version > seen[e][u]
                         THEN a.version ELSE seen[f][v]
  BY TellSees DEF CacheInv
<1>3. served' = [to |-> e, url |-> u, of |-> a.of, version |-> a.version, seen |-> seen[e][u],
                 current |-> data[a.of], age |-> now - changed[a.of]]
  BY DEF C!Tell
<1>4. C!AnswersAreFresh'
  <2>1. ASSUME <<a.of, u>> \notin raced, now - changed[a.of] >= Ttl PROVE a.version = data[a.of]
    BY <1>1, <2>1 DEF KeptAt
  <2>2. ASSUME <<a.of, u>> \notin raced, a.of = e PROVE a.version >= seen[e][u]
    BY <1>1, <2>2 DEF KeptAt
  <2>3. QED
    BY <1>3, <2>1, <2>2 DEF C!AnswersAreFresh
<1>5. SeenIsThere'
  BY <1>2 DEF CacheInv, SeenIsThere, KeptAt
<1>6. KeptAt(u, a)'
  <2>1. seen[a.of][u] <= a.version => seen'[a.of][u] <= a.version
    BY <1>1, <1>2
  <2>2. QED
    BY <2>1 DEF KeptAt
<1>7. QED
  BY <1>2, <1>4, <1>5, <1>6

LEMMA AskKeeps ==
  ASSUME CacheInv, NEW r \in Requests, C!Ask(r)
  PROVE  CacheInv'
<1>1. PICK e \in Explorers, u \in Urls :
        IF C!Fresh(u)
        THEN C!Tell(e, u, cache[u]) /\ UNCHANGED <<query, pc>>
        ELSE /\ query' = [query EXCEPT ![r] = [explorer |-> e, url |-> u]]
             /\ C!Goto(r, "handle") /\ UNCHANGED <<served, seen>>
  BY DEF C!Ask
<1>2. pc[r] = "idle" /\ UNCHANGED <<now, data, cache, answer, changed, raced>>
  BY DEF C!Ask
<1>3. CASE C!Fresh(u)
  <2>1. C!Tell(e, u, cache[u]) /\ UNCHANGED <<query, pc>>
    BY <1>1, <1>3
  <2>2. KeptAt(u, cache[u]) /\ cache[u] \in Answer /\ now < cache[u].stored + Ttl
    BY <1>3 DEF C!Fresh, CacheInv, NotBehind, KeptAt
  <2>3. /\ C!AnswersAreFresh' /\ SeenIsThere' /\ KeptAt(u, cache[u])'
        /\ seen' \in [Explorers -> [Urls -> Nat]]
        /\ \A f \in Explorers, v \in Urls : v # u => seen'[f][v] = seen[f][v]
    <3> DEFINE a == cache[u]
    <3>1. a \in Answer /\ C!Tell(e, u, a) /\ KeptAt(u, a) /\ now < a.stored + Ttl /\ a' = a
      BY <1>2, <2>1, <2>2
    <3> HIDE DEF a
    <3>2. /\ C!AnswersAreFresh' /\ SeenIsThere' /\ KeptAt(u, a)'
          /\ seen' \in [Explorers -> [Urls -> Nat]]
          /\ \A f \in Explorers, v \in Urls : v # u => seen'[f][v] = seen[f][v]
      BY <1>2, <3>1, TellIsFresh
    <3>3. QED
      BY <3>2 DEF a
  <2>4. CacheTypes'
    BY <1>2, <2>1, <2>3 DEF CacheInv, CacheTypes
  <2>5. ASSUME NEW v \in Urls PROVE NotBehind(v)'
    <3>1. CASE v = u
      BY <2>3, <3>1 DEF NotBehind
    <3>2. CASE v # u
      BY <1>2, <2>3, <3>2 DEF CacheInv, NotBehind, KeptAt, Answer
    <3>3. QED
      BY <3>1, <3>2
  <2>6. \A s \in Requests : AnswersItsOwn(s)'
    BY <1>2, <2>1 DEF CacheInv, AnswersItsOwn
  <2>7. QED
    BY <2>3, <2>4, <2>5, <2>6 DEF CacheInv
<1>4. CASE ~C!Fresh(u)
  <2>1. /\ query' = [query EXCEPT ![r] = [explorer |-> e, url |-> u]]
        /\ pc' = [pc EXCEPT ![r] = "handle"] /\ UNCHANGED <<served, seen>>
    BY <1>1, <1>4 DEF C!Goto
  <2>2. [explorer |-> e, url |-> u] \in Asked
    BY DEF Asked
  <2>3. CacheTypes'
    BY <1>2, <2>1, <2>2 DEF CacheInv, CacheTypes
  <2>4. ASSUME NEW s \in Requests PROVE AnswersItsOwn(s)'
    BY <1>2, <2>1, <2>2 DEF CacheInv, CacheTypes, AnswersItsOwn
  <2>5. C!AnswersAreFresh' /\ SeenIsThere' /\ \A v \in Urls : NotBehind(v)'
    BY <1>2, <2>1 DEF CacheInv, C!AnswersAreFresh, SeenIsThere, NotBehind, KeptAt
  <2>6. QED
    BY <2>3, <2>4, <2>5 DEF CacheInv
<1>5. QED
  BY <1>3, <1>4

LEMMA HandleKeeps ==
  ASSUME CacheInv, NEW r \in Requests, C!Handle(r)
  PROVE  CacheInv'
<1>1. pc[r] = "handle" /\ query[r] \in Asked
  BY DEF C!Handle, CacheInv, AnswersItsOwn
<1>2. UNCHANGED <<now, data, cache, changed, served, seen, raced>>
  BY DEF C!Handle
<1> DEFINE read == [of |-> query[r].explorer, version |-> data[query[r].explorer]]
<1>3. \/ /\ answer' = [answer EXCEPT ![r] = read]
         /\ pc' = [pc EXCEPT ![r] = "keep"] /\ UNCHANGED query
      \/ /\ pc' = [pc EXCEPT ![r] = "idle"] /\ query' = [query EXCEPT ![r] = Removed]
         /\ UNCHANGED answer
  BY DEF C!Handle, C!Goto
<1>4. /\ read \in Read /\ read.of = query[r].explorer
      /\ read.version = data[query[r].explorer] /\ read.version \in Nat
  BY <1>1 DEF Asked, Read, CacheInv, CacheTypes
<1>5. CacheTypes'
  BY <1>2, <1>3, <1>4 DEF CacheInv, CacheTypes
<1> HIDE DEF read
<1>6. ASSUME NEW s \in Requests PROVE AnswersItsOwn(s)'
  <2>1. CASE s = r
    BY <1>1, <1>2, <1>3, <1>4, <2>1 DEF CacheInv, CacheTypes, AnswersItsOwn
  <2>2. CASE s # r
    BY <1>2, <1>3, <2>2 DEF CacheInv, CacheTypes, AnswersItsOwn
  <2>3. QED
    BY <2>1, <2>2
<1>7. QED
  BY <1>2, <1>5, <1>6 DEF CacheInv, NotBehind, KeptAt, SeenIsThere, C!AnswersAreFresh

LEMMA KeepKeeps ==
  ASSUME CacheInv, NEW r \in Requests, C!Keep(r)
  PROVE  CacheInv'
<1>1. PICK u \in Urls, e \in Explorers, kept \in Answer :
        /\ u = query[r].url /\ e = query[r].explorer
        /\ kept = [of |-> answer[r].of, version |-> answer[r].version, stored |-> now]
        /\ kept.of = e /\ kept.version <= data[e] /\ kept.stored = now
        /\ <<e, u>> \in raced \/ kept.version = data[e]
  <2>1. /\ query[r] \in Asked /\ answer[r] \in Read /\ answer[r].of = query[r].explorer
        /\ answer[r].version <= data[query[r].explorer]
        /\ \/ <<query[r].explorer, query[r].url>> \in raced
           \/ answer[r].version = data[query[r].explorer]
    BY DEF C!Keep, CacheInv, AnswersItsOwn
  <2>2. [of |-> answer[r].of, version |-> answer[r].version, stored |-> now] \in Answer
    BY <2>1 DEF Read, Answer, CacheInv, CacheTypes
  <2>3. QED
    BY <2>1, <2>2 DEF Asked
<1>2. cache' = [cache EXCEPT ![u] = kept] /\ C!Tell(e, u, kept)
  BY <1>1 DEF C!Keep
<1>3. /\ query' = [query EXCEPT ![r] = Removed] /\ answer' = [answer EXCEPT ![r] = Removed]
      /\ pc' = [pc EXCEPT ![r] = "idle"] /\ UNCHANGED <<now, data, changed, raced>>
  BY DEF C!Keep, C!Goto
<1>4. KeptAt(u, kept)
  <2>1. now \in Nat /\ seen[e][u] <= data[e]
    BY DEF CacheInv, CacheTypes, SeenIsThere
  <2>2. QED
    BY <1>1, <2>1 DEF KeptAt
<1>5. /\ C!AnswersAreFresh' /\ SeenIsThere' /\ KeptAt(u, kept)'
      /\ seen' \in [Explorers -> [Urls -> Nat]]
      /\ \A f \in Explorers, v \in Urls : v # u => seen'[f][v] = seen[f][v]
  <2>1. <<kept.of, u>> \in raced \/ kept.version = data[kept.of]
    BY <1>1
  <2>2. QED
    BY <1>2, <1>3, <1>4, <2>1, TellIsFresh
<1>6. CacheTypes'
  BY <1>1, <1>2, <1>3, <1>5 DEF CacheInv, CacheTypes
<1>7. ASSUME NEW v \in Urls PROVE NotBehind(v)'
  <2>1. CASE v = u
    <3>1. cache'[v] = kept
      BY <1>1, <1>2, <2>1 DEF CacheInv, CacheTypes
    <3>2. QED
      BY <1>5, <2>1, <3>1 DEF NotBehind, KeptAt
  <2>2. CASE v # u
    <3>1. cache'[v] = cache[v]
      BY <1>2, <2>2 DEF CacheInv, CacheTypes
    <3>2. QED
      BY <1>3, <1>5, <2>2, <3>1 DEF CacheInv, NotBehind, KeptAt, Answer
  <2>3. QED
    BY <2>1, <2>2
<1>8. \A s \in Requests : AnswersItsOwn(s)'
  BY <1>3 DEF CacheInv, CacheTypes, AnswersItsOwn
<1>9. QED
  BY <1>5, <1>6, <1>7, <1>8 DEF CacheInv

\* A change is later than everything that is kept, and marks the handlers
\* that hold what they read before it.
LEMMA ChangeKeeps ==
  ASSUME CacheInv, C!Change
  PROVE  CacheInv'
<1>1. PICK e \in Explorers :
        /\ data' = [data EXCEPT ![e] = @ + 1] /\ changed' = [changed EXCEPT ![e] = now]
        /\ raced' = raced \cup {<<e, query[r].url>> :
                                r \in {s \in Requests : pc[s] = "keep" /\ query[s].explorer = e}}
        /\ UNCHANGED <<now, cache, query, pc, answer, served, seen>>
  BY DEF C!Change
<1>2. /\ data' \in [Explorers -> Nat] /\ changed' \in [Explorers -> Nat]
      /\ data'[e] = data[e] + 1 /\ data[e] \in Nat /\ changed'[e] = now
      /\ \A f \in Explorers \ {e} : data'[f] = data[f] /\ changed'[f] = changed[f]
  BY <1>1 DEF CacheInv, CacheTypes
<1>3. CacheTypes'
  BY <1>1, <1>2 DEF CacheInv, CacheTypes
<1>4. ASSUME NEW r \in Requests PROVE AnswersItsOwn(r)'
  <2>1. CASE pc[r] = "keep"
    <3>1. /\ query[r] \in Asked /\ answer[r] \in Read /\ query[r].explorer \in Explorers
          /\ answer[r].version \in Nat
      BY <2>1 DEF CacheInv, AnswersItsOwn, Asked, Read
    <3>2. CASE query[r].explorer = e
      <4>1. <<e, query[r].url>> \in raced'
        BY <1>1, <2>1, <3>2
      <4>2. QED
        BY <1>1, <1>2, <2>1, <3>1, <3>2, <4>1 DEF CacheInv, AnswersItsOwn
    <3>3. CASE query[r].explorer # e
      BY <1>1, <1>2, <2>1, <3>1, <3>3 DEF CacheInv, AnswersItsOwn
    <3>4. QED
      BY <3>2, <3>3
  <2>2. CASE pc[r] # "keep"
    BY <1>1, <2>2 DEF CacheInv, AnswersItsOwn
  <2>3. QED
    BY <2>1, <2>2
<1>5. ASSUME NEW u \in Urls PROVE NotBehind(u)'
  <2> SUFFICES ASSUME cache[u] # Removed PROVE KeptAt(u, cache[u])'
    BY <1>1 DEF NotBehind
  <2>1. KeptAt(u, cache[u]) /\ cache'[u] = cache[u]
    BY <1>1 DEF CacheInv, NotBehind
  <2>2. /\ cache[u] \in Answer /\ cache[u].of \in Explorers /\ cache[u].version \in Nat
        /\ cache[u].stored <= now
    BY <2>1 DEF KeptAt, Answer, CacheInv
  <2>3. CASE cache[u].of = e
    BY <1>1, <1>2, <2>1, <2>2, <2>3 DEF KeptAt
  <2>4. CASE cache[u].of # e
    BY <1>1, <1>2, <2>1, <2>2, <2>4 DEF KeptAt
  <2>5. QED
    BY <2>3, <2>4
<1>6. SeenIsThere'
  BY <1>1, <1>2 DEF CacheInv, CacheTypes, SeenIsThere
<1>7. C!AnswersAreFresh'
  BY <1>1 DEF CacheInv, C!AnswersAreFresh
<1>8. QED
  BY <1>3, <1>4, <1>5, <1>6, <1>7 DEF CacheInv

LEMMA CacheInductive == CacheInv /\ [C!Next]_(C!vars) => CacheInv'
<1> SUFFICES ASSUME CacheInv, [C!Next]_(C!vars) PROVE CacheInv'
  OBVIOUS
<1>1. CASE C!Tick
  <2>1. /\ now' \in Nat /\ now <= now'
        /\ UNCHANGED <<data, cache, query, pc, answer, changed, served, seen, raced>>
    BY <1>1 DEF C!Tick, CacheInv, CacheTypes
  <2>2. ASSUME NEW u \in Urls PROVE NotBehind(u)'
    BY <2>1 DEF CacheInv, CacheTypes, NotBehind, KeptAt, Answer
  <2>3. QED
    BY <2>1, <2>2 DEF CacheInv, CacheTypes, AnswersItsOwn, SeenIsThere, C!AnswersAreFresh
<1>2. CASE UNCHANGED C!vars
  BY <1>2 DEF C!vars, CacheInv, CacheTypes, AnswersItsOwn, NotBehind, KeptAt, SeenIsThere,
              C!AnswersAreFresh
<1>3. ASSUME NEW r \in Requests, C!Ask(r) \/ C!Handle(r) \/ C!Keep(r)
      PROVE  CacheInv'
  BY <1>3, AskKeeps, HandleKeeps, KeepKeeps
<1>4. QED
  BY <1>1, <1>2, <1>3, ChangeKeeps DEF C!Next

\* Whatever requests run at the same time, for any number of explorers and
\* URLs and any time to live: a change is shown to every client once the time
\* to live has passed, and no client sees its explorer's data go back, unless
\* the data changed while a handler held what it had read
\* (CacheInterceptor.trackBy, cacheManagement).
THEOREM AnswersStayFresh == RecordsSpec => []AnswersAreFresh
<1> DEFINE Kept == part = "cache" => CacheInv
<1>1. RecordsInit => Kept
  <2>1. RecordsInit /\ part = "cache" => C!Init
    BY DEF RecordsInit
  <2>2. C!Init => CacheInv
    BY DEF C!Init, CacheInv, CacheTypes, AnswersItsOwn, NotBehind, SeenIsThere,
           C!AnswersAreFresh
  <2>3. QED
    BY <2>1, <2>2
<1>2. Kept /\ [RecordsNext]_allVars => Kept'
  BY CacheInductive DEF RecordsNext, allVars, cacheVars, C!vars
<1>3. Kept => AnswersAreFresh
  BY DEF AnswersAreFresh, CacheInv
<1>4. QED
  BY <1>1, <1>2, <1>3, PTL DEF RecordsSpec

-----------------------------------------------------------------------------
(* AdminRecords and PublicNameTags: who is alone.                          *)

Busy == {r \in Requests : call[r] # Removed}
AloneIsOnly == \A r \in Busy : r \notin crowded => Busy = {r}

\* The request of s starts, goes on or ends.
Serves(s, q) ==
  /\ call' = [call EXCEPT ![s] = q]
  /\ \/ s \in Busy /\ (crowded' = crowded \/ (crowded' = crowded \ {s} /\ q = Removed))
     \/ s \notin Busy /\ crowded' = IF Busy = {} THEN crowded ELSE crowded \cup Busy \cup {s}

\* Who is alone after a step has taken the step: a request that is alone ends
\* before another does anything, or is no longer alone.
LEMMA AloneActs ==
  ASSUME DOMAIN call = Requests, AloneIsOnly, NEW s \in Requests, NEW q, Serves(s, q)
  PROVE  AloneIsOnly' /\ \A r \in Busy' : r \notin crowded' => r = s
<1>1. \A r \in Requests : r # s => call'[r] = call[r]
  BY DEF Serves
<1>2. call'[s] = q
  BY DEF Serves
<1>3. ASSUME NEW r \in Busy', r \notin crowded' PROVE r = s
  <2>1. CASE r # s
    <3>1. r \in Busy
      BY <1>1, <1>3, <2>1 DEF Busy
    <3>2. r \notin crowded /\ s \in Busy
      BY <1>3, <2>1, <3>1 DEF Serves
    <3>3. QED
      BY <2>1, <3>1, <3>2 DEF AloneIsOnly
  <2>2. QED
    BY <2>1
<1>4. ASSUME NEW r \in Busy', r \notin crowded', NEW t \in Busy' PROVE t = r
  <2>1. CASE t # r
    <3>1. r = s /\ t \in Busy
      BY <1>1, <1>3, <1>4, <2>1 DEF Busy
    <3>2. q # Removed
      BY <1>2, <1>4, <3>1 DEF Busy
    <3>3. s \in Busy /\ s \notin crowded
      BY <1>4, <3>1, <3>2 DEF Serves
    <3>4. QED
      BY <2>1, <3>1, <3>3 DEF AloneIsOnly
  <2>2. QED
    BY <2>1
<1>5. QED
  BY <1>3, <1>4 DEF AloneIsOnly

-----------------------------------------------------------------------------
(* AdminRecords: rows as they were asked for, and what is told of          *)
(* duplicates.                                                             *)

Value    == [key : A!Column(Keys), other : A!Column(Others)]
Creating == [op : {"create"}, at : {"validate", "save"}, id : Nat, body : Nat,
             key : A!Column(Keys), other : A!Column(Others)]
Updating == [op : {"update"}, at : {"validate", "find"}, id : Nat, body : Nat,
             key : A!Column(Keys), other : A!Column(Others)]
Merging  == [op : {"update"}, at : {"save"}, id : Nat, body : Nat,
             key : A!Column(Keys), other : A!Column(Others), found : Value]
Removing == [op : {"remove"}, at : {"delete"}, id : Nat]

Cell     == Value \cup {Removed}

AdminTypes ==
  /\ rows \in Seq(Cell) /\ asked \in Seq(Cell)
  /\ Len(rows) = Len(asked)
  /\ call \in [Requests -> {Removed} \cup Creating \cup Updating \cup Merging \cup Removing]

\* The rows that requests are about are in the table, where there is an id;
\* the body of a new row has the same id, and a copy that was found a value.
KnowsRows(q) ==
  /\ q.op = "create" => q.id \in {0} \cup DOMAIN rows /\ q.body = q.id
  /\ q.op = "update" => q.id \in DOMAIN rows /\ (q.at = "save" => q.found # Removed)
  /\ q.op = "remove" => q.id \in DOMAIN rows

\* What the validator and the lookup found holds as long as the request is
\* alone; a body that the validator did not see has no key to look for.
Validated(q) ==
  /\ (q.op = "create" /\ q.at = "save") \/ (q.op = "update" /\ q.at # "validate") => ~A!Taken(q)
  /\ q.op = "update" /\ q.at = "save" => rows[q.id] = q.found

UniqueKeys == \A i, j \in A!Live : A!SameKey(rows[i], rows[j]) => i = j

AdminInv ==
  /\ AdminTypes /\ UniqueKeys /\ AloneIsOnly
  /\ A!RowsAreAsAsked /\ A!DuplicatesAreTold
  /\ \A r \in Busy : KnowsRows(call[r])
  /\ \A r \in Busy : r \notin crowded => Validated(call[r])

\* A step of the request of s keeps what the others rest on.
LEMMA ServingKeeps ==
  ASSUME AdminInv, NEW s \in Requests, NEW q, Serves(s, q),
         q \in {Removed} \cup Creating \cup Updating \cup Merging \cup Removing,
         UNCHANGED kind, rows' \in Seq(Cell), asked' \in Seq(Cell),
         Len(rows') = Len(asked'), DOMAIN rows \subseteq DOMAIN rows',
         q # Removed => KnowsRows(q) /\ UNCHANGED rows,
         q # Removed /\ s \notin crowded' => Validated(q),
         UniqueKeys', A!RowsAreAsAsked', A!DuplicatesAreTold'
  PROVE  AdminInv'
<1>1. AdminTypes'
  BY DEF AdminInv, AdminTypes, Serves
<1>2. AloneIsOnly' /\ \A r \in Busy' : r \notin crowded' => r = s
  BY AloneActs DEF AdminInv, AdminTypes
<1>3. call'[s] = q
  BY DEF AdminInv, AdminTypes, Serves
<1>4. ASSUME NEW r \in Busy' PROVE KnowsRows(call[r])'
  <2>1. CASE r = s
    <3>1. q # Removed
      BY <1>3, <2>1 DEF Busy
    <3>2. QED
      BY <1>3, <2>1, <3>1 DEF KnowsRows
  <2>2. CASE r # s
    <3>1. call'[r] = call[r] /\ r \in Busy
      BY <2>2 DEF AdminInv, AdminTypes, Serves, Busy
    <3>2. QED
      BY <3>1 DEF AdminInv, KnowsRows
  <2>3. QED
    BY <2>1, <2>2
<1>5. ASSUME NEW r \in Busy', r \notin crowded' PROVE Validated(call[r])'
  <2>1. r = s /\ q # Removed
    BY <1>2, <1>3, <1>5 DEF Busy
  <2>2. Validated(q) /\ UNCHANGED rows
    BY <1>5, <2>1
  <2>3. QED
    BY <1>3, <2>1, <2>2 DEF Validated, A!Taken, A!Live, A!SameKey
<1>6. QED
  BY <1>1, <1>2, <1>4, <1>5 DEF AdminInv

-----------------------------------------------------------------------------
LEMMA RowCells ==
  ASSUME AdminTypes, NEW id \in DOMAIN rows
  PROVE  /\ id \in Nat \ {0} /\ id \in DOMAIN asked
         /\ rows[id] # Removed => rows[id] \in Value
         /\ asked[id] # Removed => asked[id] \in Value
BY DEF AdminTypes, Cell

\* What a merge leaves is a value.
LEMMA MergeValue ==
  ASSUME NEW row, NEW body, row.key \in A!Column(Keys), row.other \in A!Column(Others),
         body.key \in A!Column(Keys), body.other \in A!Column(Others)
  PROVE  A!Merge(row, body) \in Value
BY DEF A!Merge, Value

LEMMA CloseServes ==
  ASSUME NEW r \in Busy, A!Close(r)
  PROVE  Serves(r, Removed) /\ UNCHANGED kind
BY DEF A!Close, Serves

LEMMA StartServes ==
  ASSUME NEW r \in Requests, NEW q, A!Start(r, q)
  PROVE  Serves(r, q) /\ UNCHANGED kind
BY DEF A!Start, A!Open, Serves, Busy

\* Repository.save puts one row into the table, or is refused by a unique key.
Put(new, old, id, row) ==
  /\ DOMAIN new = DOMAIN old \cup {id}
  /\ new[id] = row
  /\ \A i \in DOMAIN old : i # id => new[i] = old[i]

Placed(old, id, row) == IF id = 0 THEN Append(old, row) ELSE [old EXCEPT ![id] = row]
PlaceOf(old, id)     == IF id = 0 THEN Len(old) + 1 ELSE id

LEMMA PutCell ==
  ASSUME NEW S, NEW s \in Seq(S), NEW row \in S, NEW id \in {0} \cup DOMAIN s
  PROVE  /\ Placed(s, id, row) \in Seq(S)
         /\ Put(Placed(s, id, row), s, PlaceOf(s, id), row)
         /\ Len(Placed(s, id, row)) = IF id = 0 THEN Len(s) + 1 ELSE Len(s)
<1>1. CASE id = 0
  BY <1>1 DEF Put, Placed, PlaceOf
<1>2. CASE id # 0
  <2>1. [s EXCEPT ![id] = row] \in Seq(S) /\ Len([s EXCEPT ![id] = row]) = Len(s)
    BY <1>2
  <2>2. QED
    BY <1>2, <2>1 DEF Put, Placed, PlaceOf
<1>3. QED
  BY <1>1, <1>2

LEMMA SaveEffect ==
  ASSUME AdminTypes, NEW r \in Busy, NEW id \in {0} \cup DOMAIN rows, NEW body \in Value,
         NEW wish \in Cell, NEW fresh \in BOOLEAN,
         A!Save(r, id, body, wish, fresh)
  PROVE  LET new == IF id \in A!Live THEN A!Merge(rows[id], body) ELSE body
         IN \/ /\ A!KeysAllow(id, new) /\ new \in Value
               /\ rows' \in Seq(Cell) /\ asked' \in Seq(Cell)
               /\ Len(rows') = Len(asked')
               /\ Put(rows', rows, PlaceOf(rows, id), new)
               /\ Put(asked', asked, PlaceOf(rows, id), wish)
               /\ stale' = IF fresh THEN stale ELSE stale \cup {id}
               /\ A!Close(r) /\ UNCHANGED refused
            \/ ~A!KeysAllow(id, new) /\ A!Duplicate(r, "database")
<1> DEFINE new == IF id \in A!Live THEN A!Merge(rows[id], body) ELSE body
<1>1. new \in Value
  <2>1. CASE id \in A!Live
    <3>1. rows[id] \in Value
      BY <2>1, RowCells DEF A!Live
    <3>2. QED
      BY <2>1, <3>1, MergeValue DEF Value
  <2>2. QED
    BY <2>1
<1>2. IF A!KeysAllow(id, new)
      THEN /\ rows' = Placed(rows, id, new) /\ asked' = Placed(asked, id, wish)
           /\ stale' = IF fresh THEN stale ELSE stale \cup {id}
           /\ A!Close(r) /\ UNCHANGED refused
      ELSE A!Duplicate(r, "database")
  BY DEF A!Save, A!NoId, Placed
<1> HIDE DEF new
<1>3. /\ Placed(rows, id, new) \in Seq(Cell)
      /\ Put(Placed(rows, id, new), rows, PlaceOf(rows, id), new)
      /\ Len(Placed(rows, id, new)) = IF id = 0 THEN Len(rows) + 1 ELSE Len(rows)
  <2>1. new \in Cell
    BY <1>1 DEF Cell
  <2>2. QED
    BY <2>1, PutCell DEF AdminTypes
<1>4. id \in {0} \cup DOMAIN asked /\ PlaceOf(asked, id) = PlaceOf(rows, id)
  BY RowCells DEF AdminTypes, PlaceOf
<1>5. /\ Placed(asked, id, wish) \in Seq(Cell)
      /\ Put(Placed(asked, id, wish), asked, PlaceOf(rows, id), wish)
      /\ Len(Placed(asked, id, wish)) = IF id = 0 THEN Len(rows) + 1 ELSE Len(rows)
  BY <1>4, PutCell DEF AdminTypes
<1>6. QED
  <2>1. CASE A!KeysAllow(id, new)
    BY <1>1, <1>2, <1>3, <1>5, <2>1 DEF new
  <2>2. CASE ~A!KeysAllow(id, new)
    BY <1>2, <2>2 DEF new
  <2>3. QED
    BY <2>1, <2>2

\* A row under a key that no other row has leaves the keys unique.
LEMMA PutKeepsKeys ==
  ASSUME AdminTypes, UniqueKeys, NEW id \in {0} \cup DOMAIN rows, NEW new,
         A!KeysAllow(id, new), UNCHANGED kind,
         Put(rows', rows, PlaceOf(rows, id), new)
  PROVE  UniqueKeys'
<1> DEFINE n == PlaceOf(rows, id)
<1>1. IF id = 0 THEN n \notin DOMAIN rows ELSE n = id
  BY DEF AdminTypes, PlaceOf
<1>2. \A i \in A!Live' : i = n \/ (i \in A!Live /\ i # id /\ rows'[i] = rows[i])
  <2>1. 0 \notin DOMAIN rows
    BY DEF AdminTypes
  <2>2. QED
    BY <1>1, <2>1 DEF A!Live, Put
<1>3. rows'[n] = new
  BY DEF Put
<1> HIDE DEF n
<1>4. QED
  BY <1>2, <1>3 DEF UniqueKeys, A!KeysAllow, A!SameKey

-----------------------------------------------------------------------------
\* A step that only moves the request.
LEMMA MoveKeeps ==
  ASSUME AdminInv, NEW s \in Requests, NEW q, Serves(s, q),
         q \in {Removed} \cup Creating \cup Updating \cup Merging \cup Removing,
         q # Removed => KnowsRows(q),
         q # Removed /\ s \notin crowded' => Validated(q),
         UNCHANGED <<kind, rows, asked, stale, refused>>
  PROVE  AdminInv'
<1>1. UniqueKeys' /\ A!RowsAreAsAsked' /\ A!DuplicatesAreTold'
  BY DEF AdminInv, UniqueKeys, A!Live, A!SameKey, A!RowsAreAsAsked, A!DuplicatesAreTold,
         A!PartOfPair
<1>2. rows' \in Seq(Cell) /\ asked' \in Seq(Cell) /\ Len(rows') = Len(asked')
  BY DEF AdminInv, AdminTypes
<1>3. QED
  BY <1>1, <1>2, ServingKeeps

\* A whole key that the validator did not find, or the key that the row has
\* already, is no duplicate in the row that the request wants.
LEMMA WantedIsAllowed ==
  ASSUME UniqueKeys, NEW q, q.body = q.id, ~A!PartOfPair(q), ~A!Taken(q)
  PROVE  A!KeysAllow(q.id, A!Wanted(q))
<1> SUFFICES ASSUME NEW i \in A!Live, i # q.id, A!SameKey(A!Wanted(q), rows[i]) PROVE FALSE
  BY DEF A!KeysAllow
<1>1. ~A!SameKey(q, rows[i])
  BY DEF A!Taken
<1>2. CASE q.id \notin A!Live
  <2>1. A!Wanted(q) = [key |-> q.key, other |-> q.other]
    BY <1>2 DEF A!Wanted
  <2>2. QED
    BY <1>1, <2>1 DEF A!SameKey
<1>3. CASE q.id \in A!Live
  <2>1. A!Wanted(q) = A!Merge(rows[q.id], q)
    BY <1>3 DEF A!Wanted
  <2>2. kind = "ibc" => (q.key = Removed <=> q.other = Removed)
    BY DEF A!PartOfPair
  <2>3. CASE q.key # Removed
    BY <1>1, <2>1, <2>2, <2>3 DEF A!SameKey, A!Merge
  <2>4. CASE q.key = Removed
    <3>1. A!SameKey(rows[q.id], rows[i])
      BY <2>1, <2>2, <2>4 DEF A!SameKey, A!Merge
    <3>2. QED
      BY <1>3, <3>1 DEF UniqueKeys
  <2>5. QED
    BY <2>3, <2>4
<1>4. QED
  BY <1>2, <1>3

\* A request that is told of a duplicate, which is true or excepted.
LEMMA DuplicateKeeps ==
  ASSUME AdminInv, NEW r \in Busy, NEW by, A!Duplicate(r, by),
         r \notin crowded /\ call[r].body = call[r].id =>
           /\ ~A!KeysAllow(call[r].id, A!Wanted(call[r]))
           /\ by = "validator" \/ A!PartOfPair(call[r])
  PROVE  AdminInv'
<1>1. /\ refused' = [q |-> call[r], by |-> by, alone |-> r \notin crowded,
                     taken |-> ~A!KeysAllow(call[r].id, A!Wanted(call[r]))]
      /\ A!Close(r) /\ UNCHANGED <<rows, asked, stale>>
  BY DEF A!Duplicate
<1>2. Serves(r, Removed) /\ UNCHANGED kind
  BY <1>1, CloseServes
<1>3. A!DuplicatesAreTold'
  BY <1>1, <1>2 DEF A!DuplicatesAreTold, A!PartOfPair
<1>4. UniqueKeys' /\ A!RowsAreAsAsked'
  BY <1>1, <1>2 DEF AdminInv, UniqueKeys, A!Live, A!SameKey, A!RowsAreAsAsked
<1>5. rows' \in Seq(Cell) /\ asked' \in Seq(Cell) /\ Len(rows') = Len(asked')
  BY <1>1 DEF AdminInv, AdminTypes
<1>6. r \in Requests /\ DOMAIN rows \subseteq DOMAIN rows'
  BY <1>1 DEF Busy
<1>7. QED
  BY <1>2, <1>3, <1>4, <1>5, <1>6, ServingKeeps

LEMMA AdminStartKeeps ==
  ASSUME AdminInv, NEW r \in Requests, A!Create(r) \/ A!Update(r) \/ A!Remove(r)
  PROVE  AdminInv'
<1> DOMAIN rows \subseteq Nat
  BY DEF AdminInv, AdminTypes
<1>1. CASE A!Create(r)
  <2>1. PICK id \in {0} \cup DOMAIN rows, k \in A!Column(Keys), other \in Others :
          A!Start(r, [op |-> "create", at |-> "validate", id |-> id, body |-> id, key |-> k,
                      other |-> other])
    BY <1>1 DEF A!Create, A!NoId
  <2> DEFINE q == [op |-> "create", at |-> "validate", id |-> id, body |-> id, key |-> k,
                   other |-> other]
  <2>2. q \in Creating
    BY DEF Creating, A!Column
  <2>3. KnowsRows(q) /\ Validated(q)
    BY DEF KnowsRows, Validated
  <2>4. Serves(r, q) /\ UNCHANGED <<kind, rows, asked, stale, refused>>
    BY <2>1, StartServes DEF A!Start
  <2> HIDE DEF q
  <2>5. QED
    BY <2>2, <2>3, <2>4, MoveKeeps
<1>2. CASE A!Update(r)
  <2>1. PICK id \in A!Live, body \in {0} \cup DOMAIN rows, k \in A!Column(Keys),
             other \in A!Column(Others) :
          A!Start(r, [op |-> "update", at |-> IF k = Removed THEN "find" ELSE "validate",
                      id |-> id, body |-> body, key |-> k, other |-> other])
    BY <1>2 DEF A!Update, A!NoId
  <2> DEFINE q == [op |-> "update", at |-> IF k = Removed THEN "find" ELSE "validate",
                   id |-> id, body |-> body, key |-> k, other |-> other]
  <2>2. q \in Updating
    BY DEF Updating, A!Live
  <2>3. KnowsRows(q) /\ Validated(q)
    BY <2>1 DEF KnowsRows, Validated, A!Live, A!Taken, A!SameKey
  <2>4. Serves(r, q) /\ UNCHANGED <<kind, rows, asked, stale, refused>>
    BY <2>1, StartServes DEF A!Start
  <2> HIDE DEF q
  <2>5. QED
    BY <2>2, <2>3, <2>4, MoveKeeps
<1>3. CASE A!Remove(r)
  <2>1. PICK id \in A!Live : A!Start(r, [op |-> "remove", at |-> "delete", id |-> id])
    BY <1>3 DEF A!Remove
  <2> DEFINE q == [op |-> "remove", at |-> "delete", id |-> id]
  <2>2. q \in Removing
    BY DEF Removing, A!Live
  <2>3. KnowsRows(q) /\ Validated(q)
    BY DEF KnowsRows, Validated, A!Live
  <2>4. Serves(r, q) /\ UNCHANGED <<kind, rows, asked, stale, refused>>
    BY <2>1, StartServes DEF A!Start
  <2> HIDE DEF q
  <2>5. QED
    BY <2>2, <2>3, <2>4, MoveKeeps
<1>4. QED
  BY <1>1, <1>2, <1>3

\* By the step it is at, a request has one of the shapes.
LEMMA AdminShapes ==
  ASSUME AdminInv, NEW r \in Requests, NEW op, NEW step, A!At(r, op, step)
  PROVE  /\ r \in Busy /\ KnowsRows(call[r])
         /\ op = "create" => call[r] \in Creating
         /\ op = "update" /\ step # "save" => call[r] \in Updating
         /\ op = "update" /\ step = "save" => call[r] \in Merging
         /\ op = "remove" => call[r] \in Removing
BY DEF AdminInv, AdminTypes, A!At, A!Open, Busy, Creating, Updating, Merging, Removing

\* A request that goes on is as crowded as before.
LEMMA ContinueServes ==
  ASSUME NEW r \in Busy, NEW q, A!Continue(r, q)
  PROVE  Serves(r, q) /\ UNCHANGED <<kind, rows, asked, stale, refused, crowded>>
BY DEF A!Continue, Serves

LEMMA AdminValidateKeeps ==
  ASSUME AdminInv, NEW r \in Requests, A!Validate(r)
  PROVE  AdminInv'
<1>1. PICK op \in {"create", "update"} :
        /\ A!At(r, op, "validate")
        /\ IF A!Taken(call[r])
           THEN A!Duplicate(r, "validator")
           ELSE A!Continue(r, [call[r] EXCEPT !.at = IF op = "create" THEN "save" ELSE "find"])
  BY DEF A!Validate
<1> DEFINE q == call[r]
<1>2. /\ r \in Busy /\ KnowsRows(q) /\ q.op = op /\ q.at = "validate"
      /\ op = "create" => q \in Creating
      /\ op = "update" => q \in Updating
  BY <1>1, AdminShapes DEF A!At
<1>3. CASE A!Taken(q)
  <2>1. PICK i \in A!Live \ {q.body} : A!SameKey(q, rows[i])
    BY <1>3 DEF A!Taken
  <2>2. A!SameKey(A!Wanted(q), rows[i])
    BY <2>1 DEF A!Wanted, A!Merge, A!SameKey
  <2>3. q.body = q.id => ~A!KeysAllow(q.id, A!Wanted(q))
    BY <2>1, <2>2 DEF A!KeysAllow
  <2>4. QED
    BY <1>1, <1>2, <1>3, <2>3, DuplicateKeeps
<1>4. CASE ~A!Taken(q)
  <2> DEFINE new == [q EXCEPT !.at = IF op = "create" THEN "save" ELSE "find"]
  <2>1. new \in Creating \cup Updating
    BY <1>1, <1>2 DEF Creating, Updating
  <2>2. /\ new.op = op /\ new.at = (IF op = "create" THEN "save" ELSE "find")
        /\ new.id = q.id /\ new.body = q.body /\ new.key = q.key /\ new.other = q.other
    BY <1>1, <1>2 DEF Creating, Updating
  <2>3. A!Continue(r, new)
    BY <1>1, <1>4
  <2> HIDE DEF new
  <2>4. KnowsRows(new)
    BY <1>1, <1>2, <2>2 DEF KnowsRows
  <2>5. Validated(new)
    BY <1>1, <1>4, <2>2 DEF Validated, A!Taken, A!SameKey
  <2>6. Serves(r, new) /\ UNCHANGED <<kind, rows, asked, stale, refused>>
    BY <1>2, <2>3, ContinueServes
  <2>7. QED
    BY <2>1, <2>4, <2>5, <2>6, MoveKeeps
<1>5. QED
  BY <1>3, <1>4

LEMMA FindKeeps ==
  ASSUME AdminInv, NEW r \in Requests, A!Find(r)
  PROVE  AdminInv'
<1> DEFINE q == call[r]
<1>1. r \in Busy /\ KnowsRows(q) /\ q \in Updating /\ q.at = "find"
  BY AdminShapes DEF A!Find, A!At
<1>2. CASE q.id \in A!Live
  <2> DEFINE new == [f \in DOMAIN q \cup {"found"} |->
                       IF f = "found" THEN rows[q.id] ELSE IF f = "at" THEN "save" ELSE q[f]]
  <2>1. A!Continue(r, new)
    BY <1>2 DEF A!Find
  <2>2. rows[q.id] \in Value /\ rows[q.id] # Removed /\ q.id \in DOMAIN rows
    BY <1>2, RowCells DEF AdminInv, A!Live
  <2>3. DOMAIN q = {"op", "at", "id", "body", "key", "other"}
    BY <1>1 DEF Updating
  <2>4. new = [op |-> "update", at |-> "save", id |-> q.id, body |-> q.body, key |-> q.key,
               other |-> q.other, found |-> rows[q.id]]
    BY <1>1, <2>3 DEF Updating
  <2> HIDE DEF new
  <2>5. new \in Merging
    BY <1>1, <2>2, <2>4 DEF Updating, Merging
  <2>6. KnowsRows(new)
    BY <1>1, <2>2, <2>4 DEF KnowsRows, Updating
  <2>7. Serves(r, new) /\ UNCHANGED <<kind, rows, asked, stale, refused, crowded>>
    BY <1>1, <2>1, ContinueServes
  <2>8. r \notin crowded' => Validated(new)
    <3>1. r \notin crowded => ~A!Taken(q)
      BY <1>1 DEF AdminInv, Validated, Updating
    <3>2. QED
      BY <2>4, <2>7, <3>1 DEF Validated, A!Taken, A!SameKey
  <2>9. QED
    BY <2>5, <2>6, <2>7, <2>8, MoveKeeps DEF Busy
<1>3. CASE q.id \notin A!Live
  <2>1. A!NotFound(r)
    BY <1>3 DEF A!Find
  <2>2. Serves(r, Removed) /\ UNCHANGED <<kind, rows, asked, stale, refused>>
    BY <1>1, <2>1, CloseServes DEF A!NotFound
  <2>3. QED
    BY <2>2, MoveKeeps
<1>4. QED
  BY <1>2, <1>3

-----------------------------------------------------------------------------
\* What is saved under an id: the body, merged into the row if there is one.
Written(id, body) == IF id \in A!Live THEN A!Merge(rows[id], body) ELSE body

\* A save keeps the invariant if what it writes is what was asked for, or the
\* row is known not to be, and if a request that is alone writes what it wants.
LEMMA SavingKeeps ==
  ASSUME AdminInv, NEW r \in Busy, NEW id \in {0} \cup DOMAIN rows, NEW body \in Value,
         NEW wish \in Cell, NEW fresh \in BOOLEAN,
         A!Save(r, id, body, wish, fresh),
         wish # Written(id, body) => id # 0 /\ (id \in stale \/ ~fresh),
         r \notin crowded =>
           id = call[r].id /\ Written(id, body) = A!Wanted(call[r]) /\ ~A!Taken(call[r])
  PROVE  AdminInv'
<1> DEFINE new == Written(id, body)
           n   == PlaceOf(rows, id)
<1>1. \/ /\ A!KeysAllow(id, new) /\ new \in Value
         /\ rows' \in Seq(Cell) /\ asked' \in Seq(Cell) /\ Len(rows') = Len(asked')
         /\ Put(rows', rows, n, new) /\ Put(asked', asked, n, wish)
         /\ stale' = IF fresh THEN stale ELSE stale \cup {id}
         /\ A!Close(r) /\ UNCHANGED refused
      \/ ~A!KeysAllow(id, new) /\ A!Duplicate(r, "database")
  BY SaveEffect DEF AdminInv, Written
<1> HIDE DEF new
<1>2. CASE ~A!KeysAllow(id, new)
  <2>1. A!Duplicate(r, "database")
    BY <1>1, <1>2
  <2>2. r \notin crowded =>
          ~A!KeysAllow(call[r].id, A!Wanted(call[r])) /\ ~A!Taken(call[r])
    BY <1>2 DEF new
  <2>3. QED
    BY <2>1, <2>2, WantedIsAllowed, DuplicateKeeps DEF AdminInv
<1>3. CASE A!KeysAllow(id, new)
  <2>0. r \in Requests /\ Serves(r, Removed) /\ UNCHANGED kind
    BY <1>1, <1>3, CloseServes DEF Busy
  <2>1. UniqueKeys'
    BY <1>1, <1>3, <2>0, PutKeepsKeys DEF AdminInv
  <2>2. A!DuplicatesAreTold'
    BY <1>1, <1>3, <2>0 DEF AdminInv, A!DuplicatesAreTold, A!PartOfPair
  <2>3. A!RowsAreAsAsked'
    <3>1. DOMAIN asked = DOMAIN rows
      BY DEF AdminInv, AdminTypes
    <3>2. ASSUME NEW i \in DOMAIN rows', rows'[i] # asked'[i] PROVE i \in stale'
      <4>1. CASE i = n
        <5>1. wish # new
          BY <1>1, <1>3, <3>2, <4>1 DEF Put
        <5>2. id # 0 /\ n = id /\ (id \in stale \/ ~fresh)
          BY <5>1 DEF new, PlaceOf
        <5>3. QED
          BY <1>1, <1>3, <4>1, <5>2
      <4>2. CASE i # n
        <5>1. i \in DOMAIN rows /\ rows'[i] = rows[i] /\ asked'[i] = asked[i]
          BY <1>1, <1>3, <3>1, <4>2 DEF Put
        <5>2. i \in stale
          BY <3>2, <5>1 DEF AdminInv, A!RowsAreAsAsked
        <5>3. QED
          BY <1>1, <1>3, <5>2
      <4>3. QED
        BY <4>1, <4>2
    <3>3. QED
      BY <3>2 DEF A!RowsAreAsAsked
  <2>5. DOMAIN rows \subseteq DOMAIN rows'
    BY <1>1, <1>3 DEF Put
  <2>6. QED
    BY <1>1, <1>3, <2>0, <2>1, <2>2, <2>3, <2>5, ServingKeeps
<1>4. QED
  BY <1>2, <1>3

\* A row whose wish is none differs from it unless it is none itself.
LEMMA NotStale ==
  ASSUME AdminInv, NEW id \in DOMAIN rows, id \notin stale
  PROVE  rows[id] = asked[id]
BY DEF AdminInv, A!RowsAreAsAsked

LEMMA SaveNewKeeps ==
  ASSUME AdminInv, NEW r \in Requests, A!SaveNew(r)
  PROVE  AdminInv'
<1> DEFINE q    == call[r]
           row  == [key |-> q.key, other |-> q.other]
           wish == IF q.id \in A!Live /\ asked[q.id] # Removed
                   THEN A!Merge(asked[q.id], row) ELSE row
<1>1. r \in Busy /\ KnowsRows(q) /\ q \in Creating /\ q.op = "create" /\ q.at = "save"
  BY AdminShapes DEF A!SaveNew, A!At
<1>2. A!Save(r, q.id, row, wish, TRUE)
  BY DEF A!SaveNew
<1>3. row \in Value /\ row.key = q.key /\ row.other = q.other
  BY <1>1 DEF Creating, Value
<1>4. q.id \in {0} \cup DOMAIN rows /\ q.body = q.id
  BY <1>1 DEF KnowsRows
<1>5. 0 \notin A!Live
  BY DEF AdminInv, AdminTypes, A!Live
<1> HIDE DEF row
<1>6. wish \in Cell /\ (wish # Written(q.id, row) => q.id # 0 /\ q.id \in stale)
  <2>1. CASE q.id \in A!Live
    <3>1. rows[q.id] \in Value /\ rows[q.id] # Removed /\ q.id \in DOMAIN rows
      BY <1>4, <2>1, RowCells DEF AdminInv, A!Live
    <3>2. CASE q.id \in stale
      <4>1. asked[q.id] # Removed => A!Merge(asked[q.id], row) \in Value
        BY <1>3, <3>1, RowCells, MergeValue DEF AdminInv, Value
      <4>2. QED
        BY <1>3, <1>5, <2>1, <3>2, <4>1 DEF Cell
    <3>3. CASE q.id \notin stale
      <4>1. rows[q.id] = asked[q.id]
        BY <3>1, <3>3, NotStale
      <4>2. wish = Written(q.id, row)
        BY <2>1, <3>1, <4>1 DEF Written
      <4>3. wish \in Value
        BY <1>3, <2>1, <3>1, <4>1, MergeValue DEF Value
      <4>4. QED
        BY <4>2, <4>3 DEF Cell
    <3>4. QED
      BY <3>2, <3>3
  <2>2. CASE q.id \notin A!Live
    BY <1>3, <2>2 DEF Written, Cell
  <2>3. QED
    BY <2>1, <2>2
<1>7. r \notin crowded => Written(q.id, row) = A!Wanted(q) /\ ~A!Taken(q)
  <2>1. r \notin crowded => ~A!Taken(q)
    BY <1>1 DEF AdminInv, Validated
  <2>2. Written(q.id, row) = A!Wanted(q)
    BY <1>3 DEF Written, A!Wanted, A!Merge, row
  <2>3. QED
    BY <2>1, <2>2
<1> HIDE DEF wish
<1>8. QED
  BY <1>1, <1>2, <1>3, <1>4, <1>6, <1>7, SavingKeeps

LEMMA SaveUpdatedKeeps ==
  ASSUME AdminInv, NEW r \in Requests, A!SaveUpdated(r)
  PROVE  AdminInv'
<1> DEFINE q     == call[r]
           body  == A!Merged(q)
           wish  == IF asked[q.id] = Removed THEN Removed ELSE A!Merge(asked[q.id], q)
           fresh == q.found = rows[q.id]
<1>1. r \in Busy /\ KnowsRows(q) /\ q \in Merging /\ q.op = "update" /\ q.at = "save"
  BY AdminShapes DEF A!SaveUpdated, A!At
<1>2. A!Save(r, q.id, body, wish, fresh)
  BY DEF A!SaveUpdated
<1>3. q.id \in DOMAIN rows /\ q.id # 0 /\ q.found # Removed /\ q.found \in Value
  BY <1>1 DEF KnowsRows, Merging, AdminInv, AdminTypes
<1>4. body \in Value
  BY <1>1, MergeValue DEF A!Merged, Merging, Value
<1>5. wish \in Cell
  <2>1. CASE asked[q.id] = Removed
    BY <2>1 DEF Cell
  <2>2. CASE asked[q.id] # Removed
    <3>1. asked[q.id] \in Value
      BY <1>3, <2>2, RowCells DEF AdminInv
    <3>2. QED
      BY <1>1, <2>2, <3>1, MergeValue DEF Cell, Value, Merging
  <2>3. QED
    BY <2>1, <2>2
<1>6. wish # Written(q.id, body) => q.id \in stale \/ ~fresh
  <2> SUFFICES ASSUME q.id \notin stale, fresh PROVE wish = Written(q.id, body)
    OBVIOUS
  <2>1. rows[q.id] = asked[q.id] /\ rows[q.id] = q.found
    BY <1>3, NotStale
  <2>2. q.id \in A!Live
    BY <1>3, <2>1 DEF A!Live
  <2>3. Written(q.id, body) = A!Merge(q.found, A!Merge(q.found, q))
    BY <2>1, <2>2 DEF Written, A!Merged
  <2>4. wish = A!Merge(q.found, q)
    BY <1>3, <2>1
  <2>5. QED
    BY <2>3, <2>4 DEF A!Merge
<1>7. r \notin crowded => Written(q.id, body) = A!Wanted(q) /\ ~A!Taken(q)
  <2> SUFFICES ASSUME r \notin crowded
               PROVE  Written(q.id, body) = A!Wanted(q) /\ ~A!Taken(q)
    OBVIOUS
  <2>1. ~A!Taken(q) /\ rows[q.id] = q.found
    BY <1>1 DEF AdminInv, Validated
  <2>2. q.id \in A!Live
    BY <1>3, <2>1 DEF A!Live
  <2>3. A!Merge(q.found, A!Merge(q.found, q)) = A!Merge(q.found, q)
    BY DEF A!Merge
  <2>4. QED
    BY <2>1, <2>2, <2>3 DEF Written, A!Wanted, A!Merged
<1>8. fresh \in BOOLEAN
  OBVIOUS
<1> HIDE DEF body, wish, fresh
<1>9. QED
  BY <1>1, <1>2, <1>3, <1>4, <1>5, <1>6, <1>7, <1>8, SavingKeeps

LEMMA DeleteKeeps ==
  ASSUME AdminInv, NEW r \in Requests, A!Delete(r)
  PROVE  AdminInv'
<1> DEFINE id == call[r].id
<1>1. r \in Busy /\ id \in DOMAIN rows
  <2>1. A!At(r, "remove", "delete")
    BY DEF A!Delete
  <2>2. r \in Busy /\ KnowsRows(call[r]) /\ call[r].op = "remove"
    BY <2>1, AdminShapes DEF A!At
  <2>3. QED
    BY <2>2 DEF KnowsRows
<1>2. /\ rows' = [rows EXCEPT ![id] = Removed] /\ asked' = [asked EXCEPT ![id] = Removed]
      /\ stale' = stale \ {id} /\ A!Close(r) /\ UNCHANGED refused
  BY DEF A!Delete
<1>3. /\ rows' \in Seq(Cell) /\ asked' \in Seq(Cell) /\ Len(rows') = Len(asked')
      /\ DOMAIN rows' = DOMAIN rows /\ rows'[id] = Removed /\ asked'[id] = Removed
      /\ \A i \in DOMAIN rows : i # id => rows'[i] = rows[i] /\ asked'[i] = asked[i]
  <2>1. Removed \in Cell
    BY DEF Cell
  <2>2. id \in DOMAIN asked
    BY <1>1, RowCells DEF AdminInv
  <2> HIDE DEF id
  <2>3. QED
    BY <1>1, <1>2, <2>1, <2>2 DEF AdminInv, AdminTypes
<1> HIDE DEF id
<1>5. r \in Requests /\ Serves(r, Removed) /\ UNCHANGED kind
  BY <1>1, <1>2, CloseServes DEF Busy
<1>4. UniqueKeys' /\ A!RowsAreAsAsked' /\ A!DuplicatesAreTold'
  BY <1>2, <1>3, <1>5 DEF AdminInv, UniqueKeys, A!Live, A!SameKey, A!RowsAreAsAsked,
                          A!DuplicatesAreTold, A!PartOfPair
<1>6. QED
  BY <1>3, <1>4, <1>5, ServingKeeps

LEMMA AdminInductive == AdminInv /\ [A!Next]_(A!vars) => AdminInv'
<1> SUFFICES ASSUME AdminInv, [A!Next]_(A!vars) PROVE AdminInv'
  OBVIOUS
<1>1. CASE UNCHANGED A!vars
  BY <1>1 DEF A!vars, AdminInv, AdminTypes, UniqueKeys, A!Live, AloneIsOnly, Busy, KnowsRows,
              Validated, A!Taken, A!SameKey, A!PartOfPair, A!RowsAreAsAsked,
              A!DuplicatesAreTold
<1>2. ASSUME NEW r \in Requests, A!Step(r) PROVE AdminInv'
  BY <1>2, AdminStartKeeps, AdminValidateKeeps, FindKeeps, SaveNewKeeps, SaveUpdatedKeeps,
     DeleteKeeps DEF A!Step
<1>3. QED
  BY <1>1, <1>2 DEF A!Next, A!Quiet

LEMMA AdminStarts == RecordsInit /\ part = "admin" => AdminInv
<1> SUFFICES ASSUME A!Init PROVE AdminInv
  BY DEF RecordsInit
<1>1. AdminTypes /\ Busy = {}
  BY DEF A!Init, AdminTypes, Busy
<1>2. QED
  BY <1>1 DEF A!Init, AdminInv, UniqueKeys, A!Live, AloneIsOnly, A!RowsAreAsAsked,
              A!DuplicatesAreTold

LEMMA AdminKept == RecordsSpec => [](part = "admin" => AdminInv)
<1> DEFINE Kept == part = "admin" => AdminInv
<1>1. RecordsInit => Kept
  BY AdminStarts
<1>2. Kept /\ [RecordsNext]_allVars => Kept'
  BY AdminInductive DEF RecordsNext, allVars, callVars, adminVars, A!vars, Called
<1>3. QED
  BY <1>1, <1>2, PTL DEF RecordsSpec

\* For any number of administrators and records: a row is what the requests
\* asked for unless one was saved from a copy that was out of date
\* (Cw20TokenService, ChainInfoService, the validators).
THEOREM RecordsAreAsAsked == RecordsSpec => []RowsAreAsAsked
<1>1. (part = "admin" => AdminInv) => RowsAreAsAsked
  BY DEF RowsAreAsAsked, AdminInv
<1>2. QED
  BY <1>1, AdminKept, PTL

\* And what an administrator who is alone is told of duplicates is true if the
\* body names the id in the path, and comes from the validator unless the body
\* names one column only of the pair of an ibc token.
THEOREM DuplicatesToldTrue == RecordsSpec => []DuplicatesAreTold
<1>1. (part = "admin" => AdminInv) => DuplicatesAreTold
  BY DEF DuplicatesAreTold, AdminInv
<1>2. QED
  BY <1>1, AdminKept, PTL

-----------------------------------------------------------------------------
(* PublicNameTags: which errors of the database an administrator meets.    *)

Adding   == [op : {"create"}, at : {"address", "name", "write"}, id : Int, row : T!Row]
Renaming == [op : {"update"}, at : {"name", "write"}, id : Nat, row : T!Row]
TagCell  == T!Row \cup {Removed}

TagTypes ==
  /\ tags \in Seq(TagCell)
  /\ call \in [Requests -> {Removed} \cup Adding \cup Renaming]

\* What the lookups found holds as long as the request is alone.
Passed(q) ==
  /\ q.op = "create" /\ q.at \in {"name", "write"} => ~T!AddressTaken(q)
  /\ q.at = "write" => ~T!NameTaken(q)

UniqueTags ==
  \A i, j \in T!Live :
    tags[i].address = tags[j].address
      \/ (tags[i].name = tags[j].name /\ tags[i].explorer = tags[j].explorer) => i = j

TagInv ==
  /\ TagTypes /\ UniqueTags /\ AloneIsOnly /\ T!KeyErrorsAreKnown
  /\ \A r \in Busy : call[r].op = "update" => call[r].id \in DOMAIN tags
  /\ \A r \in Busy : r \notin crowded => Passed(call[r])

\* A step of the request of s keeps what the others rest on.
LEMMA TagServingKeeps ==
  ASSUME TagInv, NEW s \in Requests, NEW q, Serves(s, q),
         q \in {Removed} \cup Adding \cup Renaming,
         tags' \in Seq(TagCell), DOMAIN tags \subseteq DOMAIN tags',
         q # Removed => UNCHANGED tags /\ (q.op = "update" => q.id \in DOMAIN tags),
         q # Removed /\ s \notin crowded' => Passed(q),
         UniqueTags', T!KeyErrorsAreKnown'
  PROVE  TagInv'
<1>1. TagTypes'
  BY DEF TagInv, TagTypes, Serves
<1>2. AloneIsOnly' /\ \A r \in Busy' : r \notin crowded' => r = s
  BY AloneActs DEF TagInv, TagTypes
<1>3. call'[s] = q
  BY DEF TagInv, TagTypes, Serves
<1>4. ASSUME NEW r \in Busy', call'[r].op = "update" PROVE call'[r].id \in DOMAIN tags'
  <2>1. CASE r = s
    BY <1>3, <1>4, <2>1 DEF Busy
  <2>2. CASE r # s
    <3>1. call'[r] = call[r] /\ r \in Busy
      BY <2>2 DEF TagInv, TagTypes, Serves, Busy
    <3>2. QED
      BY <1>4, <3>1 DEF TagInv
  <2>3. QED
    BY <2>1, <2>2
<1>5. ASSUME NEW r \in Busy', r \notin crowded' PROVE Passed(call[r])'
  <2>1. r = s /\ q # Removed
    BY <1>2, <1>3, <1>5 DEF Busy
  <2>2. Passed(q) /\ UNCHANGED tags
    BY <1>5, <2>1
  <2>3. QED
    BY <1>3, <2>1, <2>2 DEF Passed, T!AddressTaken, T!NameTaken, T!Live
<1>6. QED
  BY <1>1, <1>2, <1>4, <1>5 DEF TagInv

\* A step that only moves the request.
LEMMA TagMoveKeeps ==
  ASSUME TagInv, NEW s \in Requests, NEW q, Serves(s, q),
         q \in {Removed} \cup Adding \cup Renaming,
         q # Removed /\ q.op = "update" => q.id \in DOMAIN tags,
         q # Removed /\ s \notin crowded' => Passed(q),
         UNCHANGED <<tags, keyError>>
  PROVE  TagInv'
<1>1. UniqueTags' /\ T!KeyErrorsAreKnown'
  BY DEF TagInv, UniqueTags, T!Live, T!KeyErrorsAreKnown
<1>2. tags' \in Seq(TagCell)
  BY DEF TagInv, TagTypes
<1>3. QED
  BY <1>1, <1>2, TagServingKeeps

LEMMA TagServes ==
  ASSUME NEW r \in Requests
  PROVE  /\ \A q : T!Start(r, q) => Serves(r, q)
         /\ r \in Busy /\ T!Finish(r) => Serves(r, Removed)
         /\ \A step : r \in Busy /\ T!Continue(r, step) =>
              Serves(r, [call[r] EXCEPT !.at = step])
<1>1. ASSUME NEW step, r \in Busy, T!Continue(r, step)
      PROVE  Serves(r, [call[r] EXCEPT !.at = step])
  BY <1>1 DEF T!Continue, Serves
<1>2. QED
  BY <1>1 DEF T!Start, T!Open, T!Finish, Serves, Busy

\* By the step it is at, a request has one of the shapes.
LEMMA TagShapes ==
  ASSUME TagInv, NEW r \in Requests, NEW op, NEW step, T!At(r, op, step)
  PROVE  /\ r \in Busy /\ call[r].op = op /\ call[r].at = step
         /\ op = "create" => call[r] \in Adding
         /\ op = "update" => call[r] \in Renaming /\ call[r].id \in DOMAIN tags
BY DEF TagInv, TagTypes, T!At, T!Open, Busy, Adding, Renaming

LEMMA TagStartKeeps ==
  ASSUME TagInv, NEW r \in Requests, T!Create(r) \/ T!Update(r)
  PROVE  TagInv'
<1> DOMAIN tags \subseteq Nat
  BY DEF TagInv, TagTypes
<1>1. CASE T!Create(r)
  <2>1. PICK row \in T!Row, id \in {-1, 0} \cup DOMAIN tags :
          T!Start(r, [op |-> "create", at |-> "address", id |-> id, row |-> row])
    BY <1>1 DEF T!Create, T!NoId
  <2> DEFINE q == [op |-> "create", at |-> "address", id |-> id, row |-> row]
  <2>2. q \in Adding /\ q.op = "create" /\ Passed(q)
    BY DEF Adding, Passed
  <2>3. Serves(r, q) /\ UNCHANGED <<tags, keyError>>
    BY <2>1, TagServes DEF T!Start
  <2> HIDE DEF q
  <2>4. QED
    BY <2>2, <2>3, TagMoveKeeps
<1>2. CASE T!Update(r)
  <2>1. PICK id \in T!Live, e \in Explorers, n \in Names :
          T!Start(r, [op |-> "update", at |-> "name", id |-> id,
                      row |-> [explorer |-> e, address |-> tags[id].address, name |-> n]])
    BY <1>2 DEF T!Update
  <2> DEFINE q == [op |-> "update", at |-> "name", id |-> id,
                   row |-> [explorer |-> e, address |-> tags[id].address, name |-> n]]
  <2>2. id \in DOMAIN tags /\ tags[id] \in T!Row
    BY DEF T!Live, TagInv, TagTypes, TagCell
  <2>3. q \in Renaming /\ q.id \in DOMAIN tags /\ Passed(q)
    BY <2>2 DEF Renaming, Passed, T!Row
  <2>4. Serves(r, q) /\ UNCHANGED <<tags, keyError>>
    BY <2>1, TagServes DEF T!Start
  <2> HIDE DEF q
  <2>5. QED
    BY <2>3, <2>4, TagMoveKeeps
<1>3. QED
  BY <1>1, <1>2

LEMMA RefuseKeeps ==
  ASSUME TagInv, NEW r \in Busy, T!Refuse(r)
  PROVE  TagInv'
<1>1. r \in Requests /\ Serves(r, Removed) /\ UNCHANGED <<tags, keyError>>
  BY TagServes DEF T!Refuse, Busy
<1>2. QED
  BY <1>1, TagMoveKeeps

LEMMA LookupKeeps ==
  ASSUME TagInv, NEW r \in Requests, T!FindAddress(r) \/ T!FindName(r)
  PROVE  TagInv'
<1> DEFINE q == call[r]
<1>1. CASE T!FindAddress(r)
  <2>1. r \in Busy /\ q \in Adding /\ q.op = "create" /\ q.at = "address"
    BY <1>1, TagShapes DEF T!FindAddress
  <2>2. CASE T!AddressTaken(q)
    BY <1>1, <2>1, <2>2, RefuseKeeps DEF T!FindAddress
  <2>3. CASE ~T!AddressTaken(q)
    <3> DEFINE new == [q EXCEPT !.at = "name"]
    <3>1. T!Continue(r, "name")
      BY <1>1, <2>3 DEF T!FindAddress
    <3>2. Serves(r, new) /\ UNCHANGED <<tags, keyError>>
      BY <2>1, <3>1, TagServes DEF T!Continue
    <3>3. new \in Adding /\ new.op = "create" /\ new.at = "name" /\ new.row = q.row
      BY <2>1 DEF Adding
    <3> HIDE DEF new
    <3>4. Passed(new)
      BY <2>3, <3>3 DEF Passed, T!AddressTaken
    <3>5. QED
      BY <3>2, <3>3, <3>4, TagMoveKeeps
  <2>4. QED
    BY <2>2, <2>3
<1>2. CASE T!FindName(r)
  <2>1. PICK op \in {"create", "update"} : T!At(r, op, "name")
    BY <1>2 DEF T!FindName
  <2>2. /\ r \in Busy /\ q.op = op /\ q.at = "name"
        /\ op = "create" => q \in Adding
        /\ op = "update" => q \in Renaming /\ q.id \in DOMAIN tags
    BY <2>1, TagShapes
  <2>3. CASE T!NameTaken(q)
    BY <1>2, <2>2, <2>3, RefuseKeeps DEF T!FindName
  <2>4. CASE ~T!NameTaken(q)
    <3> DEFINE new == [q EXCEPT !.at = "write"]
    <3>1. T!Continue(r, "write")
      BY <1>2, <2>4 DEF T!FindName
    <3>2. Serves(r, new) /\ UNCHANGED <<tags, keyError, crowded>>
      BY <2>2, <3>1, TagServes DEF T!Continue
    <3>3. /\ new \in Adding \cup Renaming /\ new.op = op /\ new.at = "write"
          /\ new.row = q.row /\ new.id = q.id
      BY <2>1, <2>2 DEF Adding, Renaming
    <3> HIDE DEF new
    <3>4. r \notin crowded' => Passed(new)
      <4>1. r \notin crowded /\ op = "create" => ~T!AddressTaken(q)
        BY <2>2 DEF TagInv, Passed
      <4>2. QED
        BY <2>4, <3>2, <3>3, <4>1 DEF Passed, T!AddressTaken, T!NameTaken
    <3>5. QED
      BY <2>2, <3>2, <3>3, <3>4, TagMoveKeeps
  <2>5. QED
    BY <2>3, <2>4
<1>3. QED
  BY <1>1, <1>2

-----------------------------------------------------------------------------
\* A write keeps the invariant if a request that is alone is refused by a key
\* only for the known reasons.
LEMMA TagWriteKeeps ==
  ASSUME TagInv, NEW r \in Busy, NEW id \in {0} \cup DOMAIN tags, NEW new \in T!Row,
         T!Write(r, id, new, Placed(tags, id, new)),
         r \notin crowded /\ ~T!KeysAllow(id, new) =>
           IF call[r].op = "create" THEN call[r].id # 0 ELSE call[r].row.explorer # new.explorer
  PROVE  TagInv'
<1>1. r \in Requests /\ Serves(r, Removed)
  BY TagServes DEF T!Write, Busy
<1>2. CASE T!KeysAllow(id, new)
  <2>1. tags' = Placed(tags, id, new) /\ UNCHANGED keyError
    BY <1>2 DEF T!Write
  <2>2. tags' \in Seq(TagCell) /\ Put(tags', tags, PlaceOf(tags, id), new)
    <3>1. new \in TagCell
      BY DEF TagCell
    <3>2. QED
      BY <2>1, <3>1, PutCell DEF TagInv, TagTypes
  <2>3. IF id = 0 THEN PlaceOf(tags, id) \notin DOMAIN tags ELSE PlaceOf(tags, id) = id
    BY DEF TagInv, TagTypes, PlaceOf
  <2> DEFINE n == PlaceOf(tags, id)
  <2> HIDE DEF n
  <2>4. \A i \in T!Live' : i = n \/ (i \in T!Live /\ i # id /\ tags'[i] = tags[i])
    <3>1. 0 \notin DOMAIN tags
      BY DEF TagInv, TagTypes
    <3>2. QED
      BY <2>2, <2>3, <3>1 DEF T!Live, Put, n
  <2>5. tags'[n] = new
    BY <2>2 DEF Put, n
  <2>6. \A i \in T!Live \ {id} :
          /\ tags[i].address # new.address
          /\ ~(tags[i].name = new.name /\ tags[i].explorer = new.explorer)
    BY <1>2 DEF T!KeysAllow
  <2>7. UniqueTags'
    BY <2>4, <2>5, <2>6 DEF TagInv, UniqueTags
  <2>8. T!KeyErrorsAreKnown'
    BY <2>1 DEF TagInv, T!KeyErrorsAreKnown
  <2>9. DOMAIN tags \subseteq DOMAIN tags'
    BY <2>2 DEF Put
  <2>10. QED
    BY <1>1, <2>2, <2>7, <2>8, <2>9, TagServingKeeps
<1>3. CASE ~T!KeysAllow(id, new)
  <2>1. /\ keyError' = [q |-> call[r], explorer |-> new.explorer, alone |-> r \notin crowded]
        /\ UNCHANGED tags
    BY <1>3 DEF T!Write
  <2>2. T!KeyErrorsAreKnown'
    BY <1>3, <2>1 DEF T!KeyErrorsAreKnown
  <2>3. UniqueTags' /\ tags' \in Seq(TagCell)
    BY <2>1 DEF TagInv, TagTypes, UniqueTags, T!Live
  <2>4. QED
    BY <1>1, <2>1, <2>2, <2>3, TagServingKeeps
<1>4. QED
  BY <1>2, <1>3

LEMMA TagSaveKeeps ==
  ASSUME TagInv, NEW r \in Requests, T!Save(r)
  PROVE  TagInv'
<1> DEFINE q == call[r]
<1>1. r \in Busy /\ q \in Adding /\ q.op = "create" /\ q.at = "write"
  BY TagShapes DEF T!Save
<1>2. q.row \in T!Row /\ T!Write(r, 0, q.row, Placed(tags, 0, q.row))
  BY <1>1 DEF T!Save, Adding, Placed
<1>3. r \notin crowded /\ ~T!KeysAllow(0, q.row) => q.id # 0
  <2> SUFFICES ASSUME r \notin crowded, q.id = 0 PROVE T!KeysAllow(0, q.row)
    OBVIOUS
  <2>1. ~T!AddressTaken(q) /\ ~T!NameTaken(q)
    BY <1>1 DEF TagInv, Passed
  <2>2. \A i \in T!Live : T!DifferentFrom(i, q.id)
    BY DEF T!DifferentFrom, T!NoId, T!Live, TagInv, TagTypes
  <2>3. QED
    BY <2>1, <2>2 DEF T!AddressTaken, T!NameTaken, T!KeysAllow
<1>4. QED
  BY <1>1, <1>2, <1>3, TagWriteKeeps

LEMMA RenameKeeps ==
  ASSUME TagInv, NEW r \in Requests, T!Rename(r)
  PROVE  TagInv'
<1> DEFINE q   == call[r]
           row == [tags[q.id] EXCEPT !.name = q.row.name]
<1>1. /\ r \in Busy /\ q \in Renaming /\ q.op = "update" /\ q.at = "write"
      /\ q.id \in DOMAIN tags /\ q.id # 0 /\ q.id \in Nat
  BY TagShapes DEF T!Rename, TagInv, TagTypes
<1>2. CASE tags[q.id] = Removed
  BY <1>1, <1>2, RefuseKeeps DEF T!Rename
<1>3. CASE tags[q.id] # Removed
  <2>1. tags[q.id] \in T!Row /\ q.row \in T!Row
    BY <1>1, <1>3 DEF TagInv, TagTypes, TagCell, Renaming
  <2>2. /\ row \in T!Row /\ row.name = q.row.name
        /\ row.explorer = tags[q.id].explorer /\ row.address = tags[q.id].address
    BY <2>1 DEF T!Row
  <2>3. T!Write(r, q.id, row, Placed(tags, q.id, row))
    BY <1>1, <1>3 DEF T!Rename, Placed
  <2> HIDE DEF row
  <2>4. r \notin crowded /\ ~T!KeysAllow(q.id, row) => q.row.explorer # row.explorer
    <3> SUFFICES ASSUME r \notin crowded, q.row.explorer = row.explorer
                 PROVE  T!KeysAllow(q.id, row)
      OBVIOUS
    <3>1. ~T!NameTaken(q)
      BY <1>1 DEF TagInv, Passed
    <3>2. q.id \in T!Live
      BY <1>1, <1>3 DEF T!Live
    <3>3. ASSUME NEW i \in T!Live \ {q.id}
          PROVE  /\ tags[i].address # row.address
                 /\ ~(tags[i].name = row.name /\ tags[i].explorer = row.explorer)
      <4>1. T!DifferentFrom(i, q.id)
        BY <1>1, <3>3 DEF T!DifferentFrom, T!NoId
      <4>2. QED
        BY <2>2, <3>1, <3>2, <3>3, <4>1 DEF T!NameTaken, TagInv, UniqueTags
    <3>4. QED
      BY <3>3 DEF T!KeysAllow
  <2>5. QED
    BY <1>1, <2>2, <2>3, <2>4, TagWriteKeeps
<1>4. QED
  BY <1>2, <1>3

\* A tag that is deleted takes no key from others.
LEMMA TagDeleteKeeps ==
  ASSUME TagInv, T!Delete
  PROVE  TagInv'
<1>1. PICK id \in T!Live : tags' = [tags EXCEPT ![id] = Removed]
  BY DEF T!Delete
<1>2. UNCHANGED <<call, calls, crowded, keyError>>
  BY DEF T!Delete
<1>3. /\ tags' \in Seq(TagCell) /\ DOMAIN tags' = DOMAIN tags
      /\ T!Live' \subseteq T!Live
      /\ \A i \in T!Live' : tags'[i] = tags[i]
  <2>1. Removed \in TagCell /\ id \in DOMAIN tags
    BY DEF TagCell, T!Live
  <2>2. tags' \in Seq(TagCell) /\ DOMAIN tags' = DOMAIN tags
    BY <1>1, <2>1 DEF TagInv, TagTypes
  <2>3. QED
    BY <1>1, <2>1, <2>2 DEF T!Live
<1>4. TagTypes' /\ AloneIsOnly' /\ T!KeyErrorsAreKnown'
  BY <1>2, <1>3 DEF TagInv, TagTypes, AloneIsOnly, Busy, T!KeyErrorsAreKnown
<1>5. UniqueTags'
  BY <1>3 DEF TagInv, UniqueTags
<1>6. ASSUME NEW r \in Busy', r \notin crowded' PROVE Passed(call[r])'
  <2>1. Passed(call[r])
    BY <1>2, <1>6 DEF TagInv, Busy
  <2>2. QED
    BY <1>2, <1>3, <2>1 DEF Passed, T!AddressTaken, T!NameTaken
<1>7. QED
  BY <1>2, <1>3, <1>4, <1>5, <1>6 DEF TagInv, Busy

LEMMA TagInductive == TagInv /\ [T!Next]_(T!vars) => TagInv'
<1> SUFFICES ASSUME TagInv, [T!Next]_(T!vars) PROVE TagInv'
  OBVIOUS
<1>1. CASE UNCHANGED T!vars
  BY <1>1 DEF T!vars, TagInv, TagTypes, UniqueTags, T!Live, AloneIsOnly, Busy, Passed,
              T!AddressTaken, T!NameTaken, T!KeyErrorsAreKnown
<1>2. ASSUME NEW r \in Requests, T!Step(r) PROVE TagInv'
  BY <1>2, TagStartKeeps, LookupKeeps, TagSaveKeeps, RenameKeeps DEF T!Step
<1>3. QED
  BY <1>1, <1>2, TagDeleteKeeps DEF T!Next, T!Quiet

\* For any number of administrators and tags, one who is alone meets an error
\* of the database only where the check of the name overlooks tags
\* (PublicNameTagService.validate).
THEOREM KeyErrorsStayKnown == RecordsSpec => []KeyErrorsAreKnown
<1> DEFINE Kept == part = "tags" => TagInv
<1>1. RecordsInit => Kept
  <2>1. RecordsInit /\ part = "tags" => T!Init
    BY DEF RecordsInit
  <2>2. T!Init => TagTypes /\ Busy = {}
    BY DEF T!Init, TagTypes, Busy
  <2>3. T!Init => TagInv
    BY <2>2 DEF T!Init, TagInv, UniqueTags, T!Live, AloneIsOnly, T!KeyErrorsAreKnown
  <2>4. QED
    BY <2>1, <2>3
<1>2. Kept /\ [RecordsNext]_allVars => Kept'
  BY TagInductive DEF RecordsNext, allVars, callVars, tagVars, T!vars, Called
<1>3. Kept => KeyErrorsAreKnown
  BY DEF KeyErrorsAreKnown, TagInv
<1>4. QED
  BY <1>1, <1>2, <1>3, PTL DEF RecordsSpec

-----------------------------------------------------------------------------
(* ContractVerification: a code is verified once, and polls tell a story.  *)

Trial   == [id : Nat \ {0}, step : 1..Steps, result : {"In-progress", "Success", "Fail"},
            status : {"VERIFYING", "EXACT MATCH", "FAIL"}]
AllFail == \A i \in DOMAIN attempts : attempts[i].status = "FAIL"

\* The result of the last step and the status of the attempt agree.
Agrees(a) ==
  /\ a.result = "In-progress" => a.status = "VERIFYING"
  /\ a.result = "Fail" => a.status = "FAIL"
  /\ a.result = "Success" /\ a.status = "VERIFYING" => a.step # Steps
  /\ a.status = "FAIL" => a.result = "Fail" \/ (a.result = "Success" /\ a.step = InfraStep)

\* The attempts are in the order of their ids, and all but the last one failed.
InOrder ==
  /\ \A i \in DOMAIN attempts : Agrees(attempts[i]) /\ (i # 1 => attempts[i].status = "FAIL")
  /\ \A i, j \in DOMAIN attempts : i < j => attempts[j].id < attempts[i].id

\* One code at most is handed over and not yet an attempt, after all others
\* have failed, and under the next number.
HandedInTurn ==
  /\ posted \subseteq Nat \ {0}
  /\ \A x \in V!Handed : 1..x \subseteq V!Handed
  /\ \A p \in posted :
       posted = {p} /\ AllFail /\ \A i \in DOMAIN attempts : attempts[i].id < p
  /\ \A r \in Requests : pc[r] = "post" => posted = {} /\ AllFail

\* The attempt that was told of has not gone back since.
Reached(told, a) ==
  /\ a.id = told.id
  /\ told.status = "EXACT MATCH" => a.status = "EXACT MATCH"
  /\ \A s \in 1..Steps : V!Order(told.checks[s]) <= V!Order(V!CheckResult(a, s))
ToldIsReached ==
  polled.told = "steps" => \E i \in DOMAIN attempts : Reached(polled, attempts[i])

Story ==
  /\ attempts \in Seq(Trial) /\ pc \in [Requests -> {"idle", "post", "late"}]
  /\ InOrder /\ HandedInTurn /\ ToldIsReached
VerifyInv == verifying \/ Story

-----------------------------------------------------------------------------
Heads(t, a, s) ==
  /\ t \in Seq(Trial) /\ Len(t) = Len(s) + 1 /\ DOMAIN t = 1..(Len(s) + 1)
  /\ t[1] = a
  /\ \A i \in 2..(Len(s) + 1) : t[i] = s[i - 1]

LEMMA InFront ==
  ASSUME NEW s \in Seq(Trial), NEW a \in Trial
  PROVE  Heads(<<a>> \o s, a, s)
BY DEF Heads

\* The last attempt is replaced where it stands.
LEMMA UpdateFirst ==
  ASSUME attempts \in Seq(Trial), attempts # <<>>, NEW a \in Trial
  PROVE  /\ V!Update(1, a) \in Seq(Trial) /\ DOMAIN V!Update(1, a) = DOMAIN attempts
         /\ V!Update(1, a)[1] = a
         /\ \A i \in DOMAIN attempts : i # 1 => V!Update(1, a)[i] = attempts[i]
<1> DEFINE rest == SubSeq(attempts, 2, Len(attempts))
<1>1. Len(attempts) \in Nat \ {0} /\ DOMAIN attempts = 1..Len(attempts)
  OBVIOUS
<1>2. SubSeq(attempts, 1, 0) = <<>>
  BY <1>1
<1>3. /\ rest \in Seq(Trial) /\ Len(rest) = Len(attempts) - 1
      /\ \A i \in 1..(Len(attempts) - 1) : rest[i] = attempts[i + 1]
  BY <1>1
<1> HIDE DEF rest
<1>4. <<>> \o rest = rest
  BY <1>3
<1>5. V!Update(1, a) = <<a>> \o rest
  BY <1>2, <1>4 DEF V!Update, V!RemoveAt, rest
<1>6. Heads(V!Update(1, a), a, rest)
  BY <1>3, <1>5, InFront
<1>7. ASSUME NEW i \in DOMAIN attempts, i # 1
      PROVE  V!Update(1, a)[i] = attempts[i]
  <2>1. i \in 2..(Len(rest) + 1) /\ i - 1 \in 1..(Len(attempts) - 1) /\ (i - 1) + 1 = i
    BY <1>1, <1>3, <1>7
  <2>2. V!Update(1, a)[i] = rest[i - 1] /\ rest[i - 1] = attempts[(i - 1) + 1]
    BY <1>3, <1>6, <2>1 DEF Heads
  <2>3. QED
    BY <2>1, <2>2
<1>8. Len(rest) + 1 = Len(attempts)
  BY <1>1, <1>3
<1>9. QED
  BY <1>1, <1>6, <1>7, <1>8 DEF Heads

\* A step that changes the last attempt takes it forward.
LEMMA OnlyForward ==
  ASSUME NEW a \in Trial, NEW b \in Trial, b.id = a.id, a.status = "VERIFYING",
         \/ b.step = a.step /\ a.result = "In-progress"
         \/ b.step = a.step /\ b.result = a.result
         \/ b.step = a.step + 1 /\ a.result = "Success",
         NEW told, Reached(told, a)
  PROVE  Reached(told, b)
<1>1. \A result : V!Order(result) \in {0, 1, 2}
  BY DEF V!Order
<1>2. /\ a.step \in Int /\ a.result \in {"In-progress", "Success", "Fail"}
      /\ b.step \in Int /\ b.result \in {"In-progress", "Success", "Fail"}
  <2>1. a.step \in 1..Steps /\ b.step \in 1..Steps
    BY DEF Trial
  <2>2. Steps \in Nat
    BY RecordsConstantsOK
  <2>3. a.step \in Int /\ b.step \in Int
    BY <2>1, <2>2
  <2>4. /\ a.result \in {"In-progress", "Success", "Fail"}
        /\ b.result \in {"In-progress", "Success", "Fail"}
    BY DEF Trial
  <2>5. QED
    BY <2>3, <2>4
<1>3. ASSUME NEW s \in 1..Steps
      PROVE  V!Order(V!CheckResult(a, s)) <= V!Order(V!CheckResult(b, s))
  <2>1. s \in Int
    OBVIOUS
  <2>2. CASE s < a.step
    BY <1>2, <2>1, <2>2 DEF V!CheckResult, V!Order
  <2>3. CASE s = a.step
    BY <1>2, <2>1, <2>3 DEF V!CheckResult, V!Order
  <2>4. CASE s > a.step
    BY <1>1, <1>2, <2>1, <2>4 DEF V!CheckResult, V!Order
  <2>5. QED
    BY <1>2, <2>1, <2>2, <2>3, <2>4
<1>4. ASSUME NEW s \in 1..Steps
      PROVE  V!Order(told.checks[s]) <= V!Order(V!CheckResult(b, s))
  <2>1. V!Order(told.checks[s]) <= V!Order(V!CheckResult(a, s))
    BY DEF Reached
  <2>2. QED
    BY <1>1, <1>3, <2>1
<1>5. QED
  BY <1>4 DEF Reached

\* Which codes were handed over, in terms of the numbers.
LEMMA HandedIs ==
  V!Handed = posted \cup {attempts[i].id : i \in DOMAIN attempts}
BY DEF V!Handed

LEMMA AcceptKeeps ==
  ASSUME Story, V!Accept
  PROVE  Story'
<1>1. PICK p \in posted :
        /\ posted' = posted \ {p}
        /\ attempts' = <<[id |-> p, step |-> 1, result |-> "In-progress",
                          status |-> "VERIFYING"]>> \o attempts
        /\ UNCHANGED <<exists, pc, polled, verifying>>
  BY DEF V!Accept
<1> DEFINE a == [id |-> p, step |-> 1, result |-> "In-progress", status |-> "VERIFYING"]
           n == Len(attempts)
<1>2. a \in Trial /\ a.id = p /\ Agrees(a)
  <2>1. 1 \in 1..Steps
    BY RecordsConstantsOK
  <2>2. p \in Nat \ {0}
    BY DEF Story, HandedInTurn
  <2>3. QED
    BY <2>1, <2>2 DEF Trial, Agrees
<1>3. Heads(attempts', a, attempts)
  BY <1>1, <1>2, InFront DEF Story
<1> HIDE DEF a
<1>4. n \in Nat /\ DOMAIN attempts = 1..n /\ DOMAIN attempts' = 1..(n + 1)
  BY <1>3 DEF Story, Heads
<1>5. attempts'[1] = a
  BY <1>3 DEF Heads
<1>6. \A i \in DOMAIN attempts' : i # 1 => i - 1 \in DOMAIN attempts /\ attempts'[i] = attempts[i - 1]
  BY <1>3, <1>4 DEF Heads
<1>7. \A i \in DOMAIN attempts : i + 1 \in DOMAIN attempts' /\ attempts'[i + 1] = attempts[i]
  <2>1. ASSUME NEW i \in DOMAIN attempts
        PROVE  i + 1 \in DOMAIN attempts' /\ attempts'[i + 1] = attempts[i]
    <3>1. i + 1 \in 2..(n + 1) /\ (i + 1) - 1 = i
      BY <1>4, <2>1
    <3>2. attempts'[i + 1] = attempts[(i + 1) - 1]
      BY <1>3, <3>1 DEF Heads
    <3>3. QED
      BY <1>4, <3>1, <3>2
  <2>2. QED
    BY <2>1
<1>8. /\ posted = {p} /\ posted' = {} /\ AllFail
      /\ \A i \in DOMAIN attempts : attempts[i].id < p
  BY <1>1 DEF Story, HandedInTurn
<1>9. InOrder'
  <2>1. ASSUME NEW i \in DOMAIN attempts'
        PROVE  Agrees(attempts'[i]) /\ (i # 1 => attempts'[i].status = "FAIL")
    BY <1>2, <1>5, <1>6, <1>8, <2>1 DEF Story, InOrder, AllFail
  <2>2. ASSUME NEW i \in DOMAIN attempts', NEW j \in DOMAIN attempts', i < j
        PROVE  attempts'[j].id < attempts'[i].id
    <3>1. j # 1 /\ i \in Int /\ j \in Int
      BY <1>4, <2>2
    <3>2. CASE i = 1
      BY <1>2, <1>5, <1>6, <1>8, <2>2, <3>1, <3>2
    <3>3. CASE i # 1
      <4>1. i - 1 < j - 1
        BY <2>2, <3>1
      <4>2. QED
        BY <1>6, <2>2, <3>1, <3>3, <4>1 DEF Story, InOrder
    <3>4. QED
      BY <3>2, <3>3
  <2>3. QED
    BY <2>1, <2>2 DEF InOrder
<1>10. HandedInTurn'
  <2>1. V!Handed' = V!Handed
    <3>1. V!Handed' = {attempts'[i].id : i \in DOMAIN attempts'}
      BY <1>8 DEF V!Handed
    <3>2. ASSUME NEW i \in DOMAIN attempts' PROVE attempts'[i].id \in V!Handed
      BY <1>1, <1>2, <1>5, <1>6 DEF V!Handed
    <3>3. ASSUME NEW x \in V!Handed PROVE \E i \in DOMAIN attempts' : x = attempts'[i].id
      <4>1. CASE x = p
        BY <1>2, <1>4, <1>5, <4>1
      <4>2. CASE x # p
        <5>1. PICK i \in DOMAIN attempts : x = attempts[i].id
          BY <1>8, <4>2 DEF V!Handed
        <5>2. QED
          BY <1>7, <5>1
      <4>3. QED
        BY <4>1, <4>2
    <3>4. QED
      BY <3>1, <3>2, <3>3
  <2>2. \A r \in Requests : pc[r] # "post"
    BY <1>1 DEF Story, HandedInTurn
  <2>3. \A x \in V!Handed : 1..x \subseteq V!Handed
    BY DEF Story, HandedInTurn
  <2>4. QED
    BY <1>1, <1>8, <2>1, <2>2, <2>3 DEF HandedInTurn
<1>11. ToldIsReached'
  <2>1. ASSUME NEW i \in DOMAIN attempts, Reached(polled, attempts[i])
        PROVE  \E j \in DOMAIN attempts' : Reached(polled, attempts'[j])
    BY <1>7, <2>1
  <2>2. QED
    BY <1>1, <2>1 DEF Story, ToldIsReached
<1>12. attempts' \in Seq(Trial) /\ pc' \in [Requests -> {"idle", "post", "late"}]
  BY <1>1, <1>3 DEF Story, Heads
<1>13. QED
  BY <1>9, <1>10, <1>11, <1>12 DEF Story

\* Only the last attempt goes on, and then as OnlyForward says.
LEMMA AdvanceKeeps ==
  ASSUME Story, V!Advance
  PROVE  Story'
<1>1. PICK k \in DOMAIN attempts :
        /\ attempts[k].status = "VERIFYING"
        /\ attempts' \in
             IF attempts[k].result = "In-progress"
             THEN {V!Update(k, [attempts[k] EXCEPT
                     !.result = "Success",
                     !.status = IF attempts[k].step = Steps THEN "EXACT MATCH" ELSE @]),
                   V!Update(k, [attempts[k] EXCEPT !.result = "Fail", !.status = "FAIL"])}
             ELSE {V!Update(k, [attempts[k] EXCEPT !.step = @ + 1, !.result = "In-progress"])}
                  \cup (IF attempts[k].step = InfraStep
                        THEN {V!Update(k, [attempts[k] EXCEPT !.status = "FAIL"])} ELSE {})
        /\ UNCHANGED <<exists, posted, pc, polled, verifying>>
  BY DEF V!Advance
<1>2. k = 1 /\ attempts # <<>>
  BY <1>1 DEF Story, InOrder
<1> DEFINE a == attempts[1]
<1>3. a \in Trial /\ a.status = "VERIFYING" /\ Agrees(a)
  BY <1>1, <1>2 DEF Story, InOrder
<1>4. \E b \in Trial :
        /\ attempts' = V!Update(1, b) /\ Agrees(b) /\ b.id = a.id
        /\ \/ b.step = a.step /\ a.result = "In-progress"
           \/ b.step = a.step /\ b.result = a.result
           \/ b.step = a.step + 1 /\ a.result = "Success"
  <2> DEFINE good == [a EXCEPT !.result = "Success",
                               !.status = IF a.step = Steps THEN "EXACT MATCH" ELSE @]
             bad  == [a EXCEPT !.result = "Fail", !.status = "FAIL"]
             next == [a EXCEPT !.step = @ + 1, !.result = "In-progress"]
             full == [a EXCEPT !.status = "FAIL"]
  <2>1. \/ a.result = "In-progress" /\ attempts' \in {V!Update(1, good), V!Update(1, bad)}
        \/ a.result # "In-progress" /\ attempts' = V!Update(1, next)
        \/ a.result # "In-progress" /\ a.step = InfraStep /\ attempts' = V!Update(1, full)
    BY <1>1, <1>2
  <2>2. a.result # "In-progress" => a.result = "Success" /\ a.step # Steps
    BY <1>3 DEF Trial, Agrees
  <2>3. a.step \in 1..Steps /\ (a.step # Steps => a.step + 1 \in 1..Steps)
    <3>1. a.step \in 1..Steps
      BY <1>3 DEF Trial
    <3>2. QED
      BY <3>1, RecordsConstantsOK
  <2>4. /\ good \in Trial /\ good.id = a.id /\ good.step = a.step
        /\ a.result = "In-progress" => Agrees(good)
    BY <1>3, <2>3 DEF Trial, Agrees
  <2>5. bad \in Trial /\ bad.id = a.id /\ bad.step = a.step /\ Agrees(bad)
    BY <1>3, <2>3 DEF Trial, Agrees
  <2>6. a.step # Steps => next \in Trial /\ next.id = a.id /\ next.step = a.step + 1 /\ Agrees(next)
    BY <1>3, <2>3 DEF Trial, Agrees
  <2>7. /\ full \in Trial /\ full.id = a.id /\ full.step = a.step /\ full.result = a.result
        /\ a.result = "Success" /\ a.step = InfraStep => Agrees(full)
    BY <1>3, <2>3 DEF Trial, Agrees
  <2> HIDE DEF good, bad, next, full
  <2>8. CASE a.result = "In-progress"
    BY <2>1, <2>4, <2>5, <2>8
  <2>9. CASE a.result # "In-progress"
    BY <2>1, <2>2, <2>6, <2>7, <2>9
  <2>10. QED
    BY <2>8, <2>9
<1>5. PICK b \in Trial :
        /\ attempts' = V!Update(1, b) /\ Agrees(b) /\ b.id = a.id
        /\ \/ b.step = a.step /\ a.result = "In-progress"
           \/ b.step = a.step /\ b.result = a.result
           \/ b.step = a.step + 1 /\ a.result = "Success"
  BY <1>4
<1>6. /\ attempts' \in Seq(Trial) /\ DOMAIN attempts' = DOMAIN attempts /\ attempts'[1] = b
      /\ \A i \in DOMAIN attempts : i # 1 => attempts'[i] = attempts[i]
  BY <1>2, <1>5, UpdateFirst DEF Story
<1>7. 1 \in DOMAIN attempts /\ \A i \in DOMAIN attempts : attempts'[i].id = attempts[i].id
  BY <1>1, <1>2, <1>5, <1>6
<1>8. InOrder'
  BY <1>5, <1>6, <1>7 DEF Story, InOrder
<1>9. ~AllFail
  BY <1>3, <1>7 DEF AllFail
<1>10. HandedInTurn'
  <2>1. V!Handed' = V!Handed
    BY <1>1, <1>6, <1>7 DEF V!Handed
  <2>2. posted = {} /\ \A r \in Requests : pc[r] # "post"
    BY <1>9 DEF Story, HandedInTurn
  <2>3. QED
    BY <1>1, <2>1, <2>2 DEF Story, HandedInTurn
<1>11. ToldIsReached'
  <2>1. ASSUME NEW i \in DOMAIN attempts, Reached(polled, attempts[i])
        PROVE  Reached(polled, attempts'[i])
    <3>1. CASE i = 1
      BY <1>3, <1>5, <1>6, <2>1, <3>1, OnlyForward
    <3>2. CASE i # 1
      BY <1>6, <2>1, <3>2
    <3>3. QED
      BY <3>1, <3>2
  <2>2. QED
    BY <1>1, <1>6, <2>1 DEF Story, ToldIsReached
<1>12. QED
  BY <1>1, <1>6, <1>8, <1>10, <1>11 DEF Story


LEMMA CheckCodeKeeps ==
  ASSUME Story, NEW r \in Requests, V!CheckCode(r)
  PROVE  Story'
<1>1. /\ ~V!Forbidden(attempts)
      /\ pc' = [pc EXCEPT ![r] = IF posted = {} THEN "post" ELSE "late"]
      /\ UNCHANGED <<exists, attempts, posted, polled, verifying>>
  BY DEF V!CheckCode
<1>2. AllFail
  BY <1>1 DEF V!Forbidden, AllFail, Story, InOrder
<1>3. pc' \in [Requests -> {"idle", "post", "late"}]
  BY <1>1 DEF Story
<1>4. HandedInTurn'
  <2>1. \A s \in Requests : pc'[s] = "post" => posted = {}
    BY <1>1 DEF Story, HandedInTurn
  <2>2. QED
    BY <1>1, <1>2, <2>1, SMTT(30) DEF Story, HandedInTurn, AllFail, V!Handed
<1>5. QED
  BY <1>1, <1>3, <1>4 DEF Story, InOrder, ToldIsReached

\* A request that is not late hands over the next number, and is the only one.
LEMMA PostKeeps ==
  ASSUME Story, NEW r \in Requests, V!Post(r)
  PROVE  VerifyInv'
<1>1. PICK p \in (1..MaxAttempts) \ V!Handed :
        (\A earlier \in 1..(p - 1) : earlier \in V!Handed) /\ posted' = posted \cup {p}
  BY DEF V!Post
<1>2. /\ pc[r] # "idle" /\ verifying' = (verifying \/ pc[r] = "late")
      /\ pc' = [s \in Requests |-> IF s = r \/ pc[s] = "idle" THEN "idle" ELSE "late"]
      /\ UNCHANGED <<exists, attempts, polled>>
  BY DEF V!Post
<1>3. CASE pc[r] = "late"
  BY <1>2, <1>3 DEF VerifyInv
<1>4. CASE pc[r] # "late"
  <2>1. posted = {} /\ AllFail
    BY <1>2, <1>4 DEF Story, HandedInTurn
  <2>2. p \in Nat \ {0} /\ p \notin V!Handed
    BY <1>1, RecordsConstantsOK
  <2>3. V!Handed' = V!Handed \cup {p} /\ posted' = {p}
    BY <1>1, <1>2, <2>1 DEF V!Handed
  <2>4. ASSUME NEW i \in DOMAIN attempts PROVE attempts[i].id < p
    <3>1. attempts[i].id \in Nat \ {0} /\ attempts[i].id \in V!Handed
      <4>1. attempts[i] \in Trial
        BY DEF Story
      <4>2. QED
        BY <4>1 DEF Trial, V!Handed
    <3>2. 1..(attempts[i].id) \subseteq V!Handed
      BY <3>1 DEF Story, HandedInTurn
    <3>3. QED
      BY <2>2, <3>1, <3>2
  <2>5. ASSUME NEW x \in V!Handed' PROVE 1..x \subseteq V!Handed'
    <3>1. CASE x = p
      <4>1. 1..p = 1..(p - 1) \cup {p}
        BY <2>2
      <4>2. QED
        BY <1>1, <2>3, <3>1, <4>1
    <3>2. CASE x # p
      BY <2>3, <2>5, <3>2 DEF Story, HandedInTurn
    <3>3. QED
      BY <3>1, <3>2
  <2>6. \A s \in Requests : pc'[s] # "post"
    BY <1>2
  <2>7. HandedInTurn'
    BY <1>2, <2>1, <2>2, <2>3, <2>4, <2>5, <2>6 DEF HandedInTurn, AllFail
  <2>8. pc' \in [Requests -> {"idle", "post", "late"}]
    BY <1>2
  <2>9. QED
    BY <1>2, <2>7, <2>8 DEF VerifyInv, Story, InOrder, ToldIsReached
<1>5. QED
  BY <1>3, <1>4

LEMMA FailPostKeeps ==
  ASSUME Story, NEW r \in Requests, V!FailPost(r)
  PROVE  Story'
<1>1. pc' = [pc EXCEPT ![r] = "idle"] /\ UNCHANGED <<exists, attempts, posted, polled, verifying>>
  BY DEF V!FailPost
<1>2. pc' \in [Requests -> {"idle", "post", "late"}] /\ \A s \in Requests : pc'[s] = "post" => pc[s] = "post"
  BY <1>1 DEF Story
<1>3. QED
  BY <1>1, <1>2 DEF Story, InOrder, HandedInTurn, AllFail, V!Handed, ToldIsReached

\* What a poll is told is where the last attempt is.
LEMMA PollKeeps ==
  ASSUME Story, V!Poll
  PROVE  Story'
<1>1. UNCHANGED <<exists, attempts, posted, pc, verifying>>
  BY DEF V!Poll
<1>2. ToldIsReached'
  <2>1. CASE attempts = <<>>
    BY <2>1 DEF V!Poll, ToldIsReached
  <2>2. CASE attempts # <<>>
    <3>1. 1 \in DOMAIN attempts
      BY <2>2 DEF Story
    <3>2. /\ polled'.id = attempts[1].id /\ polled'.status = attempts[1].status
          /\ \A s \in 1..Steps : polled'.checks[s] = V!CheckResult(attempts[1], s)
      BY <2>2 DEF V!Poll, V!Status
    <3>3. \A result : V!Order(result) \in {0, 1, 2}
      BY DEF V!Order
    <3>4. \A s \in 1..Steps :
            V!Order(polled'.checks[s]) <= V!Order(V!CheckResult(attempts[1], s))
      <4> TAKE s \in 1..Steps
      <4> DEFINE result == V!CheckResult(attempts[1], s)
      <4>1. polled'.checks[s] = result
        BY <3>2
      <4>2. V!Order(result) \in Int
        BY <3>3
      <4> HIDE DEF result
      <4>3. V!Order(result) <= V!Order(result)
        BY <4>2
      <4>4. V!Order(polled'.checks[s]) = V!Order(result)
        BY <4>1
      <4>5. QED
        BY <4>3, <4>4 DEF result
    <3>5. Reached(polled', attempts[1])
      BY <3>2, <3>4 DEF Reached
    <3>6. QED
      BY <1>1, <3>1, <3>5 DEF ToldIsReached
  <2>3. QED
    BY <2>1, <2>2
<1>3. QED
  BY <1>1, <1>2, SMTT(30) DEF Story, InOrder, HandedInTurn, AllFail, V!Handed

LEMMA VerifyInductive == VerifyInv /\ [V!Next]_(V!vars) => VerifyInv'
<1> SUFFICES ASSUME VerifyInv, [V!Next]_(V!vars) PROVE VerifyInv'
  OBVIOUS
<1>1. CASE verifying
  <2>1. verifying'
    BY <1>1 DEF V!Next, V!vars, V!StoreCode, V!Accept, V!Advance, V!Poll, V!CheckCode, V!Post,
                V!FailPost
  <2>2. QED
    BY <2>1 DEF VerifyInv
<1>2. CASE Story
  <2>1. CASE V!StoreCode \/ UNCHANGED V!vars
    BY <1>2, <2>1 DEF V!StoreCode, V!vars, VerifyInv, Story, InOrder, HandedInTurn, AllFail,
                      V!Handed, ToldIsReached
  <2>2. CASE V!Accept \/ V!Advance \/ V!Poll
    BY <1>2, <2>2, AcceptKeeps, AdvanceKeeps, PollKeeps DEF VerifyInv
  <2>3. ASSUME NEW r \in Requests, V!CheckCode(r) \/ V!Post(r) \/ V!FailPost(r)
        PROVE  VerifyInv'
    BY <1>2, <2>3, CheckCodeKeeps, PostKeeps, FailPostKeeps DEF VerifyInv
  <2>4. QED
    BY <2>1, <2>2, <2>3 DEF V!Next
<1>3. QED
  BY <1>1, <1>2 DEF VerifyInv

LEMMA VerifyKept ==
  /\ RecordsInit /\ part = "verify" => VerifyInv
  /\ [RecordsNext]_allVars /\ (part = "verify" => VerifyInv) => (part' = "verify" => VerifyInv')
<1>1. ASSUME V!Init PROVE VerifyInv
  <2>1. attempts \in Seq(Trial) /\ DOMAIN attempts = {} /\ V!Handed = {}
    BY <1>1 DEF V!Init, V!Handed
  <2>2. QED
    BY <1>1, <2>1 DEF V!Init, V!NoPoll, VerifyInv, Story, InOrder, HandedInTurn, ToldIsReached
<1>2. RecordsInit /\ part = "verify" => V!Init
  BY DEF RecordsInit
<1>3. QED
  BY <1>1, <1>2, VerifyInductive DEF RecordsNext, allVars, verifyVars, V!vars

\* For any number of steps, of attempts and of requests: unless requests
\* raced to hand a code over, there is one attempt at a time and none after
\* one that succeeded (ContractService.verifyCodeId).
THEOREM VerifiedOnceOnly == RecordsSpec => []VerifiedOnce
<1> DEFINE Kept == part = "verify" => VerifyInv
<1>1. RecordsInit => Kept
  BY VerifyKept
<1>2. Kept /\ [RecordsNext]_allVars => Kept'
  BY VerifyKept
<1>3. VerifyInv => V!VerifiedOnce
  <2> SUFFICES ASSUME Story PROVE V!VerifiedOnce
    BY DEF VerifyInv, V!VerifiedOnce
  <2>1. \A i \in DOMAIN attempts : i \in Nat \ {0} /\ (i # 1 => attempts[i].status = "FAIL")
    BY DEF Story, InOrder
  <2>2. QED
    BY <2>1 DEF V!VerifiedOnce
<1>4. Kept => VerifiedOnce
  BY <1>3 DEF VerifiedOnce
<1>5. QED
  BY <1>1, <1>2, <1>4, PTL DEF RecordsSpec

\* And successive polls tell a story: checks of an attempt only go forward, a
\* later attempt follows a failed one, and each failure is told (getVerifyCodeStep).
THEOREM PollsStayInOrder == RecordsSpec => PollsTellAStory
<1> DEFINE Kept == part = "verify" => VerifyInv
<1>1. RecordsInit => Kept
  BY VerifyKept
<1>2. Kept /\ [RecordsNext]_allVars => Kept'
  BY VerifyKept
<1>3. ASSUME Story, ~verifying, V!Poll PROVE V!PollFollows
  <2> SUFFICES ASSUME polled'.told = "steps" PROVE V!PollFollows
    BY DEF V!PollFollows
  <2>1. attempts # <<>>
    BY <1>3 DEF V!Poll
  <2>2. 1 \in DOMAIN attempts /\ attempts[1] \in Trial /\ Agrees(attempts[1])
    BY <1>3, <2>1 DEF Story, InOrder
  <2> DEFINE a == attempts[1]
  <2>3. /\ polled'.id = a.id /\ polled'.status = a.status /\ polled'.infra = V!InfraError(a)
        /\ \A s \in 1..Steps : polled'.checks[s] = V!CheckResult(a, s)
    BY <1>3, <2>1 DEF V!Poll, V!Status
  <2>4. polled'.status = "FAIL" => polled'.infra \/ \E s \in 1..Steps : polled'.checks[s] = "Fail"
    <3>1. a.step \in 1..Steps
      BY <2>2 DEF Trial
    <3>2. V!CheckResult(a, a.step) = a.result
      BY <3>1 DEF V!CheckResult
    <3>3. polled'.checks[a.step] = a.result
      BY <2>3, <3>1, <3>2
    <3>4. QED
      BY <2>2, <2>3, <3>1, <3>3 DEF Agrees, V!InfraError
  <2>5. ASSUME polled.told = "steps"
        PROVE  /\ polled.id = polled'.id =>
                    \A s \in 1..Steps : V!Order(polled.checks[s]) <= V!Order(polled'.checks[s])
               /\ polled.id # polled'.id =>
                    polled.id < polled'.id /\ polled.status # "EXACT MATCH"
    <3>1. PICK i \in DOMAIN attempts : Reached(polled, attempts[i])
      BY <1>3, <2>5 DEF Story, ToldIsReached
    <3>2. CASE i = 1
      BY <2>3, <3>1, <3>2 DEF Reached
    <3>3. CASE i # 1
      <4>1. attempts[i].id < a.id /\ attempts[i].status = "FAIL"
        <5>1. i \in Nat \ {0}
          BY <1>3, <3>1 DEF Story
        <5>2. 1 < i
          BY <3>3, <5>1
        <5>3. QED
          BY <1>3, <2>2, <3>1, <3>3, <5>2 DEF Story, InOrder
      <4>2. attempts[i].id \in Nat /\ a.id \in Nat
        <5>1. attempts[i] \in Trial
          BY <1>3 DEF Story
        <5>2. QED
          BY <2>2, <5>1 DEF Trial
      <4>3. polled.id = attempts[i].id /\ polled'.id = a.id
        BY <2>3, <3>1 DEF Reached
      <4>4. polled.status # "EXACT MATCH"
        BY <3>1, <4>1 DEF Reached
      <4>5. polled.id < polled'.id
        BY <4>1, <4>3
      <4>6. polled.id # polled'.id
        BY <4>2, <4>3, <4>5
      <4>7. QED
        BY <4>4, <4>5, <4>6
    <3>4. QED
      BY <3>2, <3>3
  <2>6. QED
    BY <2>4, <2>5 DEF V!PollFollows
<1>4. Kept /\ [RecordsNext]_allVars => [part = "verify" => V!PollFollows]_polled
  <2> SUFFICES ASSUME VerifyInv, part = "verify", [RecordsNext]_allVars, polled' # polled
               PROVE  V!PollFollows
    OBVIOUS
  <2>1. V!Poll
    BY DEF RecordsNext, allVars, verifyVars, V!vars, V!Next, V!StoreCode, V!Accept, V!Advance,
           V!CheckCode, V!Post, V!FailPost
  <2>2. CASE verifying
    BY <2>2 DEF V!PollFollows
  <2>3. CASE ~verifying
    BY <1>3, <2>1, <2>3 DEF VerifyInv
  <2>4. QED
    BY <2>2, <2>3
<1> HIDE DEF Kept
<1>5. QED
  BY <1>1, <1>2, <1>4, PTL DEF RecordsSpec, PollsTellAStory

=============================================================================
