----------------------------- MODULE MCRecords -----------------------------
(***************************************************************************)
(* Small instances, for TLC, of the records that users and administrators  *)
(* write and of what the API keeps of other services.  The parts share no  *)
(* state: a behaviour is one of UserEntries or of one of the modules       *)
(* instantiated below, and the variables of the other parts keep a fixed   *)
(* value.                                                                  *)
(***************************************************************************)
EXTENDS UserEntries, TLC

CONSTANTS
  Keys, Others, Instances, Urls, NextPages,
  MaxAdminRequests,   \* bound: requests of administrators
  MaxStarts,          \* bound: starts of instances
  Steps, InfraStep, MaxAttempts,   \* ContractVerification
  Tries, MaxPages,                 \* TokenContent
  Ttl, MaxClock, MaxVersion,       \* CachedReads
  Minters, Contracts, MaxTokens    \* RejectList

\* cacheManagement.ttl is a number of seconds, VERIFY_STEP a list of steps.
ASSUME RecordsConstantsOK == {Ttl, MaxAttempts} \subseteq Nat /\ Steps \in Nat \ {0}

VARIABLES
  part,
  call, calls, crowded,     \* the requests of an administrator
  tags, keyError,           \* PublicNameTags
  kind, rows, asked, stale, refused,   \* AdminRecords
  pc,
  keys, key, starts, secrets,          \* CipherKey
  exists, attempts, posted, polled, verifying,    \* ContractVerification
  ipfs, host, view, tries, pages, shown,          \* TokenContent
  now, data, cache, query, answer, changed, served, seen, raced,  \* CachedReads
  minter, tokens, blocked, rejecting, begun, done, single, excused   \* RejectList

callVars    == <<call, calls, crowded>>
tagVars     == <<tags, keyError>>
adminVars   == <<kind, rows, asked, stale, refused>>
keyVars     == <<keys, key, starts, secrets>>
verifyVars  == <<exists, attempts, posted, polled, verifying>>
contentVars == <<ipfs, host, view, tries, pages, shown>>
cacheVars   == <<now, data, cache, query, answer, changed, served, seen, raced>>
rejectVars  == <<minter, tokens, blocked, rejecting, begun, done, single, excused>>
allVars     == <<part, vars, callVars, tagVars, adminVars, pc, keyVars, verifyVars,
                 contentVars, cacheVars, rejectVars>>

T == INSTANCE PublicNameTags WITH
       request <- call, started <- calls, MaxRequests <- MaxAdminRequests, NoTag <- Removed
A == INSTANCE AdminRecords WITH
       request <- call, started <- calls, MaxRequests <- MaxAdminRequests, NoValue <- Removed
K == INSTANCE CipherKey WITH NoKey <- Removed
V == INSTANCE ContractVerification WITH raced <- verifying
P == INSTANCE TokenContent WITH started <- pages, answer <- shown, MaxRequests <- MaxPages
C == INSTANCE CachedReads WITH request <- query, None <- Removed
R == INSTANCE RejectList WITH
       MaxRequests <- MaxAdminRequests, request <- rejecting, started <- begun, None <- Removed

Unused(x) == x = Removed
NoCalls   == Unused(call) /\ Unused(calls) /\ Unused(crowded)
NoTags    == Unused(tags) /\ Unused(keyError)
NoAdmin   == Unused(kind) /\ Unused(rows) /\ Unused(asked) /\ Unused(stale) /\ Unused(refused)
NoKeys    == Unused(keys) /\ Unused(key) /\ Unused(starts) /\ Unused(secrets)
NoVerify  ==
  Unused(exists) /\ Unused(attempts) /\ Unused(posted) /\ Unused(polled) /\ Unused(verifying)
NoContent ==
  /\ Unused(ipfs) /\ Unused(host) /\ Unused(view) /\ Unused(tries) /\ Unused(pages)
  /\ Unused(shown)
NoCache ==
  /\ Unused(now) /\ Unused(data) /\ Unused(cache) /\ Unused(query) /\ Unused(answer)
  /\ Unused(changed) /\ Unused(served) /\ Unused(seen) /\ Unused(raced)
NoRejects ==
  /\ Unused(minter) /\ Unused(tokens) /\ Unused(blocked) /\ Unused(rejecting) /\ Unused(begun)
  /\ Unused(done) /\ Unused(single) /\ Unused(excused)

Called == {"tags", "admin"}
RecordsInit ==
  /\ Init
  /\ part \in {"entries", "tags", "admin", "keys", "verify", "content", "cache", "rejects"}
  /\ part \notin Called   => NoCalls
  /\ IF part = "tags"    THEN T!Init ELSE NoTags
  /\ IF part = "admin"   THEN A!Init ELSE NoAdmin
  /\ part \in Called \cup {"entries", "rejects"} => Unused(pc)
  /\ IF part = "keys"    THEN K!Init ELSE NoKeys
  /\ IF part = "verify"  THEN V!Init ELSE NoVerify
  /\ IF part = "content" THEN P!Init ELSE NoContent
  /\ IF part = "cache"   THEN C!Init ELSE NoCache
  /\ IF part = "rejects" THEN R!Init ELSE NoRejects

RecordsNext ==
  /\ UNCHANGED part
  /\ IF part = "entries" THEN Next   ELSE UNCHANGED vars
  /\ part \notin Called   => UNCHANGED callVars
  /\ IF part = "tags"    THEN T!Next ELSE UNCHANGED tagVars
  /\ IF part = "admin"   THEN A!Next ELSE UNCHANGED adminVars
  /\ part \in Called \cup {"entries", "rejects"} => UNCHANGED pc
  /\ IF part = "keys"    THEN K!Next ELSE UNCHANGED keyVars
  /\ IF part = "verify"  THEN V!Next ELSE UNCHANGED verifyVars
  /\ IF part = "content" THEN P!Next ELSE UNCHANGED contentVars
  /\ IF part = "cache"   THEN C!Next ELSE UNCHANGED cacheVars
  /\ IF part = "rejects" THEN R!Next ELSE UNCHANGED rejectVars

RecordsSpec == RecordsInit /\ [][RecordsNext]_allVars

-----------------------------------------------------------------------------
\* An administrator who is alone meets an error of the database for a name
\* tag only where the check of the name overlooks tags (PublicNameTagService).
KeyErrorsAreKnown == part = "tags" => T!KeyErrorsAreKnown

\* The records of administrators are what their requests asked for, unless
\* one was saved from a copy out of date (Cw20TokenService, ChainInfoService).
RowsAreAsAsked == part = "admin" => A!RowsAreAsAsked

\* What an administrator who is alone is told of duplicates is true and comes
\* from the validators, with two exceptions (IsUnique, IsUniqueManyColumn).
DuplicatesAreTold == part = "admin" => A!DuplicatesAreTold

\* An instance that is up can decrypt what any other ever encrypted
\* (EncryptionService).
SecretsAreReadable == part = "keys" => K!SecretsAreReadable

\* A code is verified once unless two requests race (ContractService).
VerifiedOnce == part = "verify" => V!VerifiedOnce

\* The polls of a verification tell a story that only goes forward.
PollsTellAStory == [][part = "verify" => V!PollFollows]_polled

\* The page of a token is empty only after attempts of its own that failed.
EmptyMeansTried == part = "content" => P!EmptyMeansTried

\* A change is shown to every client once the time to live has passed, and no
\* client sees its explorer's data go back, unless the data changed between a
\* handler's read and the keeping of its answer (CacheInterceptor).
AnswersAreFresh == part = "cache" => C!AnswersAreFresh

\* After all tokens of a minter were rejected, only known ones are on offer,
\* and no others were rejected (SoulboundTokenService.rejectToken).
RejectionsHold == part = "rejects" => R!RejectionsHold

Symmetry ==
  Permutations(Requests) \cup Permutations(Addresses)
    \cup Permutations(Names) \cup Permutations(Explorers)

=============================================================================
