------------------------ MODULE ContractVerification ------------------------
(***************************************************************************)
(* The verification of a code id (ContractService).  verifyCodeId asks the *)
(* indexer for the attempts so far and hands the code to a verification    *)
(* service, whose attempt appears in the indexer later; clients poll the   *)
(* steps of the attempt that was updated last.                             *)
(***************************************************************************)
EXTENDS Integers, SequencesExt

CONSTANTS
  Requests,      \* slots for concurrent requests
  Steps,         \* bound: VERIFY_STEP has eight
  InfraStep,     \* INFRASTRUCTURE_ERROR.STEP
  MaxAttempts    \* bound: codes that are handed over

VARIABLES
  exists,        \* the indexer knows the code
  attempts,      \* code_id_verification: the attempts in order of updated_at, the last first
  posted,        \* codes handed over and not indexed yet
  pc,            \* pc[r]: "idle", "post" when nothing forbids an attempt, or
                 \* "late" if another request has handed the code over meanwhile
  polled,        \* what the last poll was told
  raced          \* history: a late request has handed the code over

vars == <<exists, attempts, posted, pc, polled, raced>>

Attempt == [id : 1..MaxAttempts, step : 1..Steps, result : {"In-progress", "Success", "Fail"},
            status : {"VERIFYING", "EXACT MATCH", "FAIL"}]
NoPoll == [told |-> "nothing"]

Init ==
  /\ exists = FALSE
  /\ attempts = <<>> /\ posted = {}
  /\ pc = [r \in Requests |-> "idle"]
  /\ polled = NoPoll /\ raced = FALSE

-----------------------------------------------------------------------------
(* The indexer and the verification service                                *)

StoreCode ==
  /\ ~exists /\ exists' = TRUE
  /\ UNCHANGED <<attempts, posted, pc, polled, raced>>

\* An attempt that changes is the one updated last.
Update(i, a) == <<a>> \o RemoveAt(attempts, i)

Accept ==
  \E id \in posted :
    /\ posted' = posted \ {id}
    /\ attempts' = <<[id |-> id, step |-> 1, result |-> "In-progress", status |-> "VERIFYING"]>>
                     \o attempts
    /\ UNCHANGED <<exists, pc, polled, raced>>

\* A step succeeds, and the last one decides; or it fails; or there are no
\* resources after step InfraStep, whose result stays "Success".
Advance ==
  \E i \in DOMAIN attempts :
    LET a == attempts[i] IN
    /\ a.status = "VERIFYING"
    /\ attempts' \in
         IF a.result = "In-progress"
         THEN {Update(i, [a EXCEPT !.result = "Success",
                                !.status = IF a.step = Steps THEN "EXACT MATCH" ELSE @]),
               Update(i, [a EXCEPT !.result = "Fail", !.status = "FAIL"])}
         ELSE {Update(i, [a EXCEPT !.step = @ + 1, !.result = "In-progress"])}
              \cup (IF a.step = InfraStep THEN {Update(i, [a EXCEPT !.status = "FAIL"])} ELSE {})
    /\ UNCHANGED <<exists, posted, pc, polled, raced>>

-----------------------------------------------------------------------------
(* verifyCodeId                                                            *)

\* CONTRACT_VERIFIED_VERIFYING: the attempt updated last did not fail.
ForbiddenWhileVerifying(as) == as # <<>> /\ as[1].status = "VERIFYING"
Forbidden(as)               == as # <<>> /\ as[1].status # "FAIL"

\* A code that does not exist is refused.  Without an answer of the indexer,
\* the request fails.
CheckCode(r) ==
  /\ pc[r] = "idle"
  /\ exists /\ ~Forbidden(attempts)
  /\ pc' = [pc EXCEPT ![r] = IF posted = {} THEN "post" ELSE "late"]
  /\ UNCHANGED <<exists, attempts, posted, polled, raced>>

Handed == posted \cup {attempts[i].id : i \in DOMAIN attempts}
Post(r) ==
  /\ pc[r] # "idle"
  /\ \E id \in (1..MaxAttempts) \ Handed :
       /\ \A earlier \in 1..(id - 1) : earlier \in Handed
       /\ posted' = posted \cup {id}
  /\ raced' = (raced \/ pc[r] = "late")
  /\ pc' = [q \in Requests |-> IF q = r \/ pc[q] = "idle" THEN "idle" ELSE "late"]
  /\ UNCHANGED <<exists, attempts, polled>>

\* The service does not answer, or there are as many attempts as TLC follows.
FailPost(r) ==
  /\ pc[r] # "idle"
  /\ pc' = [pc EXCEPT ![r] = "idle"]
  /\ UNCHANGED <<exists, attempts, posted, polled, raced>>

-----------------------------------------------------------------------------
(* getVerifyCodeStep and verifyContractStatus                              *)

Status == IF attempts = <<>> THEN "UNVERIFIED" ELSE attempts[1].status

CheckResult(a, step) ==
  CASE step = a.step -> a.result
    [] step < a.step -> "Success"
    [] OTHER         -> "Pending"

InfraErrorAnywhere(a) == a.result = "Success" /\ a.status = "FAIL" /\ a.step = Steps
InfraError(a)         == a.result = "Success" /\ a.status = "FAIL" /\ a.step = InfraStep

\* Without an attempt the list of steps is empty, and the first element of
\* nothing is read: the poll fails.
Poll ==
  /\ polled' = IF attempts = <<>>
               THEN [told |-> "error"]
               ELSE LET a == attempts[1]
                    IN [told |-> "steps", id |-> a.id, status |-> Status,
                        checks |-> [s \in 1..Steps |-> CheckResult(a, s)],
                        infra |-> InfraError(a)]
  /\ UNCHANGED <<exists, attempts, posted, pc, raced>>

Next ==
  \/ StoreCode \/ Accept \/ Advance \/ Poll
  \/ \E r \in Requests : CheckCode(r) \/ Post(r) \/ FailPost(r)

Spec == Init /\ [][Next]_vars

-----------------------------------------------------------------------------
(* Properties                                                              *)

\* Unless two requests raced to hand the code over, a code is verified once:
\* there is one attempt at a time and none after one that succeeded.
VerifiedOnce ==
  raced \/ \A i, j \in DOMAIN attempts : attempts[i].status # "FAIL" /\ i # j
             => attempts[j].status = "FAIL" /\ i < j

\* Unless requests raced, what successive polls are told is a story: the
\* checks of an attempt only go forward, a later attempt follows a failed
\* one, and each failure is told, as a check or as overload.
Order(result) == CASE result = "Pending" -> 0 [] result = "In-progress" -> 1 [] OTHER -> 2
PollFollows ==
  ~raced /\ polled'.told = "steps" =>
    /\ polled'.status = "FAIL" =>
         polled'.infra \/ \E s \in 1..Steps : polled'.checks[s] = "Fail"
    /\ polled.told = "steps" /\ polled.id = polled'.id =>
         \A s \in 1..Steps : Order(polled.checks[s]) <= Order(polled'.checks[s])
    /\ polled.told = "steps" /\ polled.id # polled'.id =>
         polled.id < polled'.id /\ polled.status # "EXACT MATCH"
PollsTellAStory == [][PollFollows]_polled

=============================================================================
