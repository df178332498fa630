---------------------------- MODULE TokenContent ----------------------------
(***************************************************************************)
(* The page of an account bound token (ContractService.getCW4973Detail):   *)
(* what the token's uri holds is fetched when it is first asked for and    *)
(* kept in the column ipfs; '{}' stands for a fetch that failed.           *)
(***************************************************************************)
EXTENDS Integers

CONSTANTS
  Requests,      \* slots for concurrent requests
  Tries,         \* retry(2): attempts of a fetch, each of five seconds
  MaxRequests    \* bound: requests that are started

VARIABLES
  ipfs,          \* the column: "null", "{}" or "content"
  host,          \* the host of the uri answers
  view,          \* view[r]: the column as it was read, then what is fetched
  pc, tries, started,
  answer         \* history: what the last page showed, after how many attempts

vars == <<ipfs, host, view, pc, tries, started, answer>>

Init ==
  /\ ipfs = "null" /\ host = TRUE
  /\ view = [r \in Requests |-> "null"]
  /\ pc = [r \in Requests |-> "idle"]
  /\ tries = [r \in Requests |-> 0] /\ started = 0
  /\ answer = [content |-> "content", tries |-> 0]

Goto(r, step) == pc' = [pc EXCEPT ![r] = step]

\* The host goes down or comes back.
Toggle ==
  /\ host' = ~host
  /\ UNCHANGED <<ipfs, view, pc, tries, started, answer>>

\* "if (!token?.ipfs || token?.ipfs === '{}')"
EmptyOnce(column) == column = "null"
Empty(column)     == column \in {"null", "{}"}

Ask(r) ==
  /\ pc[r] = "idle" /\ started < MaxRequests
  /\ started' = started + 1
  /\ view' = [view EXCEPT ![r] = ipfs]
  /\ tries' = [tries EXCEPT ![r] = 0]
  /\ Goto(r, IF Empty(ipfs) THEN "fetch" ELSE "show")
  /\ UNCHANGED <<ipfs, host, answer>>

Fetch(r) ==
  /\ pc[r] = "fetch"
  /\ tries' = [tries EXCEPT ![r] = @ + 1]
  /\ view' = [view EXCEPT ![r] = IF host THEN "content" ELSE "{}"]
  /\ Goto(r, IF host \/ tries'[r] = Tries THEN "store" ELSE "fetch")
  /\ UNCHANGED <<ipfs, host, started, answer>>

\* The column is updated, whatever it holds by now, before the answer.
Store(r) ==
  /\ pc[r] = "store"
  /\ ipfs' = view[r]
  /\ Goto(r, "show")
  /\ UNCHANGED <<host, view, tries, started, answer>>

Show(r) ==
  /\ pc[r] = "show"
  /\ answer' = [content |-> view[r], tries |-> tries[r]]
  /\ Goto(r, "idle")
  /\ UNCHANGED <<ipfs, host, view, tries, started>>

Quiet == started = MaxRequests /\ UNCHANGED vars

Next == Toggle \/ Quiet \/ \E r \in Requests : Ask(r) \/ Fetch(r) \/ Store(r) \/ Show(r)

Spec == Init /\ [][Next]_vars

-----------------------------------------------------------------------------
(* Properties                                                              *)

\* A page is without content only if every attempt of its own request
\* failed: neither the failure of an earlier page is remembered, nor that of
\* a page at the same time, whose request may even store it over content.
EmptyMeansTried ==
  answer.content # "content" => answer.content = "{}" /\ answer.tries = Tries

=============================================================================
