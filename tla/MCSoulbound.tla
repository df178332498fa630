---------------------------- MODULE MCSoulbound ----------------------------
(* Small instances of Soulbound for TLC. *)
EXTENDS Soulbound, TLC

\* Of the other tokens, only the job writes rows: a request would write a row
\* without a step of the job and without a save that lands.
CONSTANT Asked   \* the tokens that requests are about
OnlyAsked ==
  /\ \A r \in Requests : request'[r] # Idle => request'[r].token \in Asked
  /\ \A t \in Tokens \ Asked : row'[t] # row[t] => <<pc, writes>>' # <<pc, writes>>

\* Activities, failures and open requests share one bound.
Scenario ==
  Len(chain) + fails + Cardinality({r \in Requests : request[r] # Idle}) <= MaxActivity

Symmetry == Permutations(Tokens) \cup Permutations(Requests)

=============================================================================
