---------------------------- MODULE AccountTotal ----------------------------
(***************************************************************************)
(* The total balance of an account (AccountService).  It is summed up from *)
(* answers of the indexer and of a node of the chain, which are asked one  *)
(* after another while the account's coins move.  getTotalBalanceByAddress *)
(* reads the LCD in pages, getTotalBalanceByListAddress one page of the    *)
(* RPC for each address.                                                   *)
(***************************************************************************)
EXTENDS Integers, FiniteSetsExt

CONSTANTS
  Validators,    \* 1..n, in the order of their addresses
  PageSize,      \* delegations in a page of the node
  Coins,         \* coins the account starts with
  MaxMoves       \* bound: coins that move, come or go

VARIABLES
  chain,         \* chain[part]: the account's coins
  isValidator,
  otherCoin,     \* rewards also come in a coin that sorts before the chain's
  indexed,       \* the balance, as the indexer has it
  method, pc,
  waiting,       \* the parallel requests that are not answered
  key,           \* pagination.next_key, by part
  got,           \* got[part]: what was read
  missed,        \* history: parts that are left out of the sum, and no error
  moves          \* history: changes since the indexer last knew the balance

vars == <<chain, isValidator, otherCoin, indexed, method, pc, waiting, key, got, missed, moves>>

Paged  == {"staked", "unbonding"}
PartsOf(p) == {p} \X Validators
Balance    == <<"balance", 0>>
Reward     == <<"reward", 0>>
Commission == <<"commission", 0>>
Part   == {Balance, Reward, Commission} \cup (Paged \X Validators)
NoKey  == 0

Total(f, S) == MapThenSumSet(LAMBDA p : f[p], S)
Worth == Total(chain, Part)

\* Rewards are those of a delegation: the chain pays them out with its last
\* coin at the latest.
RewardsAreOfStakes(c) == c[Reward] > 0 => \E x \in PartsOf("staked") : c[x] > 0

\* An account that may have some coins in every part.
Init ==
  /\ isValidator \in BOOLEAN /\ otherCoin \in BOOLEAN
  /\ chain \in {c \in [Part -> 0..Coins] :
                /\ Total(c, Part) = Coins
                /\ RewardsAreOfStakes(c)
                /\ isValidator \/ c[Commission] = 0}
  /\ indexed = chain[Balance]
  /\ method \in {"single", "list"}
  /\ pc = "ask" /\ waiting = {"account", "validator"} \cup Paged
  /\ key = [p \in Paged |-> NoKey]
  /\ got = [p \in Part |-> 0]
  /\ missed = {} /\ moves = 0

-----------------------------------------------------------------------------
(* The chain and its indexer                                               *)

Route ==
  {<<Balance, <<"staked", v>>>> : v \in Validators}
    \cup {<<<<"staked", v>>, <<"unbonding", v>>>> : v \in Validators}
    \cup {<<<<"unbonding", v>>, Balance>> : v \in Validators}
    \cup {<<<<"staked", v>>, <<"staked", w>>>> : v, w \in Validators}
    \cup {<<Reward, Balance>>, <<Commission, Balance>>}

Changed(c) ==
  /\ moves < MaxMoves /\ pc # "answered"
  /\ RewardsAreOfStakes(c)
  /\ chain' = c
  /\ moves' = moves + 1
  /\ UNCHANGED <<isValidator, otherCoin, indexed, method, pc, waiting, key, got, missed>>
Move ==
  \E r \in Route :
    /\ r[1] # r[2] /\ chain[r[1]] > 0
    /\ Changed([chain EXCEPT ![r[1]] = @ - 1, ![r[2]] = @ + 1])
Earn ==
  \E p \in {Balance, Reward} \cup (IF isValidator THEN {Commission} ELSE {}) :
    Changed([chain EXCEPT ![p] = @ + 1])
Spend == chain[Balance] > 0 /\ Changed([chain EXCEPT ![Balance] = @ - 1])

Index ==
  /\ indexed # chain[Balance]
  /\ indexed' = chain[Balance]
  /\ UNCHANGED <<chain, isValidator, otherCoin, method, pc, waiting, key, got, missed, moves>>

-----------------------------------------------------------------------------
(* The request                                                             *)

Goto(step) == pc' = step
Unmoved == UNCHANGED <<chain, isValidator, otherCoin, indexed, method, moves>>

\* A page of a node: the delegations from a key on, and the next key.
Delegations(p, from) == {v \in Validators : v >= from /\ chain[<<p, v>>] > 0}
FirstOf(S) == {v \in S : Cardinality({w \in S : w < v}) < PageSize}
NextKey(p, from) ==
  LET rest == Delegations(p, from) \ FirstOf(Delegations(p, from))
  IN IF rest = {} THEN NoKey ELSE Min(rest)
AddPage(p, from) ==
  got' = [x \in Part |-> IF x \in {p} \X FirstOf(Delegations(p, from)) THEN chain[x] ELSE got[x]]

\* Promise.all: what the indexer and the node answer, in any order.
\* available + delegatedVesting is the whole balance.
ReadAccount ==
  /\ pc = "ask" /\ "account" \in waiting
  /\ waiting' = waiting \ {"account"}
  /\ got' = [got EXCEPT ![Balance] = indexed]
  /\ UNCHANGED <<pc, key, missed>> /\ Unmoved
ReadValidator ==
  /\ pc = "ask" /\ "validator" \in waiting
  /\ waiting' = waiting \ {"validator"}
  /\ UNCHANGED <<pc, key, got, missed>> /\ Unmoved
ReadFirst(p) ==
  /\ pc = "ask" /\ p \in waiting
  /\ waiting' = waiting \ {p}
  /\ AddPage(p, 1)
  /\ IF method = "single"
     THEN key' = [key EXCEPT ![p] = NextKey(p, 1)] /\ UNCHANGED missed
     ELSE /\ missed' = IF NextKey(p, 1) = NoKey THEN missed ELSE missed \cup {p}
          /\ UNCHANGED key
  /\ UNCHANGED pc /\ Unmoved

\* getDataAPI and fetchDataFromGraphQL return null for any error; a query of
\* the RPC is rejected, and allSettled drops it.
Miss ==
  /\ pc = "ask"
  /\ \E x \in waiting :
       /\ waiting' = waiting \ {x}
       /\ missed' = missed \cup {x}
  /\ UNCHANGED <<pc, key, got>> /\ Unmoved

\* No account, or no answer: the amount is 0, or the account is left out of
\* the list.  Without delegations of the LCD the request fails.
Proceed ==
  /\ pc = "ask" /\ waiting = {}
  /\ IF "account" \in missed
     THEN Goto("answered") /\ got' = [p \in Part |-> 0]
     ELSE /\ UNCHANGED got
          /\ Goto(IF method = "single" /\ missed \cap Paged # {} THEN "failed" ELSE "staked")
  /\ UNCHANGED <<waiting, key, missed>> /\ Unmoved

\* while (!!nextKey)
After == [staked |-> "reward", unbonding |-> "commission"]
NextPage(p) ==
  /\ pc = p /\ key[p] # NoKey
  /\ \/ AddPage(p, key[p]) /\ key' = [key EXCEPT ![p] = NextKey(p, key[p])] /\ UNCHANGED pc
     \/ Goto("failed") /\ UNCHANGED <<key, got>>
  /\ UNCHANGED <<waiting, missed>> /\ Unmoved
PagesEnd(p) ==
  /\ pc = p /\ key[p] = NoKey
  /\ Goto(After[p])
  /\ UNCHANGED <<waiting, key, got, missed>> /\ Unmoved

\* Rewards are asked for only if something is delegated, the commission only
\* for an account of a validator.  Only the first coin of the answer counts.
\* An error is left out of the single total, and fails the list.
ReadLast(p, needed, next) ==
  /\ pc = p[1]
  /\ \/ /\ needed /\ ~otherCoin
        /\ got' = [got EXCEPT ![p] = chain[p]] /\ UNCHANGED missed /\ Goto(next)
     \/ /\ needed /\ (otherCoin \/ method = "single")
        /\ missed' = missed \cup {p[1]} /\ UNCHANGED got /\ Goto(next)
     \/ needed /\ method = "list" /\ Goto("failed") /\ UNCHANGED <<got, missed>>
     \/ ~needed /\ Goto(next) /\ UNCHANGED <<got, missed>>
  /\ UNCHANGED <<waiting, key>> /\ Unmoved
ReadReward     == ReadLast(Reward, \E x \in PartsOf("staked") : got[x] > 0, "unbonding")
ReadCommission == ReadLast(Commission, isValidator /\ "validator" \notin missed, "answered")

AmountWithoutRewards == Total(got, Part \ {Reward})
Amount == Total(got, Part)

Quiet == pc \in {"answered", "failed"} /\ UNCHANGED vars

Request ==
  \/ ReadAccount \/ ReadValidator \/ Miss \/ Proceed \/ ReadReward \/ ReadCommission
  \/ \E p \in Paged : ReadFirst(p) \/ NextPage(p) \/ PagesEnd(p)

Next == Move \/ Earn \/ Spend \/ Index \/ Request \/ Quiet

Spec == Init /\ [][Next]_vars

-----------------------------------------------------------------------------
(* Properties                                                              *)

\* Each coin that moves while the answers are collected, or that the indexer
\* has not seen, makes the amount wrong by one coin at most; an answer that
\* was left out can only make it too low.  So the amount is right when
\* nothing moves and nothing is left out, however the pages fall.
TotalIsNearWorth ==
  pc = "answered" =>
    /\ Amount - Worth <= moves
    /\ missed = {} => Worth - Amount <= moves

=============================================================================
