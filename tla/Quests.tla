------------------------------- MODULE Quests -------------------------------
(***************************************************************************)
(* The quests of the Micro 3 campaign (Micro3CampaignService.verifyQuest): *)
(* whether an address did something often enough, or holds enough.  The    *)
(* answer comes from the indexer, from the Punkga API, from a subgraph, or *)
(* from the last transactions of each pool of HaloTrade, read pool by pool *)
(* while others trade.                                                     *)
(***************************************************************************)
EXTENDS Integers, SequencesExt

CONSTANTS
  PoolCount,     \* pools of HaloTrade
  Window,        \* pageSize: the transactions of a pool that are read, ten
  Graph,         \* entities that the subgraph returns unless asked for more
  MaxDeeds,      \* bound: deeds of the address, of each kind
  MaxTrades,     \* bound: trades in all pools
  Amounts        \* amounts that are asked for, and NaN

VARIABLES
  pool,          \* pool[p]: its trades, newest first, TRUE if the address did it
  quest,         \* the quest that is asked for, again and again
  deeds,         \* what the address did of it, or has
  pc,
  left,          \* pools that are not read yet
  senders,       \* trades of the address that were found
  broken,        \* history: an answer did not come
  verdict,       \* the last answer
  proven         \* history: the quest was told to be done

vars == <<pool, quest, deeds, pc, left, senders, broken, verdict, proven>>

NaN   == -1
Kinds == {"mint-nft", "hold-aura", "punka-cp", "v2", "v3"}
Quest == [kind : Kinds, amount : Amounts \cup {NaN}]

Init ==
  /\ deeds = 0
  /\ pool = [p \in 1..PoolCount |-> <<>>]
  /\ quest \in Quest
  /\ pc = "start" /\ left = <<>> /\ senders = 0
  /\ broken = FALSE /\ verdict = FALSE /\ proven = FALSE

-----------------------------------------------------------------------------
(* The chains and services                                                 *)

\* Only a balance shrinks again.
Act ==
  \E more \in {1, -1} :
    /\ quest.kind # "v2"
    /\ more = -1 => quest.kind = "hold-aura"
    /\ deeds + more \in 0..MaxDeeds
    /\ deeds' = deeds + more
    /\ UNCHANGED <<pool, quest, pc, left, senders, broken, verdict, proven>>

Trades == FoldFunction(LAMBDA s, n : Len(s) + n, 0, pool)
Trade ==
  \E p \in DOMAIN pool, own \in BOOLEAN :
    /\ quest.kind = "v2" /\ Trades < MaxTrades
    /\ pool' = [pool EXCEPT ![p] = <<own>> \o @]
    /\ deeds' = deeds + (IF own THEN 1 ELSE 0)
    /\ UNCHANGED <<quest, pc, left, senders, broken, verdict, proven>>

-----------------------------------------------------------------------------
(* verifyQuest                                                             *)

Least(a, b) == IF a < b THEN a ELSE b
AtLeast(n, amount) == amount # NaN /\ n >= amount

\* verifyMintNft: "limit: amount || 10".
MintLimit(amount) == IF amount \in {0, NaN} THEN 10 ELSE amount

Found(q) ==
  CASE q.kind = "mint-nft" -> Least(deeds, MintLimit(q.amount))
    [] q.kind = "v3"       -> Least(deeds, Graph)
    [] OTHER               -> deeds

\* Without a level or a balance nothing is compared.
Nothing(q) == q.kind \in {"punka-cp", "hold-aura"} /\ deeds = 0

Goto(step) == pc' = step
Conclude(result) ==
  /\ verdict' = result
  /\ proven' = (proven \/ result)
  /\ Goto("told")

\* verifyMintNft, verifyHoldAura, verifyPunkga and verifyWithUniV3
VerifyAtOnce ==
  /\ pc = "start" /\ quest.kind # "v2"
  /\ Conclude(~Nothing(quest) /\ AtLeast(Found(quest), quest.amount))
  /\ UNCHANGED <<deeds, pool, quest, left, senders, broken>>

\* getSenderFromHalo
ListPools ==
  /\ pc = "start" /\ quest.kind = "v2"
  /\ left' = [p \in 1..PoolCount |-> p] /\ senders' = 0
  /\ Goto("pools")
  /\ UNCHANGED <<deeds, pool, quest, broken, verdict, proven>>

AnyTrade(s)  == Len(s)
OwnTrades(s) == Cardinality({i \in DOMAIN s : s[i]})
Latest(p)    == SubSeq(pool[p], 1, Least(Window, Len(pool[p])))

\* A pool whose transactions do not come is left out.
ReadPool ==
  /\ pc = "pools" /\ left # <<>>
  /\ left' = Tail(left)
  /\ \/ senders' = senders + OwnTrades(Latest(Head(left))) /\ UNCHANGED broken
     \/ broken' = TRUE /\ UNCHANGED senders
  /\ UNCHANGED <<deeds, pool, quest, pc, verdict, proven>>

VerifyV2 ==
  /\ pc = "pools" /\ left = <<>>
  /\ Conclude(AtLeast(senders, quest.amount))
  /\ UNCHANGED <<deeds, pool, quest, left, senders, broken>>

\* No answer: FALSE, except that a list of pools or an indexer that does not
\* answer fails the request of a "v2" or a "mint-nft" quest.
Break ==
  /\ pc = "start" /\ broken' = TRUE
  /\ IF quest.kind \in {"v2", "mint-nft"}
     THEN Goto("failed") /\ UNCHANGED <<verdict, proven>>
     ELSE Conclude(FALSE)
  /\ UNCHANGED <<deeds, pool, quest, left, senders>>

AskAgain ==
  /\ pc \in {"told", "failed"}
  /\ Goto("start") /\ broken' = FALSE
  /\ UNCHANGED <<deeds, pool, quest, left, senders, verdict, proven>>

Next ==
  \/ Act \/ Trade
  \/ VerifyAtOnce \/ ListPools \/ ReadPool \/ VerifyV2 \/ Break \/ AskAgain

Spec == Init /\ [][Next]_vars

-----------------------------------------------------------------------------
(* Properties                                                              *)

\* A quest is told to be done only if it is, and once told so it stays so:
\* but for a balance that was spent, an answer that did not come, and trades
\* of a pool that later ones have pushed out of its window.
Pushed == \E p \in DOMAIN pool : Len(pool[p]) > Window
QuestsStayDone ==
  pc = "told" =>
    /\ verdict /\ quest.kind # "hold-aura" => deeds >= quest.amount
    /\ ~verdict /\ proven =>
         broken \/ quest.kind = "hold-aura" \/ (quest.kind = "v2" /\ Pushed)

=============================================================================
