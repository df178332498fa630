-------------------------- MODULE NotificationMatch --------------------------
(***************************************************************************)
(* From a page of the indexer to the notices of the users who watch its    *)
(* addresses (NotificationProcessor, NotificationUtil).  A page is a list  *)
(* of messages or transfers; those of a transaction that have the same     *)
(* sender, or the same receiver, become one notice.                        *)
(***************************************************************************)
EXTENDS Integers, SequencesExt

CONSTANTS
  Users, Addresses,
  Txs,           \* transactions
  Restakes,      \* those of a restaking service (MsgExec)
  MaxMoves,      \* bound: messages or transfers in a page
  MaxEntries,    \* bound: entries of the watch list
  Null           \* mint and burn have no sender or no receiver

VARIABLES
  job,           \* which of the jobs
  page,          \* the moves: tx, from, to
  entries,       \* the watch list: user, address and settings
  tag,           \* a private name tag: whose, and for which address
  notices,       \* the notices, or Null before the run and after one that failed
  pc

vars == <<job, page, entries, tag, notices, pc>>

Jobs == {"executed", "coin", "token-or-nft"}
Side == {"sent", "received"}
Move == [tx : Txs, from : Addresses \cup {Null}, to : Addresses \cup {Null}]
\* "sent" stands for transactionExecuted, nativeCoinSent.turnOn, tokenSent or
\* nftSent; quiet for inactiveAutoRestake.  What is not on is off, or lacks in
\* a settings object that is there.
Entry == [user : Users, address : Addresses, on : SUBSET Side, lacks : SUBSET Side,
          quiet : BOOLEAN]

\* A message has a sender, and a transfer of coins both ends.
Moves ==
  CASE job = "executed" -> {m \in Move : m.from # Null /\ m.to = Null}
    [] job = "coin"     -> {m \in Move : m.from # Null /\ m.to # Null}
    [] OTHER            -> {m \in Move : m.from # Null \/ m.to # Null}

Init ==
  /\ job \in Jobs
  /\ page = <<>> /\ entries = <<>>
  /\ tag \in [user : Users, address : Addresses]
  /\ notices = Null /\ pc = "page"

\* What the indexer has and the users watch.
AddMove ==
  /\ pc = "page" /\ Len(page) < MaxMoves
  /\ \E m \in Moves : page' = Append(page, m)
  /\ UNCHANGED <<job, entries, tag, notices, pc>>
AddEntry ==
  /\ pc \in {"page", "entries"} /\ Len(entries) < MaxEntries
  /\ \E e \in Entry :
       /\ \A i \in DOMAIN entries : <<entries[i].user, entries[i].address>> # <<e.user, e.address>>
       /\ e.lacks \cap e.on = {}
       /\ e.quiet \/ e.lacks # {} => job = "coin"   \* elsewhere a setting that lacks is off
       /\ entries' = Append(entries, e)
  /\ pc' = "entries"
  /\ UNCHANGED <<job, page, tag, notices>>

-----------------------------------------------------------------------------
(* preProcessNotification                                                  *)

\* Array.filter: the elements at some of the places of s, in their order.
Those(s, places) ==
  [n \in 1..Cardinality(places) |->
     s[CHOOSE i \in places : Cardinality(places \cap 1..i) = n]]

\* Array.from(new Set(...)): in the order of their first occurrence.
Unique(s) == Those(s, {i \in DOMAIN s : \A j \in 1..(i - 1) : s[j] # s[i]})

\* getTxNotifySent and getTxNotifyReceived: one end of a group is null.
Group(tx, from, to, moves) == [tx |-> tx, from |-> from, to |-> to, moves |-> moves]

KeysByTx(s) == Unique([i \in DOMAIN s |-> <<s[i].tx, s[1].from>>])
SentKeys(s) == Unique([i \in DOMAIN s |-> <<s[i].tx, s[i].from>>])
ReceivedKeys(s) == Unique([i \in DOMAIN s |-> <<s[i].tx, s[i].to>>])
NotifySent(s) ==
  LET keys == SentKeys(Those(s, {i \in DOMAIN s : s[i].from # Null}))
  IN [n \in DOMAIN keys |->
        Group(keys[n][1], keys[n][2], Null,
              Those(s, {i \in DOMAIN s : <<s[i].tx, s[i].from>> = keys[n]}))]
NotifyReceived(s) ==
  LET keys == ReceivedKeys(Those(s, {i \in DOMAIN s : s[i].to # Null}))
  IN [n \in DOMAIN keys |->
        Group(keys[n][1], Null, keys[n][2],
              Those(s, {i \in DOMAIN s : <<s[i].tx, s[i].to>> = keys[n]}))]

-----------------------------------------------------------------------------
(* process...Notification                                                  *)

\* getNameTag, with the tags of all users at hand.
Tagged(e) == tag.user = e.user /\ tag.address = e.address

Notice(e, g, side) ==
  [user |-> e.user, address |-> e.address, tx |-> g.tx, side |-> side,
   num |-> Len(g.moves), tagged |-> Tagged(e)]

\* A group has no tx_msg, by which a restaking transaction is known.
IsRestakeTx(g) == "tx_msg" \in DOMAIN g /\ g.tx_msg \in Restakes

Watchers(side) == Those(entries, {i \in DOMAIN entries : side \in entries[i].on})
Hits(g, watchers) ==
  Those(watchers, {i \in DOMAIN watchers : /\ watchers[i].address \in {g.from, g.to}
                                           /\ ~(watchers[i].quiet /\ IsRestakeTx(g))})
NoticesOf(groups, side) ==
  FlattenSeq([n \in DOMAIN groups |->
    LET g    == groups[n]
        hits == Hits(g, Watchers(side))
    IN [k \in DOMAIN hits |->
          Notice(hits[k], g, IF hits[k].address = g.to THEN "received" ELSE "sent")]])

\* processExecutedNotification: one notice for a transaction, whichever of
\* its messages the watched address has sent.
Transactions ==
  LET txs == Unique([i \in DOMAIN page |-> page[i].tx])
  IN [n \in DOMAIN txs |-> Those(page, {i \in DOMAIN page : page[i].tx = txs[n]})]
Senders(moves, watchers) ==
  Those(watchers, {i \in DOMAIN watchers :
                     \E j \in DOMAIN moves : moves[j].from = watchers[i].address})
ExecutedNotices ==
  FlattenSeq([n \in DOMAIN Transactions |->
    LET moves == Transactions[n]
        hits  == Senders(moves, Watchers("sent"))
    IN [k \in DOMAIN hits |-> Notice(hits[k], [tx |-> moves[1].tx, moves |-> moves], "sent")]])

\* The filter of the watch list reads turnOn of a setting that lacks.
Throws == job = "coin" /\ page # <<>> /\ \E i \in DOMAIN entries : entries[i].lacks # {}

Run ==
  /\ pc # "done"
  /\ notices' =
       IF Throws THEN Null
       ELSE IF job = "executed" THEN ExecutedNotices
       ELSE NoticesOf(NotifySent(page), "sent") \o NoticesOf(NotifyReceived(page), "received")
  /\ pc' = "done"
  /\ UNCHANGED <<job, page, entries, tag>>

Quiet == pc = "done" /\ UNCHANGED vars

Next == AddMove \/ AddEntry \/ Run \/ Quiet

Spec == Init /\ [][Next]_vars

-----------------------------------------------------------------------------
(* Properties                                                              *)

End(m, side) == IF side = "sent" THEN m.from ELSE m.to
MovesOf(a, tx, side) == {i \in DOMAIN page : page[i].tx = tx /\ End(page[i], side) = a}
Expected ==
  {x \in Users \X Addresses \X Txs \X Side :
     /\ MovesOf(x[2], x[3], x[4]) # {}
     /\ \E i \in DOMAIN entries :
          /\ entries[i].user = x[1] /\ entries[i].address = x[2]
          /\ x[4] \in entries[i].on}

\* The user may wish not to be told: inactiveAutoRestake and a restaking
\* transaction.
Spared(x) ==
  /\ x[3] \in Restakes
  /\ \E i \in DOMAIN entries :
       entries[i].user = x[1] /\ entries[i].address = x[2] /\ entries[i].quiet

\* Unless a run of the coin job fails on settings that lack a side, a user has
\* one notice for each transaction and each side of it on which an address of
\* his took part with the setting turned on, for all the transfers of that
\* side together, with his own name for the address; and no other.  Of
\* restaking transactions nothing is said to users who set inactiveAutoRestake.
NoticesFollowSettings ==
  pc = "done" /\ ~(job = "coin" /\ \E i \in DOMAIN entries : entries[i].lacks # {}) =>
    LET told == {<<n.user, n.address, n.tx, n.side>> : n \in Range(notices)} IN
    /\ Len(notices) = Cardinality(told)
    /\ told \subseteq Expected /\ \A x \in Expected : x \in told \/ Spared(x)
    /\ \A n \in Range(notices) :
         /\ job # "executed" => n.num = Cardinality(MovesOf(n.address, n.tx, n.side))
         /\ n.tagged <=> tag = [user |-> n.user, address |-> n.address]

=============================================================================
