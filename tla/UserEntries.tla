---------------------------- MODULE UserEntries ----------------------------
(***************************************************************************)
(* The entries of one user: his watch list (WatchListService) and his      *)
(* private name tags (PrivateNameTagService), in several explorers.  A     *)
(* request checks a limit, an address and a name in statements of their    *)
(* own and then inserts or updates; only the address is also guarded by a  *)
(* unique key of the database, over all explorers.                         *)
(***************************************************************************)
EXTENDS Integers, FiniteSets, Sequences

CONSTANTS
  Explorers, Addresses, Names,
  Requests,      \* slots for the user's concurrent requests
  Limit,         \* watchList.limitAddress, limitedPrivateNameTag
  MaxRequests,   \* bound: requests that are started
  Removed,       \* the place of a deleted row
  NoName         \* no name in a request; the name of a watch list entry

Tables  == {"watch_list", "private_name_tag"}
Watched == [table : {"watch_list"}, explorer : Explorers, address : Addresses,
            name : {NoName}]
Tag     == [table : {"private_name_tag"}, explorer : Explorers, address : Addresses,
            name : Names]
Entry   == Watched \cup Tag

ASSUME ConstantsOK ==
  /\ IsFiniteSet(Requests) /\ Requests # {}
  /\ Limit \in Nat \ {0} /\ MaxRequests \in Nat
  /\ NoName \notin Names
  /\ Removed \notin Entry
  /\ Removed \notin [table : Tables, explorer : Explorers, address : Addresses]

VARIABLES
  entries,      \* the rows ever inserted; the id is the position
  request,      \* request[r]: what the request in slot r holds
  started,
  overlapped,   \* history: two requests were open at the same time
  foreign       \* history: a tag was updated in the name of another explorer

vars == <<entries, request, started, overlapped, foreign>>

\* explorer: that of the request; id: the row that is updated or deleted.
Blank == [op |-> "none", at |-> "idle"]
Creation == [op : {"create"}, at : {"count", "address", "name", "insert"}, entry : Entry]
Rename == [op : {"update"}, at : {"name", "load"}, id : Nat,
           explorer : Explorers, name : Names \cup {NoName}]
Rewrite == [op : {"update"}, at : {"write"}, id : Nat, row : Tag]
Moving  == [op : {"move"}, at : {"write"}, id : Nat, address : Addresses]
Removal == [op : {"remove"}, at : {"delete"}, id : Nat]

\* What a request writes to was a row of its table when it was found.
OnRow(q) ==
  /\ q.op \in {"update", "move", "remove"} => q.id \in DOMAIN entries
  /\ q.op = "update" => entries[q.id] \in Tag \cup {Removed}
  /\ q.op = "move" => entries[q.id] \in Watched \cup {Removed}

TypeOK ==
  /\ entries \in Seq(Entry \cup {Removed})
  /\ request \in [Requests -> {Blank} \cup Creation \cup Rename \cup Rewrite \cup Moving \cup Removal]
  /\ \A r \in Requests : OnRow(request[r])
  /\ started \in 0..MaxRequests
  /\ overlapped \in BOOLEAN /\ foreign \in BOOLEAN

Init ==
  /\ entries = <<>>
  /\ request = [r \in Requests |-> Blank]
  /\ started = 0
  /\ overlapped = FALSE /\ foreign = FALSE

-----------------------------------------------------------------------------
Live       == {i \in DOMAIN entries : entries[i] # Removed}
In(t)      == {i \in Live : entries[i].table = t}
Held(t, e) == {i \in In(t) : entries[i].explorer = e}

\* The unique keys (address, user) of both tables.
Keyed(t, a) == {i \in In(t) : entries[i].address = a}

Start(r, q) ==
  /\ request[r] = Blank /\ started < MaxRequests
  /\ started' = started + 1
  /\ request' = [request EXCEPT ![r] = q]
  /\ overlapped' = (overlapped \/ \E s \in Requests : request[s] # Blank)

At(r, op, at) == request[r].op = op /\ request[r].at = at
Goto(r, at)   == request' = [request EXCEPT ![r].at = at]
Finish(r)     == request' = [request EXCEPT ![r] = Blank]
Rest          == UNCHANGED <<started, overlapped, foreign>>

-----------------------------------------------------------------------------
(* create of both services                                                 *)

Create(r) ==
  \E entry \in Entry :
    /\ Start(r, [op |-> "create", at |-> "count", entry |-> entry])
    /\ UNCHANGED <<entries, foreign>>

FullOver(n) == n > Limit
Full(n)     == n >= Limit
AfterCount(t) == IF t = "watch_list" THEN "insert" ELSE "address"

CountEntries(r) ==
  /\ At(r, "create", "count")
  /\ LET new == request[r].entry IN
     IF Full(Cardinality(Held(new.table, new.explorer)))
     THEN Finish(r) ELSE Goto(r, AfterCount(new.table))
  /\ UNCHANGED entries /\ Rest

FindAddress(r) ==
  /\ At(r, "create", "address")
  /\ IF Keyed("private_name_tag", request[r].entry.address) # {}
     THEN Finish(r) ELSE Goto(r, "name")
  /\ UNCHANGED entries /\ Rest

\* "id: Not(id), createdBy, nameTag, explorer"
NamedItself(n, e, id) == {i \in Held("private_name_tag", e) \cap {id} : entries[i].name = n}
Named(n, e, id) == {i \in Held("private_name_tag", e) \ {id} : entries[i].name = n}

FindName(r) ==
  \/ /\ At(r, "create", "name")
     /\ IF Named(request[r].entry.name, request[r].entry.explorer, 0) # {}
        THEN Finish(r) ELSE Goto(r, "insert")
     /\ UNCHANGED entries /\ Rest
  \/ /\ At(r, "update", "name")
     /\ IF Named(request[r].name, request[r].explorer, request[r].id) # {}
        THEN Finish(r) ELSE Goto(r, "load")
     /\ UNCHANGED entries /\ Rest

Insert(r) ==
  /\ At(r, "create", "insert")
  /\ LET new == request[r].entry IN
     entries' = IF Keyed(new.table, new.address) = {} THEN Append(entries, new) ELSE entries
  /\ Finish(r) /\ Rest

-----------------------------------------------------------------------------
(* updateNameTag                                                           *)

\* The name is optional; the explorer is that of the request.
UpdateTag(r) ==
  \E id \in In("private_name_tag"), e \in Explorers, n \in Names \cup {NoName} :
    /\ Start(r, [op |-> "update", at |-> "name", id |-> id, explorer |-> e, name |-> n])
    /\ foreign' = (foreign \/ e # entries[id].explorer)
    /\ UNCHANGED entries

\* The whole row is written as it is read here, with the name of the request
\* if it has one.
RenamedAlways(row, n) == [row EXCEPT !.name = n]
Renamed(row, n)       == IF n = NoName THEN row ELSE [row EXCEPT !.name = n]

LoadTag(r) ==
  /\ At(r, "update", "load")
  /\ LET q == request[r] IN
     IF entries[q.id] = Removed THEN Finish(r)
     ELSE request' = [request EXCEPT ![r] =
            [op |-> "update", at |-> "write", id |-> q.id,
             row |-> Renamed(entries[q.id], q.name)]]
  /\ UNCHANGED entries /\ Rest

\* An UPDATE of a row that is gone changes nothing.
Saved(id, row)   == row
Updated(id, row) == IF entries[id] = Removed THEN Removed ELSE row

WriteTag(r) ==
  /\ At(r, "update", "write")
  /\ entries' = [entries EXCEPT ![request[r].id] = Updated(request[r].id, request[r].row)]
  /\ Finish(r) /\ Rest

-----------------------------------------------------------------------------
(* update and remove of the watch list, deleteNameTag                      *)

\* findOneOrFail for the id in the explorer of the request; only an address
\* in the request changes what is modelled here.
MoveWatched(r) ==
  \E id \in In("watch_list"), a \in Addresses :
    /\ Start(r, [op |-> "move", at |-> "write", id |-> id, address |-> a])
    /\ UNCHANGED <<entries, foreign>>

WriteWatched(r) ==
  /\ At(r, "move", "write")
  /\ LET q == request[r] IN
     entries' = IF entries[q.id] = Removed \/ Keyed("watch_list", q.address) # {}
                THEN entries ELSE [entries EXCEPT ![q.id] = [@ EXCEPT !.address = q.address]]
  /\ Finish(r) /\ Rest

FindToRemove(r) ==
  \E id \in Live :
    /\ Start(r, [op |-> "remove", at |-> "delete", id |-> id])
    /\ UNCHANGED <<entries, foreign>>

Delete(r) ==
  /\ At(r, "remove", "delete")
  /\ entries' = [entries EXCEPT ![request[r].id] = Removed]
  /\ Finish(r) /\ Rest

\* No request is open: the only state in which nothing has to happen.
Quiet == (\A r \in Requests : request[r] = Blank) /\ UNCHANGED vars

Step(r) ==
  \/ Create(r) \/ CountEntries(r) \/ FindAddress(r) \/ FindName(r) \/ Insert(r)
  \/ UpdateTag(r) \/ LoadTag(r) \/ WriteTag(r)
  \/ MoveWatched(r) \/ WriteWatched(r) \/ FindToRemove(r) \/ Delete(r)

Next == Quiet \/ \E r \in Requests : Step(r)

Spec == Init /\ [][Next]_vars

-----------------------------------------------------------------------------
(* Properties                                                              *)

\* "You have reached out of ... max limitation": requests that count before
\* others insert may pass the limit, but never by as many entries as there
\* are requests at a time.
OvershootIsBounded ==
  \A t \in Tables, e \in Explorers :
    Cardinality(Held(t, e)) <= Limit + Cardinality(Requests) - 1

\* "Duplicate private name tag": the tags of an explorer have different names.
NamesAreUnique ==
  \A e \in Explorers : \A i, j \in Held("private_name_tag", e) :
    entries[i].name = entries[j].name => i = j

\* The check, which is no unique key, suffices while the user's requests do
\* not overlap and a tag is updated in the name of its own explorer.
NamesAreUniqueAlone == ~overlapped /\ ~foreign => NamesAreUnique

\* The rows without their names are such a table, however the requests
\* interleave: no address twice, a bounded number of entries, and no update
\* brings back a row that was deleted since it was read.
Rows ==
  [i \in DOMAIN entries |->
     IF entries[i] = Removed THEN Removed
     ELSE [table |-> entries[i].table, explorer |-> entries[i].explorer,
           address |-> entries[i].address]]

Table ==
  INSTANCE EntryTable WITH
    Movable <- {"watch_list"}, Bound <- Limit + Cardinality(Requests) - 1, rows <- Rows

ImplementsTable == Table!Spec

=============================================================================
