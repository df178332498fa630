------------------------- MODULE UserEntriesProofs -------------------------
(***************************************************************************)
(* Theorems about UserEntries, for any number of requests, explorers,      *)
(* addresses and names, and any limit.                                     *)
(***************************************************************************)
EXTENDS UserEntries, FiniteSetTheorems, TLAPS

Open == Creation \cup Rename \cup Rewrite \cup Moving \cup Removal

\* A request that holds a row as it read it holds its present address.
ReadsHold ==
  \A r \in Requests :
    At(r, "update", "write") /\ entries[request[r].id] # Removed =>
      /\ entries[request[r].id].explorer = request[r].row.explorer
      /\ entries[request[r].id].address = request[r].row.address

\* The requests that have passed the limit of a table and not yet inserted.
Admitted(t, e) ==
  {r \in Requests : /\ request[r].op = "create" /\ request[r].at # "count"
                    /\ request[r].entry.table = t /\ request[r].entry.explorer = e}

AdmittedFit ==
  \A t \in Tables, e \in Explorers :
    Cardinality(Held(t, e)) + Cardinality(Admitted(t, e)) <= Limit + Cardinality(Requests) - 1

Inv == TypeOK /\ ReadsHold /\ AdmittedFit

-----------------------------------------------------------------------------
(* Type correctness.                                                       *)

\* Rows stay rows of their table, or are removed.
Kept ==
  \A i \in DOMAIN entries :
    /\ i \in DOMAIN entries'
    /\ entries[i] \in Tag \cup {Removed} => entries'[i] \in Tag \cup {Removed}
    /\ entries[i] \in Watched \cup {Removed} => entries'[i] \in Watched \cup {Removed}

LEMMA FinishTypes ==
  ASSUME TypeOK, NEW r \in Requests, Finish(r), Rest,
         entries' \in Seq(Entry \cup {Removed}), Kept
  PROVE  TypeOK'
<1>1. request' \in [Requests -> {Blank} \cup Open]
  BY DEF TypeOK, Finish, Open
<1>2. ASSUME NEW s \in Requests PROVE OnRow(request[s])'
  <2>1. CASE s = r
    BY <2>1 DEF TypeOK, Finish, OnRow, Blank
  <2>2. CASE s # r
    BY <2>2 DEF TypeOK, Finish, OnRow, Kept
  <2>3. QED
    BY <2>1, <2>2
<1>3. QED
  BY <1>1, <1>2 DEF TypeOK, Rest, Open

LEMMA GotoTypes ==
  ASSUME TypeOK, NEW r \in Requests, NEW q \in Open, OnRow(q),
         request' = [request EXCEPT ![r] = q], UNCHANGED entries,
         started' \in 0..MaxRequests, overlapped' \in BOOLEAN, foreign' \in BOOLEAN
  PROVE  TypeOK'
<1>1. request' \in [Requests -> {Blank} \cup Open]
  BY DEF TypeOK, Open
<1>2. ASSUME NEW s \in Requests PROVE OnRow(request[s])'
  BY DEF TypeOK, OnRow
<1>3. QED
  BY <1>1, <1>2 DEF TypeOK, Open

LEMMA StartTypes ==
  ASSUME TypeOK, NEW r \in Requests, NEW q \in Open, OnRow(q), Start(r, q),
         UNCHANGED entries, foreign' \in BOOLEAN
  PROVE  TypeOK'
<1>1. started' \in 0..MaxRequests /\ overlapped' \in BOOLEAN
  BY ConstantsOK DEF TypeOK, Start
<1>2. QED
  BY <1>1, GotoTypes DEF Start

\* What a request holds follows from what it does.
LEMMA Holds ==
  ASSUME TypeOK, NEW r \in Requests
  PROVE  /\ request[r].op = "create" => request[r] \in Creation
         /\ request[r].op = "update" /\ request[r].at # "write" => request[r] \in Rename
         /\ At(r, "update", "write") => request[r] \in Rewrite
         /\ request[r].op = "move" => request[r] \in Moving
         /\ request[r].op = "remove" => request[r] \in Removal
BY DEF TypeOK, At, Blank, Creation, Rename, Rewrite, Moving, Removal

LEMMA LiveEntries ==
  ASSUME TypeOK
  PROVE  /\ \A i \in Live : i \in DOMAIN entries /\ entries[i] \in Entry
         /\ \A i \in In("private_name_tag") : entries[i] \in Tag
         /\ \A i \in In("watch_list") : entries[i] \in Watched
         /\ DOMAIN entries \subseteq Nat
BY DEF TypeOK, Live, In, Entry, Watched, Tag

LEMMA TypeStep == TypeOK /\ [Next]_vars => TypeOK'
<1> SUFFICES ASSUME TypeOK, [Next]_vars PROVE TypeOK'
  OBVIOUS
<1>a. UNCHANGED entries => Kept
  BY DEF Kept
<1>1. ASSUME NEW r \in Requests, Create(r) PROVE TypeOK'
  <2>1. PICK entry \in Entry :
          Start(r, [op |-> "create", at |-> "count", entry |-> entry])
    BY <1>1 DEF Create
  <2> DEFINE q == [op |-> "create", at |-> "count", entry |-> entry]
  <2>2. q \in Open /\ OnRow(q)
    BY DEF Open, Creation, OnRow
  <2>3. QED
    BY <1>1, <2>1, <2>2, StartTypes DEF Create, TypeOK
<1>2. ASSUME NEW r \in Requests, CountEntries(r) \/ FindAddress(r) \/ FindName(r) PROVE TypeOK'
  <2>u. UNCHANGED entries /\ Rest
    BY <1>2 DEF CountEntries, FindAddress, FindName
  <2>1. CASE Finish(r)
    BY <2>u, <2>1, <1>a, FinishTypes DEF TypeOK
  <2>2. ASSUME NEW at \in {"address", "name", "insert"}, request[r].op = "create", Goto(r, at)
        PROVE  TypeOK'
    <3> DEFINE q == [request[r] EXCEPT !.at = at]
    <3>1. request[r] \in Creation
      BY <2>2, Holds
    <3>2. q \in Open /\ OnRow(q)
      BY <3>1 DEF Creation, Open, OnRow
    <3>3. request' = [request EXCEPT ![r] = q]
      BY <2>2 DEF Goto
    <3>4. QED
      BY <2>u, <3>2, <3>3, GotoTypes DEF Rest, TypeOK
  <2>3. ASSUME At(r, "update", "name"), Goto(r, "load") PROVE TypeOK'
    <3> DEFINE q == [request[r] EXCEPT !.at = "load"]
    <3>1. request[r] \in Rename /\ OnRow(request[r])
      BY <2>3, Holds DEF At, TypeOK
    <3>2. q \in Open /\ OnRow(q)
      BY <3>1 DEF Rename, Open, OnRow
    <3>3. request' = [request EXCEPT ![r] = q]
      BY <2>3 DEF Goto
    <3>4. QED
      BY <2>u, <3>2, <3>3, GotoTypes DEF Rest, TypeOK
  <2>4. QED
    BY <1>2, <2>1, <2>2, <2>3 DEF CountEntries, FindAddress, FindName, AfterCount, At
<1>3. ASSUME NEW r \in Requests, Insert(r) PROVE TypeOK'
  <2>1. request[r].entry \in Entry
    BY <1>3, Holds DEF Insert, At, Creation
  <2>2. entries' \in Seq(Entry \cup {Removed}) /\ Kept
    BY <1>3, <2>1 DEF Insert, TypeOK, Kept
  <2>3. QED
    BY <1>3, <2>2, FinishTypes DEF Insert
<1>4. ASSUME NEW r \in Requests, UpdateTag(r) PROVE TypeOK'
  <2>1. PICK id \in In("private_name_tag"), e \in Explorers, n \in Names \cup {NoName} :
          /\ Start(r, [op |-> "update", at |-> "name", id |-> id, explorer |-> e, name |-> n])
          /\ foreign' = (foreign \/ e # entries[id].explorer)
          /\ UNCHANGED entries
    BY <1>4 DEF UpdateTag
  <2> DEFINE q == [op |-> "update", at |-> "name", id |-> id, explorer |-> e, name |-> n]
  <2>2. id \in DOMAIN entries /\ id \in Nat /\ entries[id] \in Tag
    BY LiveEntries DEF In
  <2>3. q \in Open /\ OnRow(q)
    BY <2>2 DEF Open, Rename, OnRow
  <2>4. QED
    BY <2>1, <2>3, StartTypes DEF TypeOK
<1>5. ASSUME NEW r \in Requests, LoadTag(r) PROVE TypeOK'
  <2>1. CASE Finish(r)
    BY <1>5, <2>1, <1>a, FinishTypes DEF LoadTag, TypeOK
  <2>2. CASE entries[request[r].id] # Removed
    <3> DEFINE row == Renamed(entries[request[r].id], request[r].name)
    <3> DEFINE q == [op |-> "update", at |-> "write", id |-> request[r].id, row |-> row]
    <3>1. request[r] \in Rename /\ OnRow(request[r])
      BY <1>5, Holds DEF LoadTag, At, TypeOK
    <3>2. request[r].id \in DOMAIN entries /\ entries[request[r].id] \in Tag
      BY <2>2, <3>1 DEF OnRow, Rename
    <3>3. row \in Tag
      BY <3>1, <3>2 DEF Renamed, Rename, Tag
    <3>4. q \in Open /\ OnRow(q)
      BY <3>1, <3>2, <3>3 DEF Open, Rename, Rewrite, OnRow
    <3>5. request' = [request EXCEPT ![r] = q] /\ UNCHANGED <<entries, started, overlapped, foreign>>
      BY <1>5, <2>2 DEF LoadTag, Rest
    <3>6. QED
      BY <3>4, <3>5, GotoTypes DEF TypeOK
  <2>3. QED
    BY <1>5, <2>1, <2>2 DEF LoadTag
<1>6. ASSUME NEW r \in Requests, WriteTag(r) PROVE TypeOK'
  <2>1. request[r] \in Rewrite /\ OnRow(request[r])
    BY <1>6, Holds DEF WriteTag, TypeOK, At
  <2>2. request[r].row \in Tag /\ request[r].id \in DOMAIN entries
    BY <2>1 DEF Rewrite, OnRow
  <2>3. entries' \in Seq(Entry \cup {Removed})
    BY <1>6, <2>2 DEF WriteTag, Updated, TypeOK, Entry
  <2>4. Kept
    <3>1. entries[request[r].id] \in Tag \cup {Removed}
      BY <2>1 DEF OnRow, Rewrite
    <3>2. entries[request[r].id] \in Watched \cup {Removed} => entries[request[r].id] = Removed
      BY <3>1 DEF Tag, Watched
    <3>3. QED
      BY <1>6, <2>2, <3>1, <3>2 DEF WriteTag, Updated, TypeOK, Kept
  <2>5. QED
    BY <1>6, <2>3, <2>4, FinishTypes DEF WriteTag
<1>7. ASSUME NEW r \in Requests, MoveWatched(r) PROVE TypeOK'
  <2>1. PICK id \in In("watch_list"), a \in Addresses :
          Start(r, [op |-> "move", at |-> "write", id |-> id, address |-> a])
    BY <1>7 DEF MoveWatched
  <2> DEFINE q == [op |-> "move", at |-> "write", id |-> id, address |-> a]
  <2>2. id \in DOMAIN entries /\ id \in Nat /\ entries[id] \in Watched
    BY LiveEntries DEF In
  <2>3. q \in Open /\ OnRow(q)
    BY <2>2 DEF Open, Moving, OnRow
  <2>4. QED
    BY <1>7, <2>1, <2>3, StartTypes DEF MoveWatched, TypeOK
<1>8. ASSUME NEW r \in Requests, WriteWatched(r) PROVE TypeOK'
  <2>1. request[r] \in Moving /\ OnRow(request[r])
    BY <1>8, Holds DEF WriteWatched, TypeOK, At
  <2>2. CASE UNCHANGED entries
    BY <1>8, <2>2, <1>a, FinishTypes DEF WriteWatched, TypeOK
  <2>3. CASE entries[request[r].id] # Removed /\ ~ UNCHANGED entries
    <3> DEFINE id == request[r].id
    <3> DEFINE row == [entries[id] EXCEPT !.address = request[r].address]
    <3>1. id \in DOMAIN entries /\ entries[id] \in Watched
      BY <2>1, <2>3 DEF OnRow, Moving
    <3>2. row \in Watched
      BY <2>1, <3>1 DEF Moving, Watched
    <3>3. entries' = [entries EXCEPT ![id] = row]
      BY <1>8, <2>3 DEF WriteWatched
    <3>4. entries' \in Seq(Entry \cup {Removed})
      BY <3>1, <3>2, <3>3 DEF TypeOK, Entry
    <3>5. entries[id] \notin Tag \cup {Removed}
      BY <2>3, <3>1 DEF Tag, Watched
    <3>6. Kept
      BY <3>1, <3>2, <3>3, <3>5 DEF Kept, TypeOK
    <3>7. QED
      BY <1>8, <3>4, <3>6, FinishTypes DEF WriteWatched
  <2>4. QED
    BY <1>8, <2>2, <2>3 DEF WriteWatched
<1>9. ASSUME NEW r \in Requests, FindToRemove(r) PROVE TypeOK'
  <2>1. PICK id \in Live : Start(r, [op |-> "remove", at |-> "delete", id |-> id])
    BY <1>9 DEF FindToRemove
  <2> DEFINE q == [op |-> "remove", at |-> "delete", id |-> id]
  <2>2. id \in DOMAIN entries /\ id \in Nat
    BY LiveEntries
  <2>3. q \in Open /\ OnRow(q)
    BY <2>2 DEF Open, Removal, OnRow
  <2>4. QED
    BY <1>9, <2>1, <2>3, StartTypes DEF FindToRemove, TypeOK
<1>10. ASSUME NEW r \in Requests, Delete(r) PROVE TypeOK'
  <2>1. request[r].id \in DOMAIN entries
    BY <1>10 DEF Delete, At, TypeOK, OnRow
  <2>2. entries' \in Seq(Entry \cup {Removed}) /\ Kept
    BY <1>10, <2>1 DEF Delete, TypeOK, Kept
  <2>3. QED
    BY <1>10, <2>2, FinishTypes DEF Delete
<1>11. CASE UNCHANGED vars
  BY <1>11 DEF vars, TypeOK, OnRow
<1>12. QED
  BY <1>1, <1>2, <1>3, <1>4, <1>5, <1>6, <1>7, <1>8, <1>9, <1>10, <1>11
     DEF Next, Step, Quiet

LEMMA TypeInit == Init => TypeOK
<1> SUFFICES ASSUME Init PROVE TypeOK
  OBVIOUS
<1>1. entries \in Seq(Entry \cup {Removed})
  BY DEF Init
<1>2. request \in [Requests -> {Blank} \cup Open]
  BY DEF Init
<1>3. ASSUME NEW r \in Requests PROVE OnRow(request[r])
  BY DEF Init, OnRow, Blank
<1>4. MaxRequests \in Nat
  BY ConstantsOK
<1>5. started \in 0..MaxRequests
  BY <1>4 DEF Init
<1>6. overlapped \in BOOLEAN /\ foreign \in BOOLEAN
  BY Zenon DEF Init
<1>7. QED
  BY <1>1, <1>2, <1>3, <1>5, <1>6 DEF TypeOK, Open

\* Every reachable state is well typed.
THEOREM TypeCorrect == Spec => []TypeOK
BY TypeInit, TypeStep, PTL DEF Spec

-----------------------------------------------------------------------------
(* The limit.                                                              *)

LEMMA Countable ==
  ASSUME TypeOK, NEW t \in Tables, NEW e \in Explorers
  PROVE  /\ IsFiniteSet(Held(t, e)) /\ Cardinality(Held(t, e)) \in Nat
         /\ IsFiniteSet(Admitted(t, e)) /\ Cardinality(Admitted(t, e)) \in Nat
         /\ Cardinality(Admitted(t, e)) <= Cardinality(Requests)
         /\ Cardinality(Requests) \in Nat
<1>1. Len(entries) \in Nat /\ DOMAIN entries = 1..Len(entries)
  BY DEF TypeOK
<1>2. IsFiniteSet(DOMAIN entries)
  BY <1>1, FS_Interval
<1>3. IsFiniteSet(Held(t, e))
  BY <1>2, FS_Subset DEF Held, In, Live
<1>4. Admitted(t, e) \subseteq Requests
  BY DEF Admitted
<1>5. QED
  BY <1>3, <1>4, ConstantsOK, FS_Subset, FS_CardinalityType

\* A step that admits no request and adds no row.
LEMMA Shrinking ==
  ASSUME TypeOK, TypeOK', AdmittedFit,
         \A t \in Tables, e \in Explorers :
           Held(t, e)' \subseteq Held(t, e) /\ Admitted(t, e)' \subseteq Admitted(t, e)
  PROVE  AdmittedFit'
<1> SUFFICES ASSUME NEW t \in Tables, NEW e \in Explorers
             PROVE  Cardinality(Held(t, e)') + Cardinality(Admitted(t, e)')
                      <= Limit + Cardinality(Requests) - 1
  BY DEF AdmittedFit
<1>1. Held(t, e)' \subseteq Held(t, e) /\ Admitted(t, e)' \subseteq Admitted(t, e)
  OBVIOUS
<1>2. /\ Cardinality(Held(t, e)') <= Cardinality(Held(t, e))
      /\ Cardinality(Admitted(t, e)') <= Cardinality(Admitted(t, e))
      /\ Cardinality(Held(t, e)') \in Nat /\ Cardinality(Admitted(t, e)') \in Nat
  BY <1>1, Countable, FS_Subset, FS_CardinalityType
<1>3. QED
  BY <1>2, Countable, ConstantsOK DEF AdmittedFit

\* The set of admitted requests only depends on what the requests hold.
LEMMA AdmittedStep ==
  ASSUME TypeOK, NEW r \in Requests, NEW q, request' = [request EXCEPT ![r] = q],
         \/ q.op # "create" \/ q.at = "count"
         \/ request[r].op = "create" /\ request[r].at # "count" /\ q.entry = request[r].entry,
         NEW t \in Tables, NEW e \in Explorers
  PROVE  Admitted(t, e)' \subseteq Admitted(t, e)
BY DEF Admitted, TypeOK

LEMMA ReadsStep == TypeOK /\ ReadsHold /\ [Next]_vars => ReadsHold'
<1> SUFFICES ASSUME TypeOK, ReadsHold, [Next]_vars,
                    NEW s \in Requests, At(s, "update", "write")', entries'[request'[s].id] # Removed
             PROVE  /\ entries'[request'[s].id].explorer = request'[s].row.explorer
                    /\ entries'[request'[s].id].address = request'[s].row.address
  BY DEF ReadsHold, At
<1>1. CASE UNCHANGED entries /\ request'[s] = request[s]
  BY <1>1 DEF ReadsHold, At
<1>2. CASE LoadTag(s)
  <2>1. request[s] \in Rename /\ OnRow(request[s])
    BY <1>2, Holds DEF LoadTag, At, TypeOK
  <2>2. /\ request'[s] = [op |-> "update", at |-> "write", id |-> request[s].id,
                          row |-> Renamed(entries[request[s].id], request[s].name)]
        /\ entries[request[s].id] # Removed /\ UNCHANGED entries
    BY <1>2 DEF LoadTag, TypeOK, Finish, Blank, At
  <2>3. entries[request[s].id] \in Tag
    BY <2>1, <2>2 DEF OnRow, Rename
  <2>4. QED
    BY <2>2, <2>3 DEF Renamed, Tag
<1>3. CASE request'[s] = request[s] /\ ~ UNCHANGED entries
  <2> DEFINE id == request[s].id
  <2>1. At(s, "update", "write")
    BY <1>3 DEF At
  <2>2. request[s] \in Rewrite /\ id \in DOMAIN entries /\ entries[id] \in Tag \cup {Removed}
    BY <2>1, Holds DEF At, TypeOK, OnRow
  <2>3. PICK r \in Requests : Insert(r) \/ WriteTag(r) \/ WriteWatched(r) \/ Delete(r)
    BY <1>3 DEF Next, Step, Quiet, vars, Create, CountEntries, FindAddress, FindName,
                UpdateTag, LoadTag, MoveWatched, FindToRemove
  <2>4. CASE Insert(r)
    BY <1>3, <2>1, <2>2, <2>4 DEF Insert, ReadsHold, TypeOK
  <2>5. CASE WriteTag(r)
    <3>1. request[r] \in Rewrite /\ At(r, "update", "write")
      BY <2>5, Holds DEF WriteTag
    <3>2. CASE request[r].id = id
      BY <1>3, <2>1, <2>2, <2>5, <3>1, <3>2 DEF WriteTag, Updated, ReadsHold, TypeOK
    <3>3. CASE request[r].id # id
      BY <1>3, <2>1, <2>2, <2>5, <3>3 DEF WriteTag, ReadsHold, TypeOK
    <3>4. QED
      BY <3>2, <3>3
  <2>6. CASE WriteWatched(r)
    <3>1. request[r] \in Moving /\ OnRow(request[r])
      BY <2>6, Holds DEF WriteWatched, TypeOK, At
    <3>2. entries[request[r].id] # Removed
      BY <1>3, <2>6 DEF WriteWatched
    <3>3. request[r].id # id
      BY <2>2, <3>1, <3>2 DEF OnRow, Moving, Watched, Tag
    <3>4. QED
      BY <1>3, <2>1, <2>2, <2>6, <3>3 DEF WriteWatched, ReadsHold, TypeOK
  <2>7. CASE Delete(r)
    BY <1>3, <2>1, <2>2, <2>7 DEF Delete, ReadsHold, TypeOK
  <2>8. QED
    BY <2>3, <2>4, <2>5, <2>6, <2>7
<1>4. CASE request'[s] # request[s]
  <2>1. PICK r \in Requests : Step(r)
    BY <1>4 DEF Next, Quiet, vars
  <2>2. s = r
    BY <1>4, <2>1 DEF Step, TypeOK, Start, Goto, Finish, Create, CountEntries, FindAddress, FindName,
                      Insert, UpdateTag, LoadTag, WriteTag, MoveWatched, WriteWatched, FindToRemove, Delete
  <2>3. CASE LoadTag(r)
    BY <1>2, <2>2, <2>3
  <2>4. CASE ~ LoadTag(r)
    <3>1. CASE Finish(r)
      BY <3>1, <2>2 DEF Finish, Blank, TypeOK, At
    <3>2. CASE CountEntries(r) \/ FindAddress(r) \/ FindName(r)
      <4>1. CASE request[r] \in Creation
        BY <3>1, <3>2, <4>1, <2>2 DEF CountEntries, FindAddress, FindName, Creation, Goto, TypeOK, At
      <4>2. CASE request[r] \in Rename /\ Goto(r, "load")
        BY <4>2, <2>2 DEF Rename, Goto, TypeOK, At
      <4>3. QED
        BY <3>1, <3>2, <4>1, <4>2, Holds DEF CountEntries, FindAddress, FindName, At
    <3>3. CASE Create(r) \/ UpdateTag(r) \/ MoveWatched(r) \/ FindToRemove(r)
      BY <3>3, <2>2 DEF Create, UpdateTag, MoveWatched, FindToRemove, Start, TypeOK, At
    <3>4. QED
      BY <2>1, <2>4, <3>1, <3>2, <3>3 DEF Step, Insert, WriteTag, WriteWatched, Delete
  <2>5. QED
    BY <2>3, <2>4
<1>5. QED
  BY <1>1, <1>3, <1>4

LEMMA LimitStep == TypeOK /\ TypeOK' /\ ReadsHold /\ AdmittedFit /\ [Next]_vars => AdmittedFit'
<1> SUFFICES ASSUME TypeOK, TypeOK', ReadsHold, AdmittedFit, [Next]_vars PROVE AdmittedFit'
  OBVIOUS
<1>a. ASSUME UNCHANGED entries, NEW t \in Tables, NEW e \in Explorers
      PROVE  Held(t, e)' = Held(t, e)
  BY <1>a DEF Held, In, Live
<1>1. ASSUME NEW r \in Requests, CountEntries(r) PROVE AdmittedFit'
  <2> DEFINE new == request[r].entry
  <2>1. new \in Entry /\ new.table \in Tables /\ new.explorer \in Explorers
    BY <1>1, Holds DEF CountEntries, At, Creation, Entry, Watched, Tag, Tables
  <2>2. CASE Full(Cardinality(Held(new.table, new.explorer)))
    <3>1. request' = [request EXCEPT ![r] = Blank] /\ UNCHANGED entries
      BY <1>1, <2>2 DEF CountEntries, Finish
    <3>2. QED
      BY <3>1, <1>a, AdmittedStep, Shrinking DEF Blank
  <2>3. CASE ~ Full(Cardinality(Held(new.table, new.explorer)))
    <3> SUFFICES ASSUME NEW t \in Tables, NEW e \in Explorers
                 PROVE  Cardinality(Held(t, e)') + Cardinality(Admitted(t, e)')
                          <= Limit + Cardinality(Requests) - 1
      BY DEF AdmittedFit
    <3>1. UNCHANGED entries /\ \E at : request' = [request EXCEPT ![r] = [@ EXCEPT !.at = at]]
      BY <1>1, <2>3 DEF CountEntries, Goto
    <3>2. CASE t = new.table /\ e = new.explorer
      <4>1. Cardinality(Held(t, e)) < Limit
        BY <2>3, <3>2, Countable, ConstantsOK DEF Full
      <4>2. Cardinality(Admitted(t, e)') <= Cardinality(Requests) /\ Cardinality(Admitted(t, e)') \in Nat
        <5>1. Admitted(t, e)' \subseteq Requests
          BY DEF Admitted
        <5>2. QED
          BY <5>1, ConstantsOK, FS_Subset, FS_CardinalityType
      <4>3. QED
        BY <4>1, <4>2, <3>1, <1>a, Countable, ConstantsOK
    <3>3. CASE ~ (t = new.table /\ e = new.explorer)
      <4>1. request[r] \in Creation
        BY <1>1, Holds DEF CountEntries, At
      <4>2. Admitted(t, e)' \subseteq Admitted(t, e)
        BY <3>1, <3>3, <4>1 DEF Admitted, TypeOK, Creation
      <4>3. Cardinality(Admitted(t, e)') <= Cardinality(Admitted(t, e)) /\ Cardinality(Admitted(t, e)') \in Nat
        BY <4>2, Countable, FS_Subset, FS_CardinalityType
      <4>4. QED
        BY <4>3, <3>1, <1>a, Countable, ConstantsOK DEF AdmittedFit
    <3>4. QED
      BY <3>2, <3>3
  <2>4. QED
    BY <2>2, <2>3
<1>2. ASSUME NEW r \in Requests, FindAddress(r) \/ FindName(r) PROVE AdmittedFit'
  <2>1. UNCHANGED entries
    BY <1>2 DEF FindAddress, FindName
  <2>2. ASSUME NEW t \in Tables, NEW e \in Explorers PROVE Admitted(t, e)' \subseteq Admitted(t, e)
    <3>1. CASE Finish(r)
      BY <3>1, AdmittedStep DEF Finish, Blank
    <3>2. CASE /\ request[r].op = "create" /\ request[r].at # "count"
               /\ \E at \in {"name", "insert"} : Goto(r, at)
      <4>1. request[r] \in Creation
        BY <3>2, Holds
      <4>2. QED
        BY <3>2, <4>1 DEF Goto, Creation, Admitted, TypeOK
    <3>3. CASE At(r, "update", "name") /\ Goto(r, "load")
      <4>1. request[r] \in Rename
        BY <3>3, Holds DEF At
      <4>2. QED
        BY <3>3, <4>1 DEF Goto, Rename, Admitted, TypeOK
    <3>4. QED
      BY <1>2, <3>1, <3>2, <3>3 DEF FindAddress, FindName, At
  <2>3. QED
    BY <2>1, <2>2, <1>a, Shrinking
<1>3. ASSUME NEW r \in Requests, Insert(r) PROVE AdmittedFit'
  <2> DEFINE new == request[r].entry
  <2>1. new \in Entry /\ new.table \in Tables /\ new.explorer \in Explorers /\ new # Removed
    BY <1>3, Holds, ConstantsOK DEF Insert, At, Creation, Entry, Watched, Tag, Tables
  <2>2. request' = [request EXCEPT ![r] = Blank]
    BY <1>3 DEF Insert, Finish
  <2>3. CASE UNCHANGED entries
    BY <2>2, <2>3, <1>a, AdmittedStep, Shrinking DEF Blank
  <2>4. CASE entries' = Append(entries, new)
    <3> SUFFICES ASSUME NEW t \in Tables, NEW e \in Explorers
                 PROVE  Cardinality(Held(t, e)') + Cardinality(Admitted(t, e)')
                          <= Limit + Cardinality(Requests) - 1
      BY DEF AdmittedFit
    <3> DEFINE id == Len(entries) + 1
    <3>1. /\ DOMAIN entries' = DOMAIN entries \cup {id} /\ entries'[id] = new
          /\ id \notin DOMAIN entries /\ \A i \in DOMAIN entries : entries'[i] = entries[i]
      BY <2>4 DEF TypeOK
    <3>2. Admitted(t, e)' \subseteq Admitted(t, e)
      BY <2>2, AdmittedStep DEF Blank
    <3>3. CASE t = new.table /\ e = new.explorer
      <4>1. Held(t, e)' = Held(t, e) \cup {id} /\ id \notin Held(t, e)
        BY <3>1, <3>3, <2>1 DEF Held, In, Live
      <4>2. Cardinality(Held(t, e)') = Cardinality(Held(t, e)) + 1
        BY <4>1, Countable, FS_AddElement
      <4>3. r \in Admitted(t, e)
        BY <1>3, <3>3 DEF Insert, At, Admitted
      <4>4. Admitted(t, e)' \subseteq Admitted(t, e) \ {r}
        BY <3>2, <2>2 DEF Admitted, TypeOK, Blank
      <4>5. /\ Cardinality(Admitted(t, e) \ {r}) = Cardinality(Admitted(t, e)) - 1
            /\ IsFiniteSet(Admitted(t, e) \ {r})
        BY <4>3, Countable, FS_RemoveElement
      <4>6. Cardinality(Admitted(t, e)') <= Cardinality(Admitted(t, e)) - 1 /\ Cardinality(Admitted(t, e)') \in Nat
        BY <4>4, <4>5, FS_Subset, FS_CardinalityType
      <4>7. QED
        BY <4>2, <4>6, Countable, ConstantsOK DEF AdmittedFit
    <3>4. CASE ~ (t = new.table /\ e = new.explorer)
      <4>1. Held(t, e)' = Held(t, e)
        BY <3>1, <3>4 DEF Held, In, Live
      <4>2. Cardinality(Admitted(t, e)') <= Cardinality(Admitted(t, e)) /\ Cardinality(Admitted(t, e)') \in Nat
        BY <3>2, Countable, FS_Subset, FS_CardinalityType
      <4>3. QED
        BY <4>1, <4>2, Countable, ConstantsOK DEF AdmittedFit
    <3>5. QED
      BY <3>3, <3>4
  <2>5. QED
    BY <1>3, <2>3, <2>4 DEF Insert
<1>4. ASSUME NEW r \in Requests, NEW q, request' = [request EXCEPT ![r] = q],
             q.op # "create" \/ q.at = "count",
             \A t \in Tables, e \in Explorers : Held(t, e)' \subseteq Held(t, e)
      PROVE  AdmittedFit'
  BY <1>4, AdmittedStep, Shrinking
<1>5. ASSUME NEW r \in Requests, Create(r) PROVE AdmittedFit'
  BY <1>5, <1>4, <1>a DEF Create, Start
<1>6. ASSUME NEW r \in Requests, UpdateTag(r) PROVE AdmittedFit'
  BY <1>6, <1>4, <1>a, ZenonT(60) DEF UpdateTag, Start
<1>7. ASSUME NEW r \in Requests, LoadTag(r) PROVE AdmittedFit'
  BY <1>7, <1>4, <1>a DEF LoadTag, Finish, Blank
<1>8. ASSUME NEW r \in Requests, WriteTag(r) PROVE AdmittedFit'
  <2> DEFINE id == request[r].id
  <2>1. /\ request[r] \in Rewrite /\ id \in DOMAIN entries /\ entries[id] \in Tag \cup {Removed}
        /\ request' = [request EXCEPT ![r] = Blank]
    BY <1>8, Holds DEF WriteTag, At, TypeOK, OnRow, Finish
  <2>2. ASSUME NEW t \in Tables, NEW e \in Explorers PROVE Held(t, e)' \subseteq Held(t, e)
    <3>1. CASE entries[id] = Removed
      <4>1. UNCHANGED entries
        BY <1>8, <2>1, <3>1 DEF WriteTag, Updated, TypeOK
      <4>2. QED
        BY <4>1, <1>a
    <3>2. CASE entries[id] # Removed
      <4>1. /\ entries[id].table = request[r].row.table
            /\ entries[id].explorer = request[r].row.explorer
        BY <1>8, <2>1, <3>2 DEF WriteTag, ReadsHold, Rewrite, Tag
      <4>2. entries' = [entries EXCEPT ![id] = request[r].row]
        BY <1>8, <3>2 DEF WriteTag, Updated
      <4>3. \A i \in DOMAIN entries : i # id => entries'[i] = entries[i]
        BY <4>2 DEF TypeOK
      <4>4. DOMAIN entries' = DOMAIN entries /\ entries'[id] = request[r].row
        BY <2>1, <4>2 DEF TypeOK
      <4>5. QED
        BY <3>2, <4>1, <4>3, <4>4 DEF Held, In, Live
    <3>3. QED
      BY <3>1, <3>2
  <2>3. QED
    BY <2>1, <2>2, <1>4 DEF Blank
<1>9. ASSUME NEW r \in Requests, MoveWatched(r) PROVE AdmittedFit'
  BY <1>9, <1>4, <1>a DEF MoveWatched, Start
<1>10. ASSUME NEW r \in Requests, WriteWatched(r) PROVE AdmittedFit'
  <2> DEFINE id == request[r].id
  <2>1. /\ request[r] \in Moving /\ id \in DOMAIN entries /\ entries[id] \in Watched \cup {Removed}
        /\ request' = [request EXCEPT ![r] = Blank]
    BY <1>10, Holds DEF WriteWatched, At, TypeOK, OnRow, Finish
  <2>2. ASSUME NEW t \in Tables, NEW e \in Explorers PROVE Held(t, e)' \subseteq Held(t, e)
    <3>1. CASE UNCHANGED entries
      BY <3>1, <1>a
    <3>2. CASE ~ UNCHANGED entries
      <4>1. /\ entries[id] \in Watched
            /\ entries' = [entries EXCEPT ![id] = [@ EXCEPT !.address = request[r].address]]
        BY <1>10, <2>1, <3>2 DEF WriteWatched
      <4>2. /\ DOMAIN entries' = DOMAIN entries
            /\ \A i \in DOMAIN entries : i # id => entries'[i] = entries[i]
            /\ entries'[id] = [entries[id] EXCEPT !.address = request[r].address]
        BY <2>1, <4>1 DEF TypeOK
      <4>3. /\ entries[id].table = entries'[id].table
            /\ entries[id].explorer = entries'[id].explorer
            /\ entries[id] # Removed
        BY <4>1, <4>2, ConstantsOK DEF Watched, Entry
      <4>4. QED
        BY <4>2, <4>3 DEF Held, In, Live
    <3>3. QED
      BY <3>1, <3>2
  <2>3. QED
    BY <2>1, <2>2, <1>4 DEF Blank
<1>11. ASSUME NEW r \in Requests, FindToRemove(r) PROVE AdmittedFit'
  BY <1>11, <1>4, <1>a DEF FindToRemove, Start
<1>12. ASSUME NEW r \in Requests, Delete(r) PROVE AdmittedFit'
  <2>1. /\ request' = [request EXCEPT ![r] = Blank]
        /\ DOMAIN entries' = DOMAIN entries
        /\ \A i \in DOMAIN entries : entries'[i] = entries[i] \/ entries'[i] = Removed
    BY <1>12 DEF Delete, Finish, TypeOK
  <2>2. ASSUME NEW t \in Tables, NEW e \in Explorers PROVE Held(t, e)' \subseteq Held(t, e)
    BY <2>1 DEF Held, In, Live
  <2>3. QED
    BY <2>1, <2>2, <1>4 DEF Blank
<1>13. CASE UNCHANGED vars
  BY <1>13, <1>a, Shrinking DEF vars, Admitted
<1>14. QED
  BY <1>1, <1>2, <1>3, <1>5, <1>6, <1>7, <1>8, <1>9, <1>10, <1>11, <1>12, <1>13
     DEF Next, Step, Quiet

LEMMA InvInit == Init => Inv
<1> SUFFICES ASSUME Init PROVE Inv
  OBVIOUS
<1>1. TypeOK
  BY TypeInit
<1>2. ReadsHold
  BY DEF Init, ReadsHold, At, Blank
<1>3. ASSUME NEW t \in Tables, NEW e \in Explorers
      PROVE  Cardinality(Held(t, e)) + Cardinality(Admitted(t, e)) <= Limit + Cardinality(Requests) - 1
  <2>1. Held(t, e) = {} /\ Admitted(t, e) = {}
    BY DEF Init, Blank, Held, In, Live, Admitted
  <2>2. Cardinality(Requests) \in Nat /\ Cardinality(Requests) # 0
    BY ConstantsOK, FS_CardinalityType, FS_EmptySet
  <2>3. QED
    BY <2>1, <2>2, FS_EmptySet, ConstantsOK
<1>4. QED
  BY <1>1, <1>2, <1>3 DEF Inv, AdmittedFit

LEMMA InvStep == Inv /\ [Next]_vars => Inv'
BY TypeStep, ReadsStep, LimitStep DEF Inv

\* However many requests count before others insert, the limit is passed by
\* at most as many entries as requests can be open beside one.
THEOREM OvershootHolds == Spec => []OvershootIsBounded
<1>1. Inv => OvershootIsBounded
  BY Countable, ConstantsOK DEF Inv, AdmittedFit, OvershootIsBounded
<1>2. QED
  BY <1>1, InvInit, InvStep, PTL DEF Spec

-----------------------------------------------------------------------------
(* The names.                                                              *)

\* The check of a name that a request has passed still holds, and an update
\* is of a tag of the explorer it names.
NameIsFree(r) ==
  LET q == request[r] IN
  /\ At(r, "create", "insert") /\ q.entry.table = "private_name_tag" =>
       Named(q.entry.name, q.entry.explorer, 0) = {}
  /\ q.op = "update" /\ q.at \in {"name", "load"} =>
       entries[q.id] = Removed \/ entries[q.id].explorer = q.explorer
  /\ At(r, "update", "load")  => Named(q.name, q.explorer, q.id) = {}
  /\ At(r, "update", "write") => Named(q.row.name, q.row.explorer, q.id) = {}

OneOpen == \A r, s \in Requests : r # s => request[r] = Blank \/ request[s] = Blank

AloneInv ==
  /\ ~overlapped => OneOpen
  /\ ~overlapped /\ ~foreign => NamesAreUnique /\ \A r \in Requests : NameIsFree(r)

\* A row is held as a tag by its explorer.
LEMMA TagHeld ==
  ASSUME TypeOK, NEW e \in Explorers, NEW i
  PROVE  /\ i \in Held("private_name_tag", e) <=>
              i \in DOMAIN entries /\ entries[i] \in Tag /\ entries[i].explorer = e
         /\ \A n, id : i \in Named(n, e, id) <=>
              i \in Held("private_name_tag", e) /\ i # id /\ entries[i].name = n
BY ConstantsOK DEF TypeOK, Held, In, Live, Named, Tag, Watched, Entry

LEMMA OpenStep ==
  ASSUME TypeOK, AloneInv, [Next]_vars, ~overlapped'
  PROVE  ~overlapped /\ OneOpen'
<1>1. ASSUME NEW r \in Requests, NEW q, Start(r, q)
      PROVE  ~overlapped /\ OneOpen'
  BY <1>1 DEF Start, OneOpen, TypeOK
<1>2. ASSUME NEW r \in Requests, request[r] # Blank, UNCHANGED overlapped,
             \A s \in Requests : s # r => request'[s] = request[s]
      PROVE  ~overlapped /\ OneOpen'
  BY <1>2 DEF AloneInv, OneOpen
<1>3. ASSUME NEW r \in Requests, Step(r)
      PROVE  \/ \E q : Start(r, q)
             \/ /\ request[r] # Blank /\ UNCHANGED overlapped
                /\ \A s \in Requests : s # r => request'[s] = request[s]
  <2>1. CASE Create(r) \/ UpdateTag(r) \/ MoveWatched(r) \/ FindToRemove(r)
    BY <2>1 DEF Create, UpdateTag, MoveWatched, FindToRemove
  <2>2. CASE \/ CountEntries(r) \/ FindAddress(r) \/ FindName(r) \/ Insert(r)
             \/ LoadTag(r) \/ WriteTag(r) \/ WriteWatched(r) \/ Delete(r)
    <3>1. request[r].op # "none" /\ UNCHANGED overlapped
      BY <2>2 DEF CountEntries, FindAddress, FindName, Insert, LoadTag, WriteTag,
         WriteWatched, Delete, At, Rest
    <3>2. \A s \in Requests : s # r => request'[s] = request[s]
      BY <2>2 DEF CountEntries, FindAddress, FindName, Insert, LoadTag, WriteTag,
         WriteWatched, Delete, Finish, Goto, TypeOK
    <3>3. QED
      BY <3>1, <3>2 DEF Blank
  <2>3. QED
    BY <1>3, <2>1, <2>2 DEF Step
<1>4. CASE UNCHANGED vars
  BY <1>4 DEF vars, AloneInv, OneOpen
<1>5. QED
  BY <1>1, <1>2, <1>3, <1>4 DEF Next, Quiet

\* A step that leaves the rows alone leaves the names alone, and what the
\* other requests have checked.
LEMMA NamesKept ==
  ASSUME NamesAreUnique, UNCHANGED entries
  PROVE  NamesAreUnique' /\ \A t, e : Held(t, e)' = Held(t, e)
BY DEF NamesAreUnique, Held, In, Live

LEMMA FreeKept ==
  ASSUME UNCHANGED entries, NEW s \in Requests, request'[s] = request[s], NameIsFree(s)
  PROVE  NameIsFree(s)'
BY DEF NameIsFree, Named, Held, In, Live, At

LEMMA BlankIsFree ==
  ASSUME NEW s \in Requests, request[s].op \notin {"create", "update"}
  PROVE  NameIsFree(s)
BY DEF NameIsFree, At

\* A step of the only request that is open.
LEMMA NamesStep ==
  ASSUME TypeOK, TypeOK', AloneInv, [Next]_vars, ~overlapped', ~foreign'
  PROVE  NamesAreUnique' /\ \A r \in Requests : NameIsFree(r)'
<1>1. ~overlapped /\ OneOpen /\ OneOpen'
  BY OpenStep DEF AloneInv
<1>2. ~foreign
  BY DEF Next, Step, Quiet, vars, Rest, Create, CountEntries, FindAddress, FindName, Insert,
         UpdateTag, LoadTag, WriteTag, MoveWatched, WriteWatched, FindToRemove, Delete
<1>3. NamesAreUnique /\ \A r \in Requests : NameIsFree(r)
  BY <1>1, <1>2 DEF AloneInv
<1>4. \A s \in Requests : request'[s] = Blank => NameIsFree(s)'
  BY DEF NameIsFree, At, Blank
<1>5. ASSUME NEW r \in Requests, UNCHANGED entries, NameIsFree(r)',
             \A s \in Requests : s # r => request'[s] = request[s]
      PROVE  NamesAreUnique' /\ \A s \in Requests : NameIsFree(s)'
  BY <1>3, <1>5, NamesKept, FreeKept
<1>6. ASSUME NEW r \in Requests, Finish(r), NamesAreUnique', request[r] # Blank
      PROVE  NamesAreUnique' /\ \A s \in Requests : NameIsFree(s)'
  <2>1. \A s \in Requests : request'[s] = Blank
    BY <1>1, <1>6 DEF OneOpen, Finish, TypeOK
  <2>2. QED
    BY <1>4, <1>6, <2>1
<1>7. ASSUME NEW r \in Requests, request[r].op # "none" PROVE request[r] # Blank
  BY <1>7 DEF Blank
<1>8. ASSUME NEW r \in Requests, Create(r) \/ MoveWatched(r) \/ FindToRemove(r)
      PROVE  NamesAreUnique' /\ \A s \in Requests : NameIsFree(s)'
  <2>1. PICK q : /\ Start(r, q)
                 /\ q.op = "create" => q.at = "count"
                 /\ q.op # "update"
    <3>1. CASE Create(r)
      BY <3>1 DEF Create
    <3>2. CASE MoveWatched(r)
      BY <3>2 DEF MoveWatched
    <3>3. CASE FindToRemove(r)
      BY <3>3 DEF FindToRemove
    <3>4. QED
      BY <1>8, <3>1, <3>2, <3>3
  <2>2. /\ request'[r] = q /\ UNCHANGED entries
        /\ \A s \in Requests : s # r => request'[s] = request[s]
    BY <1>8, <2>1 DEF Start, TypeOK, Create, MoveWatched, FindToRemove
  <2>3. NameIsFree(r)'
    BY <2>1, <2>2 DEF NameIsFree, At
  <2>4. QED
    BY <1>5, <2>2, <2>3
<1>9. ASSUME NEW r \in Requests, UpdateTag(r)
      PROVE  NamesAreUnique' /\ \A s \in Requests : NameIsFree(s)'
  <2>1. PICK id \in In("private_name_tag"), e \in Explorers, n \in Names \cup {NoName} :
          /\ Start(r, [op |-> "update", at |-> "name", id |-> id, explorer |-> e, name |-> n])
          /\ foreign' = (foreign \/ e # entries[id].explorer)
          /\ UNCHANGED entries
    BY <1>9 DEF UpdateTag
  <2>2. /\ request'[r] = [op |-> "update", at |-> "name", id |-> id, explorer |-> e, name |-> n]
        /\ \A s \in Requests : s # r => request'[s] = request[s]
    BY <2>1 DEF Start, TypeOK
  <2>3. entries'[id].explorer = e
    BY <2>1
  <2>4. NameIsFree(r)'
    BY <2>2, <2>3 DEF NameIsFree, At
  <2>5. QED
    BY <1>5, <2>1, <2>2, <2>4
<1>10. ASSUME NEW r \in Requests, CountEntries(r) \/ FindAddress(r)
       PROVE  NamesAreUnique' /\ \A s \in Requests : NameIsFree(s)'
  <2>1. /\ request[r].op = "create" /\ UNCHANGED entries
        /\ At(r, "create", "count") \/ At(r, "create", "address")
    BY <1>10 DEF CountEntries, FindAddress, At
  <2>2. CASE Finish(r)
    BY <1>3, <1>6, <1>7, <2>1, <2>2, NamesKept
  <2>3. CASE \E at \in {"address", "name", "insert"} : Goto(r, at)
    <3>1. PICK at \in {"address", "name", "insert"} : Goto(r, at)
      BY <2>3
    <3>2. /\ request'[r] = [request[r] EXCEPT !.at = at]
          /\ \A s \in Requests : s # r => request'[s] = request[s]
      BY <3>1 DEF Goto, TypeOK
    <3>3. request[r] \in Creation
      BY <2>1, Holds
    <3>4. /\ request'[r].op = "create" /\ request'[r].at = at
          /\ request'[r].entry = request[r].entry
      BY <3>2, <3>3 DEF Creation
    <3>5. NameIsFree(r)'
      <4>1. CASE at # "insert"
        BY <3>4, <4>1 DEF NameIsFree, At
      <4>2. CASE at = "insert" /\ request[r].entry.table = "watch_list"
        BY <3>4, <4>2 DEF NameIsFree, At
      <4>3. at = "insert" => request[r].entry.table = "watch_list"
        <5>1. ASSUME at = "insert", request[r].entry.table # "watch_list" PROVE FALSE
          <6>1. Goto(r, "address") \/ Goto(r, "name") \/ Finish(r)
            BY <1>10, <5>1 DEF CountEntries, FindAddress, AfterCount
          <6>2. request'[r].at \in {"address", "name", "idle"}
            BY <3>3, <6>1 DEF Goto, Finish, Blank, TypeOK, Creation
          <6>3. QED
            BY <3>4, <5>1, <6>2
        <5>2. QED
          BY <5>1
      <4>4. QED
        BY <4>1, <4>2, <4>3
    <3>6. QED
      BY <1>5, <2>1, <3>2, <3>5
  <2>4. QED
    BY <1>10, <2>2, <2>3 DEF CountEntries, FindAddress, AfterCount
<1>11. ASSUME NEW r \in Requests, FindName(r)
       PROVE  NamesAreUnique' /\ \A s \in Requests : NameIsFree(s)'
  <2>1. UNCHANGED entries /\ request[r].op \in {"create", "update"}
    BY <1>11 DEF FindName, At
  <2>2. CASE Finish(r)
    BY <1>3, <1>6, <1>7, <2>1, <2>2, NamesKept
  <2>3. ASSUME At(r, "create", "name"), Goto(r, "insert"),
               Named(request[r].entry.name, request[r].entry.explorer, 0) = {}
        PROVE  NamesAreUnique' /\ \A s \in Requests : NameIsFree(s)'
    <3>1. request[r] \in Creation
      BY <2>3, Holds DEF At
    <3>2. /\ request'[r] = [request[r] EXCEPT !.at = "insert"]
          /\ \A s \in Requests : s # r => request'[s] = request[s]
      BY <2>3 DEF Goto, TypeOK
    <3>3. /\ request'[r].op = "create" /\ request'[r].at = "insert"
          /\ request'[r].entry = request[r].entry
      BY <3>1, <3>2 DEF Creation
    <3>4. NameIsFree(r)'
      BY <2>1, <2>3, <3>3 DEF NameIsFree, At, Named, Held, In, Live
    <3>5. QED
      BY <1>5, <2>1, <3>2, <3>4
  <2>4. ASSUME At(r, "update", "name"), Goto(r, "load"),
               Named(request[r].name, request[r].explorer, request[r].id) = {}
        PROVE  NamesAreUnique' /\ \A s \in Requests : NameIsFree(s)'
    <3>1. request[r] \in Rename
      BY <2>4, Holds DEF At
    <3>2. /\ request'[r] = [request[r] EXCEPT !.at = "load"]
          /\ \A s \in Requests : s # r => request'[s] = request[s]
      BY <2>4 DEF Goto, TypeOK
    <3>3. /\ request'[r].op = "update" /\ request'[r].at = "load"
          /\ request'[r].id = request[r].id /\ request'[r].name = request[r].name
          /\ request'[r].explorer = request[r].explorer
      BY <3>1, <3>2 DEF Rename
    <3>4. \/ entries[request[r].id] = Removed
          \/ entries[request[r].id].explorer = request[r].explorer
      BY <1>3, <2>4 DEF NameIsFree, At
    <3>5. NameIsFree(r)'
      BY <2>1, <2>4, <3>3, <3>4 DEF NameIsFree, At, Named, Held, In, Live
    <3>6. QED
      BY <1>5, <2>1, <3>2, <3>5
  <2>5. QED
    BY <1>11, <2>2, <2>3, <2>4 DEF FindName
<1>12. ASSUME NEW r \in Requests, LoadTag(r)
       PROVE  NamesAreUnique' /\ \A s \in Requests : NameIsFree(s)'
  <2> DEFINE id == request[r].id
  <2>1. UNCHANGED entries /\ request[r].op = "update" /\ At(r, "update", "load")
    BY <1>12 DEF LoadTag, At
  <2>2. CASE Finish(r)
    BY <1>3, <1>6, <1>7, <2>1, <2>2, NamesKept
  <2>3. CASE entries[id] # Removed
    <3>1. request[r] \in Rename /\ id \in DOMAIN entries /\ entries[id] \in Tag
      BY <2>1, <2>3, Holds DEF At, TypeOK, OnRow
    <3>2. /\ request'[r] = [op |-> "update", at |-> "write", id |-> id,
                            row |-> Renamed(entries[id], request[r].name)]
          /\ \A s \in Requests : s # r => request'[s] = request[s]
      BY <1>12, <2>3 DEF LoadTag, TypeOK
    <3>3. /\ entries[id].explorer = request[r].explorer
          /\ Named(request[r].name, request[r].explorer, id) = {}
      BY <1>3, <2>1, <2>3 DEF NameIsFree, At
    <3> DEFINE row == Renamed(entries[id], request[r].name)
    <3>4. row.explorer = request[r].explorer /\ row.explorer \in Explorers
      BY <3>1, <3>3 DEF Renamed, Tag
    <3>5. Named(row.name, row.explorer, id) = {}
      <4>1. CASE request[r].name = NoName
        <5>1. row = entries[id] /\ id \in Held("private_name_tag", row.explorer)
          BY <3>1, <4>1, <3>4, TagHeld DEF Renamed
        <5>2. ASSUME NEW i \in Named(row.name, row.explorer, id) PROVE FALSE
          <6>1. /\ i \in Held("private_name_tag", row.explorer) /\ i # id
                /\ entries[i].name = entries[id].name
            BY <5>1, <5>2, <3>4, TagHeld
          <6>2. QED
            BY <1>3, <3>4, <5>1, <6>1 DEF NamesAreUnique
        <5>3. QED
          BY <5>2
      <4>2. CASE request[r].name # NoName
        <5>1. row.name = request[r].name
          BY <3>1, <4>2 DEF Renamed, Tag
        <5>2. QED
          BY <3>3, <3>4, <5>1
      <4>3. QED
        BY <4>1, <4>2
    <3> HIDE DEF row
    <3>6. /\ request'[r].op = "update" /\ request'[r].at = "write"
          /\ request'[r].id = id /\ request'[r].row = row
      BY <3>2 DEF row
    <3>7. NameIsFree(r)'
      BY <2>1, <3>5, <3>6 DEF NameIsFree, At, Named, Held, In, Live
    <3>8. QED
      BY <1>5, <2>1, <3>2, <3>7
  <2>4. QED
    BY <1>12, <2>2, <2>3 DEF LoadTag
<1>13. ASSUME NEW r \in Requests, Insert(r)
       PROVE  NamesAreUnique' /\ \A s \in Requests : NameIsFree(s)'
  <2> DEFINE new == request[r].entry
  <2>1. request[r].op = "create" /\ Finish(r) /\ At(r, "create", "insert")
    BY <1>13 DEF Insert, At
  <2>2. CASE UNCHANGED entries
    BY <1>3, <1>6, <1>7, <2>1, <2>2, NamesKept
  <2>3. CASE entries' = Append(entries, new)
    <3>1. /\ Len(entries) \in Nat /\ DOMAIN entries = 1..Len(entries)
          /\ DOMAIN entries' = 1..(Len(entries) + 1)
          /\ entries'[Len(entries) + 1] = new
          /\ \A i \in 1..Len(entries) : entries'[i] = entries[i]
      BY <2>1, <2>3, Holds DEF TypeOK, Creation
    <3>2. ASSUME NEW e \in Explorers, NEW i \in Held("private_name_tag", e)',
                 NEW j \in Held("private_name_tag", e)', entries'[i].name = entries'[j].name
          PROVE  i = j
      <4>1. /\ i \in DOMAIN entries' /\ entries'[i] \in Tag /\ entries'[i].explorer = e
            /\ j \in DOMAIN entries' /\ entries'[j] \in Tag /\ entries'[j].explorer = e
        BY <3>2, ConstantsOK DEF TypeOK, Held, In, Live, Tag, Watched, Entry
      <4>2. ASSUME NEW k \in DOMAIN entries, entries[k] \in Tag, entries[k].explorer = e,
                   new \in Tag, new.explorer = e, entries[k].name = new.name
            PROVE  FALSE
        <5>1. Named(new.name, e, 0) = {}
          BY <1>3, <2>1, <4>2 DEF NameIsFree, Tag
        <5>2. k \in Named(new.name, e, 0)
          <6>1. k # 0
            BY <3>1, <4>2
          <6>2. QED
            BY <4>2, <6>1, TagHeld
        <5>3. QED
          BY <5>1, <5>2
      <4>3. ASSUME i \in DOMAIN entries, j \in DOMAIN entries PROVE i = j
        <5>1. i \in Held("private_name_tag", e) /\ j \in Held("private_name_tag", e)
          BY <3>1, <4>1, <4>3, TagHeld
        <5>2. QED
          BY <1>3, <3>1, <3>2, <4>3, <5>1 DEF NamesAreUnique
      <4>4. ASSUME NEW k \in DOMAIN entries, k \in {i, j}, Len(entries) + 1 \in {i, j}
            PROVE  FALSE
        <5>1. entries'[k] = entries[k] /\ k # Len(entries) + 1
          BY <3>1, <4>4
        <5>2. QED
          BY <3>1, <3>2, <4>1, <4>2, <4>4, <5>1
      <4>5. QED
        BY <3>1, <4>1, <4>3, <4>4
    <3>3. NamesAreUnique'
      BY <3>2 DEF NamesAreUnique
    <3>4. QED
      BY <1>6, <1>7, <2>1, <3>3
  <2>4. QED
    BY <1>13, <2>2, <2>3 DEF Insert
<1>14. ASSUME NEW r \in Requests, WriteTag(r)
       PROVE  NamesAreUnique' /\ \A s \in Requests : NameIsFree(s)'
  <2> DEFINE id == request[r].id
             row == request[r].row
  <2>1. request[r].op = "update" /\ Finish(r) /\ At(r, "update", "write")
    BY <1>14 DEF WriteTag, At
  <2>2. request[r] \in Rewrite /\ id \in DOMAIN entries /\ entries[id] \in Tag \cup {Removed}
    BY <2>1, Holds DEF TypeOK, OnRow
  <2>3. CASE UNCHANGED entries
    BY <1>3, <1>6, <1>7, <2>1, <2>3, NamesKept
  <2>4. CASE entries[id] # Removed
    <3>1. /\ DOMAIN entries' = DOMAIN entries /\ entries'[id] = row /\ row \in Tag
          /\ \A i \in DOMAIN entries : i # id => entries'[i] = entries[i]
      BY <1>14, <2>2, <2>4 DEF WriteTag, Updated, TypeOK, Rewrite
    <3>2. Named(row.name, row.explorer, id) = {} /\ row.explorer \in Explorers
      BY <1>3, <2>1, <3>1 DEF NameIsFree, Tag
    <3>3. ASSUME NEW e \in Explorers, NEW i \in Held("private_name_tag", e)',
                 NEW j \in Held("private_name_tag", e)', entries'[i].name = entries'[j].name
          PROVE  i = j
      <4>1. /\ i \in DOMAIN entries /\ entries'[i] \in Tag /\ entries'[i].explorer = e
            /\ j \in DOMAIN entries /\ entries'[j] \in Tag /\ entries'[j].explorer = e
        BY <3>1, <3>3, ConstantsOK DEF TypeOK, Held, In, Live, Tag, Watched, Entry
      <4>2. ASSUME NEW k \in DOMAIN entries, k # id, entries[k] \in Tag,
                   entries[k].explorer = e, row.explorer = e, entries[k].name = row.name
            PROVE  FALSE
        <5>1. k \in Named(row.name, e, id)
          BY <4>2, TagHeld
        <5>2. QED
          BY <3>2, <4>2, <5>1
      <4>3. CASE i # id /\ j # id
        <5>1. i \in Held("private_name_tag", e) /\ j \in Held("private_name_tag", e)
          BY <3>1, <4>1, <4>3, TagHeld
        <5>2. QED
          BY <1>3, <3>1, <3>3, <4>1, <4>3, <5>1 DEF NamesAreUnique
      <4>4. CASE i = id /\ j # id
        BY <3>1, <3>3, <4>1, <4>2, <4>4
      <4>5. CASE i # id /\ j = id
        BY <3>1, <3>3, <4>1, <4>2, <4>5
      <4>6. QED
        BY <4>3, <4>4, <4>5
    <3>4. NamesAreUnique'
      BY <3>3 DEF NamesAreUnique
    <3>5. QED
      BY <1>6, <1>7, <2>1, <3>4
  <2>5. CASE entries[id] = Removed
    <3>1. UNCHANGED entries
      BY <1>14, <2>2, <2>5 DEF WriteTag, Updated, TypeOK
    <3>2. QED
      BY <2>3, <3>1
  <2>6. QED
    BY <2>4, <2>5
<1>15. ASSUME NEW r \in Requests, WriteWatched(r) \/ Delete(r)
       PROVE  NamesAreUnique' /\ \A s \in Requests : NameIsFree(s)'
  <2> DEFINE id == request[r].id
  <2>1. request[r].op \in {"move", "remove"} /\ Finish(r)
    BY <1>15 DEF WriteWatched, Delete, At
  <2>2. \A i \in DOMAIN entries' : /\ i \in DOMAIN entries
                                   /\ entries'[i] \in Tag => entries'[i] = entries[i]
    <3>1. CASE Delete(r)
      BY <3>1, ConstantsOK DEF Delete, TypeOK, Entry
    <3>2. CASE WriteWatched(r)
      <4>1. request[r] \in Moving /\ id \in DOMAIN entries /\ entries[id] \in Watched \cup {Removed}
        BY <3>2, Holds DEF WriteWatched, At, TypeOK, OnRow
      <4>2. CASE UNCHANGED entries
        BY <4>2
      <4>3. CASE ~ UNCHANGED entries
        <5>1. /\ entries[id] \in Watched
              /\ entries' = [entries EXCEPT ![id] = [@ EXCEPT !.address = request[r].address]]
          BY <3>2, <4>1, <4>3 DEF WriteWatched
        <5>2. /\ DOMAIN entries' = DOMAIN entries
              /\ \A i \in DOMAIN entries : i # id => entries'[i] = entries[i]
              /\ entries'[id] = [entries[id] EXCEPT !.address = request[r].address]
          BY <4>1, <5>1 DEF TypeOK
        <5>3. entries'[id].table = "watch_list"
          BY <5>1, <5>2 DEF Watched
        <5>4. QED
          BY <5>2, <5>3 DEF Tag
      <4>4. QED
        BY <4>2, <4>3
    <3>3. QED
      BY <1>15, <3>1, <3>2
  <2>3. NamesAreUnique'
    <3>1. ASSUME NEW e \in Explorers, NEW i \in Held("private_name_tag", e)'
          PROVE  i \in Held("private_name_tag", e) /\ entries'[i] = entries[i]
      <4>1. i \in DOMAIN entries' /\ entries'[i] \in Tag /\ entries'[i].explorer = e
        BY <3>1, ConstantsOK DEF TypeOK, Held, In, Live, Tag, Watched, Entry
      <4>2. QED
        BY <2>2, <4>1, TagHeld
    <3>2. QED
      BY <1>3, <3>1 DEF NamesAreUnique
  <2>4. QED
    BY <1>6, <1>7, <2>1, <2>3
<1>16. CASE UNCHANGED vars
  BY <1>3, <1>16, NamesKept, FreeKept DEF vars
<1>17. QED
  BY <1>8, <1>9, <1>10, <1>11, <1>12, <1>13, <1>14, <1>15, <1>16 DEF Next, Step, Quiet

\* The check of a name, which is no unique key, suffices while the user's
\* requests do not overlap and a tag is updated in the name of its own
\* explorer, whatever is created, renamed, moved and removed meanwhile.
THEOREM NamesAreUniqueOneByOne == Spec => []NamesAreUniqueAlone
<1>1. Init => TypeOK /\ AloneInv
  BY TypeInit DEF Init, AloneInv, OneOpen, NamesAreUnique, Held, In, Live, NameIsFree, At, Blank
<1>2. TypeOK /\ AloneInv /\ [Next]_vars => (TypeOK /\ AloneInv)'
  BY TypeStep, OpenStep, NamesStep DEF AloneInv
<1>3. AloneInv => NamesAreUniqueAlone
  BY DEF AloneInv, NamesAreUniqueAlone
<1>4. QED
  BY <1>1, <1>2, <1>3, PTL DEF Spec

-----------------------------------------------------------------------------
(* UserEntries implements EntryTable.                                      *)

Places == [table : Tables, explorer : Explorers, address : Addresses]

PlaceOf(row) == [table |-> row.table, explorer |-> row.explorer, address |-> row.address]

\* A row and its image: one is removed if and only if the other is.
LEMMA RowsAre ==
  ASSUME TypeOK
  PROVE  /\ DOMAIN Rows = DOMAIN entries
         /\ Rows \in Seq(Places \cup {Removed})
         /\ \A i \in DOMAIN entries :
              /\ Rows[i] = IF entries[i] = Removed THEN Removed ELSE PlaceOf(entries[i])
              /\ (Rows[i] = Removed) <=> (entries[i] = Removed)
<1>1. ASSUME NEW row \in Entry PROVE PlaceOf(row) \in Places /\ PlaceOf(row) # Removed
  <2>1. PlaceOf(row) \in Places
    BY <1>1 DEF PlaceOf, Places, Entry, Watched, Tag, Tables
  <2>2. QED
    BY <2>1, ConstantsOK DEF Places
<1>2. DOMAIN Rows = DOMAIN entries
  BY DEF Rows
<1>3. ASSUME NEW i \in DOMAIN entries
      PROVE  /\ Rows[i] = IF entries[i] = Removed THEN Removed ELSE PlaceOf(entries[i])
             /\ (Rows[i] = Removed) <=> (entries[i] = Removed)
             /\ Rows[i] \in Places \cup {Removed}
  <2>1. entries[i] \in Entry \cup {Removed}
    BY DEF TypeOK
  <2>2. Rows[i] = IF entries[i] = Removed THEN Removed ELSE PlaceOf(entries[i])
    BY DEF Rows, PlaceOf
  <2>3. QED
    BY <1>1, <2>1, <2>2
<1>4. Rows \in Seq(Places \cup {Removed})
  <2>1. Len(entries) \in Nat /\ DOMAIN entries = 1..Len(entries)
    BY DEF TypeOK
  <2>2. Rows \in [1..Len(entries) -> Places \cup {Removed}]
    BY <1>2, <1>3, <2>1 DEF Rows
  <2>3. QED
    BY <2>1, <2>2
<1>5. QED
  BY <1>2, <1>3, <1>4

\* The table's view of the rows is that of the services' statements.
LEMMA SameView ==
  ASSUME TypeOK
  PROVE  /\ Table!Live = Live
         /\ \A t \in Tables, a \in Addresses : Table!Taken(t, a) <=> Keyed(t, a) # {}
         /\ \A t \in Tables, e \in Explorers : Table!Size(t, e) = Cardinality(Held(t, e))
<1>1. Table!Live = Live
  BY RowsAre DEF Table!Live, Live
<1>2. \A i \in Live : /\ Rows[i].table = entries[i].table
                      /\ Rows[i].explorer = entries[i].explorer
                      /\ Rows[i].address = entries[i].address
  BY RowsAre DEF Live, PlaceOf
<1>3. ASSUME NEW t \in Tables, NEW a \in Addresses PROVE Table!Taken(t, a) <=> Keyed(t, a) # {}
  BY <1>1, <1>2 DEF Table!Taken, Keyed, In
<1>4. ASSUME NEW t \in Tables, NEW e \in Explorers PROVE Table!Size(t, e) = Cardinality(Held(t, e))
  <2>1. {i \in Table!Live : Rows[i].table = t /\ Rows[i].explorer = e} = Held(t, e)
    BY <1>1, <1>2 DEF Held, In
  <2>2. QED
    BY <2>1 DEF Table!Size, Table!Cardinality, Cardinality
<1>5. QED
  BY <1>1, <1>3, <1>4

LEMMA TableStep == Inv /\ Inv' /\ [Next]_vars => [Table!Next]_Rows
<1> SUFFICES ASSUME Inv, Inv', [Next]_vars, ~ UNCHANGED Rows PROVE Table!Next
  OBVIOUS
<1>t. TypeOK /\ TypeOK'
  BY DEF Inv
<1>1. ~ UNCHANGED entries
  BY DEF Rows
<1>2. PICK r \in Requests : Insert(r) \/ WriteTag(r) \/ WriteWatched(r) \/ Delete(r)
  BY <1>1 DEF Next, Step, Quiet, vars, Create, CountEntries, FindAddress, FindName,
              UpdateTag, LoadTag, MoveWatched, FindToRemove
<1>f. /\ Rows = [i \in DOMAIN entries |-> Rows[i]]
      /\ Rows' = [i \in DOMAIN entries' |-> Rows'[i]]
  BY DEF Rows
<1>r. /\ DOMAIN Rows = DOMAIN entries /\ DOMAIN Rows' = DOMAIN entries'
      /\ \A i \in DOMAIN entries :
           Rows[i] = IF entries[i] = Removed THEN Removed ELSE PlaceOf(entries[i])
      /\ \A i \in DOMAIN entries' :
           Rows'[i] = IF entries'[i] = Removed THEN Removed ELSE PlaceOf(entries'[i])
  BY DEF Rows, PlaceOf
<1>3. CASE Insert(r)
  <2> DEFINE new == request[r].entry
  <2>1. /\ new \in Entry /\ new.table \in Tables /\ new.explorer \in Explorers
        /\ new.address \in Addresses /\ new # Removed
    BY <1>t, <1>3, Holds, ConstantsOK DEF Insert, At, Creation, Entry, Watched, Tag, Tables
  <2>2. entries' = Append(entries, new) /\ Keyed(new.table, new.address) = {}
    BY <1>1, <1>3 DEF Insert
  <2>3. ~ Table!Taken(new.table, new.address)
    BY <1>t, <2>1, <2>2, SameView
  <2>4. Cardinality(Held(new.table, new.explorer)) < Limit + Cardinality(Requests) - 1
    <3>1. r \in Admitted(new.table, new.explorer)
      BY <1>3 DEF Insert, At, Admitted
    <3>2. Cardinality(Admitted(new.table, new.explorer)) # 0
      BY <1>t, <2>1, <3>1, Countable, FS_EmptySet
    <3>3. QED
      BY <1>t, <2>1, <3>2, Countable, ConstantsOK DEF Inv, AdmittedFit
  <2>5. Table!Size(new.table, new.explorer) < Limit + Cardinality(Requests) - 1
    BY <1>t, <2>1, <2>4, SameView
  <2>6. Rows' = Append(Rows, PlaceOf(new))
    <3>1. /\ Len(entries) \in Nat /\ DOMAIN entries = 1..Len(entries)
          /\ DOMAIN entries' = 1..(Len(entries) + 1) /\ entries'[Len(entries) + 1] = new
          /\ \A i \in 1..Len(entries) : entries'[i] = entries[i]
      BY <1>t, <2>2 DEF TypeOK
    <3>2. Rows \in Seq(Places \cup {Removed}) /\ Len(Rows) = Len(entries)
      BY <1>t, <3>1, RowsAre
    <3>3. PlaceOf(new) \in Places
      BY <2>1 DEF PlaceOf, Places
    <3>4. Rows' \in [1..(Len(entries) + 1) -> Places \cup {Removed}]
      <4>1. \A i \in 1..Len(entries) : Rows'[i] = Rows[i]
        BY <3>1, <1>r
      <4>2. Rows'[Len(entries) + 1] = PlaceOf(new)
        BY <2>1, <3>1, <1>r
      <4>3. \A i \in 1..Len(entries) : Rows[i] \in Places \cup {Removed}
        BY <3>1, <3>2, <1>r
      <4>4. \A i \in 1..(Len(entries) + 1) : Rows'[i] \in Places \cup {Removed}
        BY <3>1, <3>3, <4>1, <4>2, <4>3
      <4>5. QED
        BY <3>1, <4>4, <1>f
    <3>5. \A i \in 1..(Len(entries) + 1) : Rows'[i] = Append(Rows, PlaceOf(new))[i]
      BY <2>1, <3>1, <3>2, <3>3, <1>r
    <3>6. QED
      BY <3>2, <3>3, <3>4, <3>5
  <2>7. QED
    BY <2>1, <2>3, <2>5, <2>6 DEF Table!Next, Table!Add, PlaceOf
<1>4. CASE WriteTag(r)
  <2> DEFINE id == request[r].id
  <2>1. /\ request[r] \in Rewrite /\ id \in DOMAIN entries /\ entries[id] \in Tag \cup {Removed}
    BY <1>t, <1>4, Holds DEF WriteTag, At, TypeOK, OnRow
  <2>2. entries[id] # Removed /\ entries' = [entries EXCEPT ![id] = request[r].row]
    <3>1. CASE entries[id] = Removed
      <4>1. UNCHANGED entries
        BY <1>t, <1>4, <2>1, <3>1 DEF WriteTag, Updated, TypeOK
      <4>2. QED
        BY <4>1, <1>1
    <3>2. QED
      BY <1>4, <3>1 DEF WriteTag, Updated
  <2>3. PlaceOf(request[r].row) = PlaceOf(entries[id]) /\ request[r].row # Removed
    BY <1>4, <2>1, <2>2, ConstantsOK DEF WriteTag, Inv, ReadsHold, Rewrite, Tag, PlaceOf, Entry
  <2>4. UNCHANGED Rows
    BY <1>t, <2>1, <2>2, <2>3 DEF Rows, PlaceOf, TypeOK
  <2>5. QED
    BY <2>4
<1>5. CASE WriteWatched(r)
  <2> DEFINE id == request[r].id
  <2> DEFINE a == request[r].address
  <2>1. /\ request[r] \in Moving /\ id \in DOMAIN entries /\ entries[id] \in Watched \cup {Removed}
    BY <1>t, <1>5, Holds DEF WriteWatched, At, TypeOK, OnRow
  <2>2. /\ entries[id] # Removed /\ Keyed("watch_list", a) = {}
        /\ entries' = [entries EXCEPT ![id] = [@ EXCEPT !.address = a]]
    BY <1>1, <1>5 DEF WriteWatched
  <2>3. a \in Addresses /\ id \in Live /\ entries[id] \in Watched
    BY <2>1, <2>2 DEF Moving, Live
  <2>4. Rows[id] = PlaceOf(entries[id]) /\ Rows[id].table = "watch_list"
    BY <2>1, <2>2, <2>3, <1>r DEF PlaceOf, Watched
  <2>5. Rows' = [Rows EXCEPT ![id] = [@ EXCEPT !.address = a]]
    <3>1. /\ DOMAIN entries' = DOMAIN entries
          /\ entries'[id] = [entries[id] EXCEPT !.address = a]
          /\ \A i \in DOMAIN entries : i # id => entries'[i] = entries[i]
      BY <1>t, <2>1, <2>2 DEF TypeOK
    <3>2. entries'[id] \in Watched /\ entries'[id] # Removed
      BY <2>3, <3>1, ConstantsOK DEF Watched, Entry
    <3>3. PlaceOf(entries'[id]) = [PlaceOf(entries[id]) EXCEPT !.address = a]
      BY <2>3, <3>1 DEF PlaceOf, Watched
    <3>4. Rows'[id] = [Rows[id] EXCEPT !.address = a]
      BY <2>1, <2>4, <3>1, <3>2, <3>3, <1>r
    <3>5. \A i \in DOMAIN entries : i # id => Rows'[i] = Rows[i]
      BY <3>1, <1>r
    <3>6. QED
      BY <2>1, <3>1, <3>4, <3>5, <1>f, <1>r
  <2>6. ~ Table!Taken("watch_list", a)
    BY <1>t, <2>2, <2>3, SameView DEF Tables
  <2>7. id \in Table!Live
    BY <1>t, <2>3, SameView
  <2>8. QED
    BY <2>3, <2>4, <2>5, <2>6, <2>7 DEF Table!Next, Table!Move
<1>6. CASE Delete(r)
  <2> DEFINE id == request[r].id
  <2>1. id \in DOMAIN entries
    BY <1>t, <1>6 DEF Delete, At, TypeOK, OnRow
  <2>2. /\ DOMAIN entries' = DOMAIN entries /\ entries'[id] = Removed
        /\ \A i \in DOMAIN entries : i # id => entries'[i] = entries[i]
    BY <1>t, <1>6, <2>1 DEF Delete, TypeOK
  <2>3. id \in Live
    BY <1>t, <1>1, <1>6, <2>1 DEF Delete, Live, TypeOK
  <2>4. Rows' = [Rows EXCEPT ![id] = Removed]
    BY <2>1, <2>2, <1>f, <1>r
  <2>5. id \in Table!Live
    BY <1>t, <2>3, SameView
  <2>6. QED
    BY <2>4, <2>5 DEF Table!Next, Table!Remove
<1>7. QED
  BY <1>2, <1>3, <1>4, <1>5, <1>6

\* However the requests interleave, the rows behave as a table of entries
\* with one entry for an address, a bound, and removals that last.
THEOREM Implements == Spec => ImplementsTable
<1>1. Init => Table!Init
  BY DEF Init, Table!Init, Rows
<1>2. QED
  BY <1>1, InvInit, InvStep, TableStep, PTL DEF Spec, Table!Spec, ImplementsTable

=============================================================================
