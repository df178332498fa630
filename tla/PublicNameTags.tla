--------------------------- MODULE PublicNameTags ---------------------------
(***************************************************************************)
(* The public name tags, which administrators write                        *)
(* (PublicNameTagService).  A request is validated in statements of their  *)
(* own, each with an error of its own, before the row is written; the      *)
(* unique keys of the table have the last word, and their errors reach the *)
(* administrator as they are.                                              *)
(***************************************************************************)
EXTENDS Integers, Sequences

CONSTANTS
  Explorers, Addresses, Names,
  Requests,      \* slots for concurrent requests
  MaxRequests,   \* bound: requests that are started
  NoTag          \* the place of a deleted row, the request of an idle slot

VARIABLES
  tags,          \* tags[id]: the rows ever inserted
  request,
  started,
  crowded,       \* history: open requests that were not alone all the time
  keyError       \* history: the last request that a unique key refused

vars == <<tags, request, started, crowded, keyError>>

Row  == [explorer : Explorers, address : Addresses, name : Names]
NoId == -1

Init ==
  /\ tags = <<>>
  /\ request = [r \in Requests |-> NoTag]
  /\ started = 0 /\ crowded = {} /\ keyError = NoTag

Live == {id \in DOMAIN tags : tags[id] # NoTag}

\* @Unique(['address']), @Index(['name_tag', 'explorer'])
KeysAllow(id, row) ==
  \A other \in Live \ {id} :
    /\ tags[other].address # row.address
    /\ <<tags[other].name, tags[other].explorer>> # <<row.name, row.explorer>>

-----------------------------------------------------------------------------
Open == {r \in Requests : request[r] # NoTag}
At(r, op, step) == r \in Open /\ request[r].op = op /\ request[r].at = step

Start(r, q) ==
  /\ r \notin Open /\ started < MaxRequests
  /\ started' = started + 1
  /\ request' = [request EXCEPT ![r] = q]
  /\ crowded' = IF Open = {} THEN crowded ELSE crowded \cup Open \cup {r}
  /\ UNCHANGED <<tags, keyError>>
Continue(r, step) ==
  /\ request' = [request EXCEPT ![r].at = step]
  /\ UNCHANGED <<tags, started, crowded, keyError>>
Finish(r) ==
  /\ request' = [request EXCEPT ![r] = NoTag]
  /\ crowded' = crowded \ {r}
  /\ UNCHANGED started
Refuse(r) == Finish(r) /\ UNCHANGED <<tags, keyError>>

\* Insert or update: the keys decide.
Write(r, id, new, table) ==
  /\ IF KeysAllow(id, new)
     THEN tags' = table /\ UNCHANGED keyError
     ELSE /\ keyError' = [q |-> request[r], explorer |-> new.explorer, alone |-> r \notin crowded]
          /\ UNCHANGED tags
  /\ Finish(r)

-----------------------------------------------------------------------------
\* createPublicNameTag.  A request whose name, url or address has not the
\* right format or type is refused at once.  Its id may be anything.
Create(r) ==
  \E row \in Row, id \in {NoId, 0} \cup DOMAIN tags :
    Start(r, [op |-> "create", at |-> "address", id |-> id, row |-> row])

AddressTakenHere(q) ==
  \E id \in Live : tags[id].address = q.row.address /\ tags[id].explorer = q.row.explorer
AddressTaken(q) == \E id \in Live : tags[id].address = q.row.address

FindAddress(r) ==
  /\ At(r, "create", "address")
  /\ IF AddressTaken(request[r]) THEN Refuse(r) ELSE Continue(r, "name")

\* "id: Not(req.id)": nothing differs from an id that the request leaves out.
DifferentFrom(other, id) == id # NoId /\ other # id
NameTaken(q) ==
  \E id \in Live : /\ DifferentFrom(id, q.id)
                   /\ tags[id].name = q.row.name /\ tags[id].explorer = q.row.explorer

FindName(r) ==
  /\ At(r, "create", "name") \/ At(r, "update", "name")
  /\ IF NameTaken(request[r]) THEN Refuse(r) ELSE Continue(r, "write")

Save(r) ==
  /\ At(r, "create", "write")
  /\ LET row == request[r].row IN Write(r, 0, row, Append(tags, row))

\* updatePublicNameTag.  The explorer of the request need not be that of the
\* tag; the address of the request is neither checked nor written.
Update(r) ==
  \E id \in Live, e \in Explorers, n \in Names :
    Start(r, [op |-> "update", at |-> "name", id |-> id,
              row |-> [explorer |-> e, address |-> tags[id].address, name |-> n]])

Rename(r) ==
  /\ At(r, "update", "write")
  /\ LET id == request[r].id IN
     IF tags[id] = NoTag THEN Refuse(r)
     ELSE LET row == [tags[id] EXCEPT !.name = request[r].row.name]
          IN Write(r, id, row, [tags EXCEPT ![id] = row])

\* deletePublicNameTag
Delete ==
  \E id \in Live :
    /\ tags' = [tags EXCEPT ![id] = NoTag]
    /\ UNCHANGED <<request, started, crowded, keyError>>

Quiet == Open = {} /\ UNCHANGED vars

Step(r) ==
  Create(r) \/ FindAddress(r) \/ FindName(r) \/ Save(r) \/ Update(r) \/ Rename(r)

Next == Delete \/ Quiet \/ \E r \in Requests : Step(r)

Spec == Init /\ [][Next]_vars

-----------------------------------------------------------------------------
(* Properties                                                              *)

\* An administrator who is alone meets an error of the database instead of
\* "Duplicate address" or "Duplicate name tag" only where the check of the
\* name overlooks tags: all of them, for a new tag without an id, the one
\* whose id it has, or those of the tag's explorer if the request has another.
KeyErrorsAreKnown ==
  keyError # NoTag /\ keyError.alone =>
    LET q == keyError.q IN
      IF q.op = "create" THEN q.id # 0 ELSE q.row.explorer # keyError.explorer

=============================================================================
