----------------------------- MODULE EntryTable -----------------------------
(***************************************************************************)
(* What a table of a user's entries promises, whatever requests are open:  *)
(* an entry is added for an address he has no entry for, up to a bound for *)
(* each explorer; it may move to another such address; and a removed entry *)
(* never comes back, as its id is never used again.                        *)
(***************************************************************************)
EXTENDS Integers, FiniteSets, Sequences

CONSTANTS
  Tables, Explorers, Addresses,
  Movable,   \* tables whose entries may change their address
  Bound,     \* entries of a table in one explorer
  Removed

VARIABLE rows   \* rows[id]

Live == {i \in DOMAIN rows : rows[i] # Removed}
Taken(t, a) == \E i \in Live : rows[i].table = t /\ rows[i].address = a
Size(t, e) == Cardinality({i \in Live : rows[i].table = t /\ rows[i].explorer = e})

Init == rows = <<>>

Add ==
  \E t \in Tables, e \in Explorers, a \in Addresses :
    /\ ~Taken(t, a) /\ Size(t, e) < Bound
    /\ rows' = Append(rows, [table |-> t, explorer |-> e, address |-> a])

Move ==
  \E i \in Live, a \in Addresses :
    /\ rows[i].table \in Movable /\ ~Taken(rows[i].table, a)
    /\ rows' = [rows EXCEPT ![i] = [@ EXCEPT !.address = a]]

Remove == \E i \in Live : rows' = [rows EXCEPT ![i] = Removed]

Next == Add \/ Move \/ Remove

Spec == Init /\ [][Next]_rows

=============================================================================
