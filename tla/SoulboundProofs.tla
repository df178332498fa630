-------------------------- MODULE SoulboundProofs --------------------------
(***************************************************************************)
(* Theorems about Soulbound, for any tokens, requests, pages, blocks,      *)
(* failures and any limit of the tokens on display.                        *)
(***************************************************************************)
EXTENDS Soulbound, FiniteSetTheorems, SequenceTheorems, TLAPS

\* What the message is that is read for activity i of chain c, and what it
\* makes of the row.
Odd(c, m)    == Cardinality({k \in 1..m : c[k].token = c[m].token}) % 2 = 1
TakeOn(c, i) == TokenRead(c, i) # NoToken /\ Odd(c, c[i].read)
Said(c, i)   == IF TakeOn(c, i) THEN "Equipped" ELSE "Unequipped"

\* The message read for activity i of chain c inserts a row, or follows one
\* that did.
Findable(c, i) ==
  \/ TakeOn(c, i)
  \/ \E j \in 1..c[i].read : /\ TakeOn(c, j) /\ c[j].read < c[i].read
                            /\ TokenRead(c, j) = TokenRead(c, i)

\* The message that is read is one of the same transaction.
ReadOn(c, i) ==
  /\ c[i].read \in 0..i
  /\ c[i].read # 0 =>
       c[c[i].read].height = c[i].height /\ c[c[i].read].read = c[i].read

\* The chain goes up, and each block has an activity of its own.
Chronological ==
  \A i \in DOMAIN chain :
    /\ chain[i].height <= i
    /\ \A j \in DOMAIN chain : i <= j => chain[i].height <= chain[j].height
    /\ ReadOn(chain, i)

\* A run works above the cursor, on a page in the order of its heights.
OnPage == {"insert", "find", "count", "cursor"}
PageIsRead ==
  /\ pc \in OnPage \cup {"fetch"} => since = point
  /\ pc = "cursor" => at = Len(page) + 1
  /\ pc \in OnPage =>
       /\ page # <<>> /\ at \in Nat \ {0}
       /\ \A a \in DOMAIN page : chain[page[a]].height > since
       /\ \A a, b \in DOMAIN page :
            /\ page[a] = page[b] => a = b
            /\ a < b => chain[page[a]].height <= chain[page[b]].height
  /\ pc = "insert" => TakeOn(chain, page[at])
  /\ pc = "find" /\ TakeOn(chain, page[at]) => row[current] # NoRow
  /\ pc = "count" => current # NoToken /\ row[current] # NoRow

\* Rows are not deleted, so what was read of a row has one still.
Pending(t) == {k \in DOMAIN writes : TokenOf(writes[k].at) = t}
SavesHaveRows ==
  \A k \in DOMAIN writes :
    TokenOf(writes[k].at) # NoToken /\ row[TokenOf(writes[k].at)] # NoRow
RowsRemain ==
  /\ SavesHaveRows
  /\ \A r \in Requests : request[r] # Idle => row[request[r].token] # NoRow

\* A save says what the activity says that it was started for.
WritesTell ==
  \A k \in DOMAIN writes : writes[k].row.status = Said(chain, writes[k].at)

Basics == TypeOK /\ Chronological /\ PageIsRead /\ RowsRemain /\ WritesTell

\* Whatever holds a picked row, or is about to pick one, has seen a take.
Active(t) == \E i \in DOMAIN chain : chain[i].token = t
PickIsTaken(q) ==
  /\ q \in Put /\ q.row.picked => Active(q.token)
  /\ q \in Pick /\ q.op = "queried" => Active(q.token)
PicksAreTaken ==
  /\ \A t \in Tokens : row[t] # NoRow /\ row[t].picked => Active(t)
  /\ \A r \in Requests : PickIsTaken(request[r])

\* Only a PUT replaces the minter's signature, by which a take is found.
SignedByMinter ==
  \A t \in Tokens \ diverged :
    /\ row[t] # NoRow => row[t].signer = "minter"
    /\ \A k \in Pending(t) : writes[k].row.signer = "minter"
    /\ pc = "count" /\ current = t => item.signer = "minter"

\* The last save of the token is that of the message read for activity i, or
\* it has landed.
Message(i) == chain[i].read
Latest(t, i) ==
  \/ \E k \in Pending(t) : /\ Message(writes[k].at) = Message(i)
                          /\ \A m \in Pending(t) : m <= k
  \/ Pending(t) = {} /\ row[t] # NoRow /\ row[t].status = Said(chain, i)

\* What the run has handled of its page so far, except for tokens that
\* diverge when the cursor moves.
Unsound == LeftOut \cup Swapped
HandledAs(t, a, i) == a \in DOMAIN page /\ a < at /\ page[a] = i /\ TokenOf(i) = t
LastHandled(t, a, i) ==
  /\ HandledAs(t, a, i)
  /\ \A b \in DOMAIN page :
       b < at /\ TokenOf(page[b]) = t => Message(page[b]) <= Message(i)
Handled ==
  pc \in OnPage =>
    \A t \in Tokens \ (diverged \cup Unsound), a \in DOMAIN page, i \in DOMAIN chain :
      Findable(chain, i) =>
        /\ LastHandled(t, a, i) => Latest(t, i)
        /\ HandledAs(t, a, i) => row[t] # NoRow

\* What the cursor has passed.
LastOf(t, i) ==
  TokenOf(i) = t /\ \A k \in DOMAIN chain : TokenOf(k) = t => Message(k) <= Message(i)
Settled ==
  /\ point <= 0 \/ \E i \in DOMAIN chain : point <= chain[i].height
  /\ \A t \in Tokens \ diverged : \A i \in DOMAIN chain :
       chain[i].height <= point /\ Findable(chain, i) =>
       /\ LastOf(t, i) => Latest(t, i)
       /\ TokenOf(i) = t => row[t] # NoRow

Mirror == SignedByMinter /\ Handled /\ Settled

-----------------------------------------------------------------------------
(* The chain, pages of it and the saves.                                   *)

LEMMA Limits ==
  /\ MaxPicked \in Nat /\ PageLimit \in Nat /\ PageLimit > 0
  /\ MaxActivity \in Nat /\ MaxFail \in Nat /\ BlockSize \in Nat
BY ConstantsOK

LEMMA HeightOf ==
  ASSUME TypeOK, Chronological
  PROVE  /\ Height \in 0..Len(chain)
         /\ \A i \in DOMAIN chain : chain[i].height <= Height /\ chain[i].height \in Nat \ {0}
<1>1. chain \in Seq(Activity) /\ Len(chain) \in Nat /\ DOMAIN chain = 1..Len(chain)
  BY DEF TypeOK
<1>2. \A i \in DOMAIN chain : chain[i].height \in Nat \ {0}
  <2> TAKE i \in DOMAIN chain
  <2>1. chain[i] \in Activity
    BY <1>1
  <2>2. QED
    BY <2>1, Limits DEF Activity
<1>3. CASE chain = <<>>
  BY <1>1, <1>3 DEF Height
<1>4. CASE chain # <<>>
  <2>1. Len(chain) \in DOMAIN chain /\ Last(chain) = chain[Len(chain)]
    BY <1>1, <1>4 DEF Last
  <2>2. Height = chain[Len(chain)].height
    BY <1>4, <2>1 DEF Height
  <2>3. QED
    BY <1>1, <1>2, <2>1, <2>2 DEF Chronological
<1>5. QED
  BY <1>3, <1>4

LEMMA ReadWell ==
  ASSUME NEW c, NEW i, NEW m, c[i].read = m, m \in 0..i,
         c[m].height = c[i].height, c[m].read = m
  PROVE  ReadOn(c, i)
BY DEF ReadOn

LEMMA Joined ==
  ASSUME NEW S, NEW s \in Seq(S), NEW f \in Seq(S)
  PROVE  /\ s \o f \in Seq(S) /\ Len(s \o f) = Len(s) + Len(f)
         /\ \A i \in 1..Len(s) : (s \o f)[i] = s[i]
         /\ \A k \in 1..Len(f) : (s \o f)[Len(s) + k] = f[k]
<1>1. Len(s) \in Nat /\ Len(f) \in Nat
  OBVIOUS
<1>2. /\ s \o f \in Seq(S) /\ Len(s \o f) = Len(s) + Len(f)
      /\ \A i \in 1..(Len(s) + Len(f)) :
           (s \o f)[i] = IF i <= Len(s) THEN s[i] ELSE f[i - Len(s)]
  BY ConcatProperties
<1>3. ASSUME NEW k \in 1..Len(f)
      PROVE  /\ Len(s) + k \in 1..(Len(s) + Len(f)) /\ ~(Len(s) + k <= Len(s))
             /\ Len(s) + k - Len(s) = k
  BY <1>1
<1>4. \A i \in 1..Len(s) : i \in 1..(Len(s) + Len(f)) /\ i <= Len(s)
  BY <1>1
<1>5. QED
  BY <1>2, <1>3, <1>4

\* A block adds activities of one new height.
LEMMA ChainGrows ==
  ASSUME TypeOK, Chronological, Block
  PROVE  /\ chain' \in Seq(Activity) /\ Len(chain') <= MaxActivity
         /\ Len(chain) < Len(chain')
         /\ \A i \in DOMAIN chain : i \in DOMAIN chain' /\ chain'[i] = chain[i]
         /\ \A i \in DOMAIN chain' \ DOMAIN chain :
              i > Len(chain) /\ chain'[i].height = Height + 1 /\ ReadOn(chain', i)
<1>1. PICK n \in 1..BlockSize : \E tokens \in [1..n -> Tokens], reads \in [1..n -> 0..(Len(chain) + n)] :
        /\ Len(chain) + n <= MaxActivity
        /\ InTransactions(n, reads)
        /\ chain' = chain \o [i \in 1..n |->
                               [height |-> Height + 1, token |-> tokens[i], read |-> reads[i]]]
  BY DEF Block
<1>2. PICK tokens \in [1..n -> Tokens], reads \in [1..n -> 0..(Len(chain) + n)] :
        /\ Len(chain) + n <= MaxActivity
        /\ InTransactions(n, reads)
        /\ chain' = chain \o [i \in 1..n |->
                               [height |-> Height + 1, token |-> tokens[i], read |-> reads[i]]]
  BY <1>1
<1> DEFINE f == [i \in 1..n |->
                  [height |-> Height + 1, token |-> tokens[i], read |-> reads[i]]]
<1>3. chain \in Seq(Activity) /\ Len(chain) \in Nat /\ n \in Nat /\ n >= 1
  BY Limits DEF TypeOK
<1>4. Height + 1 \in 1..MaxActivity
  BY <1>2, <1>3, HeightOf, Limits
<1>5. /\ f \in Seq(Activity) /\ Len(f) = n
      /\ \A i \in 1..n : f[i].height = Height + 1 /\ f[i].read = reads[i]
  <2>1. \A i \in 1..n : reads[i] \in 0..MaxActivity
    BY <1>2, <1>3, Limits
  <2>2. QED
    BY <1>3, <1>4, <2>1 DEF Activity
<1>6. chain' = chain \o f
  BY <1>2
<1> HIDE DEF f
<1>7. /\ chain' \in Seq(Activity) /\ Len(chain') = Len(chain) + n
      /\ \A i \in 1..Len(chain) : chain'[i] = chain[i]
      /\ \A k \in 1..n : chain'[Len(chain) + k] = f[k]
  <2>1. /\ chain \o f \in Seq(Activity) /\ Len(chain \o f) = Len(chain) + Len(f)
        /\ \A i \in 1..Len(chain) : (chain \o f)[i] = chain[i]
        /\ \A k \in 1..Len(f) : (chain \o f)[Len(chain) + k] = f[k]
    <3>1. chain \in Seq(Activity) /\ f \in Seq(Activity)
      BY <1>3, <1>5
    <3>2. QED
      BY <3>1, Joined, SMTT(60)
  <2>2. Len(f) = n /\ chain' = chain \o f
    BY <1>5, <1>6
  <2>3. QED
    BY <2>1, <2>2, Zenon
<1>8. ASSUME NEW i \in 1..n PROVE ReadOn(chain', Len(chain) + i)
  <2> DEFINE new == Len(chain) + i
  <2>1. chain'[new] = f[i] /\ chain'[new].height = Height + 1 /\ chain'[new].read = reads[i]
    BY <1>5, <1>7
  <2>2. CASE reads[i] = 0
    BY <1>3, <2>1, <2>2 DEF ReadOn
  <2>3. CASE reads[i] # 0
    <3>1. PICK k \in 1..i : \A j \in k..i : reads[j] = Len(chain) + k
      BY <1>2, <2>3 DEF InTransactions
    <3>2. reads[i] = Len(chain) + k /\ reads[k] = Len(chain) + k /\ k \in 1..n
      BY <3>1
    <3>3. /\ chain'[Len(chain) + k].height = Height + 1
          /\ chain'[Len(chain) + k].read = reads[k]
      BY <1>5, <1>7, <3>2
    <3>4. Len(chain) + k \in 0..new
      BY <1>3, <3>1
    <3>5. chain'[new].read = Len(chain) + k
      BY <2>1, <3>2
    <3>6. chain'[new].height = Height + 1
      BY <2>1
    <3> DEFINE m == Len(chain) + k
    <3>7. /\ chain'[new].read = m /\ m \in 0..new
          /\ chain'[m].height = chain'[new].height /\ chain'[m].read = m
      BY <3>2, <3>3, <3>4, <3>5, <3>6
    <3> HIDE DEF new, m
    <3>8. ReadOn(chain', new)
      BY <3>7, ReadWell
    <3>9. QED
      BY <3>8 DEF new
  <2>4. QED
    BY <2>2, <2>3
<1>9. ASSUME NEW i \in DOMAIN chain' \ DOMAIN chain
      PROVE  i > Len(chain) /\ chain'[i].height = Height + 1 /\ ReadOn(chain', i)
  <2>1. i - Len(chain) \in 1..n /\ i = Len(chain) + (i - Len(chain))
    BY <1>3, <1>7
  <2> DEFINE j == i - Len(chain)
  <2>2. j \in 1..n /\ i = Len(chain) + j /\ i > Len(chain)
    BY <1>3, <2>1
  <2>3. chain'[i] = f[j]
    BY <1>7, <2>2
  <2> HIDE DEF j
  <2>4. QED
    BY <1>5, <1>8, <2>2, <2>3
<1>10. QED
  BY <1>2, <1>3, <1>7, <1>9

LEMMA GrownChronological ==
  ASSUME TypeOK, Chronological, Block
  PROVE  Chronological'
<1>1. Len(chain) \in Nat /\ DOMAIN chain = 1..Len(chain)
  BY DEF TypeOK
<1>2. Len(chain') \in Nat /\ DOMAIN chain' = 1..Len(chain')
  BY ChainGrows
<1>3. ASSUME NEW i \in DOMAIN chain' PROVE chain'[i].height <= i
  <2>1. CASE i \in DOMAIN chain
    BY <2>1, ChainGrows DEF Chronological
  <2>2. CASE i \notin DOMAIN chain
    BY <1>1, <1>2, <2>2, ChainGrows, HeightOf
  <2>3. QED
    BY <2>1, <2>2
<1>4. ASSUME NEW i \in DOMAIN chain', NEW j \in DOMAIN chain', i <= j
      PROVE  chain'[i].height <= chain'[j].height
  <2>1. CASE j \in DOMAIN chain
    <3>1. i \in DOMAIN chain
      BY <1>1, <1>2, <1>4, <2>1
    <3>2. QED
      BY <1>4, <2>1, <3>1, ChainGrows DEF Chronological
  <2>2. CASE j \notin DOMAIN chain /\ i \in DOMAIN chain
    BY <1>1, <2>2, ChainGrows, HeightOf
  <2>3. CASE j \notin DOMAIN chain /\ i \notin DOMAIN chain
    BY <2>3, ChainGrows, HeightOf
  <2>4. QED
    BY <2>1, <2>2, <2>3
<1>5. ASSUME NEW i \in DOMAIN chain' PROVE ReadOn(chain', i)
  <2>1. CASE i \in DOMAIN chain
    <3>1. ReadOn(chain, i) /\ chain'[i] = chain[i]
      BY <2>1, ChainGrows DEF Chronological
    <3>2. chain[i].read # 0 => chain[i].read \in DOMAIN chain
      BY <1>1, <2>1, <3>1 DEF ReadOn
    <3>3. chain[i].read # 0 => chain'[chain[i].read] = chain[chain[i].read]
      BY <3>2, ChainGrows
    <3>4. QED
      BY <3>1, <3>3 DEF ReadOn
  <2>2. CASE i \notin DOMAIN chain
    BY <2>2, ChainGrows
  <2>3. QED
    BY <2>1, <2>2
<1>6. QED
  BY <1>3, <1>4, <1>5 DEF Chronological

\* What a message says does not depend on later ones.
LEMMA SaidRemains ==
  ASSUME NEW c, NEW d, NEW n \in Nat,
         \A i \in 1..n : d[i] = c[i] /\ c[i].read \in 0..i
  PROVE  \A i \in 1..n :
           /\ TokenRead(d, i) = TokenRead(c, i)
           /\ TakeOn(d, i) = TakeOn(c, i) /\ Said(d, i) = Said(c, i)
           /\ Findable(d, i) = Findable(c, i)
<1>1. ASSUME NEW i \in 1..n
      PROVE  /\ TokenRead(d, i) = TokenRead(c, i)
             /\ TakeOn(d, i) = TakeOn(c, i) /\ Said(d, i) = Said(c, i)
  <2> DEFINE m == c[i].read
  <2>1. d[i].read = m /\ m \in 0..i /\ m \in 0..n
    OBVIOUS
  <2> HIDE DEF m
  <2>2. CASE m = 0
    <3>1. TokenRead(d, i) = NoToken /\ TokenRead(c, i) = NoToken
      BY <2>1, <2>2 DEF TokenRead, m
    <3>2. QED
      BY <3>1 DEF TakeOn, Said
  <2>3. CASE m # 0
    <3>1. m \in 1..n /\ \A k \in 1..m : d[k] = c[k]
      BY <2>1, <2>3
    <3>2. {k \in 1..m : c[k].token = c[m].token} = {k \in 1..m : d[k].token = d[m].token}
      BY <3>1
    <3>3. Odd(d, m) = Odd(c, m)
      BY <3>2 DEF Odd
    <3>4. TokenRead(d, i) = TokenRead(c, i)
      BY <2>1, <3>1 DEF TokenRead, m
    <3>5. TakeOn(d, i) = TakeOn(c, i)
      BY <2>1, <3>3, <3>4 DEF TakeOn, m
    <3>6. QED
      BY <3>4, <3>5 DEF Said
  <2>4. QED
    BY <2>2, <2>3
<1>2. ASSUME NEW i \in 1..n PROVE Findable(d, i) = Findable(c, i)
  <2>1. d[i].read = c[i].read /\ \A j \in 1..c[i].read : j \in 1..n /\ d[j].read = c[j].read
    OBVIOUS
  <2>2. \A j \in 1..c[i].read : /\ TakeOn(d, j) = TakeOn(c, j)
                               /\ TokenRead(d, j) = TokenRead(c, j)
    BY <1>1, <2>1
  <2>3. TakeOn(d, i) = TakeOn(c, i) /\ TokenRead(d, i) = TokenRead(c, i)
    BY <1>1
  <2>4. QED
    BY <2>1, <2>2, <2>3 DEF Findable
<1>3. QED
  BY <1>1, <1>2

LEMMA TakesOnChain ==
  \A i : SaysTake(i) <=> TakeOn(chain, i)
BY DEF SaysTake, IsTake, TakeOn, Odd, TokenOf

\* The token of a message is a token of an activity of the chain.
LEMMA TokenIsRead ==
  ASSUME TypeOK, Chronological, NEW i \in DOMAIN chain
  PROVE  /\ TokenOf(i) \in Tokens \cup {NoToken}
         /\ chain[i].read \in 0..i
         /\ TokenOf(i) # NoToken =>
              /\ chain[i].read \in DOMAIN chain /\ chain[i].read \in 1..i
              /\ chain[chain[i].read].token = TokenOf(i)
              /\ chain[chain[i].read].height = chain[i].height
              /\ chain[chain[i].read].read = chain[i].read
<1>1. DOMAIN chain = 1..Len(chain) /\ Len(chain) \in Nat
  BY DEF TypeOK
<1>2. ReadOn(chain, i)
  BY DEF Chronological
<1>3. CASE chain[i].read = 0
  BY <1>1, <1>3 DEF TokenOf, TokenRead
<1>4. CASE chain[i].read # 0
  <2>1. chain[i].read \in 1..i /\ chain[i].read \in DOMAIN chain
    BY <1>1, <1>2, <1>4 DEF ReadOn
  <2>2. chain[chain[i].read].token \in Tokens
    <3>1. chain[chain[i].read] \in Activity
      BY <2>1 DEF TypeOK
    <3>2. QED
      BY <3>1 DEF Activity
  <2>3. QED
    BY <1>2, <1>4, <2>1, <2>2 DEF TokenOf, TokenRead, ReadOn
<1>5. QED
  BY <1>3, <1>4

LEMMA NewerIsFinite ==
  ASSUME TypeOK, NEW p
  PROVE  IsFiniteSet(Newer(p)) /\ Cardinality(Newer(p)) \in Nat
<1>1. DOMAIN chain = 1..Len(chain) /\ Len(chain) \in Nat
  BY DEF TypeOK
<1>2. IsFiniteSet(1..Len(chain))
  BY <1>1, FS_Interval
<1>3. Newer(p) \subseteq 1..Len(chain)
  BY <1>1 DEF Newer
<1>4. QED
  BY <1>2, <1>3, FS_Subset, FS_CardinalityType

LEMMA PageOf ==
  ASSUME TypeOK, NEW p, NEW s \in Pages(p)
  PROVE  /\ s \in Seq(DOMAIN chain) /\ Len(s) \in Nat /\ DOMAIN s = 1..Len(s)
         /\ \A a \in DOMAIN s : s[a] \in Newer(p)
         /\ \A a, b \in DOMAIN s :
              /\ s[a] = s[b] => a = b
              /\ a < b => chain[s[a]].height <= chain[s[b]].height
<1> DEFINE n == IF Cardinality(Newer(p)) < PageLimit THEN Cardinality(Newer(p)) ELSE PageLimit
<1>1. n \in Nat
  BY NewerIsFinite, Limits
<1>2. /\ s \in [1..n -> Newer(p)]
      /\ \A a, b \in 1..n : s[a] = s[b] => a = b
      /\ \A a, b \in 1..n : a < b => chain[s[a]].height <= chain[s[b]].height
  BY DEF Pages, IsInjective
<1>3. Newer(p) \subseteq DOMAIN chain
  BY DEF Newer
<1> HIDE DEF n
<1>4. QED
  BY <1>1, <1>2, <1>3

LEMMA Element ==
  ASSUME NEW S, NEW s \in Seq(S), NEW i \in DOMAIN s
  PROVE  s[i] \in S
OBVIOUS

LEMMA Retyped ==
  ASSUME NEW S, NEW T, NEW s \in Seq(S), \A i \in DOMAIN s : s[i] \in T
  PROVE  s \in Seq(T)
<1>1. Len(s) \in Nat /\ s = [i \in 1..Len(s) |-> s[i]]
  OBVIOUS
<1>2. QED
  BY <1>1

\* What the types of the variables say of their elements.
LEMMA Elements ==
  ASSUME TypeOK, Chronological
  PROVE  /\ \A i \in DOMAIN chain :
              /\ chain[i] \in Activity
              /\ chain[i].token \in Tokens /\ chain[i].height \in 1..MaxActivity
         /\ \A a \in DOMAIN page : page[a] \in DOMAIN chain
         /\ \A k \in DOMAIN writes :
              /\ writes[k] \in [at : DOMAIN chain, row : Row]
              /\ writes[k].at \in DOMAIN chain /\ writes[k].row \in Row
              /\ TokenOf(writes[k].at) \in Tokens \cup {NoToken}
<1>1. ASSUME NEW i \in DOMAIN chain
      PROVE  /\ chain[i] \in Activity
             /\ chain[i].token \in Tokens /\ chain[i].height \in 1..MaxActivity
  <2>1. chain[i] \in Activity
    BY DEF TypeOK
  <2>2. QED
    BY <2>1 DEF Activity
<1>2. ASSUME NEW a \in DOMAIN page PROVE page[a] \in DOMAIN chain
  BY DEF TypeOK
<1>3. ASSUME NEW k \in DOMAIN writes
      PROVE  /\ writes[k] \in [at : DOMAIN chain, row : Row]
             /\ writes[k].at \in DOMAIN chain /\ writes[k].row \in Row
  <2>1. writes[k] \in [at : DOMAIN chain, row : Row]
    BY Element DEF TypeOK
  <2>2. QED
    BY <2>1
<1>4. QED
  BY <1>1, <1>2, <1>3, TokenIsRead

LEMMA Added ==
  ASSUME NEW S, NEW s \in Seq(S), NEW w \in S
  PROVE  /\ DOMAIN Append(s, w) = 1..(Len(s) + 1)
         /\ \A k \in DOMAIN Append(s, w) :
              Append(s, w)[k] = IF k \in DOMAIN s THEN s[k] ELSE w
<1>1. /\ Append(s, w) \in Seq(S) /\ Len(Append(s, w)) = Len(s) + 1
      /\ Append(s, w)[Len(s) + 1] = w
      /\ \A k \in 1..Len(s) : Append(s, w)[k] = s[k]
  BY AppendProperties
<1>2. Len(s) \in Nat /\ DOMAIN s = 1..Len(s) /\ DOMAIN Append(s, w) = 1..(Len(s) + 1)
  BY <1>1
<1>3. QED
  BY <1>1, <1>2

LEMMA Removal ==
  ASSUME NEW S, NEW s \in Seq(S), NEW k \in DOMAIN s
  PROVE  /\ RemoveAt(s, k) \in Seq(S) /\ Len(RemoveAt(s, k)) = Len(s) - 1
         /\ \A j \in DOMAIN RemoveAt(s, k) :
              RemoveAt(s, k)[j] = IF j < k THEN s[j] ELSE s[j + 1]
<1>1. Len(s) \in Nat /\ k \in 1..Len(s) /\ DOMAIN s = 1..Len(s)
  OBVIOUS
<1> DEFINE u == SubSeq(s, 1, k - 1)
           v == SubSeq(s, k + 1, Len(s))
<1>2. u \in Seq(S) /\ Len(u) = k - 1 /\ \A j \in 1..(k - 1) : u[j] = s[j]
  BY <1>1
<1>3. v \in Seq(S) /\ Len(v) = Len(s) - k /\ \A j \in 1..(Len(s) - k) : v[j] = s[j + k]
  BY <1>1
<1>4. RemoveAt(s, k) = u \o v
  BY DEF RemoveAt
<1> HIDE DEF u, v
<1>5. u \o v \in Seq(S) /\ Len(u \o v) = Len(u) + Len(v)
  BY <1>2, <1>3, ConcatProperties
<1>6. Len(u \o v) = Len(s) - 1
  BY <1>1, <1>2, <1>3, <1>5
<1>7. ASSUME NEW j \in 1..(Len(s) - 1)
      PROVE  (u \o v)[j] = IF j < k THEN s[j] ELSE s[j + 1]
  <2>1. CASE j < k
    BY <1>1, <1>2, <1>3, <2>1
  <2>2. CASE ~(j < k)
    <3>1. (u \o v)[j] = v[j - (k - 1)] /\ j - (k - 1) \in 1..(Len(s) - k)
      BY <1>1, <1>2, <1>3, <2>2, ConcatProperties
    <3>2. v[j - (k - 1)] = s[j - (k - 1) + k]
      BY <1>3, <3>1
    <3>3. j - (k - 1) + k = j + 1
      BY <1>1
    <3>4. QED
      BY <2>2, <3>1, <3>2, <3>3
  <2>3. QED
    BY <2>1, <2>2
<1>8. DOMAIN (u \o v) = 1..(Len(s) - 1)
  BY <1>5, <1>6
<1>9. QED
  BY <1>4, <1>5, <1>6, <1>7, <1>8

-----------------------------------------------------------------------------
(* Type correctness.                                                       *)

LEMMA Entering ==
  ASSUME NEW p, NEW k, Enter(p, k)
  PROVE  /\ at' = k /\ item' = NoRow
         /\ pc' \in {"insert", "find", "cursor"} /\ (pc' = "cursor" <=> k > Len(p))
         /\ pc' = "insert" => TakeOn(chain, p[k])
         /\ pc' = "find" => ~TakeOn(chain, p[k])
BY TakesOnChain DEF Enter

\* The activity at hand.
LEMMA AtHand ==
  ASSUME TypeOK, Chronological, pc \in {"insert", "find", "count"}
  PROVE  /\ page \in Seq(DOMAIN chain) /\ Len(page) \in Nat /\ DOMAIN page = 1..Len(page)
         /\ at \in 1..Len(page) /\ page[at] \in DOMAIN chain
         /\ chain[page[at]] \in Activity /\ current \in Tokens \cup {NoToken}
         /\ TokenOf(page[at]) = current
<1>1. page \in Seq(DOMAIN chain) /\ Len(page) \in Nat /\ at \in 1..Len(page)
  BY DEF TypeOK
<1>2. page[at] \in DOMAIN chain /\ chain[page[at]] \in Activity
  BY <1>1 DEF TypeOK
<1>3. QED
  BY <1>1, <1>2, TokenIsRead DEF current

\* The last element of a page that is handled.
LEMMA AtEnd ==
  ASSUME TypeOK, PageIsRead, pc \in OnPage
  PROVE  /\ Len(page) \in Nat \ {0} /\ DOMAIN page = 1..Len(page)
         /\ Last(page) = page[Len(page)] /\ Last(page) \in DOMAIN chain
         /\ chain[Last(page)].height \in 1..MaxActivity /\ NewPoint = chain[Last(page)].height
<1>1. page \in Seq(DOMAIN chain) /\ page # <<>>
  BY DEF TypeOK, PageIsRead
<1>2. Len(page) \in Nat \ {0} /\ DOMAIN page = 1..Len(page)
  BY <1>1
<1>3. Last(page) = page[Len(page)] /\ Last(page) \in DOMAIN chain
  BY <1>1, <1>2 DEF Last
<1>4. chain[Last(page)] \in Activity
  BY <1>3 DEF TypeOK
<1>5. QED
  BY <1>2, <1>3, <1>4 DEF Activity, NewPoint

LEMMA NewRows ==
  ASSUME NEW told \in BOOLEAN
  PROVE  NewRow(told) \in Row /\ NewRow(told) # NoRow
<1>1. NewRow(told) \in Row
  BY DEF NewRow, Row, Status
<1>2. QED
  BY <1>1, NoRowIsNoRow

LEMMA SyncedRows ==
  ASSUME NEW r \in Row, NEW i
  PROVE  /\ Synced(r, i) \in Row /\ Synced(r, i).status = Said(chain, i)
         /\ Synced(r, i).signer = r.signer /\ Synced(r, i).notify = r.notify
         /\ Synced(r, i).picked => TakeOn(chain, i)
<1>1. DOMAIN r = {"status", "picked", "notify", "signer"} /\ r.picked \in BOOLEAN
      /\ r.notify \in BOOLEAN /\ r.signer \in {"minter", "receiver"}
  BY DEF Row
<1> DEFINE b == r.picked \/ (Cardinality(Held) < MaxPicked /\ r.status = "Unclaimed")
<1>2. b \in BOOLEAN
  OBVIOUS
<1>3. CASE TakeOn(chain, i)
  <2>1. Synced(r, i) = [r EXCEPT !.status = "Equipped", !.picked = b]
    BY <1>3, TakesOnChain DEF Synced
  <2> HIDE DEF b
  <2>2. QED
    BY <1>1, <1>2, <1>3, <2>1 DEF Row, Status, Said
<1>4. CASE ~TakeOn(chain, i)
  <2>1. Synced(r, i) = [r EXCEPT !.status = "Unequipped", !.picked = FALSE]
    BY <1>4, TakesOnChain DEF Synced
  <2>2. QED
    BY <1>1, <1>4, <2>1 DEF Row, Status, Said
<1>5. QED
  BY <1>3, <1>4

LEMMA TypeStep ==
  ASSUME Basics, [Next]_vars
  PROVE  TypeOK'
<1> USE DEF Basics
<1>1. CASE Block
  <2>1. /\ chain' \in Seq(Activity) /\ Len(chain') <= MaxActivity
        /\ DOMAIN chain \subseteq DOMAIN chain'
    BY <1>1, ChainGrows
  <2>2. page \in Seq(DOMAIN chain') /\ writes \in Seq([at : DOMAIN chain', row : Row])
    <3>1. page \in Seq(DOMAIN chain) /\ writes \in Seq([at : DOMAIN chain, row : Row])
      BY DEF TypeOK
    <3>2. \A i \in DOMAIN writes : writes[i] \in [at : DOMAIN chain', row : Row]
      BY <2>1, Elements
    <3>3. \A i \in DOMAIN page : page[i] \in DOMAIN chain'
      BY <2>1, Elements
    <3>4. page \in Seq(DOMAIN chain')
      BY <3>1, <3>3, Retyped
    <3>5. writes \in Seq([at : DOMAIN chain', row : Row])
      BY <3>1, <3>2, Retyped
    <3>6. QED
      BY <3>4, <3>5
  <2>3. QED
    BY <1>1, <2>1, <2>2 DEF TypeOK, Block, jobVars
<1>2. CASE Begin
  BY <1>2 DEF TypeOK, Begin
<1>3. CASE CreateSyncPoint
  BY <1>3, Limits DEF TypeOK, CreateSyncPoint, Return
<1>4. CASE FetchPage
  <2>1. PICK response \in Pages(since) :
          IF response = <<>> THEN Return
          ELSE page' = response /\ Enter(response, 1) /\ UNCHANGED since
    BY <1>4 DEF FetchPage
  <2>2. CASE response = <<>>
    BY <1>4, <2>1, <2>2, Limits DEF TypeOK, FetchPage, Return
  <2>3. CASE response # <<>>
    <3>1. /\ page' = response /\ since' = since /\ at' = 1 /\ item' = NoRow
          /\ pc' \in {"insert", "find", "cursor"}
      BY <2>1, <2>3, Entering
    <3>2. response \in Seq(DOMAIN chain) /\ 1 \in DOMAIN response
      BY <2>3, PageOf
    <3>3. QED
      BY <1>4, <3>1, <3>2 DEF TypeOK, FetchPage
  <2>4. QED
    BY <2>2, <2>3
<1>5. CASE InsertTaken
  <2>1. row' \in [Tokens -> Row \cup {NoRow}]
    BY <1>5, NewRows DEF TypeOK, InsertTaken
  <2>2. QED
    BY <1>5, <2>1 DEF TypeOK, InsertTaken
<1>6. CASE FindRow
  <2>1. pc = "find"
    BY <1>6 DEF FindRow
  <2>2. current # NoToken => row[current] \in Row \cup {NoRow}
    BY <2>1, AtHand DEF TypeOK
  <2>3. CASE /\ pc' = "count" /\ item' = row[current] /\ row[current] # NoRow /\ at' = at
             /\ current # NoToken
    BY <1>6, <2>1, <2>2, <2>3 DEF TypeOK, FindRow
  <2>4. CASE Enter(page, at + 1)
    BY <1>6, <2>1, <2>4, Entering, AtHand, SMTT(30) DEF TypeOK, FindRow
  <2>5. QED
    BY <1>6, <2>3, <2>4 DEF FindRow
<1>7. CASE StartWrite
  <2>1. pc = "count" /\ item \in Row
    BY <1>7 DEF StartWrite, TypeOK
  <2>2. [at |-> page[at], row |-> Synced(item, page[at])] \in [at : DOMAIN chain, row : Row]
    BY <2>1, AtHand, SyncedRows
  <2>3. writes' \in Seq([at : DOMAIN chain, row : Row])
    BY <1>7, <2>2 DEF StartWrite, TypeOK
  <2>4. QED
    BY <1>7, <2>1, <2>3, Entering, AtHand, SMTT(30) DEF TypeOK, StartWrite
<1>8. CASE AdvanceCursor
  <2>1. pc = "cursor"
    BY <1>8 DEF AdvanceCursor
  <2>2. NewPoint \in 0..MaxActivity
    BY <2>1, AtEnd, Limits DEF OnPage
  <2>3. LeftOut \subseteq Tokens \cup {NoToken}
    <3>1. \A i \in DOMAIN chain : TokenOf(i) \in Tokens \cup {NoToken}
      BY TokenIsRead
    <3>2. QED
      BY <3>1 DEF LeftOut, Newer
  <2>4. Swapped \subseteq Tokens \cup {NoToken}
    <3>1. \A a \in DOMAIN page : TokenOf(page[a]) \in Tokens \cup {NoToken}
      BY Elements, TokenIsRead
    <3>2. QED
      BY <3>1 DEF Swapped
  <2>5. QED
    BY <1>8, <2>2, <2>3, <2>4, Limits DEF TypeOK, AdvanceCursor, Return
<1>9. ASSUME NEW k \in DOMAIN writes, Land(k) PROVE TypeOK'
  <2>1. writes \in Seq([at : DOMAIN chain, row : Row])
    BY DEF TypeOK
  <2>2. writes[k].row \in Row /\ chain[writes[k].at] \in Activity
    BY Elements
  <2>3. TokenOf(writes[k].at) \in Tokens
    BY Elements DEF RowsRemain, SavesHaveRows
  <2>4. RemoveAt(writes, k) \in Seq([at : DOMAIN chain, row : Row])
    BY <2>1, Removal
  <2>5. row' \in [Tokens -> Row \cup {NoRow}]
    BY <1>9, <2>2, <2>3 DEF TypeOK, Land
  <2>6. diverged' \subseteq Tokens \cup {NoToken}
    BY <1>9, <2>3 DEF TypeOK, Land
  <2>7. QED
    BY <1>9, <2>4, <2>5, <2>6 DEF TypeOK, Land, jobVars
<1>10. CASE Swallow
  BY <1>10, AtHand, Entering, Limits DEF TypeOK, Swallow
<1>11. CASE FailRun
  BY <1>11, Limits DEF TypeOK, FailRun, Return
<1>12. CASE Crash
  <2>1. \A w \in Range(writes) : TokenOf(w.at) \in Tokens \cup {NoToken}
    BY Elements DEF Range
  <2>2. diverged' \subseteq Tokens \cup {NoToken}
    BY <1>12, <2>1 DEF TypeOK, Crash
  <2>3. QED
    BY <1>12, <2>2, Limits DEF TypeOK, Crash, Return
<1>13. ASSUME NEW t \in Tokens, Create(t) PROVE TypeOK'
  <2>1. row' \in [Tokens -> Row \cup {NoRow}]
    BY <1>13, NewRows DEF TypeOK, Create
  <2>2. QED
    BY <1>13, <2>1 DEF TypeOK, Create, jobVars
<1>14. ASSUME NEW S, Reject(S) PROVE TypeOK'
  <2>1. row' \in [Tokens -> Row \cup {NoRow}]
    BY <1>14, ZenonT(60) DEF TypeOK, Reject, Row, Status
  <2>2. QED
    BY <1>14, <2>1 DEF TypeOK, Reject, jobVars
<1>15. ASSUME NEW t \in Tokens, UpdateNotify(t) PROVE TypeOK'
  <2>1. row' \in [Tokens -> Row \cup {NoRow}]
    BY <1>15 DEF TypeOK, UpdateNotify, Row
  <2>2. QED
    BY <1>15, <2>1 DEF TypeOK, UpdateNotify, jobVars
<1>16. ASSUME NEW r \in Requests, NEW t \in Tokens, PutRead(r, t) PROVE TypeOK'
  BY <1>16 DEF TypeOK, PutRead, jobVars, Put
<1>17. ASSUME NEW r \in Requests, NEW t \in Tokens, NEW b \in BOOLEAN, PickCount(r, t, b)
       PROVE  TypeOK'
  BY <1>17 DEF TypeOK, PickCount, jobVars, Pick
<1>18. ASSUME NEW r \in Requests, PutWrite(r) PROVE TypeOK'
  <2>1. request[r] \in Put
    BY <1>18 DEF TypeOK, PutWrite, Idle, Pick
  <2>2. request[r].token \in Tokens /\ request[r].row \in Row
    BY <2>1 DEF Put
  <2>3. row' \in [Tokens -> Row \cup {NoRow}]
    BY <1>18, <2>2 DEF TypeOK, PutWrite, Row, Status
  <2>4. QED
    BY <1>18, <2>2, <2>3 DEF TypeOK, PutWrite, Answer, jobVars
<1>19. ASSUME NEW r \in Requests, PickQuery(r) PROVE TypeOK'
  <2>1. request[r].op = "counted" /\ request[r] \in {Idle} \cup Pick \cup Put
    BY <1>19 DEF TypeOK, PickQuery
  <2>2. request[r] \in Pick
    BY <2>1 DEF Idle, Put
  <2>3. [request[r] EXCEPT !.op = "queried"] \in Pick
    BY <2>2 DEF Pick
  <2>4. request' \in [Requests -> {Idle} \cup Pick \cup Put]
    BY <1>19, <2>3 DEF TypeOK, PickQuery, Answer
  <2>5. QED
    BY <1>19, <2>4 DEF TypeOK, PickQuery, jobVars
<1>20. ASSUME NEW r \in Requests, PickWrite(r) PROVE TypeOK'
  <2>1. request[r] \in Pick /\ request[r] # Idle
    BY <1>20 DEF TypeOK, PickWrite, Idle, Put
  <2>2. request[r].token \in Tokens /\ request[r].picked \in BOOLEAN
    BY <2>1 DEF Pick
  <2>3. row[request[r].token] \in Row
    BY <2>1, <2>2 DEF TypeOK, RowsRemain
  <2>4. row' \in [Tokens -> Row \cup {NoRow}]
    BY <1>20, <2>2, <2>3 DEF TypeOK, PickWrite, Row
  <2>5. QED
    BY <1>20, <2>4 DEF TypeOK, PickWrite, Answer, jobVars
<1>21. CASE UNCHANGED vars
  BY <1>21 DEF TypeOK, vars, jobVars
<1>22. QED
  BY <1>1, <1>2, <1>3, <1>4, <1>5, <1>6, <1>7, <1>8, <1>9, <1>10, <1>11, <1>12, <1>13,
     <1>14, <1>15, <1>16, <1>17, <1>18, <1>19, <1>20, <1>21 DEF Next, Job

\* What a step leaves of the chain.
LEMMA ChainRemains ==
  ASSUME Basics, [Next]_vars
  PROVE  /\ chain \in Seq(Activity) /\ chain' \in Seq(Activity)
         /\ \A i \in DOMAIN chain :
              /\ i \in DOMAIN chain' /\ chain'[i] = chain[i]
              /\ TokenRead(chain', i) = TokenRead(chain, i)
              /\ TakeOn(chain', i) = TakeOn(chain, i) /\ Said(chain', i) = Said(chain, i)
              /\ Findable(chain', i) = Findable(chain, i)
         /\ Chronological'
<1> USE DEF Basics
<1>1. chain \in Seq(Activity) /\ chain' \in Seq(Activity)
  BY TypeStep DEF TypeOK
<1>2. Len(chain) \in Nat /\ DOMAIN chain = 1..Len(chain)
  BY <1>1
<1>3. \A i \in 1..Len(chain) : chain[i].read \in 0..i
  BY <1>2, TokenIsRead
<1>4. ASSUME \A i \in DOMAIN chain : i \in DOMAIN chain' /\ chain'[i] = chain[i],
             Chronological'
      PROVE  /\ \A i \in DOMAIN chain :
                  /\ i \in DOMAIN chain' /\ chain'[i] = chain[i]
                  /\ TokenRead(chain', i) = TokenRead(chain, i)
                  /\ TakeOn(chain', i) = TakeOn(chain, i) /\ Said(chain', i) = Said(chain, i)
                  /\ Findable(chain', i) = Findable(chain, i)
             /\ Chronological'
  <2>1. \A i \in 1..Len(chain) : chain'[i] = chain[i] /\ chain[i].read \in 0..i
    BY <1>2, <1>3, <1>4
  <2>2. \A i \in 1..Len(chain) :
          /\ TokenRead(chain', i) = TokenRead(chain, i)
          /\ TakeOn(chain', i) = TakeOn(chain, i) /\ Said(chain', i) = Said(chain, i)
          /\ Findable(chain', i) = Findable(chain, i)
    BY <1>2, <2>1, SaidRemains
  <2>3. QED
    BY <1>2, <1>4, <2>2
<1>5. CASE Block
  <2>1. Chronological'
    BY <1>5, GrownChronological
  <2>2. \A i \in DOMAIN chain : i \in DOMAIN chain' /\ chain'[i] = chain[i]
    BY <1>5, ChainGrows
  <2>3. QED
    BY <1>1, <1>4, <2>1, <2>2
<1>6. CASE chain' = chain
  <2>1. Chronological'
    BY <1>6 DEF Chronological
  <2>2. \A i \in DOMAIN chain : i \in DOMAIN chain' /\ chain'[i] = chain[i]
    BY <1>6
  <2>3. QED
    BY <1>1, <1>4, <2>1, <2>2
<1>7. Block \/ chain' = chain
  BY DEF Next, Job, Begin, CreateSyncPoint, FetchPage, InsertTaken, FindRow, StartWrite,
     AdvanceCursor, Land, Swallow, FailRun, Crash, Create, Reject, UpdateNotify, PutRead,
     PutWrite, PickCount, PickQuery, PickWrite, vars
<1>8. QED
  BY <1>5, <1>6, <1>7

\* The steps that write rows.
RowStep ==
  \/ InsertTaken
  \/ \E k \in DOMAIN writes : Land(k)
  \/ \E t \in Tokens : Create(t) \/ UpdateNotify(t)
  \/ \E S : Reject(S)
  \/ \E r \in Requests : PutWrite(r) \/ PickWrite(r)

LEMMA RowSteps ==
  ASSUME [Next]_vars
  PROVE  RowStep \/ row' = row
BY DEF RowStep, Next, Job, Block, Begin, CreateSyncPoint, FetchPage, FindRow, StartWrite,
   AdvanceCursor, Swallow, FailRun, Crash, PutRead, PickCount, PickQuery, vars

LEMMA Requested ==
  ASSUME TypeOK, NEW r \in Requests
  PROVE  /\ request[r].op = "put" =>
              /\ request[r] \in Put /\ request[r] # Idle
              /\ request[r].token \in Tokens /\ request[r].row \in Row
         /\ request[r].op \in {"counted", "queried"} =>
              /\ request[r] \in Pick /\ request[r] # Idle
              /\ request[r].token \in Tokens /\ request[r].picked \in BOOLEAN
<1>1. request[r] \in {Idle} \cup Pick \cup Put
  BY DEF TypeOK
<1>2. CASE request[r] = Idle
  BY <1>2 DEF Idle
<1>3. CASE request[r] \in Pick
  BY <1>3 DEF Pick, Idle
<1>4. CASE request[r] \in Put
  BY <1>4 DEF Put, Idle
<1>5. QED
  BY <1>1, <1>2, <1>3, <1>4

\* A row stays, it is not offered again and not announced again.
Closes(t) ==
  /\ row'[t] # NoRow
  /\ row[t].status # "Unclaimed" => row'[t].status # "Unclaimed"
  /\ ~Announced(t) => ~Announced(t)'

LEMMA RowsClose ==
  ASSUME Basics, [Next]_vars, NEW t \in Tokens, row[t] # NoRow
  PROVE  Closes(t)
<1> USE DEF Basics
<1>1. row \in [Tokens -> Row \cup {NoRow}] /\ row[t] \in Row
  BY DEF TypeOK
<1>2. DOMAIN row[t] = {"status", "picked", "notify", "signer"}
  BY <1>1 DEF Row
<1>3. ASSUME NEW u \in Row, row'[t] = u, u.status # "Unclaimed" PROVE Closes(t)
  BY <1>3, NoRowIsNoRow DEF Closes, Announced
<1>4. ASSUME NEW u \in Row, row'[t] = u, u.status = row[t].status, u.notify => row[t].notify
      PROVE  Closes(t)
  <2>1. row'[t] # NoRow
    BY <1>4, NoRowIsNoRow
  <2>2. ~Announced(t) => ~Announced(t)'
    BY <1>4, <2>1 DEF Announced
  <2>3. QED
    BY <1>4, <2>1, <2>2 DEF Closes
<1>5. ASSUME row'[t] = row[t] PROVE Closes(t)
  BY <1>5 DEF Closes, Announced
<1>6. CASE InsertTaken
  BY <1>1, <1>5, <1>6 DEF InsertTaken
<1>7. ASSUME NEW k \in DOMAIN writes, Land(k) PROVE Closes(t)
  <2>1. CASE t = TokenOf(writes[k].at)
    <3>1. row'[t] = writes[k].row
      BY <1>1, <1>7, <2>1 DEF Land, TokenOf
    <3>2. writes[k].row \in Row /\ writes[k].row.status # "Unclaimed"
      BY Elements DEF WritesTell, Said
    <3>3. QED
      BY <1>3, <3>1, <3>2
  <2>2. CASE t # TokenOf(writes[k].at)
    BY <1>1, <1>5, <1>7, <2>2 DEF Land, TokenOf
  <2>3. QED
    BY <2>1, <2>2
<1>8. ASSUME NEW s \in Tokens, Create(s) PROVE Closes(t)
  BY <1>1, <1>5, <1>8 DEF Create
<1>9. ASSUME NEW s \in Tokens, UpdateNotify(s) PROVE Closes(t)
  <2>1. CASE s = t
    <3>1. row'[t] = [row[t] EXCEPT !.notify = FALSE]
      BY <1>1, <1>9, <2>1 DEF UpdateNotify
    <3>2. [row[t] EXCEPT !.notify = FALSE] \in Row
      BY <1>1 DEF Row
    <3>3. QED
      BY <1>2, <1>4, <3>1, <3>2
  <2>2. CASE s # t
    BY <1>1, <1>5, <1>9, <2>2 DEF UpdateNotify
  <2>3. QED
    BY <2>1, <2>2
<1>10. ASSUME NEW S, Reject(S) PROVE Closes(t)
  <2>1. CASE t \in S /\ row[t].status = "Unclaimed"
    <3> DEFINE u == [row[t] EXCEPT !.status = "Rejected", !.notify = FALSE]
    <3>1. row'[t] = u
      BY <1>1, <1>10, <2>1 DEF Reject
    <3>2. u \in Row /\ u.status = "Rejected"
      BY <1>1, <1>2 DEF Row, Status
    <3> HIDE DEF u
    <3>3. QED
      BY <1>3, <3>1, <3>2
  <2>2. CASE ~(t \in S /\ row[t].status = "Unclaimed")
    BY <1>1, <1>5, <1>10, <2>2 DEF Reject
  <2>3. QED
    BY <2>1, <2>2
<1>11. ASSUME NEW r \in Requests, PutWrite(r) PROVE Closes(t)
  <2>1. request[r].op = "put" /\ request[r].row \in Row
    BY <1>11, Requested DEF PutWrite
  <2>2. CASE t = request[r].token
    <3> DEFINE u == [request[r].row EXCEPT !.status = "Pending", !.signer = "receiver"]
    <3>1. row'[t] = u
      BY <1>1, <1>11, <2>2 DEF PutWrite
    <3>2. u \in Row /\ u.status = "Pending"
      BY <2>1 DEF Row, Status
    <3> HIDE DEF u
    <3>3. QED
      BY <1>3, <3>1, <3>2
  <2>3. CASE t # request[r].token
    BY <1>1, <1>5, <1>11, <2>3 DEF PutWrite
  <2>4. QED
    BY <2>2, <2>3
<1>12. ASSUME NEW r \in Requests, PickWrite(r) PROVE Closes(t)
  <2>1. request[r].op = "queried" /\ request[r].picked \in BOOLEAN
    BY <1>12, Requested DEF PickWrite
  <2>2. CASE t = request[r].token
    <3> DEFINE u == [row[t] EXCEPT !.picked = request[r].picked]
    <3>1. row'[t] = u
      BY <1>1, <1>12, <2>2 DEF PickWrite
    <3>2. u \in Row /\ u.status = row[t].status /\ u.notify = row[t].notify
      BY <1>1, <1>2, <2>1 DEF Row
    <3> HIDE DEF u
    <3>3. QED
      BY <1>4, <3>1, <3>2
  <2>3. CASE t # request[r].token
    BY <1>1, <1>5, <1>12, <2>3 DEF PickWrite
  <2>4. QED
    BY <2>2, <2>3
<1>13. CASE row' = row
  BY <1>5, <1>13
<1>14. QED
  BY <1>6, <1>7, <1>8, <1>9, <1>10, <1>11, <1>12, <1>13, RowSteps DEF RowStep

\* The saves that are under way after a step were so before, but for one.
Carried ==
  \A k \in DOMAIN writes' : \E m \in DOMAIN writes : writes'[k] = writes[m]

LEMMA WritesCarried ==
  ASSUME TypeOK, [Next]_vars
  PROVE  StartWrite \/ Carried
<1>1. ASSUME NEW k \in DOMAIN writes, Land(k) PROVE Carried
  <2>1. writes \in Seq([at : DOMAIN chain, row : Row])
    BY DEF TypeOK
  <2>2. writes' = RemoveAt(writes, k)
    BY <1>1 DEF Land
  <2>3. Len(writes) \in Nat /\ DOMAIN writes = 1..Len(writes)
    BY <2>1
  <2>4. ASSUME NEW j \in DOMAIN writes'
        PROVE  \E m \in DOMAIN writes : writes'[j] = writes[m]
    <3>1. writes'[j] = IF j < k THEN writes[j] ELSE writes[j + 1]
      BY <2>1, <2>2, Removal
    <3>2. j \in 1..(Len(writes) - 1)
      BY <2>1, <2>2, Removal
    <3>3. j \in DOMAIN writes /\ j + 1 \in DOMAIN writes
      BY <2>3, <3>2
    <3>4. QED
      BY <3>1, <3>3
  <2>5. QED
    BY <2>4 DEF Carried
<1>2. CASE Crash
  BY <1>2 DEF Crash, Carried
<1>3. CASE writes' = writes
  BY <1>3 DEF Carried
<1>4. QED
  BY <1>1, <1>2, <1>3 DEF Next, Job, Block, Begin, CreateSyncPoint, FetchPage, InsertTaken, FindRow,
     AdvanceCursor, Swallow, FailRun, Create, Reject, UpdateNotify, PutRead,
     PutWrite, PickCount, PickQuery, PickWrite, vars

\* What is right of a save, and stays so.
Tells(c, rows, w) ==
  /\ w.row.status = Said(c, w.at)
  /\ TokenRead(c, w.at) # NoToken /\ rows[TokenRead(c, w.at)] # NoRow

LEMMA SavesTell ==
  (WritesTell /\ SavesHaveRows) <=> \A k \in DOMAIN writes : Tells(chain, row, writes[k])
<1>1. ASSUME NEW k \in DOMAIN writes
      PROVE  Tells(chain, row, writes[k]) <=>
               /\ writes[k].row.status = Said(chain, writes[k].at)
               /\ TokenOf(writes[k].at) # NoToken /\ row[TokenOf(writes[k].at)] # NoRow
  BY DEF Tells, TokenOf
<1>2. QED
  BY <1>1, Zenon DEF WritesTell, SavesHaveRows

LEMMA SavesTellStep ==
  ASSUME Basics, [Next]_vars
  PROVE  WritesTell' /\ SavesHaveRows'
<1> USE DEF Basics
<1>1. ASSUME NEW m \in DOMAIN writes PROVE Tells(chain', row', writes[m])
  <2>1. PICK i \in DOMAIN chain : i = writes[m].at
    BY Elements
  <2>2. Tells(chain, row, writes[m]) /\ TokenRead(chain, i) \in Tokens
    <3>1. Tells(chain, row, writes[m])
      BY SavesTell DEF RowsRemain
    <3>2. TokenRead(chain, i) # NoToken
      BY <2>1, <3>1 DEF Tells
    <3>3. QED
      BY <3>1, <3>2, TokenIsRead DEF TokenOf
  <2>3. Said(chain', i) = Said(chain, i) /\ TokenRead(chain', i) = TokenRead(chain, i)
    BY ChainRemains
  <2>4. row'[TokenRead(chain, i)] # NoRow
    BY <2>1, <2>2, RowsClose DEF Tells, Closes
  <2>5. QED
    BY <2>1, <2>2, <2>3, <2>4 DEF Tells
<1>2. ASSUME \A k \in DOMAIN writes' : Tells(chain', row', writes'[k])
      PROVE  WritesTell' /\ SavesHaveRows'
  <2>1. ASSUME NEW k \in DOMAIN writes'
        PROVE  /\ writes'[k].row.status = Said(chain', writes'[k].at)
               /\ TokenRead(chain', writes'[k].at) # NoToken
               /\ row'[TokenRead(chain', writes'[k].at)] # NoRow
    BY <1>2 DEF Tells
  <2>2. QED
    BY <2>1 DEF WritesTell, SavesHaveRows, TokenOf
<1>3. CASE Carried
  BY <1>1, <1>3, <1>2 DEF Carried
<1>4. CASE StartWrite
  <2>1. /\ pc = "count" /\ item \in Row /\ row[current] # NoRow /\ current # NoToken
        /\ row' = row /\ chain' = chain
    BY <1>4 DEF StartWrite, TypeOK, PageIsRead
  <2> DEFINE w == [at |-> page[at], row |-> Synced(item, page[at])]
  <2>2. writes' = Append(writes, w) /\ w.at = page[at] /\ w.row.status = Said(chain, page[at])
    BY <1>4, <2>1, SyncedRows DEF StartWrite
  <2>3. Tells(chain, row, w)
    BY <2>1, <2>2 DEF Tells, current, TokenOf
  <2>4. writes \in Seq([at : DOMAIN chain, row : Row]) /\ w \in [at : DOMAIN chain, row : Row]
    BY <2>1, AtHand, SyncedRows DEF TypeOK
  <2> HIDE DEF w
  <2> DEFINE Save == [at : DOMAIN chain, row : Row]
  <2>5. writes \in Seq(Save) /\ w \in Save
    BY <2>4
  <2> HIDE DEF Save
  <2>6. \A k \in DOMAIN Append(writes, w) :
          Append(writes, w)[k] = IF k \in DOMAIN writes THEN writes[k] ELSE w
    BY <2>5, Added
  <2>7. \A k \in DOMAIN writes' : writes'[k] = IF k \in DOMAIN writes THEN writes[k] ELSE w
    BY <2>2, <2>6
  <2>8. \A k \in DOMAIN writes' : Tells(chain', row', writes'[k])
    BY <1>1, <2>1, <2>3, <2>7
  <2>9. QED
    BY <1>2, <2>8
<1>5. QED
  BY <1>3, <1>4, WritesCarried

LEMMA RowsRemainStep ==
  ASSUME Basics, [Next]_vars
  PROVE  RowsRemain'
<1> USE DEF Basics
<1> DEFINE Has(r) == request'[r] # Idle => row'[request'[r].token] # NoRow
<1>1. SUFFICES ASSUME NEW r \in Requests PROVE Has(r)
  BY SavesTellStep DEF RowsRemain
<1>2. row \in [Tokens -> Row \cup {NoRow}] /\ request \in [Requests -> {Idle} \cup Pick \cup Put]
  BY DEF TypeOK
<1>3. CASE request'[r] = Idle
  BY <1>3
<1>4. CASE request'[r] = request[r] /\ request[r] # Idle
  <2>1. request[r].token \in Tokens /\ row[request[r].token] # NoRow
    BY <1>4 DEF TypeOK, RowsRemain, Pick, Put
  <2>2. QED
    BY <1>4, <2>1, RowsClose DEF Closes
<1>5. ASSUME NEW q \in Requests, NEW t \in Tokens, PutRead(q, t) PROVE Has(r)
  <2>1. CASE q = r
    BY <1>2, <1>5, <2>1 DEF PutRead
  <2>2. CASE q # r
    BY <1>2, <1>3, <1>4, <1>5, <2>2 DEF PutRead
  <2>3. QED
    BY <2>1, <2>2
<1>6. ASSUME NEW q \in Requests, NEW t \in Tokens, NEW b \in BOOLEAN, PickCount(q, t, b)
      PROVE  Has(r)
  <2>1. CASE q = r
    BY <1>2, <1>6, <2>1 DEF PickCount
  <2>2. CASE q # r
    BY <1>2, <1>3, <1>4, <1>6, <2>2 DEF PickCount
  <2>3. QED
    BY <2>1, <2>2
<1>7. ASSUME NEW q \in Requests, PickQuery(q) PROVE Has(r)
  <2>1. CASE q = r
    <3>1. request[r].op = "counted" /\ request[r] \in Pick /\ request[r] # Idle
      BY <1>7, <2>1, Requested DEF PickQuery
    <3>2. row[request[r].token] # NoRow /\ row' = row
      BY <1>7, <3>1 DEF RowsRemain, PickQuery
    <3>3. request'[r] = Idle \/ request'[r] = [request[r] EXCEPT !.op = "queried"]
      BY <1>2, <1>7, <2>1 DEF PickQuery, Answer
    <3>4. [request[r] EXCEPT !.op = "queried"].token = request[r].token
      BY <3>1 DEF Pick
    <3>5. QED
      BY <3>2, <3>3, <3>4
  <2>2. CASE q # r
    <3>1. request'[r] = request[r]
      BY <1>2, <1>7, <2>2 DEF PickQuery, Answer
    <3>2. QED
      BY <1>3, <1>4, <3>1
  <2>3. QED
    BY <2>1, <2>2
<1>8. ASSUME NEW q \in Requests, Answer(q) PROVE Has(r)
  BY <1>2, <1>3, <1>4, <1>8 DEF Answer
<1>9. CASE Crash
  BY <1>9 DEF Crash
<1>10. CASE request' = request
  BY <1>3, <1>4, <1>10
<1> HIDE DEF Has
<1>11. QED
  BY <1>5, <1>6, <1>7, <1>8, <1>9, <1>10 DEF Next, Job, Block, Begin, CreateSyncPoint, FetchPage,
     InsertTaken, FindRow, StartWrite, AdvanceCursor, Land, Swallow, FailRun, Create,
     Reject, UpdateNotify, PutWrite, PickWrite, vars

LEMMA PageIsReadStep ==
  ASSUME Basics, [Next]_vars
  PROVE  PageIsRead'
<1> USE DEF Basics
<1>1. CASE UNCHANGED <<chain, jobVars>>
  <2>1. pc \in {"find", "count"} => current \in Tokens \cup {NoToken}
    BY AtHand
  <2>2. current' = current
    BY <1>1 DEF current, TokenOf, jobVars
  <2>3. pc = "find" /\ TakeOn(chain, page[at]) => current # NoToken
    BY DEF TakeOn, current, TokenOf
  <2>4. /\ pc = "find" /\ TakeOn(chain, page[at]) => row'[current] # NoRow
        /\ pc = "count" => row'[current] # NoRow
    BY <2>1, <2>3, RowsClose DEF Closes, PageIsRead
  <2>5. QED
    BY <1>1, <2>2, <2>4 DEF PageIsRead, jobVars
<1>2. CASE Block
  <2>1. chain \in Seq(Activity) /\ Len(chain) \in Nat /\ DOMAIN chain = 1..Len(chain)
    BY DEF TypeOK
  <2>2. \A a \in DOMAIN page : page[a] \in DOMAIN chain /\ chain'[page[a]] = chain[page[a]]
    BY Elements, ChainRemains
  <2>3. \A a \in DOMAIN page : TakeOn(chain', page[a]) = TakeOn(chain, page[a])
    BY Elements, ChainRemains
  <2>4. pc \in {"insert", "find", "count"} => at \in DOMAIN page
    BY AtHand
  <2>5. UNCHANGED <<row, jobVars>>
    BY <1>2 DEF Block
  <2>6. pc \in {"find", "count"} => current' = current
    BY <2>4, <2>5, Elements, ChainRemains DEF current, TokenOf, jobVars
  <2>7. QED
    BY <2>2, <2>3, <2>4, <2>5, <2>6 DEF PageIsRead, jobVars
<1>3. ASSUME pc \in {"insert", "find", "count"}, Enter(page, at + 1),
             UNCHANGED <<chain, row, point, since, page>>
      PROVE  PageIsRead'
  <2>1. at' = at + 1 /\ at \in 1..Len(page) /\ Len(page) \in Nat
    BY <1>3, AtHand, Entering
  <2>2. /\ pc' = "cursor" => at' = Len(page') + 1
        /\ pc' # "count" /\ (pc' = "find" => ~TakeOn(chain, page[at']))
        /\ pc' = "insert" => TakeOn(chain, page[at'])
    BY <1>3, <2>1, Entering
  <2>3. pc \in OnPage
    BY <1>3 DEF OnPage
  <2>4. QED
    BY <1>3, <2>1, <2>2, <2>3 DEF PageIsRead
<1>4. CASE Return
  BY <1>4 DEF Return, PageIsRead, OnPage
<1>5. CASE Begin
  BY <1>5 DEF Begin, PageIsRead, OnPage
<1>6. CASE FetchPage
  <2>1. PICK response \in Pages(since) :
          IF response = <<>> THEN Return
          ELSE page' = response /\ Enter(response, 1) /\ UNCHANGED since
    BY <1>6 DEF FetchPage
  <2>2. CASE response = <<>>
    BY <1>4, <2>1, <2>2
  <2>3. CASE response # <<>>
    <3>1. /\ page' = response /\ since' = since /\ at' = 1
          /\ pc' \in {"insert", "find", "cursor"} /\ (pc' = "cursor" <=> 1 > Len(response))
          /\ (pc' = "find" => ~TakeOn(chain, response[1]))
          /\ (pc' = "insert" => TakeOn(chain, response[1]))
      BY <2>1, <2>3, Entering
    <3>2. /\ Len(response) \in Nat \ {0}
          /\ \A a \in DOMAIN response : chain[response[a]].height > since
          /\ \A a, b \in DOMAIN response :
               /\ response[a] = response[b] => a = b
               /\ a < b => chain[response[a]].height <= chain[response[b]].height
      BY <2>3, PageOf DEF Newer
    <3>3. since = point /\ chain' = chain /\ point' = point
      BY <1>6 DEF FetchPage, PageIsRead
    <3>4. QED
      BY <2>3, <3>1, <3>2, <3>3 DEF PageIsRead
  <2>4. QED
    BY <2>2, <2>3
<1>7. CASE InsertTaken
  <2>1. row'[current] # NoRow
    <3>1. row \in [Tokens -> Row \cup {NoRow}] /\ current \in Tokens
      <4>1. pc = "insert" /\ TakeOn(chain, page[at])
        BY <1>7 DEF InsertTaken, PageIsRead
      <4>2. current # NoToken
        BY <4>1 DEF TakeOn, current, TokenOf
      <4>3. QED
        BY <4>1, <4>2, AtHand DEF TypeOK
    <3>2. QED
      BY <1>7, <3>1, NewRows DEF InsertTaken
  <2>2. current' = current
    BY <1>7 DEF current, TokenOf, InsertTaken
  <2>3. QED
    BY <1>7, <2>1, <2>2, ZenonT(60) DEF PageIsRead, InsertTaken, OnPage
<1>8. CASE FindRow
  <2>1. CASE pc' = "count" /\ item' = row[current] /\ row[current] # NoRow /\ at' = at
    <3>1. current' = current
      BY <1>8, <2>1 DEF FindRow, current, TokenOf
    <3>2. current # NoToken
      BY <1>8, <2>1, Entering DEF FindRow
    <3>3. QED
      BY <1>8, <2>1, <3>1, <3>2 DEF FindRow, PageIsRead, OnPage
  <2>2. CASE Enter(page, at + 1)
    BY <1>3, <1>8, <2>2 DEF FindRow
  <2>3. QED
    BY <1>8, <2>1, <2>2 DEF FindRow
<1>9. CASE StartWrite
  BY <1>3, <1>9 DEF StartWrite
<1>10. CASE Swallow
  BY <1>3, <1>10 DEF Swallow
<1>11. QED
  BY <1>1, <1>2, <1>4, <1>5, <1>6, <1>7, <1>8, <1>9, <1>10 DEF Next, Job, CreateSyncPoint,
     AdvanceCursor, Land, FailRun, Crash, Create, Reject, UpdateNotify, PutRead, PutWrite,
     PickCount, PickQuery, PickWrite, vars

LEMMA BasicsStep ==
  ASSUME Basics, [Next]_vars
  PROVE  Basics'
BY TypeStep, ChainRemains, PageIsReadStep, RowsRemainStep, SavesTellStep DEF Basics

LEMMA BasicsAtStart ==
  ASSUME Init
  PROVE  Basics
<1>1. TypeOK
  BY Limits DEF Init, TypeOK
<1>2. Chronological /\ PageIsRead /\ RowsRemain /\ WritesTell
  BY DEF Init, Chronological, PageIsRead, OnPage, RowsRemain, SavesHaveRows, WritesTell
<1>3. QED
  BY <1>1, <1>2 DEF Basics

LEMMA BasicsHold == Spec => []Basics
<1>1. Basics /\ [Next]_vars => Basics'
  BY BasicsStep
<1>2. QED
  BY <1>1, BasicsAtStart, PTL DEF Spec

\* The variables have their types: the cursor stays within the heights of the
\* chain, the page names activities, and a save or a request under way holds
\* a whole row.
THEOREM TypesHold == Spec => []TypeOK
<1>1. Basics => TypeOK
  BY DEF Basics
<1>2. QED
  BY <1>1, BasicsHold, PTL

\* No save, PUT, pick or reject, in whatever order they land, makes a row
\* unclaimed again or announces an offer again that was read or rejected.
THEOREM OffersStayClosed == Spec => OfferNeverReopens
<1>1. Basics /\ [Next]_vars =>
        [\A t \in Tokens : row[t] # NoRow =>
           /\ row'[t] # NoRow
           /\ row[t].status # "Unclaimed" => row'[t].status # "Unclaimed"
           /\ ~Announced(t) => ~Announced(t)']_row
  BY RowsClose DEF Closes
<1>2. QED
  BY <1>1, BasicsHold, PTL DEF Spec, OfferNeverReopens

-----------------------------------------------------------------------------
(* Tokens on display.                                                      *)

LEMMA TakenIsActive ==
  ASSUME NEW t, Taken(t)
  PROVE  Active(t)
<1>1. ASSUME {i \in DOMAIN chain : chain[i].token = t} = {} PROVE FALSE
  <2>1. Cardinality({}) = 0
    BY FS_EmptySet
  <2>2. QED
    BY <1>1, <2>1 DEF Taken
<1>2. QED
  BY <1>1 DEF Active, TokenOf

LEMMA ActiveRemains ==
  ASSUME Basics, [Next]_vars, NEW t, Active(t)
  PROVE  Active(t)'
BY ChainRemains DEF Active, TokenOf

LEMMA PicksStep ==
  ASSUME Basics, PicksAreTaken, [Next]_vars
  PROVE  PicksAreTaken'
<1> USE DEF Basics
<1>1. row \in [Tokens -> Row \cup {NoRow}] /\ request \in [Requests -> {Idle} \cup Pick \cup Put]
  BY DEF TypeOK
<1>2. ASSUME NEW t \in Tokens PROVE row'[t] # NoRow /\ row'[t].picked => Active(t)'
  <2> DEFINE Good == row'[t] # NoRow /\ row'[t].picked => Active(t)
  <2>1. SUFFICES Good
    BY ActiveRemains
  <2>2. CASE row'[t] = row[t]
    BY <2>2 DEF PicksAreTaken
  <2>3. ASSUME NEW told \in BOOLEAN, row'[t] = NewRow(told) PROVE Good
    BY <2>3 DEF NewRow
  <2>4. CASE InsertTaken
    BY <1>1, <2>2, <2>3, <2>4 DEF InsertTaken
  <2>5. ASSUME NEW k \in DOMAIN writes, Land(k) PROVE Good
    <3>1. CASE t = TokenOf(writes[k].at)
      BY <3>1, Elements, TokenIsRead DEF Active, RowsRemain, SavesHaveRows
    <3>2. CASE t # TokenOf(writes[k].at)
      BY <1>1, <2>2, <2>5, <3>2 DEF Land, TokenOf
    <3>3. QED
      BY <3>1, <3>2
  <2>6. ASSUME NEW s \in Tokens, Create(s) PROVE Good
    BY <1>1, <2>2, <2>3, <2>6 DEF Create
  <2>7. ASSUME NEW u, row[t] \in Row, row'[t] = u, u.picked = row[t].picked PROVE Good
    BY <2>7, NoRowIsNoRow DEF PicksAreTaken
  <2>8. ASSUME NEW s \in Tokens, UpdateNotify(s) PROVE Good
    <3>1. CASE s = t
      <4> DEFINE u == [row[t] EXCEPT !.notify = FALSE]
      <4>1. row'[t] = u /\ row[t] \in Row
        BY <1>1, <2>8, <3>1 DEF UpdateNotify
      <4>2. u.picked = row[t].picked
        BY <4>1 DEF Row
      <4> HIDE DEF u
      <4>3. QED
        BY <2>7, <4>1, <4>2
    <3>2. CASE s # t
      BY <1>1, <2>2, <2>8, <3>2 DEF UpdateNotify
    <3>3. QED
      BY <3>1, <3>2
  <2>9. ASSUME NEW S, Reject(S) PROVE Good
    <3>1. CASE t \in S /\ row[t] # NoRow /\ row[t].status = "Unclaimed"
      <4> DEFINE u == [row[t] EXCEPT !.status = "Rejected", !.notify = FALSE]
      <4>1. row'[t] = u /\ row[t] \in Row
        BY <1>1, <2>9, <3>1 DEF Reject
      <4>2. u.picked = row[t].picked
        BY <4>1 DEF Row
      <4> HIDE DEF u
      <4>3. QED
        BY <2>7, <4>1, <4>2
    <3>2. CASE ~(t \in S /\ row[t] # NoRow /\ row[t].status = "Unclaimed")
      BY <2>2, <2>9, <3>2 DEF Reject
    <3>3. QED
      BY <3>1, <3>2
  <2>10. ASSUME NEW r \in Requests, PutWrite(r) PROVE Good
    <3>1. request[r] \in Put /\ request[r].row \in Row
      BY <2>10, Requested DEF PutWrite
    <3>2. CASE t = request[r].token
      <4> DEFINE u == [request[r].row EXCEPT !.status = "Pending", !.signer = "receiver"]
      <4>1. row'[t] = u
        BY <1>1, <2>10, <3>2 DEF PutWrite
      <4>2. u.picked = request[r].row.picked
        BY <3>1 DEF Row
      <4> HIDE DEF u
      <4>3. QED
        BY <3>1, <3>2, <4>1, <4>2 DEF PicksAreTaken, PickIsTaken
    <3>3. CASE t # request[r].token
      BY <1>1, <2>2, <2>10, <3>3 DEF PutWrite
    <3>4. QED
      BY <3>2, <3>3
  <2>11. ASSUME NEW r \in Requests, PickWrite(r) PROVE Good
    <3>1. request[r] \in Pick /\ request[r].op = "queried"
      BY <2>11, Requested DEF PickWrite
    <3>2. CASE t = request[r].token
      BY <3>1, <3>2 DEF PicksAreTaken, PickIsTaken
    <3>3. CASE t # request[r].token
      BY <1>1, <2>2, <2>11, <3>3 DEF PickWrite
    <3>4. QED
      BY <3>2, <3>3
  <2> HIDE DEF Good
  <2>12. QED
    BY <2>2, <2>4, <2>5, <2>6, <2>8, <2>9, <2>10, <2>11, RowSteps DEF RowStep
<1>3. ASSUME NEW r \in Requests PROVE PickIsTaken(request[r])'
  <2> DEFINE Good == PickIsTaken(request'[r])
  <2>1. SUFFICES Good
    BY ActiveRemains DEF PickIsTaken
  <2>2. CASE request'[r] = request[r]
    BY <2>2 DEF PicksAreTaken
  <2>3. CASE request'[r] = Idle
    BY <2>3 DEF PickIsTaken, Idle, Pick, Put
  <2>4. ASSUME NEW q \in Requests, NEW t \in Tokens, PutRead(q, t) PROVE Good
    <3>1. CASE q = r
      <4>1. request'[r] = [op |-> "put", token |-> t, row |-> row[t]] /\ row[t] # NoRow
        BY <1>1, <2>4, <3>1 DEF PutRead
      <4>2. row[t].picked => Active(t)
        BY <4>1 DEF PicksAreTaken
      <4>3. QED
        BY <4>1, <4>2 DEF PickIsTaken, Pick
    <3>2. CASE q # r
      BY <1>1, <2>2, <2>4, <3>2 DEF PutRead
    <3>3. QED
      BY <3>1, <3>2
  <2>5. ASSUME NEW q \in Requests, NEW t \in Tokens, NEW b \in BOOLEAN, PickCount(q, t, b)
        PROVE  Good
    <3>1. CASE q = r
      <4>1. request'[r] = [op |-> "counted", token |-> t, picked |-> b]
        BY <1>1, <2>5, <3>1 DEF PickCount
      <4>2. QED
        BY <4>1 DEF PickIsTaken, Put
    <3>2. CASE q # r
      BY <1>1, <2>2, <2>5, <3>2 DEF PickCount
    <3>3. QED
      BY <3>1, <3>2
  <2>6. ASSUME NEW q \in Requests, PickQuery(q) PROVE Good
    <3>1. CASE q = r /\ Taken(request[r].token)
      <4>1. request[r].op = "counted" /\ request[r] \in Pick
        BY <2>6, <3>1, Requested DEF PickQuery
      <4>2. request'[r] = [request[r] EXCEPT !.op = "queried"]
        BY <1>1, <2>6, <3>1 DEF PickQuery
      <4>3. request'[r].token = request[r].token /\ request'[r].op = "queried"
        BY <4>1, <4>2 DEF Pick
      <4>4. QED
        BY <3>1, <4>3, TakenIsActive DEF PickIsTaken, Put
    <3>2. CASE q = r /\ ~Taken(request[r].token)
      BY <1>1, <2>3, <2>6, <3>2 DEF PickQuery, Answer
    <3>3. CASE q # r
      BY <1>1, <2>2, <2>6, <3>3 DEF PickQuery, Answer
    <3>4. QED
      BY <3>1, <3>2, <3>3
  <2>7. ASSUME NEW q \in Requests, Answer(q) PROVE Good
    BY <1>1, <2>2, <2>3, <2>7 DEF Answer
  <2>8. CASE Crash
    BY <2>3, <2>8 DEF Crash
  <2>9. CASE request' = request
    BY <2>2, <2>9
  <2> HIDE DEF Good
  <2>10. QED
    BY <2>4, <2>5, <2>6, <2>7, <2>8, <2>9 DEF Next, Job, Block, Begin, CreateSyncPoint,
       FetchPage, InsertTaken, FindRow, StartWrite, AdvanceCursor, Land, Swallow, FailRun,
       Create, Reject, UpdateNotify, PutWrite, PickWrite, vars
<1>4. QED
  BY <1>2, <1>3 DEF PicksAreTaken

\* Whatever is on display was taken on the chain, although a first take, a
\* pick and a PUT all write what they read before.
THEOREM DisplayedWereTaken == Spec => []PickedWasTaken
<1>1. Init => PicksAreTaken
  BY DEF Init, PicksAreTaken, PickIsTaken, Idle, Pick, Put
<1>2. Basics /\ PicksAreTaken /\ [Next]_vars => PicksAreTaken'
  BY PicksStep
<1>3. PicksAreTaken => PickedWasTaken
  BY DEF PicksAreTaken, PickedWasTaken, Picked, Active, TokenOf
<1>4. QED
  BY <1>1, <1>2, <1>3, BasicsHold, PTL DEF Spec

-----------------------------------------------------------------------------
(* The rows mirror the chain.                                              *)

LEMMA DivergedGrows ==
  ASSUME [Next]_vars
  PROVE  diverged \subseteq diverged'
BY DEF Next, Job, Block, Begin, CreateSyncPoint, FetchPage, InsertTaken, FindRow, StartWrite,
   AdvanceCursor, Land, Swallow, FailRun, Crash, Create, Reject, UpdateNotify, PutRead,
   PutWrite, PickCount, PickQuery, PickWrite, vars

\* Only a save that lands changes the status of a row that was taken, and
\* nothing the signature, as long as the token does not diverge.
LEMMA RowsKeep ==
  ASSUME Basics, [Next]_vars, NEW t \in Tokens, t \notin diverged', row[t] # NoRow,
         \A k \in Pending(t) : ~Land(k)
  PROVE  /\ row'[t] # NoRow /\ row'[t].signer = row[t].signer
         /\ row[t].status # "Unclaimed" => row'[t].status = row[t].status
<1> USE DEF Basics
<1>1. row \in [Tokens -> Row \cup {NoRow}] /\ row[t] \in Row
  BY DEF TypeOK
<1>2. DOMAIN row[t] = {"status", "picked", "notify", "signer"}
  BY <1>1 DEF Row
<1> DEFINE Keeps(u) ==
      /\ u.signer = row[t].signer
      /\ row[t].status # "Unclaimed" => u.status = row[t].status
<1>3. row'[t] # NoRow
  BY RowsClose DEF Closes
<1>4. SUFFICES Keeps(row'[t])
  BY <1>3
<1>5. CASE row'[t] = row[t]
  BY <1>5
<1>6. CASE InsertTaken
  BY <1>1, <1>6 DEF InsertTaken
<1>7. ASSUME NEW k \in DOMAIN writes, Land(k) PROVE Keeps(row'[t])
  <2>1. t # TokenOf(writes[k].at)
    BY <1>7 DEF Pending
  <2>2. QED
    BY <1>1, <1>5, <1>7, <2>1 DEF Land, TokenOf
<1>8. ASSUME NEW s \in Tokens, Create(s) PROVE Keeps(row'[t])
  BY <1>1, <1>5, <1>8 DEF Create
<1>9. ASSUME NEW s \in Tokens, UpdateNotify(s) PROVE Keeps(row'[t])
  <2>1. CASE s = t
    <3>1. row'[t] = [row[t] EXCEPT !.notify = FALSE]
      BY <1>1, <1>9, <2>1 DEF UpdateNotify
    <3>2. QED
      BY <1>2, <3>1
  <2>2. CASE s # t
    BY <1>1, <1>5, <1>9, <2>2 DEF UpdateNotify
  <2>3. QED
    BY <2>1, <2>2
<1>10. ASSUME NEW S, Reject(S) PROVE Keeps(row'[t])
  <2>1. CASE t \in S /\ row[t].status = "Unclaimed"
    <3>1. row'[t] = [row[t] EXCEPT !.status = "Rejected", !.notify = FALSE]
      BY <1>1, <1>10, <2>1 DEF Reject
    <3>2. QED
      BY <1>2, <2>1, <3>1
  <2>2. CASE ~(t \in S /\ row[t].status = "Unclaimed")
    BY <1>1, <1>5, <1>10, <2>2 DEF Reject
  <2>3. QED
    BY <2>1, <2>2
<1>11. ASSUME NEW r \in Requests, PutWrite(r) PROVE Keeps(row'[t])
  BY <1>1, <1>5, <1>11 DEF PutWrite
<1>12. ASSUME NEW r \in Requests, PickWrite(r) PROVE Keeps(row'[t])
  <2>1. CASE t = request[r].token
    <3>1. row'[t] = [row[t] EXCEPT !.picked = request[r].picked]
      BY <1>1, <1>12, <2>1 DEF PickWrite
    <3>2. QED
      BY <1>2, <3>1
  <2>2. CASE t # request[r].token
    BY <1>1, <1>5, <1>12, <2>2 DEF PickWrite
  <2>3. QED
    BY <2>1, <2>2
<1> HIDE DEF Keeps
<1>13. QED
  BY <1>5, <1>6, <1>7, <1>8, <1>9, <1>10, <1>11, <1>12, RowSteps DEF RowStep

\* The saves of one token, after a save landed.
LEMMA LandPending ==
  ASSUME TypeOK, NEW k \in DOMAIN writes, Land(k), NEW t
  PROVE  /\ \A j \in DOMAIN writes' : writes'[j] = IF j < k THEN writes[j] ELSE writes[j + 1]
         /\ DOMAIN writes' = 1..(Len(writes) - 1) /\ Len(writes) \in Nat
         /\ Pending(t)' = {j \in 1..(Len(writes) - 1) :
                            (IF j < k THEN j ELSE j + 1) \in Pending(t)}
<1> DEFINE Save == [at : DOMAIN chain, row : Row]
<1>1. writes \in Seq(Save) /\ writes' = RemoveAt(writes, k) /\ chain' = chain
  BY DEF TypeOK, Land
<1> HIDE DEF Save
<1>2. Len(writes) \in Nat /\ DOMAIN writes = 1..Len(writes)
  BY <1>1
<1>3. /\ writes' \in Seq(Save) /\ Len(writes') = Len(writes) - 1
      /\ \A j \in DOMAIN writes' : writes'[j] = IF j < k THEN writes[j] ELSE writes[j + 1]
  BY <1>1, Removal
<1>4. DOMAIN writes' = 1..(Len(writes) - 1)
  BY <1>2, <1>3
<1>5. \A j \in 1..(Len(writes) - 1) : j \in DOMAIN writes /\ j + 1 \in DOMAIN writes
  BY <1>2
<1>6. QED
  BY <1>1, <1>2, <1>3, <1>4, <1>5 DEF Pending, TokenOf

\* What a step does that neither lands a save, nor starts one, nor crashes.
LEMMA SavesStay ==
  ASSUME [Next]_vars, ~StartWrite, ~Crash, \A k \in DOMAIN writes : ~Land(k)
  PROVE  writes' = writes
BY DEF Next, Job, Block, Begin, CreateSyncPoint, FetchPage, InsertTaken, FindRow,
   AdvanceCursor, Swallow, FailRun, Create, Reject, UpdateNotify, PutRead,
   PutWrite, PickCount, PickQuery, PickWrite, vars

\* A save that starts is the last one.
LEMMA StartPending ==
  ASSUME Basics, StartWrite, NEW t
  PROVE  /\ at \in DOMAIN page /\ page[at] \in DOMAIN chain /\ TokenOf(page[at]) = current
         /\ DOMAIN writes' = 1..(Len(writes) + 1) /\ DOMAIN writes = 1..Len(writes)
         /\ Len(writes) \in Nat
         /\ \A k \in DOMAIN writes : writes'[k] = writes[k]
         /\ writes'[Len(writes) + 1].at = page[at]
         /\ writes'[Len(writes) + 1].row = Synced(item, page[at])
         /\ Pending(t)' = IF t = current THEN Pending(t) \cup {Len(writes) + 1} ELSE Pending(t)
<1> DEFINE Save == [at : DOMAIN chain, row : Row]
           w == [at |-> page[at], row |-> Synced(item, page[at])]
<1>1. pc = "count" /\ item \in Row /\ writes' = Append(writes, w) /\ chain' = chain
  BY DEF StartWrite, Basics, TypeOK
<1>2. at \in DOMAIN page /\ page[at] \in DOMAIN chain /\ TokenOf(page[at]) = current
  BY <1>1, AtHand DEF Basics
<1>3. writes \in Seq(Save) /\ w \in Save
  BY <1>1, <1>2, SyncedRows DEF Basics, TypeOK
<1>4. w.at = page[at] /\ w.row = Synced(item, page[at])
  OBVIOUS
<1> HIDE DEF Save, w
<1>5. Len(writes) \in Nat /\ DOMAIN writes = 1..Len(writes)
  BY <1>3
<1>6. /\ DOMAIN writes' = 1..(Len(writes) + 1)
      /\ \A k \in DOMAIN writes' : writes'[k] = IF k \in DOMAIN writes THEN writes[k] ELSE w
  BY <1>1, <1>3, Added
<1>7. /\ \A k \in DOMAIN writes : k \in DOMAIN writes' /\ writes'[k] = writes[k]
      /\ Len(writes) + 1 \in DOMAIN writes' /\ writes'[Len(writes) + 1] = w
  BY <1>5, <1>6
<1>8. Pending(t)' = {k \in 1..(Len(writes) + 1) : TokenRead(chain, writes'[k].at) = t}
  BY <1>1, <1>6 DEF Pending, TokenOf
<1>9. Pending(t)' = IF t = current THEN Pending(t) \cup {Len(writes) + 1} ELSE Pending(t)
  BY <1>2, <1>4, <1>5, <1>7, <1>8 DEF Pending, TokenOf
<1>10. QED
  BY <1>2, <1>4, <1>5, <1>6, <1>7, <1>9

\* What is read for two activities is the same when their message is.
LEMMA SaidByMessage ==
  ASSUME NEW i, NEW j, Message(i) = Message(j)
  PROVE  /\ TokenOf(i) = TokenOf(j) /\ TakeOn(chain, i) = TakeOn(chain, j)
         /\ Said(chain, i) = Said(chain, j) /\ Findable(chain, i) = Findable(chain, j)
<1>1. chain[i].read = chain[j].read
  BY DEF Message
<1>2. TokenRead(chain, i) = TokenRead(chain, j)
  BY <1>1 DEF TokenRead
<1>3. TakeOn(chain, i) = TakeOn(chain, j)
  BY <1>1, <1>2 DEF TakeOn
<1>4. Findable(chain, i) = Findable(chain, j)
  BY <1>1, <1>2, <1>3 DEF Findable
<1>5. QED
  BY <1>2, <1>3, <1>4 DEF TokenOf, Said

\* The last save of a token that does not diverge stays what it is, unless
\* another one starts or the process dies with it.
LEMMA LatestKept ==
  ASSUME Basics, [Next]_vars, NEW t \in Tokens, t \notin diverged',
         NEW i \in DOMAIN chain, TokenOf(i) = t, Latest(t, i),
         StartWrite => current # t,
         Crash => chain[i].height <= point
  PROVE  Latest(t, i)'
<1> USE DEF Basics
<1>1. /\ Said(chain', i) = Said(chain, i) /\ Said(chain, i) # "Unclaimed"
      /\ chain'[i].read = chain[i].read
  BY ChainRemains DEF Said
<1>2. \A k \in DOMAIN writes :
        /\ chain'[writes[k].at].read = chain[writes[k].at].read
        /\ TokenRead(chain', writes[k].at) = TokenRead(chain, writes[k].at)
  BY Elements, ChainRemains
<1>3. t \notin diverged
  BY DivergedGrows
<1>4. CASE writes' = writes
  <2>1. Pending(t)' = Pending(t)
    BY <1>2, <1>4 DEF Pending, TokenOf
  <2>2. CASE \E k \in Pending(t) : /\ Message(writes[k].at) = Message(i)
                                  /\ \A m \in Pending(t) : m <= k
    <3>1. Pending(t) \subseteq DOMAIN writes
      BY DEF Pending
    <3>2. QED
      BY <1>1, <1>2, <1>4, <2>1, <2>2, <3>1 DEF Latest, Message
  <2>3. CASE Pending(t) = {} /\ row[t] # NoRow /\ row[t].status = Said(chain, i)
    <3>1. row'[t] # NoRow /\ row'[t].status = row[t].status
      BY <1>1, <2>3, RowsKeep
    <3>2. QED
      BY <1>1, <2>1, <2>3, <3>1 DEF Latest
  <2>4. QED
    BY <2>2, <2>3 DEF Latest
<1>5. CASE StartWrite
  <2>1. /\ Pending(t)' = Pending(t) /\ row' = row
        /\ \A k \in DOMAIN writes : writes'[k] = writes[k]
    BY <1>5, StartPending DEF StartWrite
  <2>2. Pending(t) \subseteq DOMAIN writes
    BY DEF Pending
  <2>3. QED
    BY <1>1, <1>2, <2>1, <2>2 DEF Latest, Message
<1>6. CASE Crash
  <2>1. /\ writes' = <<>> /\ row' = row
        /\ diverged' = diverged \cup
             {TokenOf(w.at) : w \in {v \in Range(writes) : chain[v.at].height <= point}}
    BY <1>6 DEF Crash
  <2>2. ASSUME NEW k \in Pending(t), Message(writes[k].at) = Message(i) PROVE FALSE
    <3>1. writes[k] \in Range(writes) /\ writes[k].at \in DOMAIN chain /\ TokenOf(writes[k].at) = t
      BY Elements DEF Pending, Range
    <3>2. chain[writes[k].at].height = chain[i].height
      <4>1. t # NoToken
        BY ConstantsOK
      <4>2. chain[chain[writes[k].at].read].height = chain[writes[k].at].height
        BY <3>1, <4>1, TokenIsRead
      <4>3. chain[chain[i].read].height = chain[i].height
        BY <4>1, TokenIsRead
      <4>4. QED
        BY <2>2, <4>2, <4>3 DEF Message
    <3>3. TokenOf(writes[k].at) \in diverged'
      BY <1>6, <2>1, <3>1, <3>2
    <3>4. QED
      BY <3>1, <3>3
  <2>3. row[t] # NoRow /\ row[t].status = Said(chain, i)
    BY <2>2 DEF Latest
  <2>4. Pending(t)' = {}
    BY <2>1 DEF Pending
  <2>5. QED
    BY <1>1, <2>1, <2>3, <2>4 DEF Latest
<1>7. ASSUME NEW k \in DOMAIN writes, Land(k) PROVE Latest(t, i)'
  <2>1. /\ \A j \in DOMAIN writes' : writes'[j] = IF j < k THEN writes[j] ELSE writes[j + 1]
        /\ DOMAIN writes' = 1..(Len(writes) - 1) /\ Len(writes) \in Nat
        /\ Pending(t)' = {j \in 1..(Len(writes) - 1) :
                           (IF j < k THEN j ELSE j + 1) \in Pending(t)}
    BY <1>7, LandPending
  <2>2. k \in 1..Len(writes) /\ DOMAIN writes = 1..Len(writes)
    BY DEF TypeOK
  <2>3. Pending(t) \subseteq 1..Len(writes)
    BY <2>2 DEF Pending
  <2>4. ASSUME NEW n \in Pending(t), Message(writes[n].at) = Message(i),
               \A m \in Pending(t) : m <= n, n # k
        PROVE  Latest(t, i)'
    <3> DEFINE j == IF n < k THEN n ELSE n - 1
    <3>1. /\ j \in 1..(Len(writes) - 1) /\ (IF j < k THEN j ELSE j + 1) = n
      BY <2>2, <2>3, <2>4
    <3>2. j \in Pending(t)' /\ writes'[j] = writes[n]
      BY <2>1, <2>4, <3>1
    <3>3. chain' = chain
      BY <1>7 DEF Land
    <3>4. ASSUME NEW m \in Pending(t)' PROVE m <= j
      <4>1. m \in 1..(Len(writes) - 1) /\ (IF m < k THEN m ELSE m + 1) <= n
        BY <2>1, <2>4
      <4>2. QED
        BY <2>2, <2>3, <2>4, <4>1
    <3> HIDE DEF j
    <3>5. QED
      BY <2>4, <3>2, <3>4, <3>3 DEF Latest, Message
  <2>5. CASE TokenOf(writes[k].at) # t
    <3>1. CASE Pending(t) = {} /\ row[t] # NoRow /\ row[t].status = Said(chain, i)
      <4>1. Pending(t)' = {}
        BY <2>1, <3>1
      <4>2. row'[t] = row[t]
        BY <1>7, <2>5 DEF Land, TypeOK
      <4>3. QED
        BY <1>1, <3>1, <4>1, <4>2 DEF Latest
    <3>2. CASE \E n \in Pending(t) : /\ Message(writes[n].at) = Message(i)
                                    /\ \A m \in Pending(t) : m <= n
      BY <2>4, <2>5, <3>2 DEF Pending
    <3>3. QED
      BY <3>1, <3>2 DEF Latest
  <2>6. CASE TokenOf(writes[k].at) = t
    <3>1. k \in Pending(t) /\ row'[t] = writes[k].row
      BY <1>7, <2>6 DEF Pending, Land, TypeOK
    <3>2. \A m \in 1..(k - 1) : m \notin Pending(t)
      BY <1>7, <2>6 DEF Land, Pending
    <3>3. PICK n \in Pending(t) : /\ Message(writes[n].at) = Message(i)
                                 /\ \A m \in Pending(t) : m <= n
      BY <3>1 DEF Latest
    <3>4. CASE n = k
      <4>1. Pending(t) = {k}
        BY <2>2, <2>3, <3>1, <3>2, <3>3, <3>4
      <4>2. Pending(t)' = {}
        BY <2>1, <2>2, <4>1
      <4>3. row'[t] # NoRow
        BY <3>1, Elements, NoRowIsNoRow
      <4>4. row'[t].status = Said(chain, i)
        <5>1. writes[k].at \in DOMAIN chain /\ TokenOf(writes[k].at) = t
          BY <3>1, Elements DEF Pending
        <5>2. Said(chain, writes[k].at) = Said(chain, i)
          BY <3>3, <3>4, <5>1, SaidByMessage
        <5>3. QED
          BY <3>1, <5>2 DEF WritesTell, Pending
      <4>5. QED
        BY <1>1, <4>2, <4>3, <4>4 DEF Latest
    <3>5. CASE n # k
      BY <2>4, <3>3, <3>5
    <3>6. QED
      BY <3>4, <3>5
  <2>7. QED
    BY <2>5, <2>6
<1>8. QED
  BY <1>4, <1>5, <1>6, <1>7, SavesStay

LEMMA SignedStep ==
  ASSUME Basics, SignedByMinter, [Next]_vars
  PROVE  SignedByMinter'
<1> USE DEF Basics
<1> SUFFICES ASSUME NEW t \in Tokens, t \notin diverged'
             PROVE  /\ row'[t] # NoRow => row'[t].signer = "minter"
                    /\ \A k \in Pending(t)' : writes'[k].row.signer = "minter"
                    /\ pc' = "count" /\ current' = t => item'.signer = "minter"
  BY DEF SignedByMinter
<1>2. t \notin diverged
  BY DivergedGrows
<1>3. /\ row[t] # NoRow => row[t].signer = "minter"
      /\ \A k \in Pending(t) : writes[k].row.signer = "minter"
      /\ pc = "count" /\ current = t => item.signer = "minter"
  BY <1>2 DEF SignedByMinter
<1>4. \A k \in DOMAIN writes :
        TokenRead(chain', writes[k].at) = TokenRead(chain, writes[k].at)
  BY Elements, ChainRemains
<1>5. row'[t] # NoRow => row'[t].signer = "minter"
  <2>1. ASSUME NEW k \in Pending(t), Land(k) PROVE row'[t].signer = "minter"
    BY <1>3, <2>1 DEF Land, Pending, TokenOf, TypeOK
  <2>2. CASE row[t] # NoRow /\ \A k \in Pending(t) : ~Land(k)
    BY <1>3, <2>2, RowsKeep
  <2>3. CASE row[t] = NoRow /\ \A k \in Pending(t) : ~Land(k)
    <3>1. row \in [Tokens -> Row \cup {NoRow}]
      BY DEF TypeOK
    <3>2. CASE row'[t] = NoRow
      BY <3>2
    <3>3. ASSUME NEW told \in BOOLEAN, row'[t] = NewRow(told) PROVE row'[t].signer = "minter"
      BY <3>3 DEF NewRow
    <3>4. CASE InsertTaken
      BY <2>3, <3>1, <3>2, <3>3, <3>4 DEF InsertTaken
    <3>5. ASSUME NEW k \in DOMAIN writes, Land(k) PROVE row'[t] = NoRow
      BY <2>3, <3>1, <3>5 DEF Land, Pending, TokenOf
    <3>6. ASSUME NEW s \in Tokens, Create(s) PROVE row'[t] # NoRow => row'[t].signer = "minter"
      BY <2>3, <3>1, <3>2, <3>3, <3>6 DEF Create
    <3>7. ASSUME NEW s \in Tokens, UpdateNotify(s) PROVE row'[t] = NoRow
      BY <2>3, <3>1, <3>7 DEF UpdateNotify
    <3>8. ASSUME NEW S, Reject(S) PROVE row'[t] = NoRow
      BY <2>3, <3>1, <3>8 DEF Reject
    <3>9. ASSUME NEW r \in Requests, PutWrite(r) PROVE row'[t] = NoRow
      BY <2>3, <3>1, <3>9 DEF PutWrite
    <3>10. ASSUME NEW r \in Requests, PickWrite(r) PROVE row'[t] = NoRow
      <4>1. row[request[r].token] # NoRow
        BY <3>10, Requested DEF PickWrite, RowsRemain
      <4>2. QED
        BY <2>3, <3>1, <3>10, <4>1 DEF PickWrite
    <3>11. CASE row' = row
      BY <2>3, <3>11
    <3>12. QED
      BY <3>2, <3>4, <3>5, <3>6, <3>7, <3>8, <3>9, <3>10, <3>11, RowSteps DEF RowStep
  <2>4. QED
    BY <2>1, <2>2, <2>3
<1>6. ASSUME NEW k \in Pending(t)' PROVE writes'[k].row.signer = "minter"
  <2>1. CASE Carried
    <3>1. PICK m \in DOMAIN writes : writes'[k] = writes[m]
      BY <1>6, <2>1 DEF Carried, Pending
    <3>2. m \in Pending(t)
      BY <1>4, <1>6, <3>1 DEF Pending, TokenOf
    <3>3. QED
      BY <1>3, <3>1, <3>2
  <2>2. CASE StartWrite
    <3>1. CASE k \in Pending(t)
      BY <1>3, <2>2, <3>1, StartPending DEF Pending
    <3>2. CASE k \notin Pending(t)
      <4>1. t = current /\ writes'[k].row = Synced(item, page[at])
        BY <1>6, <2>2, <3>2, StartPending
      <4>2. item \in Row /\ item.signer = "minter"
        BY <1>3, <2>2, <4>1 DEF StartWrite, TypeOK
      <4>3. QED
        BY <4>1, <4>2, SyncedRows
    <3>3. QED
      BY <3>1, <3>2
  <2>3. QED
    BY <2>1, <2>2, WritesCarried
<1>7. ASSUME pc' = "count", current' = t PROVE item'.signer = "minter"
  <2>1. CASE FindRow
    <3>1. pc = "find" /\ UNCHANGED <<row, chain, page>>
      BY <2>1 DEF FindRow
    <3>2. item' = row[current] /\ row[current] # NoRow /\ at' = at
      BY <1>7, <2>1, Entering DEF FindRow
    <3>3. current = t
      BY <1>7, <3>1, <3>2 DEF current, TokenOf
    <3>4. QED
      BY <1>3, <3>2, <3>3
  <2>2. CASE pc = "count" /\ UNCHANGED <<page, at, item>>
    <3>1. TokenRead(chain', page[at]) = TokenRead(chain, page[at])
      BY <2>2, AtHand, ChainRemains
    <3>2. current = t
      BY <1>7, <2>2, <3>1 DEF current, TokenOf
    <3>3. QED
      BY <1>3, <2>2, <3>2
  <2>3. ~Return /\ \A s, k : ~Enter(s, k)
    BY <1>7, Entering DEF Return
  <2>4. ASSUME ~FindRow PROVE pc = "count" /\ UNCHANGED <<page, at, item>>
    BY <1>7, <2>3, <2>4 DEF Next, Job, Block, Begin, CreateSyncPoint, FetchPage, InsertTaken,
       StartWrite, AdvanceCursor, Land, Swallow, FailRun, Crash, Create, Reject, UpdateNotify,
       PutRead, PutWrite, PickCount, PickQuery, PickWrite, jobVars, vars
  <2>5. QED
    BY <2>1, <2>2, <2>4
<1>8. QED
  BY <1>5, <1>6, <1>7

\* Activities a page left out or swapped remain so while it is handled.
LEMMA UnsoundRemains ==
  ASSUME Basics, [Next]_vars, pc \in OnPage, page' = page, since' = since
  PROVE  Unsound \subseteq Unsound'
<1> USE DEF Basics
<1>1. \A i \in DOMAIN chain :
        /\ i \in DOMAIN chain' /\ chain'[i] = chain[i]
        /\ TokenRead(chain', i) = TokenRead(chain, i)
  BY ChainRemains
<1>2. Last(page) \in DOMAIN chain
  BY AtEnd
<1>3. Last(page') = Last(page) /\ chain'[Last(page)] = chain[Last(page)]
  BY <1>1, <1>2
<1>4. LeftOut \subseteq LeftOut'
  <2>1. \A i \in Newer(since) : i \in DOMAIN chain /\ chain[i].height > since
    BY DEF Newer
  <2>2. \A i \in DOMAIN chain' : chain'[i].height > since => i \in Newer(since)'
    BY DEF Newer
  <2>3. ASSUME NEW i \in Newer(since) \ Range(page), chain[i].height <= chain[Last(page)].height
        PROVE  TokenOf(i) \in LeftOut'
    <3>1. /\ i \in Newer(since)' /\ i \notin Range(page')
          /\ chain'[i].height <= chain'[Last(page')].height
      BY <1>1, <1>3, <2>1, <2>2, <2>3
    <3>2. TokenRead(chain', i) = TokenOf(i)
      BY <1>1, <2>1 DEF TokenOf
    <3>3. QED
      BY <3>1, <3>2 DEF LeftOut, TokenOf
  <2>4. QED
    BY <2>3 DEF LeftOut
<1>5. Swapped \subseteq Swapped'
  <2>1. \A a \in DOMAIN page :
          /\ chain'[page[a]].read = chain[page[a]].read
          /\ TokenRead(chain', page[a]) = TokenRead(chain, page[a])
    BY <1>1, Elements
  <2>2. QED
    BY <2>1 DEF Swapped, TokenOf
<1>6. QED
  BY <1>4, <1>5 DEF Unsound

\* Of two messages of a token, the later one is not lower.
LEMMA MessagesRise ==
  ASSUME TypeOK, Chronological, NEW i \in DOMAIN chain, NEW j \in DOMAIN chain,
         TokenOf(i) \in Tokens, TokenOf(j) \in Tokens, Message(i) <= Message(j)
  PROVE  chain[i].height <= chain[j].height
<1> DEFINE m == chain[i].read
           n == chain[j].read
<1>1. TokenOf(i) # NoToken /\ TokenOf(j) # NoToken
  BY ConstantsOK
<1>2. m \in DOMAIN chain /\ chain[m].height = chain[i].height
  BY <1>1, TokenIsRead
<1>3. n \in DOMAIN chain /\ chain[n].height = chain[j].height
  BY <1>1, TokenIsRead
<1>4. m <= n
  BY DEF Message
<1>5. chain[m].height <= chain[n].height
  <2> HIDE DEF m, n
  <2>1. QED
    BY <1>2, <1>3, <1>4 DEF Chronological
<1>6. QED
  BY <1>2, <1>3, <1>5

\* A message below the one at hand is below the cursor, or handled, or its
\* token diverges when the cursor moves.
LEMMA EarlierIsHandled ==
  ASSUME Basics, pc \in OnPage, at \in DOMAIN page, NEW j \in DOMAIN chain,
         Message(j) < Message(page[at]), TokenOf(j) = current,
         current # NoToken, current \notin Unsound
  PROVE  \/ chain[j].height <= point
         \/ \E b \in DOMAIN page : HandledAs(current, b, j)
<1> USE DEF Basics
<1>1. DOMAIN page = 1..Len(page) /\ Len(page) \in Nat /\ Last(page) = page[Len(page)]
  BY AtEnd
<1>2. page[at] \in DOMAIN chain /\ TokenOf(page[at]) = current
  BY Elements DEF current
<1>3. chain[page[at]].height <= chain[Last(page)].height
  <2>1. at = Len(page) \/ (at < Len(page) /\ Len(page) \in DOMAIN page)
    BY <1>1
  <2>2. CASE at = Len(page)
    BY <1>1, <1>2, <2>2, Elements
  <2>3. CASE at < Len(page) /\ Len(page) \in DOMAIN page
    BY <1>1, <2>3 DEF PageIsRead
  <2>4. QED
    BY <2>1, <2>2, <2>3
<1>4. chain[j].height <= chain[page[at]].height
  <2>1. Message(j) \in Int /\ Message(page[at]) \in Int
    BY <1>2, TokenIsRead DEF Message
  <2>2. current \in Tokens
    BY <1>2, TokenIsRead
  <2>3. Message(j) <= Message(page[at])
    BY <2>1
  <2>4. QED
    BY <1>2, <2>2, <2>3, MessagesRise
<1>5. chain[j].height \in Int /\ chain[page[at]].height \in Int /\ chain[Last(page)].height \in Int
  BY <1>2, Elements, AtEnd, Limits
<1>6. chain[j].height <= chain[Last(page)].height
  BY <1>3, <1>4, <1>5
<1>7. CASE chain[j].height <= point
  BY <1>7
<1>8. CASE ~(chain[j].height <= point)
  <2>1. j \in Newer(since)
    <3>1. since = point /\ since \in Int
      BY Limits DEF PageIsRead, TypeOK
    <3>2. QED
      BY <1>5, <1>8, <3>1 DEF Newer
  <2>2. j \in Range(page)
    BY <1>6, <2>1 DEF Unsound, LeftOut
  <2>3. PICK b \in DOMAIN page : page[b] = j
    BY <2>2 DEF Range
  <2>4. ~(at < b)
    BY <1>2, <2>3 DEF Unsound, Swapped, Message
  <2>5. b # at
    <3>1. Message(j) \in Int
      BY TokenIsRead DEF Message
    <3>2. QED
      BY <2>3, <3>1
  <2>6. b < at
    BY <1>1, <2>4, <2>5
  <2>7. QED
    BY <2>3, <2>6 DEF HandledAs
<1>9. QED
  BY <1>7, <1>8

\* The run finds the row of a token that does not diverge.
LEMMA RowIsFound ==
  ASSUME Basics, SignedByMinter, Handled, Settled, pc = "find",
         current # NoToken, current \notin diverged, current \notin Unsound,
         Findable(chain, page[at])
  PROVE  row[current] # NoRow /\ row[current].signer = "minter"
<1> USE DEF Basics
<1>1. /\ at \in DOMAIN page /\ page[at] \in DOMAIN chain /\ current \in Tokens /\ pc \in OnPage
      /\ TokenOf(page[at]) = current
  BY AtHand DEF OnPage
<1>2. row[current] # NoRow
  <2>1. CASE TakeOn(chain, page[at])
    BY <2>1 DEF PageIsRead
  <2>2. CASE ~TakeOn(chain, page[at])
    <3>1. PICK j \in 1..chain[page[at]].read :
            /\ TakeOn(chain, j) /\ chain[j].read < chain[page[at]].read
            /\ TokenRead(chain, j) = TokenRead(chain, page[at])
      BY <2>2 DEF Findable
    <3>2. j \in DOMAIN chain
      <4>1. DOMAIN chain = 1..Len(chain) /\ Len(chain) \in Nat
        BY DEF TypeOK
      <4>2. chain[page[at]].read \in 0..page[at]
        BY <1>1, TokenIsRead
      <4>3. QED
        BY <1>1, <3>1, <4>1, <4>2
    <3>3. Findable(chain, j) /\ Message(j) < Message(page[at]) /\ TokenOf(j) = current
      BY <1>1, <3>1 DEF Findable, Message, TokenOf
    <3>4. CASE chain[j].height <= point
      BY <1>1, <3>2, <3>3, <3>4 DEF Settled
    <3>5. CASE \E b \in DOMAIN page : HandledAs(current, b, j)
      BY <1>1, <3>2, <3>3, <3>5 DEF Handled
    <3>6. QED
      BY <1>1, <3>2, <3>3, <3>4, <3>5, EarlierIsHandled
  <2>3. QED
    BY <2>1, <2>2
<1>3. QED
  BY <1>1, <1>2 DEF SignedByMinter

\* How a step can leave the job on a page.
LEMMA PageSteps ==
  ASSUME TypeOK, [Next]_vars, pc' \in OnPage
  PROVE  \/ FetchPage
         \/ /\ pc \in OnPage /\ page' = page /\ since' = since /\ at' = at
            /\ ~StartWrite /\ ~Crash
         \/ /\ StartWrite \/ Swallow \/ FindRow
            /\ Enter(page, at + 1) /\ page' = page /\ since' = since /\ chain' = chain
            /\ pc \in {"insert", "find", "count"}
<1>1. ~Return /\ pc' \notin {"idle", "create", "fetch"}
  BY DEF Return, OnPage
<1>2. CASE StartWrite \/ Swallow
  BY <1>2 DEF StartWrite, Swallow
<1>3. CASE FindRow
  <2>1. CASE Enter(page, at + 1)
    BY <1>3, <2>1 DEF FindRow
  <2>2. CASE ~Enter(page, at + 1)
    BY <1>3, <2>2 DEF FindRow, OnPage, StartWrite, Crash, Return
  <2>3. QED
    BY <2>1, <2>2
<1>4. CASE InsertTaken
  BY <1>4 DEF InsertTaken, OnPage, StartWrite, Crash, Return
<1>5. CASE UNCHANGED jobVars
  <2>1. pc' = pc /\ page' = page /\ since' = since /\ at' = at
    BY <1>5 DEF jobVars
  <2>2. ~Crash
    BY <1>1 DEF Crash
  <2>3. QED
    BY <1>2, <2>1, <2>2
<1>6. QED
  BY <1>1, <1>2, <1>3, <1>4, <1>5 DEF Next, Job, Block, Begin, CreateSyncPoint,
     AdvanceCursor, Land, FailRun, Crash, Create, Reject, UpdateNotify,
     PutRead, PutWrite, PickCount, PickQuery, PickWrite, jobVars, vars

LEMMA HandledStep ==
  ASSUME Basics, SignedByMinter, Handled, Settled, [Next]_vars
  PROVE  Handled'
<1> USE DEF Basics
<1> SUFFICES ASSUME pc' \in OnPage, NEW t \in Tokens, t \notin diverged', t \notin Unsound',
                    NEW a \in DOMAIN page', NEW i \in DOMAIN chain', Findable(chain', i)
             PROVE  /\ LastHandled(t, a, i)' => Latest(t, i)'
                    /\ HandledAs(t, a, i)' => row'[t] # NoRow
  BY DEF Handled
<1>1. t \notin diverged
  BY DivergedGrows
<1>2. \A k \in DOMAIN chain :
        /\ chain'[k].read = chain[k].read /\ TokenRead(chain', k) = TokenRead(chain, k)
        /\ Findable(chain', k) = Findable(chain, k)
  BY ChainRemains
<1>3. CASE FetchPage
  <2>1. PICK response \in Pages(since) : page' = response /\ Enter(response, 1)
    BY <1>3 DEF FetchPage, Return, OnPage
  <2>2. at' = 1 /\ DOMAIN page' = 1..Len(response) /\ Len(response) \in Nat
    BY <2>1, PageOf, Entering
  <2>3. ~HandledAs(t, a, i)'
    BY <2>2 DEF HandledAs
  <2>4. QED
    BY <2>3 DEF LastHandled
<1>4. ASSUME pc \in OnPage, page' = page, since' = since, StartWrite => current # t, ~Crash,
             HandledAs(t, a, i)' => HandledAs(t, a, i),
             LastHandled(t, a, i)' => LastHandled(t, a, i)
      PROVE  /\ LastHandled(t, a, i)' => Latest(t, i)'
             /\ HandledAs(t, a, i)' => row'[t] # NoRow
  <2>1. t \notin Unsound
    BY <1>4, UnsoundRemains
  <2>2. HandledAs(t, a, i) => /\ i \in DOMAIN chain /\ TokenOf(i) = t
                              /\ Findable(chain, i)
    BY <1>2, Elements DEF HandledAs
  <2>3. HandledAs(t, a, i) => row[t] # NoRow
    BY <1>1, <1>4, <2>1, <2>2 DEF Handled, HandledAs
  <2>4. LastHandled(t, a, i) => Latest(t, i)
    BY <1>1, <1>4, <2>1, <2>2 DEF Handled, LastHandled, HandledAs
  <2>5. HandledAs(t, a, i)' => row'[t] # NoRow
    BY <1>4, <2>3, RowsClose DEF Closes
  <2>6. LastHandled(t, a, i)' => Latest(t, i)'
    BY <1>4, <2>2, <2>4, LatestKept DEF LastHandled
  <2>7. QED
    BY <2>5, <2>6
<1>5. CASE /\ pc \in OnPage /\ page' = page /\ since' = since /\ at' = at
           /\ ~StartWrite /\ ~Crash
  <2>1. \A b \in DOMAIN page :
          /\ page[b] \in DOMAIN chain /\ chain'[page[b]].read = chain[page[b]].read
          /\ TokenRead(chain', page[b]) = TokenRead(chain, page[b])
    BY <1>2, Elements
  <2>2. HandledAs(t, a, i)' => HandledAs(t, a, i)
    BY <1>5, <2>1 DEF HandledAs, TokenOf
  <2>3. LastHandled(t, a, i)' => LastHandled(t, a, i)
    <3>1. SUFFICES ASSUME LastHandled(t, a, i)' PROVE LastHandled(t, a, i)
      OBVIOUS
    <3>2. HandledAs(t, a, i)
      BY <2>2, <3>1 DEF LastHandled
    <3>3. chain'[i].read = chain[i].read
      BY <2>1, <3>2 DEF HandledAs
    <3>4. \A b \in DOMAIN page :
            b < at /\ TokenRead(chain', page[b]) = t => chain'[page[b]].read <= chain'[i].read
      BY <1>5, <3>1 DEF LastHandled, TokenOf, Message
    <3>5. QED
      BY <2>1, <3>2, <3>3, <3>4 DEF LastHandled, TokenOf, Message
  <2>4. QED
    BY <1>4, <1>5, <2>2, <2>3
<1>6. CASE /\ StartWrite \/ Swallow \/ FindRow
           /\ Enter(page, at + 1) /\ page' = page /\ since' = since /\ chain' = chain
           /\ pc \in {"insert", "find", "count"}
  <2>1. /\ at' = at + 1 /\ at \in 1..Len(page) /\ Len(page) \in Nat
        /\ DOMAIN page = 1..Len(page) /\ TokenOf(page[at]) = current
    BY <1>6, AtHand, Entering
  <2>2. pc \in OnPage /\ ~Crash
    BY <1>6 DEF OnPage, Crash, Return
  <2>3. CASE current # t
    <3>1. HandledAs(t, a, i)' => HandledAs(t, a, i)
      BY <1>6, <2>1, <2>3 DEF HandledAs, TokenOf
    <3>2. LastHandled(t, a, i)' => LastHandled(t, a, i)
      BY <1>6, <2>1, <2>3, <3>1 DEF LastHandled, TokenOf, Message
    <3>3. QED
      BY <1>4, <1>6, <2>2, <2>3, <3>1, <3>2
  <2>4. ASSUME current = t, LastHandled(t, a, i)' PROVE Message(page[at]) = Message(i)
    <3>1. a \in DOMAIN page /\ a < at + 1 /\ page[a] = i /\ TokenOf(i) = t
      BY <1>6, <2>1, <2>4 DEF LastHandled, HandledAs, TokenOf
    <3>2. Message(page[at]) <= Message(i)
      <4>1. at \in DOMAIN page' /\ at < at' /\ TokenOf(page[at]) = t
        BY <1>6, <2>1, <2>4
      <4>2. QED
        BY <1>6, <2>4, <4>1 DEF LastHandled, TokenOf, Message
    <3>3. CASE a = at
      BY <3>1, <3>3
    <3>4. CASE a < at
      <4>1. ~(Message(page[at]) < Message(page[a]))
        <5>1. t \notin Swapped
          BY <1>6, <2>2, UnsoundRemains DEF Unsound
        <5>2. at \in DOMAIN page /\ TokenOf(page[a]) = TokenOf(page[at])
          BY <2>1, <2>4, <3>1
        <5>3. QED
          BY <3>1, <3>4, <5>1, <5>2 DEF Swapped, Message
      <4>2. Message(page[at]) \in Int /\ Message(i) \in Int
        BY <1>6, <3>1, AtHand, Elements, TokenIsRead DEF Message
      <4>3. QED
        BY <3>1, <3>2, <4>1, <4>2
    <3>5. QED
      BY <2>1, <3>1, <3>3, <3>4
  <2>5. CASE current = t /\ StartWrite
    <3>1. row'[t] # NoRow
      BY <2>5 DEF StartWrite, PageIsRead
    <3>2. ASSUME LastHandled(t, a, i)' PROVE Latest(t, i)'
      <4>1. Message(page[at]) = Message(i)
        BY <2>5, <2>4, <3>2
      <4>2. /\ Len(writes) \in Nat /\ Pending(t)' = Pending(t) \cup {Len(writes) + 1}
            /\ writes'[Len(writes) + 1].at = page[at] /\ Pending(t) \subseteq 1..Len(writes)
        BY <2>5, StartPending DEF Pending
      <4>3. QED
        BY <1>6, <4>1, <4>2 DEF Latest, Message
    <3>3. QED
      BY <3>1, <3>2
  <2>6. CASE current = t /\ Swallow
    BY <2>6 DEF Swallow
  <2>7. CASE current = t /\ FindRow
    <3>1. t \notin Unsound /\ current # NoToken
      BY <1>6, <2>2, <2>7, UnsoundRemains, ConstantsOK
    <3>2. ~Findable(chain, page[at])
      <4>1. ASSUME Findable(chain, page[at]) PROVE FALSE
        <5>1. row[current] # NoRow /\ row[current].signer = "minter"
          BY <1>1, <2>7, <3>1, <4>1, RowIsFound DEF FindRow
        <5>2. pc' = "count"
          BY <2>7, <3>1, <5>1 DEF FindRow
        <5>3. QED
          BY <1>6, <5>2, Entering
      <4>2. QED
        BY <4>1
    <3>3. i # page[at] /\ Message(i) # Message(page[at])
      BY <1>6, <3>2, SaidByMessage
    <3>4. HandledAs(t, a, i)' => HandledAs(t, a, i)
      BY <1>6, <2>1, <3>3 DEF HandledAs, TokenOf
    <3>5. LastHandled(t, a, i)' => LastHandled(t, a, i)
      BY <1>6, <2>1, <3>4 DEF LastHandled, TokenOf, Message
    <3>6. QED
      BY <1>4, <1>6, <2>2, <2>7, <3>4, <3>5 DEF FindRow, StartWrite
  <2>8. QED
    BY <1>6, <2>3, <2>5, <2>6, <2>7
<1>7. QED
  BY <1>3, <1>5, <1>6, PageSteps

\* The cursor only moves when a run ends.
LEMMA CursorMoves ==
  ASSUME [Next]_vars
  PROVE  point' = point \/ CreateSyncPoint \/ AdvanceCursor
BY DEF Next, Job, Block, Begin, FetchPage, InsertTaken, FindRow, StartWrite,
   Land, Swallow, FailRun, Crash, Create, Reject, UpdateNotify, PutRead,
   PutWrite, PickCount, PickQuery, PickWrite, jobVars, vars

LEMMA SettledStep ==
  ASSUME Basics, Handled, Settled, [Next]_vars
  PROVE  Settled'
<1> USE DEF Basics
<1>1. /\ \A k \in DOMAIN chain : k \in DOMAIN chain' /\ chain'[k] = chain[k]
      /\ \A k \in DOMAIN chain : chain[k].height \in Nat \ {0}
      /\ \A k \in DOMAIN chain' : chain'[k].height \in Nat \ {0}
  <2>1. \A k \in DOMAIN chain' : chain'[k].height \in Nat \ {0}
    <3> TAKE k \in DOMAIN chain'
    <3>1. chain'[k] \in Activity
      BY ChainRemains
    <3>2. QED
      BY <3>1, Limits DEF Activity
  <2>2. QED
    BY <2>1, ChainRemains, HeightOf
<1>2. point \in Int /\ since \in Int
  BY Limits DEF TypeOK, NoPoint
<1>3. CASE point' = point
  <2>1. point' <= 0 \/ \E i \in DOMAIN chain' : point' <= chain'[i].height
    BY <1>1, <1>3 DEF Settled
  <2>2. ASSUME NEW t \in Tokens, t \notin diverged',
               NEW i \in DOMAIN chain', chain'[i].height <= point', Findable(chain', i)
        PROVE  /\ LastOf(t, i)' => Latest(t, i)'
               /\ TokenOf(i)' = t => row'[t] # NoRow
    <3>1. i \in DOMAIN chain
      <4>1. CASE Block
        <5>1. i \notin DOMAIN chain => chain'[i].height = Height + 1
          BY <4>1, ChainGrows
        <5>2. Height \in Nat /\ \A k \in DOMAIN chain : chain[k].height <= Height
          BY HeightOf, <1>1 DEF TypeOK
        <5>3. point < Height + 1
          BY <1>1, <1>2, <5>2 DEF Settled
        <5>4. QED
          BY <1>1, <1>2, <1>3, <2>2, <5>1, <5>2, <5>3
      <4>2. CASE ~Block
        <5>1. chain' = chain
          BY <4>2 DEF Next, Job, Begin, CreateSyncPoint, FetchPage, InsertTaken, FindRow,
             StartWrite, AdvanceCursor, Land, Swallow, FailRun, Crash, Create, Reject,
             UpdateNotify, PutRead, PutWrite, PickCount, PickQuery, PickWrite, vars
        <5>2. QED
          BY <5>1
      <4>3. QED
        BY <4>1, <4>2
    <3>2. /\ chain'[i] = chain[i] /\ chain[i].height <= point /\ t \notin diverged
          /\ TokenRead(chain', i) = TokenOf(i) /\ Findable(chain, i)
      BY <1>1, <1>3, <2>2, <3>1, DivergedGrows, ChainRemains DEF TokenOf
    <3>3. TokenOf(i)' = t => row'[t] # NoRow
      BY <3>1, <3>2, RowsClose DEF Settled, TokenOf, Closes
    <3>4. ASSUME LastOf(t, i)' PROVE Latest(t, i)'
      <4>1. LastOf(t, i) /\ TokenOf(i) = t
        <5>1. TokenOf(i) = t
          BY <3>2, <3>4 DEF LastOf, TokenOf
        <5>2. \A k \in DOMAIN chain' :
                TokenRead(chain', k) = t => chain'[k].read <= chain'[i].read
          BY <3>4 DEF LastOf, TokenOf, Message
        <5>3. ASSUME NEW k \in DOMAIN chain, TokenOf(k) = t PROVE Message(k) <= Message(i)
          <6>1. /\ k \in DOMAIN chain' /\ chain'[k].read = chain[k].read
                /\ TokenRead(chain', k) = t
            BY <5>3, ChainRemains DEF TokenOf
          <6>2. QED
            BY <3>2, <5>2, <6>1 DEF Message
        <5>4. QED
          BY <5>1, <5>3 DEF LastOf
      <4>2. Latest(t, i)
        BY <3>1, <3>2, <4>1 DEF Settled
      <4>3. ASSUME StartWrite PROVE current # t
        <5>1. at \in DOMAIN page /\ page[at] \in DOMAIN chain /\ TokenOf(page[at]) = current
          BY <4>3, StartPending
        <5>2. chain[page[at]].height > since /\ since = point
          BY <4>3, <5>1 DEF StartWrite, PageIsRead, OnPage
        <5>3. ASSUME current = t PROVE FALSE
          <6>1. Message(page[at]) <= Message(i)
            BY <4>1, <5>1, <5>3 DEF LastOf
          <6>2. chain[page[at]].height <= chain[i].height
            BY <2>2, <3>1, <4>1, <5>1, <5>3, <6>1, MessagesRise
          <6>3. QED
            BY <1>1, <1>2, <3>1, <3>2, <5>1, <5>2, <6>2
        <5>4. QED
          BY <5>3
      <4>4. QED
        BY <2>2, <3>1, <3>2, <4>1, <4>2, <4>3, LatestKept
    <3>5. QED
      BY <3>3, <3>4
  <2>3. QED
    BY <2>1, <2>2 DEF Settled
<1>4. CASE CreateSyncPoint
  <2>1. point' = 0
    BY <1>4 DEF CreateSyncPoint
  <2>2. QED
    BY <1>1, <2>1 DEF Settled
<1>5. CASE AdvanceCursor
  <2>1. /\ pc = "cursor" /\ pc \in OnPage
        /\ point' = chain[Last(page)].height /\ diverged' = diverged \cup Unsound
        /\ UNCHANGED <<chain, row, writes>>
    BY <1>5 DEF AdvanceCursor, OnPage, NewPoint, Unsound
  <2>2. /\ Last(page) \in DOMAIN chain /\ at = Len(page) + 1 /\ since = point
        /\ DOMAIN page = 1..Len(page) /\ Len(page) \in Nat
    BY <2>1, AtEnd DEF PageIsRead
  <2>3. \E i \in DOMAIN chain' : point' <= chain'[i].height
    BY <1>1, <2>1, <2>2
  <2>4. ASSUME NEW t \in Tokens, t \notin diverged, t \notin Unsound,
               NEW i \in DOMAIN chain, chain[i].height <= chain[Last(page)].height,
               Findable(chain, i)
        PROVE  /\ LastOf(t, i) => Latest(t, i)
               /\ TokenOf(i) = t => row[t] # NoRow
    <3>1. CASE chain[i].height <= point
      BY <2>4, <3>1 DEF Settled
    <3>2. CASE ~(chain[i].height <= point)
      <4> SUFFICES ASSUME TokenOf(i) = t
                   PROVE  /\ LastOf(t, i) => Latest(t, i)
                          /\ row[t] # NoRow
        BY DEF LastOf
      <4>1. i \in Newer(since)
        BY <1>1, <1>2, <2>2, <3>2 DEF Newer
      <4>2. i \in Range(page)
        BY <2>4, <4>1 DEF Unsound, LeftOut
      <4>3. PICK a \in DOMAIN page : page[a] = i
        BY <4>2 DEF Range
      <4>4. HandledAs(t, a, i)
        BY <2>2, <4>3 DEF HandledAs
      <4>5. ASSUME LastOf(t, i) PROVE LastHandled(t, a, i)
        <5>1. \A b \in DOMAIN page : TokenOf(page[b]) = t => Message(page[b]) <= Message(i)
          BY <4>5, Elements DEF LastOf
        <5>2. QED
          BY <4>4, <5>1 DEF LastHandled
      <4>6. QED
        BY <2>1, <2>4, <4>3, <4>4, <4>5 DEF Handled
    <3>3. QED
      BY <3>1, <3>2
  <2>5. \A t, i : Latest(t, i)' = Latest(t, i) /\ LastOf(t, i)' = LastOf(t, i)
    BY <2>1 DEF Latest, LastOf, Pending, TokenOf, Message
  <2>6. QED
    BY <2>1, <2>3, <2>4, <2>5 DEF Settled, TokenOf
<1>6. QED
  BY <1>3, <1>4, <1>5, CursorMoves

\* Once the cursor has passed a token and its saves have landed, its row says
\* what the chain says, whatever was swallowed, killed or run again, unless it
\* is one of the tokens that StatusMirrorsChain excepts.
THEOREM RowsMirrorChain == Spec => []StatusMirrorsChain
<1>1. Init => Mirror
  BY DEF Mirror, Init, SignedByMinter, Handled, Settled, Pending, OnPage, NoPoint
<1>2. Basics /\ Mirror /\ [Next]_vars => Mirror'
  BY SignedStep, HandledStep, SettledStep DEF Mirror
<1>3. Basics /\ Mirror => StatusMirrorsChain
  <2> SUFFICES ASSUME Basics, Mirror, NEW t \in Tokens, t \notin diverged, NEW i \in DOMAIN chain,
                      chain[i].token = t,
                      \A k \in DOMAIN chain : chain[k].token = t => k <= i,
                      IsFollowed(i), chain[i].height <= point,
                      \A w \in Range(writes) : TokenOf(w.at) # t
               PROVE  row[t] # NoRow /\ row[t].status = IF IsTake(i) THEN "Equipped" ELSE "Unequipped"
    BY DEF StatusMirrorsChain
  <2> USE DEF Basics
  <2>1. /\ DOMAIN chain = 1..Len(chain) /\ Len(chain) \in Nat /\ i \in 1..Len(chain)
        /\ chain[i].read = i /\ t # NoToken
    BY ConstantsOK DEF TypeOK, IsFollowed, WasRead
  <2>2. /\ TokenOf(i) = t /\ Message(i) = i
        /\ TakeOn(chain, i) <=> IsTake(i)
    <3>1. TokenRead(chain, i) = t
      BY <2>1 DEF TokenRead
    <3>2. Odd(chain, i) <=> IsTake(i)
      BY DEF Odd, IsTake
    <3>3. TakeOn(chain, i) <=> IsTake(i)
      BY <2>1, <3>1, <3>2 DEF TakeOn
    <3>4. QED
      BY <2>1, <3>1, <3>3 DEF TokenOf, Message
  <2>3. Findable(chain, i)
    <3>1. CASE IsTake(i)
      BY <2>2, <3>1 DEF Findable
    <3>2. CASE ~IsTake(i)
      <4>1. PICK k \in 1..(i - 1) : chain[k].token = t /\ IsTake(k) /\ chain[k].read = k
        BY <3>2 DEF IsFollowed, WasRead
      <4>2. k \in 1..chain[i].read /\ k < i /\ k # 0
        BY <2>1, <4>1
      <4>3. TokenRead(chain, k) = t /\ TakeOn(chain, k)
        BY <2>1, <4>1, <4>2 DEF TokenRead, TakeOn, Odd, IsTake
      <4>4. QED
        BY <2>1, <2>2, <4>1, <4>2, <4>3 DEF Findable, TokenOf
    <3>3. QED
      BY <3>1, <3>2
  <2>4. LastOf(t, i)
    <3>1. ASSUME NEW k \in DOMAIN chain, TokenOf(k) = t PROVE Message(k) <= Message(i)
      <4>1. chain[k].read \in DOMAIN chain /\ chain[chain[k].read].token = t
        BY <2>1, <3>1, TokenIsRead
      <4>2. QED
        BY <2>2, <4>1 DEF Message
    <3>2. QED
      BY <2>2, <3>1 DEF LastOf
  <2>5. Latest(t, i)
    BY <2>3, <2>4 DEF Mirror, Settled
  <2>6. Pending(t) = {}
    BY DEF Pending, Range
  <2>7. row[t] # NoRow /\ row[t].status = Said(chain, i)
    BY <2>5, <2>6 DEF Latest
  <2>8. QED
    BY <2>2, <2>7 DEF Said
<1>4. QED
  BY <1>1, <1>2, <1>3, BasicsHold, PTL DEF Spec

=============================================================================
