----------------------------- MODULE CachedReads -----------------------------
(***************************************************************************)
(* The reads behind a CacheInterceptor: public name tags, assets, token    *)
(* markets, account lists, the status of a verification.  The interceptor  *)
(* keeps an answer under the URL of its request, but a handler answers     *)
(* for the chain that a header of the request names.                       *)
(***************************************************************************)
EXTENDS Integers

CONSTANTS
  Explorers,
  Urls,
  NextPages,     \* of them, those of name tags with a nextKey
  Requests,      \* slots for concurrent requests
  Ttl,           \* cacheManagement.ttl
  MaxClock,      \* bound: time
  MaxVersion,    \* bound: changes of the data of an explorer
  None

VARIABLES
  now,
  data,          \* data[e]: the version of the data of an explorer
  cache,         \* cache[url]
  request, pc,
  answer,        \* answer[r]: what the handler has read
  changed,       \* history: when the data of an explorer changed last
  served,        \* history: the last answer, for whom, and what it could have been
  seen,          \* history: the newest version of its own that e had seen at a URL
  raced          \* history: explorers and URLs whose data changed after a handler
                 \* had read it and before its answer was kept

vars == <<now, data, cache, request, pc, answer, changed, served, seen, raced>>

Init ==
  /\ now = 0
  /\ data = [e \in Explorers |-> 0]
  /\ cache = [u \in Urls |-> None]
  /\ request = [r \in Requests |-> None] /\ pc = [r \in Requests |-> "idle"]
  /\ answer = [r \in Requests |-> None]
  /\ changed = [e \in Explorers |-> 0] /\ served = None
  /\ seen = [e \in Explorers |-> [u \in Urls |-> 0]] /\ raced = {}

Tick ==
  /\ now < MaxClock /\ now' = now + 1
  /\ UNCHANGED <<data, cache, request, pc, answer, changed, served, seen, raced>>

Change ==
  \E e \in Explorers :
    /\ data[e] < MaxVersion
    /\ data' = [data EXCEPT ![e] = @ + 1]
    /\ changed' = [changed EXCEPT ![e] = now]
    /\ raced' = raced \cup {<<e, request[r].url>> :
                             r \in {s \in Requests : pc[s] = "keep" /\ request[s].explorer = e}}
    /\ UNCHANGED <<now, cache, request, pc, answer, served, seen>>

-----------------------------------------------------------------------------
Goto(r, step) == pc' = [pc EXCEPT ![r] = step]

Tell(e, u, a) ==
  /\ served' = [to |-> e, url |-> u, of |-> a.of, version |-> a.version, seen |-> seen[e][u],
                current |-> data[a.of], age |-> now - changed[a.of]]
  /\ seen' = IF a.of = e /\ a.version > seen[e][u] THEN [seen EXCEPT ![e][u] = a.version] ELSE seen

\* CacheInterceptor.trackBy: the key is request.url, whatever its headers.
FreshForEver(u) == cache[u] # None
Fresh(u)        == cache[u] # None /\ now < cache[u].stored + Ttl

Ask(r) ==
  /\ pc[r] = "idle"
  /\ \E e \in Explorers, u \in Urls :
       IF Fresh(u)
       THEN Tell(e, u, cache[u]) /\ UNCHANGED <<request, pc>>
       ELSE /\ request' = [request EXCEPT ![r] = [explorer |-> e, url |-> u]]
            /\ Goto(r, "handle") /\ UNCHANGED <<served, seen>>
  /\ UNCHANGED <<now, data, cache, answer, changed, raced>>

\* The handler looks up the explorer of the header and reads its rows.  The
\* query of a next page names a column "id" that two of its tables have, and
\* fails, and so does one without an answer of the database: nothing is kept.
Handle(r) ==
  /\ pc[r] = "handle"
  /\ LET e == request[r].explorer IN
     \/ /\ request[r].url \notin NextPages
        /\ answer' = [answer EXCEPT ![r] = [of |-> e, version |-> data[e]]]
        /\ Goto(r, "keep") /\ UNCHANGED request
     \/ /\ Goto(r, "idle") /\ request' = [request EXCEPT ![r] = None]
        /\ UNCHANGED answer
  /\ UNCHANGED <<now, data, cache, changed, served, seen, raced>>

Keep(r) ==
  /\ pc[r] = "keep"
  /\ LET u == request[r].url
         kept == [of |-> answer[r].of, version |-> answer[r].version, stored |-> now]
     IN /\ cache' = [cache EXCEPT ![u] = kept]
        /\ Tell(request[r].explorer, u, kept)
  /\ request' = [request EXCEPT ![r] = None] /\ answer' = [answer EXCEPT ![r] = None]
  /\ Goto(r, "idle")
  /\ UNCHANGED <<now, data, changed, raced>>

Next == Tick \/ Change \/ \E r \in Requests : Ask(r) \/ Handle(r) \/ Keep(r)

Spec == Init /\ [][Next]_vars

-----------------------------------------------------------------------------
(* Properties                                                              *)

\* Unless the data of an explorer changed while a handler held what it had
\* read for the URL: every client, whichever explorer it asks for, is shown a
\* change once the time to live has passed since; and no client sees the data
\* of its own explorer go back to an older version, not even when clients of
\* other explorers have replaced the answer in between.
AnswersAreFresh ==
  served # None /\ <<served.of, served.url>> \notin raced =>
    /\ served.age >= Ttl => served.version = served.current
    /\ served.of = served.to => served.version >= served.seen

=============================================================================
