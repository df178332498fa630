---------------------------- MODULE ExportPages ----------------------------
(***************************************************************************)
(* The export of an account's transactions as a CSV file                   *)
(* (ExportCsvService).  Whatever is exported, queryData fetches it from    *)
(* the indexer, newest first, in pages: the next page starts below the     *)
(* height of the last record of this one.  The indexer goes on to add      *)
(* blocks between two pages.                                               *)
(***************************************************************************)
EXTENDS Integers, SequencesExt

CONSTANTS
  PageLimit,     \* QUERY_LIMIT_RECORD
  MaxLoop,       \* MAX_LOOP
  ExportLimit,   \* EXPORT_LIMIT_RECORD
  MaxHeight,     \* bound: blocks indexed
  MaxRecords     \* bound: records of the account

VARIABLES
  height, log,   \* the chain; the heights of the account's records, by id
  request,       \* the kind of export and its range
  pc,
  below,         \* variables.heightLT
  result,        \* result.transaction, as ids
  loops,         \* timesLoop
  rows,          \* the rows of the file, as the ids they are made from
  known,         \* history: records indexed when the first page was fetched
  split,         \* history: heights at which a full page ended
  broken         \* history: a page did not come

vars == <<height, log, request, pc, below, result, loops, rows, known, split, broken>>

\* TYPE_EXPORT: how the query of a kind orders its records, whether its dates
\* are compared with _gte and _lte or with _gt and _lt, whether its records
\* have a height of their own (those of cw20_activity and cw721_activity leave
\* it to their "tx"), and whether a record may have several rows.
Executed      == [order |-> "id",     dates |-> "closed", heights |-> TRUE,  several |-> FALSE]
EvmExecuted   == [order |-> "id",     dates |-> "open",   heights |-> TRUE,  several |-> FALSE]
CoinTransfer  == [order |-> "height", dates |-> "closed", heights |-> TRUE,  several |-> TRUE]
TokenTransfer == [order |-> "height", dates |-> "closed", heights |-> FALSE, several |-> FALSE]
Erc20Transfer == [order |-> "id",     dates |-> "closed", heights |-> TRUE,  several |-> FALSE]
NftTransfer   == [order |-> "height", dates |-> "closed", heights |-> FALSE, several |-> FALSE]
Kinds == {Executed, EvmExecuted, CoinTransfer, TokenTransfer, Erc20Transfer, NftTransfer}

\* null, or undefined, which JSON leaves out: the query has no upper bound.
NoBound == 0

\* heightLT is one above the last height asked for.
Request == [kind : Kinds, by : {"height", "date"}, min : 0..MaxHeight, max : 1..MaxHeight]
FirstBound(q) == IF q.by = "height" THEN q.max + 1 ELSE NoBound

Init ==
  /\ height = 0 /\ log = <<>>
  /\ request \in {q \in Request : q.min <= q.max}
  /\ pc = "fetch"
  /\ below = FirstBound(request)
  /\ result = <<>> /\ loops = 0 /\ rows = <<>>
  /\ known = 0 /\ split = {} /\ broken = FALSE

\* A block with any number of records of the account.  What is indexed after
\* the last page makes no difference.
IndexBlock ==
  /\ pc = "fetch" /\ height < MaxHeight
  /\ height' = height + 1
  /\ \E n \in 0..(MaxRecords - Len(log)) :
       log' = log \o [i \in 1..n |-> height + 1]
  /\ UNCHANGED <<request, pc, below, result, loops, rows, known, split, broken>>

-----------------------------------------------------------------------------
(* The queries                                                             *)

\* "heightGT: min > 1 ? min - 1 : 0".  A date stands for the height of a
\* block here.
Above(min) == IF min > 1 THEN min - 1 ELSE 0
Asked(h) ==
  LET q == request IN
  CASE q.by = "height"                           -> h > Above(q.min)
    [] q.by = "date" /\ q.kind.dates = "open"    -> h > q.min /\ h < q.max
    [] OTHER                                     -> h >= q.min /\ h <= q.max

Matching == {i \in DOMAIN log : /\ Asked(log[i])
                                /\ below # NoBound => log[i] < below}

\* limit and order_by: the newest records, any choice where heights tie.
Newer(i, j) == IF request.kind.order = "id" THEN i > j ELSE log[i] >= log[j]
Pages(S) ==
  IF Cardinality(S) <= PageLimit
  THEN {S}
  ELSE {P \in SUBSET S : /\ Cardinality(P) = PageLimit
                         /\ \A i \in P, j \in S \ P : Newer(i, j)}

Descending(P) ==
  [n \in 1..Cardinality(P) |-> CHOOSE i \in P : Cardinality({j \in P : j > i}) = n - 1]
LastHeight(P) == log[Min(P)]

-----------------------------------------------------------------------------
(* queryData                                                               *)

NextBoundInclusive(P) == LastHeight(P) + 1
NextBound(P)          == IF request.kind.heights THEN LastHeight(P) ELSE NoBound

MoreThanFull(P) == Cardinality(P) > PageLimit
Full(P)         == Cardinality(P) >= PageLimit

Goto(step) == pc' = step
Loop(P) == Full(P) /\ Len(result') < ExportLimit /\ loops' < MaxLoop

FetchPage ==
  /\ pc = "fetch"
  /\ \E P \in Pages(Matching) :
       /\ result' = result \o Descending(P)
       /\ loops' = loops + 1
       /\ below' = IF Full(P) THEN NextBound(P) ELSE below
       /\ split' = IF Full(P) THEN split \cup {LastHeight(P)} ELSE split
       /\ Goto(IF Loop(P) THEN "fetch" ELSE "write")
  /\ known' = IF loops = 0 THEN Len(log) ELSE known
  /\ UNCHANGED <<height, log, request, rows, broken>>

\* fetchDataFromGraphQL returns null for any error: the file has what came.
MissPage ==
  /\ pc = "fetch"
  /\ broken' = TRUE
  /\ known' = IF loops = 0 THEN Len(log) ELSE known
  /\ Goto("write")
  /\ UNCHANGED <<height, log, request, below, result, loops, rows, split>>

\* The names of the methods of an EVM page, an asset, the private name tags
\* or a decryption do not come: the whole export fails.
Fail ==
  /\ pc \in {"fetch", "write"}
  /\ Goto("failed")
  /\ UNCHANGED <<height, log, request, below, result, loops, rows, known, split, broken>>

-----------------------------------------------------------------------------
(* executed, evmExecuted, coinTransfer, tokenTransfer, erc20Transfer and   *)
(* nftTransfer: a row for each record, or for each transfer of a record.   *)

Several == IF request.kind.several THEN 1..2 ELSE {1}
AllRows(transfers) ==
  FlattenSeq([n \in DOMAIN result |-> [k \in 1..transfers[n] |-> result[n]]])
Truncated(s) ==
  IF request.kind.several /\ Len(s) > ExportLimit
  THEN SubSeq(s, 1, ExportLimit) ELSE s

WriteFile ==
  /\ pc = "write"
  /\ \E transfers \in [DOMAIN result -> Several] : rows' = Truncated(AllRows(transfers))
  /\ Goto("done")
  /\ UNCHANGED <<height, log, request, below, result, loops, known, split, broken>>

Quiet == pc \in {"done", "failed"} /\ UNCHANGED vars

Next == IndexBlock \/ FetchPage \/ MissPage \/ Fail \/ WriteFile \/ Quiet

Spec == Init /\ [][Next]_vars

-----------------------------------------------------------------------------
(* Properties                                                              *)

InRange(h) == Asked(h) /\ (request.by = "height" => h <= request.max)

\* However many blocks arrive between two pages, a file has every record
\* once, newest first, and none outside the range.  For cw20 and
\* nft transfers this ends with the first page: without a height the next
\* query has no bound and starts again with the newest records.
EachRecordOnce ==
  pc = "done" /\ (request.kind.heights \/ loops <= 1) =>
    /\ IsInjective(result)
    /\ \A i \in Range(rows) : InRange(log[i])
    /\ \A n \in 1..(Len(rows) - 1) : log[rows[n]] >= log[rows[n + 1]]

\* A record that was indexed when the export began is missing from the file
\* only if a page ended inside its block, or it is older than all that is in
\* the file and a page did not come or the file is full.
CutOff(i) == \A j \in Range(rows) : log[j] >= log[i]
OnlyKnownGaps ==
  pc = "done" /\ request.kind.heights =>
    \A i \in 1..known :
      InRange(log[i]) =>
        \/ i \in Range(rows)
        \/ log[i] \in split
        \/ CutOff(i) /\ (broken \/ loops = MaxLoop \/ Len(rows) >= ExportLimit)

=============================================================================
