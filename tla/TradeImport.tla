---------------------------- MODULE TradeImport ----------------------------
(***************************************************************************)
(* An import reaches two stores: the reviewed fills of the workbench       *)
(* (store.py), then the tenant's trades (trader/storage/sqlite_store.py),  *)
(* which other requests read in pages (trader/api/service.py) and correct. *)
(* Each store serves one statement block at a time behind its lock; the    *)
(* requests run side by side and the process may be killed.                *)
(***************************************************************************)
EXTENDS Integers, Sequences, FiniteSets, SequencesExt, Functions

CONSTANTS Request,   \* the requests in progress at the same time
          Fill,      \* executions an import may bring
          Key,       \* Key[f]: the portfolio, day, symbol and side of f
          Day,       \* Day[f]: the day of execution f or of trade f
          Explicit,  \* trades that come with an id of their own
          Unstorable,\* executions that pass the validation and that SQLite refuses
          Batches,   \* the imports: sequences of executions
          PageSize,  \* MAX_ANALYTICS_TRADES
          Windows,   \* the days a reading may ask for; account and symbol filter alike
          MaxImports \* bound: imports and corrections

Days == {Day[x] : x \in Fill \cup Explicit}

ASSUME ImportAssumption ==
    /\ Fill \cap Explicit = {} /\ Unstorable \subseteq Fill
    /\ DOMAIN Key = Fill /\ Day \in [Fill \cup Explicit -> Int]
    /\ Batches \subseteq Seq(Fill)
    /\ Windows \subseteq SUBSET Days
    /\ PageSize \in Nat \ {0} /\ MaxImports \in Nat

VARIABLES records, \* fill_record as the store's connection sees it
          durable, \* fill_record as the last commit left it
          trades,  \* the tenant's trades, in the order of their first insertion
          request, \* what each request is doing
          imports  \* imports and corrections so far

importVars == <<records, durable, trades, request, imports>>

\* A reading knows its days and what it has read; known and left are history: the trades
\* of these days when it began, and those that were moved off them since.
Free == [op |-> "idle", batch |-> << >>, days |-> {}, rows |-> << >>, known |-> {}, left |-> {}]

ImportInit ==
    /\ records = << >> /\ durable = << >> /\ trades = << >>
    /\ request = [r \in Request |-> Free]
    /\ imports = 0

-----------------------------------------------------------------------------
(* The reviewed fills.  An execution already recorded, in whatever         *)
(* revision, is skipped; another one of the same day, symbol and side is   *)
(* taken for a correction and supersedes what is there.                    *)

Revised(recs, f) ==
    [i \in DOMAIN recs |-> IF Key[recs[i].fill] = Key[f]
                           THEN [recs[i] EXCEPT !.superseded = TRUE] ELSE recs[i]]

AddFill_overCurrent(recs, f) ==
    IF \E i \in DOMAIN recs : recs[i].fill = f /\ ~recs[i].superseded THEN recs
    ELSE Append(Revised(recs, f), [fill |-> f, superseded |-> FALSE])
AddFill(recs, f) ==
    IF \E i \in DOMAIN recs : recs[i].fill = f THEN recs
    ELSE Append(Revised(recs, f), [fill |-> f, superseded |-> FALSE])

\* The rows are taken one by one and committed together.  A row that SQLite
\* refuses raises in the middle: those before it stay in the open transaction.
add_fills(r, batch) ==
    LET refused == SelectInSeq(batch, LAMBDA f : f \in Unstorable)
    IN  IF refused = 0
        THEN /\ records' = FoldLeft(AddFill, records, batch)
             /\ durable' = records'
             /\ request' = [request EXCEPT ![r] = [Free EXCEPT !.op = "import", !.batch = batch]]
        ELSE /\ records' = FoldLeft(AddFill, records, SubSeq(batch, 1, refused - 1))
             /\ UNCHANGED <<durable, request>>

commit_import(r) ==
    /\ request[r].op = "idle" /\ imports < MaxImports
    /\ imports' = imports + 1
    /\ \E batch \in Batches : add_fills(r, batch)
    /\ UNCHANGED trades

\* Any other write of the store commits what the connection holds.
OtherWrite ==
    /\ durable # records
    /\ durable' = records
    /\ UNCHANGED <<records, trades, request, imports>>

-----------------------------------------------------------------------------
(* The tenant's trades.                                                    *)

\* A row without an id of its own is named by what it says and by how many of the
\* same the batch held before it.
Generated(batch) ==
    [i \in DOMAIN batch |->
        [id |-> <<batch[i], Cardinality({j \in 1 .. i : batch[j] = batch[i]})>>,
         day |-> Day[batch[i]]]]

Upsert(trs, row) ==
    LET i == SelectInSeq(trs, LAMBDA tr : tr.id = row.id)
    IN  IF i = 0 THEN Append(trs, row) ELSE ReplaceAt(trs, i, row)

insert_trades(rows) == trades' = FoldLeft(Upsert, trades, rows)

Ids == {trades[i].id : i \in DOMAIN trades}
IdsIn(trs, days) == {trs[i].id : i \in {j \in DOMAIN trs : trs[j].day \in days}}

\* The readings, while the trades change.
Overtaken ==
    [r \in Request |-> [request[r] EXCEPT !.left = @ \cup
                           (IdsIn(trades, request[r].days) \ IdsIn(trades', request[r].days))]]

\* The second half of the import; whatever it raises is swallowed.
import_trades(r) ==
    /\ request[r].op = "import"
    /\ insert_trades(Generated(request[r].batch)) \/ UNCHANGED trades
    /\ request' = [Overtaken EXCEPT ![r] = Free]
    /\ UNCHANGED <<records, durable, imports>>

\* A broker's or a client's row under its own id, which may say another day than before.
Correct(r) ==
    /\ request[r].op = "idle" /\ imports < MaxImports
    /\ imports' = imports + 1
    /\ \E e \in Explicit, day \in Days :
        insert_trades(<<[id |-> <<e, 0>>, day |-> day]>>)
    /\ request' = Overtaken
    /\ UNCHANGED <<records, durable>>

-----------------------------------------------------------------------------
(* The journal, or some days of it, is read page by page, the store's lock *)
(* released in between; a trade that comes a second time gives the reading *)
(* up.                                                                     *)

\* list_trades: the latest day first, then the latest inserted.
ListedBefore(i, j) ==
    \/ trades[i].day > trades[j].day
    \/ trades[i].day = trades[j].day /\ i > j
Matching(days) == {i \in DOMAIN trades : trades[i].day \in days}
ListedAt(i, days) == Cardinality({j \in Matching(days) : ListedBefore(j, i)}) + 1
Listed(days) ==
    [k \in 1 .. Cardinality(Matching(days)) |->
        trades[CHOOSE i \in Matching(days) : ListedAt(i, days) = k].id]

Fills(r) ==
    /\ request[r].op = "idle"
    /\ \E days \in Windows :
        request' = [request EXCEPT ![r] =
            [Free EXCEPT !.op = "read", !.days = days, !.known = IdsIn(trades, days)]]
    /\ UNCHANGED <<records, durable, trades, imports>>

Repeated_never(r, page) == FALSE
Repeated(r, page) == ToSet(page) \cap ToSet(request[r].rows) # {}

ReadPage(r) ==
    LET rows   == request[r].rows
        listed == Listed(request[r].days)
        last   == IF Len(rows) + PageSize < Len(listed) THEN Len(rows) + PageSize
                  ELSE Len(listed)
        page   == SubSeq(listed, Len(rows) + 1, last)
        on     == IF Len(page) < PageSize THEN "whole" ELSE "read"
    IN  /\ request[r].op = "read"
        /\ request' = [request EXCEPT ![r] =
             IF Repeated(r, page) THEN Free  \* journal_changed_during_read
             ELSE [request[r] EXCEPT !.rows = rows \o page, !.op = on]]
        /\ UNCHANGED <<records, durable, trades, imports>>

Answer(r) ==
    /\ request[r].op = "whole"
    /\ request' = [request EXCEPT ![r] = Free]
    /\ UNCHANGED <<records, durable, trades, imports>>

\* The process is killed and started again.
Killed ==
    /\ records' = durable
    /\ request' = [r \in Request |-> Free]
    /\ UNCHANGED <<durable, trades, imports>>

ImportNext ==
    \/ OtherWrite \/ Killed
    \/ \E r \in Request : commit_import(r) \/ import_trades(r) \/ Correct(r)
                            \/ Fills(r) \/ ReadPage(r) \/ Answer(r)

ImportSpec == ImportInit /\ [][ImportNext]_importVars

-----------------------------------------------------------------------------
\* Shape of the state: the rows being read are trades, an import carries a batch
\* that SQLite took.
ImportTypeOK ==
    /\ \A recs \in {records, durable} : recs \in Seq([fill : Fill \ Unstorable, superseded : BOOLEAN])
    /\ IsInjective([i \in DOMAIN trades |-> trades[i].id])
    /\ \A r \in Request :
        /\ request[r].op \in {"idle", "import", "read", "whole"}
        /\ ToSet(request[r].rows) \subseteq Ids
        /\ request[r].op = "import" => request[r].batch \in Batches
    /\ imports \in 0 .. MaxImports

\* Whatever was imported again, corrected, corrected back, refused half-way or cut
\* short by a kill: an execution is recorded once, and of each portfolio, day,
\* symbol and side the newest record, and no other, counts (add_fills).
RecordedOnce ==
    \A recs \in {records, durable} : \A i \in DOMAIN recs :
        LET after == {j \in DOMAIN recs : j > i}
        IN  /\ \A j \in after : recs[j].fill # recs[i].fill
            /\ recs[i].superseded <=> \E j \in after : Key[recs[j].fill] = Key[recs[i].fill]

\* A reading that ends well has each trade once; it lacks no more of those there were
\* when it began than were moved off its days in the meantime, whatever else was inserted
\* and moved between its pages.  A reading of all days lacks none (_fills).
ReadIsWhole ==
    \A r \in Request : request[r].op = "whole" =>
        /\ IsInjective(request[r].rows)
        /\ Cardinality(request[r].known \ ToSet(request[r].rows)) <= Cardinality(request[r].left)
        /\ request[r].days = Days => request[r].known \subseteq ToSet(request[r].rows)

\* The two journals hold each execution once, and a reading shows them whole, but
\* for what it was overtaken by.
JournalIsExact == RecordedOnce /\ ReadIsWhole
=============================================================================
