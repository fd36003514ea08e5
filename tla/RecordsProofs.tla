--------------------------- MODULE RecordsProofs ----------------------------
(***************************************************************************)
(* Theorems about the tenant store (TenantStore.tla), for any tenants,     *)
(* identifiers, imports and number of servers; about the requests of the   *)
(* trader product that write to it more than once (TraderService.tla), for *)
(* any number of callers and requests; about the evidence packs            *)
(* (EvidencePack.tla), for any runs, builds, processes, kills and edits;   *)
(* about the offline loop (AgentLoop.tla), for any commands, prices,       *)
(* processes, kills and steps by hand; about uploads (Intake.tla), for any *)
(* documents, engines and kills; about what leaves the machine and about   *)
(* guided reviews (Redaction.tla, ReviewPackage.tla), for any analyses,    *)
(* packages, clients and kills; and about these and the fill ledger        *)
(* together (Records.tla).                                                 *)
(***************************************************************************)
EXTENDS Records, FillLedgerProofs

TransactionType ==
    [phase : {"idle", "update", "insert", "names", "named"},
     tenant : Tenant \cup {"none"}, table : TableName \cup {"audit_log", "none"},
     batch : Seq(Id), n : 0 .. MaxWrites, staged : [Id -> Stored],
     matched : SUBSET Id, force : BOOLEAN]

StoreType ==
    /\ stored \in [Tenant -> [TableName -> [Id -> Stored]]]
    /\ engine \in {"sqlite", "postgres"} /\ writes \in 0 .. MaxWrites
    /\ conn \in [Server -> TransactionType]

\* No other transaction than the one of s has written the row that c would write.
Free(s, c, id) ==
    \A other \in Server \ {s} :
        conn[other].phase # "idle" /\ conn[other].tenant = c.tenant /\ conn[other].table = c.table
        => conn[other].staged[id] = Absent

\* What a transaction stages is what its write makes of the committed row.
Staged(c, id) ==
    LET row == stored[c.tenant][c.table][id]
    IN  IF c.phase \in {"names", "named"} THEN row # Absent /\ c.staged[id] = Named(row)
        ELSE c.staged[id] = Written(row, c.n)

\* A write of the table of users is of the tenant's own row; any other is of a tenant
\* that has one.
Admitted(c) ==
    IF c.table = "users"
    THEN IF c.batch = << >> THEN \A id \in Id : c.staged[id] # Absent <=> id = Self
                            ELSE c.batch = <<Self>> /\ c.staged = NothingStaged
    ELSE Known(c.tenant)

Sound(s, c) ==
    /\ c.tenant \in Tenant /\ c.table # "none" /\ c.n \in 1 .. MaxWrites
    /\ c.phase \in {"names", "named"} => c.table = "trades"
    /\ c.phase = "insert" => c.batch # << >>
    /\ c.phase \in {"update", "insert"} => Admitted(c)
    /\ c.table = "audit_log" => c.batch = << >>
    /\ \A id \in Id : c.staged[id] # Absent => c.table \in TableName /\ Staged(c, id) /\ Free(s, c, id)

TenantInv ==
    /\ StoreType
    /\ \A s \in Server : conn[s].phase # "idle" => Sound(s, conn[s])

-----------------------------------------------------------------------------
(* Rows.                                                                   *)

Rows_ == [by : Nat, created : Nat, named : BOOLEAN]

LEMMA Constants ==
    /\ Absent \notin Rows_ /\ Imports \subseteq Seq(Id) /\ MaxWrites \in Nat
    /\ Self \in Id /\ Stored = {Absent} \cup Rows_ /\ Rows_ \subseteq Stored
  BY TenantAssumption DEF Self, Stored, Rows_

\* A write leaves a row, and writing it again by the same write changes nothing.
LEMMA WrittenRow ==
    ASSUME NEW row \in Stored, NEW n \in 0 .. MaxWrites
    PROVE  /\ Written(row, n) \in Rows_ /\ Written(row, n) # Absent
           /\ Written(Written(row, n), n) = Written(row, n)
<1>1. Written(row, n) \in Rows_
  BY Constants DEF Written, Rows_
<1>2. Written(row, n) # Absent
  BY <1>1, Constants
<1>3. Written(Written(row, n), n) = Written(row, n)
  <2>1. CASE row = Absent
    BY <1>2, <2>1 DEF Written
  <2>2. CASE row # Absent
    <3>1. row \in Rows_
      BY <2>2, Constants
    <3>2. QED
      BY <1>2, <2>2, <3>1 DEF Written, Rows_
  <2>3. QED
    BY <2>1, <2>2
<1>4. QED
  BY <1>1, <1>2, <1>3

LEMMA NamedRow ==
    ASSUME NEW row \in Stored, row # Absent
    PROVE  Named(row) \in Rows_ /\ Named(row) # Absent
<1>1. row \in Rows_
  BY Constants
<1>2. Named(row) \in Rows_
  BY <1>1 DEF Named, Rows_
<1>3. QED
  BY <1>2, Constants

-----------------------------------------------------------------------------
(* The invariant.                                                          *)

LEMMA InitHolds == TenantInit => TenantInv
<1> SUFFICES ASSUME TenantInit PROVE TenantInv
  OBVIOUS
<1>1. PICK users \in SUBSET Tenant :
        stored = [u \in Tenant |-> [t \in TableName |-> [id \in Id |->
                    IF u \in users /\ id = Self THEN Written(Absent, 0) ELSE Absent]]]
  BY DEF TenantInit, StoreInit
<1>2. Written(Absent, 0) \in Stored /\ Absent \in Stored
  BY Constants, WrittenRow
<1>3. stored \in [Tenant -> [TableName -> [Id -> Stored]]]
  BY <1>1, <1>2
<1>4. NoTransaction \in TransactionType
  BY Constants, <1>2 DEF NoTransaction, TransactionType, NothingStaged
<1>5. QED
  BY <1>3, <1>4, Constants DEF TenantInit, TenantInv, StoreType, NoTransaction

\* A transaction that goes on leaves the others as they are.
LEMMA OneMoves ==
    ASSUME TenantInv, NEW s \in Server, NEW c \in TransactionType,
           conn' = [conn EXCEPT ![s] = c], stored' = stored, engine' = engine,
           writes' \in 0 .. MaxWrites, c.phase # "idle" => Sound(s, c)
    PROVE  TenantInv'
<1>1. StoreType'
  BY DEF TenantInv, StoreType
<1>2. ASSUME NEW o \in Server, (conn[o].phase # "idle")'
      PROVE  Sound(o, conn[o])'
  <2>1. CASE o = s
    <3>1. conn'[s] = c /\ \A other \in Server \ {s} : conn'[other] = conn[other]
      BY DEF TenantInv, StoreType
    <3>2. \A id \in Id : Free(s, c, id) => Free(s, c, id)'
      BY <3>1 DEF Free
    <3>3. \A id \in Id : Staged(c, id) => Staged(c, id)'
      BY DEF Staged
    <3>4. Admitted(c) => Admitted(c)'
      BY DEF Admitted, Known
    <3>5. Sound(s, c)
      BY <1>2, <2>1, <3>1
    <3>6. Sound(s, c)'
      BY <3>2, <3>3, <3>4, <3>5 DEF Sound
    <3>7. QED
      BY <2>1, <3>1, <3>6
  <2>2. CASE o # s
    <3>0. PICK d \in TransactionType : d = conn[o]
      BY DEF TenantInv, StoreType
    <3>1. conn'[o] = d /\ conn'[s] = c /\ Sound(o, d) /\ d.phase # "idle"
      BY <1>2, <2>2, <3>0 DEF TenantInv, StoreType
    <3>2. \A id \in Id : Staged(d, id) => Staged(d, id)'
      BY DEF Staged
    <3>3. Admitted(d) => Admitted(d)'
      BY DEF Admitted, Known
    <3>4. ASSUME NEW id \in Id, d.staged[id] # Absent PROVE Free(o, d, id)'
      <4>1. Free(o, d, id)
        BY <3>1, <3>4 DEF Sound
      <4>2. ASSUME c.phase # "idle", c.tenant = d.tenant, c.table = d.table
            PROVE  c.staged[id] = Absent
        <5>1. c.staged[id] # Absent => Free(s, c, id)
          BY <4>2, Zenon DEF Sound
        <5>2. ~Free(s, c, id)
          BY <2>2, <3>0, <3>1, <3>4, <4>2 DEF Free
        <5>3. QED
          BY <5>1, <5>2
      <4>3. \A other \in Server \ {o} : other # s => conn'[other] = conn[other]
        BY DEF TenantInv, StoreType
      <4>4. QED
        BY <2>2, <3>0, <3>1, <4>1, <4>2, <4>3 DEF Free
    <3>5. Sound(o, d)'
      BY <3>1, <3>2, <3>3, <3>4 DEF Sound
    <3>6. QED
      BY <3>1, <3>5
  <2>3. QED
    BY <2>1, <2>2
<1>3. QED
  BY <1>1, <1>2 DEF TenantInv

\* A transaction that begins has staged nothing.
LEMMA OneBegins ==
    ASSUME TenantInv, NEW s \in Server, NEW phase \in {"update", "names"}, NEW u \in Tenant,
           NEW t \in TableName \cup {"audit_log"}, NEW batch \in Seq(Id),
           NEW matched \in SUBSET Id, NEW force \in BOOLEAN, Begins(s),
           conn' = [conn EXCEPT ![s] = Beginning(phase, u, t, batch, matched, force)],
           t = "users" => batch = <<Self>>, t # "users" /\ phase = "update" => Known(u),
           t = "audit_log" => batch = << >>, phase = "names" => t = "trades"
    PROVE  TenantInv'
<1> DEFINE c == Beginning(phase, u, t, batch, matched, force)
<1>1. writes + 1 \in 1 .. MaxWrites /\ writes' \in 0 .. MaxWrites
  BY Constants DEF Begins, TenantInv, StoreType
<1>2. NothingStaged \in [Id -> Stored] /\ \A id \in Id : NothingStaged[id] = Absent
  BY Constants DEF NothingStaged
<1>3. c \in TransactionType
  BY <1>1, <1>2 DEF Beginning, TransactionType
<1>4. Sound(s, c)
  <2>1. << >> # <<Self>>
    BY Constants
  <2>2. phase = "update" => Admitted(c)
    BY <2>1 DEF Admitted, Beginning
  <2>3. QED
    BY <1>1, <1>2, <2>2 DEF Sound, Beginning, TableName
<1> HIDE DEF c
<1>5. conn' = [conn EXCEPT ![s] = c] /\ stored' = stored /\ engine' = engine
  BY DEF Begins, c
<1>6. QED
  BY <1>1, <1>3, <1>4, <1>5, OneMoves

LEMMA Tables == {"users", "accounts", "trades", "backtest_runs", "market_bars",
                 "tenant_documents"} = TableName
  BY DEF TableName

\* Each request of a tenant.
LEMMA RequestsKeep ==
    ASSUME TenantInv, NEW s \in Server, NEW u \in Tenant,
           \/ create_user(s, u) \/ insert_trades_(s, u) \/ save_bars(s, u) \/ upsert_account(s, u)
           \/ save_backtest_run(s, u) \/ put_document(s, u) \/ audit(s, u) \/ update_trade_names(s, u)
    PROVE  TenantInv'
<1>1. <<Self>> \in Seq(Id) /\ << >> \in Seq(Id) /\ \A id \in Id : <<id>> \in Seq(Id)
  BY Constants
<1>2. ASSUME NEW t \in TableName \cup {"audit_log"}, NEW batch \in Seq(Id), Transaction(s, u, t, batch),
             t = "users" => batch = <<Self>>, t # "users" => Known(u),
             t = "audit_log" => batch = << >>
      PROVE  TenantInv'
  <2>1. /\ Begins(s)
        /\ conn' = [conn EXCEPT ![s] = Beginning("update", u, t, batch, {}, FALSE)]
    BY <1>2 DEF Transaction
  <2>2. QED
    BY <1>2, <2>1, OneBegins
<1>3. CASE create_user(s, u)
  BY <1>1, <1>2, <1>3, Tables DEF create_user
<1>4. CASE insert_trades_(s, u)
  BY <1>2, <1>4, Tables, Constants DEF insert_trades_
<1>5. CASE save_bars(s, u)
  BY <1>2, <1>5, Tables, Constants DEF save_bars
<1>6. CASE upsert_account(s, u)
  BY <1>1, <1>2, <1>6, Tables DEF upsert_account
<1>7. CASE save_backtest_run(s, u)
  BY <1>1, <1>2, <1>7, Tables DEF save_backtest_run
<1>8. CASE put_document(s, u)
  BY <1>1, <1>2, <1>8, Tables DEF put_document
<1>9. CASE audit(s, u)
  BY <1>1, <1>2, <1>9 DEF audit
<1>10. CASE update_trade_names(s, u)
  <2>1. Begins(s)
    BY <1>10 DEF update_trade_names
  <2>2. PICK force \in BOOLEAN :
          conn' = [conn EXCEPT ![s] = Beginning("names", u, "trades", << >>,
                     {id \in Id : Nameless(stored[u]["trades"][id], force)}, force)]
    BY <1>10 DEF update_trade_names
  <2>3. {id \in Id : Nameless(stored[u]["trades"][id], force)} \in SUBSET Id
    OBVIOUS
  <2>4. QED
    BY <1>1, <2>1, <2>2, <2>3, Tables, OneBegins
<1>11. QED
  BY <1>3, <1>4, <1>5, <1>6, <1>7, <1>8, <1>9, <1>10

\* A row that is written is free, and it is written as the committed row demands even
\* when the batch holds it twice.
LEMMA StageKeeps ==
    ASSUME TenantInv, NEW s \in Server, conn[s].phase \in {"update", "insert"},
           conn[s].batch # << >>, Stage(s, Head(conn[s].batch)),
           UNCHANGED <<stored, audit_log, engine, writes>>
    PROVE  TenantInv'
<1>0. PICK d \in TransactionType : d = conn[s]
  BY DEF TenantInv, StoreType
<1>1. Sound(s, d) /\ d.table \in TableName /\ d.n \in 0 .. MaxWrites
  BY <1>0 DEF TenantInv, Sound, TransactionType
<1>2. Head(d.batch) \in Id /\ Tail(d.batch) \in Seq(Id)
  BY <1>0 DEF TransactionType
<1>3. PICK id \in Id : id = Head(d.batch)
  BY <1>2
<1>4. PICK row \in Stored : row = stored[d.tenant][d.table][id]
  BY <1>1 DEF TenantInv, StoreType, Sound
<1>5. Written(row, d.n) \in Stored /\ Written(row, d.n) # Absent
  BY <1>1, <1>4, WrittenRow, Constants
<1>6. Written(Seen(s, id), d.n) = Written(row, d.n)
  <2>1. CASE d.staged[id] = Absent
    BY <1>0, <1>4, <2>1 DEF Seen, Committed
  <2>2. CASE d.staged[id] # Absent
    <3>1. d.staged[id] = Written(row, d.n)
      BY <1>0, <1>1, <1>4, <2>2 DEF Sound, Staged
    <3>2. Seen(s, id) = Written(row, d.n)
      BY <1>0, <2>2, <3>1 DEF Seen
    <3>3. QED
      BY <1>1, <1>4, <3>2, WrittenRow
  <2>3. QED
    BY <2>1, <2>2
<1>7. PICK staged \in [Id -> Stored] : staged = [d.staged EXCEPT ![id] = Written(row, d.n)]
  BY <1>5 DEF TransactionType
<1>8. PICK c \in TransactionType :
        c = [phase |-> "update", tenant |-> d.tenant, table |-> d.table, batch |-> Tail(d.batch),
             n |-> d.n, staged |-> staged, matched |-> d.matched, force |-> d.force]
  BY <1>2 DEF TransactionType
<1>9. conn' = [conn EXCEPT ![s] = c]
  BY <1>0, <1>3, <1>6, <1>7, <1>8 DEF Stage, Advanced
<1>10. Sound(s, c)
  <2>1. d.phase \in {"update", "insert"} /\ d.batch # << >> /\ Admitted(d)
    BY <1>0, <1>1 DEF Sound
  <2>2. Admitted(c)
    <3>1. CASE d.table = "users"
      <4>1. d.batch = <<Self>> /\ d.staged = NothingStaged
        BY <2>1, <3>1 DEF Admitted
      <4>2. id = Self /\ Tail(d.batch) = << >>
        BY <1>3, <4>1, Constants
      <4>3. \A i \in Id : staged[i] # Absent <=> i = Self
        BY <1>5, <1>7, <4>1, <4>2 DEF NothingStaged
      <4>4. QED
        BY <1>8, <3>1, <4>2, <4>3 DEF Admitted
    <3>2. CASE d.table # "users"
      BY <1>8, <2>1, <3>2 DEF Admitted
    <3>3. QED
      BY <3>1, <3>2
  <2>3. ASSUME NEW i \in Id, staged[i] # Absent
        PROVE  Staged(c, i) /\ Free(s, c, i)
    <3>1. CASE i = id
      <4>1. Staged(c, i)
        BY <1>4, <1>7, <1>8, <3>1 DEF Staged, TransactionType
      <4>2. Unlocked(s, id)
        BY <1>0, <1>3 DEF Stage
      <4>3. QED
        BY <1>0, <1>8, <3>1, <4>1, <4>2 DEF Free, Unlocked
    <3>2. CASE i # id
      <4>1. d.staged[i] # Absent /\ staged[i] = d.staged[i]
        BY <1>7, <2>3, <3>2 DEF TransactionType
      <4>2. Staged(d, i) /\ Free(s, d, i)
        BY <1>1, <4>1 DEF Sound
      <4>3. QED
        BY <1>8, <2>1, <4>1, <4>2 DEF Staged, Free
    <3>3. QED
      BY <3>1, <3>2
  <2>4. c.phase = "update" /\ c.staged = staged /\ c.table = d.table /\ c.tenant = d.tenant
        /\ c.n = d.n /\ c.batch = Tail(d.batch)
    BY <1>8
  <2>5. c.table # "audit_log" /\ c.table # "none"
    BY <1>1, <2>4 DEF TableName
  <2>6. QED
    BY <1>1, <2>2, <2>3, <2>4, <2>5 DEF Sound
<1>11. writes' \in 0 .. MaxWrites
  BY DEF TenantInv, StoreType
<1>12. QED
  BY <1>9, <1>10, <1>11, OneMoves

LEMMA RowsKeep ==
    ASSUME TenantInv, NEW s \in Server, UpsertRow(s) \/ UpdateRow(s) \/ InsertRow(s) \/ NameRows(s)
    PROVE  TenantInv'
<1>0. PICK d \in TransactionType : d = conn[s]
  BY DEF TenantInv, StoreType
<1>1. writes' \in 0 .. MaxWrites /\ stored' = stored /\ engine' = engine
      /\ (d.phase # "idle" => Sound(s, d))
  BY <1>0 DEF TenantInv, StoreType, UpsertRow, UpdateRow, InsertRow, NameRows
<1>2. CASE UpsertRow(s)
  BY <1>2, StageKeeps DEF UpsertRow
<1>3. CASE UpdateRow(s)
  <2>1. CASE Seen(s, Head(conn[s].batch)) # Absent
    BY <1>3, <2>1, StageKeeps DEF UpdateRow
  <2>2. CASE Seen(s, Head(conn[s].batch)) = Absent
    <3>1. PICK c \in TransactionType :
            c = [phase |-> "insert", tenant |-> d.tenant, table |-> d.table, batch |-> d.batch,
                 n |-> d.n, staged |-> d.staged, matched |-> d.matched, force |-> d.force]
      BY DEF TransactionType
    <3>2. conn' = [conn EXCEPT ![s] = c]
      BY <1>0, <1>3, <2>2, <3>1 DEF UpdateRow, Advanced
    <3>3. d.phase = "update" /\ d.batch # << >> /\ Sound(s, d)
      BY <1>0, <1>1, <1>3 DEF UpdateRow
    <3>4. Sound(s, c)
      <4>1. Admitted(d) => Admitted(c)
        BY <3>1 DEF Admitted
      <4>2. \A id \in Id : Staged(d, id) /\ Free(s, d, id) => Staged(c, id) /\ Free(s, c, id)
        BY <3>1, <3>3 DEF Staged, Free
      <4>3. QED
        BY <3>1, <3>3, <4>1, <4>2 DEF Sound
    <3>5. QED
      BY <1>1, <3>2, <3>4, OneMoves
  <2>3. QED
    BY <2>1, <2>2
<1>4. CASE InsertRow(s)
  <2>1. conn[s].batch # << >>
    BY <1>0, <1>1, <1>4 DEF Sound, InsertRow
  <2>2. QED
    BY <1>4, <2>1, StageKeeps DEF InsertRow
<1>5. CASE NameRows(s)
  <2>1. d.phase = "names" /\ Sound(s, d) /\ d.table = "trades" /\ d.tenant \in Tenant
    BY <1>0, <1>1, <1>5 DEF NameRows, Sound
  <2>2. PICK committed \in [Id -> Stored] : committed = stored[d.tenant]["trades"]
    BY <2>1, Tables DEF TenantInv, StoreType
  <2>3. PICK staged : staged = [id \in Id |->
            IF id \in d.matched /\ Nameless(committed[id], d.force) THEN Named(committed[id]) ELSE Absent]
    OBVIOUS
  <2>4. \A id \in Id : Nameless(committed[id], d.force) => Named(committed[id]) \in Stored /\ committed[id] # Absent
    BY <2>2, NamedRow, Constants DEF Nameless
  <2>5. staged \in [Id -> Stored]
    BY <2>3, <2>4, Constants
  <2>6. PICK c \in TransactionType :
          c = [phase |-> "named", tenant |-> d.tenant, table |-> d.table, batch |-> << >>,
               n |-> d.n, staged |-> staged, matched |-> d.matched, force |-> d.force]
    <3>1. << >> \in Seq(Id)
      OBVIOUS
    <3>2. QED
      BY <2>5, <3>1 DEF TransactionType
  <2>7. conn' = [conn EXCEPT ![s] = c]
    BY <1>0, <1>5, <2>1, <2>2, <2>3, <2>6 DEF NameRows, Advanced, Committed
  <2>8. ASSUME NEW id \in Id, staged[id] # Absent PROVE Staged(c, id) /\ Free(s, c, id)
    <3>1. id \in d.matched /\ Nameless(committed[id], d.force) /\ staged[id] = Named(committed[id])
      BY <2>3, <2>8
    <3>2. Staged(c, id)
      BY <2>1, <2>2, <2>4, <2>6, <3>1 DEF Staged
    <3>3. Unlocked(s, id)
      BY <1>0, <1>5, <3>1 DEF NameRows
    <3>4. QED
      BY <1>0, <2>6, <3>2, <3>3 DEF Free, Unlocked
  <2>9. Sound(s, c)
    BY <2>1, <2>6, <2>8 DEF Sound, TableName
  <2>10. QED
    BY <1>1, <2>7, <2>9, OneMoves
<1>6. QED
  BY <1>2, <1>3, <1>4, <1>5

\* A transaction that fails leaves nothing.
LEMMA RollbackKeeps ==
    ASSUME TenantInv, NEW s \in Server, Rollback(s)
    PROVE  TenantInv'
<1>1. NoTransaction \in TransactionType /\ NoTransaction.phase = "idle"
  BY Constants DEF NoTransaction, TransactionType, NothingStaged
<1>2. conn' = [conn EXCEPT ![s] = NoTransaction] /\ stored' = stored /\ engine' = engine
      /\ writes' \in 0 .. MaxWrites
  BY DEF Rollback, TenantInv, StoreType
<1>3. QED
  BY <1>1, <1>2, OneMoves

-----------------------------------------------------------------------------
(* What a commit does.                                                     *)

LEMMA CommittedRows ==
    ASSUME TenantInv, NEW s \in Server, Commit(s), NEW v \in Tenant, NEW t \in TableName, NEW id \in Id
    PROVE  stored'[v][t][id] =
             IF v = conn[s].tenant /\ t = conn[s].table /\ conn[s].staged[id] # Absent
             THEN conn[s].staged[id] ELSE stored[v][t][id]
  BY DEF Commit, CommitRows, TenantInv, StoreType

LEMMA CommitKeeps ==
    ASSUME TenantInv, NEW s \in Server, Commit(s)
    PROVE  TenantInv'
<1>0. PICK d \in TransactionType : d = conn[s]
  BY DEF TenantInv, StoreType
<1>1. Sound(s, d) /\ d.phase \in {"update", "named"} /\ d.batch = << >>
  BY <1>0 DEF TenantInv, Commit
<1>2. NoTransaction \in TransactionType /\ NoTransaction.phase = "idle"
  BY Constants DEF NoTransaction, TransactionType, NothingStaged
<1>3. stored' \in [Tenant -> [TableName -> [Id -> Stored]]]
  <2>1. stored' = [stored EXCEPT ![d.tenant] = [t \in TableName |-> [id \in Id |->
            IF t = d.table /\ d.staged[id] # Absent THEN d.staged[id] ELSE stored[d.tenant][t][id]]]]
    BY <1>0, <1>1 DEF Commit, CommitRows, TenantInv, StoreType, Sound
  <2>2. [t \in TableName |-> [id \in Id |->
            IF t = d.table /\ d.staged[id] # Absent THEN d.staged[id] ELSE stored[d.tenant][t][id]]]
          \in [TableName -> [Id -> Stored]]
    BY <1>1 DEF TenantInv, StoreType, TransactionType, Sound
  <2>3. QED
    BY <2>1, <2>2 DEF TenantInv, StoreType
<1>4. StoreType'
  BY <1>2, <1>3 DEF TenantInv, StoreType, Commit
<1>5. \A v \in Tenant : Known(v) => Known(v)'
  BY CommittedRows, Constants, Tables DEF Known
<1>6. ASSUME NEW o \in Server, (conn[o].phase # "idle")'
      PROVE  Sound(o, conn[o])'
  <2>0. PICK c \in TransactionType : c = conn[o]
    BY DEF TenantInv, StoreType
  <2>1. o # s /\ conn'[o] = c /\ Sound(o, c) /\ c.phase # "idle"
    BY <1>2, <1>6, <2>0 DEF TenantInv, StoreType, Commit
  <2>2. ASSUME NEW id \in Id, c.staged[id] # Absent
        PROVE  Staged(c, id)' /\ Free(o, c, id)'
    <3>1. c.table \in TableName /\ Staged(c, id) /\ Free(o, c, id) /\ c.tenant \in Tenant
      BY <2>1, <2>2 DEF Sound
    <3>2. ~(c.tenant = d.tenant /\ c.table = d.table /\ d.staged[id] # Absent)
      BY <1>0, <1>1, <2>1, <3>1 DEF Free
    <3>3. stored'[c.tenant][c.table][id] = stored[c.tenant][c.table][id]
      BY <1>0, <3>1, <3>2, CommittedRows
    <3>4. Staged(c, id)'
      BY <3>1, <3>3 DEF Staged
    <3>5. /\ \A other \in Server \ {s} : conn'[other] = conn[other]
          /\ conn'[s].phase = "idle"
      BY <1>2 DEF Commit, TenantInv, StoreType
    <3>6. QED
      BY <3>1, <3>4, <3>5 DEF Free
  <2>3. Admitted(c) => Admitted(c)'
    BY <1>5, <2>1 DEF Admitted, Sound
  <2>4. Sound(o, c)'
    BY <2>1, <2>2, <2>3 DEF Sound
  <2>5. QED
    BY <2>1, <2>4
<1>7. QED
  BY <1>4, <1>6 DEF TenantInv

\* A commit is one write of the abstract store.
LEMMA CommitIsAtomic ==
    ASSUME TenantInv, NEW s \in Server, Commit(s)
    PROVE  AtomicNext
<1>0. PICK d \in TransactionType : d = conn[s]
  BY DEF TenantInv, StoreType
<1>1. Sound(s, d) /\ d.phase \in {"update", "named"} /\ d.batch = << >> /\ d.tenant \in Tenant
      /\ d.table \in TableName \cup {"audit_log"} /\ d.n \in 1 .. MaxWrites
  BY <1>0 DEF TenantInv, Commit, Sound, TransactionType
<1>2. PICK ids \in SUBSET Id : ids = {id \in Id : d.staged[id] # Absent}
  OBVIOUS
<1>3. stored' = [stored EXCEPT ![d.tenant] = [t \in TableName |-> [id \in Id |->
            IF t = d.table /\ d.staged[id] # Absent THEN d.staged[id] ELSE stored[d.tenant][t][id]]]]
  BY <1>0, <1>1 DEF Commit, CommitRows, TenantInv, StoreType
<1>4. CASE d.phase = "update"
  <2>1. IF d.table = "users" THEN ids = {Self} ELSE Known(d.tenant)
    <3>1. Admitted(d)
      BY <1>1, <1>4 DEF Sound
    <3>2. QED
      BY <1>1, <1>2, <3>1, Constants DEF Admitted
  <2>2. \A t \in TableName, id \in Id :
          (IF t = d.table /\ d.staged[id] # Absent THEN d.staged[id] ELSE stored[d.tenant][t][id])
          = (IF t = d.table /\ id \in ids THEN Written(stored[d.tenant][t][id], d.n)
             ELSE stored[d.tenant][t][id])
    BY <1>1, <1>2, <1>4 DEF Sound, Staged
  <2>3. stored' = [stored EXCEPT ![d.tenant] = [t \in TableName |-> [id \in Id |->
            IF t = d.table /\ id \in ids THEN Written(stored[d.tenant][t][id], d.n)
            ELSE stored[d.tenant][t][id]]]]
    BY <1>3, <2>2
  <2>4. audit_log' = IF d.table \in Audited THEN audit_log \cup {Entry(d.tenant, d.table, d.n, ids)}
                     ELSE audit_log
    BY <1>0, <1>2, <1>4 DEF Commit, WriteAudit
  <2>5. AtomicWrite(d.tenant, d.table, ids, d.n)
    BY <1>1, <2>1, <2>3, <2>4 DEF AtomicWrite, TenantInv, StoreType
  <2>6. QED
    BY <1>1, <2>5 DEF AtomicNext
<1>5. CASE d.phase = "named"
  <2>1. d.table = "trades"
    BY <1>1, <1>5 DEF Sound
  <2>2. \A id \in Id : id \in ids => /\ stored[d.tenant]["trades"][id] # Absent
                                    /\ d.staged[id] = Named(stored[d.tenant]["trades"][id])
    BY <1>1, <1>2, <1>5, <2>1 DEF Sound, Staged
  <2>3. stored' = [stored EXCEPT ![d.tenant]["trades"] = [id \in Id |->
            IF id \in ids THEN Named(stored[d.tenant]["trades"][id])
            ELSE stored[d.tenant]["trades"][id]]]
    <3>1. PICK names : names = [id \in Id |->
            IF id \in ids THEN Named(stored[d.tenant]["trades"][id])
            ELSE stored[d.tenant]["trades"][id]]
      OBVIOUS
    <3>2. \A t \in TableName : [stored[d.tenant] EXCEPT !["trades"] = names][t]
             = [id \in Id |-> IF t = d.table /\ d.staged[id] # Absent THEN d.staged[id]
                              ELSE stored[d.tenant][t][id]]
      BY <1>1, <1>2, <2>1, <2>2, <3>1 DEF TenantInv, StoreType
    <3>3. [stored[d.tenant] EXCEPT !["trades"] = names]
             = [t \in TableName |-> [id \in Id |->
                  IF t = d.table /\ d.staged[id] # Absent THEN d.staged[id]
                  ELSE stored[d.tenant][t][id]]]
      BY <1>1, <3>2 DEF TenantInv, StoreType
    <3>4. QED
      BY <1>3, <3>1, <3>3
  <2>4. audit_log' = audit_log
    BY <1>0, <1>5 DEF Commit, WriteAudit
  <2>5. AtomicNames(d.tenant, ids)
    BY <1>1, <2>2, <2>3, <2>4 DEF AtomicNames, TenantInv, StoreType
  <2>6. QED
    BY <1>1, <2>5 DEF AtomicNext
<1>6. QED
  BY <1>1, <1>4, <1>5

-----------------------------------------------------------------------------
LEMMA StepKeeps ==
    ASSUME TenantInv, [TenantNext]_tenantVars
    PROVE  TenantInv'
<1>1. ASSUME NEW s \in Server,
             \/ UpsertRow(s) \/ UpdateRow(s) \/ InsertRow(s) \/ NameRows(s) \/ Commit(s) \/ Rollback(s)
      PROVE  TenantInv'
  BY <1>1, RowsKeep, CommitKeeps, RollbackKeeps
<1>2. ASSUME NEW s \in Server, NEW u \in Tenant,
             \/ create_user(s, u) \/ insert_trades_(s, u) \/ save_bars(s, u) \/ upsert_account(s, u)
             \/ save_backtest_run(s, u) \/ put_document(s, u) \/ audit(s, u) \/ update_trade_names(s, u)
      PROVE  TenantInv'
  BY <1>2, RequestsKeep
<1>3. CASE UNCHANGED tenantVars
  BY <1>3 DEF tenantVars, TenantInv, StoreType, Sound, Staged, Free, Admitted, Known
<1>4. QED
  BY <1>1, <1>2, <1>3, Zenon DEF TenantNext

\* Only commits are seen in the store.
LEMMA StepIsAtomic ==
    ASSUME TenantInv, [TenantNext]_tenantVars
    PROVE  [AtomicNext]_storeVars
<1>1. ASSUME NEW s \in Server,
             \/ UpsertRow(s) \/ UpdateRow(s) \/ InsertRow(s) \/ NameRows(s) \/ Commit(s) \/ Rollback(s)
      PROVE  AtomicNext \/ UNCHANGED storeVars
  <2>1. CASE Commit(s)
    BY <2>1, CommitIsAtomic
  <2>2. CASE ~Commit(s)
    BY <1>1, <2>2 DEF UpsertRow, UpdateRow, InsertRow, NameRows, Rollback, storeVars
  <2>3. QED
    BY <2>1, <2>2
<1>2. ASSUME NEW s \in Server, NEW u \in Tenant,
             \/ create_user(s, u) \/ insert_trades_(s, u) \/ save_bars(s, u) \/ upsert_account(s, u)
             \/ save_backtest_run(s, u) \/ put_document(s, u) \/ audit(s, u) \/ update_trade_names(s, u)
      PROVE  UNCHANGED storeVars
  BY <1>2 DEF create_user, insert_trades_, save_bars, upsert_account, save_backtest_run, put_document,
              audit, update_trade_names, Transaction, Begins, storeVars
<1>3. CASE UNCHANGED tenantVars
  BY <1>3 DEF tenantVars, storeVars
<1>4. QED
  BY <1>1, <1>2, <1>3, Zenon DEF TenantNext

\* The inductive invariant: whatever the transactions in progress have staged is what
\* their writes make of the rows that are committed now, and nobody else has written
\* those rows.
THEOREM TenantInvariant == TenantSpec => []TenantInv
<1>1. TenantInit => TenantInv
  BY InitHolds
<1>2. TenantInv /\ [TenantNext]_tenantVars => TenantInv'
  BY StepKeeps
<1>3. QED
  BY <1>1, <1>2, PTL DEF TenantSpec

LEMMA TenantInvType == TenantInv => TenantTypeOK
  BY DEF TenantInv, TenantTypeOK, StoreType, TransactionType, Sound, Free, Unlocked

\* The state of the tenant store keeps its shape, and no two transactions of a tenant
\* have staged the same row of a table, for any tenants, rows, imports and servers.
THEOREM TenantTypeCorrect == TenantSpec => []TenantTypeOK
  BY TenantInvariant, TenantInvType, PTL

\* Both engines of the tenant store (sqlite_store.py, postgres_store.py) implement the
\* contract of base.py: for any tenants, rows, imports and servers, what is committed
\* is one write of one tenant after another, each as a whole and with its audit entry.
THEOREM EnginesAreAtomic == TenantSpec => ImplementsAtomicStore
<1>1. TenantInit => StoreInit
  BY DEF TenantInit
<1>2. TenantInv /\ [TenantNext]_tenantVars => [AtomicNext]_storeVars
  BY StepIsAtomic
<1>3. QED
  BY <1>1, <1>2, TenantInvariant, PTL DEF TenantSpec, ImplementsAtomicStore, AtomicSpec

-----------------------------------------------------------------------------
(* The requests of the trader product (TraderService.tla).                 *)

Steps == {"none", "tenant", "first", "second", "entries", "documents", "answered", "waits", "acts"}

CallRecord == [op : Pair \cup {"idle", "playbooks", "replay"}, step : Steps,
               n : Nat, seen : Nat, floor : Nat]

TraderType ==
    /\ first \in [Pair -> SUBSET Nat] /\ second \in [Pair -> SUBSET Nat] /\ newest \in [Pair -> Nat]
    /\ known \in BOOLEAN /\ calls \in 0 .. MaxCalls /\ replayed \in Nat /\ acknowledged \in Nat
    /\ replay_lock \in Caller \cup {"none"}
    /\ call \in [Caller -> CallRecord]

\* A request that has still to make a first write of this kind.
Pends(r, p) == r.op = p /\ r.step \in {"tenant", "first"}
Pending(p) == {c \in Caller : Pends(call[c], p)}

\* Every first write was somebody's request.
CountInv ==
    \A p \in Pair : IsFiniteSet(Pending(p)) /\ newest[p] + Cardinality(Pending(p)) <= calls

\* What a request has in hand at each of its steps.
InHand(r) ==
    /\ r.op = "idle" <=> r.step = "none"
    /\ r.step \in {"tenant", "first", "second"} => r.op \in Pair
    /\ r.step \in {"first", "second"} /\ r.op # "symbols" => known
    /\ r.step = "second" => r.n \in first[r.op]
    /\ r.step = "documents" => r.floor <= newest["playbook"] /\ (newest["playbook"] = 0 => r.seen = 0)
    /\ r.step = "answered" => r.seen >= r.floor
    /\ r.step = "acts" => r.seen = replayed

\* What is in the store.
WrittenInv ==
    /\ \A p \in Pair : first[p] = 1 .. newest[p] /\ second[p] \ {0} \subseteq first[p]
    /\ known \/ \A p \in Pair \ {"symbols"} : first[p] = {}
    /\ replayed >= acknowledged

TraderInv ==
    /\ TraderType /\ CountInv /\ WrittenInv
    /\ \A c \in Caller : InHand(call[c]) /\ (call[c].step = "acts" <=> replay_lock = c)

LEMMA NoCallType == NoCall \in CallRecord /\ \A p \in Pair : ~Pends(NoCall, p)
  BY DEF NoCall, CallRecord, Steps, Pair, Pends

\* The greatest of some numbers is one of them.
LEMMA GreatestFromZero ==
    ASSUME NEW n \in Nat, NEW S \in SUBSET (0 .. n), S # {}
    PROVE  Max(S) \in S
<1> DEFINE T == {n - x : x \in S}
           R == {ss \in Nat \X Nat : ss[1] < ss[2]}
<1>1. IsWellFoundedOn(R, Nat)
  BY NatLessThanWellFounded DEF OpToRel
<1> HIDE DEF R
<1>2. T \subseteq Nat /\ T # {}
  <2>1. \A x \in S : n - x \in Nat
    OBVIOUS
  <2>2. QED
    BY <2>1
<1>3. PICK t \in T : \A u \in T : ~(<<u, t>> \in R)
  BY <1>1, <1>2, WFMin
<1>4. PICK x \in S : t = n - x
  OBVIOUS
<1>5. ASSUME NEW y \in S PROVE x >= y
  <2>1. n - y \in T /\ n - y \in Nat /\ t \in Nat
    BY <1>2
  <2>2. ~(n - y < t)
    BY <1>3, <2>1 DEF R
  <2>3. QED
    BY <1>4, <2>1, <2>2
<1>6. QED
  BY <1>5, Zenon DEF Max

\* One request moves: how many are pending.
LEMMA CountKept ==
    ASSUME TraderType, CountInv, NEW c \in Caller, NEW r \in CallRecord,
           call' = [call EXCEPT ![c] = r], newest' \in [Pair -> Nat], calls' \in Nat,
           \A p \in Pair : newest'[p] + (IF Pends(r, p) THEN 1 ELSE 0) + calls
                               <= newest[p] + (IF Pends(call[c], p) THEN 1 ELSE 0) + calls'
    PROVE  CountInv'
<1> SUFFICES ASSUME NEW p \in Pair
             PROVE  IsFiniteSet(Pending(p)') /\ newest'[p] + Cardinality(Pending(p)') <= calls'
  BY DEF CountInv
<1> DEFINE before == Pending(p)
<1>1. IsFiniteSet(before) /\ newest[p] + Cardinality(before) <= calls /\ Cardinality(before) \in Nat
  BY FS_CardinalityType DEF CountInv
<1>2. c \in before <=> Pends(call[c], p)
  BY DEF Pending
<1>3. newest[p] \in Nat /\ newest'[p] \in Nat /\ calls \in Nat
  BY DEF TraderType
<1>4. CASE Pends(r, p)
  <2>1. Pending(p)' = before \cup {c}
    BY <1>4 DEF Pending, TraderType, Pends
  <2> HIDE DEF before
  <2>2. IsFiniteSet(before \cup {c})
        /\ Cardinality(before \cup {c}) = IF c \in before THEN Cardinality(before) ELSE Cardinality(before) + 1
    BY <1>1, FS_AddElement
  <2>3. QED
    BY <1>1, <1>2, <1>3, <1>4, <2>1, <2>2
<1>5. CASE ~Pends(r, p)
  <2>1. Pending(p)' = before \ {c}
    BY <1>5 DEF Pending, TraderType, Pends
  <2> HIDE DEF before
  <2>2. IsFiniteSet(before \ {c})
        /\ Cardinality(before \ {c}) = IF c \in before THEN Cardinality(before) - 1 ELSE Cardinality(before)
    BY <1>1, FS_RemoveElement
  <2>3. QED
    BY <1>1, <1>2, <1>3, <1>5, <2>1, <2>2
<1>6. QED
  BY <1>4, <1>5

\* One request moves: what the others have in hand they keep, since nothing is taken
\* out of the store and only who holds the lock writes the session.
LEMMA OthersKeep ==
    ASSUME TraderInv, NEW c \in Caller, NEW r \in CallRecord, call' = [call EXCEPT ![c] = r],
           InHand(r)', TraderType', known => known',
           \A p \in Pair : first[p] \subseteq first'[p] /\ newest[p] <= newest'[p],
           replayed' = replayed \/ call[c].step = "acts",
           \/ replay_lock' = replay_lock /\ (r.step = "acts" <=> call[c].step = "acts")
           \/ replay_lock = "none" /\ replay_lock' = c /\ r.step = "acts"
           \/ replay_lock = c /\ replay_lock' = "none" /\ r.step # "acts"
    PROVE  (\A d \in Caller : InHand(call[d]) /\ (call[d].step = "acts" <=> replay_lock = d))'
<1> SUFFICES ASSUME NEW d \in Caller
             PROVE  InHand(call[d])' /\ (call'[d].step = "acts" <=> replay_lock' = d)
  OBVIOUS
<1>1. /\ call[d] \in CallRecord /\ call'[d] = IF d = c THEN r ELSE call[d]
      /\ InHand(call[d]) /\ (call[d].step = "acts" <=> replay_lock = d)
      /\ (call[c].step = "acts" <=> replay_lock = c)
  BY DEF TraderInv, TraderType
<1>2. call'[d].step = "acts" <=> replay_lock' = d
  BY <1>1, TraderAssumption
<1>3. CASE d = c
  BY <1>1, <1>2, <1>3
<1>4. CASE d # c
  <2>1. call'[d] = call[d] /\ (call[d].step = "acts" => replayed' = replayed)
    BY <1>1, <1>4
  <2>2. "playbook" \in Pair /\ newest["playbook"] \in Nat /\ newest'["playbook"] \in Nat
    BY DEF Pair, TraderInv, TraderType
  <2>3. newest["playbook"] <= newest'["playbook"]
    BY <2>2
  <2>4. InHand(call[d])'
    BY <1>1, <2>1, <2>2, <2>3 DEF InHand, CallRecord
  <2>5. QED
    BY <1>2, <2>4
<1>5. QED
  BY <1>3, <1>4

\* A request of the user's begins.
LEMMA AskedKeeps ==
    ASSUME TraderInv, NEW c \in Caller, NEW op \in Pair \cup {"playbooks", "replay"},
           NEW step \in {"tenant", "first", "entries", "waits"}, Asked(c, op, step),
           step \in {"tenant", "first"} => op \in Pair, step = "first" => op = "symbols",
           UNCHANGED <<first, second, newest, known, replayed, acknowledged, replay_lock>>
    PROVE  TraderInv'
<1> DEFINE r == [NoCall EXCEPT !.op = op, !.step = step]
<1>1. r \in CallRecord /\ r.op = op /\ r.step = step
  BY DEF NoCall, CallRecord, Steps, Pair
<1>2. call' = [call EXCEPT ![c] = r] /\ call[c].op = "idle" /\ calls < MaxCalls /\ calls' = calls + 1
  BY DEF Asked, Moves
<1> HIDE DEF r
<1>3. TraderType'
  BY <1>1, <1>2, TraderAssumption DEF TraderInv, TraderType
<1>4. CountInv'
  <2>1. \A p \in Pair : newest'[p] = newest[p] /\ newest[p] \in Nat
    BY DEF TraderInv, TraderType
  <2>2. calls \in Nat
    BY DEF TraderInv, TraderType
  <2>3. \A p \in Pair : newest'[p] + (IF Pends(r, p) THEN 1 ELSE 0) + calls
                               <= newest[p] + (IF Pends(call[c], p) THEN 1 ELSE 0) + calls'
    BY <1>2, <2>1, <2>2
  <2>4. TraderType /\ CountInv /\ newest' \in [Pair -> Nat] /\ calls' \in Nat
    BY <1>3 DEF TraderInv, TraderType
  <2>5. QED
    BY <1>1, <1>2, <2>3, <2>4, CountKept
<1>5. InHand(r)'
  BY <1>1 DEF InHand, Pair
<1>6. call[c].step = "none" /\ (\A p \in Pair : first[p] \subseteq first'[p] /\ newest[p] <= newest'[p])
  BY <1>2 DEF TraderInv, InHand, TraderType
<1>7. QED
  BY <1>1, <1>2, <1>3, <1>4, <1>5, <1>6, OthersKeep DEF TraderInv, WrittenInv

\* A step of a request that writes nothing, and holds no lock.
LEMMA QuietKeeps ==
    ASSUME TraderInv, NEW c \in Caller, NEW r \in CallRecord, call' = [call EXCEPT ![c] = r],
           InHand(r), r.step # "acts", call[c].step # "acts",
           \A p \in Pair : Pends(r, p) => Pends(call[c], p),
           UNCHANGED <<first, second, newest, known, replayed, acknowledged, replay_lock, calls>>
    PROVE  TraderInv'
<1>1. TraderType' /\ InHand(r)'
  BY DEF TraderInv, TraderType, InHand
<1>2. \A p \in Pair : newest'[p] = newest[p] /\ newest[p] \in Nat /\ calls \in Nat
  BY DEF TraderInv, TraderType
<1>3. \A p \in Pair : newest'[p] + (IF Pends(r, p) THEN 1 ELSE 0) + calls
                               <= newest[p] + (IF Pends(call[c], p) THEN 1 ELSE 0) + calls'
  BY <1>2
<1>4. CountInv'
  <2>1. TraderType /\ CountInv /\ newest' \in [Pair -> Nat] /\ calls' \in Nat
    BY <1>1 DEF TraderInv, TraderType
  <2>2. QED
    BY <1>3, <2>1, CountKept
<1>5. (\A p \in Pair : first[p] \subseteq first'[p] /\ newest[p] <= newest'[p])
  BY <1>2
<1>6. QED
  BY <1>1, <1>4, <1>5, OthersKeep DEF TraderInv, WrittenInv

LEMMA HandOf ==
    ASSUME TraderInv, NEW c \in Caller
    PROVE  call[c] \in CallRecord /\ InHand(call[c])
  BY DEF TraderInv, TraderType

\* The writes of a pair.
LEMMA EnsureKeeps == ASSUME TraderInv, NEW c \in Caller, _ensure_tenant(c) PROVE TraderInv'
<1>0. call[c] \in CallRecord /\ InHand(call[c])
  BY HandOf
<1>1. PICK r \in CallRecord : r = [call[c] EXCEPT !.step = "first"]
  BY <1>0 DEF CallRecord, Steps
<1>2. r.step = "first" /\ r.op = call[c].op /\ r.op \in Pair /\ call[c].step = "tenant"
  BY <1>0, <1>1 DEF _ensure_tenant, CallRecord, InHand
<1>3. call' = [call EXCEPT ![c] = r] /\ known' = TRUE
      /\ UNCHANGED <<first, second, newest, replayed, acknowledged, replay_lock, calls>>
  BY <1>1 DEF _ensure_tenant, Moves
<1>4. TraderType'
  BY <1>3 DEF TraderInv, TraderType
<1>5. InHand(r)'
  BY <1>2, <1>3 DEF InHand, Pair
<1>6. TraderType /\ CountInv /\ newest' \in [Pair -> Nat] /\ calls' \in Nat
      /\ \A p \in Pair : newest'[p] = newest[p] /\ newest[p] \in Nat /\ calls' = calls /\ calls \in Nat
  BY <1>3 DEF TraderInv, TraderType
<1>7. \A p \in Pair : newest'[p] + (IF Pends(r, p) THEN 1 ELSE 0) + calls
                               <= newest[p] + (IF Pends(call[c], p) THEN 1 ELSE 0) + calls'
  BY <1>2, <1>6 DEF Pends
<1>8. CountInv'
  BY <1>3, <1>6, <1>7, CountKept
<1>9. \A p \in Pair : first[p] \subseteq first'[p] /\ newest[p] <= newest'[p]
  BY <1>3, <1>6
<1>10. (\A d \in Caller : InHand(call[d]) /\ (call[d].step = "acts" <=> replay_lock = d))'
  BY <1>2, <1>3, <1>4, <1>5, <1>9, OthersKeep
<1>11. QED
  BY <1>3, <1>4, <1>8, <1>10 DEF TraderInv, WrittenInv

LEMMA FirstWriteKeeps == ASSUME TraderInv, NEW c \in Caller, FirstWrite(c) PROVE TraderInv'
<1>0. call[c] \in CallRecord /\ InHand(call[c]) /\ call[c].step = "first"
  BY HandOf DEF FirstWrite
<1>1. PICK op \in Pair : op = call[c].op /\ (op # "symbols" => known)
  BY <1>0 DEF InHand
<1>2. newest[op] \in Nat
  BY DEF TraderInv, TraderType
<1>3. PICK k \in Nat : k = newest[op] + 1
  BY <1>2
<1>4. PICK r \in CallRecord : r = [call[c] EXCEPT !.step = "second", !.n = k]
  BY <1>0 DEF CallRecord, Steps
<1>5. r.step = "second" /\ r.op = op /\ r.n = k
  BY <1>0, <1>1, <1>4 DEF CallRecord
<1>6. newest' = [newest EXCEPT ![op] = k]
  BY <1>1, <1>3 DEF FirstWrite
<1>7. newest'[op] = k
  BY <1>6 DEF TraderInv, TraderType
<1>8. /\ first' = [first EXCEPT ![op] = @ \cup {k}]
      /\ call' = [call EXCEPT ![c] = r]
      /\ UNCHANGED <<second, known, replayed, acknowledged, replay_lock, calls>>
  BY <1>1, <1>4, <1>7 DEF FirstWrite, Moves
<1>9. /\ \A p \in Pair : /\ newest'[p] = IF p = op THEN k ELSE newest[p]
                         /\ newest[p] \in Nat
      /\ newest' \in [Pair -> Nat] /\ calls' = calls /\ calls \in Nat
  BY <1>6, <1>8 DEF TraderInv, TraderType
<1>10. /\ \A p \in Pair : first'[p] = IF p = op THEN first[p] \cup {k} ELSE first[p]
       /\ first' \in [Pair -> SUBSET Nat]
  BY <1>8 DEF TraderInv, TraderType
<1>11. TraderType'
  BY <1>8, <1>9, <1>10 DEF TraderInv, TraderType
<1>12. InHand(r)'
  BY <1>1, <1>5, <1>8, <1>10 DEF InHand, Pair
<1>13. \A p \in Pair : newest'[p] + (IF Pends(r, p) THEN 1 ELSE 0) + calls
                               <= newest[p] + (IF Pends(call[c], p) THEN 1 ELSE 0) + calls'
  BY <1>0, <1>1, <1>3, <1>5, <1>9 DEF Pends
<1>14. CountInv'
  <2>1. TraderType /\ CountInv
    BY DEF TraderInv
  <2>2. QED
    BY <1>8, <1>9, <1>13, <2>1, CountKept
<1>15. \A p \in Pair : first[p] \subseteq first'[p] /\ newest[p] <= newest'[p]
  BY <1>3, <1>9, <1>10
<1>16. WrittenInv'
  <2>1. ASSUME NEW p \in Pair PROVE first'[p] = 1 .. newest'[p]
    <3>1. first[p] = 1 .. newest[p] /\ newest[p] \in Nat
      BY <1>9 DEF TraderInv, WrittenInv
    <3>2. CASE p # op
      BY <1>9, <1>10, <3>1, <3>2
    <3>3. CASE p = op
      <4>1. first'[p] = (1 .. newest[p]) \cup {k} /\ newest'[p] = k /\ k = newest[p] + 1
        BY <1>3, <1>9, <1>10, <3>1, <3>3
      <4>2. \A i \in Nat : i \in 1 .. newest[p] + 1 <=> i \in 1 .. newest[p] \/ i = newest[p] + 1
        BY <3>1
      <4>3. QED
        BY <3>1, <4>1, <4>2
    <3>4. QED
      BY <3>2, <3>3
  <2>2. known \/ \A p \in Pair \ {"symbols"} : first'[p] = {}
    BY <1>1, <1>10 DEF TraderInv, WrittenInv
  <2>3. QED
    BY <1>8, <1>15, <2>1, <2>2 DEF TraderInv, WrittenInv
<1>17. (\A d \in Caller : InHand(call[d]) /\ (call[d].step = "acts" <=> replay_lock = d))'
  BY <1>0, <1>5, <1>8, <1>11, <1>12, <1>15, OthersKeep
<1>18. QED
  BY <1>11, <1>14, <1>16, <1>17 DEF TraderInv

LEMMA SecondWriteKeeps == ASSUME TraderInv, NEW c \in Caller, SecondWrite(c) PROVE TraderInv'
<1>0. call[c] \in CallRecord /\ InHand(call[c]) /\ call[c].step = "second"
  BY HandOf DEF SecondWrite
<1>1. PICK op \in Pair, n \in Nat : op = call[c].op /\ n = call[c].n /\ n \in first[op]
  BY <1>0 DEF InHand, CallRecord
<1>2. /\ second' = [second EXCEPT ![op] = @ \cup {n}] /\ call' = [call EXCEPT ![c] = NoCall]
      /\ UNCHANGED <<first, newest, known, replayed, acknowledged, replay_lock, calls>>
  BY <1>1 DEF SecondWrite, Moves
<1>3. /\ second' \in [Pair -> SUBSET Nat]
      /\ \A p \in Pair : second'[p] = IF p = op THEN second[p] \cup {n} ELSE second[p]
  BY <1>2 DEF TraderInv, TraderType
<1>4. TraderType'
  BY <1>2, <1>3, NoCallType DEF TraderInv, TraderType
<1>5. InHand(NoCall)' /\ NoCall.step = "none"
  BY DEF InHand, NoCall
<1>6. TraderType /\ CountInv /\ newest' \in [Pair -> Nat] /\ calls' \in Nat
      /\ \A p \in Pair : newest'[p] = newest[p] /\ newest[p] \in Nat /\ calls' = calls /\ calls \in Nat
  BY <1>2 DEF TraderInv, TraderType
<1>7. \A p \in Pair : newest'[p] + (IF Pends(NoCall, p) THEN 1 ELSE 0) + calls
                               <= newest[p] + (IF Pends(call[c], p) THEN 1 ELSE 0) + calls'
  BY <1>6, NoCallType
<1>8. CountInv'
  BY <1>2, <1>6, <1>7, CountKept, NoCallType
<1>9. \A p \in Pair : first[p] \subseteq first'[p] /\ newest[p] <= newest'[p]
  BY <1>2, <1>6
<1>10. WrittenInv'
  <2>1. ASSUME NEW p \in Pair PROVE second'[p] \ {0} \subseteq first'[p]
    BY <1>1, <1>2, <1>3 DEF TraderInv, WrittenInv
  <2>2. QED
    BY <1>2, <2>1 DEF TraderInv, WrittenInv
<1>11. (\A d \in Caller : InHand(call[d]) /\ (call[d].step = "acts" <=> replay_lock = d))'
  BY <1>0, <1>2, <1>4, <1>5, <1>9, NoCallType, OthersKeep
<1>12. QED
  BY <1>4, <1>8, <1>10, <1>11 DEF TraderInv

LEMMA IdleAgain ==
    ASSUME TraderInv, NEW c \in Caller, WriteFails(c) \/ Answered(c)
    PROVE  TraderInv'
<1>1. InHand(NoCall) /\ NoCall.step = "none" /\ call[c].step # "acts"
  BY DEF InHand, NoCall, WriteFails, Answered
<1>2. call' = [call EXCEPT ![c] = NoCall]
      /\ UNCHANGED <<first, second, newest, known, replayed, acknowledged, replay_lock, calls>>
  BY DEF WriteFails, Answered, Moves
<1>3. QED
  BY <1>1, <1>2, NoCallType, QuietKeeps

-----------------------------------------------------------------------------
\* The list of playbooks: as long as nothing was declared, the entries have nothing, and
\* what was declared by then is at most what the documents show afterwards.
LEMMA ReadEntriesKeeps == ASSUME TraderInv, NEW c \in Caller, ReadEntries(c) PROVE TraderInv'
<1>0. call[c] \in CallRecord /\ InHand(call[c]) /\ call[c].step = "entries"
  BY HandOf DEF ReadEntries
<1> DEFINE entries == second["playbook"]
           entry == IF entries = {} THEN 0 ELSE Max(entries)
<1>1. newest["playbook"] \in Nat /\ entries \in SUBSET Nat /\ entries \ {0} \subseteq 1 .. newest["playbook"]
  BY DEF TraderInv, TraderType, WrittenInv, Pair
<1>2. entry \in Nat /\ (newest["playbook"] = 0 => entry = 0)
  <2>1. CASE entries = {}
    BY <2>1
  <2>2. CASE entries # {}
    <3>1. entries \in SUBSET (0 .. newest["playbook"])
      BY <1>1
    <3>2. Max(entries) \in entries
      BY <1>1, <2>2, <3>1, GreatestFromZero
    <3>3. QED
      BY <1>1, <2>2, <3>1, <3>2
  <2>3. QED
    BY <2>1, <2>2
<1>3. PICK e \in Nat, f \in Nat : e = entry /\ f = newest["playbook"] /\ (f = 0 => e = 0)
  BY <1>1, <1>2
<1>4. PICK r \in CallRecord : r = [call[c] EXCEPT !.step = "documents", !.floor = f, !.seen = e]
  BY <1>0 DEF CallRecord, Steps
<1>5. r.step = "documents" /\ r.op = call[c].op /\ r.floor = f /\ r.seen = e
  BY <1>0, <1>4 DEF CallRecord
<1>6. InHand(r)
  BY <1>0, <1>3, <1>5 DEF InHand
<1>7. call' = [call EXCEPT ![c] = r]
      /\ UNCHANGED <<first, second, newest, known, replayed, acknowledged, replay_lock, calls>>
  BY <1>3, <1>4 DEF ReadEntries, Moves
<1>8. QED
  BY <1>0, <1>5, <1>6, <1>7, QuietKeeps DEF Pends

LEMMA ReadDocumentsKeeps == ASSUME TraderInv, NEW c \in Caller, ReadDocuments(c) PROVE TraderInv'
<1>0. call[c] \in CallRecord /\ InHand(call[c]) /\ call[c].step = "documents"
  BY HandOf DEF ReadDocuments
<1>1. PICK f \in Nat, e \in Nat, d \in Nat :
        f = call[c].floor /\ e = call[c].seen /\ d = newest["playbook"] /\ f <= d /\ (d = 0 => e = 0)
  BY <1>0 DEF InHand, CallRecord, TraderInv, TraderType, Pair
<1>2. Defined(e, d) \in Nat /\ Defined(e, d) >= f
  BY <1>1 DEF Defined
<1>3. PICK r \in CallRecord : r = [call[c] EXCEPT !.step = "answered", !.seen = Defined(e, d)]
  BY <1>0, <1>2 DEF CallRecord, Steps
<1>4. r.step = "answered" /\ r.op = call[c].op /\ r.floor = f /\ r.seen = Defined(e, d)
  BY <1>0, <1>1, <1>3 DEF CallRecord
<1>5. InHand(r)
  BY <1>0, <1>2, <1>4 DEF InHand
<1>6. call' = [call EXCEPT ![c] = r]
      /\ UNCHANGED <<first, second, newest, known, replayed, acknowledged, replay_lock, calls>>
  BY <1>1, <1>3 DEF ReadDocuments, Moves
<1>7. QED
  BY <1>0, <1>4, <1>5, <1>6, QuietKeeps DEF Pends

-----------------------------------------------------------------------------
\* The replay session: who acts holds the lock and has read the session as it is.
LEMMA GetSessionKeeps == ASSUME TraderInv, NEW c \in Caller, GetSession(c) PROVE TraderInv'
<1>0. call[c] \in CallRecord /\ InHand(call[c]) /\ call[c].step = "waits" /\ replay_lock = "none"
  BY HandOf DEF GetSession
<1>1. PICK n \in Nat : n = replayed
  BY DEF TraderInv, TraderType
<1>2. PICK r \in CallRecord : r = [call[c] EXCEPT !.step = "acts", !.seen = n]
  BY <1>0 DEF CallRecord, Steps
<1>3. r.step = "acts" /\ r.op = call[c].op /\ r.seen = n
  BY <1>0, <1>2 DEF CallRecord
<1>4. /\ call' = [call EXCEPT ![c] = r] /\ replay_lock' = c
      /\ UNCHANGED <<first, second, newest, known, replayed, acknowledged, calls>>
  BY <1>1, <1>2 DEF GetSession, Moves
<1>5. TraderType'
  BY <1>4 DEF TraderInv, TraderType
<1>6. InHand(r)'
  BY <1>0, <1>1, <1>3, <1>4 DEF InHand
<1>7. TraderType /\ CountInv /\ newest' \in [Pair -> Nat] /\ calls' \in Nat
      /\ \A p \in Pair : newest'[p] = newest[p] /\ newest[p] \in Nat /\ calls' = calls /\ calls \in Nat
  BY <1>4 DEF TraderInv, TraderType
<1>8. \A p \in Pair : newest'[p] + (IF Pends(r, p) THEN 1 ELSE 0) + calls
                               <= newest[p] + (IF Pends(call[c], p) THEN 1 ELSE 0) + calls'
  BY <1>3, <1>7 DEF Pends
<1>9. CountInv'
  BY <1>4, <1>7, <1>8, CountKept
<1>10. \A p \in Pair : first[p] \subseteq first'[p] /\ newest[p] <= newest'[p]
  BY <1>4, <1>7
<1>11. (\A d \in Caller : InHand(call[d]) /\ (call[d].step = "acts" <=> replay_lock = d))'
  BY <1>0, <1>3, <1>4, <1>5, <1>6, <1>10, OthersKeep
<1>12. QED
  BY <1>4, <1>5, <1>9, <1>11 DEF TraderInv, WrittenInv

LEMMA PutSessionKeeps == ASSUME TraderInv, NEW c \in Caller, PutSession(c) PROVE TraderInv'
<1>0. call[c] \in CallRecord /\ InHand(call[c]) /\ call[c].step = "acts" /\ call[c].seen = replayed
      /\ replay_lock = c
  BY HandOf DEF PutSession, InHand, TraderInv
<1>1. /\ call' = [call EXCEPT ![c] = NoCall] /\ replay_lock' = "none"
      /\ UNCHANGED <<first, second, newest, known, calls>>
  BY DEF PutSession, Moves
<1>2. replayed' \in Nat /\ acknowledged' \in Nat /\ replayed' >= acknowledged'
  BY <1>0 DEF PutSession, TraderInv, TraderType, WrittenInv
<1>3. TraderType'
  BY <1>1, <1>2, NoCallType DEF TraderInv, TraderType
<1>4. InHand(NoCall)' /\ NoCall.step = "none"
  BY DEF InHand, NoCall
<1>5. TraderType /\ CountInv /\ newest' \in [Pair -> Nat] /\ calls' \in Nat
      /\ \A p \in Pair : newest'[p] = newest[p] /\ newest[p] \in Nat /\ calls' = calls /\ calls \in Nat
  BY <1>1 DEF TraderInv, TraderType
<1>6. \A p \in Pair : newest'[p] + (IF Pends(NoCall, p) THEN 1 ELSE 0) + calls
                               <= newest[p] + (IF Pends(call[c], p) THEN 1 ELSE 0) + calls'
  BY <1>5, NoCallType
<1>7. CountInv'
  BY <1>1, <1>5, <1>6, CountKept, NoCallType
<1>8. \A p \in Pair : first[p] \subseteq first'[p] /\ newest[p] <= newest'[p]
  BY <1>1, <1>5
<1>9. (\A d \in Caller : InHand(call[d]) /\ (call[d].step = "acts" <=> replay_lock = d))'
  BY <1>0, <1>1, <1>3, <1>4, <1>8, NoCallType, OthersKeep
<1>10. WrittenInv'
  BY <1>1, <1>2 DEF TraderInv, WrittenInv
<1>11. QED
  BY <1>3, <1>7, <1>9, <1>10 DEF TraderInv

\* A kill: nothing is pending any more, and nobody holds the lock.
LEMMA KillKeeps == ASSUME TraderInv, ServiceKilled PROVE TraderInv'
<1>1. /\ call' = [c \in Caller |-> NoCall] /\ replay_lock' = "none"
      /\ UNCHANGED <<first, second, newest, known, replayed, acknowledged, calls>>
  BY DEF ServiceKilled
<1>2. TraderType'
  BY <1>1, NoCallType DEF TraderInv, TraderType
<1>3. CountInv'
  <2> SUFFICES ASSUME NEW p \in Pair
               PROVE  IsFiniteSet(Pending(p)') /\ newest'[p] + Cardinality(Pending(p)') <= calls'
    BY DEF CountInv
  <2>1. Pending(p)' = {}
    BY <1>1, NoCallType DEF Pending
  <2>2. newest[p] \in Nat /\ calls \in Nat /\ Cardinality(Pending(p)) \in Nat
        /\ newest[p] + Cardinality(Pending(p)) <= calls
    BY FS_CardinalityType DEF TraderInv, TraderType, CountInv
  <2>3. QED
    BY <1>1, <2>1, <2>2, FS_EmptySet
<1>4. \A c \in Caller : InHand(NoCall)' /\ NoCall.step = "none" /\ "none" # c
  BY TraderAssumption DEF InHand, NoCall
<1>5. QED
  BY <1>1, <1>2, <1>3, <1>4 DEF TraderInv, WrittenInv

LEMMA TraderInitHolds == TraderInit => TraderInv
<1> SUFFICES ASSUME TraderInit PROVE TraderInv
  OBVIOUS
<1>1. /\ first = [p \in Pair |-> {}] /\ newest = [p \in Pair |-> 0] /\ replayed = 0 /\ acknowledged = 0
      /\ replay_lock = "none" /\ call = [c \in Caller |-> NoCall] /\ calls = 0 /\ known \in BOOLEAN
  BY DEF TraderInit
<1>2. second \in [Pair -> SUBSET Nat] /\ \A p \in Pair : second[p] \subseteq {0}
  BY DEF TraderInit
<1>3. TraderType
  BY <1>1, <1>2, NoCallType, TraderAssumption DEF TraderType
<1>4. CountInv
  <2>1. \A p \in Pair : Pending(p) = {}
    BY <1>1, NoCallType DEF Pending
  <2>2. QED
    BY <1>1, <2>1, FS_EmptySet DEF CountInv
<1>5. \A c \in Caller : InHand(NoCall) /\ NoCall.step = "none" /\ "none" # c
  BY TraderAssumption DEF InHand, NoCall
<1>6. QED
  BY <1>1, <1>2, <1>3, <1>4, <1>5 DEF TraderInv, WrittenInv

LEMMA TraderStepKeeps ==
    ASSUME TraderInv, [TraderNext]_traderVars
    PROVE  TraderInv'
<1>1. ASSUME NEW c \in Caller, NEW pair \in Pair, TwoWrites(c, pair)
      PROVE  TraderInv'
  BY <1>1, AskedKeeps DEF TwoWrites
<1>2. ASSUME NEW c \in Caller,
             \/ upsert_playbook(c) \/ decide_pattern(c) \/ market_bars(c) \/ backtest_run(c)
             \/ analytics_breakdown(c)
      PROVE  TraderInv'
  BY <1>1, <1>2 DEF upsert_playbook, decide_pattern, market_bars, backtest_run, analytics_breakdown, Pair
<1>3. ASSUME NEW c \in Caller, playbooks(c) \/ replay_action(c)
      PROVE  TraderInv'
  BY <1>3, AskedKeeps DEF playbooks, replay_action
<1>4. CASE UNCHANGED traderVars
  BY <1>4 DEF traderVars, TraderInv, TraderType, CountInv, Pending, WrittenInv, InHand
<1>5. QED
  BY <1>2, <1>3, <1>4, EnsureKeeps, FirstWriteKeeps, SecondWriteKeeps, IdleAgain, ReadEntriesKeeps,
     ReadDocumentsKeeps, GetSessionKeeps, PutSessionKeeps, KillKeeps DEF TraderNext

\* The inductive invariant: what every request of the trader product has in hand fits
\* what is in the store.
THEOREM TraderInvariant == TraderSpec => []TraderInv
<1>1. TraderInv /\ [TraderNext]_traderVars => TraderInv'
  BY TraderStepKeeps
<1>2. QED
  BY <1>1, TraderInitHolds, PTL DEF TraderSpec

\* Shape of the state: nothing is written that was not asked for, and the lock is held
\* exactly while a request acts on the session.
THEOREM TraderTypeCorrect == TraderSpec => []TraderTypeOK
<1>1. TraderInv => TraderTypeOK
  <2> SUFFICES ASSUME TraderInv PROVE TraderTypeOK
    OBVIOUS
  <2>1. ASSUME NEW p \in Pair
        PROVE  first[p] \in SUBSET (1 .. calls) /\ second[p] \in SUBSET (0 .. calls)
    <3>1. newest[p] \in Nat /\ calls \in Nat /\ Cardinality(Pending(p)) \in Nat
          /\ newest[p] + Cardinality(Pending(p)) <= calls
      BY FS_CardinalityType DEF TraderInv, TraderType, CountInv
    <3>2. first[p] = 1 .. newest[p] /\ second[p] \ {0} \subseteq first[p]
      BY DEF TraderInv, WrittenInv
    <3>3. QED
      BY <3>1, <3>2
  <2>2. first \in [Pair -> SUBSET (1 .. calls)] /\ second \in [Pair -> SUBSET (0 .. calls)]
    BY <2>1 DEF TraderInv, TraderType
  <2>3. replay_lock # "none" <=> \E c \in Caller : call[c].step = "acts"
    BY TraderAssumption DEF TraderInv, TraderType
  <2>4. QED
    BY <2>2, <2>3 DEF TraderTypeOK, TraderInv, TraderType
<1>2. QED
  BY <1>1, TraderInvariant, PTL

\* However the requests of the trader product interleave, fail and are killed
\* (service.py), nothing in the store speaks of what is not there, no reader of the
\* playbooks misses one declared before he asked, and no acknowledged replay action is
\* lost.
THEOREM TraderStaysConsistent == TraderSpec => []TraderIsConsistent
<1>1. TraderInv => TraderIsConsistent
  BY DEF TraderInv, WrittenInv, InHand, TraderIsConsistent
<1>2. QED
  BY <1>1, TraderInvariant, PTL

-----------------------------------------------------------------------------
(* Evidence packs, for any runs, builds, processes and faults.             *)

ActiveBuild == [phase : {"writes"}, of : Builds, todo : SUBSET (UNION {Files(b) : b \in Builds})]

PackShape ==
    /\ finished \subseteq Builds /\ last \in Builds /\ calm \in BOOLEAN
    /\ builds \in 0 .. MaxBuilds /\ faults \in 0 .. MaxFaults
    /\ build \in [Builder -> {NoBuild} \cup ActiveBuild]
    /\ \A w \in Builder : build[w].phase = "writes" =>
           build[w].todo \subseteq Files(build[w].of) /\ SealPath \in build[w].todo
    /\ PackPath \in DOMAIN disk => disk[PackPath] = Torn \/ \E b \in Builds : disk[PackPath] = PackOf(b)
    /\ SealPath \in DOMAIN disk => disk[SealPath] = Torn \/ \E b \in finished : disk[SealPath] = PackOf(b)
    /\ replay.phase \in {"idle", "seal", "hash", "judge"}
    /\ replay.phase \in {"hash", "judge"} => \E b \in finished : replay.pack = PackOf(b)
    /\ report.status \in {"none", "pending_review", "blocked", "verified"}

\* While nothing else has happened, one process at most writes, and what it has written
\* of the last build is there.
CalmInv ==
    calm =>
        /\ \A w \in Builder : build[w].phase = "writes" => build[w].of = last
        /\ \A w, x \in Builder : build[w].phase = "writes" /\ build[x].phase = "writes" => w = x
        /\ \A path \in Files(last) : (\A w \in Builder : path \notin build[w].todo) =>
               path \in DOMAIN disk /\ disk[path] = ContentOf(last, path)
        /\ AtRest => last \in finished
        /\ replay.phase # "idle" /\ replay.calm =>
               /\ AtRest /\ replay.pack = PackOf(last)
               /\ replay.phase # "seal" => Untouched(last)
               /\ replay.phase = "judge" => replay.differ = {}

PackInv == PackShape /\ CalmInv /\ ReplayTellsTheTruth

LEMMA SomeBuild == NoBuild.of \in Builds /\ NoBuild.phase = "idle" /\ NoBuild.todo = {}
  BY PackAssumption DEF NoBuild

LEMMA RunsOf ==
    ASSUME NEW b \in Builds
    PROVE  /\ b.runs \in Seq(Run) /\ Len(b.runs) \in Nat \ {0} /\ Samples(b) = 1 .. Len(b.runs)
           /\ \A i \in Samples(b) : b.runs[i] \in Run /\ b.runs[i].id # "" /\ i \in Nat \ {0}
<1>1. b.runs \in Seq(Run) /\ b.runs # << >> /\ \A i \in DOMAIN b.runs : b.runs[i].id # ""
  BY PackAssumption
<1>2. /\ DOMAIN b.runs = 1 .. Len(b.runs) /\ Len(b.runs) \in Nat \ {0}
      /\ b.runs \in [1 .. Len(b.runs) -> Run]
  BY <1>1, EmptySeq, LenProperties
<1>3. \A i \in 1 .. Len(b.runs) : b.runs[i] \in Run /\ i \in Nat \ {0}
  BY <1>2
<1>4. QED
  BY <1>1, <1>2, <1>3 DEF Samples

\* The samples of a build do not share their directories, nor those of the pack.
LEMMA IdsDistinct ==
    ASSUME NEW b \in Builds, NEW i \in Samples(b), NEW j \in Samples(b), SampleId(b, i) = SampleId(b, j)
    PROVE  i = j
<1> DEFINE number(k) == IF \E h \in 1 .. k - 1 : b.runs[h].id = b.runs[k].id THEN k ELSE 0
<1>1. b.runs[i].id = b.runs[j].id /\ number(i) = number(j)
  BY DEF SampleId
<1>2. i \in Nat \ {0} /\ j \in Nat \ {0}
  BY RunsOf
<1>3. CASE i < j
  <2>1. i \in 1 .. j - 1
    BY <1>2, <1>3
  <2>2. number(j) = j
    BY <1>1, <2>1
  <2>3. QED
    BY <1>1, <1>2, <1>3, <2>2
<1>4. CASE j < i
  <2>1. j \in 1 .. i - 1
    BY <1>2, <1>4
  <2>2. number(i) = i
    BY <1>1, <2>1
  <2>3. QED
    BY <1>1, <1>2, <1>4, <2>2
<1>5. QED
  BY <1>2, <1>3, <1>4

LEMMA PathsApart ==
    ASSUME NEW b \in Builds
    PROVE  /\ PackPath \notin Artifacts(b) /\ SealPath \notin Artifacts(b) /\ PackPath # SealPath
           /\ RulePath \in Artifacts(b) /\ RulePath \notin {PackPath, SealPath}
           /\ \A i \in Samples(b), kind \in Kind : <<SampleId(b, i), kind>> # RulePath
<1>1. \A i \in Samples(b) : SampleId(b, i)[1] # ""
  BY RunsOf DEF SampleId
<1>2. PackPath # SealPath /\ RulePath # PackPath /\ RulePath # SealPath
  BY DEF PackPath, SealPath, RulePath
<1>3. \A i \in Samples(b), kind \in Kind : <<SampleId(b, i), kind>>[1][1] # ""
  BY <1>1
<1>4. PackPath[1][1] = "" /\ SealPath[1][1] = "" /\ RulePath[1][1] = ""
  BY DEF PackPath, SealPath, RulePath, Root
<1>5. QED
  BY <1>2, <1>3, <1>4 DEF Artifacts

LEMMA ArtifactAt ==
    ASSUME NEW b \in Builds, NEW i \in Samples(b), NEW kind \in Kind
    PROVE  /\ <<SampleId(b, i), kind>> \in Artifacts(b)
           /\ ArtifactOf(b, <<SampleId(b, i), kind>>) = FrozenOf(b.runs[i], kind)
<1> DEFINE path == <<SampleId(b, i), kind>>
<1>1. path # RulePath
  BY PathsApart
<1>2. (CHOOSE j \in Samples(b) : SampleId(b, j) = path[1]) = i
  BY IdsDistinct
<1>3. path[2] = kind
  OBVIOUS
<1>4. QED
  BY <1>1, <1>2, <1>3 DEF Artifacts, ArtifactOf

-----------------------------------------------------------------------------
LEMMA PackInitial == PackInit => PackInv
<1> SUFFICES ASSUME PackInit PROVE PackInv
  OBVIOUS
<1>1. \A path : path \notin DOMAIN disk
  BY EmptySeq DEF PackInit
<1>2. PackShape
  <2>1. build \in [Builder -> {NoBuild}] /\ finished = {} /\ last \in Builds
    BY SomeBuild DEF PackInit
  <2>2. \A w \in Builder : build[w].phase = "idle"
    BY <2>1, SomeBuild
  <2>3. builds \in 0 .. MaxBuilds /\ faults \in 0 .. MaxFaults /\ calm \in BOOLEAN
    <3>1. builds = 0 /\ faults = 0 /\ calm = FALSE
      BY DEF PackInit
    <3>2. MaxBuilds \in Nat /\ MaxFaults \in Nat
      BY PackAssumption
    <3>3. calm \in BOOLEAN
      BY <3>1
    <3>4. builds \in 0 .. MaxBuilds /\ faults \in 0 .. MaxFaults
      BY <3>1, <3>2
    <3>5. QED
      BY <3>3, <3>4
  <2>4. replay.phase = "idle" /\ report.status = "none"
    BY DEF PackInit, NoReplay, NoReport
  <2>5. QED
    BY <1>1, <2>1, <2>2, <2>3, <2>4 DEF PackShape
<1>3. CalmInv /\ ReplayTellsTheTruth
  BY DEF PackInit, CalmInv, ReplayTellsTheTruth, NoReport
<1>4. QED
  BY <1>2, <1>3 DEF PackInv

\* What a file of a build holds is neither the pack nor the seal, unless it is theirs.
LEMMA Contents ==
    ASSUME NEW b \in Builds, NEW path \in Files(b)
    PROVE  /\ path \in Artifacts(b) => ContentOf(b, path) = ArtifactOf(b, path)
           /\ path \in {PackPath, SealPath} => ContentOf(b, path) = PackOf(b)
           /\ ContentOf(b, path) # Torn
  BY PathsApart, TornAssumption DEF ContentOf, Files

LEMMA WithPath ==
    ASSUME NEW files, NEW path, NEW content
    PROVE  /\ DOMAIN With(files, path, content) = DOMAIN files \cup {path}
           /\ With(files, path, content)[path] = content
           /\ \A p \in DOMAIN files \ {path} : With(files, path, content)[p] = files[p]
  BY DEF With

LEMMA RankBeforeSeal ==
    ASSUME NEW b \in Builds, NEW path \in Files(b), path # SealPath
    PROVE  /\ Rank(b, path) \in Int /\ Rank(b, SealPath) \in Int
           /\ Rank(b, path) < Rank(b, SealPath)
<1> DEFINE n == Len(b.runs)
<1>0. n \in Nat \ {0} /\ Rank(b, SealPath) = 4 * n + 5 /\ Samples(b) = 1 .. n
  BY RunsOf, PathsApart DEF Rank
<1>1. CASE path \in {RulePath, PackPath}
  BY <1>0, <1>1, PathsApart DEF Rank
<1>2. CASE path \notin {RulePath, PackPath}
  <2>1. PICK i \in Samples(b), kind \in Kind : path = <<SampleId(b, i), kind>>
    BY <1>2 DEF Files, Artifacts
  <2>2. (CHOOSE j \in Samples(b) : SampleId(b, j) = path[1]) = i /\ path[2] = kind
    BY <2>1, IdsDistinct
  <2>3. Rank(b, path) = 4 * i + (CASE kind = "manifest" -> 0 [] kind = "decision" -> 1
                                   [] kind = "outcome" -> 2 [] kind = "evaluation" -> 3)
    BY <1>2, <2>2 DEF Rank
  <2>4. QED
    BY <1>0, <2>1, <2>3 DEF Kind
<1>3. QED
  BY <1>1, <1>2

LEMMA BuildBegins ==
    ASSUME PackInv, NEW w \in Builder, build_evidence_pack(w)
    PROVE  PackInv'
<1> PICK b \in Builds : build' = [build EXCEPT ![w] = Writing(b, Files(b))] /\ last' = b
  BY DEF build_evidence_pack
<1>0. /\ build[w].phase = "idle" /\ builds < MaxBuilds /\ builds' = builds + 1
      /\ calm' = (AtRest /\ replay.phase = "idle")
      /\ UNCHANGED <<disk, replay, report, finished, faults>>
  BY DEF build_evidence_pack
<1>1. /\ build' \in [Builder -> {NoBuild} \cup ActiveBuild]
      /\ build'[w] = [phase |-> "writes", of |-> b, todo |-> Files(b)]
      /\ \A x \in Builder \ {w} : build'[x] = build[x]
  <2>1. Writing(b, Files(b)) = [phase |-> "writes", of |-> b, todo |-> Files(b)]
    BY DEF Writing, Files
  <2>2. [phase |-> "writes", of |-> b, todo |-> Files(b)] \in ActiveBuild
    BY DEF ActiveBuild
  <2>3. build \in [Builder -> {NoBuild} \cup ActiveBuild]
    BY DEF PackInv, PackShape
  <2>4. QED
    BY <2>1, <2>2, <2>3
<1>2. PackShape'
  <2>1. SealPath \in Files(b)
    BY DEF Files
  <2>2. \A x \in Builder : build'[x].phase = "writes" =>
            build'[x].todo \subseteq Files(build'[x].of) /\ SealPath \in build'[x].todo
    BY <1>1, <2>1 DEF PackInv, PackShape
  <2>3. builds' \in 0 .. MaxBuilds
    <3>1. builds \in 0 .. MaxBuilds /\ MaxBuilds \in Nat
      BY PackAssumption DEF PackInv, PackShape
    <3>2. QED
      BY <1>0, <3>1
  <2>4. QED
    BY <1>0, <1>1, <2>2, <2>3 DEF PackInv, PackShape
<1>3. CalmInv'
  <2> SUFFICES ASSUME calm' PROVE CalmInv'
    BY DEF CalmInv
  <2>1. AtRest /\ replay'.phase = "idle"
    BY <1>0
  <2>2. \A x \in Builder : build'[x].phase = "writes" => x = w
    BY <1>1, <2>1 DEF AtRest
  <2>3. ~AtRest'
    BY <1>1 DEF AtRest
  <2>4. \A path \in Files(b) : path \in build'[w].todo
    BY <1>1
  <2>5. QED
    BY <1>1, <2>1, <2>2, <2>3, <2>4 DEF CalmInv
<1>4. ReplayTellsTheTruth'
  BY <1>0 DEF PackInv, ReplayTellsTheTruth
<1>5. QED
  BY <1>2, <1>3, <1>4 DEF PackInv

LEMMA FileWritten ==
    ASSUME PackInv, NEW w \in Builder, WriteFile(w)
    PROVE  PackInv'
<1> DEFINE b == build[w].of
<1>0. PICK path \in build[w].todo :
        /\ Due(w, path)
        /\ disk' = With(disk, path, ContentOf(b, path))
        /\ build' = [build EXCEPT ![w] = Writing(build[w].of, build[w].todo \ {path})]
        /\ finished' = IF path = SealPath THEN finished \cup {b} ELSE finished
  BY DEF WriteFile
<1>1. build[w].phase = "writes" /\ UNCHANGED <<replay, report, last, calm, builds, faults>>
  BY DEF WriteFile
<1>2. build[w] \in ActiveBuild /\ build[w].todo \subseteq Files(b) /\ b \in Builds /\ path \in Files(b) /\ SealPath \in build[w].todo
  BY <1>1, SomeBuild DEF PackInv, PackShape, ActiveBuild
\* The seal is the last file.
<1>3. path = SealPath => build[w].todo = {path}
  <2> SUFFICES ASSUME path = SealPath, NEW other \in build[w].todo, other # path PROVE FALSE
    OBVIOUS
  <2>1. Rank(b, SealPath) <= Rank(b, other) /\ other \in Files(b)
    BY <1>0, <1>1, <1>2 DEF Due, PackInv, PackShape
  <2>2. Rank(b, other) < Rank(b, SealPath)
    BY <1>2, <2>1, RankBeforeSeal
  <2>3. Rank(b, other) \in Int /\ Rank(b, SealPath) \in Int
    BY <1>2, <2>1, RankBeforeSeal
  <2>4. QED
    BY <2>1, <2>2, <2>3
<1>4. /\ build' \in [Builder -> {NoBuild} \cup ActiveBuild]
      /\ \A x \in Builder \ {w} : build'[x] = build[x]
      /\ build'[w].todo = build[w].todo \ {path}
      /\ build'[w].phase = "writes" => path # SealPath /\ build'[w].of = b
      /\ build'[w].phase = "idle" => path = SealPath
  <2>0. build \in [Builder -> {NoBuild} \cup ActiveBuild]
    BY DEF PackInv, PackShape
  <2>1. build'[w] = Writing(b, build[w].todo \ {path}) /\ \A x \in Builder \ {w} : build'[x] = build[x]
    BY <1>0, <2>0
  <2>2. CASE build[w].todo \ {path} = {}
    <3>1. build'[w] = NoBuild /\ path = SealPath
      BY <1>2, <2>1, <2>2 DEF Writing
    <3>2. QED
      BY <1>0, <2>0, <2>1, <2>2, <3>1, SomeBuild
  <2>3. CASE build[w].todo \ {path} # {}
    <3>1. build'[w] = [phase |-> "writes", of |-> b, todo |-> build[w].todo \ {path}]
      BY <2>1, <2>3 DEF Writing
    <3>2. build'[w] \in ActiveBuild
      BY <1>2, <3>1 DEF ActiveBuild
    <3>3. QED
      BY <1>0, <1>3, <2>0, <2>1, <2>3, <3>1, <3>2
  <2>4. QED
    BY <2>2, <2>3
<1>5. /\ DOMAIN disk' = DOMAIN disk \cup {path} /\ disk'[path] = ContentOf(b, path)
      /\ \A p \in DOMAIN disk \ {path} : disk'[p] = disk[p]
  <2>1. disk' = With(disk, path, ContentOf(b, path))
    BY <1>0
  <2>2. QED
    BY <2>1 DEF With
<1>6. PackShape'
  <2>1. \A x \in Builder : build'[x].phase = "writes" =>
            build'[x].todo \subseteq Files(build'[x].of) /\ SealPath \in build'[x].todo
    BY <1>2, <1>4 DEF PackInv, PackShape
  <2>2. PackPath \in DOMAIN disk' => disk'[PackPath] = Torn \/ \E c \in Builds : disk'[PackPath] = PackOf(c)
    BY <1>2, <1>5, Contents DEF PackInv, PackShape
  <2>3. SealPath \in DOMAIN disk' => disk'[SealPath] = Torn \/ \E c \in finished' : disk'[SealPath] = PackOf(c)
    BY <1>0, <1>2, <1>5, Contents DEF PackInv, PackShape
  <2>4. finished' \subseteq Builds /\ finished \subseteq finished'
    BY <1>0, <1>2 DEF PackInv, PackShape
  <2>5. QED
    BY <1>1, <1>4, <2>1, <2>2, <2>3, <2>4 DEF PackInv, PackShape
<1>7. CalmInv'
  <2> SUFFICES ASSUME calm' PROVE CalmInv'
    BY DEF CalmInv
  <2>1. calm /\ ~AtRest /\ b = last /\ last' = last
    BY <1>1 DEF PackInv, CalmInv, AtRest
  <2>2. \A x \in Builder : build'[x].phase = "writes" => build'[x].of = last /\ x = w
    BY <1>1, <1>4, <2>1 DEF PackInv, CalmInv
  <2>3. ASSUME NEW p \in Files(last), \A x \in Builder : p \notin build'[x].todo
        PROVE  p \in DOMAIN disk' /\ disk'[p] = ContentOf(last, p)
    <3>1. CASE p = path
      BY <1>5, <2>1, <3>1
    <3>2. CASE p # path
      <4>1. \A x \in Builder : p \notin build[x].todo
        BY <1>4, <2>3, <3>2
      <4>2. QED
        BY <1>5, <2>1, <3>2, <4>1 DEF PackInv, CalmInv
    <3>3. QED
      BY <3>1, <3>2
  <2>4. AtRest' => last \in finished'
    BY <1>0, <1>4, <2>1 DEF AtRest
  <2>5. replay.phase # "idle" => ~replay.calm
    BY <2>1 DEF PackInv, CalmInv
  <2>6. QED
    BY <1>1, <2>1, <2>2, <2>3, <2>4, <2>5 DEF CalmInv
<1>8. ReplayTellsTheTruth'
  <2>1. finished \subseteq finished'
    BY <1>0
  <2>2. QED
    BY <1>1, <2>1 DEF PackInv, ReplayTellsTheTruth
<1>9. QED
  BY <1>6, <1>7, <1>8 DEF PackInv

LEMMA BuildStopped ==
    ASSUME PackInv, NEW w \in Builder, BuildEnds(w)
    PROVE  PackInv'
<1>0. /\ disk' = disk \/ \E path : disk' = With(disk, path, Torn)
      /\ build' = [build EXCEPT ![w] = NoBuild]
      /\ calm' = FALSE /\ faults' = faults + 1 /\ faults < MaxFaults
      /\ UNCHANGED <<replay, report, finished, last, builds>>
  BY DEF BuildEnds
<1>1. \A p \in DOMAIN disk' : disk'[p] = Torn \/ (p \in DOMAIN disk /\ disk'[p] = disk[p])
  <2>1. CASE disk' = disk
    BY <2>1
  <2>2. CASE \E path : disk' = With(disk, path, Torn)
    <3>1. PICK path : disk' = With(disk, path, Torn)
      BY <2>2
    <3>2. /\ DOMAIN disk' = DOMAIN disk \cup {path} /\ disk'[path] = Torn
          /\ \A p \in DOMAIN disk \ {path} : disk'[p] = disk[p]
      BY <3>1 DEF With
    <3> HIDE <3>1
    <3>3. ASSUME NEW p \in DOMAIN disk' PROVE disk'[p] = Torn \/ (p \in DOMAIN disk /\ disk'[p] = disk[p])
      BY <3>2, <3>3
    <3>4. QED
      BY <3>3
  <2>3. QED
    BY <1>0, <2>1, <2>2
<1>2. PackShape'
  <2>1. build' \in [Builder -> {NoBuild} \cup ActiveBuild]
    BY <1>0 DEF PackInv, PackShape
  <2>2. \A x \in Builder : build'[x].phase = "writes" => build'[x] = build[x]
    BY <1>0, SomeBuild DEF PackInv, PackShape
  <2>3. faults' \in 0 .. MaxFaults
    <3>1. faults \in 0 .. MaxFaults /\ MaxFaults \in Nat
      BY PackAssumption DEF PackInv, PackShape
    <3>2. QED
      BY <1>0, <3>1
  <2>4. QED
    BY <1>0, <1>1, <2>1, <2>2, <2>3 DEF PackInv, PackShape
<1>3. CalmInv' /\ ReplayTellsTheTruth'
  BY <1>0 DEF PackInv, CalmInv, ReplayTellsTheTruth
<1>4. QED
  BY <1>2, <1>3 DEF PackInv

\* What the user puts into a file of a sample touches neither the pack nor the seal.
LEMMA FileEdited ==
    ASSUME PackInv, Edit
    PROVE  PackInv'
<1>0. /\ calm' = FALSE /\ faults' = faults + 1 /\ faults < MaxFaults
      /\ UNCHANGED <<build, replay, report, finished, last, builds>>
  BY DEF Edit
<1>1. ASSUME NEW p \in {PackPath, SealPath}, p \in DOMAIN disk'
      PROVE  disk'[p] = Torn \/ (p \in DOMAIN disk /\ disk'[p] = disk[p])
  <2>1. PICK path, content : disk' = With(disk, path, content) /\ (content = Torn \/ path # p)
    <3>1. \A kind \in Kind : <<SampleId(last, 1), kind>> # p
      <4>0. last \in Builds
        BY DEF PackInv, PackShape
      <4>1. 1 \in Samples(last)
        <5>1. Samples(last) = 1 .. Len(last.runs) /\ Len(last.runs) \in Nat \ {0}
          BY <4>0, RunsOf
        <5>2. QED
          BY <5>1
      <4>2. QED
        BY <4>0, <4>1, ArtifactAt, PathsApart
    <3>2. QED
      BY <3>1 DEF Edit
  <2>2. QED
    <3>1. /\ DOMAIN disk' = DOMAIN disk \cup {path} /\ disk'[path] = content
          /\ \A q \in DOMAIN disk \ {path} : disk'[q] = disk[q]
      BY <2>1 DEF With
    <3>2. CASE path = p
      BY <2>1, <3>1, <3>2
    <3>3. CASE path # p
      BY <1>1, <3>1, <3>3
    <3>4. QED
      BY <3>2, <3>3
<1>2. PackShape'
  <2>1. faults' \in 0 .. MaxFaults
    <3>1. faults \in 0 .. MaxFaults /\ MaxFaults \in Nat
      BY PackAssumption DEF PackInv, PackShape
    <3>2. QED
      BY <1>0, <3>1
  <2>2. /\ PackPath \in DOMAIN disk' => disk'[PackPath] = Torn \/ \E b \in Builds : disk'[PackPath] = PackOf(b)
        /\ SealPath \in DOMAIN disk' => disk'[SealPath] = Torn \/ \E b \in finished : disk'[SealPath] = PackOf(b)
    BY <1>1 DEF PackInv, PackShape
  <2>3. QED
    BY <1>0, <2>1, <2>2 DEF PackInv, PackShape
<1>3. CalmInv' /\ ReplayTellsTheTruth'
  BY <1>0 DEF PackInv, CalmInv, ReplayTellsTheTruth
<1>4. QED
  BY <1>2, <1>3 DEF PackInv

LEMMA PackFields ==
    ASSUME NEW b
    PROVE  /\ PackOf(b).ids = [i \in Samples(b) |-> NameLeft(SampleId(b, i))]
           /\ PackOf(b).validations = ValidationsOf(b) /\ PackOf(b).failed = FailedOf(b)
           /\ PackOf(b).grades = [i \in Samples(b) |-> EvaluationsOf(b)[i].grade]
           /\ PackOf(b).hashes = [path \in Artifacts(b) |-> Digest(path, ArtifactOf(b, path))]
           /\ PackOf(b).metrics = Metrics(Len(b.runs), ValidationsOf(b), EvaluationsOf(b))
           /\ PackOf(b).review_status = _review_status(Len(b.runs), FailedOf(b), PackOf(b).metrics)
           /\ PackOf(b).eligible = (PackOf(b).review_status = "ready_for_review")
  BY DEF PackOf

\* A pack is well-formed exactly if the redaction leaves what a replay needs.
LEMMA LeftAlone ==
    ASSUME NEW b \in Builds
    PROVE  /\ Untouched(b) =>
                  /\ \A i \in Samples(b) : NameLeft(SampleId(b, i)) = SampleId(b, i)
                  /\ \A path \in Artifacts(b) : Digest(path, ArtifactOf(b, path)) = ArtifactOf(b, path)
           /\ Untouched(b) <=>
                  /\ \A path \in DOMAIN PackOf(b).hashes : PackOf(b).hashes[path] # Torn
                  /\ \A i \in DOMAIN PackOf(b).ids : PackOf(b).ids[i] # Redacted
<1>1. /\ DOMAIN PackOf(b).hashes = Artifacts(b) /\ DOMAIN PackOf(b).ids = Samples(b)
      /\ \A path \in Artifacts(b) : PackOf(b).hashes[path] = Digest(path, ArtifactOf(b, path))
      /\ \A i \in Samples(b) : PackOf(b).ids[i] = NameLeft(SampleId(b, i))
  <2>1. PackOf(b).hashes = [path \in Artifacts(b) |-> Digest(path, ArtifactOf(b, path))]
    BY PackFields
  <2>2. PackOf(b).ids = [i \in Samples(b) |-> NameLeft(SampleId(b, i))]
    BY PackFields
  <2>3. QED
    BY <2>1, <2>2
<1>2. ASSUME NEW i \in Samples(b)
      PROVE  SampleId(b, i) # Redacted
  <2>1. b.runs[i].id # "[REDACTED]"
    BY PackAssumption DEF Samples
  <2>2. SampleId(b, i)[1] = b.runs[i].id /\ Redacted[1] = "[REDACTED]"
    BY DEF SampleId, Redacted
  <2>3. QED
    BY <2>1, <2>2
<1>3. \A i \in Samples(b) : NameLeft(SampleId(b, i)) # Redacted <=> SampleId(b, i) \notin Masked
  BY <1>2 DEF NameLeft
<1>4. ASSUME NEW path \in Artifacts(b)
      PROVE  Digest(path, ArtifactOf(b, path)) # Torn <=>
                 path[1] \notin Suspect /\ ArtifactOf(b, path) \notin Illegible
  BY TornAssumption DEF Digest
<1>5. ASSUME \A i \in Samples(b) : SampleId(b, i) \notin Suspect, NEW path \in Artifacts(b)
      PROVE  path[1] \notin Suspect
  <2>1. CASE path = RulePath
    BY <2>1, PackAssumption DEF RulePath, Root
  <2>2. CASE path # RulePath
    <3>1. path \in {SampleId(b, i) : i \in Samples(b)} \X Kind
      BY <2>2 DEF Artifacts
    <3>2. PICK i \in Samples(b) : path[1] = SampleId(b, i)
      BY <3>1
    <3>3. QED
      BY <1>5, <3>2
  <2>3. QED
    BY <2>1, <2>2
<1>6. ASSUME NEW i \in Samples(b)
      PROVE  /\ <<SampleId(b, i), "manifest">> \in Artifacts(b)
             /\ <<SampleId(b, i), "manifest">>[1] = SampleId(b, i)
  BY DEF Artifacts, Kind
<1>7. Untouched(b) => \A path \in Artifacts(b) : path[1] \notin Suspect
  BY <1>5 DEF Untouched
<1>8. Untouched(b) =>
          /\ \A i \in Samples(b) : NameLeft(SampleId(b, i)) = SampleId(b, i)
          /\ \A path \in Artifacts(b) : Digest(path, ArtifactOf(b, path)) = ArtifactOf(b, path)
  BY <1>7 DEF Untouched, NameLeft, Digest
<1>9. (\A path \in Artifacts(b) : path[1] \notin Suspect) => \A i \in Samples(b) : SampleId(b, i) \notin Suspect
  BY <1>6
<1>10. Untouched(b) <=>
          /\ \A path \in Artifacts(b) : Digest(path, ArtifactOf(b, path)) # Torn
          /\ \A i \in Samples(b) : NameLeft(SampleId(b, i)) # Redacted
  BY <1>3, <1>4, <1>7, <1>9 DEF Untouched
<1>11. QED
  BY <1>1, <1>8, <1>10

\* The files of the last build, where nothing else has happened since it ended.
LEMMA CalmFiles ==
    ASSUME PackInv, calm, AtRest
    PROVE  /\ last \in finished /\ last \in Builds
           /\ \A path \in Files(last) : path \in DOMAIN disk /\ Reads(path) = ContentOf(last, path)
<1>1. \A w \in Builder : build[w] = NoBuild
  BY DEF PackInv, PackShape, ActiveBuild, AtRest
<1>2. QED
  BY <1>1, SomeBuild DEF PackInv, PackShape, CalmInv, Reads

LEMMA PackRead ==
    ASSUME PackInv, ReadPack
    PROVE  PackInv'
<1>0. /\ UNCHANGED <<disk, build, report, finished, last, calm, builds, faults>> /\ replay.phase = "idle"
      /\ AtRest' <=> AtRest
  BY DEF ReadPack, AtRest
<1>1. replay' = [phase |-> "seal", pack |-> Reads(PackPath), differ |-> {}, calm |-> calm /\ AtRest]
  BY DEF ReadPack
<1>2. PackShape'
  BY <1>0, <1>1 DEF PackInv, PackShape
<1>3. CalmInv'
  <2>1. ASSUME calm, AtRest PROVE Reads(PackPath) = PackOf(last)
    BY <2>1, CalmFiles, Contents DEF Files
  <2>2. QED
    BY <1>0, <1>1, <2>1 DEF PackInv, CalmInv
<1>4. ReplayTellsTheTruth'
  BY <1>0 DEF PackInv, ReplayTellsTheTruth
<1>5. QED
  BY <1>2, <1>3, <1>4 DEF PackInv

LEMMA SealChecked ==
    ASSUME PackInv, CheckSeal
    PROVE  PackInv'
<1>0. /\ UNCHANGED <<disk, build, finished, last, calm, builds, faults>> /\ replay.phase = "seal"
      /\ AtRest' <=> AtRest
  BY DEF CheckSeal, AtRest
<1>c. ASSUME calm, replay.calm
      PROVE  AtRest /\ replay.pack = PackOf(last)
  BY <1>0, <1>c DEF PackInv, CalmInv
<1>1. CASE Sealed
  <2>1. /\ replay'.phase = "hash" /\ replay'.pack = replay.pack /\ replay'.calm = replay.calm
        /\ report' = report
    BY <1>0, <1>1 DEF CheckSeal, PackInv, PackShape
  <2>2. \E b \in finished : replay.pack = PackOf(b)
    BY <1>1 DEF Sealed, Reads, PackInv, PackShape
  <2>3. PackShape'
    BY <1>0, <2>1, <2>2 DEF PackInv, PackShape
  <2>4. CalmInv'
    <3>1. ASSUME calm, replay.calm
          PROVE  Untouched(last)
      <4>1. last \in Builds /\ replay.pack = PackOf(last)
        BY <1>c, <3>1 DEF PackInv, PackShape
      <4>2. QED
        BY <1>1, <4>1, LeftAlone DEF Sealed, WellFormed
    <3>2. QED
      BY <1>0, <2>1, <3>1 DEF PackInv, CalmInv
  <2>5. ReplayTellsTheTruth'
    BY <1>0, <2>1 DEF PackInv, ReplayTellsTheTruth
  <2>6. QED
    BY <2>3, <2>4, <2>5 DEF PackInv
<1>2. CASE ~Sealed
  <2>1. /\ report' = [status |-> "pending_review", eligible |-> FALSE, pack |-> Torn, of |-> last,
                      calm |-> replay.calm /\ calm]
        /\ replay'.phase = "idle"
    BY <1>0, <1>2 DEF CheckSeal, NoReplay
  <2>2. PackShape' /\ CalmInv'
    BY <1>0, <2>1 DEF PackInv, PackShape, CalmInv
  <2>3. ASSUME calm, replay.calm
        PROVE  last \in finished /\ ~Untouched(last)
    <3>1. /\ replay.pack = PackOf(last) /\ Reads(SealPath) = PackOf(last) /\ PackOf(last) # Torn
          /\ last \in Builds /\ last \in finished
      BY <1>c, <2>3, CalmFiles, Contents, TornAssumption DEF Files
    <3>2. QED
      BY <1>2, <3>1, LeftAlone DEF Sealed, WellFormed
  <2>4. ReplayTellsTheTruth'
    BY <1>0, <2>1, <2>3 DEF PackInv, ReplayTellsTheTruth
  <2>5. QED
    BY <2>2, <2>4 DEF PackInv
<1>3. QED
  BY <1>1, <1>2

LEMMA ArtifactsHashed ==
    ASSUME PackInv, HashArtifacts
    PROVE  PackInv'
<1>0. /\ UNCHANGED <<disk, build, report, finished, last, calm, builds, faults>> /\ replay.phase = "hash"
      /\ AtRest' <=> AtRest
  BY DEF HashArtifacts, AtRest
<1>1. /\ replay'.phase = "judge" /\ replay'.pack = replay.pack /\ replay'.calm = replay.calm
      /\ replay'.differ = {path \in DOMAIN replay.pack.hashes : Reads(path) # replay.pack.hashes[path]}
  BY DEF HashArtifacts
<1>2. PackShape'
  BY <1>0, <1>1 DEF PackInv, PackShape
<1>3. CalmInv'
  <2> SUFFICES ASSUME calm, replay.calm PROVE replay'.differ = {}
    BY <1>0, <1>1 DEF PackInv, CalmInv
  <2>1. AtRest /\ replay.pack = PackOf(last) /\ Untouched(last) /\ last \in Builds
    BY <1>0 DEF PackInv, PackShape, CalmInv
  <2>2. \A path \in Artifacts(last) :
            Reads(path) = ArtifactOf(last, path) /\ Digest(path, ArtifactOf(last, path)) = ArtifactOf(last, path)
    BY <2>1, CalmFiles, Contents, LeftAlone DEF Files
  <2>3. replay.pack.hashes = [path \in Artifacts(last) |-> Digest(path, ArtifactOf(last, path))]
    BY <2>1, PackFields
  <2>4. QED
    BY <1>1, <2>2, <2>3
<1>4. ReplayTellsTheTruth'
  BY <1>0 DEF PackInv, ReplayTellsTheTruth
<1>5. QED
  BY <1>2, <1>3, <1>4 DEF PackInv

\* What the replay recomputes of the last build, where nothing else has happened.
LEMMA Recomputed ==
    ASSUME PackInv, calm, replay.calm, replay.phase = "judge", NEW i \in Samples(last),
           NEW m, m = last.runs[i].manifest, NEW d, d = last.runs[i].decision
    PROVE  /\ i \in DOMAIN replay.pack.ids /\ i \in Readable
           /\ Of(i, "manifest") = Frozen(m) /\ Of(i, "decision") = Frozen(d)
           /\ Of(i, "outcome") = last.runs[i].outcome
           /\ Of(i, "evaluation") = EvaluationsOf(last)[i]
           /\ Validated[i] = validate_run_manifest(Frozen(m))
           /\ Evaluated[i] = evaluate_decision(Frozen(d), last.runs[i].outcome)
           /\ m \in Manifest /\ d \in Decision
<1>1. AtRest /\ replay.pack = PackOf(last) /\ last \in Builds /\ Untouched(last)
  BY DEF PackInv, CalmInv, PackShape
<1>2. DOMAIN replay.pack.ids = Samples(last) /\ replay.pack.ids[i] = SampleId(last, i)
  <2>1. PackOf(last).ids = [j \in Samples(last) |-> NameLeft(SampleId(last, j))]
    BY PackFields
  <2>2. NameLeft(SampleId(last, i)) = SampleId(last, i)
    BY <1>1, LeftAlone
  <2>3. QED
    BY <1>1, <2>1, <2>2
<1>3. ASSUME NEW kind \in Kind
      PROVE  Of(i, kind) = FrozenOf(last.runs[i], kind) /\ Of(i, kind) # Torn
  <2>1. Reads(<<SampleId(last, i), kind>>) = ArtifactOf(last, <<SampleId(last, i), kind>>)
    BY <1>1, CalmFiles, ArtifactAt, Contents DEF Files
  <2>2. Of(i, kind) = Reads(<<SampleId(last, i), kind>>)
    BY <1>2 DEF Of
  <2>3. QED
    BY <1>1, <2>1, <2>2, ArtifactAt, TornAssumption
<1>4. i \in DOMAIN replay.pack.ids /\ i \in Readable
  BY <1>2, <1>3 DEF Readable
<1>5. /\ Of(i, "manifest") = Frozen(m) /\ Of(i, "decision") = Frozen(d)
      /\ Of(i, "outcome") = last.runs[i].outcome
      /\ Of(i, "evaluation") = EvaluationsOf(last)[i]
  BY <1>3 DEF Kind, FrozenOf, EvaluationsOf
<1>6. m \in Manifest /\ d \in Decision
  BY <1>1, RunsOf DEF Run
<1>7. QED
  BY <1>4, <1>5, <1>6 DEF Validated, Evaluated

\* A run that was declared safe is frozen as it is; one that was not gives itself away.
LEMMA Declared ==
    ASSUME NEW m \in Manifest, NEW d \in Decision, NEW o
    PROVE  /\ m.declared => Frozen(m) = m
           /\ d.declared => Frozen(d) = d
           /\ Frozen(m).declared /\ Frozen(d).declared
           /\ ~m.declared => validate_run_manifest(Frozen(m)) # validate_run_manifest(m)
           /\ ~d.declared => evaluate_decision(Frozen(d), o) # evaluate_decision(d, o)
<1>1. /\ m.declared => Frozen(m) = m
      /\ d.declared => Frozen(d) = d
      /\ Frozen(m).declared /\ Frozen(d).declared /\ Frozen(d).label = d.label
  BY DEF Frozen, Manifest, Decision
<1>2. ~m.declared => validate_run_manifest(Frozen(m)) # validate_run_manifest(m)
  BY <1>1 DEF validate_run_manifest
<1>3. evaluate_decision(d, o).declared = d.declared
  BY DEF evaluate_decision, Graded, Decision, Label
<1>4. evaluate_decision(Frozen(d), o).declared = Frozen(d).declared
  BY <1>1 DEF evaluate_decision, Graded, Decision, Label
<1>5. QED
  BY <1>1, <1>2, <1>3, <1>4

LEMMA NoneTrail ==
    ASSUME NEW n \in Nat
    PROVE  Trailing(n, {}) = 0
<1>1. {i \in 1 .. n : i .. n \subseteq {}} = {}
  <2> SUFFICES ASSUME NEW i \in 1 .. n, i .. n \subseteq {} PROVE FALSE
    OBVIOUS
  <2>1. i \in i .. n
    OBVIOUS
  <2>2. QED
    BY <2>1
<1>2. QED
  BY <1>1, FS_EmptySet DEF Trailing

LEMMA PackJudged ==
    ASSUME PackInv, Judge
    PROVE  PackInv'
<1> DEFINE n == Len(replay.pack.ids)
           m == Metrics(n, Validated, Evaluated)
           expected == _review_status(n, FailsAgain, m)
           mismatch == \/ replay.differ # {} \/ Reads(RulePath) = Torn
                       \/ \E i \in 1 .. n : Mismatched(i)
                       \/ m # replay.pack.metrics
                       \/ Cardinality(FailsAgain) # Cardinality(replay.pack.failed)
                       \/ Trailing(n, FailsAgain) # Trailing(n, replay.pack.failed)
                       \/ expected # replay.pack.review_status
                       \/ (expected = "ready_for_review") # replay.pack.eligible
           status == IF Trailing(n, FailsReplay) >= 3 THEN "blocked"
                     ELSE IF FailsReplay # {} \/ mismatch THEN "pending_review" ELSE "verified"
<1>0. /\ replay.phase = "judge" /\ replay' = NoReplay
      /\ report' = [status |-> status, pack |-> replay.pack, of |-> last, calm |-> replay.calm /\ calm,
                    eligible |-> status = "verified" /\ FailsReplay = {} /\ ~promotion_blockers(m)]
      /\ UNCHANGED <<disk, build, finished, last, calm, builds, faults>>
  BY DEF Judge
<1>1. PICK b \in finished : replay.pack = PackOf(b)
  BY <1>0 DEF PackInv, PackShape
<1>2. b \in Builds /\ Samples(b) = 1 .. n /\ n \in Nat /\ DOMAIN replay.pack.ids = 1 .. n /\ n = Len(b.runs)
  <2>1. b \in Builds
    BY DEF PackInv, PackShape
  <2>2. PackOf(b).ids = [i \in Samples(b) |-> NameLeft(SampleId(b, i))]
    BY PackFields
  <2>3. Samples(b) = 1 .. Len(b.runs) /\ Len(b.runs) \in Nat
    BY <2>1, RunsOf
  <2>4. n = Len(b.runs)
    BY <1>1, <2>2, <2>3
  <2>5. QED
    BY <1>1, <2>1, <2>2, <2>3, <2>4
<1>3. ASSUME status = "verified"
      PROVE  FailsReplay = {} /\ ~mismatch
  BY <1>3
\* What is verified had not failed when it was frozen, and is as eligible as it was then.
<1>4. ASSUME status = "verified"
      PROVE  FailedOf(b) = {} /\ report'.eligible = PackOf(b).eligible
  <2>1. FailsReplay = {} /\ ~mismatch
    BY <1>3, <1>4
  <2>2. FailsAgain = {}
    BY <2>1 DEF FailsReplay, FailsAgain
  <2>3. FailedOf(b) \subseteq 1 .. n /\ replay.pack.failed = FailedOf(b)
    BY <1>1, <1>2, PackFields DEF FailedOf
  <2>4. \A i \in 1 .. n : ~Mismatched(i)
    BY <2>1
  <2>5. FailedOf(b) = {}
    BY <2>2, <2>3, <2>4 DEF Mismatched
  <2>6. replay.pack.eligible = (expected = "ready_for_review") /\ expected \in {"challenger", "ready_for_review"}
    <3>1. expected = IF promotion_blockers(m) THEN "challenger" ELSE "ready_for_review"
      BY <1>2, <2>2, NoneTrail DEF _review_status
    <3>2. replay.pack.eligible \in BOOLEAN
      BY <1>1, PackFields
    <3>3. QED
      BY <2>1, <3>1, <3>2
  <2>7. expected = IF promotion_blockers(m) THEN "challenger" ELSE "ready_for_review"
    BY <1>2, <2>2, NoneTrail DEF _review_status
  <2>8. report'.eligible = ~promotion_blockers(m)
    BY <1>0, <1>4, <2>1
  <2>9. QED
    BY <1>1, <2>5, <2>6, <2>7, <2>8
<1>5. ASSUME calm, replay.calm
      PROVE  /\ last \in finished /\ Untouched(last)
             /\ status = "verified" <=> Clean(last)
  <2>1. /\ AtRest /\ replay.pack = PackOf(last) /\ replay.differ = {} /\ last \in finished /\ last \in Builds
        /\ Untouched(last)
    BY <1>0, <1>5 DEF PackInv, PackShape, CalmInv
  <2>2. n = Len(last.runs) /\ Samples(last) = 1 .. n
    <3>1. PackOf(last).ids = [i \in Samples(last) |-> NameLeft(SampleId(last, i))]
      BY PackFields
    <3>2. Samples(last) = 1 .. Len(last.runs) /\ Len(last.runs) \in Nat
      BY <2>1, RunsOf
    <3>3. n = Len(last.runs)
      BY <2>1, <3>1, <3>2
    <3>4. QED
      BY <3>2, <3>3
  <2>3. ASSUME NEW i \in 1 .. n
        PROVE  /\ i \in Readable
               /\ Of(i, "manifest").declared /\ Of(i, "decision").declared
               /\ Of(i, "evaluation") = EvaluationsOf(last)[i]
               /\ ~last.runs[i].decision.declared => Evaluated[i] # EvaluationsOf(last)[i]
               /\ last.runs[i].decision.declared => Evaluated[i] = EvaluationsOf(last)[i]
               /\ last.runs[i].manifest.declared => Validated[i] = ValidationsOf(last)[i]
    <3> DEFINE m0 == last.runs[i].manifest
               d0 == last.runs[i].decision
    <3>1. i \in Samples(last)
      BY <2>2
    <3>2. /\ i \in Readable
          /\ Of(i, "manifest") = Frozen(m0) /\ Of(i, "decision") = Frozen(d0)
          /\ Of(i, "evaluation") = EvaluationsOf(last)[i]
          /\ Validated[i] = validate_run_manifest(Frozen(m0))
          /\ Evaluated[i] = evaluate_decision(Frozen(d0), last.runs[i].outcome)
          /\ m0 \in Manifest /\ d0 \in Decision
      BY <1>0, <1>5, <3>1, Recomputed
    <3>3. /\ EvaluationsOf(last)[i] = evaluate_decision(d0, last.runs[i].outcome)
          /\ ValidationsOf(last)[i] = validate_run_manifest(m0)
      BY <3>1 DEF EvaluationsOf, ValidationsOf
    <3>4. /\ m0.declared => Frozen(m0) = m0
          /\ d0.declared => Frozen(d0) = d0
          /\ Frozen(m0).declared /\ Frozen(d0).declared
          /\ ~d0.declared => evaluate_decision(Frozen(d0), last.runs[i].outcome)
                              # evaluate_decision(d0, last.runs[i].outcome)
      BY <3>2, Declared
    <3> HIDE DEF m0, d0
    <3>5. QED
      BY <3>2, <3>3, <3>4 DEF m0, d0
  <2>4. ASSUME Clean(last) PROVE status = "verified"
    <3>1. ASSUME NEW i \in 1 .. n
          PROVE  /\ Evaluated[i] = EvaluationsOf(last)[i] /\ Validated[i] = ValidationsOf(last)[i]
                 /\ ~Fails(Validated[i], Evaluated[i])
      <4>1. ~Fails(ValidationsOf(last)[i], EvaluationsOf(last)[i]) /\ last.runs[i].decision.declared
        BY <2>2, <2>4 DEF Clean, FailedOf
      <4>2. ValidationsOf(last)[i].ok /\ ValidationsOf(last)[i] = validate_run_manifest(last.runs[i].manifest)
        BY <2>2, <4>1 DEF Fails, ValidationsOf
      <4>3. last.runs[i].manifest.declared
        <5>1. validate_run_manifest(last.runs[i].manifest).ok = (/\ last.runs[i].manifest.declared
                  /\ last.runs[i].manifest.complete /\ last.runs[i].manifest.late = 0)
          BY DEF validate_run_manifest
        <5>2. QED
          BY <4>2, <5>1
      <4>4. QED
        BY <2>3, <4>1, <4>3
    <3>2. Readable = 1 .. n /\ DOMAIN replay.pack.ids = 1 .. n
      BY <1>2, <2>3 DEF Readable
    <3>3. Validated = ValidationsOf(last) /\ Evaluated = EvaluationsOf(last)
      <4>1. /\ DOMAIN Validated = 1 .. n /\ DOMAIN ValidationsOf(last) = 1 .. n
            /\ Validated = [i \in 1 .. n |-> Validated[i]]
            /\ ValidationsOf(last) = [i \in 1 .. n |-> ValidationsOf(last)[i]]
        BY <2>2, <3>2 DEF Validated, ValidationsOf
      <4>2. /\ Evaluated = [i \in 1 .. n |-> Evaluated[i]]
            /\ EvaluationsOf(last) = [i \in 1 .. n |-> EvaluationsOf(last)[i]]
        BY <2>2, <3>2 DEF Evaluated, EvaluationsOf
      <4>3. QED
        BY <3>1, <4>1, <4>2
    <3>4. FailsAgain = {} /\ FailedOf(last) = {} /\ replay.pack.failed = {}
      <4>1. FailsAgain = {}
        BY <3>1, <3>2 DEF FailsAgain
      <4>2. QED
        BY <2>1, <2>4, <4>1, PackFields DEF Clean
    <3>5. \A i \in 1 .. n : ~Mismatched(i)
      <4>1. /\ replay.pack.validations = ValidationsOf(last)
            /\ replay.pack.grades = [i \in Samples(last) |-> EvaluationsOf(last)[i].grade]
        BY <2>1, PackFields
      <4>2. QED
        BY <2>2, <2>3, <3>1, <3>4, <4>1 DEF Mismatched
    <3>6. FailsReplay = {}
      BY <2>1, <3>2, <3>4, <3>5 DEF FailsReplay
    <3>7. m = replay.pack.metrics /\ expected = replay.pack.review_status
          /\ (expected = "ready_for_review") = replay.pack.eligible
      <4>1. PackOf(last).metrics = Metrics(Len(last.runs), ValidationsOf(last), EvaluationsOf(last))
        BY PackFields
      <4>2. m = PackOf(last).metrics
        BY <2>2, <3>3, <4>1
      <4>3. PackOf(last).review_status = _review_status(Len(last.runs), FailedOf(last), PackOf(last).metrics)
        BY PackFields
      <4>4. expected = PackOf(last).review_status
        BY <2>2, <3>4, <4>2, <4>3
      <4>5. PackOf(last).eligible = (PackOf(last).review_status = "ready_for_review")
        BY PackFields
      <4>6. QED
        BY <2>1, <4>2, <4>4, <4>5
    <3>8. Reads(RulePath) # Torn
      <4>1. RulePath \in Artifacts(last) /\ RulePath \in Files(last)
        BY <2>1, PathsApart DEF Files
      <4>2. QED
        BY <1>5, <2>1, <4>1, CalmFiles, Contents
    <3>9. ~mismatch
      BY <2>1, <3>4, <3>5, <3>7, <3>8
    <3>10. Trailing(n, FailsReplay) = 0
      BY <1>2, <3>6, NoneTrail
    <3> HIDE DEF mismatch
    <3>11. QED
      BY <3>6, <3>9, <3>10
  <2>5. ASSUME status = "verified" PROVE Clean(last)
    <3>1. FailsReplay = {} /\ ~mismatch
      BY <1>3, <2>5
    <3>2. FailedOf(last) = {}
      <4>1. PackOf(b).failed = FailedOf(b) /\ PackOf(last).failed = FailedOf(last)
        BY PackFields
      <4>2. QED
        BY <1>1, <1>4, <2>1, <2>5, <4>1
    <3>3. \A i \in 1 .. n : last.runs[i].decision.declared
      BY <2>3, <3>1 DEF Mismatched
    <3>4. QED
      BY <2>2, <3>2, <3>3 DEF Clean
  <2>6. QED
    BY <2>1, <2>4, <2>5
<1>6. PackShape'
  <2>1. replay'.phase = "idle" /\ report'.status \in {"pending_review", "blocked", "verified"}
    BY <1>0 DEF NoReplay
  <2>2. QED
    BY <1>0, <2>1 DEF PackInv, PackShape
<1>7. CalmInv'
  BY <1>0 DEF PackInv, CalmInv, NoReplay, AtRest
<1>8. ReplayTellsTheTruth'
  <2>1. /\ report'.status = status /\ report'.pack = replay.pack /\ report'.of = last
        /\ report'.calm = (replay.calm /\ calm) /\ finished' = finished
    BY <1>0
  <2> HIDE DEF status
  <2>2. report'.status = "verified" =>
            report'.pack = PackOf(b) /\ FailedOf(b) = {} /\ report'.eligible = PackOf(b).eligible
    BY <1>1, <1>4, <2>1
  <2>3. QED
    BY <1>5, <2>1, <2>2 DEF ReplayTellsTheTruth
<1>9. QED
  BY <1>6, <1>7, <1>8 DEF PackInv

LEMMA PackReplayKilled ==
    ASSUME PackInv, ReplayKilled
    PROVE  PackInv'
<1>1. /\ replay' = NoReplay /\ replay'.phase = "idle"
      /\ UNCHANGED <<disk, build, report, finished, last, calm, builds, faults>>
  BY DEF ReplayKilled, NoReplay
<1>2. PackShape' /\ CalmInv' /\ ReplayTellsTheTruth'
  BY <1>1 DEF PackInv, PackShape, CalmInv, ReplayTellsTheTruth, AtRest
<1>3. QED
  BY <1>2 DEF PackInv

LEMMA PackStep == PackInv /\ [PackNext]_packVars => PackInv'
<1> SUFFICES ASSUME PackInv, [PackNext]_packVars PROVE PackInv'
  OBVIOUS
<1>1. CASE UNCHANGED packVars
  BY <1>1 DEF packVars, PackInv, PackShape, CalmInv, ReplayTellsTheTruth, AtRest
<1>2. CASE PackNext
  BY <1>2, BuildBegins, FileWritten, BuildStopped, FileEdited, PackRead, SealChecked, ArtifactsHashed, PackJudged,
     PackReplayKilled DEF PackNext
<1>3. QED
  BY <1>1, <1>2

LEMMA PackInvType == PackInv => PackTypeOK
<1> SUFFICES ASSUME PackInv PROVE PackTypeOK
  OBVIOUS
<1>1. ASSUME NEW w \in Builder
      PROVE  /\ build[w].of \in Builds /\ build[w].todo \subseteq Files(build[w].of)
             /\ build[w].phase = "writes" <=> SealPath \in build[w].todo
  <2>1. CASE build[w] = NoBuild
    BY <2>1, SomeBuild
  <2>2. CASE build[w] \in ActiveBuild
    BY <2>2 DEF ActiveBuild, PackInv, PackShape
  <2>3. QED
    BY <2>1, <2>2 DEF PackInv, PackShape
<1>2. QED
  BY <1>1 DEF PackInv, PackShape, PackTypeOK

\* The state has its shape: what is left to write is the build's, a pack is some build's,
\* and there is a seal only of a build that wrote all it had to.
THEOREM PackTypeCorrect == PackSpec => []PackTypeOK
<1>1. PackSpec => []PackInv
  BY PackInitial, PackStep, PTL DEF PackSpec
<1>2. QED
  BY <1>1, PackInvType, PTL

\* A replay says verified of finished packs of runs that passed, and of them alone.
THEOREM ReplaysTellTheTruth == PackSpec => []ReplayTellsTheTruth
<1>1. PackSpec => []PackInv
  BY PackInitial, PackStep, PTL DEF PackSpec
<1>2. PackInv => ReplayTellsTheTruth
  BY DEF PackInv
<1>3. QED
  BY <1>1, <1>2, PTL

-----------------------------------------------------------------------------
(* The offline loop, for any processes, places, commands and prices.       *)

Whole(job) ==
    DOMAIN job = {"at", "loops", "in", "run", "horizon", "results", "outcome", "evaluation"}

Job(job) ==
    /\ Whole(job)
    /\ job.at \in 1 .. 9 /\ job.loops \in BOOLEAN /\ (~job.loops => job.at <= 4)
    /\ job.run \in DOMAIN dirs /\ job.horizon \in Horizon /\ job.results \in Captured

\* The files a process has written so far, whoever else writes in its directory.
Evidenced(job) ==
    LET files == dirs[job.run]
    IN  /\ job.at > 1 => "artifacts" \in DOMAIN files /\ files["artifacts"] = job.results
        /\ job.at > 2 => "manifest" \in DOMAIN files /\ files["manifest"] = Quality(job.results)
        /\ job.at > 3 => "envelope" \in DOMAIN files /\ files["envelope"] = build_run_envelope(job.results)
        /\ IF job.at > 4
           THEN "decision" \in DOMAIN files /\ files["decision"] = derive_decision(job.results)
           ELSE "decision" \notin DOMAIN files

Undisturbed(job) == job.in = job.run[1] /\ job.run \notin disturbed

\* Those a loop has written after its decision, where nobody disturbs it.
Told(job) ==
    LET files == dirs[job.run]
        file  == OutcomeFile(job.horizon)
    IN  /\ \A h \in Horizon \ {job.horizon} : OutcomeFile(h) \notin DOMAIN files
        /\ job.at > 5 => /\ file \in DOMAIN files /\ files[file] = job.outcome
                         /\ job.outcome \in Outcomes(files, job.horizon, ToyPrices)
        /\ job.at > 6 => /\ "eval" \in DOMAIN files /\ files["eval"] = job.evaluation
                         /\ job.evaluation = Judged(files["decision"], job.outcome)
        /\ job.at > 7 => /\ "case" \in DOMAIN files
                         /\ files["case"] = [status |-> "normalized", decision |-> files["decision"],
                                             outcome |-> job.outcome, evaluation |-> job.evaluation]
        /\ job.at > 8 => "memory" \in DOMAIN files /\ files["memory"] = files["case"]

Grounded(files) ==
    \E rs \in Captured :
        /\ {"artifacts", "manifest", "envelope"} \subseteq DOMAIN files
        /\ files["artifacts"] = rs /\ files["manifest"] = Quality(rs)
        /\ files["envelope"] = build_run_envelope(rs) /\ files["decision"] = derive_decision(rs)

LoopInv ==
    /\ DOMAIN dirs \subseteq Place \X (1 .. MaxSiblings) /\ DOMAIN work = Worker
    /\ \A run \in DOMAIN dirs, m \in 1 .. MaxSiblings : m < run[2] => <<run[1], m>> \in DOMAIN dirs
    /\ {s.run : s \in ended} \cup disturbed \subseteq DOMAIN dirs
    /\ runs \in 0 .. MaxRuns /\ mishaps \in 0 .. MaxMishaps
    /\ \A w \in Worker : work[w] # NoWork =>
        /\ Job(work[w]) /\ Evidenced(work[w])
        /\ work[w].loops /\ Undisturbed(work[w]) => Told(work[w])
        /\ \A v \in Worker \ {w} : work[v] # NoWork => work[v].run # work[w].run
        /\ \A s \in ended : s.run # work[w].run
    /\ \A run \in DOMAIN dirs : Legal(dirs[run], "decision") => Grounded(dirs[run])
    /\ \A s \in ended : s.in = s.run[1] /\ s.run \notin disturbed => OneStory(dirs[s.run], s.horizon)

LEMMA StepNames ==
    /\ Len(FileOrder) = 9 /\ DOMAIN FileOrder = 1 .. 9
    /\ FileOrder[1] = "artifacts" /\ FileOrder[2] = "manifest" /\ FileOrder[3] = "envelope"
    /\ FileOrder[4] = "decision" /\ FileOrder[5] = "outcome" /\ FileOrder[6] = "eval" /\ FileOrder[7] = "case"
    /\ FileOrder[8] = "memory" /\ FileOrder[9] = "registry"
  BY DEF FileOrder

LEMMA LoopInitial == LoopInit => LoopInv
<1> SUFFICES ASSUME LoopInit PROVE LoopInv
  OBVIOUS
<1>1. DOMAIN dirs = {}
  BY DEF LoopInit
<1>2. 0 \in 0 .. MaxRuns /\ 0 \in 0 .. MaxMishaps
  BY LoopAssumption
<1>3. QED
  BY <1>1, <1>2 DEF LoopInit, LoopInv

\* What the three files of a capture say of its commands agrees.
LEMMA EvidenceAgrees ==
    ASSUME NEW files, Grounded(files)
    PROVE  RestsOnEvidence(files)
<1> PICK rs \in Captured :
        /\ {"artifacts", "manifest", "envelope"} \subseteq DOMAIN files
        /\ files["artifacts"] = rs /\ files["manifest"] = Quality(rs)
        /\ files["envelope"] = build_run_envelope(rs) /\ files["decision"] = derive_decision(rs)
  BY DEF Grounded
<1> DEFINE e == build_run_envelope(rs)
           called == [i \in DOMAIN rs |-> _actual_tool_status(rs[i])]
<1>1. e.results = rs /\ e.calls = called /\ e.state = _failure_state(called)
  BY DEF build_run_envelope
<1>2. validate_run_envelope(e)
  BY <1>1 DEF validate_run_envelope
<1>3. \A i \in DOMAIN rs : called[i] = "failed" <=> rs[i].returncode # 0
  BY LoopAssumption DEF _actual_tool_status
<1>4. {i \in DOMAIN called : called[i] = "failed"} = Erred(rs)
  BY <1>3 DEF Erred
<1>5. e.state.status # "completed" <=> Erred(rs) # {}
  <2> DEFINE trailing == Trailing(Len(called), Erred(rs))
  <2>1. _failure_state(called) =
            [count |-> Cardinality(Erred(rs)), trailing |-> trailing,
             status |-> IF Erred(rs) = {} THEN "completed" ELSE IF trailing >= 3 THEN "blocked" ELSE "pending_review"]
    <3> HIDE DEF called
    <3>1. QED
      BY <1>4 DEF _failure_state
  <2> HIDE DEF trailing
  <2>2. QED
    BY <1>1, <2>1
<1>6. derive_decision(rs).label = "ERROR" <=> Erred(rs) # {}
  BY DEF derive_decision
<1>7. Erred(rs) # {} <=> \E i \in DOMAIN Quality(rs) : Quality(rs)[i] = "error"
  BY DEF Erred, Quality
<1>8. QED
  BY <1>1, <1>2, <1>5, <1>6, <1>7, CutAssumption DEF RestsOnEvidence, Legal

\* An outcome depends on two files only.
LEMMA OutcomesOf ==
    ASSUME NEW files, NEW others, NEW horizon,
           "decision" \in DOMAIN files <=> "decision" \in DOMAIN others,
           files["decision"] = others["decision"], files["artifacts"] = others["artifacts"]
    PROVE  Outcomes(files, horizon, ToyPrices) = Outcomes(others, horizon, ToyPrices)
  BY DEF Outcomes

LEMMA OutcomeFiles ==
    /\ \A h \in Horizon : OutcomeFile(h) \in {"outcome_d1", "outcome_d3"}
    /\ \A h, k \in Horizon : OutcomeFile(h) = OutcomeFile(k) => h = k
  BY DEF OutcomeFile, Horizon

\* What a write leaves alone.
LEMMA Wrote ==
    ASSUME NEW run \in DOMAIN dirs, NEW name, NEW content, dirs' = Put(run, name, content)
    PROVE  /\ DOMAIN dirs' = DOMAIN dirs /\ DOMAIN dirs'[run] = DOMAIN dirs[run] \cup {name}
           /\ \A r \in DOMAIN dirs : r # run => dirs'[r] = dirs[r]
           /\ \A f \in DOMAIN dirs[run] : f # name => dirs'[run][f] = dirs[run][f]
           /\ dirs'[run][name] = content
  BY DEF Put

LEMMA LoopCaptures ==
    ASSUME LoopInv, NEW w \in Worker, NEW loops \in BOOLEAN, NEW results \in Captured,
           capture_run(w, loops, results)
    PROVE  LoopInv'
<1>1. PICK in \in Place, under \in Place, n \in 1 .. MaxSiblings, horizon \in Horizon :
        /\ unique_run_dir(under, n)
        /\ dirs' = [run \in DOMAIN dirs \cup {<<under, n>>} |-> IF run \in DOMAIN dirs THEN dirs[run] ELSE << >>]
        /\ work' = [work EXCEPT ![w] = [at |-> 1, loops |-> loops, in |-> in, run |-> <<under, n>>,
                                        horizon |-> horizon, results |-> results, outcome |-> Nothing,
                                        evaluation |-> Nothing]]
  BY DEF capture_run
<1> DEFINE new == <<under, n>>
           job == [at |-> 1, loops |-> loops, in |-> in, run |-> <<under, n>>, horizon |-> horizon,
                   results |-> results, outcome |-> Nothing, evaluation |-> Nothing]
<1>2. UNCHANGED <<ended, disturbed, mishaps>> /\ runs' = runs + 1 /\ runs < MaxRuns
  BY DEF capture_run
<1>3. /\ DOMAIN dirs' = DOMAIN dirs \cup {new} /\ new \notin DOMAIN dirs
      /\ \A r \in DOMAIN dirs : dirs'[r] = dirs[r]
      /\ DOMAIN dirs'[new] = {}
  BY <1>1 DEF unique_run_dir
<1>4. /\ DOMAIN work' = Worker /\ work'[w] = job
      /\ \A v \in Worker \ {w} : work'[v] = work[v]
  BY <1>1 DEF LoopInv
<1>5. DOMAIN dirs' \subseteq Place \X (1 .. MaxSiblings)
  BY <1>3 DEF LoopInv
<1>6. ASSUME NEW r \in DOMAIN dirs', NEW m \in 1 .. MaxSiblings, m < r[2]
      PROVE  <<r[1], m>> \in DOMAIN dirs'
  <2>1. CASE r \in DOMAIN dirs
    BY <1>3, <1>6, <2>1 DEF LoopInv
  <2>2. CASE r = new
    <3>1. m \in 1 .. n - 1
      BY <1>6, <2>2, LoopAssumption
    <3>2. QED
      BY <1>1, <1>3, <2>2, <3>1 DEF unique_run_dir
  <2>3. QED
    BY <1>3, <2>1, <2>2
<1>7. ({s.run : s \in ended} \cup disturbed \subseteq DOMAIN dirs)'
  BY <1>2, <1>3 DEF LoopInv
<1>8. runs' \in 0 .. MaxRuns /\ mishaps' \in 0 .. MaxMishaps
  BY <1>2, LoopAssumption DEF LoopInv
<1>9. ASSUME NEW v \in Worker, work'[v] # NoWork
      PROVE  /\ Job(work[v])' /\ Evidenced(work[v])'
             /\ (work[v].loops /\ Undisturbed(work[v]) => Told(work[v]))'
             /\ \A x \in Worker \ {v} : work'[x] # NoWork => work'[x].run # work'[v].run
             /\ \A s \in ended' : s.run # work'[v].run
  <2>1. CASE v = w
    <3>1. Job(job)'
      BY <1>3, LoopAssumption DEF Job, Whole, capture_run
    <3>2. Evidenced(job)' /\ Told(job)'
      BY <1>3 DEF Evidenced, Told
    <3>3. \A x \in Worker \ {v} : work'[x] # NoWork => work'[x].run # new
      BY <1>3, <1>4, <2>1 DEF LoopInv, Job
    <3>4. \A s \in ended' : s.run # new
      BY <1>2, <1>3 DEF LoopInv
    <3>5. QED
      BY <1>4, <2>1, <3>1, <3>2, <3>3, <3>4
  <2>2. CASE v # w
    <3>1. work'[v] = work[v] /\ work[v] # NoWork
      BY <1>4, <1>9, <2>2
    <3>2. work[v].run \in DOMAIN dirs /\ dirs'[work[v].run] = dirs[work[v].run]
      BY <1>3, <3>1 DEF LoopInv, Job
    <3>3. Job(work[v])'
      BY <1>3, <3>1 DEF LoopInv, Job
    <3>4. Evidenced(work[v])'
      BY <3>1, <3>2 DEF LoopInv, Evidenced
    <3>5. (work[v].loops /\ Undisturbed(work[v]) => Told(work[v]))'
      BY <1>2, <3>1, <3>2 DEF LoopInv, Told, Undisturbed
    <3>6. \A x \in Worker \ {v} : work'[x] # NoWork => work'[x].run # work'[v].run
      BY <1>3, <1>4, <3>1, <3>2 DEF LoopInv
    <3>7. QED
      BY <1>2, <3>1, <3>3, <3>4, <3>5, <3>6 DEF LoopInv
  <2>3. QED
    BY <2>1, <2>2
<1>10. ASSUME NEW r \in DOMAIN dirs', Legal(dirs[r], "decision")' PROVE Grounded(dirs[r])'
  BY <1>3, <1>10 DEF LoopInv, Legal, Grounded
<1>11. ASSUME NEW s \in ended', s.in = s.run[1], s.run \notin disturbed' PROVE OneStory(dirs[s.run], s.horizon)'
  <2>1. s \in ended /\ s.run \in DOMAIN dirs /\ dirs'[s.run] = dirs[s.run]
    BY <1>2, <1>3, <1>11 DEF LoopInv
  <2>2. OneStory(dirs[s.run], s.horizon)
    BY <1>2, <1>11, <2>1 DEF LoopInv
  <2>3. QED
    BY <2>1, <2>2
<1>12. QED
  BY <1>4, <1>5, <1>6, <1>7, <1>8, <1>9, <1>10, <1>11 DEF LoopInv

\* A process writes only where there is a directory, and elsewhere than in its own only
\* an outcome of another place.
LEMMA TargetThere ==
    ASSUME LoopInv, NEW job, Job(job), Made(job) # {}
    PROVE  /\ Target(job) \in DOMAIN dirs
           /\ Target(job) # job.run => job.at = 5 /\ job.in # job.run[1]
<1>1. CASE job.at # 5
  <2>1. job.at \in {1, 2, 3, 4, 6, 7, 8, 9} /\ job.run \in DOMAIN dirs
    BY <1>1 DEF Job
  <2>2. FileOrder[job.at] # "outcome"
    BY <2>1, StepNames
  <2>3. QED
    BY <2>1, <2>2 DEF Target
<1>2. CASE job.at = 5
  <2> DEFINE files == IF Target(job) \in DOMAIN dirs THEN dirs[Target(job)] ELSE << >>
  <2>1. Made(job) = Outcomes(files, job.horizon, ToyPrices)
    BY <1>2, StepNames DEF Made
  <2>2. "decision" \in DOMAIN files
    BY <2>1 DEF Outcomes
  <2>3. Target(job) \in DOMAIN dirs
    BY <2>2
  <2>4. Target(job) = <<job.in, job.run[2]>>
    BY <1>2, StepNames DEF Target
  <2>5. job.run = <<job.run[1], job.run[2]>>
    BY DEF Job, LoopInv
  <2>6. QED
    BY <1>2, <2>3, <2>4, <2>5
<1>3. QED
  BY <1>1, <1>2

Evidence == {"artifacts", "manifest", "envelope", "decision"}

LEMMA FileNames ==
    ASSUME NEW job, Job(job)
    PROVE  /\ job.at < 5 => FileName(job) = FileOrder[job.at] /\ FileName(job) \in Evidence
           /\ job.at = 5 => FileName(job) = OutcomeFile(job.horizon)
           /\ job.at > 5 => FileName(job) = FileOrder[job.at]
           /\ job.at > 4 => FileName(job) \notin Evidence
           /\ job.at # 5 => \A h \in Horizon : FileName(job) # OutcomeFile(h)
<1>1. job.at \in 1 .. 9 /\ job.horizon \in Horizon
  BY DEF Job
<1>2. QED
  BY <1>1, StepNames, OutcomeFiles DEF FileName, Evidence

\* A write disturbs no process but those of the directory, and these where it is nobody's own.
LEMMA OthersGoOn ==
    ASSUME LoopInv, NEW run \in DOMAIN dirs, NEW name, NEW content, dirs' = Put(run, name, content),
           disturbed \subseteq disturbed', NEW v \in Worker, work'[v] = work[v], work[v] # NoWork,
           work[v].run # run \/ (run \in disturbed' /\ name \notin Evidence)
    PROVE  Job(work[v])' /\ Evidenced(work[v])' /\ (work[v].loops /\ Undisturbed(work[v]) => Told(work[v]))'
<1>1. Job(work[v]) /\ Evidenced(work[v]) /\ (work[v].loops /\ Undisturbed(work[v]) => Told(work[v]))
  BY DEF LoopInv
<1>2. Job(work[v])'
  BY <1>1, Wrote DEF Job
<1>3. CASE work[v].run # run
  <2>1. dirs'[work[v].run] = dirs[work[v].run]
    BY <1>1, <1>3, Wrote DEF Job
  <2>2. Evidenced(work[v])'
    BY <1>1, <2>1 DEF Evidenced
  <2>3. (work[v].loops /\ Undisturbed(work[v]) => Told(work[v]))'
    BY <1>1, <2>1 DEF Told, Undisturbed
  <2>4. QED
    BY <1>2, <2>2, <2>3
<1>4. CASE work[v].run = run /\ run \in disturbed' /\ name \notin Evidence
  <2>1. Evidenced(work[v])'
    BY <1>1, <1>4, Wrote DEF Evidenced, Evidence
  <2>2. ~Undisturbed(work[v])'
    BY <1>4 DEF Undisturbed
  <2>3. QED
    BY <1>2, <2>1, <2>2
<1>5. QED
  BY <1>3, <1>4

\* Nor does it touch what has come to an end, unless it disturbs it.
LEMMA StoriesStay ==
    ASSUME LoopInv, NEW run \in DOMAIN dirs, NEW name, NEW content, dirs' = Put(run, name, content),
           disturbed \subseteq disturbed', NEW s \in ended, s.in = s.run[1], s.run \notin disturbed',
           s.run # run
    PROVE  OneStory(dirs[s.run], s.horizon)'
<1>1. OneStory(dirs[s.run], s.horizon) /\ s.run \in DOMAIN dirs
  BY DEF LoopInv
<1>2. dirs'[s.run] = dirs[s.run]
  BY <1>1, Wrote
<1>3. QED
  BY <1>1, <1>2

LEMMA GroundStays ==
    ASSUME LoopInv, NEW run \in DOMAIN dirs, NEW name, NEW content, dirs' = Put(run, name, content),
           NEW r \in DOMAIN dirs, r # run \/ name \notin Evidence, Legal(dirs[r], "decision")'
    PROVE  Grounded(dirs[r])'
<1>1. Legal(dirs[r], "decision")
  BY Wrote DEF Legal, Evidence
<1>2. Grounded(dirs[r])
  BY <1>1 DEF LoopInv
<1>3. QED
  BY <1>1, <1>2, Wrote DEF Grounded, Evidence, Legal

LEMMA SameShape ==
    ASSUME LoopInv, NEW run \in DOMAIN dirs, NEW name, NEW content, dirs' = Put(run, name, content),
           disturbed' \subseteq disturbed \cup {run}
    PROVE  /\ DOMAIN dirs' \subseteq Place \X (1 .. MaxSiblings)
           /\ \A r \in DOMAIN dirs', m \in 1 .. MaxSiblings : m < r[2] => <<r[1], m>> \in DOMAIN dirs'
           /\ {s.run : s \in ended} \cup disturbed' \subseteq DOMAIN dirs'
  BY Wrote DEF LoopInv

\* Whoever writes into a directory that is not his own: the others go on.
LEMMA ForeignWrite ==
    ASSUME LoopInv, NEW run \in DOMAIN dirs, NEW name, NEW content, dirs' = Put(run, name, content),
           disturbed' = disturbed \cup {run}, name \notin Evidence, UNCHANGED ended
    PROVE  /\ DOMAIN dirs' \subseteq Place \X (1 .. MaxSiblings)
           /\ \A r \in DOMAIN dirs', m \in 1 .. MaxSiblings : m < r[2] => <<r[1], m>> \in DOMAIN dirs'
           /\ {s.run : s \in ended'} \cup disturbed' \subseteq DOMAIN dirs'
           /\ \A v \in Worker : work'[v] = work[v] /\ work[v] # NoWork =>
                  Job(work[v])' /\ Evidenced(work[v])' /\ (work[v].loops /\ Undisturbed(work[v]) => Told(work[v]))'
           /\ \A r \in DOMAIN dirs' : Legal(dirs[r], "decision")' => Grounded(dirs[r])'
           /\ \A s \in ended' : s.in = s.run[1] /\ s.run \notin disturbed' => OneStory(dirs[s.run], s.horizon)'
<1>1. \A v \in Worker : work'[v] = work[v] /\ work[v] # NoWork =>
          Job(work[v])' /\ Evidenced(work[v])' /\ (work[v].loops /\ Undisturbed(work[v]) => Told(work[v]))'
  BY OthersGoOn
<1>2. \A r \in DOMAIN dirs : Legal(dirs[r], "decision")' => Grounded(dirs[r])'
  BY GroundStays
<1>3. \A s \in ended' : s.in = s.run[1] /\ s.run \notin disturbed' => OneStory(dirs[s.run], s.horizon)'
  BY StoriesStay
<1>4. DOMAIN dirs' = DOMAIN dirs
  BY Wrote
<1>5. QED
  BY <1>1, <1>2, <1>3, <1>4, SameShape

LEMMA ByHand ==
    ASSUME LoopInv, NEW run \in DOMAIN dirs, NEW name, NEW contents, name \notin Evidence,
           WrittenByHand(run, name, contents)
    PROVE  LoopInv'
<1>1. PICK content \in contents : dirs' = Put(run, name, content)
  BY DEF WrittenByHand
<1>2. /\ disturbed' = disturbed \cup {run} /\ UNCHANGED <<work, ended, runs>>
      /\ mishaps < MaxMishaps /\ mishaps' = mishaps + 1
  BY DEF WrittenByHand
<1>3. runs' \in 0 .. MaxRuns /\ mishaps' \in 0 .. MaxMishaps
  BY <1>2, LoopAssumption DEF LoopInv
<1>4. \A w \in Worker : work'[w] # NoWork =>
        /\ Job(work[w])' /\ Evidenced(work[w])' /\ (work[w].loops /\ Undisturbed(work[w]) => Told(work[w]))'
        /\ \A v \in Worker \ {w} : work'[v] # NoWork => work'[v].run # work'[w].run
        /\ \A s \in ended' : s.run # work'[w].run
  BY <1>1, <1>2, ForeignWrite DEF LoopInv
<1>5. QED
  BY <1>1, <1>2, <1>3, <1>4, ForeignWrite DEF LoopInv

\* What a process may write where it has its own directory, and that it stays grounded.
LEMMA OwnGround ==
    ASSUME LoopInv, NEW job, Job(job), Evidenced(job), NEW run, run = job.run, NEW content,
           content \in Made(job) \/ content = Torn, dirs' = Put(run, FileName(job), content),
           Legal(dirs[run], "decision")'
    PROVE  Grounded(dirs[run])'
<1>1. run \in DOMAIN dirs
  BY DEF Job
<1>2. CASE job.at > 4
  BY <1>1, <1>2, FileNames, GroundStays
<1>3. CASE job.at < 4
  <2>1. FileName(job) # "decision"
    <3>1. job.at \in {1, 2, 3}
      BY <1>1, <1>3 DEF Job
    <3>2. QED
      BY <1>1, <3>1, FileNames, StepNames
  <2>2. "decision" \notin DOMAIN dirs[run]
    BY <1>1, <1>3 DEF Evidenced, Job
  <2>3. "decision" \notin DOMAIN dirs'[run]
    BY <1>1, <2>1, <2>2, Wrote
  <2>4. QED
    BY <2>3 DEF Legal
<1>4. CASE job.at = 4
  <2>1. FileName(job) = "decision"
    BY <1>1, <1>4, FileNames, StepNames
  <2>2. dirs'[run]["decision"] = content
    BY <1>1, <2>1, Wrote
  <2>3. content \in Made(job)
    BY <2>2 DEF Legal
  <2>4. Made(job) = {derive_decision(job.results)}
    BY <1>4, StepNames DEF Made
  <2>5. /\ {"artifacts", "manifest", "envelope"} \subseteq DOMAIN dirs[run]
        /\ dirs[run]["artifacts"] = job.results /\ dirs[run]["manifest"] = Quality(job.results)
        /\ dirs[run]["envelope"] = build_run_envelope(job.results)
    BY <1>1, <1>4 DEF Evidenced
  <2>6. /\ {"artifacts", "manifest", "envelope"} \subseteq DOMAIN dirs'[run]
        /\ dirs'[run]["artifacts"] = job.results /\ dirs'[run]["manifest"] = Quality(job.results)
        /\ dirs'[run]["envelope"] = build_run_envelope(job.results)
    BY <1>1, <2>1, <2>5, Wrote
  <2>7. job.results \in Captured /\ dirs'[run]["decision"] = derive_decision(job.results)
    BY <1>1, <2>2, <2>3, <2>4 DEF Job
  <2>8. \E rs \in Captured :
          /\ {"artifacts", "manifest", "envelope"} \subseteq DOMAIN dirs'[run]
          /\ dirs'[run]["artifacts"] = rs /\ dirs'[run]["manifest"] = Quality(rs)
          /\ dirs'[run]["envelope"] = build_run_envelope(rs) /\ dirs'[run]["decision"] = derive_decision(rs)
    BY <2>6, <2>7
  <2>9. QED
    BY <2>8 DEF Grounded
<1>5. job.at \in 1 .. 9
  BY <1>1 DEF Job
<1>6. QED
  BY <1>2, <1>3, <1>4, <1>5

NextJob(job, content) ==
    [job EXCEPT !.at = @ + 1,
                !.outcome = IF FileOrder[job.at] = "outcome" THEN content ELSE @,
                !.evaluation = IF FileOrder[job.at] = "eval" THEN content ELSE @]

LEMMA NextFields ==
    ASSUME NEW job, Whole(job), NEW content, job.at \in 1 .. 9
    PROVE  LET next == NextJob(job, content)
           IN  /\ Whole(next) /\ next.at = job.at + 1
               /\ next.loops = job.loops /\ next.in = job.in /\ next.run = job.run
               /\ next.horizon = job.horizon /\ next.results = job.results
               /\ next.outcome = (IF job.at = 5 THEN content ELSE job.outcome)
               /\ next.evaluation = (IF job.at = 6 THEN content ELSE job.evaluation)
<1>1. (FileOrder[job.at] = "outcome" <=> job.at = 5) /\ (FileOrder[job.at] = "eval" <=> job.at = 6)
  <2>1. job.at \in {1, 2, 3, 4, 5, 6, 7, 8, 9}
    OBVIOUS
  <2>2. QED
    BY <2>1, StepNames
<1>2. NextJob(job, content) =
          [job EXCEPT !.at = job.at + 1, !.outcome = IF job.at = 5 THEN content ELSE job.outcome,
                      !.evaluation = IF job.at = 6 THEN content ELSE job.evaluation]
  BY <1>1 DEF NextJob
<1>3. \A a, o, v : LET next == [job EXCEPT !.at = a, !.outcome = o, !.evaluation = v]
                  IN  /\ DOMAIN next = DOMAIN job /\ next.at = a /\ next.outcome = o /\ next.evaluation = v
                      /\ next.loops = job.loops /\ next.in = job.in /\ next.run = job.run
                      /\ next.horizon = job.horizon /\ next.results = job.results
  BY DEF Whole
<1>4. QED
  BY <1>2, <1>3 DEF Whole

\* The evidence a process has written, with the file it writes now.
LEMMA OwnEvidence ==
    ASSUME LoopInv, NEW job, Job(job), Evidenced(job), NEW content, content \in Made(job),
           dirs' = Put(job.run, FileName(job), content), NEW next, next = NextJob(job, content)
    PROVE  Evidenced(next)'
<1> DEFINE files == dirs[job.run]
<1>1. /\ next.at = job.at + 1 /\ next.run = job.run /\ next.results = job.results
      /\ job.at \in 1 .. 9 /\ job.run \in DOMAIN dirs
  BY NextFields DEF Job
<1>2. /\ DOMAIN dirs'[job.run] = DOMAIN files \cup {FileName(job)}
      /\ dirs'[job.run][FileName(job)] = content
      /\ \A f \in DOMAIN files : f # FileName(job) => dirs'[job.run][f] = files[f]
  BY <1>1, Wrote
<1> HIDE DEF files
<1>3. CASE job.at = 1
  <2>1. FileName(job) = "artifacts" /\ content = job.results /\ "decision" \notin DOMAIN files
    BY <1>3, FileNames, StepNames DEF Made, Evidenced, files
  <2>2. QED
    BY <1>1, <1>2, <1>3, <2>1 DEF Evidenced
<1>4. CASE job.at = 2
  <2>1. /\ FileName(job) = "manifest" /\ content = Quality(job.results) /\ "decision" \notin DOMAIN files
        /\ "artifacts" \in DOMAIN files /\ files["artifacts"] = job.results
    BY <1>4, FileNames, StepNames DEF Made, Evidenced, files
  <2>2. QED
    BY <1>1, <1>2, <1>4, <2>1 DEF Evidenced
<1>5. CASE job.at = 3
  <2>1. /\ FileName(job) = "envelope" /\ content = build_run_envelope(job.results)
        /\ "decision" \notin DOMAIN files
        /\ "artifacts" \in DOMAIN files /\ files["artifacts"] = job.results
        /\ "manifest" \in DOMAIN files /\ files["manifest"] = Quality(job.results)
    BY <1>5, FileNames, StepNames DEF Made, Evidenced, files
  <2>2. QED
    BY <1>1, <1>2, <1>5, <2>1 DEF Evidenced
<1>6. CASE job.at > 3
  <2>1. /\ {"artifacts", "manifest", "envelope"} \subseteq DOMAIN files
        /\ files["artifacts"] = job.results /\ files["manifest"] = Quality(job.results)
        /\ files["envelope"] = build_run_envelope(job.results)
    BY <1>1, <1>6 DEF Evidenced, files
  <2>2. FileName(job) \notin {"artifacts", "manifest", "envelope"}
    <3>1. job.at = 4 \/ job.at > 4
      BY <1>1, <1>6
    <3>2. QED
      BY <3>1, FileNames, StepNames DEF Evidence
  <2>3. "decision" \in DOMAIN dirs'[job.run] /\ dirs'[job.run]["decision"] = derive_decision(job.results)
    <3>1. CASE job.at = 4
      <4>1. FileName(job) = "decision" /\ content = derive_decision(job.results)
        BY <3>1, FileNames, StepNames DEF Made
      <4>2. QED
        BY <1>2, <4>1
    <3>2. CASE job.at > 4
      <4>1. "decision" \in DOMAIN files /\ files["decision"] = derive_decision(job.results)
        BY <3>2 DEF Evidenced, files
      <4>2. FileName(job) # "decision"
        BY <3>2, FileNames DEF Evidence
      <4>3. QED
        BY <1>2, <4>1, <4>2
    <3>3. QED
      BY <1>1, <1>6, <3>1, <3>2
  <2>4. QED
    BY <1>1, <1>2, <1>6, <2>1, <2>2, <2>3 DEF Evidenced
<1>7. QED
  BY <1>1, <1>3, <1>4, <1>5, <1>6

\* The story a loop has told, with the file it writes now.
LEMMA OwnStory ==
    ASSUME LoopInv, NEW job, Job(job), Evidenced(job), Told(job), Target(job) = job.run,
           NEW content, content \in Made(job),
           dirs' = Put(job.run, FileName(job), content), NEW next, next = NextJob(job, content)
    PROVE  /\ job.at < 9 => Told(next)'
           /\ job.at = 9 => OneStory(dirs'[job.run], job.horizon)
<1> DEFINE files == dirs[job.run]
           file == OutcomeFile(job.horizon)
<1>1. /\ next.at = job.at + 1 /\ next.run = job.run /\ next.horizon = job.horizon
      /\ job.at \in 1 .. 9 /\ job.run \in DOMAIN dirs /\ job.horizon \in Horizon
      /\ next.outcome = (IF job.at = 5 THEN content ELSE job.outcome)
      /\ next.evaluation = (IF job.at = 6 THEN content ELSE job.evaluation)
  BY NextFields DEF Job
<1>2. /\ DOMAIN dirs'[job.run] = DOMAIN files \cup {FileName(job)}
      /\ dirs'[job.run][FileName(job)] = content
      /\ \A f \in DOMAIN files : f # FileName(job) => dirs'[job.run][f] = files[f]
  BY <1>1, Wrote
<1>3. file \in {"outcome_d1", "outcome_d3"} /\ \A h \in Horizon \ {job.horizon} : OutcomeFile(h) # file
  BY <1>1, OutcomeFiles
<1>4. \A h \in Horizon \ {job.horizon} : OutcomeFile(h) \notin DOMAIN dirs'[job.run]
  <2>1. \A h \in Horizon \ {job.horizon} : OutcomeFile(h) # FileName(job)
    BY <1>1, <1>3, FileNames
  <2>2. QED
    BY <1>2, <2>1 DEF Told
<1> HIDE DEF files, file
<1>5. job.at > 4 => /\ "decision" \in DOMAIN files /\ files["decision"] = derive_decision(job.results)
                    /\ "artifacts" \in DOMAIN files /\ FileName(job) \notin {"decision", "artifacts"}
  BY <1>1, FileNames DEF Evidenced, files, Evidence
<1>6. CASE job.at < 5
  BY <1>1, <1>4, <1>6 DEF Told
<1>7. CASE job.at = 5
  <2>1. content \in Outcomes(files, job.horizon, ToyPrices) /\ FileName(job) = file
    BY <1>1, <1>7, FileNames, StepNames DEF Made, files, file
  <2>2. content \in Outcomes(dirs'[job.run], job.horizon, ToyPrices)
    BY <1>2, <1>5, <1>7, <2>1, OutcomesOf
  <2>3. QED
    BY <1>1, <1>2, <1>4, <1>7, <2>1, <2>2 DEF Told, file
<1>8. CASE job.at > 5
  <2>1. /\ file \in DOMAIN files /\ files[file] = job.outcome
        /\ job.outcome \in Outcomes(files, job.horizon, ToyPrices)
    BY <1>8 DEF Told, files, file
  <2>2. FileName(job) # file
    BY <1>1, <1>8, FileNames DEF file
  <2>3. /\ file \in DOMAIN dirs'[job.run] /\ dirs'[job.run][file] = job.outcome
        /\ job.outcome \in Outcomes(dirs'[job.run], job.horizon, ToyPrices)
        /\ "decision" \in DOMAIN dirs'[job.run] /\ dirs'[job.run]["decision"] = files["decision"]
    <3>1. /\ "decision" \in DOMAIN dirs'[job.run] /\ dirs'[job.run]["decision"] = files["decision"]
          /\ dirs'[job.run]["artifacts"] = files["artifacts"] /\ "decision" \in DOMAIN files
      BY <1>1, <1>2, <1>5, <1>8
    <3>2. Outcomes(dirs'[job.run], job.horizon, ToyPrices) = Outcomes(files, job.horizon, ToyPrices)
      BY <3>1, OutcomesOf
    <3>3. QED
      BY <1>2, <2>1, <2>2, <3>1, <3>2
  <2>4. job.at \in {6, 7, 8, 9}
    BY <1>1, <1>8
  <2>5. CASE job.at = 6
    <3>1. FileName(job) = "eval" /\ content = Judged(files["decision"], job.outcome)
      BY <1>5, <2>5, FileNames, StepNames DEF Made
    <3>2. QED
      BY <1>1, <1>2, <1>4, <2>3, <2>5, <3>1 DEF Told, file
  <2>6. CASE job.at = 7
    <3>1. /\ "eval" \in DOMAIN files /\ files["eval"] = job.evaluation
          /\ job.evaluation = Judged(files["decision"], job.outcome)
      BY <2>6 DEF Told, files
    <3>2. FileName(job) = "case" /\ content \in collect_offline_case(files)
      BY <1>1, <2>6, FileNames, StepNames DEF Made, Target, files
    <3>3. CaseOutcome(files) = file
      BY <1>1, <1>3, <2>1 DEF CaseOutcome, Told, files, file, OutcomeFile, Horizon
    <3>4. content = [status |-> "normalized", decision |-> files["decision"],
                     outcome |-> job.outcome, evaluation |-> job.evaluation]
      BY <2>1, <3>1, <3>2, <3>3 DEF collect_offline_case, Payload
    <3>5. "eval" \in DOMAIN dirs'[job.run] /\ dirs'[job.run]["eval"] = job.evaluation
      BY <1>2, <3>1, <3>2
    <3>6. QED
      BY <1>1, <1>2, <1>4, <2>3, <2>6, <3>1, <3>2, <3>4, <3>5 DEF Told, file
  <2>7. CASE job.at = 8
    <3>1. /\ "eval" \in DOMAIN files /\ files["eval"] = job.evaluation
          /\ job.evaluation = Judged(files["decision"], job.outcome)
          /\ "case" \in DOMAIN files
          /\ files["case"] = [status |-> "normalized", decision |-> files["decision"],
                              outcome |-> job.outcome, evaluation |-> job.evaluation]
      BY <2>7 DEF Told, files
    <3>2. FileName(job) = "memory" /\ content = files["case"]
      BY <1>1, <2>7, FileNames, StepNames DEF Made, Target, files
    <3>3. /\ "eval" \in DOMAIN dirs'[job.run] /\ dirs'[job.run]["eval"] = job.evaluation
          /\ "case" \in DOMAIN dirs'[job.run] /\ dirs'[job.run]["case"] = files["case"]
      BY <1>2, <3>1, <3>2
    <3>4. QED
      BY <1>1, <1>2, <1>4, <2>3, <2>7, <3>1, <3>2, <3>3 DEF Told, file
  <2>8. CASE job.at = 9
    <3>1. /\ "eval" \in DOMAIN files /\ files["eval"] = job.evaluation
          /\ job.evaluation = Judged(files["decision"], job.outcome)
          /\ "case" \in DOMAIN files
          /\ files["case"] = [status |-> "normalized", decision |-> files["decision"],
                              outcome |-> job.outcome, evaluation |-> job.evaluation]
          /\ "memory" \in DOMAIN files /\ files["memory"] = files["case"]
      BY <2>8 DEF Told, files
    <3>2. FileName(job) = "registry" /\ content = register_proposal(job.evaluation.grade)
      BY <2>8, FileNames, StepNames DEF Made
    <3>3. /\ "eval" \in DOMAIN dirs'[job.run] /\ dirs'[job.run]["eval"] = job.evaluation
          /\ "case" \in DOMAIN dirs'[job.run] /\ dirs'[job.run]["case"] = files["case"]
          /\ "memory" \in DOMAIN dirs'[job.run] /\ dirs'[job.run]["memory"] = files["case"]
          /\ "registry" \in DOMAIN dirs'[job.run] /\ dirs'[job.run]["registry"] = content
      BY <1>2, <3>1, <3>2
    <3>4. QED
      BY <2>3, <2>8, <3>1, <3>2, <3>3 DEF OneStory, file
  <2>9. QED
    BY <2>4, <2>5, <2>6, <2>7, <2>8
<1>9. QED
  BY <1>1, <1>6, <1>7, <1>8

\* A process that stops, whether at its end, by an exception or by a kill.
LEMMA OthersStay ==
    ASSUME LoopInv, NEW w \in Worker, NEW job, job = work[w], work[w] # NoWork,
           work' = [work EXCEPT ![w] = NoWork] \/ \E next : work' = [work EXCEPT ![w] = next] /\ next.run = job.run
    PROVE  /\ DOMAIN work' = Worker /\ \A v \in Worker \ {w} : work'[v] = work[v]
           /\ \A v, x \in Worker :
                  v # x /\ work'[v] # NoWork /\ work'[x] # NoWork => work'[x].run # work'[v].run
           /\ \A v \in Worker, s \in ended : work'[v] # NoWork => s.run # work'[v].run
<1>1. DOMAIN work' = Worker /\ \A v \in Worker \ {w} : work'[v] = work[v]
  BY DEF LoopInv
<1>2. work'[w] # NoWork => work'[w].run = work[w].run
  BY DEF LoopInv
<1>3. QED
  BY <1>1, <1>2 DEF LoopInv

\* A write of a process in its own directory, after which it is at next or has stopped.
LEMMA OwnWrite ==
    ASSUME LoopInv, NEW w \in Worker, NEW job, job = work[w], work[w] # NoWork, NEW content,
           content \in Made(job) \/ content = Torn, dirs' = Put(job.run, FileName(job), content),
           disturbed' = disturbed
    PROVE  /\ DOMAIN dirs' \subseteq Place \X (1 .. MaxSiblings)
           /\ \A r \in DOMAIN dirs', m \in 1 .. MaxSiblings : m < r[2] => <<r[1], m>> \in DOMAIN dirs'
           /\ {s.run : s \in ended} \cup disturbed' \subseteq DOMAIN dirs'
           /\ \A v \in Worker \ {w} : work'[v] = work[v] /\ work[v] # NoWork =>
                  Job(work[v])' /\ Evidenced(work[v])' /\ (work[v].loops /\ Undisturbed(work[v]) => Told(work[v]))'
           /\ \A r \in DOMAIN dirs' : Legal(dirs[r], "decision")' => Grounded(dirs[r])'
           /\ \A s \in ended : s.in = s.run[1] /\ s.run \notin disturbed' => OneStory(dirs[s.run], s.horizon)'
<1>1. Job(job) /\ Evidenced(job) /\ job.run \in DOMAIN dirs
  BY DEF LoopInv, Job
<1>2. \A v \in Worker \ {w} : work'[v] = work[v] /\ work[v] # NoWork =>
          Job(work[v])' /\ Evidenced(work[v])' /\ (work[v].loops /\ Undisturbed(work[v]) => Told(work[v]))'
  <2>1. \A v \in Worker \ {w} : work[v] # NoWork => work[v].run # job.run
    BY DEF LoopInv
  <2>2. QED
    BY <1>1, <2>1, OthersGoOn
<1>3. DOMAIN dirs' = DOMAIN dirs
  BY <1>1, Wrote
<1>4. \A r \in DOMAIN dirs' : Legal(dirs[r], "decision")' => Grounded(dirs[r])'
  <2>1. \A r \in DOMAIN dirs : r # job.run /\ Legal(dirs[r], "decision")' => Grounded(dirs[r])'
    BY <1>1, GroundStays
  <2>2. Legal(dirs'[job.run], "decision") => Grounded(dirs'[job.run])
    BY <1>1, OwnGround
  <2>3. QED
    BY <1>3, <2>1, <2>2
<1>5. \A s \in ended : s.in = s.run[1] /\ s.run \notin disturbed' => OneStory(dirs[s.run], s.horizon)'
  <2>1. \A s \in ended : s.run # job.run
    BY DEF LoopInv
  <2>2. QED
    BY <1>1, <2>1, StoriesStay
<1>6. QED
  BY <1>1, <1>2, <1>4, <1>5, SameShape

LEMMA LoopWrites == ASSUME LoopInv, NEW w \in Worker, WriteStep(w) PROVE LoopInv'
<1>1. PICK job : job = work[w]
  OBVIOUS
<1>2. work[w] # NoWork /\ Job(job) /\ Evidenced(job) /\ (job.loops /\ Undisturbed(job) => Told(job))
  BY <1>1 DEF WriteStep, LoopInv
<1>3. PICK content \in Made(job) :
        /\ dirs' = Put(Target(job), FileName(job), content)
        /\ work' = [work EXCEPT ![w] = IF Ends(job) THEN NoWork ELSE NextJob(job, content)]
  BY <1>1 DEF WriteStep, NextJob
<1>4. /\ ended' = IF Ends(job) /\ job.loops
                  THEN ended \cup {[run |-> job.run, horizon |-> job.horizon, in |-> job.in]} ELSE ended
      /\ disturbed' = IF Target(job) # job.run THEN disturbed \cup {Target(job)} ELSE disturbed
      /\ UNCHANGED <<runs, mishaps>>
  BY <1>1 DEF WriteStep
<1>5. PICK next : next = NextJob(job, content)
  OBVIOUS
<1>6. /\ Whole(next) /\ next.at = job.at + 1 /\ next.loops = job.loops /\ next.in = job.in
      /\ next.run = job.run /\ next.horizon = job.horizon /\ next.results = job.results
  BY <1>2, <1>5, NextFields DEF Job
<1>7. /\ DOMAIN work' = Worker /\ \A v \in Worker \ {w} : work'[v] = work[v]
      /\ \A v, x \in Worker :
             v # x /\ work'[v] # NoWork /\ work'[x] # NoWork => work'[x].run # work'[v].run
      /\ \A v \in Worker, s \in ended : work'[v] # NoWork => s.run # work'[v].run
  <2>1. CASE Ends(job)
    <3>1. work' = [work EXCEPT ![w] = NoWork]
      BY <1>3, <2>1
    <3>2. QED
      BY <1>1, <1>2, <3>1, OthersStay
  <2>2. CASE ~Ends(job)
    <3>1. work' = [work EXCEPT ![w] = next] /\ next.run = job.run
      BY <1>3, <1>5, <1>6, <2>2
    <3>2. QED
      BY <1>1, <1>2, <3>1, OthersStay
  <2>3. QED
    BY <2>1, <2>2
<1>8. work'[w] = IF Ends(job) THEN NoWork ELSE next
  BY <1>3, <1>5 DEF LoopInv
<1>9. ~Ends(job) => job.at < 9 /\ (~job.loops => job.at < 4)
  <2>1. job.at \in 1 .. 9 /\ (~job.loops => job.at <= 4)
    BY <1>2 DEF Job
  <2>2. job.at = 9 => Ends(job)
    BY StepNames DEF Ends
  <2>3. ~job.loops /\ job.at = 4 => Ends(job)
    BY StepNames DEF Ends
  <2>4. QED
    BY <2>1, <2>2, <2>3
<1>10. Ends(job) /\ job.loops => job.at = 9
  BY StepNames DEF Ends
<1>11. /\ Target(job) \in DOMAIN dirs /\ DOMAIN dirs' = DOMAIN dirs
       /\ Target(job) # job.run => job.at = 5 /\ job.in # job.run[1]
  BY <1>2, <1>3, TargetThere, Wrote
<1>12. ~Ends(job) => Job(next)'
  BY <1>2, <1>6, <1>9, <1>11 DEF Job
<1>13. runs' \in 0 .. MaxRuns /\ mishaps' \in 0 .. MaxMishaps
  BY <1>4 DEF LoopInv
<1>14. CASE Target(job) # job.run
  <2>1. job.at = 5 /\ FileName(job) \notin Evidence /\ ~Ends(job)
    <3>1. job.at = 5
      BY <1>11, <1>14
    <3>2. job.loops
      BY <1>2, <3>1 DEF Job
    <3>3. QED
      BY <1>2, <1>10, <3>1, <3>2, FileNames, StepNames DEF Ends
  <2>2. ended' = ended /\ disturbed' = disturbed \cup {Target(job)}
    BY <1>4, <1>14, <2>1
  <2>3. dirs'[job.run] = dirs[job.run]
    BY <1>2, <1>3, <1>11, <1>14, Wrote DEF Job
  <2>4. Evidenced(next)'
    BY <1>2, <1>6, <2>1, <2>3 DEF Evidenced
  <2>5. ~Undisturbed(next)'
    BY <1>6, <1>11, <1>14 DEF Undisturbed
  <2>6. \A v \in Worker : work'[v] # NoWork =>
          Job(work[v])' /\ Evidenced(work[v])' /\ (work[v].loops /\ Undisturbed(work[v]) => Told(work[v]))'
    BY <1>3, <1>7, <1>8, <1>11, <1>12, <2>1, <2>2, <2>4, <2>5, ForeignWrite
  <2>7. QED
    BY <1>3, <1>7, <1>11, <1>13, <2>1, <2>2, <2>6, ForeignWrite DEF LoopInv
<1>15. CASE Target(job) = job.run
  <2>1. disturbed' = disturbed
    BY <1>4, <1>15
  <2>2. Evidenced(next)'
    BY <1>2, <1>3, <1>5, <1>15, OwnEvidence
  <2>3. Undisturbed(next)' <=> Undisturbed(job)
    BY <1>6, <2>1 DEF Undisturbed
  <2>4. ~Ends(job) => (next.loops /\ Undisturbed(next) => Told(next))'
    BY <1>2, <1>3, <1>5, <1>6, <1>9, <1>15, <2>3, OwnStory
  <2>5. \A v \in Worker : work'[v] # NoWork =>
          Job(work[v])' /\ Evidenced(work[v])' /\ (work[v].loops /\ Undisturbed(work[v]) => Told(work[v]))'
    BY <1>1, <1>2, <1>3, <1>7, <1>8, <1>12, <1>15, <2>1, <2>2, <2>4, OwnWrite
  <2>6. \A v \in Worker, s \in ended' : work'[v] # NoWork => s.run # work'[v].run
    <3>1. CASE ended' = ended
      BY <1>7, <3>1
    <3>2. CASE ended' # ended
      <4>1. Ends(job) /\ job.loops /\ work'[w] = NoWork
        BY <1>4, <1>8, <3>2
      <4>2. ended' = ended \cup {[run |-> job.run, horizon |-> job.horizon, in |-> job.in]}
        BY <1>4, <4>1
      <4>3. \A v \in Worker \ {w} : work'[v] # NoWork => work'[v].run # job.run
        BY <1>1, <1>2, <1>7 DEF LoopInv
      <4>4. QED
        BY <1>7, <4>1, <4>2, <4>3
    <3>3. QED
      BY <3>1, <3>2
  <2>7. /\ {s.run : s \in ended'} \subseteq DOMAIN dirs'
        /\ \A s \in ended' : s.in = s.run[1] /\ s.run \notin disturbed' => OneStory(dirs[s.run], s.horizon)'
    <3>1. /\ {s.run : s \in ended} \subseteq DOMAIN dirs'
          /\ \A s \in ended : s.in = s.run[1] /\ s.run \notin disturbed' => OneStory(dirs[s.run], s.horizon)'
      BY <1>1, <1>2, <1>3, <1>15, <2>1, OwnWrite
    <3>2. CASE ended' = ended
      BY <3>1, <3>2
    <3>3. CASE ended' # ended
      <4>1. /\ Ends(job) /\ job.loops /\ job.at = 9
            /\ ended' = ended \cup {[run |-> job.run, horizon |-> job.horizon, in |-> job.in]}
        BY <1>4, <1>10, <3>3
      <4>2. Undisturbed(job) => OneStory(dirs'[job.run], job.horizon)
        BY <1>2, <1>3, <1>5, <1>15, <4>1, OwnStory
      <4>3. job.run \in DOMAIN dirs'
        BY <1>11, <1>15
      <4>4. QED
        BY <2>1, <3>1, <4>1, <4>2, <4>3 DEF Undisturbed
    <3>4. QED
      BY <3>2, <3>3
  <2>8. QED
    BY <1>1, <1>2, <1>3, <1>7, <1>13, <1>15, <2>1, <2>5, <2>6, <2>7, OwnWrite DEF LoopInv
<1>16. QED
  BY <1>14, <1>15

LEMMA LoopStops ==
    ASSUME LoopInv, NEW w \in Worker, work[w] # NoWork, work' = [work EXCEPT ![w] = NoWork],
           UNCHANGED <<dirs, ended, disturbed>>, runs' \in 0 .. MaxRuns, mishaps' \in 0 .. MaxMishaps
    PROVE  LoopInv'
<1>1. DOMAIN work' = Worker /\ \A v \in Worker : work'[v] # NoWork => work'[v] = work[v]
  BY DEF LoopInv
<1>2. \A v \in Worker : work'[v] # NoWork =>
        /\ Job(work[v])' /\ Evidenced(work[v])' /\ (work[v].loops /\ Undisturbed(work[v]) => Told(work[v]))'
        /\ \A x \in Worker \ {v} : work'[x] # NoWork => work'[x].run # work'[v].run
        /\ \A s \in ended' : s.run # work'[v].run
  BY <1>1 DEF LoopInv, Job, Evidenced, Told, Undisturbed
<1>3. QED
  BY <1>1, <1>2 DEF LoopInv

LEMMA LoopIsKilled == ASSUME LoopInv, NEW w \in Worker, LoopKilled(w) PROVE LoopInv'
<1>1. PICK job : job = work[w]
  OBVIOUS
<1>2. /\ work[w] # NoWork /\ Job(job) /\ work' = [work EXCEPT ![w] = NoWork] /\ UNCHANGED <<ended, runs>>
      /\ mishaps < MaxMishaps /\ mishaps' = mishaps + 1
  BY <1>1 DEF LoopKilled, LoopInv
<1>3. runs' \in 0 .. MaxRuns /\ mishaps' \in 0 .. MaxMishaps
  BY <1>2, LoopAssumption DEF LoopInv
<1>4. CASE UNCHANGED <<dirs, disturbed>>
  BY <1>2, <1>3, <1>4, LoopStops
<1>5. CASE /\ Made(job) # {} /\ dirs' = Put(Target(job), FileName(job), Torn)
           /\ disturbed' = IF Target(job) # job.run THEN disturbed \cup {Target(job)} ELSE disturbed
  <2>1. /\ DOMAIN work' = Worker /\ \A v \in Worker \ {w} : work'[v] = work[v]
        /\ \A v, x \in Worker :
               v # x /\ work'[v] # NoWork /\ work'[x] # NoWork => work'[x].run # work'[v].run
        /\ \A v \in Worker, s \in ended : work'[v] # NoWork => s.run # work'[v].run
        /\ work'[w] = NoWork
    BY <1>1, <1>2, OthersStay DEF LoopInv
  <2>2. CASE Target(job) # job.run
    <3>1. Target(job) \in DOMAIN dirs /\ job.at = 5 /\ FileName(job) \notin Evidence
      BY <1>2, <1>5, <2>2, TargetThere, FileNames
    <3>2. disturbed' = disturbed \cup {Target(job)}
      BY <1>5, <2>2
    <3>3. \A v \in Worker : work'[v] # NoWork =>
            Job(work[v])' /\ Evidenced(work[v])' /\ (work[v].loops /\ Undisturbed(work[v]) => Told(work[v]))'
      BY <1>2, <1>5, <2>1, <3>1, <3>2, ForeignWrite
    <3>4. QED
      BY <1>2, <1>3, <1>5, <2>1, <3>1, <3>2, <3>3, ForeignWrite DEF LoopInv
  <2>3. CASE Target(job) = job.run
    <3>1. disturbed' = disturbed
      BY <1>5, <2>3
    <3>2. \A v \in Worker : work'[v] # NoWork =>
            Job(work[v])' /\ Evidenced(work[v])' /\ (work[v].loops /\ Undisturbed(work[v]) => Told(work[v]))'
      BY <1>1, <1>2, <1>5, <2>1, <2>3, <3>1, OwnWrite
    <3>3. QED
      BY <1>1, <1>2, <1>3, <1>5, <2>1, <2>3, <3>1, <3>2, OwnWrite DEF LoopInv
  <2>4. QED
    BY <2>2, <2>3
<1>6. QED
  BY <1>1, <1>4, <1>5 DEF LoopKilled

LEMMA LoopStepKeeps == LoopInv /\ [LoopNext]_loopVars => LoopInv'
<1> SUFFICES ASSUME LoopInv, [LoopNext]_loopVars PROVE LoopInv'
  OBVIOUS
<1>1. ASSUME NEW w \in Worker, Capture(w) PROVE LoopInv'
  BY <1>1, LoopCaptures DEF Capture
<1>2. ASSUME NEW w \in Worker, run_agent_loop(w) PROVE LoopInv'
  BY <1>2, LoopCaptures, LoopAssumption DEF run_agent_loop
<1>3. ASSUME NEW w \in Worker, WriteStep(w) PROVE LoopInv'
  BY <1>3, LoopWrites
<1>4. ASSUME NEW w \in Worker, Raises(w) PROVE LoopInv'
  BY <1>4, LoopStops DEF Raises, LoopInv
<1>5. ASSUME NEW w \in Worker, LoopKilled(w) PROVE LoopInv'
  BY <1>5, LoopIsKilled
<1>6. ASSUME NEW run \in DOMAIN dirs, build_outcome(run) PROVE LoopInv'
  BY <1>6, ByHand, OutcomeFiles DEF build_outcome, Evidence
<1>7. ASSUME NEW run \in DOMAIN dirs, evaluate_run(run) PROVE LoopInv'
  BY <1>7, ByHand DEF evaluate_run, Evidence
<1>8. ASSUME NEW run \in DOMAIN dirs, collect_case(run) PROVE LoopInv'
  BY <1>8, ByHand DEF collect_case, Evidence
<1>9. ASSUME NEW run \in DOMAIN dirs, save_memory_record(run) PROVE LoopInv'
  BY <1>9, ByHand DEF save_memory_record, Evidence
<1>10. CASE UNCHANGED loopVars
  BY <1>10 DEF loopVars, LoopInv, Job, Evidenced, Told, Undisturbed
<1>11. QED
  BY <1>1, <1>2, <1>3, <1>4, <1>5, <1>6, <1>7, <1>8, <1>9, <1>10 DEF LoopNext

LEMMA LoopInvariant == LoopSpec => []LoopInv
<1>1. QED
  BY LoopInitial, LoopStepKeeps, PTL DEF LoopSpec

LEMMA LoopInvType == LoopInv => LoopTypeOK
  BY StepNames DEF LoopInv, LoopTypeOK, Job

\* However many processes loop and capture, in whatever places, and whatever is done by hand:
\* no two write into one directory as their own, and none leaves a name out (loop.py,
\* run_capture.py).
THEOREM LoopTypeCorrect == LoopSpec => []LoopTypeOK
<1>1. QED
  BY LoopInvariant, LoopInvType, PTL

\* For any commands, prices, processes, kills and steps by hand: a loop that ended where it
\* was started, undisturbed, leaves files that tell one story (loop.py), and each decision on
\* disk rests on evidence that agrees with it (run_capture.py).
THEOREM LoopsTellOneStory == LoopSpec => []RunsTellOneStory
<1>1. LoopInv => RunsTellOneStory
  BY EvidenceAgrees DEF LoopInv, RunsTellOneStory
<1>2. QED
  BY <1>1, LoopInvariant, PTL

-----------------------------------------------------------------------------
(* Uploads.  A document has its kind before its first "ok" extraction, and *)
(* what an extraction tells does not depend on the order of the steps.     *)

Extraction ==
    [document : Nat, status : {"ok", "empty", "unsupported", "engine_missing"}, row_count : Nat,
     candidates : SUBSET Nat]

\* What an upload at hand has done: its bytes have no document yet, or a file only.
UploadAtHand ==
    /\ uploading.at \in {"none", "file", "insert", "extract"}
    /\ uploading.at = "extract" => uploading.document \in DOMAIN documents
    /\ uploading.at \in {"file", "insert"} =>
        /\ uploading = [at |-> uploading.at, content |-> uploading.content, name |-> uploading.name, kind |-> uploading.kind]
        /\ uploading.content \in Content /\ uploading.name \in Name /\ uploading.kind \in SourceKind \cup {"unknown"}
        /\ \A d \in DOMAIN documents : documents[d].content # uploading.content
    /\ uploading.at = "insert" => stored_name(uploading.content, uploading.name) \in DOMAIN on_disk

\* Files are named by what they hold, and cut off only where that was seen.
FilesAreNamed ==
    \A file \in DOMAIN on_disk :
        /\ on_disk[file].of = file[1]
        /\ on_disk[file].whole \/ file \in cut

IntakeInv ==
    /\ documents \in Seq(SourceDocument)
    /\ extractions \in Seq(Extraction)
    /\ committed_runs \in 0 .. Len(extractions)
    /\ \A x \in DOMAIN extractions : extractions[x].document \in DOMAIN documents
    /\ imported \subseteq 1 .. committed_runs
    /\ cut \subseteq DOMAIN on_disk
    /\ uploads \in 0 .. MaxUploads /\ stops \in 0 .. MaxStops
    /\ UploadAtHand /\ FilesAreNamed
    /\ UploadsAreWhole

\* What a document keeps when it learns its kind.
LEMMA DocumentShape ==
    ASSUME NEW document \in SourceDocument
    PROVE  /\ document.content \in Content /\ document.name \in Name
           /\ \A kind \in SourceKind \cup {"unknown"} :
                /\ [document EXCEPT !.kind = kind] \in SourceDocument
                /\ [document EXCEPT !.kind = kind].content = document.content
                /\ [document EXCEPT !.kind = kind].name = document.name
                /\ [document EXCEPT !.kind = kind].kind = kind
  BY DEF SourceDocument

LEMMA NameTells == \A content, name : stored_name(content, name)[1] = content
  BY DEF stored_name

LEMMA ContentShape ==
    ASSUME NEW content \in Content
    PROVE  /\ content.lines \in Seq(SUBSET Field) /\ Len(content.lines) \in Nat
           /\ DOMAIN content.lines = 1 .. Len(content.lines)
           /\ IsFiniteSet(DOMAIN content.lines) /\ DOMAIN content.lines \subseteq Nat
           /\ content.first \in 0 .. Len(content.lines)
<1>1. content.lines \in Seq(SUBSET Field) /\ content.first \in 0 .. Len(content.lines)
  BY IntakeAssumption
<1>2. DOMAIN content.lines = 1 .. Len(content.lines) /\ Len(content.lines) \in Nat
  BY <1>1
<1>3. IsFiniteSet(1 .. Len(content.lines))
  BY <1>2, FS_Interval
<1>4. QED
  BY <1>1, <1>2, <1>3

\* The part a reader stops at is a beginning of the document.
LEMMA FirstShape ==
    ASSUME NEW content \in Content
    PROVE  /\ First(content) \in Seq(SUBSET Field) /\ Len(First(content)) = content.first
           /\ DOMAIN First(content) = 1 .. content.first /\ DOMAIN First(content) \subseteq DOMAIN content.lines
           /\ \A i \in DOMAIN First(content) : First(content)[i] = content.lines[i]
<1>1. /\ content.lines \in Seq(SUBSET Field) /\ Len(content.lines) \in Nat
      /\ content.first \in 0 .. Len(content.lines) /\ DOMAIN content.lines = 1 .. Len(content.lines)
  BY ContentShape
<1>2. \A i \in 1 .. content.first : content.lines[i] \in SUBSET Field
  BY <1>1
<1>3. First(content) = [i \in 1 .. content.first |-> content.lines[i]]
  BY <1>1 DEF First
<1>4. QED
  BY <1>1, <1>2, <1>3

\* What an extraction gives has its lines among those of the content.
LEMMA ExtractedLines ==
    ASSUME NEW content \in Content, NEW kind, NEW found \in extract(content, kind)
    PROVE  /\ found.lines \subseteq DOMAIN content.lines
           /\ found.status \in {"ok", "empty", "unsupported", "engine_missing"}
           /\ found.status # "ok" => found.lines = {}
           /\ kind = "unknown" => found.status = "unsupported"
           /\ found.status = "ok" =>
                \/ content.format = "table" /\ found.lines = _parse_table_rows(First(content))
                \/ content.format = "json" /\ found.lines = _candidate_from_mapping(First(content), 1)
                \/ content.format \in {"pdf", "image"} /\ found.lines = parse_table_text(content.lines)
                \/ /\ content.format = "pdf" /\ content.first > 0
                   /\ found.lines = parse_table_text(First(content))
<1>1. _parse_table_rows(First(content)) \subseteq DOMAIN content.lines
      /\ _candidate_from_mapping(First(content), 1) \subseteq DOMAIN content.lines
      /\ parse_table_text(content.lines) \subseteq DOMAIN content.lines
      /\ parse_table_text(First(content)) \subseteq DOMAIN content.lines
  BY FirstShape DEF _parse_table_rows, _candidate_from_mapping, parse_table_text
<1>2. CASE kind = "table"
  <2>1. found = Found(IF content.format = "table" THEN _parse_table_rows(First(content)) ELSE {})
    BY <1>2 DEF extract, extract_table
  <2>2. QED
    BY <1>1, <1>2, <2>1 DEF Found
<1>3. CASE kind = "json"
  <2>1. found = Found(IF content.format = "json" THEN _candidate_from_mapping(First(content), 1) ELSE {})
    BY <1>3 DEF extract, extract_json
  <2>2. QED
    BY <1>1, <1>3, <2>1 DEF Found
<1>4. CASE kind \in {"pdf", "image"}
  <2>1. \/ found = Nought("engine_missing")
        \/ content.format \in {"pdf", "image"} /\ found = Found(parse_table_text(content.lines))
        \/ content.format = "pdf" /\ content.first > 0 /\ found = Found(parse_table_text(First(content)))
    BY <1>4 DEF extract, extract_pdf, extract_image
  <2>2. QED
    BY <1>1, <1>4, <2>1 DEF Found, Nought
<1>5. CASE kind \notin {"table", "json", "pdf", "image"}
  <2>1. found = Nought("unsupported")
    BY <1>5 DEF extract
  <2>2. QED
    BY <1>5, <2>1 DEF Nought
<1>6. QED
  BY <1>2, <1>3, <1>4, <1>5

\* The trades that a beginning of a text holds whole are found in it, and what is found
\* besides is half a line.
LEMMA TextTold ==
    ASSUME NEW content \in Content, content.format \notin {"table", "json"}, NEW lines \in Seq(SUBSET Field),
           Len(lines) \in 0 .. Len(content.lines), \A i \in DOMAIN lines : lines[i] = content.lines[i]
    PROVE  /\ \A i \in DOMAIN lines : Traded(lines[i]) => i \in parse_table_text(lines)
           /\ \A i \in content.wrapped : i < Len(lines) => i \in parse_table_text(lines)
           /\ \A i \in parse_table_text(lines) : i \in DOMAIN lines /\ (Traded(lines[i]) \/ Half(lines[i]))
<1>1. ASSUME NEW i \in DOMAIN lines, Traded(lines[i]) PROVE i \in parse_table_text(lines)
  BY <1>1 DEF parse_table_text, Window, Joins, Half, Traded
<1>2. ASSUME NEW i \in content.wrapped, i < Len(lines) PROVE i \in parse_table_text(lines)
  <2>1. i \in 1 .. Len(content.lines) - 1 /\ Half(content.lines[i])
        /\ Traded(content.lines[i] \cup content.lines[i + 1])
    BY IntakeAssumption
  <2>2. i \in DOMAIN lines /\ i + 1 \in DOMAIN lines
    BY <1>2, <2>1, ContentShape
  <2>3. lines[i] = content.lines[i] /\ lines[i + 1] = content.lines[i + 1]
    BY <2>2
  <2>4. Joins(lines, i)
    BY <1>2, <2>1, <2>3 DEF Joins
  <2>5. Traded(Window(lines, i))
    BY <2>1, <2>3, <2>4 DEF Window, Traded, Dated
  <2>6. QED
    BY <2>2, <2>5 DEF parse_table_text
<1>3. ASSUME NEW i \in parse_table_text(lines), ~Traded(lines[i]) PROVE Half(lines[i])
  BY <1>3 DEF parse_table_text, Window, Joins
<1>4. \A i \in parse_table_text(lines) : i \in DOMAIN lines
  BY DEF parse_table_text
<1>5. QED
  BY <1>1, <1>2, <1>3, <1>4

\* The trades of a document, but for those beyond where the reader stops, are among what it
\* finds, and what it finds besides is an incomplete record or half a line.
LEMMA TradesAreFound ==
    ASSUME NEW content \in Content, NEW kind, NEW found \in extract(content, kind), found.status = "ok"
    PROVE  /\ TradesOf(content) \ Beyond(content) \subseteq found.lines
           /\ \A i \in found.lines \ TradesOf(content) :
                  ~Traded(content.lines[i]) /\ (content.format \notin {"table", "json"} => Half(content.lines[i]))
<1>f. /\ DOMAIN First(content) = 1 .. content.first /\ DOMAIN First(content) \subseteq DOMAIN content.lines
      /\ \A i \in DOMAIN First(content) : First(content)[i] = content.lines[i]
      /\ DOMAIN content.lines = 1 .. Len(content.lines) /\ Len(content.lines) \in Nat
      /\ content.first \in 0 .. Len(content.lines)
      /\ First(content) \in Seq(SUBSET Field) /\ Len(First(content)) = content.first
      /\ content.lines \in Seq(SUBSET Field)
  BY FirstShape, ContentShape
<1>1. CASE content.format = "table" /\ found.lines = _parse_table_rows(First(content))
  <2>1. Header(First(content)) \in Int
    <3>. DEFINE hinted == {i \in DOMAIN First(content) : i <= 25 /\ "hint" \in First(content)[i]}
    <3>1. CASE hinted = {}
      BY <3>1 DEF Header
    <3>2. CASE hinted # {}
      <4>1. hinted \subseteq Nat
        BY <1>f
      <4>2. Min(hinted) \in Nat
        BY <3>2, <4>1, LeastOf
      <4>3. QED
        BY <3>2, <4>2 DEF Header
    <3>3. QED
      BY <3>1, <3>2
  <2>2. ASSUME NEW i \in TradesOf(content) \ Beyond(content)
        PROVE  i \in found.lines
    <3>1. i \in DOMAIN content.lines /\ i > Header(First(content)) /\ Traded(content.lines[i])
      BY <1>1, <2>2 DEF TradesOf
    <3>2. i \in DOMAIN First(content) /\ First(content)[i] = content.lines[i]
      BY <1>1, <1>f, <2>2, <3>1 DEF Beyond
    <3>3. QED
      BY <1>1, <2>1, <1>f, <3>1, <3>2 DEF _parse_table_rows, _candidate_from_mapping, Traded, Dated, Dates
  <2>3. ASSUME NEW i \in found.lines \ TradesOf(content)
        PROVE  ~Traded(content.lines[i])
    <3>1. i \in DOMAIN First(content) /\ i >= Header(First(content)) + 1
      BY <1>1, <2>3 DEF _parse_table_rows, _candidate_from_mapping
    <3>2. QED
      BY <1>1, <1>f, <2>1, <2>3, <3>1 DEF TradesOf
  <2>4. QED
    BY <1>1, <2>2, <2>3
<1>2. CASE content.format = "json" /\ found.lines = _candidate_from_mapping(First(content), 1)
  <2>1. content.wrapped = {}
    BY <1>2, IntakeAssumption
  <2>2. TradesOf(content) = {i \in DOMAIN content.lines : Traded(content.lines[i])}
    BY <1>2, <2>1 DEF TradesOf
  <2>3. ASSUME NEW i \in TradesOf(content) \ Beyond(content)
        PROVE  i \in found.lines
    <3>1. i \in DOMAIN First(content) /\ First(content)[i] = content.lines[i] /\ Traded(content.lines[i])
      BY <1>2, <1>f, <2>2, <2>3 DEF Beyond
    <3>2. QED
      BY <1>2, <1>f, <3>1 DEF _candidate_from_mapping, Traded, Dated, Dates
  <2>4. ASSUME NEW i \in found.lines \ TradesOf(content)
        PROVE  ~Traded(content.lines[i])
    BY <1>2, <1>f, <2>2, <2>4 DEF _candidate_from_mapping
  <2>5. QED
    BY <1>2, <2>3, <2>4
<1>3. CASE content.format \in {"pdf", "image"} /\ found.lines = parse_table_text(content.lines)
  <2>1. TradesOf(content) = {i \in DOMAIN content.lines : Traded(content.lines[i])} \cup content.wrapped
    BY <1>3 DEF TradesOf
  <2>2. \A i \in content.wrapped : i \in 1 .. Len(content.lines) - 1
    BY IntakeAssumption
  <2>3. /\ \A i \in DOMAIN content.lines : Traded(content.lines[i]) => i \in parse_table_text(content.lines)
        /\ \A i \in content.wrapped : i < Len(content.lines) => i \in parse_table_text(content.lines)
        /\ \A i \in parse_table_text(content.lines) :
               i \in DOMAIN content.lines /\ (Traded(content.lines[i]) \/ Half(content.lines[i]))
    BY <1>3, <1>f, TextTold
  <2>4. TradesOf(content) \subseteq found.lines
    BY <1>3, <1>f, <2>1, <2>2, <2>3
  <2>5. QED
    BY <1>3, <2>1, <2>3, <2>4
<1>4. CASE content.format = "pdf" /\ content.first > 0 /\ found.lines = parse_table_text(First(content))
  <2>1. TradesOf(content) = {i \in DOMAIN content.lines : Traded(content.lines[i])} \cup content.wrapped
    BY <1>4 DEF TradesOf
  <2>2. \A i \in content.wrapped : i \in 1 .. Len(content.lines) - 1
    BY IntakeAssumption
  <2>3. /\ \A i \in DOMAIN First(content) : Traded(First(content)[i]) => i \in parse_table_text(First(content))
        /\ \A i \in content.wrapped : i < Len(First(content)) => i \in parse_table_text(First(content))
        /\ \A i \in parse_table_text(First(content)) :
               i \in DOMAIN First(content) /\ (Traded(First(content)[i]) \/ Half(First(content)[i]))
    BY <1>4, <1>f, TextTold
  <2>4. ASSUME NEW i \in TradesOf(content) \ Beyond(content)
        PROVE  i \in found.lines
    <3>1. i \in 1 .. content.first /\ ~(i = content.first /\ i \in content.wrapped)
      BY <1>4, <1>f, <2>1, <2>2, <2>4 DEF Beyond
    <3>2. CASE i \in content.wrapped
      BY <1>4, <1>f, <2>3, <3>1, <3>2
    <3>3. CASE i \notin content.wrapped
      BY <1>4, <1>f, <2>1, <2>3, <2>4, <3>1, <3>3
    <3>4. QED
      BY <3>2, <3>3
  <2>5. QED
    BY <1>4, <1>f, <2>1, <2>3, <2>4
<1>5. QED
  BY <1>1, <1>2, <1>3, <1>4, ExtractedLines

\* A limit that is raised still holds.
LEMMA WithinLimit ==
    ASSUME NEW low \in Nat, NEW high \in Nat, NEW S, S \subseteq 1 .. low, low <= high
    PROVE  \A x \in S : x <= high
<1>1. QED
  OBVIOUS

LEMMA ExtractionTells ==
    ASSUME NEW content \in Content, NEW kind, NEW found \in extract(content, kind), NEW d \in Nat
    PROVE  LET run == [document |-> d, status |-> found.status, row_count |-> Cardinality(found.lines),
                       candidates |-> Inserted(content, found.lines)]
           IN  run \in Extraction /\ TellsTheDocument(run, content, kind)
<1>1. found.lines \subseteq DOMAIN content.lines /\ found.lines \subseteq Nat /\ IsFiniteSet(found.lines)
  BY ExtractedLines, ContentShape, FS_Subset
<1>2. Inserted(content, found.lines) \subseteq found.lines
  BY DEF Inserted
<1>3. Cardinality(found.lines) = Cardinality(Inserted(content, found.lines))
      => Inserted(content, found.lines) = found.lines
  BY <1>1, <1>2, FS_Subset
<1>4. Cardinality(found.lines) \in Nat
  BY <1>1, FS_CardinalityType
<1>5. \A i \in found.lines \ Inserted(content, found.lines) : \E j \in 1 .. i : "huge" \in content.lines[j]
  BY <1>1, ContentShape DEF Inserted, Refused
<1>6. CASE found.status = "ok"
  <2>1. TradesOf(content) \ Beyond(content) \subseteq found.lines
        /\ \A i \in found.lines \ TradesOf(content) :
               ~Traded(content.lines[i]) /\ (content.format \notin {"table", "json"} => Half(content.lines[i]))
    BY <1>6, TradesAreFound
  <2>2. kind # "unknown"
    BY <1>6, ExtractedLines
  <2>3. QED
    BY <1>1, <1>2, <1>3, <1>4, <1>5, <1>6, <2>1, <2>2 DEF TellsTheDocument, Extraction
<1>7. CASE found.status # "ok"
  BY <1>1, <1>2, <1>4, <1>7, ExtractedLines DEF TellsTheDocument, Extraction
<1>8. QED
  BY <1>6, <1>7

LEMMA IntakeInitial == IntakeInit => IntakeInv
<1> SUFFICES ASSUME IntakeInit PROVE IntakeInv
  OBVIOUS
<1>1. DOMAIN documents = {} /\ DOMAIN extractions = {} /\ DOMAIN on_disk = {} /\ imported = {} /\ uploading.at = "none"
  BY DEF IntakeInit, NoJob
<1>2. UploadsAreWhole /\ FilesAreNamed /\ UploadAtHand
  BY <1>1 DEF UploadsAreWhole, OneDocumentEach, FilesKept, ExtractionsTell, ImportsLast, FilesAreNamed, UploadAtHand
<1>3. QED
  BY <1>1, <1>2, IntakeAssumption DEF IntakeInit, IntakeInv

\* A document that learns its kind had no extraction that told anything.
LEMMA UploadKeeps == IntakeInv /\ upload => IntakeInv'
<1> SUFFICES ASSUME IntakeInv, upload PROVE IntakeInv'
  OBVIOUS
<1> USE DEF IntakeInv
<1>1. UNCHANGED <<on_disk, extractions, imported, stops, cut>> /\ uploads' \in 0 .. MaxUploads
  BY IntakeAssumption DEF upload
<1>2. PICK content \in Content, name \in Name : \E kind \in detect_source_kind(content, name) :
        \/ \E d \in DOMAIN documents :
            /\ documents[d].content = content
            /\ IF documents[d].kind = "unknown" /\ kind # "unknown"
               THEN /\ documents' = [documents EXCEPT ![d].kind = kind]
                    /\ committed_runs' = Len(extractions)
               ELSE UNCHANGED <<documents, committed_runs>>
            /\ uploading' = [at |-> "extract", document |-> d]
        \/ /\ \A d \in DOMAIN documents : documents[d].content # content
           /\ uploading' = [at |-> "file", content |-> content, name |-> name, kind |-> kind]
           /\ UNCHANGED <<documents, committed_runs>>
  BY DEF upload
<1>3. PICK kind \in SourceKind \cup {"unknown"} :
        \/ \E d \in DOMAIN documents :
            /\ IF documents[d].kind = "unknown" /\ kind # "unknown"
               THEN /\ documents' = [documents EXCEPT ![d].kind = kind]
                    /\ committed_runs' = Len(extractions)
               ELSE UNCHANGED <<documents, committed_runs>>
            /\ uploading' = [at |-> "extract", document |-> d]
        \/ /\ \A d \in DOMAIN documents : documents[d].content # content
           /\ uploading' = [at |-> "file", content |-> content, name |-> name, kind |-> kind]
           /\ UNCHANGED <<documents, committed_runs>>
  <2>1. detect_source_kind(content, name) \subseteq SourceKind \cup {"unknown"}
    BY IntakeAssumption DEF detect_source_kind, SourceKind
  <2>2. QED
    BY <1>2, <2>1
<1>4. ASSUME NEW d \in DOMAIN documents, uploading' = [at |-> "extract", document |-> d],
             documents[d].kind = "unknown", documents' = [documents EXCEPT ![d].kind = kind],
             committed_runs' = Len(extractions)
      PROVE  IntakeInv'
  <2>1. documents' \in Seq(SourceDocument)
        /\ DOMAIN documents' = DOMAIN documents
        /\ \A e \in DOMAIN documents : /\ documents'[e].content = documents[e].content
                                       /\ documents'[e].name = documents[e].name
                                       /\ documents'[e].kind # documents[e].kind => documents[e].kind = "unknown"
                                       /\ documents'[e].kind = "unknown" => documents[e].kind = "unknown"
    <3>1. documents[d] \in SourceDocument
      BY <1>4, ElementOfSeq
    <3>2. documents' = [documents EXCEPT ![d] = [documents[d] EXCEPT !.kind = kind]]
      BY <1>4
    <3>3. documents' \in Seq(SourceDocument)
      BY <3>1, <3>2, DocumentShape
    <3>4. /\ DOMAIN documents' = DOMAIN documents /\ documents'[d] = [documents[d] EXCEPT !.kind = kind]
          /\ \A e \in DOMAIN documents \ {d} : documents'[e] = documents[e]
      BY <1>4, <3>2
    <3>5. QED
      BY <1>4, <3>1, <3>3, <3>4, DocumentShape
  <2>2. UploadAtHand'
    BY <1>4, <2>1 DEF UploadAtHand
  <2>3. FilesAreNamed'
    BY <1>1 DEF FilesAreNamed
  <2>4. UploadsAreWhole'
    <3>1. ExtractionsTell'
      BY <1>1, <2>1 DEF UploadsAreWhole, ExtractionsTell, TellsTheDocument
    <3>2. ImportsLast'
      BY <1>1, <1>4, <2>1 DEF UploadsAreWhole, ImportsLast, CanBeImported
    <3>3. FilesKept'
      BY <1>1, <2>1 DEF UploadsAreWhole, FilesKept, FileKept
    <3>4. OneDocumentEach'
      BY <2>1 DEF UploadsAreWhole, OneDocumentEach
    <3>5. QED
      BY <3>1, <3>2, <3>3, <3>4 DEF UploadsAreWhole
  <2>5. imported \subseteq 1 .. committed_runs' /\ committed_runs' \in 0 .. Len(extractions)
    BY <1>4
  <2>6. QED
    BY <1>1, <2>1, <2>2, <2>3, <2>4, <2>5
<1>5. ASSUME NEW d \in DOMAIN documents, uploading' = [at |-> "extract", document |-> d],
             UNCHANGED <<documents, committed_runs>>
      PROVE  IntakeInv'
  BY <1>1, <1>5 DEF UploadAtHand, FilesAreNamed, UploadsAreWhole, OneDocumentEach, FilesKept,
      FileKept, ExtractionsTell, ImportsLast, CanBeImported
<1>6. ASSUME \A d \in DOMAIN documents : documents[d].content # content,
             uploading' = [at |-> "file", content |-> content, name |-> name, kind |-> kind],
             UNCHANGED <<documents, committed_runs>>
      PROVE  IntakeInv'
  BY <1>1, <1>6 DEF UploadAtHand, FilesAreNamed, UploadsAreWhole, OneDocumentEach, FilesKept,
      FileKept, ExtractionsTell, ImportsLast, CanBeImported
<1>7. QED
  BY <1>3, <1>4, <1>5, <1>6

LEMMA FileIsWritten == IntakeInv /\ write_bytes => IntakeInv'
<1> SUFFICES ASSUME IntakeInv, write_bytes PROVE IntakeInv'
  OBVIOUS
<1> USE DEF IntakeInv
<1> DEFINE file == stored_name(uploading.content, uploading.name)
<1> DEFINE bytes == [of |-> uploading.content, whole |-> TRUE]
<1>1. /\ uploading.at = "file" /\ uploading' = [uploading EXCEPT !.at = "insert"]
      /\ UNCHANGED <<documents, extractions, committed_runs, imported, uploads, stops, cut>>
      /\ IF file \in DOMAIN on_disk THEN UNCHANGED on_disk ELSE Write(file, bytes)
  BY DEF write_bytes
<1>2. bytes.of = uploading.content /\ bytes.whole /\ file[1] = uploading.content
  BY NameTells
<1> HIDE DEF file, bytes
<1>3. /\ DOMAIN on_disk' = DOMAIN on_disk \cup {file}
      /\ \A f \in DOMAIN on_disk : on_disk'[f] = on_disk[f]
      /\ file \notin DOMAIN on_disk => on_disk'[file] = bytes
  BY <1>1 DEF Write
<1>4. uploading' = [at |-> "insert", content |-> uploading.content, name |-> uploading.name, kind |-> uploading.kind]
  BY <1>1 DEF UploadAtHand
<1>5. UploadAtHand'
  BY <1>1, <1>3, <1>4 DEF UploadAtHand, file
<1>6. FilesAreNamed'
  BY <1>1, <1>2, <1>3 DEF FilesAreNamed
<1>7. FilesKept'
  BY <1>1, <1>3 DEF UploadsAreWhole, FilesKept, FileKept
<1>8. OneDocumentEach' /\ ExtractionsTell' /\ ImportsLast'
  BY <1>1 DEF UploadsAreWhole, OneDocumentEach, ExtractionsTell, ImportsLast, CanBeImported
<1>9. QED
  BY <1>1, <1>3, <1>5, <1>6, <1>7, <1>8 DEF UploadsAreWhole

LEMMA DocumentIsAdded == IntakeInv /\ add_document => IntakeInv'
<1> SUFFICES ASSUME IntakeInv, add_document PROVE IntakeInv'
  OBVIOUS
<1> USE DEF IntakeInv
<1> DEFINE new == [content |-> uploading.content, name |-> uploading.name, kind |-> uploading.kind]
<1> DEFINE next == Len(documents) + 1
<1>1. /\ uploading.at = "insert" /\ documents' = Append(documents, new) /\ committed_runs' = Len(extractions)
      /\ uploading' = [at |-> "extract", document |-> next]
      /\ UNCHANGED <<on_disk, extractions, imported, uploads, stops, cut>>
  BY DEF add_document
<1>2. new \in SourceDocument
  BY <1>1 DEF UploadAtHand, SourceDocument
<1>3. new.content = uploading.content /\ new.name = uploading.name
  OBVIOUS
<1> HIDE DEF new
<1>4. /\ documents' \in Seq(SourceDocument)
      /\ next \in DOMAIN documents' /\ documents'[next] = new
      /\ \A d \in DOMAIN documents : d \in DOMAIN documents' /\ documents'[d] = documents[d]
      /\ \A d \in DOMAIN documents' : d \in DOMAIN documents \/ d = next
  BY <1>1, <1>2
<1> HIDE DEF next
<1>5. /\ \A d \in DOMAIN documents : documents[d].content # uploading.content
      /\ stored_name(uploading.content, uploading.name) \in DOMAIN on_disk
  BY <1>1 DEF UploadAtHand
<1>6. OneDocumentEach'
  BY <1>3, <1>4, <1>5 DEF UploadsAreWhole, OneDocumentEach
<1>7. FilesKept'
  <2>1. LET file == stored_name(uploading.content, uploading.name)
        IN  on_disk[file].of = uploading.content /\ (on_disk[file].whole \/ file \in cut)
    BY <1>5, NameTells DEF FilesAreNamed
  <2>2. \A d \in DOMAIN documents : FileKept(documents[d])'
    BY <1>1, <1>4 DEF UploadsAreWhole, FilesKept, FileKept
  <2>3. QED
    BY <1>1, <1>3, <1>4, <1>5, <2>1, <2>2 DEF FilesKept, FileKept
<1>8. \A x \in DOMAIN extractions : documents'[extractions[x].document] = documents[extractions[x].document]
  BY <1>4
<1>9. ExtractionsTell'
  BY <1>1, <1>8 DEF UploadsAreWhole, ExtractionsTell
<1>10. ImportsLast'
  BY <1>1, <1>8 DEF UploadsAreWhole, ImportsLast, CanBeImported
<1>11. UploadAtHand' /\ FilesAreNamed'
  BY <1>1, <1>4 DEF UploadAtHand, FilesAreNamed
<1>12. QED
  BY <1>1, <1>4, <1>6, <1>7, <1>9, <1>10, <1>11 DEF UploadsAreWhole

LEMMA ExtractionIsRecorded == IntakeInv /\ record_extraction => IntakeInv'
<1> SUFFICES ASSUME IntakeInv, record_extraction PROVE IntakeInv'
  OBVIOUS
<1> USE DEF IntakeInv
<1> DEFINE document == documents[uploading.document]
<1> DEFINE next == Len(extractions) + 1
<1>1. uploading.at = "extract" /\ uploading' = NoJob /\ UNCHANGED <<documents, on_disk, imported, uploads, stops, cut>>
  BY DEF record_extraction
<1>2. PICK found \in extract(document.content, document.kind) :
        /\ extractions' = Append(extractions,
              [document |-> uploading.document, status |-> found.status, row_count |-> Cardinality(found.lines),
               candidates |-> Inserted(document.content, found.lines)])
        /\ committed_runs' = IF Refused(document.content, found.lines) = {} THEN Len(extractions') ELSE committed_runs
  BY DEF record_extraction
<1>3. uploading.document \in DOMAIN documents
  BY <1>1 DEF UploadAtHand
<1>4. document \in SourceDocument /\ uploading.document \in Nat
  BY <1>3, ElementOfSeq
<1> HIDE DEF document
<1>5. document.content \in Content
  BY <1>4, DocumentShape
<1> DEFINE run == [document |-> uploading.document, status |-> found.status, row_count |-> Cardinality(found.lines),
                   candidates |-> Inserted(document.content, found.lines)]
<1>6. run \in Extraction /\ TellsTheDocument(run, document.content, document.kind)
  BY <1>4, <1>5, ExtractionTells
<1>7. run.document = uploading.document /\ extractions' = Append(extractions, run)
  BY <1>2
<1> HIDE DEF run
<1>8. /\ extractions' \in Seq(Extraction) /\ Len(extractions') = next
      /\ next \in DOMAIN extractions' /\ extractions'[next] = run
      /\ \A x \in DOMAIN extractions : x \in DOMAIN extractions' /\ extractions'[x] = extractions[x]
      /\ \A x \in DOMAIN extractions' : x \in DOMAIN extractions \/ x = next
  BY <1>6, <1>7
<1>9. committed_runs' \in 0 .. Len(extractions') /\ imported \subseteq 1 .. committed_runs' /\ committed_runs <= committed_runs'
  BY <1>2, <1>8
<1>10. imported \subseteq DOMAIN extractions
  OBVIOUS
<1> HIDE DEF next
<1>11. \A x \in DOMAIN extractions' : extractions'[x].document \in DOMAIN documents
  BY <1>3, <1>7, <1>8
<1>12. ExtractionsTell'
  BY <1>1, <1>6, <1>7, <1>8 DEF UploadsAreWhole, ExtractionsTell, document
<1>13. ImportsLast'
  <2>1. \A x \in imported : x <= committed_runs'
    <3>1. committed_runs \in Nat /\ committed_runs' \in Nat
      BY <1>8, <1>9
    <3>2. QED
      BY <1>9, <3>1, WithinLimit
  <2>2. QED
    BY <1>1, <1>8, <1>10, <2>1 DEF UploadsAreWhole, ImportsLast, CanBeImported
<1>14. OneDocumentEach' /\ FilesKept'
  BY <1>1 DEF UploadsAreWhole, OneDocumentEach, FilesKept, FileKept
<1>15. UploadAtHand' /\ FilesAreNamed'
  BY <1>1 DEF UploadAtHand, FilesAreNamed, NoJob
<1>16. QED
  BY <1>1, <1>8, <1>9, <1>11, <1>12, <1>13, <1>14, <1>15 DEF UploadsAreWhole

LEMMA ConnectionCommits ==
    IntakeInv /\ (StoreWrites \/ \E x \in DOMAIN extractions : commit_import(x)) => IntakeInv'
<1> SUFFICES ASSUME IntakeInv, StoreWrites \/ \E x \in DOMAIN extractions : commit_import(x) PROVE IntakeInv'
  OBVIOUS
<1> USE DEF IntakeInv
<1>1. UNCHANGED <<documents, on_disk, extractions, uploading, uploads, stops, cut>> /\ committed_runs' = Len(extractions)
  BY DEF StoreWrites, commit_import
<1>2. UploadAtHand' /\ FilesAreNamed' /\ OneDocumentEach' /\ FilesKept' /\ ExtractionsTell'
  BY <1>1 DEF UploadsAreWhole, UploadAtHand, FilesAreNamed, OneDocumentEach, FilesKept, FileKept, ExtractionsTell
<1>3. imported \subseteq DOMAIN extractions /\ DOMAIN extractions = 1 .. committed_runs'
  BY <1>1
<1>4. /\ imported' \subseteq DOMAIN extractions
      /\ \A x \in imported' : CanBeImported(extractions[x])
  <2>1. CASE StoreWrites
    BY <1>3, <2>1 DEF StoreWrites, UploadsAreWhole, ImportsLast
  <2>2. ASSUME NEW x \in DOMAIN extractions, commit_import(x) PROVE <1>4!1 /\ <1>4!2
    <3>1. imported' = imported \cup {x} /\ CanBeImported(extractions[x])
      BY <2>2 DEF commit_import, CanBeImported
    <3>2. QED
      BY <1>3, <3>1 DEF UploadsAreWhole, ImportsLast
  <2>3. QED
    BY <2>1, <2>2
<1>5. ImportsLast'
  <2>1. \A x \in imported' : x <= committed_runs'
    BY <1>1, <1>4
  <2>2. QED
    BY <1>1, <1>4, <2>1 DEF ImportsLast, CanBeImported
<1>6. QED
  BY <1>1, <1>2, <1>3, <1>4, <1>5 DEF UploadsAreWhole

LEMMA UploadIsKilled == IntakeInv /\ Killed => IntakeInv'
<1> SUFFICES ASSUME IntakeInv, Killed PROVE IntakeInv'
  OBVIOUS
<1> USE DEF IntakeInv
<1> DEFINE file == stored_name(uploading.content, uploading.name)
<1> DEFINE bytes == [of |-> uploading.content, whole |-> FALSE]
<1>1. /\ extractions' = SubSeq(extractions, 1, committed_runs) /\ uploading' = NoJob
      /\ UNCHANGED <<documents, committed_runs, imported, uploads>> /\ stops' \in 0 .. MaxStops
  BY IntakeAssumption DEF Killed
<1>2. /\ extractions' \in Seq(Extraction) /\ Len(extractions') = committed_runs
      /\ DOMAIN extractions' = 1 .. committed_runs
      /\ \A x \in DOMAIN extractions' : x \in DOMAIN extractions /\ extractions'[x] = extractions[x]
  <2>1. committed_runs \in Nat /\ committed_runs <= Len(extractions)
    OBVIOUS
  <2>2. QED
    BY <1>1, <2>1, SubSeqProperties
<1>3. /\ cut' \subseteq DOMAIN on_disk' /\ cut \subseteq cut'
      /\ \A f \in DOMAIN on_disk : f \in DOMAIN on_disk' /\ on_disk'[f] = on_disk[f]
      /\ FilesAreNamed'
  <2>1. CASE UNCHANGED <<on_disk, cut>>
    BY <2>1 DEF FilesAreNamed
  <2>2. CASE file \notin DOMAIN on_disk /\ Write(file, bytes) /\ cut' = cut \cup {file}
    <3>1. bytes.of = uploading.content /\ file[1] = uploading.content
      BY NameTells
    <3> HIDE DEF file, bytes
    <3>2. DOMAIN on_disk' = DOMAIN on_disk \cup {file} /\ on_disk'[file] = bytes
          /\ \A f \in DOMAIN on_disk : on_disk'[f] = on_disk[f]
      BY <2>2 DEF Write
    <3>3. QED
      BY <2>2, <3>1, <3>2 DEF FilesAreNamed
  <2>3. QED
    BY <2>1, <2>2 DEF Killed
<1>4. OneDocumentEach' /\ FilesKept'
  BY <1>1, <1>3 DEF UploadsAreWhole, OneDocumentEach, FilesKept, FileKept
<1>5. ExtractionsTell' /\ ImportsLast'
  BY <1>1, <1>2 DEF UploadsAreWhole, ExtractionsTell, ImportsLast, CanBeImported
<1>6. UploadAtHand'
  BY <1>1 DEF UploadAtHand, NoJob
<1>7. UploadsAreWhole'
  BY <1>4, <1>5 DEF UploadsAreWhole
<1>8. /\ documents' \in Seq(SourceDocument) /\ uploads' \in 0 .. MaxUploads
      /\ imported' \subseteq 1 .. committed_runs'
  BY <1>1
<1>9. committed_runs' \in 0 .. Len(extractions')
  BY <1>1, <1>2
<1>10. \A x \in DOMAIN extractions' : extractions'[x].document \in DOMAIN documents'
  BY <1>1, <1>2
<1> HIDE DEF IntakeInv
<1>11. QED
  BY <1>1, <1>2, <1>3, <1>6, <1>7, <1>8, <1>9, <1>10 DEF IntakeInv

LEMMA IntakeStepKeeps == IntakeInv /\ [IntakeNext]_intakeVars => IntakeInv'
<1> SUFFICES ASSUME IntakeInv, [IntakeNext]_intakeVars PROVE IntakeInv'
  OBVIOUS
<1>1. CASE ExtractionRaises \/ UNCHANGED intakeVars
  <2>1. UNCHANGED <<documents, on_disk, extractions, committed_runs, imported, uploads, stops, cut>>
        /\ (uploading' = NoJob \/ UNCHANGED uploading)
    BY <1>1 DEF ExtractionRaises, intakeVars
  <2>2. UploadAtHand'
    BY <2>1 DEF IntakeInv, UploadAtHand, NoJob
  <2>3. QED
    BY <2>1, <2>2 DEF IntakeInv, FilesAreNamed, UploadsAreWhole, OneDocumentEach, FilesKept, FileKept,
      ExtractionsTell, ImportsLast, CanBeImported
<1>2. QED
  BY <1>1, UploadKeeps, FileIsWritten, DocumentIsAdded, ExtractionIsRecorded, ConnectionCommits, UploadIsKilled
  DEF IntakeNext

LEMMA IntakeInvariant == IntakeSpec => []IntakeInv
<1>1. QED
  BY IntakeInitial, IntakeStepKeeps, PTL DEF IntakeSpec

LEMMA IntakeInvType == IntakeInv => IntakeTypeOK
  BY DEF IntakeInv, IntakeTypeOK, UploadAtHand

\* For any uploads, kinds, engines, kills and other requests between them: documents are
\* kept once and whole, and extractions and imports are of what they say (store.py,
\* extractors.py).
THEOREM UploadsStayWhole == IntakeSpec => []UploadsAreWhole
<1>1. IntakeInv => UploadsAreWhole
  BY DEF IntakeInv
<1>2. QED
  BY <1>1, IntakeInvariant, PTL

-----------------------------------------------------------------------------
(* What leaves the machine (Redaction.tla).                                *)

\* A set of positions that is not empty has a least one.
LEMMA LeastPlace ==
    ASSUME NEW S \in SUBSET Nat, S # {}
    PROVE  Min(S) \in S /\ \A k \in S : Min(S) <= k
<1>1. \E x \in S : \A y \in S : x <= y
  BY LeastNumber
<1>2. QED
  BY <1>1, Zenon DEF Min

\* What the rules of a key exclude one another for.
LEMMA RulesApart ==
    ASSUME NEW key \in Key
    PROVE  /\ "symbol" \in key => key = {"symbol"}
           /\ "date" \in key => key = {"date"}
           /\ "portfolio" \in key => key \subseteq {"portfolio", "identifier"}
           /\ "direct" \in key => "identifier" \in key /\ "portfolio" \notin key
           /\ "identifier" \in key => key \cap {"quantity", "amount", "time"} = {}
           /\ "time" \in key => key \cap {"quantity", "amount"} = {}
<1>1. ASSUME NEW x \in {"symbol", "date"}, x \in key PROVE key = {x}
  <2>1. IsFiniteSet(Rule)
    <3>1. \A S, y : IsFiniteSet(S) => IsFiniteSet(S \cup {y})
      BY FS_AddElement
    <3>2. IsFiniteSet({"sensitive"})
      BY FS_Singleton
    <3>3. IsFiniteSet((((((((({"sensitive"} \cup {"portfolio"}) \cup {"symbol"}) \cup {"date"}) \cup {"quantity"})
              \cup {"amount"}) \cup {"time"}) \cup {"identifier"}) \cup {"direct"}) \cup {"attachment"})
      BY <3>1, <3>2
    <3>4. QED
      BY <3>3 DEF Rule
  <2>2. key \subseteq Rule /\ Cardinality(key) = 1
    BY <1>1 DEF Key
  <2>3. IsFiniteSet(key)
    BY <2>1, <2>2, FS_Subset
  <2>4. PICK y : key = {y}
    BY <2>2, <2>3, FS_Singleton
  <2>5. QED
    BY <1>1, <2>4
<1>2. ASSUME NEW x, NEW y, x # y, {x, y} \subseteq key \cap {"quantity", "amount", "time", "identifier"}
      PROVE  FALSE
  <2>1. IsFiniteSet(key \cap {"quantity", "amount", "time", "identifier"})
    <3>1. \A S, z : IsFiniteSet(S) => IsFiniteSet(S \cup {z})
      BY FS_AddElement
    <3>2. IsFiniteSet({"quantity"})
      BY FS_Singleton
    <3>3. IsFiniteSet((({"quantity"} \cup {"amount"}) \cup {"time"}) \cup {"identifier"})
      BY <3>1, <3>2
    <3>4. QED
      BY <3>3, FS_Subset
  <2>2. Cardinality(key \cap {"quantity", "amount", "time", "identifier"}) <= 1
    BY DEF Key
  <2>3. IsFiniteSet({x, y}) /\ Cardinality({x, y}) <= Cardinality(key \cap {"quantity", "amount", "time", "identifier"})
    BY <1>2, <2>1, FS_Subset
  <2>4. Cardinality({x, y}) = 2
    <3>1. IsFiniteSet({x}) /\ Cardinality({x}) = 1 /\ y \notin {x} /\ {x, y} = {x} \cup {y}
      BY <1>2, FS_Singleton
    <3>2. Cardinality({x} \cup {y}) = Cardinality({x}) + 1
      BY <3>1, FS_AddElement
    <3>3. QED
      BY <3>1, <3>2
  <2>5. Cardinality(key \cap {"quantity", "amount", "time", "identifier"}) \in Nat
    BY <2>1, FS_CardinalityType
  <2>6. QED
    BY <2>2, <2>3, <2>4, <2>5
<1>3. "direct" \in key => "identifier" \in key
  BY DEF Key
<1>4. "portfolio" \in key => key \subseteq {"portfolio", "identifier"}
  BY DEF Key
<1>5. QED
  BY <1>1, <1>2, <1>3, <1>4

\* A mask does not depend on what the value is, but for the rules about text.
LEMMA MasksOfText ==
    ASSUME NEW key \in Key, NEW text \in BOOLEAN, MaskOf(key, text) # "none"
    PROVE  MaskOf(key, TRUE) = MaskOf(key, text)
  BY RulesApart DEF MaskOf, alias_for, quantity_band, amount_band, time_bucket, date_bucket

LEMMA LeafShape ==
    ASSUME NEW leaf \in Leaf
    PROVE  /\ leaf.path \in Seq(Key) /\ leaf.value \in Value /\ leaf.listed \in BOOLEAN
           /\ Len(leaf.path) \in Nat /\ DOMAIN leaf.path = 1 .. Len(leaf.path)
           /\ \A i \in DOMAIN leaf.path : leaf.path[i] \in Key
           /\ MasksAt(leaf) \subseteq 1 .. Len(leaf.path)
<1>1. leaf.path \in Seq(Key) /\ leaf.value \in Value /\ leaf.listed \in BOOLEAN
  BY DEF Leaf
<1>2. QED
  BY <1>1, ElementOfSeq DEF MasksAt

\* What is left of a leaf below whose first masked key there is nothing any more.
LEMMA MaskedLeaf ==
    ASSUME NEW leaf \in Leaf, MasksAt(leaf) # {}
    PROVE  \E i \in MasksAt(leaf) : LET red == RedactedLeaf(leaf) IN
              /\ \A j \in MasksAt(leaf) : i <= j
              /\ Len(red.path) = i /\ DOMAIN red.path = 1 .. i
              /\ \A j \in 1 .. i : red.path[j] = leaf.path[j]
              /\ red.value = [form |-> MaskOf(leaf.path[i], TextAt(leaf, i)), marks |-> {}]
<1>1. MasksAt(leaf) \in SUBSET Nat
  BY LeafShape
<1> DEFINE i == Min(MasksAt(leaf))
<1>2. i \in MasksAt(leaf) /\ \A j \in MasksAt(leaf) : i <= j
  BY <1>1, LeastPlace
<1> HIDE DEF i
<1>3. i \in 1 .. Len(leaf.path)
  BY <1>2, LeafShape
<1> DEFINE new == SubSeq(leaf.path, 1, i)
<1>4. new \in Seq(Key) /\ Len(new) = i /\ DOMAIN new = 1 .. i /\ \A j \in 1 .. i : new[j] = leaf.path[j]
  BY <1>3, LeafShape, SubSeqProperties
<1>5. RedactedLeaf(leaf) = [leaf EXCEPT !.path = new,
          !.value = [form |-> MaskOf(leaf.path[i], TextAt(leaf, i)), marks |-> {}]]
  BY DEF RedactedLeaf, i
<1>6. RedactedLeaf(leaf).path = new /\ RedactedLeaf(leaf).value = [form |-> MaskOf(leaf.path[i], TextAt(leaf, i)), marks |-> {}]
  <2>1. leaf = [path |-> leaf.path, value |-> leaf.value, listed |-> leaf.listed]
    BY DEF Leaf
  <2> HIDE DEF new
  <2>2. QED
    BY <1>5, <2>1
<1> HIDE DEF new
<1>7. QED
  BY <1>2, <1>4, <1>6, Zenon

LEMMA CleanLeaf ==
    ASSUME NEW leaf \in Leaf, MasksAt(leaf) = {}
    PROVE  LET red == RedactedLeaf(leaf) IN
              /\ red.path = leaf.path /\ red.value.form = leaf.value.form
              /\ red.value.marks = leaf.value.marks \ {"secret", "code"}
<1>1. RedactedLeaf(leaf) = [leaf EXCEPT !.value = Cleaned(@)]
  BY DEF RedactedLeaf
<1>2. /\ leaf = [path |-> leaf.path, value |-> leaf.value, listed |-> leaf.listed]
      /\ leaf.value = [form |-> leaf.value.form, marks |-> leaf.value.marks]
  BY DEF Leaf, Value
<1>3. QED
  BY <1>1, <1>2 DEF Cleaned

\* A quantity or an account that a text spells out stays if no key asks for a mask.
LEMMA SpelledOutStays ==
    ASSUME NEW leaf \in Leaf
    PROVE  Spells(RedactedLeaf(leaf)) <=> Spells(leaf) /\ MasksAt(leaf) = {}
<1>1. CASE MasksAt(leaf) = {}
  <2>1. RedactedLeaf(leaf).value.marks = leaf.value.marks \ {"secret", "code"}
    BY <1>1, CleanLeaf
  <2>2. QED
    BY <1>1, <2>1 DEF Spells, SpelledOut
<1>2. CASE MasksAt(leaf) # {}
  <2>1. PICK i \in MasksAt(leaf) :
              RedactedLeaf(leaf).value = [form |-> MaskOf(leaf.path[i], TextAt(leaf, i)), marks |-> {}]
    BY <1>2, MaskedLeaf
  <2>2. RedactedLeaf(leaf).value.marks = {}
    BY <2>1
  <2>3. QED
    BY <1>2, <2>2 DEF Spells
<1>3. QED
  BY <1>1, <1>2

\* Redaction leaves nothing to reduce that it goes by.
LEMMA RedactionReduces == ASSUME NEW leaf \in Leaf PROVE Reduced(RedactedLeaf(leaf))
<1> DEFINE red == RedactedLeaf(leaf)
<1>1. CASE MasksAt(leaf) = {}
  <2>1. red.path = leaf.path /\ red.value.form = leaf.value.form
        /\ red.value.marks = leaf.value.marks \ {"secret", "code"}
    BY <1>1, CleanLeaf
  <2> HIDE DEF red
  <2>2. \A i \in DOMAIN leaf.path : MaskOf(leaf.path[i], TextAt(leaf, i)) = "none"
    BY <1>1 DEF MasksAt
  <2>3. \A i \in DOMAIN leaf.path : TextAt(red, i) = TextAt(leaf, i)
    BY <2>1 DEF TextAt, IsLast, IsText
  <2>4. MasksAt(red) = {}
    BY <2>1, <2>2, <2>3 DEF MasksAt
  <2>5. QED
    BY <2>1, <2>2, <2>3, <2>4 DEF Reduced, red
<1>2. CASE MasksAt(leaf) # {}
  <2>1. PICK i \in MasksAt(leaf) :
              /\ \A j \in MasksAt(leaf) : i <= j
              /\ Len(red.path) = i /\ DOMAIN red.path = 1 .. i
              /\ \A j \in 1 .. i : red.path[j] = leaf.path[j]
              /\ red.value = [form |-> MaskOf(leaf.path[i], TextAt(leaf, i)), marks |-> {}]
    BY <1>2, MaskedLeaf
  <2>2. i \in 1 .. Len(leaf.path) /\ Len(leaf.path) \in Nat /\ DOMAIN leaf.path = 1 .. Len(leaf.path)
    BY LeafShape
  <2> HIDE DEF red
  <2>3. red.value.marks \cap {"secret", "code"} = {}
    BY <2>1
  <2>4. ASSUME NEW j \in 1 .. i, MaskOf(red.path[j], TextAt(red, j)) # "none"
        PROVE  IsLast(red, j) /\ red.value.form = MaskOf(red.path[j], TRUE)
    <3>1. CASE j < i
      <4>1. ~IsLast(red, j) /\ ~IsLast(leaf, j)
        BY <2>1, <2>2, <3>1 DEF IsLast
      <4>2. TextAt(red, j) = TextAt(leaf, j)
        BY <4>1, Zenon DEF TextAt
      <4>5. red.path[j] = leaf.path[j]
        BY <2>1
      <4>6. MaskOf(leaf.path[j], TextAt(leaf, j)) # "none"
        BY <2>4, <4>2, <4>5
      <4>3. j \in MasksAt(leaf)
        BY <2>2, <4>6 DEF MasksAt
      <4>4. QED
        BY <2>1, <2>2, <3>1, <4>3
    <3>2. CASE j = i
      <4>1. IsLast(red, j)
        BY <2>1, <3>2 DEF IsLast
      <4>2. MaskOf(leaf.path[i], TextAt(leaf, i)) # "none" /\ leaf.path[i] \in Key /\ TextAt(leaf, i) \in BOOLEAN
        BY <2>2, LeafShape DEF MasksAt, TextAt, IsLast, IsText
      <4>3. MaskOf(leaf.path[i], TRUE) = MaskOf(leaf.path[i], TextAt(leaf, i))
        BY <4>2, MasksOfText
      <4>4. red.path[j] = leaf.path[i] /\ red.value.form = MaskOf(leaf.path[i], TextAt(leaf, i))
        BY <2>1, <3>2
      <4>5. QED
        BY <4>1, <4>3, <4>4
    <3>3. i \in Nat /\ (j < i \/ j = i)
      BY <2>2
    <3>4. QED
      BY <3>1, <3>2, <3>3, Zenon
  <2>5. ~Spells(red)
    BY <2>1 DEF Spells
  <2>6. QED
    BY <2>1, <2>3, <2>4, <2>5 DEF Reduced, red
<1>3. QED
  BY <1>1, <1>2

LEMMA SensitiveIsMasked ==
    ASSUME NEW key \in Key, NEW text \in BOOLEAN, "sensitive" \in key PROVE MaskOf(key, text) = "REDACTED"
  BY DEF MaskOf

LEMMA PortfolioIsMasked ==
    ASSUME NEW key \in Key, "portfolio" \in key PROVE MaskOf(key, TRUE) = "portfolio" /\ Coarsened(key) = {"portfolio"}
  BY RulesApart DEF MaskOf, Coarsened, alias_for

\* A key that asks for a form has that mask.
LEMMA AsksForMask ==
    ASSUME NEW key \in Key, NEW text \in BOOLEAN,
           "attachment" \notin key, "sensitive" \in key => key \cap {"quantity", "amount", "time", "date"} = {},
           key \cap {"symbol", "portfolio"} # {} => text
    PROVE  /\ "sensitive" \in key => MaskOf(key, text) = "REDACTED"
           /\ "direct" \in key /\ (text \/ MaskOf(key, text) # "none") => MaskOf(key, text) \in {"REDACTED", "subject"}
           /\ Coarsened(key) # {} => MaskOf(key, text) \in Coarsened(key)
<1> USE DEF MaskOf, alias_for, quantity_band, amount_band, time_bucket, date_bucket
<1>1. "direct" \in key => "identifier" \in key /\ key \cap {"portfolio", "symbol", "date", "quantity", "amount", "time"} = {}
  BY RulesApart
<1>2. "sensitive" \in key => MaskOf(key, text) = "REDACTED"
  BY SensitiveIsMasked
<1>3. "direct" \in key /\ (text \/ MaskOf(key, text) # "none") => MaskOf(key, text) \in {"REDACTED", "subject"}
  BY <1>1
<1>4. CASE "symbol" \in key
  BY <1>2, <1>3, <1>4, RulesApart DEF Coarsened
<1>5. CASE "date" \in key
  BY <1>2, <1>3, <1>5, RulesApart DEF Coarsened
<1>6. CASE "portfolio" \in key
  <2>1. text = TRUE
    BY <1>6
  <2>2. Coarsened(key) = {"portfolio"} /\ MaskOf(key, text) = "portfolio"
    BY <1>6, <2>1, PortfolioIsMasked
  <2>3. QED
    BY <1>2, <1>3, <2>2
<1>7. CASE key \cap {"symbol", "portfolio", "date"} = {} /\ key \cap {"quantity", "amount", "time"} # {}
  BY <1>2, <1>3, <1>7, RulesApart DEF Coarsened
<1>8. CASE key \cap {"symbol", "portfolio", "date", "quantity", "amount", "time"} = {}
  BY <1>2, <1>3, <1>8 DEF Coarsened
<1>9. QED
  BY <1>4, <1>5, <1>6, <1>7, <1>8

LEMMA KeysAsk ==
    ASSUME NEW leaf \in Leaf, ~Unmaskable(leaf), NEW i \in DOMAIN leaf.path
    PROVE  LET key == leaf.path[i]
               mask == MaskOf(key, TextAt(leaf, i))
           IN  /\ "attachment" \notin key
               /\ "sensitive" \in key => mask = "REDACTED"
               /\ "direct" \in key /\ (TextAt(leaf, i) \/ mask # "none") => mask \in {"REDACTED", "subject"}
               /\ Coarsened(key) # {} => mask \in Coarsened(key)
<1>1. leaf.path[i] \in Key /\ TextAt(leaf, i) \in BOOLEAN
  BY LeafShape DEF TextAt, IsLast, IsText
<1>2. /\ "attachment" \notin leaf.path[i]
      /\ "sensitive" \in leaf.path[i] => leaf.path[i] \cap {"quantity", "amount", "time", "date"} = {}
      /\ leaf.path[i] \cap {"symbol", "portfolio"} # {} => TextAt(leaf, i)
  BY DEF Unmaskable, _matches_redaction_key
<1>3. QED
  BY <1>1, <1>2, AsksForMask, Zenon

\* What is not unmaskable is fine once it is redacted.
LEMMA RedactionIsFine ==
    ASSUME NEW leaf \in Leaf, ~Unmaskable(leaf) PROVE LeafIsFine(RedactedLeaf(leaf))
<1> DEFINE red == RedactedLeaf(leaf)
<1>1. CASE MasksAt(leaf) = {}
  <2>1. red.path = leaf.path /\ red.value.form = leaf.value.form
        /\ red.value.marks = leaf.value.marks \ {"secret", "code"}
    BY <1>1, CleanLeaf
  <2> HIDE DEF red
  <2>2. "blob" \notin red.value.marks
    BY <2>1 DEF Unmaskable
  <2>3. ASSUME NEW i \in DOMAIN leaf.path PROVE KeyIsFine(red, i)
    <3>1. MaskOf(leaf.path[i], TextAt(leaf, i)) = "none"
      BY <1>1 DEF MasksAt
    <3>2. TextAt(red, i) = TextAt(leaf, i)
      BY <2>1 DEF TextAt, IsLast, IsText
    <3>3. "none" \notin Coarsened(leaf.path[i])
      BY DEF Coarsened
    <3>4. /\ "attachment" \notin leaf.path[i] /\ "sensitive" \notin leaf.path[i]
          /\ ~("direct" \in leaf.path[i] /\ TextAt(leaf, i)) /\ Coarsened(leaf.path[i]) = {}
      BY <3>1, <3>3, KeysAsk
    <3>5. QED
      BY <2>1, <3>2, <3>4 DEF KeyIsFine
  <2>4. QED
    BY <2>1, <2>2, <2>3 DEF LeafIsFine, red
<1>2. CASE MasksAt(leaf) # {}
  <2>1. PICK i \in MasksAt(leaf) :
              /\ \A j \in MasksAt(leaf) : i <= j
              /\ Len(red.path) = i /\ DOMAIN red.path = 1 .. i
              /\ \A j \in 1 .. i : red.path[j] = leaf.path[j]
              /\ red.value = [form |-> MaskOf(leaf.path[i], TextAt(leaf, i)), marks |-> {}]
    BY <1>2, MaskedLeaf
  <2>2. i \in 1 .. Len(leaf.path) /\ Len(leaf.path) \in Nat /\ DOMAIN leaf.path = 1 .. Len(leaf.path)
    BY LeafShape
  <2> HIDE DEF red
  <2>3. red.value.marks = {}
    BY <2>1
  <2>4. ASSUME NEW j \in 1 .. i PROVE KeyIsFine(red, j)
    <3>1. j \in DOMAIN leaf.path
      BY <2>2
    <3>2. CASE j < i
      <4>1. j \notin MasksAt(leaf)
        BY <2>1, <2>2, <3>2
      <4>2. MaskOf(leaf.path[j], TextAt(leaf, j)) = "none"
        BY <3>1, <4>1 DEF MasksAt
      <4>3. "none" \notin Coarsened(leaf.path[j])
        BY DEF Coarsened
      <4>4. ~TextAt(red, j)
        BY <2>1, <2>2, <3>2 DEF TextAt, IsLast
      <4>5. /\ "attachment" \notin leaf.path[j] /\ "sensitive" \notin leaf.path[j] /\ Coarsened(leaf.path[j]) = {}
        BY <3>1, <4>2, <4>3, KeysAsk
      <4>6. QED
        BY <2>1, <4>4, <4>5 DEF KeyIsFine
    <3>3. CASE j = i
      <4>1. IsLast(red, j)
        BY <2>1, <3>3 DEF IsLast
      <4>2. red.value.form = MaskOf(leaf.path[j], TextAt(leaf, j)) /\ red.value.form # "none"
        BY <2>1, <3>3 DEF MasksAt
      <4>3. red.path[j] = leaf.path[j]
        BY <2>1
      <4>4. QED
        BY <3>1, <4>1, <4>2, <4>3, KeysAsk DEF KeyIsFine
    <3>4. QED
      BY <2>2, <3>2, <3>3
  <2>5. QED
    BY <2>1, <2>3, <2>4 DEF LeafIsFine, red
<1>3. QED
  BY <1>1, <1>2

-----------------------------------------------------------------------------
(* The guided reviews.  A request at hand knows what its session's log says. *)

\* Two requests that write the context of a session are known to have done so.
WritersApart ==
    \A c, d \in Client : \A n \in DOMAIN reviews : c # d /\ Writes(c, n) /\ Writes(d, n) => n \in muddled

\* Between its steps a request alone with its session has the context that its log makes.
ReviewTold(job, review) ==
    /\ job.at = "read" => Tells(review.log, review.given, Changed("package", review.context, NoFocus))
    /\ job.at = "update" =>
        /\ job.seen = review.context
        /\ Tells(review.log, review.given, IF job.kind = "package" THEN Changed("package", job.seen, NoFocus) ELSE job.seen)
    /\ job.at = "append" => /\ review.context = Changed(job.kind, job.seen, job.what)
                            /\ Tells(review.log, review.given, job.seen)

RequestsTell ==
    \A c \in Client : asked[c] # NoRequest /\ asked[c].review \notin muddled => ReviewTold(asked[c], reviews[asked[c].review])

\* What a request is about to write of a completed review is on record.
PackagesAtHand ==
    \A c \in Client : asked[c] # NoRequest =>
        /\ asked[c].kind = "package" => HasPackage(reviews[asked[c].review].log)
        /\ asked[c].at = "update" /\ asked[c].seen.phase = "completed" /\ asked[c].review \notin torn
            => HasPackage(reviews[asked[c].review].log)

ForksAreLater ==
    \A n \in DOMAIN reviews : /\ reviews[n].copied <= Len(reviews[n].log)
                              /\ reviews[n].copied > 0 => reviews[n].forked_from \in 1 .. n - 1

\* As long as no two calls crossed, an answer is that of the only call.
BridgeAnswers ==
    crossed \/ /\ \A c, d \in Waiting : c = d
               /\ Len(answers) <= 1 /\ (Waiting = {} => answers = << >>)
               /\ \A c \in Client : asked[c].at = "answer" /\ answers # << >> /\ Head(answers) => asked[c].review \in agreed
               /\ \A c \in Client : asked[c].at \in {"subscribe", "subscribed", "connected"} => asked[c].review \in agreed

LEMMA ReviewShape ==
    ASSUME reviews \in Seq(Review), NEW n \in DOMAIN reviews
    PROVE  /\ n \in 1 .. Len(reviews) /\ Len(reviews) \in Nat /\ n \in Nat
           /\ reviews[n] \in Review
           /\ reviews[n].context \in Context /\ reviews[n].given \in Focus \cup {NoFocus}
           /\ reviews[n].log \in Seq(SessionEvent) /\ Len(reviews[n].log) \in Nat
           /\ DOMAIN reviews[n].log = 1 .. Len(reviews[n].log)
           /\ reviews[n].forked_from \in Nat /\ reviews[n].copied \in Nat
<1>1. reviews[n] \in Review
  BY ElementOfSeq
<1>2. QED
  BY <1>1 DEF Review

\* What it is to be told of an event.
LEMMA TellShape ==
    ASSUME reviews \in Seq(Review), NEW n \in DOMAIN reviews, NEW e \in SessionEvent, Tell(n, e)
    PROVE  LET new == Len(reviews[n].log) + 1 IN
           /\ reviews' \in Seq(Review) /\ DOMAIN reviews' = DOMAIN reviews /\ Len(reviews') = Len(reviews)
           /\ \A m \in DOMAIN reviews : /\ m # n => reviews'[m] = reviews[m]
                                        /\ reviews'[m].context = reviews[m].context /\ reviews'[m].given = reviews[m].given
                                        /\ reviews'[m].forked_from = reviews[m].forked_from
                                        /\ reviews'[m].copied = reviews[m].copied
           /\ reviews'[n].log = Append(reviews[n].log, e)
           /\ DOMAIN reviews'[n].log = 1 .. new /\ Len(reviews'[n].log) = new
           /\ reviews'[n].log[new] = e
           /\ \A i \in 1 .. Len(reviews[n].log) : reviews'[n].log[i] = reviews[n].log[i]
<1> DEFINE r == [reviews[n] EXCEPT !.log = Append(@, e)]
<1>1. reviews' = [reviews EXCEPT ![n] = r]
  BY DEF Tell
<1>2. /\ reviews[n] \in Review /\ reviews[n].log \in Seq(SessionEvent) /\ n \in 1 .. Len(reviews)
  BY ReviewShape
<1>3. Append(reviews[n].log, e) \in Seq(SessionEvent)
  BY <1>2
<1>4. /\ r \in Review /\ r.context = reviews[n].context /\ r.given = reviews[n].given
      /\ r.forked_from = reviews[n].forked_from /\ r.copied = reviews[n].copied
      /\ r.log = Append(reviews[n].log, e)
  BY <1>2, <1>3 DEF Review
<1> HIDE DEF r
<1>5. reviews' \in Seq(Review) /\ Len(reviews') = Len(reviews) /\ DOMAIN reviews' = DOMAIN reviews
  BY <1>1, <1>2, <1>4
<1>6. reviews'[n] = r /\ \A m \in DOMAIN reviews : m # n => reviews'[m] = reviews[m]
  BY <1>1
<1>7. /\ Len(r.log) = Len(reviews[n].log) + 1 /\ DOMAIN r.log = 1 .. Len(reviews[n].log) + 1
      /\ r.log[Len(reviews[n].log) + 1] = e
      /\ \A i \in 1 .. Len(reviews[n].log) : r.log[i] = reviews[n].log[i]
  BY <1>2, <1>4
<1>8. QED
  BY <1>4, <1>5, <1>6, <1>7

\* A context is that of a log with one event more, if the event says what it has more.
LEMMA TellsNext ==
    ASSUME NEW log \in Seq(SessionEvent), NEW e \in SessionEvent, NEW given, NEW seen \in Context, NEW context \in Context,
           Tells(log, given, seen),
           context.confirmed <=> (seen.confirmed \/ e.kind = "review_scope_confirmed"),
           context.phase = IF PhaseOf(e) = "none" THEN seen.phase ELSE PhaseOf(e),
           context.focus = IF FocusOf(e) = NoFocus THEN seen.focus ELSE FocusOf(e)
    PROVE  Tells(Append(log, e), given, context)
<1> DEFINE more == Append(log, e)
<1> DEFINE k == Len(log) + 1
<1>1. /\ Len(log) \in Nat /\ DOMAIN log = 1 .. Len(log)
      /\ Len(more) = k /\ DOMAIN more = 1 .. k /\ more[k] = e
      /\ \A i \in 1 .. Len(log) : more[i] = log[i]
  OBVIOUS
<1> HIDE DEF more
<1>2. context.confirmed <=> \E i \in DOMAIN more : more[i].kind = "review_scope_confirmed"
  <2>1. seen.confirmed <=> \E i \in DOMAIN log : log[i].kind = "review_scope_confirmed"
    BY DEF Tells
  <2>2. (\E i \in DOMAIN more : more[i].kind = "review_scope_confirmed")
        <=> ((\E i \in DOMAIN log : log[i].kind = "review_scope_confirmed") \/ e.kind = "review_scope_confirmed")
    BY <1>1
  <2>3. QED
    BY <2>1, <2>2
<1>3. \/ context.phase = "none" /\ \A i \in DOMAIN more : PhaseOf(more[i]) = "none"
      \/ \E i \in DOMAIN more : /\ PhaseOf(more[i]) = context.phase /\ context.phase # "none"
                                 /\ \A j \in i + 1 .. Len(more) : PhaseOf(more[j]) = "none"
  <2>1. CASE PhaseOf(e) = "none"
    <3>1. CASE seen.phase = "none" /\ \A i \in DOMAIN log : PhaseOf(log[i]) = "none"
      BY <1>1, <2>1, <3>1
    <3>2. CASE \E i \in DOMAIN log : /\ PhaseOf(log[i]) = seen.phase /\ seen.phase # "none"
                                     /\ \A j \in i + 1 .. Len(log) : PhaseOf(log[j]) = "none"
      <4>1. PICK i \in DOMAIN log : /\ PhaseOf(log[i]) = seen.phase /\ seen.phase # "none"
                                   /\ \A j \in i + 1 .. Len(log) : PhaseOf(log[j]) = "none"
        BY <3>2
      <4>2. \A j \in i + 1 .. k : PhaseOf(more[j]) = "none"
        BY <1>1, <2>1, <4>1
      <4>3. QED
        BY <1>1, <2>1, <4>1, <4>2
    <3>3. QED
      BY <3>1, <3>2 DEF Tells
  <2>2. CASE PhaseOf(e) # "none"
    <3>1. k \in DOMAIN more /\ PhaseOf(more[k]) = context.phase /\ context.phase # "none" /\ k + 1 .. Len(more) = {}
      BY <1>1, <2>2
    <3>2. QED
      BY <3>1
  <2>3. QED
    BY <2>1, <2>2
<1>4. \/ context.focus = given /\ \A i \in DOMAIN more : FocusOf(more[i]) = NoFocus
      \/ \E i \in DOMAIN more : /\ FocusOf(more[i]) = context.focus /\ context.focus # NoFocus
                                 /\ \A j \in i + 1 .. Len(more) : FocusOf(more[j]) = NoFocus
  <2>1. CASE FocusOf(e) = NoFocus
    <3>1. CASE seen.focus = given /\ \A i \in DOMAIN log : FocusOf(log[i]) = NoFocus
      BY <1>1, <2>1, <3>1
    <3>2. CASE \E i \in DOMAIN log : /\ FocusOf(log[i]) = seen.focus /\ seen.focus # NoFocus
                                     /\ \A j \in i + 1 .. Len(log) : FocusOf(log[j]) = NoFocus
      <4>1. PICK i \in DOMAIN log : /\ FocusOf(log[i]) = seen.focus /\ seen.focus # NoFocus
                                   /\ \A j \in i + 1 .. Len(log) : FocusOf(log[j]) = NoFocus
        BY <3>2
      <4>2. \A j \in i + 1 .. k : FocusOf(more[j]) = NoFocus
        BY <1>1, <2>1, <4>1
      <4>3. QED
        BY <1>1, <2>1, <4>1, <4>2
    <3>3. QED
      BY <3>1, <3>2 DEF Tells
  <2>2. CASE FocusOf(e) # NoFocus
    <3>1. k \in DOMAIN more /\ FocusOf(more[k]) = context.focus /\ context.focus # NoFocus /\ k + 1 .. Len(more) = {}
      BY <1>1, <2>2
    <3>2. QED
      BY <3>1
  <2>3. QED
    BY <2>1, <2>2
<1>5. QED
  BY <1>2, <1>3, <1>4 DEF Tells, more

LogsInv == ForksAreLater /\ CompletedHavePackages /\ ForksContinue /\ EventsAreSound

\* What a log has of its own stays sound.
LEMMA SoundLonger ==
    ASSUME NEW e, NEW n, IsSound(e, n), agreed \subseteq agreed', crossed => crossed' PROVE IsSound(e, n)'
<1>1. n \in agreed \/ crossed => n \in agreed' \/ crossed'
  OBVIOUS
<1>2. QED
  BY <1>1, Zenon DEF IsSound

\* A longer log has what it had.
LEMMA LongerLogs ==
    ASSUME reviews \in Seq(Review), LogsInv, NEW n \in DOMAIN reviews, NEW e \in SessionEvent, Tell(n, e),
           UNCHANGED torn, agreed \subseteq agreed', crossed => crossed', IsSound(e, n)'
    PROVE  LogsInv'
<1>0. ForksAreLater /\ CompletedHavePackages /\ ForksContinue /\ EventsAreSound
  BY DEF LogsInv
<1> DEFINE new == Len(reviews[n].log) + 1
<1>1. /\ DOMAIN reviews' = DOMAIN reviews
      /\ \A m \in DOMAIN reviews : /\ m # n => reviews'[m] = reviews[m]
                                   /\ reviews'[m].context = reviews[m].context
                                   /\ reviews'[m].forked_from = reviews[m].forked_from
                                   /\ reviews'[m].copied = reviews[m].copied
      /\ DOMAIN reviews'[n].log = 1 .. new /\ Len(reviews'[n].log) = new
      /\ reviews'[n].log[new] = e
      /\ \A i \in 1 .. Len(reviews[n].log) : reviews'[n].log[i] = reviews[n].log[i]
  BY TellShape
<1>2. \A m \in DOMAIN reviews : /\ Len(reviews[m].log) \in Nat /\ DOMAIN reviews[m].log = 1 .. Len(reviews[m].log)
                               /\ reviews[m].copied \in Nat /\ reviews[m].forked_from \in Nat /\ m \in Nat
                               /\ m \in 1 .. Len(reviews)
  BY ReviewShape
<1>3. ASSUME NEW m \in DOMAIN reviews
      PROVE  /\ Len(reviews'[m].log) >= Len(reviews[m].log) /\ Len(reviews'[m].log) \in Nat
             /\ DOMAIN reviews'[m].log = 1 .. Len(reviews'[m].log)
             /\ \A i \in 1 .. Len(reviews[m].log) : reviews'[m].log[i] = reviews[m].log[i]
  <2>1. CASE m = n
    BY <1>1, <1>2, <2>1
  <2>2. CASE m # n
    <3>1. reviews'[m] = reviews[m]
      BY <1>1, <2>2
    <3>2. QED
      BY <1>2, <3>1
  <2>3. QED
    BY <2>1, <2>2
<1>4. ForksAreLater'
  BY <1>0, <1>1, <1>2, <1>3 DEF ForksAreLater
<1>5. CompletedHavePackages'
  <2>1. ASSUME NEW m \in DOMAIN reviews, HasPackage(reviews[m].log) PROVE HasPackage(reviews'[m].log)
    <3>1. PICK i \in 1 .. Len(reviews[m].log) : reviews[m].log[i].kind = "review_package"
      BY <1>2, <2>1 DEF HasPackage
    <3>2. i \in DOMAIN reviews'[m].log /\ reviews'[m].log[i] = reviews[m].log[i]
      BY <1>2, <1>3
    <3>3. QED
      BY <3>1, <3>2 DEF HasPackage
  <2>2. \A m \in DOMAIN reviews : reviews[m].context.phase = "completed" /\ m \notin torn => HasPackage(reviews[m].log)
    BY <1>0 DEF CompletedHavePackages
  <2>3. QED
    BY <1>1, <2>1, <2>2 DEF CompletedHavePackages
<1>6. ForksContinue'
  <2>0. ASSUME NEW m \in DOMAIN reviews, reviews[m].copied > 0
        PROVE  LET source == reviews'[reviews[m].forked_from].log
               IN  reviews[m].copied <= Len(source)
                   /\ \A i \in 1 .. reviews[m].copied : reviews'[m].log[i] = source[i]
    <3> DEFINE s == reviews[m].forked_from
    <3>1. s \in DOMAIN reviews /\ reviews[m].copied <= Len(reviews[m].log) /\ reviews[m].copied \in Nat
      BY <1>0, <1>2, <2>0 DEF ForksAreLater
    <3>2. /\ reviews[m].copied <= Len(reviews[s].log)
          /\ \A i \in 1 .. reviews[m].copied : reviews[m].log[i] = reviews[s].log[i]
      BY <1>0, <2>0 DEF ForksContinue
    <3> HIDE DEF s
    <3>3. reviews[m].copied <= Len(reviews'[s].log)
      BY <1>2, <1>3, <3>1, <3>2
    <3>4. ASSUME NEW i \in 1 .. reviews[m].copied PROVE reviews'[m].log[i] = reviews'[s].log[i]
      <4>1. i \in 1 .. Len(reviews[m].log) /\ i \in 1 .. Len(reviews[s].log)
        BY <1>2, <3>1, <3>2
      <4>2. QED
        BY <1>3, <3>1, <3>2, <4>1
    <3>5. QED
      BY <3>3, <3>4 DEF s
  <2>1. QED
    BY <1>1, <2>0 DEF ForksContinue
<1>7. EventsAreSound'
  <2>0. ASSUME NEW m \in DOMAIN reviews, NEW i \in reviews[m].copied + 1 .. Len(reviews'[m].log)
        PROVE  IsSound(reviews[m].log[i], m)'
    <3>1. CASE i \in 1 .. Len(reviews[m].log)
      <4>1. IsSound(reviews[m].log[i], m)
        BY <1>0, <1>2, <3>1 DEF EventsAreSound
      <4>2. reviews'[m].log[i] = reviews[m].log[i]
        BY <1>3, <3>1
      <4>3. PICK entry : entry = reviews[m].log[i]
        OBVIOUS
      <4>4. IsSound(entry, m)'
        BY <4>1, <4>3, SoundLonger
      <4>5. QED
        BY <4>2, <4>3, <4>4 DEF IsSound
    <3>2. CASE i \notin 1 .. Len(reviews[m].log)
      <4>1. m = n /\ i = new
        BY <1>1, <1>2, <3>2
      <4>2. reviews'[m].log[i] = e
        BY <1>1, <4>1
      <4>3. QED
        BY <4>1, <4>2 DEF IsSound
    <3>3. QED
      BY <3>1, <3>2
  <2>1. QED
    BY <1>1, <2>0 DEF EventsAreSound
<1>8. QED
  BY <1>4, <1>5, <1>6, <1>7 DEF LogsInv

\* What it is to have another context.
LEMMA ContextShape ==
    ASSUME reviews \in Seq(Review), NEW n \in DOMAIN reviews, NEW context \in Context,
           reviews' = [reviews EXCEPT ![n].context = context]
    PROVE  /\ reviews' \in Seq(Review) /\ DOMAIN reviews' = DOMAIN reviews /\ Len(reviews') = Len(reviews)
           /\ \A m \in DOMAIN reviews : /\ m # n => reviews'[m] = reviews[m]
                                        /\ reviews'[m].log = reviews[m].log /\ reviews'[m].given = reviews[m].given
                                        /\ reviews'[m].forked_from = reviews[m].forked_from
                                        /\ reviews'[m].copied = reviews[m].copied
           /\ reviews'[n].context = context
<1> DEFINE r == [reviews[n] EXCEPT !.context = context]
<1>1. reviews' = [reviews EXCEPT ![n] = r]
  OBVIOUS
<1>2. reviews[n] \in Review /\ n \in 1 .. Len(reviews)
  BY ReviewShape
<1>3. /\ r \in Review /\ r.context = context /\ r.given = reviews[n].given
      /\ r.forked_from = reviews[n].forked_from /\ r.copied = reviews[n].copied /\ r.log = reviews[n].log
  BY <1>2 DEF Review
<1> HIDE DEF r
<1>4. QED
  BY <1>1, <1>2, <1>3

LEMMA OtherContext ==
    ASSUME reviews \in Seq(Review), LogsInv, NEW n \in DOMAIN reviews, NEW context \in Context,
           reviews' = [reviews EXCEPT ![n].context = context], UNCHANGED <<torn, agreed, crossed>>,
           context.phase = "completed" /\ n \notin torn => HasPackage(reviews[n].log)
    PROVE  LogsInv'
<1> USE DEF LogsInv
<1>1. /\ DOMAIN reviews' = DOMAIN reviews
      /\ \A m \in DOMAIN reviews : /\ m # n => reviews'[m] = reviews[m]
                                   /\ reviews'[m].log = reviews[m].log
                                   /\ reviews'[m].forked_from = reviews[m].forked_from
                                   /\ reviews'[m].copied = reviews[m].copied
      /\ reviews'[n].context = context
  BY ContextShape
<1>2. ForksAreLater'
  BY <1>1 DEF ForksAreLater
<1>3. CompletedHavePackages'
  BY <1>1 DEF CompletedHavePackages
<1>4. ForksContinue'
  <2>1. \A m \in DOMAIN reviews : reviews[m].copied > 0 => reviews[m].forked_from \in DOMAIN reviews
    BY ReviewShape DEF ForksAreLater
  <2>2. QED
    BY <1>1, <2>1 DEF ForksContinue
<1>5. EventsAreSound'
  BY <1>1 DEF EventsAreSound, IsSound
<1>6. QED
  BY <1>2, <1>3, <1>4, <1>5

LEMMA NewShape ==
    ASSUME reviews \in Seq(Review), NEW r \in Review, reviews' = Append(reviews, r)
    PROVE  LET new == Len(reviews) + 1 IN
           /\ reviews' \in Seq(Review) /\ new \notin DOMAIN reviews /\ new \in Nat
           /\ DOMAIN reviews' = DOMAIN reviews \cup {new} /\ Len(reviews') = new
           /\ reviews'[new] = r /\ \A m \in DOMAIN reviews : reviews'[m] = reviews[m]
  OBVIOUS

\* A new session, whose log is copied from a first part of another one's, if it has one.
LEMMA NewLogs ==
    ASSUME reviews \in Seq(Review), LogsInv, NEW r \in Review, reviews' = Append(reviews, r), UNCHANGED <<agreed, crossed>>,
           torn \subseteq torn', torn \subseteq DOMAIN reviews, r.copied = Len(r.log),
           r.copied > 0 => /\ r.forked_from \in DOMAIN reviews /\ r.copied <= Len(reviews[r.forked_from].log)
                           /\ \A i \in 1 .. r.copied : r.log[i] = reviews[r.forked_from].log[i],
           r.context.phase = "completed" /\ Len(reviews) + 1 \notin torn' => HasPackage(r.log)
    PROVE  LogsInv'
<1> USE DEF LogsInv
<1> DEFINE new == Len(reviews) + 1
<1>1. /\ new \notin DOMAIN reviews /\ new \in Nat
      /\ DOMAIN reviews' = DOMAIN reviews \cup {new}
      /\ reviews'[new] = r /\ \A m \in DOMAIN reviews : reviews'[m] = reviews[m]
  BY NewShape
<1>2. \A m \in DOMAIN reviews : m \in 1 .. new - 1
  BY ReviewShape
<1>3. Len(r.log) \in Nat
  BY DEF Review
<1> HIDE DEF new
<1>4. ForksAreLater'
  <2>1. r.copied > 0 => r.forked_from \in 1 .. new - 1
    BY <1>2
  <2>2. QED
    BY <1>1, <1>3, <2>1 DEF ForksAreLater
<1>5. CompletedHavePackages'
  BY <1>1 DEF CompletedHavePackages, new
<1>6. ForksContinue'
  <2>1. \A m \in DOMAIN reviews : reviews[m].copied > 0 => reviews[m].forked_from \in DOMAIN reviews
    BY ReviewShape DEF ForksAreLater
  <2>2. QED
    BY <1>1, <2>1 DEF ForksContinue
<1>7. EventsAreSound'
  <2>1. r.copied + 1 .. Len(r.log) = {}
    BY <1>3
  <2>2. QED
    BY <1>1, <2>1 DEF EventsAreSound, IsSound
<1>8. QED
  BY <1>4, <1>5, <1>6, <1>7
-----------------------------------------------------------------------------
\* What a request has at hand.
LEMMA JobShape ==
    ASSUME ReviewTypeOK, NEW c \in Client
    PROVE  /\ asked[c].at = "none" <=> asked[c] = NoRequest
           /\ asked[c] # NoRequest =>
                /\ asked[c] = [at |-> asked[c].at, kind |-> asked[c].kind, review |-> asked[c].review,
                               seen |-> asked[c].seen, what |-> asked[c].what]
                /\ asked[c].review \in DOMAIN reviews /\ asked[c].review \in Nat
                /\ asked[c].seen \in Context /\ asked[c].what \in Focus \cup {NoFocus}
                /\ asked[c].kind \in {"confirm", "package", "trade"}
                /\ asked[c].at \in {"read", "update", "append", "handshake", "answer", "subscribe", "subscribed", "connected", "failed"}
                /\ asked[c].kind = "package" => asked[c].at \in {"read", "update"} /\ asked[c].what = NoFocus
                /\ asked[c].kind = "trade" => asked[c].at \in {"update", "append"} /\ asked[c].what \in Focus
                /\ asked[c].kind = "confirm" => asked[c].at # "read" /\ asked[c].what = NoFocus
<1>1. asked[c] \in Underway \cup {NoRequest} /\ NoRequest.at = "none"
  BY DEF ReviewTypeOK, NoRequest
<1>2. asked[c] # NoRequest => asked[c].review \in DOMAIN reviews
  BY DEF ReviewTypeOK
<1>3. asked[c] \in Underway => asked[c].at # "none"
  BY DEF Underway
<1>4. CASE asked[c] \in Underway
  <2>1. asked[c].at # "none" /\ asked[c] # NoRequest
    BY <1>1, <1>3, <1>4
  <2>2. QED
    BY <1>2, <1>4, <2>1 DEF Underway
<1>5. QED
  BY <1>1, <1>4

LEMMA ChangedShape ==
    ASSUME NEW seen \in Context, NEW kind \in {"confirm", "package", "trade"}, NEW what \in Focus \cup {NoFocus}
    PROVE  LET context == Changed(kind, seen, what) IN
           /\ context \in Context
           /\ context.confirmed = (seen.confirmed \/ kind = "confirm")
           /\ context.phase = IF kind = "confirm" THEN "scope_confirmed" ELSE IF kind = "package" THEN "completed" ELSE seen.phase
           /\ context.focus = IF kind = "trade" THEN what ELSE seen.focus
<1>1. seen = [confirmed |-> seen.confirmed, phase |-> seen.phase, focus |-> seen.focus] /\ seen.confirmed \in BOOLEAN
  BY DEF Context
<1>2. CASE kind = "confirm"
  BY <1>1, <1>2 DEF Changed, Context
<1>3. CASE kind = "package"
  BY <1>1, <1>3 DEF Changed, Context
<1>4. CASE kind = "trade"
  BY <1>1, <1>4 DEF Changed, Context
<1>5. QED
  BY <1>2, <1>3, <1>4

\* A package stays on record.
LEMMA PackageStays ==
    ASSUME reviews \in Seq(Review), NEW n \in DOMAIN reviews, NEW e \in SessionEvent, Tell(n, e), NEW m \in DOMAIN reviews,
           HasPackage(reviews[m].log)
    PROVE  HasPackage(reviews'[m].log)
<1> DEFINE new == Len(reviews[n].log) + 1
<1>1. /\ \A i \in DOMAIN reviews : i # n => reviews'[i] = reviews[i]
      /\ DOMAIN reviews'[n].log = 1 .. new
      /\ \A i \in 1 .. Len(reviews[n].log) : reviews'[n].log[i] = reviews[n].log[i]
  BY TellShape
<1>2. CASE m = n
  <2>1. DOMAIN reviews[n].log = 1 .. Len(reviews[n].log) /\ Len(reviews[n].log) \in Nat
    BY ReviewShape
  <2>2. PICK i \in 1 .. Len(reviews[n].log) : reviews[n].log[i].kind = "review_package"
    BY <1>2, <2>1 DEF HasPackage
  <2>3. i \in DOMAIN reviews'[n].log /\ reviews'[n].log[i] = reviews[n].log[i]
    BY <1>1, <2>1
  <2>4. QED
    BY <1>2, <2>2, <2>3 DEF HasPackage
<1>3. CASE m # n
  BY <1>1, <1>3 DEF HasPackage
<1>4. QED
  BY <1>2, <1>3

TellInv == WritersApart /\ RequestsTell /\ PackagesAtHand /\ ContextsTell

\* An event that says nothing of the context.
LEMMA NeutralTell ==
    ASSUME ReviewTypeOK, TellInv, NEW n \in DOMAIN reviews, NEW e \in SessionEvent, Tell(n, e),
           PhaseOf(e) = "none", FocusOf(e) = NoFocus, e.kind # "review_scope_confirmed", UNCHANGED <<muddled, torn>>,
           \A c \in Client : \/ asked'[c] = asked[c]
                             \/ asked'[c] = NoRequest /\ asked[c].at \notin {"read", "update", "append"}
    PROVE  TellInv'
<1>0. WritersApart /\ RequestsTell /\ PackagesAtHand /\ ContextsTell
  BY DEF TellInv
<1>1. reviews \in Seq(Review)
  BY DEF ReviewTypeOK
<1>2. /\ DOMAIN reviews' = DOMAIN reviews
      /\ \A m \in DOMAIN reviews : /\ m # n => reviews'[m] = reviews[m]
                                   /\ reviews'[m].context = reviews[m].context /\ reviews'[m].given = reviews[m].given
      /\ reviews'[n].log = Append(reviews[n].log, e)
  BY <1>1, TellShape
<1>3. \A m \in DOMAIN reviews : reviews[m].log \in Seq(SessionEvent) /\ reviews[m].context \in Context
  BY <1>1, ReviewShape
<1>4. ASSUME NEW m \in DOMAIN reviews, NEW context \in Context, Tells(reviews[m].log, reviews[m].given, context)
      PROVE  Tells(reviews'[m].log, reviews'[m].given, context)
  <2>1. CASE m = n
    <3>1. Tells(Append(reviews[n].log, e), reviews[n].given, context)
      BY <1>3, <1>4, <2>1, TellsNext
    <3>2. QED
      BY <1>2, <2>1, <3>1
  <2>2. CASE m # n
    BY <1>2, <1>4, <2>2
  <2>3. QED
    BY <2>1, <2>2
<1>5. \A c \in Client : \A m : Writes(c, m)' <=> Writes(c, m)
  BY DEF Writes, NoRequest
<1>6. WritersApart'
  BY <1>0, <1>2, <1>5 DEF WritersApart
<1>7. ContextsTell'
  <2>1. ASSUME NEW m \in DOMAIN reviews, m \notin muddled, ~BeingWritten(m)'
        PROVE  Tells(reviews'[m].log, reviews'[m].given, reviews'[m].context)
    <3>1. ~BeingWritten(m)
      BY <1>5, <2>1 DEF BeingWritten
    <3>2. Tells(reviews[m].log, reviews[m].given, reviews[m].context)
      BY <1>0, <2>1, <3>1 DEF ContextsTell
    <3>3. Tells(reviews'[m].log, reviews'[m].given, reviews[m].context)
      BY <1>3, <1>4, <3>2
    <3>4. QED
      BY <1>2, <3>3
  <2>2. QED
    BY <1>2, <2>1 DEF ContextsTell
<1>8. PackagesAtHand'
  <2>1. \A m \in DOMAIN reviews : HasPackage(reviews[m].log) => HasPackage(reviews'[m].log)
    BY <1>1, PackageStays
  <2>2. \A c \in Client : asked[c] # NoRequest => asked[c].review \in DOMAIN reviews
    BY JobShape
  <2>3. QED
    BY <1>0, <2>1, <2>2 DEF PackagesAtHand
<1>9. RequestsTell'
  <2>1. ASSUME NEW c \in Client, asked[c] # NoRequest, asked[c].review \notin muddled
        PROVE  ReviewTold(asked[c], reviews'[asked[c].review])
    <3> DEFINE m == asked[c].review
    <3>1. m \in DOMAIN reviews /\ asked[c].seen \in Context
      BY <2>1, JobShape
    <3>2. ReviewTold(asked[c], reviews[m])
      BY <1>0, <2>1 DEF RequestsTell
    <3> HIDE DEF m
    <3>3. reviews'[m].context = reviews[m].context /\ reviews[m].context \in Context
      BY <1>2, <1>3, <3>1
    <3>4. Changed("package", reviews[m].context, NoFocus) \in Context /\ Changed("package", asked[c].seen, NoFocus) \in Context
      BY <3>1, <3>3, ChangedShape
    <3>5. ReviewTold(asked[c], reviews'[m])
      BY <1>4, <3>1, <3>2, <3>3, <3>4 DEF ReviewTold
    <3>6. QED
      BY <3>5 DEF m
  <2>2. QED
    BY <2>1 DEF RequestsTell
<1>10. QED
  BY <1>6, <1>7, <1>8, <1>9 DEF TellInv

\* A request takes a session up: what it has at hand is then what the log makes of it.
LEMMA TakesTell ==
    ASSUME ReviewTypeOK, TellInv, NEW n \in DOMAIN reviews, NEW c \in Client, NEW now, asked[c] = NoRequest,
           asked' = [asked EXCEPT ![c] = now], now.at \in {"read", "update"}, now.review = n,
           muddled' = IF BeingWritten(n) THEN muddled \cup {n} ELSE muddled, UNCHANGED torn,
           DOMAIN reviews' = DOMAIN reviews, \A m \in DOMAIN reviews : m # n => reviews'[m] = reviews[m],
           HasPackage(reviews[n].log) => HasPackage(reviews'[n].log),
           Tells(reviews[n].log, reviews[n].given, reviews[n].context) => ReviewTold(now, reviews'[n]),
           now.kind = "package" => HasPackage(reviews'[n].log),
           now.at = "update" /\ now.seen.phase = "completed" /\ n \notin torn => HasPackage(reviews'[n].log)
    PROVE  TellInv'
<1>0. WritersApart /\ RequestsTell /\ PackagesAtHand /\ ContextsTell
  BY DEF TellInv
<1>1. c \in DOMAIN asked /\ asked'[c] = now /\ \A d \in Client : d # c => asked'[d] = asked[d]
  BY DEF ReviewTypeOK
<1>2. /\ \A d \in Client : \A m : d # c => (Writes(d, m)' <=> Writes(d, m))
      /\ \A m : ~Writes(c, m) /\ (Writes(c, m)' <=> m = n)
  BY <1>1 DEF Writes, NoRequest
<1>3. now # NoRequest
  BY DEF NoRequest
<1>4. WritersApart'
  <2>1. ASSUME NEW d \in Client, d # c, Writes(d, n)' PROVE n \in muddled'
    BY <1>2, <2>1 DEF BeingWritten
  <2>2. QED
    BY <1>0, <1>2, <2>1 DEF WritersApart
<1>5. ContextsTell'
  <2>1. ASSUME NEW m \in DOMAIN reviews, m \notin muddled', ~BeingWritten(m)'
        PROVE  Tells(reviews'[m].log, reviews'[m].given, reviews'[m].context)
    <3>1. m # n /\ ~BeingWritten(m) /\ m \notin muddled
      BY <1>2, <2>1 DEF BeingWritten
    <3>2. QED
      BY <1>0, <3>1 DEF ContextsTell
  <2>2. QED
    BY <2>1 DEF ContextsTell
<1>6. PackagesAtHand'
  <2>1. \A d \in Client : d # c /\ asked[d] # NoRequest => asked[d].review \in DOMAIN reviews
    BY JobShape
  <2>2. \A m \in DOMAIN reviews : HasPackage(reviews[m].log) => HasPackage(reviews'[m].log)
    OBVIOUS
  <2>3. QED
    BY <1>0, <1>1, <1>3, <2>1, <2>2 DEF PackagesAtHand
<1>7. RequestsTell'
  <2>1. ASSUME n \notin muddled' PROVE ReviewTold(now, reviews'[n])
    <3>1. n \notin muddled /\ ~BeingWritten(n)
      BY <2>1
    <3>2. QED
      BY <1>0, <3>1 DEF ContextsTell
  <2>2. ASSUME NEW d \in Client, d # c, asked[d] # NoRequest, asked[d].review \notin muddled'
        PROVE  ReviewTold(asked[d], reviews'[asked[d].review])
    <3>1. asked[d].review \in DOMAIN reviews /\ asked[d].review \notin muddled
      BY <2>2, JobShape
    <3>2. ReviewTold(asked[d], reviews[asked[d].review])
      BY <1>0, <2>2, <3>1 DEF RequestsTell
    <3>3. CASE asked[d].review = n
      <4>1. ~Writes(d, n)
        BY <2>2, <3>3 DEF BeingWritten
      <4>2. QED
        BY <3>3, <4>1 DEF ReviewTold, Writes
    <3>4. CASE asked[d].review # n
      BY <3>1, <3>2, <3>4
    <3>5. QED
      BY <3>3, <3>4
  <2>3. QED
    BY <1>1, <2>1, <2>2 DEF RequestsTell
<1>8. QED
  BY <1>4, <1>5, <1>6, <1>7 DEF TellInv

\* A session more.
LEMMA NewTell ==
    ASSUME ReviewTypeOK, TellInv, NEW r \in Review, reviews' = Append(reviews, r),
           muddled \subseteq muddled', muddled' \subseteq muddled \cup {Len(reviews) + 1}, torn \subseteq torn',
           \/ UNCHANGED asked /\ (Len(reviews) + 1 \notin muddled' => Tells(r.log, r.given, r.context))
           \/ \E c \in Client : \E now :
                /\ asked[c] = NoRequest /\ asked' = [asked EXCEPT ![c] = now] /\ now.at = "append" /\ now.kind # "package"
                /\ now.review = Len(reviews) + 1 /\ ReviewTold(now, r)
    PROVE  TellInv'
<1> DEFINE new == Len(reviews) + 1
<1>0. WritersApart /\ RequestsTell /\ PackagesAtHand /\ ContextsTell
  BY DEF TellInv
<1>1. /\ new \notin DOMAIN reviews /\ DOMAIN reviews' = DOMAIN reviews \cup {new}
      /\ reviews'[new] = r /\ \A m \in DOMAIN reviews : reviews'[m] = reviews[m]
  BY NewShape DEF ReviewTypeOK
<1>2. \A d \in Client : asked[d] # NoRequest => asked[d].review \in DOMAIN reviews
  BY JobShape
<1>3. \A d \in Client : ~Writes(d, new)
  BY <1>1, <1>2 DEF Writes, NoRequest
<1>4. CASE UNCHANGED asked /\ (new \notin muddled' => Tells(r.log, r.given, r.context))
  <2>1. \A d \in Client : \A m : Writes(d, m)' <=> Writes(d, m)
    BY <1>4 DEF Writes
  <2> HIDE DEF new
  <2>2. WritersApart'
    BY <1>0, <1>1, <1>3, <2>1 DEF WritersApart
  <2>3. ContextsTell'
    BY <1>0, <1>1, <1>4, <2>1 DEF ContextsTell, BeingWritten
  <2>4. PackagesAtHand'
    BY <1>0, <1>1, <1>2, <1>4 DEF PackagesAtHand
  <2>5. RequestsTell'
    BY <1>0, <1>1, <1>2, <1>4 DEF RequestsTell
  <2>6. QED
    BY <2>2, <2>3, <2>4, <2>5 DEF TellInv
<1>5. CASE \E c \in Client : \E now :
                /\ asked[c] = NoRequest /\ asked' = [asked EXCEPT ![c] = now] /\ now.at = "append" /\ now.kind # "package"
                /\ now.review = new /\ ReviewTold(now, r)
  <2>1. PICK c \in Client : \E now :
                /\ asked[c] = NoRequest /\ asked' = [asked EXCEPT ![c] = now] /\ now.at = "append" /\ now.kind # "package"
                /\ now.review = new /\ ReviewTold(now, r)
    BY <1>5
  <2>2. PICK now : /\ asked[c] = NoRequest /\ asked' = [asked EXCEPT ![c] = now] /\ now.at = "append" /\ now.kind # "package"
                   /\ now.review = new /\ ReviewTold(now, r)
    BY <2>1
  <2>3. c \in DOMAIN asked /\ asked'[c] = now /\ \A d \in Client : d # c => asked'[d] = asked[d]
    BY <2>2 DEF ReviewTypeOK
  <2> HIDE DEF new
  <2>4. /\ \A d \in Client : \A m : d # c => (Writes(d, m)' <=> Writes(d, m))
        /\ \A m : ~Writes(c, m) /\ (Writes(c, m)' <=> m = new)
    BY <2>2, <2>3 DEF Writes, NoRequest
  <2>5. WritersApart'
    BY <1>0, <1>1, <1>3, <2>4 DEF WritersApart
  <2>6. ContextsTell'
    BY <1>0, <1>1, <2>4 DEF ContextsTell, BeingWritten
  <2>7. PackagesAtHand'
    BY <1>0, <1>1, <1>2, <2>2, <2>3 DEF PackagesAtHand
  <2>8. RequestsTell'
    BY <1>0, <1>1, <1>2, <2>2, <2>3 DEF RequestsTell
  <2>9. QED
    BY <2>5, <2>6, <2>7, <2>8 DEF TellInv
<1>6. QED
  BY <1>4, <1>5

\* A request that is at the bridge, before and after, has no more to do with the context.
LEMMA BridgeTell ==
    ASSUME ReviewTypeOK, TellInv, UNCHANGED <<reviews, muddled, torn>>,
           \A c \in Client : \/ asked'[c] = asked[c]
                             \/ /\ asked[c].at \notin {"read", "update", "append"} /\ asked'[c].kind # "package"
                                /\ asked'[c].at \notin {"read", "update", "append"}
    PROVE  TellInv'
<1>1. \A c \in Client : \A m : Writes(c, m)' <=> Writes(c, m)
  BY DEF Writes
<1>2. WritersApart'
  BY <1>1 DEF WritersApart, TellInv
<1>3. ContextsTell'
  BY <1>1 DEF ContextsTell, TellInv, BeingWritten
<1>4. PackagesAtHand'
  BY DEF PackagesAtHand, TellInv
<1>5. RequestsTell'
  BY DEF RequestsTell, TellInv, ReviewTold
<1>6. QED
  BY <1>2, <1>3, <1>4, <1>5 DEF TellInv

\* Whoever is not at the bridge leaves it alone.
LEMMA BridgeRests ==
    ASSUME BridgeAnswers, UNCHANGED <<answers, agreed, crossed>>,
           \A c \in Client : \/ asked'[c] = asked[c]
                             \/ /\ asked[c].at \notin {"answer", "subscribed"}
                                /\ asked'[c].at \notin {"answer", "subscribe", "subscribed", "connected"}
    PROVE  BridgeAnswers'
<1>1. Waiting' = Waiting
  BY DEF Waiting
<1>2. QED
  BY <1>1, Zenon DEF BridgeAnswers

ReviewInv == ReviewTypeOK /\ TellInv /\ LogsInv /\ BridgeAnswers /\ RefusedForFiles

LEMMA AskedType ==
    ASSUME ReviewTypeOK, NEW c \in Client, NEW now \in Underway \cup {NoRequest}, asked' = [asked EXCEPT ![c] = now],
           now # NoRequest => now.review \in DOMAIN reviews', DOMAIN reviews \subseteq DOMAIN reviews'
    PROVE  /\ asked' \in [Client -> Underway \cup {NoRequest}] /\ asked'[c] = now
           /\ \A d \in Client : d # c => asked'[d] = asked[d]
           /\ \A d \in Client : asked'[d] # NoRequest => asked'[d].review \in DOMAIN reviews'
<1>1. asked \in [Client -> Underway \cup {NoRequest}]
  BY DEF ReviewTypeOK
<1>2. /\ asked' \in [Client -> Underway \cup {NoRequest}] /\ asked'[c] = now
      /\ \A d \in Client : d # c => asked'[d] = asked[d]
  BY <1>1
<1>3. \A d \in Client : asked[d] # NoRequest => asked[d].review \in DOMAIN reviews
  BY DEF ReviewTypeOK
<1>4. QED
  BY <1>2, <1>3

LEMMA GoesShape ==
    ASSUME ReviewTypeOK, NEW c \in Client, asked[c] # NoRequest, NEW at, Goes(c, at)
    PROVE  \E now : /\ now = [at |-> at, kind |-> asked[c].kind, review |-> asked[c].review,
                              seen |-> asked[c].seen, what |-> asked[c].what]
                    /\ asked' = [asked EXCEPT ![c] = now]
<1>1. asked[c] = [at |-> asked[c].at, kind |-> asked[c].kind, review |-> asked[c].review,
                  seen |-> asked[c].seen, what |-> asked[c].what]
  BY JobShape
<1>2. asked' = [asked EXCEPT ![c] = [asked[c] EXCEPT !.at = at]]
  BY DEF Goes
<1>3. [asked[c] EXCEPT !.at = at] = [at |-> at, kind |-> asked[c].kind, review |-> asked[c].review,
                                     seen |-> asked[c].seen, what |-> asked[c].what]
  BY <1>1
<1>4. QED
  BY <1>2, <1>3

\* A leaf stays a leaf.
LEMMA RedactedShape == ASSUME NEW leaf \in Leaf PROVE RedactedLeaf(leaf) \in Leaf
<1>1. leaf.path \in Seq(Key) /\ leaf.value \in Value /\ leaf.listed \in BOOLEAN
      /\ leaf = [path |-> leaf.path, value |-> leaf.value, listed |-> leaf.listed]
  BY LeafShape DEF Leaf
<1>2. CASE MasksAt(leaf) = {}
  <2>1. Cleaned(leaf.value) \in Value
    BY <1>1 DEF Cleaned, Value
  <2>2. RedactedLeaf(leaf) = [path |-> leaf.path, value |-> Cleaned(leaf.value), listed |-> leaf.listed]
    BY <1>1, <1>2 DEF RedactedLeaf
  <2>3. QED
    BY <1>1, <2>1, <2>2 DEF Leaf
<1>3. CASE MasksAt(leaf) # {}
  <2> DEFINE i == Min(MasksAt(leaf))
  <2>1. i \in MasksAt(leaf) /\ i \in 1 .. Len(leaf.path)
    BY <1>3, LeafShape, LeastPlace
  <2> HIDE DEF i
  <2>2. SubSeq(leaf.path, 1, i) \in Seq(Key)
    BY <1>1, <2>1, SubSeqProperties
  <2>3. leaf.path[i] \in Key /\ TextAt(leaf, i) \in BOOLEAN /\ MaskOf(leaf.path[i], TextAt(leaf, i)) # "none"
    BY <2>1, LeafShape DEF MasksAt, TextAt, IsLast, IsText
  <2>4. MaskOf(leaf.path[i], TextAt(leaf, i)) \in Mask
    BY <2>3 DEF MaskOf, Mask, alias_for, quantity_band, amount_band, time_bucket, date_bucket
  <2>5. [form |-> MaskOf(leaf.path[i], TextAt(leaf, i)), marks |-> {}] \in Value
    BY <2>4 DEF Value
  <2>6. RedactedLeaf(leaf) = [path |-> SubSeq(leaf.path, 1, i), listed |-> leaf.listed,
                              value |-> [form |-> MaskOf(leaf.path[i], TextAt(leaf, i)), marks |-> {}]]
    BY <1>1, <1>3 DEF RedactedLeaf, i
  <2>7. QED
    BY <1>1, <2>2, <2>5, <2>6 DEF Leaf
<1>4. QED
  BY <1>2, <1>3

\* What an envelope is made of, and why it is refused.
LEMMA EnvelopeShape ==
    ASSUME NEW analysis \in Analyses, NEW envelope \in build_review_envelope(analysis)
    PROVE  /\ envelope \in SUBSET Leaf /\ \A leaf \in envelope : Reduced(leaf)
           /\ ~validate_redacted_payload(envelope) => scan_for_attachments(analysis) # {}
<1>1. PICK part \in SUBSET analysis : envelope = redact_payload(part)
  BY DEF build_review_envelope, context_payload
<1>2. \A leaf \in part : leaf \in Leaf /\ (Unmaskable(leaf) => "blob" \in leaf.value.marks)
  BY ReviewAssumption
<1>3. \A leaf \in part : RedactedLeaf(leaf) \in Leaf /\ Reduced(RedactedLeaf(leaf))
  BY <1>2, RedactedShape, RedactionReduces
<1>4. envelope \in SUBSET Leaf /\ \A leaf \in envelope : Reduced(leaf)
  BY <1>1, <1>3 DEF redact_payload
<1>5. ASSUME ~validate_redacted_payload(envelope) PROVE scan_for_attachments(analysis) # {}
  <2>1. PICK leaf \in part : ~LeafIsFine(RedactedLeaf(leaf))
    BY <1>1, <1>5 DEF validate_redacted_payload, redact_payload
  <2>2. Unmaskable(leaf)
    BY <1>2, <2>1, RedactionIsFine
  <2>3. leaf \in analysis /\ "blob" \in leaf.value.marks
    BY <1>1, <1>2, <2>2
  <2>4. QED
    BY <2>3 DEF scan_for_attachments
<1>6. QED
  BY <1>4, <1>5

LEMMA TellType ==
    ASSUME ReviewTypeOK, NEW n \in DOMAIN reviews, NEW e \in SessionEvent, Tell(n, e)
    PROVE  reviews' \in Seq(Review) /\ DOMAIN reviews' = DOMAIN reviews
  BY TellShape DEF ReviewTypeOK

LEMMA PreviewKeeps ==
    ASSUME ReviewInv, NEW n \in DOMAIN reviews, review_scope_preview(n) PROVE ReviewInv'
<1>0. ReviewTypeOK /\ TellInv /\ LogsInv /\ BridgeAnswers /\ RefusedForFiles
  BY DEF ReviewInv
<1>1. /\ Asks /\ UNCHANGED <<asked, sidecar, answers, breaks, muddled, torn, agreed, crossed>>
      /\ \E analysis \in Analyses : \E envelope \in build_review_envelope(analysis) :
            \/ /\ validate_redacted_payload(envelope)
               /\ Tell(n, [kind |-> "review_scope_preview", envelope |-> envelope])
               /\ UNCHANGED refused
            \/ /\ ~validate_redacted_payload(envelope)
               /\ refused' = refused \cup {analysis} /\ UNCHANGED reviews
  BY DEF review_scope_preview
<1>2. PICK analysis \in Analyses : \E envelope \in build_review_envelope(analysis) :
            \/ /\ validate_redacted_payload(envelope)
               /\ Tell(n, [kind |-> "review_scope_preview", envelope |-> envelope])
               /\ UNCHANGED refused
            \/ /\ ~validate_redacted_payload(envelope)
               /\ refused' = refused \cup {analysis} /\ UNCHANGED reviews
  BY <1>1
<1>3. PICK envelope \in build_review_envelope(analysis) :
            \/ /\ validate_redacted_payload(envelope)
               /\ Tell(n, [kind |-> "review_scope_preview", envelope |-> envelope])
               /\ UNCHANGED refused
            \/ /\ ~validate_redacted_payload(envelope)
               /\ refused' = refused \cup {analysis} /\ UNCHANGED reviews
  BY <1>2
<1>4. /\ envelope \in SUBSET Leaf /\ \A leaf \in envelope : Reduced(leaf)
      /\ ~validate_redacted_payload(envelope) => scan_for_attachments(analysis) # {}
  BY EnvelopeShape
<1>5. requests' \in 0 .. MaxAsked
  BY <1>0, <1>1, ReviewAssumption DEF ReviewTypeOK, Asks
<1>6. BridgeAnswers'
  BY <1>0, <1>1, BridgeRests
<1>7. reviews \in Seq(Review)
  BY <1>0 DEF ReviewTypeOK
<1>8. CASE /\ validate_redacted_payload(envelope)
           /\ Tell(n, [kind |-> "review_scope_preview", envelope |-> envelope])
           /\ UNCHANGED refused
  <2> DEFINE e == [kind |-> "review_scope_preview", envelope |-> envelope]
  <2>1. e \in SessionEvent /\ PhaseOf(e) = "none" /\ FocusOf(e) = NoFocus /\ e.kind = "review_scope_preview" /\ e.envelope = envelope
    BY <1>4 DEF SessionEvent, PhaseOf, FocusOf
  <2>2. IsSound(e, n)'
    BY <1>4, <1>8, <2>1 DEF IsSound
  <2>3. Tell(n, e)
    BY <1>8
  <2> HIDE DEF e
  <2>4. TellInv'
    BY <1>0, <1>1, <2>1, <2>3, NeutralTell
  <2>5. LogsInv'
    BY <1>0, <1>1, <1>7, <2>1, <2>2, <2>3, LongerLogs
  <2>6. reviews' \in Seq(Review) /\ DOMAIN reviews' = DOMAIN reviews
    BY <1>0, <2>1, <2>3, TellType
  <2>7. ReviewTypeOK'
    BY <1>0, <1>1, <1>5, <1>8, <2>6 DEF ReviewTypeOK
  <2>8. RefusedForFiles'
    BY <1>0, <1>8 DEF RefusedForFiles
  <2>9. QED
    BY <1>6, <2>4, <2>5, <2>7, <2>8 DEF ReviewInv
<1>9. CASE /\ ~validate_redacted_payload(envelope)
           /\ refused' = refused \cup {analysis} /\ UNCHANGED reviews
  <2>1. TellInv'
    BY <1>0, <1>1, <1>9, BridgeTell
  <2>2. LogsInv'
    BY <1>0, <1>1, <1>9 DEF LogsInv, ForksAreLater, CompletedHavePackages, ForksContinue, EventsAreSound, IsSound
  <2>3. ReviewTypeOK'
    BY <1>0, <1>1, <1>5, <1>9 DEF ReviewTypeOK
  <2>4. RefusedForFiles'
    BY <1>0, <1>4, <1>9 DEF RefusedForFiles
  <2>5. QED
    BY <1>6, <2>1, <2>2, <2>3, <2>4 DEF ReviewInv
<1>10. QED
  BY <1>3, <1>8, <1>9

LEMMA ChallengerKeeps ==
    ASSUME ReviewInv, NEW n \in DOMAIN reviews, record_challenger_proposal(n) PROVE ReviewInv'
<1>0. ReviewTypeOK /\ TellInv /\ LogsInv /\ BridgeAnswers /\ RefusedForFiles
  BY DEF ReviewInv
<1>1. Asks /\ UNCHANGED <<asked, sidecar, answers, breaks, muddled, torn, refused, agreed, crossed>>
  BY DEF record_challenger_proposal
<1>2. PICK raw \in Packages : \E proposal \in raw.challengers :
        /\ validate_challenger_only_mutation(proposal)
        /\ Tell(n, [kind |-> "challenger_proposal", proposal |-> proposal])
  BY DEF record_challenger_proposal
<1>3. PICK proposal \in raw.challengers :
        /\ validate_challenger_only_mutation(proposal)
        /\ Tell(n, [kind |-> "challenger_proposal", proposal |-> proposal])
  BY <1>2
<1> DEFINE e == [kind |-> "challenger_proposal", proposal |-> proposal]
<1>4. e \in SessionEvent /\ PhaseOf(e) = "none" /\ FocusOf(e) = NoFocus /\ e.kind = "challenger_proposal" /\ e.proposal = proposal
  <2>1. proposal \in UNION {x.challengers : x \in Packages}
    OBVIOUS
  <2>2. QED
    BY <2>1 DEF SessionEvent, PhaseOf, FocusOf
<1>5. IsSound(e, n)'
  BY <1>3, <1>4 DEF IsSound
<1>6. Tell(n, e)
  BY <1>3
<1> HIDE DEF e
<1>7. TellInv'
  BY <1>0, <1>1, <1>4, <1>6, NeutralTell
<1>8. LogsInv'
  <2>1. reviews \in Seq(Review)
    BY <1>0 DEF ReviewTypeOK
  <2>2. QED
    BY <1>0, <1>1, <1>4, <1>5, <1>6, <2>1, LongerLogs
<1>9. ReviewTypeOK'
  <2>1. requests' \in 0 .. MaxAsked
    BY <1>0, <1>1, ReviewAssumption DEF ReviewTypeOK, Asks
  <2>2. reviews' \in Seq(Review) /\ DOMAIN reviews' = DOMAIN reviews
    BY <1>0, <1>4, <1>6, TellType
  <2>3. QED
    BY <1>0, <1>1, <2>1, <2>2 DEF ReviewTypeOK
<1>10. BridgeAnswers'
  BY <1>0, <1>1, BridgeRests
<1>11. RefusedForFiles'
  BY <1>0, <1>1 DEF RefusedForFiles
<1>12. QED
  BY <1>7, <1>8, <1>9, <1>10, <1>11 DEF ReviewInv

LEMMA UpdateTakesKeeps ==
    ASSUME ReviewInv, NEW n \in DOMAIN reviews, NEW c \in Client, NEW kind, NEW what, Asks, Unasked(c),
           Takes(c, "update", kind, n, what), UNCHANGED reviews,
           kind \in {"confirm", "trade"}, kind = "confirm" => what = NoFocus, kind = "trade" => what \in Focus
    PROVE  ReviewInv'
<1>0. ReviewTypeOK /\ TellInv /\ LogsInv /\ BridgeAnswers /\ RefusedForFiles
  BY DEF ReviewInv
<1>1. PICK now : now = [at |-> "update", kind |-> kind, review |-> n, seen |-> reviews[n].context, what |-> what]
  OBVIOUS
<1>2. /\ asked' = [asked EXCEPT ![c] = now]
      /\ muddled' = IF BeingWritten(n) THEN muddled \cup {n} ELSE muddled
      /\ UNCHANGED <<sidecar, answers, breaks, torn, refused, agreed, crossed>>
  BY <1>1 DEF Takes
<1>3. /\ now.at = "update" /\ now.kind = kind /\ now.review = n /\ now.seen = reviews[n].context /\ now.what = what
      /\ now # NoRequest
  BY <1>1 DEF NoRequest
<1>4. reviews \in Seq(Review) /\ asked[c] = NoRequest
  BY <1>0 DEF ReviewTypeOK, Unasked
<1>5. reviews[n].context \in Context /\ n \in Nat
  BY <1>4, ReviewShape
<1>6. now \in Underway
  BY <1>1, <1>5 DEF Underway
<1>7. /\ asked' \in [Client -> Underway \cup {NoRequest}] /\ asked'[c] = now
      /\ \A d \in Client : d # c => asked'[d] = asked[d]
      /\ \A d \in Client : asked'[d] # NoRequest => asked'[d].review \in DOMAIN reviews'
  BY <1>0, <1>2, <1>3, <1>6, AskedType
<1>8. TellInv'
  <2>1. Tells(reviews[n].log, reviews[n].given, reviews[n].context) => ReviewTold(now, reviews'[n])
    BY <1>3 DEF ReviewTold
  <2>2. now.seen.phase = "completed" /\ n \notin torn => HasPackage(reviews'[n].log)
    BY <1>0, <1>3 DEF LogsInv, CompletedHavePackages
  <2>3. QED
    BY <1>0, <1>2, <1>3, <1>4, <2>1, <2>2, TakesTell
<1>9. LogsInv'
  BY <1>0, <1>2 DEF LogsInv, ForksAreLater, CompletedHavePackages, ForksContinue, EventsAreSound, IsSound
<1>10. ReviewTypeOK'
  <2>1. requests' \in 0 .. MaxAsked
    BY <1>0, ReviewAssumption DEF ReviewTypeOK, Asks
  <2>2. torn' \subseteq muddled' /\ muddled' \subseteq DOMAIN reviews
    BY <1>0, <1>2 DEF ReviewTypeOK
  <2>3. QED
    BY <1>0, <1>2, <1>7, <2>1, <2>2 DEF ReviewTypeOK
<1>11. BridgeAnswers'
  <2>1. asked[c].at = "none"
    BY <1>4 DEF NoRequest
  <2>2. QED
    BY <1>0, <1>2, <1>3, <1>7, <2>1, BridgeRests
<1>12. RefusedForFiles'
  BY <1>0, <1>2 DEF RefusedForFiles
<1>13. QED
  BY <1>8, <1>9, <1>10, <1>11, <1>12 DEF ReviewInv

LEMMA ConfirmKeeps ==
    ASSUME ReviewInv, NEW n \in DOMAIN reviews, NEW c \in Client, confirm_review_scope(c, n) PROVE ReviewInv'
<1>1. Asks /\ Unasked(c) /\ UNCHANGED reviews /\ Takes(c, "update", "confirm", n, NoFocus)
  BY DEF confirm_review_scope
<1>2. "confirm" # "trade"
  OBVIOUS
<1>3. QED
  BY <1>1, <1>2, UpdateTakesKeeps

LEMMA TradeKeeps ==
    ASSUME ReviewInv, NEW n \in DOMAIN reviews, NEW c \in Client, review_from_trade(c, n) PROVE ReviewInv'
<1>1. Asks /\ Unasked(c) /\ UNCHANGED reviews
  BY DEF review_from_trade
<1>2. PICK trade \in Focus : Takes(c, "update", "trade", n, trade)
  BY DEF review_from_trade
<1>3. QED
  BY <1>1, <1>2, UpdateTakesKeeps

LEMMA PackageKeeps ==
    ASSUME ReviewInv, NEW n \in DOMAIN reviews, NEW c \in Client, record_review_package(c, n) PROVE ReviewInv'
<1>0. ReviewTypeOK /\ TellInv /\ LogsInv /\ BridgeAnswers /\ RefusedForFiles
  BY DEF ReviewInv
<1>1. Asks /\ Unasked(c) /\ Takes(c, "read", "package", n, NoFocus)
  BY DEF record_review_package
<1>2. PICK raw \in Packages : Recordable(raw, n) /\ Tell(n, [kind |-> "review_package", package |-> raw])
  BY DEF record_review_package
<1> DEFINE e == [kind |-> "review_package", package |-> raw]
<1>3. /\ e \in SessionEvent /\ PhaseOf(e) = "completed" /\ FocusOf(e) = NoFocus
      /\ e.kind = "review_package" /\ e.package = raw
  BY DEF SessionEvent, PhaseOf, FocusOf
<1>4. IsSound(e, n)'
  BY <1>2, <1>3 DEF IsSound
<1>5. Tell(n, e)
  BY <1>2
<1> HIDE DEF e
<1>6. PICK now : now = [at |-> "read", kind |-> "package", review |-> n, seen |-> reviews[n].context, what |-> NoFocus]
  OBVIOUS
<1>7. /\ asked' = [asked EXCEPT ![c] = now]
      /\ muddled' = IF BeingWritten(n) THEN muddled \cup {n} ELSE muddled
      /\ UNCHANGED <<sidecar, answers, breaks, torn, refused, agreed, crossed>>
  BY <1>1, <1>6 DEF Takes
<1>8. now.at = "read" /\ now.kind = "package" /\ now.review = n /\ now # NoRequest
  BY <1>6 DEF NoRequest
<1>9. reviews \in Seq(Review) /\ asked[c] = NoRequest
  BY <1>0, <1>1 DEF ReviewTypeOK, Unasked
<1>10. reviews[n].context \in Context /\ n \in Nat /\ reviews[n].log \in Seq(SessionEvent) /\ Len(reviews[n].log) \in Nat
  BY <1>9, ReviewShape
<1>11. now \in Underway
  BY <1>6, <1>10 DEF Underway
<1>12. /\ reviews' \in Seq(Review) /\ DOMAIN reviews' = DOMAIN reviews
       /\ \A m \in DOMAIN reviews : m # n => reviews'[m] = reviews[m]
       /\ reviews'[n].context = reviews[n].context /\ reviews'[n].given = reviews[n].given
       /\ reviews'[n].log = Append(reviews[n].log, e)
       /\ Len(reviews[n].log) + 1 \in DOMAIN reviews'[n].log /\ reviews'[n].log[Len(reviews[n].log) + 1] = e
  BY <1>3, <1>5, <1>9, <1>10, TellShape
<1>13. /\ asked' \in [Client -> Underway \cup {NoRequest}] /\ asked'[c] = now
       /\ \A d \in Client : d # c => asked'[d] = asked[d]
       /\ \A d \in Client : asked'[d] # NoRequest => asked'[d].review \in DOMAIN reviews'
  BY <1>0, <1>7, <1>8, <1>11, <1>12, AskedType
<1>14. TellInv'
  <2>1. HasPackage(reviews'[n].log)
    BY <1>3, <1>12 DEF HasPackage
  <2>2. ASSUME Tells(reviews[n].log, reviews[n].given, reviews[n].context) PROVE ReviewTold(now, reviews'[n])
    <3>1. LET context == Changed("package", reviews[n].context, NoFocus) IN
          /\ context \in Context /\ context.confirmed = reviews[n].context.confirmed /\ context.phase = "completed"
          /\ context.focus = reviews[n].context.focus
      BY <1>10, ChangedShape DEF Context
    <3>2. Tells(Append(reviews[n].log, e), reviews[n].given, Changed("package", reviews[n].context, NoFocus))
      BY <1>3, <1>10, <2>2, <3>1, TellsNext
    <3>3. QED
      BY <1>8, <1>12, <3>2 DEF ReviewTold
  <2>3. QED
    BY <1>0, <1>7, <1>8, <1>9, <1>12, <2>1, <2>2, TakesTell
<1>15. LogsInv'
  BY <1>0, <1>3, <1>4, <1>5, <1>7, <1>9, LongerLogs
<1>16. ReviewTypeOK'
  <2>1. requests' \in 0 .. MaxAsked
    BY <1>0, <1>1, ReviewAssumption DEF ReviewTypeOK, Asks
  <2>2. torn' \subseteq muddled' /\ muddled' \subseteq DOMAIN reviews
    BY <1>0, <1>7 DEF ReviewTypeOK
  <2>3. QED
    BY <1>0, <1>7, <1>12, <1>13, <2>1, <2>2 DEF ReviewTypeOK
<1>17. BridgeAnswers'
  <2>1. asked[c].at = "none"
    BY <1>9 DEF NoRequest
  <2>2. QED
    BY <1>0, <1>7, <1>8, <1>13, <2>1, BridgeRests
<1>18. RefusedForFiles'
  BY <1>0, <1>7 DEF RefusedForFiles
<1>19. QED
  BY <1>14, <1>15, <1>16, <1>17, <1>18 DEF ReviewInv

\* A session that begins says what it was given.
LEMMA BegunShape ==
    ASSUME NEW focus \in Focus \cup {NoFocus}, NEW given \in Focus \cup {NoFocus}
    PROVE  LET r == Begun(Fresh(focus), given) IN
           /\ r \in Review /\ r.copied = 0 /\ Len(r.log) = 0 /\ r.context = Fresh(focus) /\ r.context.phase = "none"
           /\ Fresh(focus) \in Context
           /\ Tells(r.log, r.given, Fresh(given))
<1>1. /\ Fresh(focus) \in Context /\ Fresh(given) \in Context
      /\ Fresh(focus).phase = "none" /\ Fresh(given).phase = "none" /\ ~Fresh(given).confirmed /\ Fresh(given).focus = given
  BY DEF Fresh, Context
<1> DEFINE r == Begun(Fresh(focus), given)
<1>2. r.context = Fresh(focus) /\ r.given = given /\ r.log = << >> /\ r.copied = 0
  BY DEF Begun
<1>3. r \in Review
  <2>1. << >> \in Seq(SessionEvent)
    OBVIOUS
  <2>2. QED
    BY <1>1, <2>1 DEF Begun, Review
<1> HIDE DEF r
<1>4. Len(r.log) = 0 /\ DOMAIN r.log = {}
  BY <1>2
<1>5. Tells(r.log, r.given, Fresh(given))
  BY <1>1, <1>2, <1>4 DEF Tells
<1>6. QED
  BY <1>1, <1>2, <1>3, <1>4, <1>5 DEF r

LEMMA CreateKeeps == ASSUME ReviewInv, create_session PROVE ReviewInv'
<1>0. ReviewTypeOK /\ TellInv /\ LogsInv /\ BridgeAnswers /\ RefusedForFiles
  BY DEF ReviewInv
<1>1. Asks /\ UNCHANGED <<asked, sidecar, answers, breaks, muddled, torn, refused, agreed, crossed>>
  BY DEF create_session
<1>2. PICK focus \in Focus \cup {NoFocus} : reviews' = Append(reviews, Begun(Fresh(focus), focus))
  BY DEF create_session
<1>3. PICK r : r = Begun(Fresh(focus), focus)
  OBVIOUS
<1>4. /\ r \in Review /\ r.copied = 0 /\ Len(r.log) = 0 /\ r.context.phase = "none"
      /\ Tells(r.log, r.given, r.context)
  BY <1>3, BegunShape
<1>5. reviews \in Seq(Review) /\ torn \subseteq DOMAIN reviews
  BY <1>0 DEF ReviewTypeOK
<1>6. reviews' = Append(reviews, r)
  BY <1>2, <1>3
<1>7. TellInv'
  BY <1>0, <1>1, <1>4, <1>6, NewTell
<1>8. LogsInv'
  BY <1>0, <1>1, <1>4, <1>5, <1>6, NewLogs
<1>9. ReviewTypeOK'
  <2>1. requests' \in 0 .. MaxAsked
    BY <1>0, <1>1, ReviewAssumption DEF ReviewTypeOK, Asks
  <2>2. reviews' \in Seq(Review) /\ DOMAIN reviews \subseteq DOMAIN reviews'
    BY <1>4, <1>5, <1>6, NewShape
  <2>3. QED
    BY <1>0, <1>1, <2>1, <2>2 DEF ReviewTypeOK
<1>10. BridgeAnswers'
  BY <1>0, <1>1, BridgeRests
<1>11. RefusedForFiles'
  BY <1>0, <1>1 DEF RefusedForFiles
<1>12. QED
  BY <1>7, <1>8, <1>9, <1>10, <1>11 DEF ReviewInv

LEMMA NewTradeKeeps == ASSUME ReviewInv, NEW c \in Client, review_from_trade_new(c) PROVE ReviewInv'
<1>0. ReviewTypeOK /\ TellInv /\ LogsInv /\ BridgeAnswers /\ RefusedForFiles
  BY DEF ReviewInv
<1>1. Asks /\ Unasked(c) /\ UNCHANGED <<sidecar, answers, breaks, muddled, torn, refused, agreed, crossed>>
  BY DEF review_from_trade_new
<1>2. PICK trade \in Focus :
        /\ reviews' = Append(reviews, Begun(Fresh(trade), NoFocus))
        /\ asked' = [asked EXCEPT ![c] = [at |-> "append", kind |-> "trade", review |-> Len(reviews) + 1,
                                          seen |-> Fresh(NoFocus), what |-> trade]]
  BY DEF review_from_trade_new
<1>3. PICK r : r = Begun(Fresh(trade), NoFocus)
  OBVIOUS
<1>4. PICK now : now = [at |-> "append", kind |-> "trade", review |-> Len(reviews) + 1, seen |-> Fresh(NoFocus), what |-> trade]
  OBVIOUS
<1>5. /\ r \in Review /\ r.copied = 0 /\ Len(r.log) = 0 /\ r.context = Fresh(trade) /\ r.context.phase = "none"
      /\ Tells(r.log, r.given, Fresh(NoFocus)) /\ Fresh(NoFocus) \in Context
  BY <1>3, BegunShape
<1>6. reviews \in Seq(Review) /\ torn \subseteq DOMAIN reviews /\ asked[c] = NoRequest
  BY <1>0, <1>1 DEF ReviewTypeOK, Unasked
<1>7. reviews' = Append(reviews, r) /\ asked' = [asked EXCEPT ![c] = now]
  BY <1>2, <1>3, <1>4
<1>8. /\ now.at = "append" /\ now.kind = "trade" /\ now.review = Len(reviews) + 1 /\ now.seen = Fresh(NoFocus) /\ now.what = trade
      /\ now # NoRequest
  BY <1>4 DEF NoRequest
<1>9. /\ reviews' \in Seq(Review) /\ DOMAIN reviews \subseteq DOMAIN reviews'
      /\ Len(reviews) + 1 \in DOMAIN reviews' /\ Len(reviews) + 1 \in Nat
  BY <1>5, <1>6, <1>7, NewShape
<1>10. now \in Underway
  BY <1>4, <1>5, <1>9 DEF Underway
<1>11. /\ asked' \in [Client -> Underway \cup {NoRequest}] /\ asked'[c] = now
       /\ \A d \in Client : d # c => asked'[d] = asked[d]
       /\ \A d \in Client : asked'[d] # NoRequest => asked'[d].review \in DOMAIN reviews'
  BY <1>0, <1>7, <1>8, <1>9, <1>10, AskedType
<1>12. TellInv'
  <2>1. Changed("trade", Fresh(NoFocus), trade) = Fresh(trade)
    BY DEF Changed, Fresh
  <2>2. ReviewTold(now, r)
    BY <1>5, <1>8, <2>1 DEF ReviewTold
  <2>3. \E d \in Client : \E x :
          /\ asked[d] = NoRequest /\ asked' = [asked EXCEPT ![d] = x] /\ x.at = "append" /\ x.kind # "package"
          /\ x.review = Len(reviews) + 1 /\ ReviewTold(x, r)
    BY <1>6, <1>7, <1>8, <2>2
  <2>4. UNCHANGED <<muddled, torn>>
    BY <1>1
  <2>5. QED
    BY <1>0, <1>5, <1>7, <2>3, <2>4, NewTell
<1>13. LogsInv'
  BY <1>0, <1>1, <1>5, <1>6, <1>7, NewLogs
<1>14. ReviewTypeOK'
  <2>1. requests' \in 0 .. MaxAsked
    BY <1>0, <1>1, ReviewAssumption DEF ReviewTypeOK, Asks
  <2>2. QED
    BY <1>0, <1>1, <1>9, <1>11, <2>1 DEF ReviewTypeOK
<1>15. BridgeAnswers'
  <2>1. asked[c].at = "none"
    BY <1>6 DEF NoRequest
  <2>2. QED
    BY <1>0, <1>1, <1>8, <1>11, <2>1, BridgeRests
<1>16. RefusedForFiles'
  BY <1>0, <1>1 DEF RefusedForFiles
<1>17. QED
  BY <1>12, <1>13, <1>14, <1>15, <1>16 DEF ReviewInv

\* A fork of a session, with a first part of its log.
LEMMA ForkShape ==
    ASSUME reviews \in Seq(Review), NEW n \in DOMAIN reviews, NEW copied \in 0 .. Len(reviews[n].log), Fork(n, copied)
    PROVE  \E r \in Review :
              /\ reviews' = Append(reviews, r) /\ Len(reviews) < MaxReviews
              /\ r.context = reviews[n].context /\ r.given = reviews[n].given
              /\ r.forked_from = n /\ r.copied = copied /\ Len(r.log) = copied
              /\ \A i \in 1 .. copied : r.log[i] = reviews[n].log[i]
              /\ copied = Len(reviews[n].log) => r.log = reviews[n].log
<1> DEFINE log == SubSeq(reviews[n].log, 1, copied)
<1> DEFINE r == [context |-> reviews[n].context, given |-> reviews[n].given, log |-> log, forked_from |-> n, copied |-> copied]
<1>1. /\ reviews[n] \in Review /\ n \in Nat /\ copied \in Nat
      /\ reviews[n].log \in Seq(SessionEvent) /\ Len(reviews[n].log) \in Nat
  BY ReviewShape
<1>2. log \in Seq(SessionEvent) /\ Len(log) = copied /\ \A i \in 1 .. copied : log[i] = reviews[n].log[i]
  BY <1>1, SubSeqProperties
<1>3. copied = Len(reviews[n].log) => log = reviews[n].log
  <2>1. reviews[n].log = SubSeq(reviews[n].log, 1, Len(reviews[n].log))
    BY <1>1, SubSeqFull
  <2>2. QED
    BY <2>1
<1> HIDE DEF log
<1>4. r = [reviews[n] EXCEPT !.log = log, !.forked_from = n, !.copied = copied]
  <2>1. reviews[n] = [context |-> reviews[n].context, given |-> reviews[n].given, log |-> reviews[n].log,
                      forked_from |-> reviews[n].forked_from, copied |-> reviews[n].copied]
    BY <1>1 DEF Review
  <2>2. PICK old : old = reviews[n]
    OBVIOUS
  <2>3. r = [old EXCEPT !.log = log, !.forked_from = n, !.copied = copied]
    <3>1. PICK context, given, was, from, part : old = [context |-> context, given |-> given, log |-> was, forked_from |-> from, copied |-> part]
      BY <2>1, <2>2
    <3>2. context = reviews[n].context /\ given = reviews[n].given
      BY <2>2, <3>1
    <3>3. PICK one : one = [old EXCEPT !.log = log]
      OBVIOUS
    <3>4. one = [context |-> context, given |-> given, log |-> log, forked_from |-> from, copied |-> part]
      BY <3>1, <3>3
    <3>5. PICK two : two = [one EXCEPT !.forked_from = n]
      OBVIOUS
    <3>6. two = [context |-> context, given |-> given, log |-> log, forked_from |-> n, copied |-> part]
      BY <3>4, <3>5
    <3>7. [two EXCEPT !.copied = copied] = r
      BY <3>2, <3>6
    <3>8. QED
      BY <3>3, <3>5, <3>7
  <2>4. QED
    BY <2>2, <2>3
<1>5. reviews' = Append(reviews, r) /\ Len(reviews) < MaxReviews
  BY <1>4 DEF Fork, log
<1>6. r \in Review
  BY <1>1, <1>2 DEF Review
<1>7. QED
  BY <1>2, <1>3, <1>5, <1>6

LEMMA ForkKeeps == ASSUME ReviewInv, NEW n \in DOMAIN reviews, fork_session(n) PROVE ReviewInv'
<1> DEFINE new == Len(reviews) + 1
<1>0. ReviewTypeOK /\ TellInv /\ LogsInv /\ BridgeAnswers /\ RefusedForFiles
  BY DEF ReviewInv
<1>1. /\ Asks /\ UNCHANGED <<asked, sidecar, answers, breaks, refused, agreed, crossed>>
      /\ muddled' = IF n \in muddled \/ BeingWritten(n) THEN muddled \cup {new} ELSE muddled
      /\ torn' = IF n \in torn THEN torn \cup {new} ELSE torn
  BY DEF fork_session
<1>2. reviews \in Seq(Review) /\ torn \subseteq muddled /\ muddled \subseteq DOMAIN reviews
  BY <1>0 DEF ReviewTypeOK
<1>3. Len(reviews[n].log) \in 0 .. Len(reviews[n].log)
  BY <1>2, ReviewShape
<1>4. PICK r \in Review :
              /\ reviews' = Append(reviews, r)
              /\ r.context = reviews[n].context /\ r.given = reviews[n].given
              /\ r.forked_from = n /\ r.copied = Len(reviews[n].log) /\ Len(r.log) = Len(reviews[n].log)
              /\ \A i \in 1 .. Len(reviews[n].log) : r.log[i] = reviews[n].log[i]
              /\ r.log = reviews[n].log
  BY <1>2, <1>3, ForkShape DEF fork_session
<1>5. reviews' \in Seq(Review) /\ DOMAIN reviews' = DOMAIN reviews \cup {new}
  BY <1>2, <1>4, NewShape
<1>6. torn \subseteq torn' /\ muddled \subseteq muddled' /\ muddled' \subseteq muddled \cup {new} /\ torn' \subseteq muddled'
  BY <1>1, <1>2
<1>7. TellInv'
  <2>1. ASSUME new \notin muddled' PROVE Tells(r.log, r.given, r.context)
    <3>1. n \notin muddled /\ ~BeingWritten(n)
      BY <1>1, <2>1
    <3>2. Tells(reviews[n].log, reviews[n].given, reviews[n].context)
      BY <1>0, <3>1 DEF TellInv, ContextsTell
    <3>3. QED
      BY <1>4, <3>2
  <2>2. QED
    BY <1>0, <1>1, <1>4, <1>6, <2>1, NewTell
<1>8. LogsInv'
  <2>1. r.context.phase = "completed" /\ new \notin torn' => HasPackage(r.log)
    BY <1>0, <1>1, <1>4 DEF LogsInv, CompletedHavePackages
  <2>2. torn \subseteq DOMAIN reviews /\ Len(reviews[n].log) <= Len(reviews[n].log)
    BY <1>2, <1>3
  <2>3. QED
    BY <1>0, <1>1, <1>2, <1>4, <1>6, <2>1, <2>2, NewLogs
<1>9. ReviewTypeOK'
  <2>1. requests' \in 0 .. MaxAsked
    BY <1>0, <1>1, ReviewAssumption DEF ReviewTypeOK, Asks
  <2>2. QED
    BY <1>0, <1>1, <1>5, <1>6, <2>1 DEF ReviewTypeOK
<1>10. BridgeAnswers'
  BY <1>0, <1>1, BridgeRests
<1>11. RefusedForFiles'
  BY <1>0, <1>1 DEF RefusedForFiles
<1>12. QED
  BY <1>7, <1>8, <1>9, <1>10, <1>11 DEF ReviewInv

-----------------------------------------------------------------------------
(* Its steps. *)

\* What is the same where only a request changes its place.
LEMMA PlaceKeeps ==
    ASSUME ReviewTypeOK, LogsInv, RefusedForFiles, NEW c \in Client, NEW now \in Underway \cup {NoRequest},
           asked' = [asked EXCEPT ![c] = now], now # NoRequest => now.review \in DOMAIN reviews,
           UNCHANGED <<reviews, sidecar, requests, breaks, muddled, torn, refused, agreed, crossed>>, UNCHANGED answers
    PROVE  ReviewTypeOK' /\ LogsInv' /\ RefusedForFiles'
<1>1. /\ asked' \in [Client -> Underway \cup {NoRequest}]
      /\ \A d \in Client : asked'[d] # NoRequest => asked'[d].review \in DOMAIN reviews'
  BY AskedType
<1>2. ReviewTypeOK'
  BY <1>1 DEF ReviewTypeOK
<1>3. LogsInv'
  BY DEF LogsInv, ForksAreLater, CompletedHavePackages, ForksContinue, EventsAreSound, IsSound
<1>4. RefusedForFiles'
  BY DEF RefusedForFiles
<1>5. QED
  BY <1>2, <1>3, <1>4

LEMMA GetKeeps == ASSUME ReviewInv, NEW c \in Client, get_session(c) PROVE ReviewInv'
<1>0. ReviewTypeOK /\ TellInv /\ LogsInv /\ BridgeAnswers /\ RefusedForFiles
  BY DEF ReviewInv
<1>1. /\ asked[c].at = "read"
      /\ asked' = [asked EXCEPT ![c].at = "update", ![c].seen = reviews[asked[c].review].context]
      /\ UNCHANGED <<reviews, sidecar, answers, requests, breaks, muddled, torn, refused, agreed, crossed>>
  BY DEF get_session
<1> DEFINE n == asked[c].review
<1>2. /\ asked[c] # NoRequest /\ n \in DOMAIN reviews /\ n \in Nat
      /\ asked[c] = [at |-> asked[c].at, kind |-> asked[c].kind, review |-> asked[c].review,
                     seen |-> asked[c].seen, what |-> asked[c].what]
      /\ asked[c].kind = "package" /\ asked[c].what = NoFocus
  BY <1>0, <1>1, JobShape DEF NoRequest
<1>3. PICK now : now = [at |-> "update", kind |-> "package", review |-> n, seen |-> reviews[n].context, what |-> NoFocus]
  OBVIOUS
<1>4. asked' = [asked EXCEPT ![c] = now]
  <2>0. asked[c] = [at |-> asked[c].at, kind |-> "package", review |-> n, seen |-> asked[c].seen, what |-> NoFocus]
    BY <1>2
  <2>1. [[asked[c] EXCEPT !.at = "update"] EXCEPT !.seen = reviews[n].context] = now
    <3>1. [asked[c] EXCEPT !.at = "update"]
            = [at |-> "update", kind |-> "package", review |-> n, seen |-> asked[c].seen, what |-> NoFocus]
      BY <2>0
    <3>2. PICK old : old = [asked[c] EXCEPT !.at = "update"]
      OBVIOUS
    <3>3. PICK seen : seen = asked[c].seen
      OBVIOUS
    <3>4. old = [at |-> "update", kind |-> "package", review |-> n, seen |-> seen, what |-> NoFocus]
      BY <3>1, <3>2, <3>3
    <3>5. [old EXCEPT !.seen = reviews[n].context] = now
      BY <1>3, <3>4
    <3>6. QED
      BY <3>2, <3>5
  <2>2. asked' = [asked EXCEPT ![c] = [[asked[c] EXCEPT !.at = "update"] EXCEPT !.seen = reviews[n].context]]
    BY <1>0, <1>1 DEF ReviewTypeOK
  <2>3. QED
    BY <2>1, <2>2
<1>5. /\ now.at = "update" /\ now.kind = "package" /\ now.review = n /\ now.seen = reviews[n].context /\ now.what = NoFocus
      /\ now # NoRequest
  BY <1>3 DEF NoRequest
<1>6. now \in Underway
  <2>1. reviews[n].context \in Context
    BY <1>0, <1>2, ReviewShape DEF ReviewTypeOK
  <2>2. QED
    BY <1>2, <1>3, <2>1 DEF Underway
<1>7. /\ asked'[c] = now /\ \A d \in Client : d # c => asked'[d] = asked[d]
  BY <1>0, <1>4 DEF ReviewTypeOK
<1>8. ReviewTypeOK' /\ LogsInv' /\ RefusedForFiles'
  BY <1>0, <1>1, <1>2, <1>4, <1>5, <1>6, PlaceKeeps
<1>9. BridgeAnswers'
  BY <1>0, <1>1, <1>5, <1>7, BridgeRests
<1>10. TellInv'
  <2>0. WritersApart /\ RequestsTell /\ PackagesAtHand /\ ContextsTell
    BY <1>0 DEF TellInv
  <2>1. \A d \in Client : \A m : Writes(d, m)' <=> Writes(d, m)
    BY <1>1, <1>5, <1>7 DEF Writes
  <2>2. WritersApart'
    BY <1>1, <2>0, <2>1 DEF WritersApart
  <2>3. ContextsTell'
    BY <1>1, <2>0, <2>1 DEF ContextsTell, BeingWritten
  <2>4. PackagesAtHand'
    <3>1. HasPackage(reviews[n].log)
      BY <1>2, <2>0 DEF PackagesAtHand
    <3>2. \A d \in Client : d # c /\ asked[d] # NoRequest =>
            /\ asked[d].kind = "package" => HasPackage(reviews[asked[d].review].log)
            /\ asked[d].at = "update" /\ asked[d].seen.phase = "completed" /\ asked[d].review \notin torn
                => HasPackage(reviews[asked[d].review].log)
      BY <2>0 DEF PackagesAtHand
    <3>3. ASSUME NEW d \in Client, d # c, asked'[d] # NoRequest
          PROVE  /\ asked'[d].kind = "package" => HasPackage(reviews[asked'[d].review].log)
                 /\ asked'[d].at = "update" /\ asked'[d].seen.phase = "completed" /\ asked'[d].review \notin torn
                    => HasPackage(reviews[asked'[d].review].log)
      <4>1. asked'[d] = asked[d]
        BY <1>7, <3>3
      <4>2. QED
        BY <3>2, <3>3, <4>1
    <3>4. HasPackage(reviews[asked'[c].review].log)
      BY <1>5, <1>7, <3>1
    <3>5. QED
      BY <1>1, <3>3, <3>4 DEF PackagesAtHand
  <2>5. n \notin muddled => ReviewTold(now, reviews[n])
    BY <1>1, <1>2, <1>5, <2>0 DEF RequestsTell, ReviewTold
  <2>6. RequestsTell'
    <3>1. \A d \in Client : d # c /\ asked[d] # NoRequest /\ asked[d].review \notin muddled
            => ReviewTold(asked[d], reviews[asked[d].review])
      BY <2>0 DEF RequestsTell
    <3>2. ASSUME NEW d \in Client, d # c, asked'[d] # NoRequest, asked'[d].review \notin muddled
          PROVE  ReviewTold(asked'[d], reviews[asked'[d].review])
      BY <1>7, <3>1, <3>2
    <3>3. asked'[c].review \notin muddled => ReviewTold(asked'[c], reviews[asked'[c].review])
      BY <1>5, <1>7, <2>5
    <3>4. reviews' = reviews /\ muddled' = muddled
      BY <1>1
    <3>5. ASSUME NEW d \in Client, asked'[d] # NoRequest, asked'[d].review \notin muddled
          PROVE  ReviewTold(asked'[d], reviews[asked'[d].review])
      BY <3>2, <3>3, <3>5
    <3>6. QED
      BY <3>4, <3>5 DEF RequestsTell
  <2>7. QED
    BY <2>2, <2>3, <2>4, <2>6 DEF TellInv
<1>11. QED
  BY <1>8, <1>9, <1>10 DEF ReviewInv

LEMMA UpdateKeeps == ASSUME ReviewInv, NEW c \in Client, update_session(c) PROVE ReviewInv'
<1>0. ReviewTypeOK /\ TellInv /\ LogsInv /\ BridgeAnswers /\ RefusedForFiles
  BY DEF ReviewInv
<1> DEFINE n == asked[c].review
<1> DEFINE context == Changed(asked[c].kind, asked[c].seen, asked[c].what)
<1>1. /\ asked[c].at = "update" /\ reviews' = [reviews EXCEPT ![n].context = context]
      /\ IF asked[c].kind = "package" THEN Leaves(c) ELSE Goes(c, "append")
      /\ UNCHANGED <<sidecar, answers, requests, breaks, muddled, torn, refused, agreed, crossed>>
  BY DEF update_session
<1>2. /\ asked[c] # NoRequest /\ n \in DOMAIN reviews /\ n \in Nat
      /\ asked[c].kind \in {"confirm", "package", "trade"} /\ asked[c].seen \in Context /\ asked[c].what \in Focus \cup {NoFocus}
      /\ asked[c].kind \in {"package", "confirm"} => asked[c].what = NoFocus
      /\ asked[c].kind = "trade" => asked[c].what \in Focus
  BY <1>0, <1>1, JobShape DEF NoRequest
<1>3. /\ context \in Context
      /\ context.phase = IF asked[c].kind = "confirm" THEN "scope_confirmed"
                         ELSE IF asked[c].kind = "package" THEN "completed" ELSE asked[c].seen.phase
  <2>1. PICK kind \in {"confirm", "package", "trade"}, seen \in Context, what \in Focus \cup {NoFocus} :
            kind = asked[c].kind /\ seen = asked[c].seen /\ what = asked[c].what
    BY <1>2
  <2>2. /\ Changed(kind, seen, what) \in Context
        /\ Changed(kind, seen, what).phase = IF kind = "confirm" THEN "scope_confirmed"
                                            ELSE IF kind = "package" THEN "completed" ELSE seen.phase
    BY ChangedShape
  <2>3. QED
    BY <2>1, <2>2
<1>4. reviews \in Seq(Review)
  BY <1>0 DEF ReviewTypeOK
<1> HIDE DEF context
<1>5. /\ reviews' \in Seq(Review) /\ DOMAIN reviews' = DOMAIN reviews
      /\ \A m \in DOMAIN reviews : /\ m # n => reviews'[m] = reviews[m]
                                   /\ reviews'[m].log = reviews[m].log /\ reviews'[m].given = reviews[m].given
      /\ reviews'[n].context = context
  BY <1>1, <1>2, <1>3, <1>4, ContextShape
<1>6. PICK now \in Underway \cup {NoRequest} :
        /\ asked' = [asked EXCEPT ![c] = now]
        /\ asked[c].kind = "package" => now = NoRequest
        /\ asked[c].kind # "package" =>
              now = [at |-> "append", kind |-> asked[c].kind, review |-> n, seen |-> asked[c].seen, what |-> asked[c].what]
  <2>1. CASE asked[c].kind = "package"
    BY <1>1, <2>1 DEF Leaves
  <2>2. CASE asked[c].kind # "package"
    <3>1. PICK now : /\ now = [at |-> "append", kind |-> asked[c].kind, review |-> n, seen |-> asked[c].seen, what |-> asked[c].what]
                     /\ asked' = [asked EXCEPT ![c] = now]
      BY <1>0, <1>1, <1>2, <2>2, GoesShape
    <3>2. now \in Underway
      BY <1>2, <2>2, <3>1 DEF Underway
    <3>3. QED
      BY <2>2, <3>1, <3>2
  <2>3. QED
    BY <2>1, <2>2
<1>7. /\ asked[c].kind # "package" => /\ now.at = "append" /\ now.kind = asked[c].kind /\ now.review = n /\ now # NoRequest
                                      /\ now.seen = asked[c].seen /\ now.what = asked[c].what
      /\ now.at \in {"none", "append"}
      /\ now # NoRequest => now.review \in DOMAIN reviews' /\ asked[c].kind # "package"
  BY <1>2, <1>5, <1>6 DEF NoRequest
<1>8. /\ asked' \in [Client -> Underway \cup {NoRequest}] /\ asked'[c] = now
      /\ \A d \in Client : d # c => asked'[d] = asked[d]
      /\ \A d \in Client : asked'[d] # NoRequest => asked'[d].review \in DOMAIN reviews'
  BY <1>0, <1>5, <1>6, <1>7, AskedType
<1>9. ReviewTypeOK'
  BY <1>0, <1>1, <1>5, <1>8 DEF ReviewTypeOK
<1>10. LogsInv'
  <2>1. context.phase = "completed" /\ n \notin torn => HasPackage(reviews[n].log)
    BY <1>0, <1>1, <1>2, <1>3 DEF TellInv, PackagesAtHand
  <2>2. QED
    BY <1>0, <1>1, <1>2, <1>3, <1>4, <2>1, OtherContext
<1>11. BridgeAnswers'
  BY <1>0, <1>1, <1>7, <1>8, BridgeRests
<1>12. RefusedForFiles'
  BY <1>0, <1>1 DEF RefusedForFiles
<1>13. TellInv'
  <2>0. WritersApart /\ RequestsTell /\ PackagesAtHand /\ ContextsTell
    BY <1>0 DEF TellInv
  <2>1. /\ \A d \in Client : \A m : d # c => (Writes(d, m)' <=> Writes(d, m))
        /\ \A m : Writes(c, m) <=> m = n
        /\ \A m : Writes(c, m)' <=> (m = n /\ asked[c].kind # "package")
    BY <1>1, <1>2, <1>6, <1>7, <1>8 DEF Writes, NoRequest
  <2>2. WritersApart'
    BY <1>1, <1>5, <2>0, <2>1 DEF WritersApart
  <2>3. n \notin muddled =>
          Tells(reviews[n].log, reviews[n].given, IF asked[c].kind = "package" THEN context ELSE asked[c].seen)
    BY <1>1, <1>2, <2>0 DEF RequestsTell, ReviewTold, context
  <2>4. ContextsTell'
    <3>1. ASSUME NEW m \in DOMAIN reviews, m \notin muddled, ~BeingWritten(m)'
          PROVE  Tells(reviews'[m].log, reviews'[m].given, reviews'[m].context)
      <4>1. CASE m = n
        BY <1>5, <2>1, <2>3, <3>1, <4>1 DEF BeingWritten
      <4>2. CASE m # n
        <5>1. ~BeingWritten(m)
          BY <2>1, <3>1, <4>2 DEF BeingWritten
        <5>2. QED
          BY <1>5, <2>0, <3>1, <4>2, <5>1 DEF ContextsTell
      <4>3. QED
        BY <4>1, <4>2
    <3>2. QED
      BY <1>1, <1>5, <3>1 DEF ContextsTell
  <2>5. PackagesAtHand'
    BY <1>0, <1>1, <1>5, <1>6, <1>7, <1>8, <2>0, JobShape DEF PackagesAtHand
  <2>6. RequestsTell'
    <3>1. ASSUME asked[c].kind # "package", n \notin muddled PROVE ReviewTold(now, reviews'[n])
      BY <1>5, <1>7, <2>3, <3>1 DEF ReviewTold, context
    <3>2. ASSUME NEW d \in Client, d # c, asked[d] # NoRequest, asked[d].review \notin muddled
          PROVE  ReviewTold(asked[d], reviews'[asked[d].review])
      <4>1. asked[d].review \in DOMAIN reviews /\ ReviewTold(asked[d], reviews[asked[d].review])
        BY <1>0, <2>0, <3>2, JobShape DEF RequestsTell
      <4>2. CASE asked[d].review = n
        <5>1. ~Writes(d, n)
          BY <1>2, <2>0, <2>1, <3>2, <4>2 DEF WritersApart
        <5>2. QED
          BY <4>2, <5>1 DEF ReviewTold, Writes
      <4>3. CASE asked[d].review # n
        BY <1>5, <4>1, <4>3
      <4>4. QED
        BY <4>2, <4>3
    <3>3. QED
      BY <1>1, <1>7, <1>8, <3>1, <3>2 DEF RequestsTell
  <2>7. QED
    BY <2>2, <2>4, <2>5, <2>6 DEF TellInv
<1>14. QED
  BY <1>9, <1>10, <1>11, <1>12, <1>13 DEF ReviewInv

\* What a request says at its end.
LEMMA SaidShape ==
    ASSUME NEW kind \in {"confirm", "trade"}, NEW what, kind = "trade" => what \in Focus, NEW e, e = Said(kind, what)
    PROVE  /\ e \in SessionEvent
           /\ e.kind = IF kind = "confirm" THEN "review_scope_confirmed" ELSE "review_session_ready"
           /\ PhaseOf(e) = IF kind = "confirm" THEN "scope_confirmed" ELSE "none"
           /\ FocusOf(e) = IF kind = "confirm" THEN NoFocus ELSE what
<1>1. CASE kind = "confirm"
  <2>1. e = [kind |-> "review_scope_confirmed"]
    BY <1>1 DEF Said
  <2>2. QED
    BY <1>1, <2>1 DEF SessionEvent, PhaseOf, FocusOf
<1>2. CASE kind = "trade"
  <2>1. e = [kind |-> "review_session_ready", trade |-> what]
    BY <1>2 DEF Said
  <2>2. QED
    BY <1>2, <2>1 DEF SessionEvent, PhaseOf, FocusOf
<1>3. QED
  BY <1>1, <1>2

LEMMA AppendKeeps == ASSUME ReviewInv, NEW c \in Client, append_event(c) PROVE ReviewInv'
<1>0. ReviewTypeOK /\ TellInv /\ LogsInv /\ BridgeAnswers /\ RefusedForFiles
  BY DEF ReviewInv
<1>00. WritersApart /\ RequestsTell /\ PackagesAtHand /\ ContextsTell
  BY <1>0 DEF TellInv
<1>1. /\ asked[c].at = "append" /\ Tell(asked[c].review, Said(asked[c].kind, asked[c].what))
      /\ IF asked[c].kind = "confirm" /\ sidecar # "none" THEN Goes(c, "handshake") ELSE Leaves(c)
      /\ UNCHANGED <<sidecar, answers, requests, breaks, muddled, torn, refused, agreed, crossed>>
  BY DEF append_event
<1>2. /\ asked[c] # NoRequest /\ asked[c].review \in DOMAIN reviews /\ asked[c].review \in Nat
      /\ asked[c].kind \in {"confirm", "trade"} /\ asked[c].seen \in Context
      /\ asked[c].kind = "confirm" => asked[c].what = NoFocus
      /\ asked[c].kind = "trade" => asked[c].what \in Focus
  BY <1>0, <1>1, JobShape DEF NoRequest
<1>3. PICK n \in DOMAIN reviews, kind \in {"confirm", "trade"}, seen \in Context, what \in Focus \cup {NoFocus} :
        n = asked[c].review /\ kind = asked[c].kind /\ seen = asked[c].seen /\ what = asked[c].what
  BY <1>2
<1>4. PICK e : e = Said(kind, what)
  OBVIOUS
<1>5. /\ kind = "confirm" => what = NoFocus
      /\ kind = "trade" => what \in Focus /\ what # NoFocus
  BY <1>2, <1>3, ReviewAssumption
<1>6. /\ e \in SessionEvent
      /\ e.kind = IF kind = "confirm" THEN "review_scope_confirmed" ELSE "review_session_ready"
      /\ PhaseOf(e) = IF kind = "confirm" THEN "scope_confirmed" ELSE "none"
      /\ FocusOf(e) = IF kind = "confirm" THEN NoFocus ELSE what
  BY <1>4, <1>5, SaidShape
<1>7. Tell(n, e)
  BY <1>1, <1>3, <1>4
<1>8. reviews \in Seq(Review)
  BY <1>0 DEF ReviewTypeOK
<1>9. /\ reviews' \in Seq(Review) /\ DOMAIN reviews' = DOMAIN reviews
      /\ \A m \in DOMAIN reviews : m # n => reviews'[m] = reviews[m]
      /\ reviews'[n].context = reviews[n].context /\ reviews'[n].given = reviews[n].given
      /\ reviews'[n].log = Append(reviews[n].log, e)
  BY <1>6, <1>7, <1>8, TellShape
<1>10. PICK now \in Underway \cup {NoRequest} :
         /\ asked' = [asked EXCEPT ![c] = now]
         /\ now # NoRequest => now.at = "handshake" /\ now.review = n /\ now.kind = "confirm"
  <2>1. CASE kind = "confirm" /\ sidecar # "none"
    <3>1. PICK now : /\ now = [at |-> "handshake", kind |-> asked[c].kind, review |-> asked[c].review,
                               seen |-> asked[c].seen, what |-> asked[c].what]
                     /\ asked' = [asked EXCEPT ![c] = now]
      BY <1>0, <1>1, <1>2, <1>3, <2>1, GoesShape
    <3>2. now = [at |-> "handshake", kind |-> "confirm", review |-> n, seen |-> seen, what |-> NoFocus]
      BY <1>3, <1>5, <2>1, <3>1
    <3>3. now \in Underway
      BY <1>2, <1>3, <3>2 DEF Underway
    <3>4. now.at = "handshake" /\ now.review = n /\ now.kind = "confirm"
      BY <3>2
    <3>5. QED
      BY <3>1, <3>3, <3>4
  <2>2. CASE ~(kind = "confirm" /\ sidecar # "none")
    BY <1>1, <1>3, <2>2 DEF Leaves
  <2>3. QED
    BY <2>1, <2>2
<1>11. now.at \in {"none", "handshake"}
  BY <1>10 DEF NoRequest
<1>12. now # NoRequest => now.review \in DOMAIN reviews'
  BY <1>9, <1>10
<1>13. /\ asked' \in [Client -> Underway \cup {NoRequest}] /\ asked'[c] = now
       /\ \A d \in Client : d # c => asked'[d] = asked[d]
       /\ \A d \in Client : asked'[d] # NoRequest => asked'[d].review \in DOMAIN reviews'
  BY <1>0, <1>9, <1>10, <1>12, AskedType
<1>14. ReviewTypeOK'
  BY <1>0, <1>1, <1>9, <1>13 DEF ReviewTypeOK
<1>15. LogsInv'
  <2>1. IsSound(e, n)'
    BY <1>6 DEF IsSound
  <2>2. QED
    BY <1>0, <1>1, <1>6, <1>7, <1>8, <2>1, LongerLogs
<1>16. BridgeAnswers'
  BY <1>0, <1>1, <1>11, <1>13, BridgeRests
<1>17. RefusedForFiles'
  BY <1>0, <1>1 DEF RefusedForFiles
<1>18. TellInv'
  <2>1. /\ \A d \in Client : \A m : d # c => (Writes(d, m)' <=> Writes(d, m))
        /\ \A m : Writes(c, m) <=> m = n
        /\ \A m : ~Writes(c, m)'
    BY <1>1, <1>3, <1>11, <1>13 DEF Writes
  <2>2. WritersApart'
    BY <1>1, <1>9, <1>00, <2>1 DEF WritersApart
  <2>3. ASSUME n \notin muddled PROVE Tells(reviews'[n].log, reviews'[n].given, reviews'[n].context)
    <3>1. ReviewTold(asked[c], reviews[n])
      BY <1>00, <1>2, <1>3, <2>3 DEF RequestsTell
    <3>2. reviews[n].context = Changed(kind, seen, what) /\ Tells(reviews[n].log, reviews[n].given, seen)
      BY <1>1, <1>3, <3>1 DEF ReviewTold
    <3>3. PICK context : context = Changed(kind, seen, what)
      OBVIOUS
    <3>4. what \in Focus \cup {NoFocus}
      BY <1>5
    <3>5. /\ context \in Context
          /\ context.confirmed = (seen.confirmed \/ kind = "confirm")
          /\ context.phase = IF kind = "confirm" THEN "scope_confirmed" ELSE seen.phase
          /\ context.focus = IF kind = "trade" THEN what ELSE seen.focus
      BY <3>3, <3>4, ChangedShape
    <3>6. reviews[n].log \in Seq(SessionEvent)
      BY <1>8, ReviewShape
    <3>7. context.confirmed <=> (seen.confirmed \/ e.kind = "review_scope_confirmed")
      BY <1>6, <3>5
    <3>8. context.phase = IF PhaseOf(e) = "none" THEN seen.phase ELSE PhaseOf(e)
      BY <1>6, <3>5
    <3>9. context.focus = IF FocusOf(e) = NoFocus THEN seen.focus ELSE FocusOf(e)
      BY <1>5, <1>6, <3>5
    <3>10. PICK log, given : log = reviews[n].log /\ given = reviews[n].given
      OBVIOUS
    <3>11. Tells(Append(log, e), given, context)
      BY <1>6, <3>2, <3>5, <3>6, <3>7, <3>8, <3>9, <3>10, TellsNext
    <3>12. QED
      BY <1>9, <3>2, <3>3, <3>10, <3>11
  <2>4. ContextsTell'
    <3>1. ASSUME NEW m \in DOMAIN reviews, m \notin muddled, ~BeingWritten(m)'
          PROVE  Tells(reviews'[m].log, reviews'[m].given, reviews'[m].context)
      <4>1. CASE m = n
        BY <2>3, <3>1, <4>1
      <4>2. CASE m # n
        <5>1. ~BeingWritten(m)
          BY <2>1, <3>1, <4>2 DEF BeingWritten
        <5>2. QED
          BY <1>9, <1>00, <3>1, <4>2, <5>1 DEF ContextsTell
      <4>3. QED
        BY <4>1, <4>2
    <3>2. QED
      BY <1>1, <1>9, <3>1 DEF ContextsTell
  <2>5. PackagesAtHand'
    <3>1. \A m \in DOMAIN reviews : HasPackage(reviews[m].log) => HasPackage(reviews'[m].log)
      BY <1>6, <1>7, <1>8, PackageStays
    <3>2. ASSUME NEW d \in Client, d # c, asked[d] # NoRequest
          PROVE  /\ asked[d].kind = "package" => HasPackage(reviews'[asked[d].review].log)
                 /\ asked[d].at = "update" /\ asked[d].seen.phase = "completed" /\ asked[d].review \notin torn
                    => HasPackage(reviews'[asked[d].review].log)
      <4>1. asked[d].review \in DOMAIN reviews
        BY <1>0, <3>2, JobShape
      <4>2. QED
        BY <1>00, <3>1, <3>2, <4>1 DEF PackagesAtHand
    <3>3. QED
      BY <1>1, <1>10, <1>11, <1>13, <3>2 DEF PackagesAtHand
  <2>6. RequestsTell'
    <3>1. ASSUME NEW d \in Client, d # c, asked[d] # NoRequest, asked[d].review \notin muddled
          PROVE  ReviewTold(asked[d], reviews'[asked[d].review])
      <4>1. asked[d].review \in DOMAIN reviews /\ ReviewTold(asked[d], reviews[asked[d].review])
        BY <1>0, <1>00, <3>1, JobShape DEF RequestsTell
      <4>2. CASE asked[d].review = n
        <5>1. ~Writes(d, n)
          BY <1>00, <2>1, <3>1, <4>2 DEF WritersApart
        <5>2. QED
          BY <4>2, <5>1 DEF ReviewTold, Writes
      <4>3. CASE asked[d].review # n
        BY <1>9, <4>1, <4>3
      <4>4. QED
        BY <4>2, <4>3
    <3>2. \A r : ReviewTold(now, r)
      BY <1>11 DEF ReviewTold
    <3>3. QED
      BY <1>1, <1>13, <3>1, <3>2 DEF RequestsTell
  <2>7. QED
    BY <2>2, <2>4, <2>5, <2>6 DEF TellInv
<1>19. QED
  BY <1>14, <1>15, <1>16, <1>17, <1>18 DEF ReviewInv

\* What is sound stays so where the sidecar agrees to more.
LEMMA LogsStay ==
    ASSUME LogsInv, UNCHANGED <<reviews, torn>>, agreed \subseteq agreed', crossed => crossed' PROVE LogsInv'
<1>1. ForksAreLater' /\ CompletedHavePackages' /\ ForksContinue'
  BY DEF LogsInv, ForksAreLater, CompletedHavePackages, ForksContinue
<1>2. ASSUME NEW n \in DOMAIN reviews, NEW i \in reviews[n].copied + 1 .. Len(reviews[n].log)
      PROVE  IsSound(reviews[n].log[i], n)'
  <2>1. PICK entry : entry = reviews[n].log[i]
    OBVIOUS
  <2>2. IsSound(entry, n)
    BY <2>1 DEF LogsInv, EventsAreSound
  <2>3. IsSound(entry, n)'
    BY <2>2, SoundLonger
  <2>4. QED
    BY <2>1, <2>3 DEF IsSound
<1>3. EventsAreSound'
  BY <1>2 DEF EventsAreSound
<1>4. QED
  BY <1>1, <1>3 DEF LogsInv

\* A request at the bridge goes on to another place there.
LEMMA BridgeMove ==
    ASSUME ReviewTypeOK, TellInv, NEW c \in Client, NEW at, Goes(c, at), UNCHANGED <<reviews, muddled, torn>>,
           asked[c].at \in {"handshake", "answer", "subscribe", "subscribed"},
           at \in {"answer", "subscribe", "subscribed", "connected", "failed"}
    PROVE  /\ TellInv' /\ asked' \in [Client -> Underway \cup {NoRequest}]
           /\ \A d \in Client : d # c => asked'[d] = asked[d]
           /\ \A d \in Client : asked'[d] # NoRequest => asked'[d].review \in DOMAIN reviews'
           /\ asked'[c].at = at /\ asked'[c].review = asked[c].review
<1>1. /\ asked[c] # NoRequest /\ asked[c].review \in DOMAIN reviews /\ asked[c].review \in Nat
      /\ asked[c].kind = "confirm" /\ asked[c].seen \in Context /\ asked[c].what = NoFocus
  BY JobShape DEF NoRequest
<1>2. PICK now : /\ now = [at |-> at, kind |-> asked[c].kind, review |-> asked[c].review,
                           seen |-> asked[c].seen, what |-> asked[c].what]
                 /\ asked' = [asked EXCEPT ![c] = now]
  BY <1>1, GoesShape
<1>3. now \in Underway
  BY <1>1, <1>2 DEF Underway
<1>4. now.at = at /\ now.kind = "confirm" /\ now.review = asked[c].review
  BY <1>1, <1>2
<1>5. /\ asked' \in [Client -> Underway \cup {NoRequest}] /\ asked'[c] = now
      /\ \A d \in Client : d # c => asked'[d] = asked[d]
      /\ \A d \in Client : asked'[d] # NoRequest => asked'[d].review \in DOMAIN reviews'
  BY <1>1, <1>2, <1>3, <1>4, AskedType
<1>6. TellInv'
  BY <1>4, <1>5, BridgeTell
<1>7. QED
  BY <1>4, <1>5, <1>6

LEMMA WriteKeeps == ASSUME ReviewInv, NEW c \in Client, _write(c) PROVE ReviewInv'
<1> DEFINE at == IF asked[c].at = "handshake" THEN "answer" ELSE "subscribed"
<1>0. ReviewTypeOK /\ TellInv /\ LogsInv /\ BridgeAnswers /\ RefusedForFiles
  BY DEF ReviewInv
<1>1. /\ asked[c].at \in {"handshake", "subscribe"} /\ crossed' = (crossed \/ Waiting # {})
      /\ UNCHANGED <<reviews, requests, breaks, muddled, torn, refused>>
  BY DEF _write
<1>2. \/ /\ sidecar = "up" /\ Goes(c, at) /\ UNCHANGED sidecar
         /\ \E ok \in BOOLEAN :
                /\ answers' = Append(answers, ok)
                /\ agreed' = IF ok /\ asked[c].at = "handshake" THEN agreed \cup {asked[c].review} ELSE agreed
      \/ sidecar = "up" /\ sidecar' = "down" /\ Goes(c, at) /\ UNCHANGED <<answers, agreed>>
      \/ sidecar = "down" /\ Goes(c, "failed") /\ UNCHANGED <<sidecar, answers, agreed>>
  BY DEF _write
<1>3. asked[c] # NoRequest /\ asked[c].review \in DOMAIN reviews
  BY <1>0, <1>1, JobShape DEF NoRequest
<1>4. PICK to \in {"answer", "subscribed", "failed"} : Goes(c, to) /\ (to # "failed" => to = at)
  BY <1>2
<1>5. /\ TellInv' /\ asked' \in [Client -> Underway \cup {NoRequest}]
      /\ \A d \in Client : d # c => asked'[d] = asked[d]
      /\ \A d \in Client : asked'[d] # NoRequest => asked'[d].review \in DOMAIN reviews'
      /\ asked'[c].at = to /\ asked'[c].review = asked[c].review
  BY <1>0, <1>1, <1>4, BridgeMove
<1>6. /\ sidecar' \in {"up", "down"} /\ answers' \in Seq(BOOLEAN) /\ agreed \subseteq agreed' /\ agreed' \subseteq DOMAIN reviews
      /\ crossed' \in BOOLEAN /\ (crossed => crossed')
  <2>1. answers \in Seq(BOOLEAN) /\ agreed \subseteq DOMAIN reviews /\ crossed \in BOOLEAN
    BY <1>0 DEF ReviewTypeOK
  <2>2. sidecar' \in {"up", "down"} /\ agreed \subseteq agreed' /\ agreed' \subseteq DOMAIN reviews
    BY <1>2, <1>3, <2>1
  <2>3. answers' \in Seq(BOOLEAN)
    BY <1>2, <2>1
  <2>4. crossed' \in BOOLEAN /\ (crossed => crossed')
    BY <1>1, <2>1
  <2>5. QED
    BY <2>2, <2>3, <2>4
<1>7. ReviewTypeOK'
  BY <1>0, <1>1, <1>5, <1>6 DEF ReviewTypeOK
<1>8. LogsInv'
  BY <1>0, <1>1, <1>6, LogsStay
<1>9. RefusedForFiles'
  BY <1>0, <1>1 DEF RefusedForFiles
<1>10. BridgeAnswers'
  <2>1. ASSUME ~crossed' PROVE ~crossed /\ Waiting = {} /\ answers = << >>
    BY <1>0, <1>1, <2>1 DEF BridgeAnswers, ReviewTypeOK
  <2>2. ASSUME ~crossed' PROVE \A d \in Waiting' : d = c
    <3>1. SUFFICES ASSUME NEW d \in Client, asked'[d].at \in {"answer", "subscribed"}, d # c PROVE FALSE
      BY DEF Waiting
    <3>2. d \in Waiting
      BY <1>5, <3>1 DEF Waiting
    <3>3. QED
      BY <2>1, <2>2, <3>2
  <2>3. ASSUME ~crossed', NEW d \in Client, asked'[d].at \in {"subscribe", "subscribed", "connected"}
        PROVE  asked'[d].review \in agreed'
    <3>1. \A x \in Client : asked[x].at \in {"subscribe", "subscribed", "connected"} => asked[x].review \in agreed
      BY <1>0, <2>1, <2>3 DEF BridgeAnswers
    <3>2. CASE d = c
      <4>1. to = "subscribed" /\ asked[c].at = "subscribe"
        BY <1>1, <1>4, <1>5, <2>3, <3>2
      <4>2. QED
        BY <1>5, <1>6, <3>1, <3>2, <4>1
    <3>3. CASE d # c
      BY <1>5, <1>6, <2>3, <3>1, <3>3
    <3>4. QED
      BY <3>2, <3>3
  <2>4. CASE answers' = << >>
    <3>1. ASSUME ~crossed' PROVE Len(answers') <= 1 /\ \A d, x \in Waiting' : d = x
      BY <2>2, <2>4, <3>1
    <3>2. QED
      BY <2>3, <2>4, <3>1 DEF BridgeAnswers
  <2>5. CASE answers' # << >>
    <3>1. ASSUME ~crossed'
          PROVE  \E ok \in BOOLEAN : /\ answers' = << ok >> /\ to = at
                                     /\ agreed' = IF ok /\ asked[c].at = "handshake" THEN agreed \cup {asked[c].review} ELSE agreed
      <4>1. answers = << >>
        BY <2>1, <3>1
      <4>2. PICK ok \in BOOLEAN :
                /\ answers' = Append(answers, ok) /\ Goes(c, at)
                /\ agreed' = IF ok /\ asked[c].at = "handshake" THEN agreed \cup {asked[c].review} ELSE agreed
        BY <1>2, <2>5, <4>1
      <4>3. answers' = << ok >>
        BY <4>1, <4>2
      <4>4. asked'[c].at = at
        BY <1>0, <1>3, <4>2 DEF Goes, ReviewTypeOK
      <4>5. QED
        BY <1>5, <4>2, <4>3, <4>4
    <3>2. ASSUME ~crossed' PROVE Len(answers') <= 1 /\ c \in Waiting'
      <4>1. PICK ok \in BOOLEAN : answers' = << ok >> /\ to = at
        BY <3>1, <3>2
      <4>2. c \in Waiting'
        BY <1>5, <4>1 DEF Waiting
      <4>3. QED
        BY <4>1, <4>2
    <3>3. ASSUME ~crossed', NEW d \in Client, asked'[d].at = "answer", Head(answers')
          PROVE  asked'[d].review \in agreed'
      <4>1. PICK ok \in BOOLEAN : /\ answers' = << ok >> /\ to = at
                                  /\ agreed' = IF ok /\ asked[c].at = "handshake" THEN agreed \cup {asked[c].review} ELSE agreed
        BY <3>1, <3>3
      <4>2. d = c
        BY <2>2, <3>3 DEF Waiting
      <4>0. Head(<< ok >>) = ok
        OBVIOUS
      <4>3. ok /\ asked[c].at = "handshake"
        <5>1. ok
          BY <3>3, <4>0, <4>1
        <5>2. to = "answer"
          BY <1>5, <3>3, <4>2
        <5>3. QED
          BY <4>1, <5>1, <5>2
      <4>4. QED
        BY <1>5, <4>1, <4>2, <4>3
    <3>4. QED
      BY <2>2, <2>3, <2>5, <3>2, <3>3 DEF BridgeAnswers
  <2>6. QED
    BY <2>4, <2>5
<1>11. QED
  BY <1>5, <1>7, <1>8, <1>9, <1>10 DEF ReviewInv

LEMMA ReadKeeps == ASSUME ReviewInv, NEW c \in Client, _read(c) PROVE ReviewInv'
<1>0. ReviewTypeOK /\ TellInv /\ LogsInv /\ BridgeAnswers /\ RefusedForFiles
  BY DEF ReviewInv
<1>1. /\ c \in Waiting /\ UNCHANGED <<reviews, sidecar, requests, breaks, muddled, torn, refused, agreed, crossed>>
      /\ \/ /\ answers # << >> /\ answers' = Tail(answers)
            /\ Goes(c, IF ~Head(answers) THEN "failed" ELSE IF asked[c].at = "answer" THEN "subscribe" ELSE "connected")
         \/ answers = << >> /\ Goes(c, "failed") /\ UNCHANGED answers
  BY DEF _read
<1>2. asked[c].at \in {"answer", "subscribed"}
  BY <1>1 DEF Waiting
<1>3. answers \in Seq(BOOLEAN)
  BY <1>0 DEF ReviewTypeOK
<1>4. PICK to \in {"subscribe", "connected", "failed"} :
        /\ Goes(c, to)
        /\ to # "failed" => /\ answers # << >> /\ Head(answers)
                            /\ to = IF asked[c].at = "answer" THEN "subscribe" ELSE "connected"
  BY <1>1
<1>5. /\ TellInv' /\ asked' \in [Client -> Underway \cup {NoRequest}]
      /\ \A d \in Client : d # c => asked'[d] = asked[d]
      /\ \A d \in Client : asked'[d] # NoRequest => asked'[d].review \in DOMAIN reviews'
      /\ asked'[c].at = to /\ asked'[c].review = asked[c].review
  BY <1>0, <1>1, <1>2, <1>4, BridgeMove
<1>6. answers' \in Seq(BOOLEAN)
  <2>1. answers # << >> => Tail(answers) \in Seq(BOOLEAN)
    BY <1>3, HeadTailProperties
  <2>2. QED
    BY <1>1, <1>3, <2>1
<1>7. ReviewTypeOK'
  BY <1>0, <1>1, <1>5, <1>6 DEF ReviewTypeOK
<1>8. LogsInv'
  BY <1>0, <1>1, LogsStay
<1>9. RefusedForFiles'
  BY <1>0, <1>1 DEF RefusedForFiles
<1>10. BridgeAnswers'
  <2>1. ASSUME ~crossed'
        PROVE  /\ \A d \in Waiting : d = c
               /\ Len(answers) <= 1
               /\ asked[c].at = "answer" /\ answers # << >> /\ Head(answers) => asked[c].review \in agreed
               /\ \A d \in Client : asked[d].at \in {"subscribe", "subscribed", "connected"} => asked[d].review \in agreed
    <3>1. ~crossed
      BY <1>1, <2>1
    <3>2. QED
      BY <1>0, <1>1, <3>1 DEF BridgeAnswers, Waiting
  <2>2. ASSUME ~crossed' PROVE Waiting' = {} /\ answers' = << >>
    <3>1. \A d \in Client : asked'[d].at \notin {"answer", "subscribed"}
      BY <1>5, <2>1, <2>2 DEF Waiting
    <3>2. answers' = << >>
      <4>1. CASE answers = << >>
        BY <1>1, <4>1
      <4>2. CASE answers # << >>
        <5>1. Len(answers) \in Nat /\ Len(answers) # 0 /\ Len(answers) <= 1
          BY <1>3, <2>1, <2>2, <4>2, EmptySeq
        <5>0. Len(Tail(answers)) = Len(answers) - 1 /\ Tail(answers) \in Seq(BOOLEAN)
          BY <1>3, <4>2, HeadTailProperties
        <5>2. Len(Tail(answers)) = 0 /\ Tail(answers) \in Seq(BOOLEAN)
          BY <5>0, <5>1
        <5>3. answers' = Tail(answers)
          BY <1>1, <4>2
        <5>4. QED
          BY <5>2, <5>3, EmptySeq
      <4>3. QED
        BY <4>1, <4>2
    <3>3. QED
      BY <3>1, <3>2 DEF Waiting
  <2>3. ASSUME ~crossed', NEW d \in Client, asked'[d].at \in {"subscribe", "subscribed", "connected"}
        PROVE  asked'[d].review \in agreed'
    <3>1. CASE d = c
      BY <1>1, <1>2, <1>4, <1>5, <2>1, <2>3, <3>1
    <3>2. CASE d # c
      BY <1>1, <1>5, <2>1, <2>3, <3>2
    <3>3. QED
      BY <3>1, <3>2
  <2>4. Len(<< >>) <= 1
    OBVIOUS
  <2>5. ASSUME ~crossed'
        PROVE  /\ \A d, x \in Waiting' : d = x
               /\ Len(answers') <= 1 /\ answers' = << >>
    BY <2>2, <2>4, <2>5
  <2>6. QED
    BY <2>3, <2>5 DEF BridgeAnswers
<1>11. QED
  BY <1>5, <1>7, <1>8, <1>9, <1>10 DEF ReviewInv

LEMMA ConnectedKeeps == ASSUME ReviewInv, NEW c \in Client, Connected(c) PROVE ReviewInv'
<1>0. ReviewTypeOK /\ TellInv /\ LogsInv /\ BridgeAnswers /\ RefusedForFiles
  BY DEF ReviewInv
<1>1. /\ asked[c].at \in {"connected", "failed"} /\ Leaves(c)
      /\ Tell(asked[c].review, [kind |-> IF asked[c].at = "connected" THEN "sidecar_connected" ELSE "terminal"])
      /\ UNCHANGED <<sidecar, answers, requests, breaks, muddled, torn, refused, agreed, crossed>>
  BY DEF Connected
<1>2. asked[c] # NoRequest /\ asked[c].review \in DOMAIN reviews
  BY <1>0, <1>1, JobShape DEF NoRequest
<1>3. PICK n \in DOMAIN reviews : n = asked[c].review
  BY <1>2
<1>4. PICK e : e = [kind |-> IF asked[c].at = "connected" THEN "sidecar_connected" ELSE "terminal"]
  OBVIOUS
<1>5. /\ e \in SessionEvent /\ e.kind = (IF asked[c].at = "connected" THEN "sidecar_connected" ELSE "terminal")
      /\ PhaseOf(e) = "none" /\ FocusOf(e) = NoFocus
  BY <1>4 DEF SessionEvent, PhaseOf, FocusOf
<1>6. Tell(n, e)
  BY <1>1, <1>3, <1>4
<1>7. reviews \in Seq(Review)
  BY <1>0 DEF ReviewTypeOK
<1>8. reviews' \in Seq(Review) /\ DOMAIN reviews' = DOMAIN reviews
  BY <1>0, <1>5, <1>6, TellType
<1>9. asked' = [asked EXCEPT ![c] = NoRequest] /\ NoRequest \in Underway \cup {NoRequest}
  BY <1>1 DEF Leaves
<1>10. /\ asked' \in [Client -> Underway \cup {NoRequest}] /\ asked'[c] = NoRequest
       /\ \A d \in Client : d # c => asked'[d] = asked[d]
       /\ \A d \in Client : asked'[d] # NoRequest => asked'[d].review \in DOMAIN reviews'
  BY <1>0, <1>8, <1>9, AskedType
<1>11. ReviewTypeOK'
  BY <1>0, <1>1, <1>8, <1>10 DEF ReviewTypeOK
<1>12. LogsInv'
  <2>1. asked[c].at = "connected" => n \in agreed \/ crossed
    BY <1>0, <1>3 DEF BridgeAnswers
  <2>2. IsSound(e, n)'
    BY <1>1, <1>5, <2>1 DEF IsSound
  <2>3. QED
    BY <1>0, <1>1, <1>5, <1>6, <1>7, <2>2, LongerLogs
<1>13. TellInv'
  <2>1. e.kind # "review_scope_confirmed" /\ UNCHANGED <<muddled, torn>>
    BY <1>1, <1>5
  <2>2. \A d \in Client : \/ asked'[d] = asked[d]
                          \/ asked'[d] = NoRequest /\ asked[d].at \notin {"read", "update", "append"}
    BY <1>1, <1>10
  <2>3. QED
    BY <1>0, <1>5, <1>6, <2>1, <2>2, NeutralTell
<1>14. BridgeAnswers'
  <2>1. asked'[c].at = "none"
    BY <1>10 DEF NoRequest
  <2>2. QED
    BY <1>0, <1>1, <1>10, <2>1, BridgeRests
<1>15. RefusedForFiles'
  BY <1>0, <1>1 DEF RefusedForFiles
<1>16. QED
  BY <1>11, <1>12, <1>13, <1>14, <1>15 DEF ReviewInv

\* A kill ends what was under way, and what it was about is known to have been.
LEMMA BrokenKeeps == ASSUME ReviewInv, Broken PROVE ReviewInv'
<1> DEFINE halfway == {n \in DOMAIN reviews : BeingWritten(n)}
<1> DEFINE new == Len(reviews) + 1
<1>0. ReviewTypeOK /\ TellInv /\ LogsInv /\ BridgeAnswers /\ RefusedForFiles
  BY DEF ReviewInv
<1>1. /\ breaks < MaxBreaks /\ breaks' = breaks + 1
      /\ asked' = [c \in Client |-> NoRequest] /\ answers' = << >> /\ sidecar' \in {"none", "up"}
      /\ \/ UNCHANGED <<reviews, torn>> /\ muddled' = muddled \cup halfway
         \/ \E n \in DOMAIN reviews : \E copied \in 0 .. Len(reviews[n].log) :
              Fork(n, copied) /\ torn' = torn \cup {new} /\ muddled' = muddled \cup halfway \cup {new}
      /\ UNCHANGED <<requests, refused, agreed, crossed>>
  BY DEF Broken
<1>2. /\ reviews \in Seq(Review) /\ torn \subseteq muddled /\ muddled \subseteq DOMAIN reviews
      /\ agreed \subseteq DOMAIN reviews
  BY <1>0 DEF ReviewTypeOK
<1>3. /\ \A c \in Client : asked'[c] = NoRequest /\ asked'[c].at = "none"
      /\ asked' \in [Client -> Underway \cup {NoRequest}]
  BY <1>1 DEF NoRequest
<1>4. ASSUME NEW m \in DOMAIN reviews, m \notin muddled' PROVE Tells(reviews[m].log, reviews[m].given, reviews[m].context)
  <2>1. m \notin muddled /\ ~BeingWritten(m)
    BY <1>1, <1>4
  <2>2. QED
    BY <1>0, <2>1 DEF TellInv, ContextsTell
<1>5. BridgeAnswers'
  <2>1. Len(<< >>) <= 1
    OBVIOUS
  <2>2. Waiting' = {} /\ Len(answers') <= 1 /\ answers' = << >>
    BY <1>1, <1>3, <2>1 DEF Waiting
  <2>3. QED
    BY <1>3, <2>2 DEF BridgeAnswers
<1>6. RefusedForFiles'
  BY <1>0, <1>1 DEF RefusedForFiles
<1>7. breaks' \in 0 .. MaxBreaks
  BY <1>0, <1>1, ReviewAssumption DEF ReviewTypeOK
<1>8. WritersApart' /\ PackagesAtHand' /\ RequestsTell'
  BY <1>3 DEF WritersApart, PackagesAtHand, RequestsTell, Writes
<1>9. CASE UNCHANGED <<reviews, torn>> /\ muddled' = muddled \cup halfway
  <2>1. LogsInv'
    BY <1>0, <1>1, <1>9, LogsStay
  <2>2. ContextsTell'
    BY <1>4, <1>9 DEF ContextsTell
  <2>3. torn' \subseteq muddled' /\ muddled' \subseteq DOMAIN reviews'
    BY <1>2, <1>9
  <2>4. ReviewTypeOK'
    BY <1>0, <1>1, <1>3, <1>7, <1>9, <2>3 DEF ReviewTypeOK
  <2>5. QED
    BY <1>5, <1>6, <1>8, <2>1, <2>2, <2>4 DEF ReviewInv, TellInv
<1>10. CASE \E n \in DOMAIN reviews : \E copied \in 0 .. Len(reviews[n].log) :
              Fork(n, copied) /\ torn' = torn \cup {new} /\ muddled' = muddled \cup halfway \cup {new}
  <2>0. PICK n \in DOMAIN reviews : \E copied \in 0 .. Len(reviews[n].log) :
              Fork(n, copied) /\ torn' = torn \cup {new} /\ muddled' = muddled \cup halfway \cup {new}
    BY <1>10
  <2>1. PICK copied \in 0 .. Len(reviews[n].log) :
              Fork(n, copied) /\ torn' = torn \cup {new} /\ muddled' = muddled \cup halfway \cup {new}
    BY <2>0
  <2>2. PICK r \in Review :
              /\ reviews' = Append(reviews, r)
              /\ r.forked_from = n /\ r.copied = copied /\ Len(r.log) = copied
              /\ \A i \in 1 .. copied : r.log[i] = reviews[n].log[i]
    BY <1>2, <2>1, ForkShape
  <2>3. /\ reviews' \in Seq(Review) /\ DOMAIN reviews' = DOMAIN reviews \cup {new}
        /\ \A m \in DOMAIN reviews : reviews'[m] = reviews[m]
    BY <1>2, <2>2, NewShape
  <2>4. LogsInv'
    <3>1. copied <= Len(reviews[n].log) /\ torn \subseteq torn' /\ torn \subseteq DOMAIN reviews /\ new \in torn'
      BY <1>2, <2>1, ReviewShape
    <3>2. QED
      BY <1>0, <1>1, <1>2, <2>2, <3>1, NewLogs
  <2>5. ContextsTell'
    <3>1. ASSUME NEW m \in DOMAIN reviews', m \notin muddled'
          PROVE  Tells(reviews'[m].log, reviews'[m].given, reviews'[m].context)
      <4>1. m \in DOMAIN reviews
        BY <2>1, <2>3, <3>1
      <4>2. QED
        BY <1>4, <2>3, <3>1, <4>1
    <3>2. QED
      BY <3>1 DEF ContextsTell
  <2>6. torn' \subseteq muddled' /\ muddled' \subseteq DOMAIN reviews' /\ agreed' \subseteq DOMAIN reviews'
    BY <1>1, <1>2, <2>1, <2>3
  <2>7. ReviewTypeOK'
    BY <1>0, <1>1, <1>3, <1>7, <2>3, <2>6 DEF ReviewTypeOK
  <2>8. QED
    BY <1>5, <1>6, <1>8, <2>4, <2>5, <2>7 DEF ReviewInv, TellInv
<1>11. QED
  BY <1>1, <1>9, <1>10

LEMMA ReviewStepKeeps == ASSUME ReviewInv, [ReviewNext]_reviewVars PROVE ReviewInv'
<1>1. ASSUME NEW c \in Client, NEW n \in DOMAIN reviews,
             confirm_review_scope(c, n) \/ record_review_package(c, n) \/ review_from_trade(c, n)
      PROVE  ReviewInv'
  BY <1>1, ConfirmKeeps, PackageKeeps, TradeKeeps
<1>2. ASSUME NEW c \in Client,
             review_from_trade_new(c) \/ get_session(c) \/ update_session(c) \/ append_event(c)
      PROVE  ReviewInv'
  BY <1>2, NewTradeKeeps, GetKeeps, UpdateKeeps, AppendKeeps
<1>3. ASSUME NEW c \in Client, _write(c) \/ _read(c) \/ Connected(c) PROVE ReviewInv'
  BY <1>3, WriteKeeps, ReadKeeps, ConnectedKeeps
<1>4. ASSUME NEW n \in DOMAIN reviews, review_scope_preview(n) \/ record_challenger_proposal(n) \/ fork_session(n)
      PROVE  ReviewInv'
  BY <1>4, PreviewKeeps, ChallengerKeeps, ForkKeeps
<1>5. ASSUME create_session \/ Broken PROVE ReviewInv'
  BY <1>5, CreateKeeps, BrokenKeeps
<1>6. ASSUME UNCHANGED reviewVars PROVE ReviewInv'
  <2>0. ReviewTypeOK /\ TellInv /\ LogsInv /\ BridgeAnswers /\ RefusedForFiles
    BY DEF ReviewInv
  <2>1. UNCHANGED <<reviews, asked, sidecar, answers, requests, breaks, muddled, torn, refused, agreed, crossed>>
    BY <1>6 DEF reviewVars
  <2>2. ReviewTypeOK'
    BY <2>0, <2>1 DEF ReviewTypeOK
  <2>3. TellInv'
    BY <2>0, <2>1, BridgeTell
  <2>4. LogsInv'
    BY <2>0, <2>1, LogsStay
  <2>5. BridgeAnswers'
    BY <2>0, <2>1, BridgeRests
  <2>6. RefusedForFiles'
    BY <2>0, <2>1 DEF RefusedForFiles
  <2>7. QED
    BY <2>2, <2>3, <2>4, <2>5, <2>6 DEF ReviewInv
<1>7. QED
  BY <1>1, <1>2, <1>3, <1>4, <1>5, <1>6 DEF ReviewNext

LEMMA ReviewBegins == ASSUME ReviewInit PROVE ReviewInv
<1>1. /\ reviews = << >> /\ answers = << >> /\ requests = 0 /\ breaks = 0
      /\ muddled = {} /\ torn = {} /\ refused = {} /\ agreed = {} /\ crossed = FALSE
      /\ sidecar \in {"none", "up"} /\ asked = [c \in Client |-> NoRequest]
  BY DEF ReviewInit
<1>2. /\ reviews \in Seq(Review) /\ answers \in Seq(BOOLEAN) /\ DOMAIN reviews = {} /\ Len(answers) <= 1
  BY <1>1
<1>3. \A c \in Client : asked[c] = NoRequest /\ asked[c].at = "none"
  BY <1>1 DEF NoRequest
<1>4. ReviewTypeOK
  <2>1. asked \in [Client -> Underway \cup {NoRequest}]
    BY <1>1
  <2>2. requests \in 0 .. MaxAsked /\ breaks \in 0 .. MaxBreaks
    BY <1>1, ReviewAssumption
  <2>3. QED
    BY <1>1, <1>2, <1>3, <2>1, <2>2 DEF ReviewTypeOK
<1>5. TellInv
  BY <1>2, <1>3 DEF TellInv, WritersApart, RequestsTell, PackagesAtHand, ContextsTell
<1>6. LogsInv
  BY <1>2 DEF LogsInv, ForksAreLater, CompletedHavePackages, ForksContinue, EventsAreSound
<1>7. BridgeAnswers
  <2>1. Waiting = {}
    BY <1>3 DEF Waiting
  <2>2. QED
    BY <1>1, <1>2, <1>3, <2>1 DEF BridgeAnswers
<1>8. RefusedForFiles
  BY <1>1 DEF RefusedForFiles
<1>9. QED
  BY <1>4, <1>5, <1>6, <1>7, <1>8 DEF ReviewInv

LEMMA ReviewInvariant == ReviewSpec => []ReviewInv
<1>1. ReviewInit => ReviewInv
  BY ReviewBegins
<1>2. ReviewInv /\ [ReviewNext]_reviewVars => ReviewInv'
  BY ReviewStepKeeps
<1>3. QED
  BY <1>1, <1>2, PTL DEF ReviewSpec

-----------------------------------------------------------------------------
\* What the contracts of the two sides ask agrees, whatever is sent.
LEMMA OutboundIsReduced ==
    ASSUME NEW analysis \in Analyses, NEW leaf \in prepare_outbound(analysis).payload
    PROVE  Reduced(leaf) /\ LeafIsFine(leaf)
<1>1. CASE scan_for_attachments(analysis) # {}
  BY <1>1 DEF prepare_outbound, Blocked
<1>2. CASE scan_for_attachments(analysis) = {}
  <2>1. leaf \in redact_payload(analysis)
    BY <1>2 DEF prepare_outbound
  <2>2. PICK old \in analysis : leaf = RedactedLeaf(old)
    BY <2>1 DEF redact_payload
  <2>3. old \in Leaf /\ ~Unmaskable(old)
    BY <1>2, ReviewAssumption DEF scan_for_attachments
  <2>4. QED
    BY <2>2, <2>3, RedactionReduces, RedactionIsFine
<1>3. QED
  BY <1>1, <1>2

\* The adapters at hand answer for any envelope that has a time.
LEMMA AdaptersAnswer ==
    ASSUME NEW decision, _aware_timestamp(decision), decision \in Nat
    PROVE  validate_plugin_result(_build_result(decision), decision)
  BY DEF validate_plugin_result, _build_result, AllAreFine, _observation, _challenger, validate_source_time,
         validate_observation, validate_challenger_only_mutation, _aware_timestamp

LEMMA ContractsHold == ContractsAgree
<1>1. \A analysis \in Analyses :
          /\ \A leaf \in prepare_outbound(analysis).payload : Reduced(leaf) /\ LeafIsFine(leaf)
          /\ \A leaf \in analysis : Spells(RedactedLeaf(leaf)) <=> Spells(leaf) /\ MasksAt(leaf) = {}
  <2>1. \A analysis \in Analyses : \A leaf \in analysis : leaf \in Leaf
    BY ReviewAssumption
  <2>2. QED
    BY <2>1, OutboundIsReduced, SpelledOutStays
<1>2. ASSUME NEW raw \in Packages, CordisReviewRequest(raw.envelope), _aware_timestamp(raw.envelope.scope.decision)
      PROVE  Runs(raw.envelope)
  <2>1. raw.envelope.scope.decision \in Nat
    BY ReviewAssumption
  <2>2. QED
    BY <1>2, <2>1, AdaptersAnswer DEF Runs
<1>3. ASSUME NEW raw \in Packages, StructuredReviewPackage(raw), raw.review_id = raw.scope.review_id,
             validate_plugin_result([_build_result(raw.scope.decision) EXCEPT !.packages = {raw}], raw.scope.decision)
      PROVE  Recordable(raw, raw.review_id)
  <2>1. [_build_result(raw.scope.decision) EXCEPT !.packages = {raw}].packages = {raw}
    BY DEF _build_result
  <2>2. validate_redacted_payload(raw.envelope.payload) /\ AllAreFine(raw, raw.scope.decision)
    BY <1>3, <2>1 DEF validate_plugin_result
  <2>3. QED
    BY <1>3, <2>2 DEF Recordable
<1>4. QED
  BY <1>1, <1>2, <1>3 DEF ContractsAgree

\* However previews, confirmations, packages, forks and kills follow one another: contexts
\* are what their logs make of them, what is completed has a package on record, forks go
\* on from their sources, what is on record was checked, and the contracts agree.
THEOREM ReviewsStayOnRecord == ReviewSpec => []ReviewsAreOnRecord
<1>1. ReviewInv => ReviewsAreOnRecord
  <2>1. SUFFICES ASSUME ReviewInv PROVE ReviewsAreOnRecord
    OBVIOUS
  <2>2. ContextsTell /\ CompletedHavePackages /\ ForksContinue /\ EventsAreSound /\ RefusedForFiles
    BY <2>1 DEF ReviewInv, TellInv, LogsInv
  <2>3. QED
    BY <2>2, ContractsHold DEF ReviewsAreOnRecord
<1>2. QED
  BY <1>1, ReviewInvariant, PTL

-----------------------------------------------------------------------------
(* Any of them.  A step of the composition is a step of each, or leaves it *)
(* alone.                                                                  *)

\* Whichever keeper of records a behaviour is about, its state keeps its shape, for any
\* values of the constants of all of them.
THEOREM RecordsTypeCorrect == RecordsSpec => []RecordsTypeOK
<1>1. RecordsInit => Init /\ TenantInit /\ TraderInit /\ PackInit /\ LoopInit /\ IntakeInit /\ ReviewInit
  BY DEF RecordsInit
<1>2. [RecordsNext]_recordsVars =>
          /\ [Next]_vars /\ [TenantNext]_tenantVars /\ [TraderNext]_traderVars /\ [PackNext]_packVars
          /\ [LoopNext]_loopVars /\ [IntakeNext]_intakeVars /\ [ReviewNext]_reviewVars
  BY DEF RecordsNext, Rests, recordsVars
<1>3. RecordsSpec => [](TypeOK /\ TraderTypeOK /\ PackTypeOK /\ LoopTypeOK)
  BY <1>1, <1>2, LedgerTypeCorrect, TraderTypeCorrect, PackTypeCorrect, LoopTypeCorrect, PTL
  DEF RecordsSpec, Spec, TraderSpec, PackSpec, LoopSpec
<1>4. RecordsSpec => [](TenantInv /\ IntakeInv /\ ReviewInv)
  BY <1>1, <1>2, TenantInvariant, IntakeInvariant, ReviewInvariant, PTL
  DEF RecordsSpec, TenantSpec, IntakeSpec, ReviewSpec
<1>5. TypeOK /\ TraderTypeOK /\ PackTypeOK /\ LoopTypeOK /\ TenantTypeOK /\ IntakeTypeOK /\ ReviewTypeOK => RecordsTypeOK
  BY DEF RecordsTypeOK
<1>6. ReviewInv => ReviewTypeOK
  BY DEF ReviewInv
<1>7. QED
  BY <1>3, <1>4, <1>5, <1>6, TenantInvType, IntakeInvType, PTL
=============================================================================
