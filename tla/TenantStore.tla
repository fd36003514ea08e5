---------------------------- MODULE TenantStore ----------------------------
(***************************************************************************)
(* The two engines of the tenant store, statement by statement.            *)
(* sqlite_store.py has one connection behind a lock and upserts in one     *)
(* statement.  postgres_store.py has a connection in each server, behind a *)
(* lock of that server; the servers share the database (READ COMMITTED: a  *)
(* statement sees what is committed and what its own transaction wrote,    *)
(* and waits for a row that another transaction has written), and a row is *)
(* written by an UPDATE and, where it found none, by an INSERT.  What a    *)
(* row says is left out but for who wrote it, who created it and whether   *)
(* a trade has its name; reads, the schema and the market-wide table of    *)
(* symbols are left out; imports bring no names.                           *)
(***************************************************************************)
EXTENDS AtomicStore, Sequences

CONSTANTS Server,   \* the connections: servers, or threads of the only one
          Imports   \* sequences of identifiers a request may bring together

ASSUME TenantAssumption ==
    /\ Absent \notin [by : Nat, created : Nat, named : BOOLEAN]
    /\ Imports \subseteq Seq(Id) /\ Id # {} /\ MaxWrites \in Nat

VARIABLES engine, \* "sqlite" or "postgres"
          conn,   \* the transaction of each connection
          writes  \* writes begun so far

tenantVars == <<stored, audit_log, engine, conn, writes>>

NothingStaged == [id \in Id |-> Absent]

NoTransaction ==
    [phase |-> "idle", tenant |-> "none", table |-> "none", batch |-> << >>, n |-> 0,
     staged |-> NothingStaged, matched |-> {}, force |-> FALSE]

TenantInit ==
    /\ StoreInit
    /\ engine \in {"sqlite", "postgres"}
    /\ conn = [s \in Server |-> NoTransaction]
    /\ writes = 0

-----------------------------------------------------------------------------
\* A transaction takes the lock of its connection, of which SQLite has only one.
Begins(s) ==
    /\ conn[s].phase = "idle" /\ writes < MaxWrites
    /\ engine = "sqlite" => \A other \in Server : conn[other].phase = "idle"
    /\ writes' = writes + 1
    /\ UNCHANGED <<stored, audit_log, engine>>

Beginning(phase, u, t, batch, matched, force) ==
    [phase |-> phase, tenant |-> u, table |-> t, batch |-> batch, n |-> writes + 1,
     staged |-> NothingStaged, matched |-> matched, force |-> force]

\* Rows are written one after the other; an entry in the audit log ends them.
Transaction(s, u, t, batch) ==
    /\ Begins(s)
    /\ conn' = [conn EXCEPT ![s] = Beginning("update", u, t, batch, {}, FALSE)]

\* An unknown tenant is refused (_require_user); only create_user makes one known.
create_user(s, u) == Transaction(s, u, "users", <<Self>>)
insert_trades_(s, u) == Known(u) /\ \E batch \in Imports : Transaction(s, u, "trades", batch)
save_bars(s, u) == Known(u) /\ \E batch \in Imports : Transaction(s, u, "market_bars", batch)
upsert_account(s, u) == Known(u) /\ \E id \in Id : Transaction(s, u, "accounts", <<id>>)
save_backtest_run(s, u) == Known(u) /\ \E id \in Id : Transaction(s, u, "backtest_runs", <<id>>)
put_document(s, u) == Known(u) /\ \E id \in Id : Transaction(s, u, "tenant_documents", <<id>>)
audit(s, u) == Known(u) /\ Transaction(s, u, "audit_log", << >>)

Nameless(row, force) == row # Absent /\ (force \/ ~row.named)

\* The statement names the trades it finds; it may wait for some of them.
update_trade_names(s, u) ==
    /\ Begins(s)
    /\ \E force \in BOOLEAN :
        conn' = [conn EXCEPT ![s] =
            Beginning("names", u, "trades", << >>,
                      {id \in Id : Nameless(stored[u]["trades"][id], force)}, force)]

-----------------------------------------------------------------------------
Committed(s, id) == stored[conn[s].tenant][conn[s].table][id]
Seen(s, id) == IF conn[s].staged[id] # Absent THEN conn[s].staged[id] ELSE Committed(s, id)

\* No other transaction has written the row.
Unlocked(s, id) ==
    \A other \in Server \ {s} :
        /\ conn[other].phase # "idle"
        /\ conn[other].tenant = conn[s].tenant /\ conn[other].table = conn[s].table
        => conn[other].staged[id] = Absent

Advanced(s, phase, batch, staged) ==
    [phase |-> phase, tenant |-> conn[s].tenant, table |-> conn[s].table, batch |-> batch,
     n |-> conn[s].n, staged |-> staged, matched |-> conn[s].matched, force |-> conn[s].force]

Stage(s, id) ==
    /\ Unlocked(s, id)
    /\ conn' = [conn EXCEPT ![s] = Advanced(s, "update", Tail(conn[s].batch),
                    [conn[s].staged EXCEPT ![id] = Written(Seen(s, id), conn[s].n)])]

\* INSERT ... ON CONFLICT DO UPDATE.
Upserts(s) == engine = "sqlite" \/ conn[s].table = "tenant_documents"

UpsertRow(s) ==
    /\ conn[s].phase = "update" /\ conn[s].batch # << >> /\ Upserts(s)
    /\ Stage(s, Head(conn[s].batch))
    /\ UNCHANGED <<stored, audit_log, engine, writes>>

\* A row that another transaction has inserted and not committed is not found.
UpdateRow(s) ==
    /\ conn[s].phase = "update" /\ conn[s].batch # << >> /\ ~Upserts(s)
    /\ LET id == Head(conn[s].batch)
       IN  IF Seen(s, id) # Absent THEN Stage(s, id)
           ELSE conn' = [conn EXCEPT ![s] = Advanced(s, "insert", conn[s].batch, conn[s].staged)]
    /\ UNCHANGED <<stored, audit_log, engine, writes>>

\* A row that has appeared meanwhile violates the key: the transaction fails.
InsertRow(s) ==
    /\ conn[s].phase = "insert" /\ Committed(s, Head(conn[s].batch)) = Absent
    /\ Stage(s, Head(conn[s].batch))
    /\ UNCHANGED <<stored, audit_log, engine, writes>>

NameRows(s) ==
    /\ conn[s].phase = "names"
    /\ \A id \in conn[s].matched : Unlocked(s, id)
    /\ conn' = [conn EXCEPT ![s] = Advanced(s, "named", << >>, [id \in Id |->
                    IF id \in conn[s].matched /\ Nameless(Committed(s, id), conn[s].force)
                    THEN Named(Committed(s, id)) ELSE Absent])]
    /\ UNCHANGED <<stored, audit_log, engine, writes>>

\* The audit entry is part of the transaction.
WriteAudit(s) ==
    LET c == conn[s]
    IN  audit_log' = IF c.table \in Audited /\ c.phase = "update"
                     THEN audit_log \cup {Entry(c.tenant, c.table, c.n, {id \in Id : c.staged[id] # Absent})}
                     ELSE audit_log

CommitRows_unscoped(s) ==
    stored' = [u \in Tenant |-> [stored[u] EXCEPT ![conn[s].table] = [id \in Id |->
                  IF conn[s].staged[id] # Absent /\ (u = conn[s].tenant \/ @[id] # Absent)
                  THEN conn[s].staged[id] ELSE @[id]]]]
CommitRows(s) ==
    stored' = [stored EXCEPT ![conn[s].tenant] = [t \in TableName |-> [id \in Id |->
                  IF t = conn[s].table /\ conn[s].staged[id] # Absent
                  THEN conn[s].staged[id] ELSE @[t][id]]]]

Commit(s) ==
    /\ conn[s].batch = << >> /\ conn[s].phase \in {"update", "named"}
    /\ CommitRows(s) /\ WriteAudit(s)
    /\ conn' = [conn EXCEPT ![s] = NoTransaction]
    /\ UNCHANGED <<engine, writes>>

\* A row is refused or violates the key, two transactions wait for each other, the
\* connection is lost or the server is killed.
Rollback(s) ==
    /\ conn[s].phase # "idle"
    /\ conn' = [conn EXCEPT ![s] = NoTransaction]
    /\ UNCHANGED <<stored, audit_log, engine, writes>>

TenantNext ==
    \E s \in Server :
        \/ UpsertRow(s) \/ UpdateRow(s) \/ InsertRow(s) \/ NameRows(s) \/ Commit(s) \/ Rollback(s)
        \/ \E u \in Tenant :
            \/ create_user(s, u) \/ insert_trades_(s, u) \/ save_bars(s, u) \/ upsert_account(s, u)
            \/ save_backtest_run(s, u) \/ put_document(s, u) \/ audit(s, u) \/ update_trade_names(s, u)

TenantSpec == TenantInit /\ [][TenantNext]_tenantVars

-----------------------------------------------------------------------------
\* Shape of the state; a row is staged by one transaction at most.
Stored == {Absent} \cup [by : Nat, created : Nat, named : BOOLEAN]
TenantTypeOK ==
    /\ stored \in [Tenant -> [TableName -> [Id -> Stored]]]
    /\ engine \in {"sqlite", "postgres"} /\ writes \in 0 .. MaxWrites
    /\ conn \in [Server -> [phase : {"idle", "update", "insert", "names", "named"},
                            tenant : Tenant \cup {"none"}, table : TableName \cup {"audit_log", "none"},
                            batch : Seq(Id), n : 0 .. MaxWrites, staged : [Id -> Stored],
                            matched : SUBSET Id, force : BOOLEAN]]
    /\ \A s \in Server : conn[s].phase # "idle" =>
           \A id \in Id : conn[s].staged[id] # Absent => Unlocked(s, id)

\* The engines keep the promise, whatever transactions of several servers meet at the
\* same rows, fail half-way, or find a row that was not there a moment ago: what has
\* been committed is what AtomicStore lets a single write do.
ImplementsAtomicStore == AtomicSpec
=============================================================================
