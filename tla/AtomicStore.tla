---------------------------- MODULE AtomicStore ----------------------------
(***************************************************************************)
(* What the tenant store promises (trader/storage/base.py, the contract    *)
(* both engines implement): a write of a tenant happens as a whole or not  *)
(* at all, it touches rows of that tenant only, a row keeps the moment of  *)
(* its creation, and the writes of the audited tables leave their entry.   *)
(***************************************************************************)
EXTENDS Naturals

CONSTANTS Tenant,
          Id,         \* identifiers of rows; tenants may use the same ones
          Absent,     \* no row
          MaxWrites   \* bound: writes, numbered from 1

TableName == {"users", "accounts", "trades", "backtest_runs", "market_bars", "tenant_documents"}
Audited == {"accounts", "trades", "backtest_runs", "market_bars", "audit_log"}

VARIABLES stored,    \* the rows of each tenant and table: who wrote and who created them
          audit_log

storeVars == <<stored, audit_log>>

\* The users table has one row of a tenant.
Self == CHOOSE id \in Id : TRUE
Known(u) == stored[u]["users"][Self] # Absent

Written(row, n) ==
    [by |-> n, created |-> IF row = Absent THEN n ELSE row.created, named |-> FALSE]

Named(row) == [by |-> row.by, created |-> row.created, named |-> TRUE]

Entry(u, t, n, ids) == [tenant |-> u, table |-> t, by |-> n, ids |-> ids]

AtomicWrite(u, t, ids, n) ==
    /\ IF t = "users" THEN ids = {Self} ELSE Known(u)
    /\ stored' = [stored EXCEPT ![u] = [table \in TableName |-> [id \in Id |->
                     IF table = t /\ id \in ids THEN Written(@[t][id], n) ELSE @[table][id]]]]
    /\ audit_log' = IF t \in Audited THEN audit_log \cup {Entry(u, t, n, ids)} ELSE audit_log

AtomicNames(u, ids) ==
    /\ \A id \in ids : stored[u]["trades"][id] # Absent
    /\ stored' = [stored EXCEPT ![u]["trades"] = [id \in Id |->
                     IF id \in ids THEN Named(@[id]) ELSE @[id]]]
    /\ UNCHANGED audit_log

\* A database that some tenants have used before.
StoreInit ==
    /\ \E known \in SUBSET Tenant :
        stored = [u \in Tenant |-> [t \in TableName |-> [id \in Id |->
                    IF u \in known /\ id = Self THEN Written(Absent, 0) ELSE Absent]]]
    /\ audit_log = {}

AtomicNext ==
    \E u \in Tenant, ids \in SUBSET Id :
        \/ \E t \in TableName \cup {"audit_log"}, n \in 1 .. MaxWrites : AtomicWrite(u, t, ids, n)
        \/ AtomicNames(u, ids)

AtomicSpec == StoreInit /\ [][AtomicNext]_storeVars
=============================================================================
