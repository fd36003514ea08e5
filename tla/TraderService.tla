--------------------------- MODULE TraderService ---------------------------
(***************************************************************************)
(* The requests of the trader product (trader/api/service.py) of one       *)
(* tenant that write to the tenant store more than once, or read it more   *)
(* than once.  Each write of the store is atomic (TenantStore); requests   *)
(* of the threads of one process run side by side, any write may fail and  *)
(* the process may be killed in between.  What is written is known by its  *)
(* number among those of its kind; validation, scores and views are left   *)
(* out, and so are the accounts, trades and replay records themselves      *)
(* (TenantStore, TradeImport, BarReplay).                                  *)
(***************************************************************************)
EXTENDS Naturals, Sequences, FiniteSetsExt

CONSTANTS Caller,    \* the requests in progress at the same time
          MaxCalls   \* bound: requests

ASSUME TraderAssumption == MaxCalls \in Nat /\ "none" \notin Caller

\* What is written first, and what is written next and speaks of it.
Pair == {"playbook", "pattern", "bars", "backtest", "symbols"}

VARIABLES first,    \* of each pair: the first writes that are in the store
          second,   \* the second writes, each known by the first it speaks of
          newest,   \* the last first write
          known,    \* the tenant has its row
          replayed, \* the actions the stored replay session has taken
          acknowledged, \* those the user was told of
          replay_lock,  \* who holds it, or "none"
          call, calls

traderVars == <<first, second, newest, known, replayed, acknowledged, replay_lock, call, calls>>

NoCall == [op |-> "idle", step |-> "none", n |-> 0, seen |-> 0, floor |-> 0]

\* A tenant of an earlier version may have declared a playbook in the audit log only.
TraderInit ==
    /\ known \in BOOLEAN
    /\ \E declared \in SUBSET {0} :
        /\ known \/ declared = {}
        /\ second = [p \in Pair |-> IF p = "playbook" THEN declared ELSE {}]
    /\ first = [p \in Pair |-> {}] /\ newest = [p \in Pair |-> 0]
    /\ replayed = 0 /\ acknowledged = 0 /\ replay_lock = "none"
    /\ call = [c \in Caller |-> NoCall] /\ calls = 0

Moves(c, next) == call' = [call EXCEPT ![c] = next]

Asked(c, op, step) ==
    /\ call[c].op = "idle" /\ calls < MaxCalls
    /\ calls' = calls + 1
    /\ Moves(c, [NoCall EXCEPT !.op = op, !.step = step])

-----------------------------------------------------------------------------
(* Two writes: a playbook or a decision and its audit entry, bars and      *)
(* their provenance, a run and its detail, the names of symbols and the    *)
(* trades that bear them.                                                  *)

TwoWrites(c, pair) ==
    /\ Asked(c, pair, IF pair = "symbols" THEN "first" ELSE "tenant")
    /\ UNCHANGED <<first, second, newest, known, replayed, acknowledged, replay_lock>>

upsert_playbook(c) == TwoWrites(c, "playbook")
\* That a renaming keeps the state of an earlier decision, which it read before, is left out.
decide_pattern(c) == TwoWrites(c, "pattern")
market_bars(c) == TwoWrites(c, "bars")
backtest_run(c) == TwoWrites(c, "backtest")
analytics_breakdown(c) == TwoWrites(c, "symbols")

\* The first write of a tenant makes its row.
_ensure_tenant(c) ==
    /\ call[c].step = "tenant"
    /\ known' = TRUE
    /\ Moves(c, [call[c] EXCEPT !.step = "first"])
    /\ UNCHANGED <<first, second, newest, replayed, acknowledged, replay_lock, calls>>

FirstWrite(c) ==
    /\ call[c].step = "first"
    /\ newest' = [newest EXCEPT ![call[c].op] = @ + 1]
    /\ first' = [first EXCEPT ![call[c].op] = @ \cup {newest'[call[c].op]}]
    /\ Moves(c, [call[c] EXCEPT !.step = "second", !.n = newest'[call[c].op]])
    /\ UNCHANGED <<second, known, replayed, acknowledged, replay_lock, calls>>

SecondWrite(c) ==
    /\ call[c].step = "second"
    /\ second' = [second EXCEPT ![call[c].op] = @ \cup {call[c].n}]
    /\ Moves(c, NoCall)
    /\ UNCHANGED <<first, newest, known, replayed, acknowledged, replay_lock, calls>>

\* The caller is told, or the error is swallowed: no more is written.
WriteFails(c) ==
    /\ call[c].step \in {"tenant", "first", "second"}
    /\ Moves(c, NoCall)
    /\ UNCHANGED <<first, second, newest, known, replayed, acknowledged, replay_lock, calls>>

-----------------------------------------------------------------------------
(* The declared playbooks are read in two steps: the audit log, then the   *)
(* documents, which come first in the answer.                              *)

playbooks(c) ==
    /\ Asked(c, "playbooks", "entries")
    /\ UNCHANGED <<first, second, newest, known, replayed, acknowledged, replay_lock>>

\* floor: what has been declared by then.
ReadEntries(c) ==
    /\ call[c].step = "entries"
    /\ Moves(c, [call[c] EXCEPT !.step = "documents", !.floor = newest["playbook"],
                                !.seen = IF second["playbook"] = {} THEN 0 ELSE Max(second["playbook"])])
    /\ UNCHANGED <<first, second, newest, known, replayed, acknowledged, replay_lock, calls>>

Defined_entries(entry, document) == IF entry # 0 THEN entry ELSE document
Defined(entry, document) == IF document # 0 THEN document ELSE entry

ReadDocuments(c) ==
    /\ call[c].step = "documents"
    /\ Moves(c, [call[c] EXCEPT !.step = "answered", !.seen = Defined(@, newest["playbook"])])
    /\ UNCHANGED <<first, second, newest, known, replayed, acknowledged, replay_lock, calls>>

Answered(c) ==
    /\ call[c].step = "answered"
    /\ Moves(c, NoCall)
    /\ UNCHANGED <<first, second, newest, known, replayed, acknowledged, replay_lock, calls>>

-----------------------------------------------------------------------------
(* A replay session is read, acted upon and written under a lock.          *)

replay_action(c) ==
    /\ Asked(c, "replay", "waits")
    /\ UNCHANGED <<first, second, newest, known, replayed, acknowledged, replay_lock>>

GetSession_unlocked(c) ==
    /\ call[c].step = "waits"
    /\ replay_lock' = "none"
    /\ Moves(c, [call[c] EXCEPT !.step = "acts", !.seen = replayed])
    /\ UNCHANGED <<first, second, newest, known, replayed, acknowledged, calls>>
GetSession(c) ==
    /\ call[c].step = "waits" /\ replay_lock = "none"
    /\ replay_lock' = c
    /\ Moves(c, [call[c] EXCEPT !.step = "acts", !.seen = replayed])
    /\ UNCHANGED <<first, second, newest, known, replayed, acknowledged, calls>>

PutSession(c) ==
    /\ call[c].step = "acts"
    /\ replay_lock' = "none"
    \* The action is refused or its write fails; or the answer may get lost.
    /\ \/ UNCHANGED <<replayed, acknowledged>>
       \/ replayed' = call[c].seen + 1 /\ acknowledged' \in {acknowledged, acknowledged + 1}
    /\ Moves(c, NoCall)
    /\ UNCHANGED <<first, second, newest, known, calls>>

ServiceKilled ==
    /\ call' = [c \in Caller |-> NoCall] /\ replay_lock' = "none"
    /\ UNCHANGED <<first, second, newest, known, replayed, acknowledged, calls>>

TraderNext ==
    \/ ServiceKilled
    \/ \E c \in Caller :
        \/ upsert_playbook(c) \/ decide_pattern(c) \/ market_bars(c) \/ backtest_run(c)
        \/ analytics_breakdown(c) \/ _ensure_tenant(c) \/ FirstWrite(c) \/ SecondWrite(c) \/ WriteFails(c)
        \/ playbooks(c) \/ ReadEntries(c) \/ ReadDocuments(c) \/ Answered(c)
        \/ replay_action(c) \/ GetSession(c) \/ PutSession(c)

TraderSpec == TraderInit /\ [][TraderNext]_traderVars

-----------------------------------------------------------------------------
\* Shape of the state.
TraderTypeOK ==
    /\ first \in [Pair -> SUBSET (1 .. calls)] /\ second \in [Pair -> SUBSET (0 .. calls)]
    /\ known \in BOOLEAN /\ calls \in 0 .. MaxCalls
    /\ replay_lock \in Caller \cup {"none"}
    /\ replay_lock # "none" <=> \E c \in Caller : call[c].step = "acts"

\* However requests interleave, fail and are killed: what speaks of something else is
\* not in the store without it (but for the declarations of an earlier version), and
\* nothing is there for a tenant that has no row; a reader gets a playbook as it was
\* declared when he asked, or later; and a replay session has taken every action the
\* user was told of.
TraderIsConsistent ==
    /\ \A p \in Pair : second[p] \ {0} \subseteq first[p]
    /\ known \/ \A p \in Pair \ {"symbols"} : first[p] = {}
    /\ \A c \in Caller : call[c].step = "answered" => call[c].seen >= call[c].floor
    /\ replayed >= acknowledged
=============================================================================
