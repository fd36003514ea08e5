-------------------------- MODULE BrokerConnection --------------------------
(***************************************************************************)
(* One read-only broker connection of one user (trader/connections): the   *)
(* sync loop, the manager that keeps its cursor and its events on disk,    *)
(* the controller that replays them into the journal, and the restarts     *)
(* between any two of these steps.  Every request runs under the lock of   *)
(* the controller, so one request is in progress at a time.                *)
(*                                                                         *)
(* An execution of the broker is <<account, i>>, the i-th of its account;  *)
(* a correction raises its revision.  A page holds one execution.          *)
(***************************************************************************)
EXTENDS Naturals, Sequences

CONSTANTS Account,     \* the accounts whose credentials the user may enter
          MaxEvents,   \* bound: executions of each account
          MaxCorrections, \* bound: corrections of executions
          MaxPages,    \* max_pages of one sync
          MaxAttempts, \* max_attempts of one page
          MaxRequests, \* bound: connects and disconnects
          MaxFaults,   \* bound: failed reads, writes and restorations
          MaxCrashes   \* bound: restarts of the server

ASSUME ConnectionAssumption ==
    /\ {MaxPages, MaxAttempts} \subseteq Nat \ {0}
    /\ {MaxCorrections, MaxRequests, MaxFaults, MaxCrashes} \subseteq Nat
    /\ MaxEvents \in [Account -> Nat]
    /\ {"none", "gone"} \cap Account = {}

VARIABLES
    history,   \* the broker: the revisions of the executions of each account
    credsFile, \* connection_credentials.json: whose credentials it holds
    stateFile, \* state.json: the cursor and the events of the connection
    config,    \* the connection_config document: is the connection active?
    loaded,    \* has this process built its manager?
    saved,     \* the manager's copies of the two files
    managed,   \* the manager's record of the connection
    journal,   \* the revision of each execution in the journal, 0 if absent
    op,        \* the request that holds the lock
    status,    \* the connection_status document
    wanted,    \* not in the code: what the last answered request asked for
    used       \* the bounded quantities spent so far

broker == <<history>>
files  == <<credsFile, stateFile, config>>
memory == <<loaded, saved, managed>>
vars == <<broker, files, memory, journal, op, status, wanted, used>>

Event    == UNION {{a} \X (1 .. MaxEvents[a]) : a \in Account}
Revision == 1 .. 1 + MaxCorrections
Owner    == Account \cup {"none"}
NoEvents == [e \in Event |-> 0]

\* A cursor is an offset into a scan; "of" (not in the code) says whose scan, "none"
\* when it began with the executions of one account and went on with another's.
\* The cursor None and the empty token of a finished scan both mean the start.
Start  == [of |-> "none", offset |-> 0]
Cursor == [of : Owner, offset : Nat]

SyncState  == [cursor : Cursor, events : [Event -> {0} \cup Revision]]
Fresh      == [cursor |-> Start, events |-> NoEvents]
Managed    == [registered : BOOLEAN, account : Owner, revoked : BOOLEAN, state : SyncState]
Unmanaged  == [registered |-> FALSE, account |-> "none", revoked |-> FALSE, state |-> Fresh]

Idle     == [kind |-> "idle", phase |-> "idle"]
NoStatus == [kind |-> "none"]

Init ==
    /\ history = [a \in Account |-> << >>]
    /\ credsFile = "none" /\ stateFile = Fresh /\ config = FALSE
    /\ loaded = FALSE /\ managed = Unmanaged
    /\ saved = [account |-> "none", state |-> Fresh]
    /\ journal = NoEvents
    /\ op = Idle /\ status = NoStatus /\ wanted = "none"
    /\ used = [corrections |-> 0, requests |-> 0, faults |-> 0, crashes |-> 0]

\* One more of a bounded quantity.
Spend(what, max) ==
    /\ used[what] < max
    /\ used' = [used EXCEPT ![what] = @ + 1]

-----------------------------------------------------------------------------
(* The broker, between any two steps of a request.                         *)

Execute(a) ==
    /\ Len(history[a]) < MaxEvents[a]
    /\ history' = [history EXCEPT ![a] = Append(@, 1)]
    /\ UNCHANGED <<files, memory, journal, op, status, wanted, used>>

Correct(a) ==
    /\ \E i \in DOMAIN history[a] :
        /\ Spend("corrections", MaxCorrections)
        /\ history' = [history EXCEPT ![a][i] = @ + 1]
    /\ UNCHANGED <<files, memory, journal, op, status, wanted>>

-----------------------------------------------------------------------------
(* The steps of a request, in their order.                                 *)

\* Mutant: the journal is written before the state file.
Steps_importFirst(kind) ==
    CASE kind = "restore" -> <<"bind", "credentials", "state">>
      [] kind = "sync"    -> <<"scan", "import", "credentials", "state">>
      [] OTHER            -> <<"credentials", "state", "config">>

Steps(kind) == CASE kind = "restore" -> <<"bind", "credentials", "state">>
                 [] kind = "sync"    -> <<"scan", "credentials", "state", "import">>
                 [] OTHER            -> <<"credentials", "state", "config">>

\* The request o, its current step done.
Proceed(o) ==
    LET s == Steps(o.kind)
        i == CHOOSE n \in DOMAIN s : s[n] = o.phase
    IN  IF i = Len(s) THEN Idle ELSE [o EXCEPT !.phase = s[i + 1]]

-----------------------------------------------------------------------------
(* Connect, disconnect, and the first request of a process, which restores *)
(* the connection from the files.                                          *)

\* Mutant: only the cursor is read back from the state file.
Bind_cursorOnly(a) ==
    [registered |-> TRUE, account |-> a, revoked |-> FALSE,
     state |-> IF managed.registered THEN managed.state
               ELSE [saved.state EXCEPT !.events = NoEvents]]

\* register and set_credentials: a connection not yet registered starts from
\* the saved state, a registered one keeps the state it has.
Bind(a) == [registered |-> TRUE, account |-> a, revoked |-> FALSE,
            state |-> IF managed.registered THEN managed.state ELSE saved.state]

\* Mutant: a new process does not restore the connection.
Load_forgets ==
    /\ op = Idle /\ ~loaded
    /\ loaded' = TRUE
    /\ saved' = [account |-> credsFile, state |-> stateFile]
    /\ UNCHANGED <<op, broker, files, managed, journal, status, wanted, used>>

Load ==
    /\ op = Idle /\ ~loaded
    /\ loaded' = TRUE
    /\ saved' = [account |-> credsFile, state |-> stateFile]
    /\ op' = IF config /\ credsFile # "none"
             THEN [kind |-> "restore", phase |-> "bind"]
             ELSE Idle
    /\ UNCHANGED <<broker, files, managed, journal, status, wanted, used>>

\* What a failed step leaves: the request is over.
Abandon ==
    /\ Spend("faults", MaxFaults)
    /\ op' = Idle
    /\ status' = IF op.kind = "restore" THEN [kind |-> "restore_failed"] ELSE status

Restore ==
    /\ op.phase = "bind"
    /\ \/ /\ managed' = Bind(saved.account)
          /\ op' = Proceed(op)
          /\ UNCHANGED <<status, used>>
       \/ Abandon /\ UNCHANGED managed
    /\ UNCHANGED <<broker, files, loaded, saved, journal, wanted>>

\* The adapter has verified its read access; without it nothing changes.
Connect(a) ==
    /\ op = Idle /\ loaded
    /\ Spend("requests", MaxRequests)
    /\ managed' = Bind(a)
    /\ saved' = [saved EXCEPT !.account = a]
    /\ wanted' = "none"
    /\ op' = [kind |-> "connect", phase |-> "credentials"]
    /\ UNCHANGED <<broker, files, loaded, journal, status>>

\* Mutant: the saved credentials are not popped.
Disconnect_keepsSecret ==
    /\ op = Idle /\ loaded
    /\ managed.registered \/ saved.account # "none"
    /\ Spend("requests", MaxRequests)
    /\ managed' = IF managed.registered
                  THEN [Unmanaged EXCEPT !.registered = TRUE, !.revoked = TRUE]
                  ELSE managed
    /\ saved' = [saved EXCEPT !.state = Fresh]
    /\ wanted' = "none"
    /\ op' = [kind |-> "disconnect", phase |-> "credentials"]
    /\ UNCHANGED <<broker, files, loaded, journal, status>>

Disconnect ==
    /\ op = Idle /\ loaded
    /\ managed.registered \/ saved.account # "none"
    /\ Spend("requests", MaxRequests)
    /\ managed' = IF managed.registered
                  THEN [Unmanaged EXCEPT !.registered = TRUE, !.revoked = TRUE]
                  ELSE managed
    /\ saved' = [account |-> "none", state |-> Fresh]
    /\ wanted' = "none"
    /\ op' = [kind |-> "disconnect", phase |-> "credentials"]
    /\ UNCHANGED <<broker, files, loaded, journal, status>>

-----------------------------------------------------------------------------
(* The two private files are replaced one after the other.  A write that   *)
(* fails ends the request; what it changed in memory stays.                *)

SaveCredentials ==
    /\ op.phase = "credentials"
    /\ \/ /\ credsFile' = saved.account
          /\ op' = Proceed(op)
          /\ UNCHANGED <<status, used>>
       \/ Abandon /\ UNCHANGED credsFile
    /\ UNCHANGED <<broker, stateFile, config, memory, journal, wanted>>

SaveState ==
    /\ op.phase = "state"
    /\ \/ /\ stateFile' = IF managed.registered THEN managed.state ELSE saved.state
          /\ saved' = [saved EXCEPT !.state = stateFile']
          /\ op' = Proceed(op)
          /\ UNCHANGED <<status, used>>
       \/ Abandon /\ UNCHANGED <<stateFile, saved>>
    /\ UNCHANGED <<broker, credsFile, config, loaded, managed, journal, wanted>>

\* The last writes of connect and disconnect, to the tenant store.
SaveConfig ==
    /\ op.phase = "config"
    /\ config' = (op.kind = "connect")
    /\ status' = [kind |-> op.kind]
    /\ wanted' = IF op.kind = "connect" THEN managed.account ELSE "gone"
    /\ op' = Proceed(op)
    /\ UNCHANGED <<broker, credsFile, stateFile, memory, journal, used>>

-----------------------------------------------------------------------------
(* The sync loop: pages are read until one has no next page, fails or is   *)
(* partial, or MaxPages are read.  An event is kept in memory as soon as   *)
(* its page is read; the cursor moves past complete pages only.            *)

Sync(cursor, seen) ==
    [kind |-> "sync", phase |-> "scan", blocked |-> FALSE, partial |-> FALSE,
     cursor |-> cursor, from |-> cursor, seen |-> seen, pages |-> 0, attempts |-> 0,
     done |-> {}]

SyncStart ==
    /\ op = Idle /\ loaded /\ managed.registered /\ ~managed.revoked
    /\ LET sync == Sync(managed.state.cursor, history[managed.account])
       IN  \/ op' = sync /\ UNCHANGED used
           \/ \* validate_read_access refuses: nothing is read or imported
              /\ Spend("faults", MaxFaults)
              /\ op' = [sync EXCEPT !.blocked = TRUE, !.partial = TRUE, !.phase = "credentials"]
    /\ UNCHANGED <<broker, files, memory, journal, status, wanted>>

SyncRevoked ==
    /\ op = Idle /\ loaded /\ managed.registered /\ managed.revoked
    /\ status' = [kind |-> "synced", complete |-> FALSE]
    /\ UNCHANGED <<broker, files, memory, journal, op, wanted, used>>

Scanning == op.phase = "scan"

EndScan(cursor, events, partial) ==
    /\ managed' = [managed EXCEPT !.state = [cursor |-> cursor, events |-> events]]
    /\ op' = Proceed([op EXCEPT !.cursor = cursor, !.partial = partial])

\* The events with the one at the cursor, if there is one, as the broker has it.
WithPage ==
    LET a == managed.account
        i == op.cursor.offset + 1
    IN  IF i \in DOMAIN history[a]
        THEN [managed.state.events EXCEPT ![<<a, i>>] = history[a][i]]
        ELSE managed.state.events

\* The cursor after a complete page that has a next one: a connection that gets other
\* credentials goes on at the cursor it has.
Advanced == [of |-> IF op.cursor = Start \/ op.cursor.of = managed.account
                    THEN managed.account ELSE "none",
             offset |-> op.cursor.offset + 1]

\* Mutant: one page more than max_pages.
ReadPage_onePageMore ==
    /\ Scanning
    /\ IF op.cursor.offset + 1 < Len(history[managed.account])
       THEN IF op.pages < MaxPages
            THEN /\ managed' = [managed EXCEPT !.state.events = WithPage]
                 /\ op' = [op EXCEPT !.cursor = Advanced, !.pages = @ + 1, !.attempts = 0]
            ELSE EndScan(Advanced, WithPage, TRUE)
       ELSE EndScan(Start, WithPage, FALSE)
    /\ UNCHANGED <<broker, files, loaded, saved, journal, status, wanted, used>>

ReadPage ==
    /\ Scanning
    /\ IF op.cursor.offset + 1 < Len(history[managed.account])
       THEN IF op.pages + 1 < MaxPages
            THEN /\ managed' = [managed EXCEPT !.state.events = WithPage]
                 /\ op' = [op EXCEPT !.cursor = Advanced, !.pages = @ + 1, !.attempts = 0]
            ELSE EndScan(Advanced, WithPage, TRUE)
       ELSE EndScan(Start, WithPage, FALSE)
    /\ UNCHANGED <<broker, files, loaded, saved, journal, status, wanted, used>>

\* A transient error is retried; another one, or the last attempt, ends the scan.
ReadFails ==
    /\ Scanning /\ Spend("faults", MaxFaults)
    /\ \/ /\ op.attempts + 1 < MaxAttempts
          /\ op' = [op EXCEPT !.attempts = @ + 1]
          /\ UNCHANGED managed
       \/ EndScan(op.cursor, managed.state.events, TRUE)
    /\ UNCHANGED <<broker, files, loaded, saved, journal, status, wanted>>

\* Mutant: the cursor moves past a partial page.
ReadPartialPage_advances ==
    /\ Scanning /\ Spend("faults", MaxFaults)
    /\ \E events \in {managed.state.events, WithPage} : EndScan(Advanced, events, TRUE)
    /\ UNCHANGED <<broker, files, loaded, saved, journal, status, wanted>>

\* A page that reports errors, with or without its event; it has no next page.
ReadPartialPage ==
    /\ Scanning /\ Spend("faults", MaxFaults)
    /\ \E events \in {managed.state.events, WithPage} : EndScan(op.cursor, events, TRUE)
    /\ UNCHANGED <<broker, files, loaded, saved, journal, status, wanted>>

-----------------------------------------------------------------------------
(* The journal: every durable event is written again, one transaction for  *)
(* each, and not only what this sync has read.                             *)

ToImport == IF op.blocked THEN {} ELSE {e \in Event : managed.state.events[e] # 0} \ op.done

Import(e) ==
    /\ op.phase = "import" /\ e \in ToImport
    /\ \/ /\ journal' = [journal EXCEPT ![e] = managed.state.events[e]]
          /\ op' = [op EXCEPT !.done = @ \cup {e}]
          /\ UNCHANGED used
       \/ /\ Spend("faults", MaxFaults)
          /\ op' = [op EXCEPT !.done = @ \cup {e}, !.partial = TRUE]
          /\ UNCHANGED journal
    /\ UNCHANGED <<broker, files, memory, status, wanted>>

\* Not in the code: what the answer is about (account, from, seen).
Answer == [kind |-> "synced", complete |-> ~op.partial, account |-> managed.account,
           from |-> op.from, seen |-> op.seen]

SyncDone ==
    /\ op.phase = "import" /\ ToImport = {}
    /\ status' = IF op.partial THEN [kind |-> "synced", complete |-> FALSE] ELSE Answer
    /\ op' = Proceed(op)
    /\ UNCHANGED <<broker, files, memory, journal, wanted, used>>

-----------------------------------------------------------------------------
(* The process dies: the files and the journal stay.                       *)
Crash ==
    /\ loaded
    /\ Spend("crashes", MaxCrashes)
    /\ loaded' = FALSE /\ managed' = Unmanaged
    /\ saved' = [account |-> "none", state |-> Fresh]
    /\ op' = Idle
    /\ UNCHANGED <<broker, files, journal, status, wanted>>

Request == \/ Load \/ Disconnect \/ SyncStart \/ SyncRevoked
           \/ \E a \in Account : Connect(a)

\* The steps of the request in progress.
Step == \/ Restore \/ SaveCredentials \/ SaveState \/ SaveConfig
        \/ ReadPage \/ ReadFails \/ ReadPartialPage
        \/ (\E e \in Event : Import(e)) \/ SyncDone

Next == \/ Request \/ Step \/ Crash
        \/ \E a \in Account : Execute(a) \/ Correct(a)

(* A request that has started goes on to its end, and the connection is    *)
(* synced again and again: by the watcher of a local directory every 30 s, *)
(* by the user elsewhere.                                                  *)
Fairness == WF_vars(Load) /\ WF_vars(Step) /\ WF_vars(SyncStart)

Spec == Init /\ [][Next]_vars /\ Fairness

-----------------------------------------------------------------------------
OpType ==
    \/ op = Idle
    \/ op \in [kind : {"restore"}, phase : {"bind", "credentials", "state"}]
    \/ op \in [kind : {"connect", "disconnect"}, phase : {"credentials", "state", "config"}]
    \/ /\ op.kind = "sync" /\ op.phase \in {"scan", "credentials", "state", "import"}
       /\ {op.cursor, op.from} \subseteq Cursor
       /\ op.pages < MaxPages /\ op.attempts < MaxAttempts
       /\ op.done \subseteq Event

\* The types of the variables.  A scan's offset stays inside its history, no
\* page is tried more than max_attempts times and no sync reads more than
\* max_pages (the loops of SyncEngine.sync).
TypeOK ==
    /\ history \in [Account -> Seq(Revision)]
    /\ credsFile \in Owner /\ stateFile \in SyncState /\ config \in BOOLEAN
    /\ loaded \in BOOLEAN /\ saved \in [account : Owner, state : SyncState]
    /\ managed \in Managed
    /\ journal \in [Event -> {0} \cup Revision]
    /\ OpType
    /\ status.kind \in {"none", "connect", "disconnect", "restore_failed", "synced"}
    /\ wanted \in Owner \cup {"gone"}

CompleteSyncIsComplete ==
    LET s == status IN
    s.kind = "synced" /\ s.complete /\ (s.from = Start \/ s.from.of = s.account) =>
        \A i \in DOMAIN s.seen :
            journal[<<s.account, i>>] >= IF s.from = Start THEN s.seen[i] ELSE 1

CursorCoversItsScan ==
    stateFile.cursor.of \in Account =>
        \A i \in 1 .. stateFile.cursor.offset : stateFile.events[<<stateFile.cursor.of, i>>] # 0

\* A sync that reports itself complete has not lost an execution: all that its
\* account had when it began are in the journal, and in their revision of then
\* or a later one if the scan began at its start.  A scan may go on from the
\* cursor of an earlier one of the same account, across failed and partial
\* pages, failed writes and restarts (sync.py:100-163, controller.py:217-258).
\* And a durable cursor stands behind no execution that is not durable itself:
\* whatever of its account was scanned to get there is in the state file with it.
NothingIsSkipped == CompleteSyncIsComplete /\ CursorCoversItsScan

\* Replaying the durable events on every sync never takes an execution of the
\* journal back to an earlier revision, nor out of it.
JournalNeverGoesBack == [][\A e \in Event : journal'[e] >= journal[e]]_vars

\* Whatever failed or restarted in between, the connection is the one the last
\* answered request left: after a connect the files hold its credentials and
\* no other account is read; after a disconnect nothing is, now or after any
\* restart.
ConnectionIsTheOneAskedFor ==
    /\ wanted \in Account => /\ credsFile = wanted /\ config
                             /\ managed.account \in {wanted, "none"}
    /\ wanted = "gone" => /\ credsFile = "none" /\ ~config
                          /\ managed.account = "none"

\* While an account stays connected all its executions reach the journal,
\* unless its restoration failed and the status says so.
FillsArrive ==
    \A a \in Account :
        <>[](wanted = a /\ status.kind # "restore_failed")
            => <>[](\A i \in DOMAIN history[a] : journal[<<a, i>>] # 0)
=============================================================================
