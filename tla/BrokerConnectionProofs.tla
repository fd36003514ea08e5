----------------------- MODULE BrokerConnectionProofs -----------------------
(***************************************************************************)
(* Theorems about a broker connection (BrokerConnection.tla), for any      *)
(* accounts, executions, pages, attempts, requests, faults and restarts.   *)
(***************************************************************************)
EXTENDS BrokerConnection, TLAPS

\* The request that syncs.
SyncOp == [kind : {"sync"}, phase : {"scan", "credentials", "state", "import"},
           blocked : BOOLEAN, partial : BOOLEAN, cursor : Cursor, from : Cursor,
           seen : Seq(Revision), pages : 0 .. MaxPages - 1, attempts : 0 .. MaxAttempts - 1,
           done : SUBSET Event]

\* The answer of a complete sync.
AnswerType == [kind : {"synced"}, complete : {TRUE}, account : Account, from : Cursor,
               seen : Seq(Revision)]

BrokerType ==
    /\ history \in [Account -> Seq(Revision)]
    /\ credsFile \in Owner /\ stateFile \in SyncState /\ config \in BOOLEAN
    /\ loaded \in BOOLEAN /\ saved \in [account : Owner, state : SyncState]
    /\ managed \in Managed
    /\ journal \in [Event -> {0} \cup Revision]
    /\ \/ op = Idle
       \/ op \in [kind : {"restore"}, phase : {"bind", "credentials", "state"}]
       \/ op \in [kind : {"connect", "disconnect"}, phase : {"credentials", "state", "config"}]
       \/ op \in SyncOp
    /\ status \in [kind : {"none", "connect", "disconnect", "restore_failed"}]
                  \cup [kind : {"synced"}, complete : {FALSE}] \cup AnswerType
    /\ wanted \in Owner \cup {"gone"}
    /\ used \in [corrections : 0 .. MaxCorrections, requests : 0 .. MaxRequests,
                 faults : 0 .. MaxFaults, crashes : 0 .. MaxCrashes]

\* The broker.
HistoryInv ==
    \A a \in Account :
        /\ Len(history[a]) <= MaxEvents[a]
        /\ \A i \in DOMAIN history[a] : history[a][i] <= 1 + used.corrections

\* What the broker has done so far of an execution: 0 is not yet.
Now(e) == IF e[2] \in DOMAIN history[e[1]] THEN history[e[1]][e[2]] ELSE 0

\* Events that are known somewhere.
Covers(cursor, events) ==
    cursor.of \in Account =>
        /\ cursor.offset <= MaxEvents[cursor.of]
        /\ \A i \in 1 .. cursor.offset : events[<<cursor.of, i>>] # 0

EventsInv(events) ==
    \A e \in Event : events[e] <= Now(e) /\ (events[e] # 0 => journal[e] <= events[e])

StateInv(state) == Covers(state.cursor, state.events) /\ EventsInv(state.events)

KnownInv ==
    /\ \A e \in Event : journal[e] <= Now(e)
    /\ StateInv(stateFile) /\ StateInv(saved.state) /\ StateInv(managed.state)

\* Who is connected.
OwnerInv ==
    /\ ~loaded => op = Idle /\ managed = Unmanaged
    /\ managed.registered /\ ~managed.revoked => managed.account \in Account
    /\ ~managed.registered \/ managed.revoked => managed.account = "none"
    /\ op.kind = "restore" => /\ saved.account \in Account /\ saved.account = credsFile /\ config
                              /\ wanted \in {"none", saved.account}
    /\ op.kind = "connect" => /\ managed.registered /\ ~managed.revoked
                              /\ saved.account = managed.account /\ wanted = "none"
                              /\ (op.phase # "credentials" => credsFile = saved.account)
    /\ op.kind = "disconnect" => /\ managed.account = "none"
                                 /\ saved.account = "none" /\ wanted = "none"
                                 /\ (op.phase # "credentials" => credsFile = "none")
    /\ op.kind = "sync" => managed.registered /\ ~managed.revoked
    /\ wanted \in Account => /\ credsFile = wanted /\ config
                             /\ managed.account \in {wanted, "none"}
                             /\ (loaded => saved.account = wanted)
    /\ wanted = "gone" => /\ credsFile = "none" /\ ~config
                          /\ managed.account = "none"
                          /\ (loaded => saved.account = "none")

\* How much of what the account had at the beginning the manager has.
Owed(from, seen, i) == IF from = Start THEN seen[i] ELSE 1
Follows(from, a) == from = Start \/ from.of = a

SyncInv ==
    op.kind = "sync" =>
        LET a == managed.account
        IN  /\ Len(op.seen) <= Len(history[a])
            /\ \A i \in DOMAIN op.seen : op.seen[i] <= history[a][i]
            /\ op.phase = "scan" =>
                   /\ ~op.partial /\ ~op.blocked /\ op.done = {}
                   /\ Covers(op.cursor, managed.state.events)
                   /\ Follows(op.from, a) =>
                          /\ Follows(op.cursor, a)
                          /\ \A i \in DOMAIN op.seen : i <= op.cursor.offset =>
                                managed.state.events[<<a, i>>] >= Owed(op.from, op.seen, i)
            /\ op.blocked => op.partial
            /\ op.phase # "scan" /\ ~op.partial /\ Follows(op.from, a) =>
                   \A i \in DOMAIN op.seen : managed.state.events[<<a, i>>] >= Owed(op.from, op.seen, i)
            /\ op.phase # "import" => op.done = {}
            /\ op.phase = "import" =>
                   /\ stateFile = managed.state /\ saved.state = managed.state
                   /\ ~op.partial => \A e \in op.done : journal[e] = managed.state.events[e]

\* A complete answer is about executions of the broker.
AnswerInv ==
    status.kind = "synced" /\ status.complete =>
        \A i \in DOMAIN status.seen : <<status.account, i>> \in Event

BrokerInv == BrokerType /\ HistoryInv /\ KnownInv /\ OwnerInv /\ SyncInv
             /\ AnswerInv /\ CompleteSyncIsComplete
-----------------------------------------------------------------------------
(* The program of a request.                                               *)

LEMMA Constants ==
    /\ MaxPages \in Nat \ {0} /\ MaxAttempts \in Nat \ {0} /\ MaxCorrections \in Nat
    /\ MaxRequests \in Nat /\ MaxFaults \in Nat /\ MaxCrashes \in Nat
    /\ MaxEvents \in [Account -> Nat] /\ "none" \notin Account /\ "gone" \notin Account
    /\ \A a \in Account, i \in Nat : i \in 1 .. MaxEvents[a] => <<a, i>> \in Event
    /\ \A e \in Event : e[1] \in Account /\ e[2] \in 1 .. MaxEvents[e[1]] /\ e = <<e[1], e[2]>>
<1>1. \A a \in Account, i \in Nat : i \in 1 .. MaxEvents[a] => <<a, i>> \in Event
  BY DEF Event
<1>2. \A e \in Event : e[1] \in Account /\ e[2] \in 1 .. MaxEvents[e[1]] /\ e = <<e[1], e[2]>>
  BY DEF Event
<1>3. QED
  BY <1>1, <1>2, ConnectionAssumption

LEMMA ThirdOf ==
    ASSUME NEW x, NEW y, NEW z, x # y, x # z, y # z,
           NEW s, s = <<x, y, z>>
    PROVE  /\ Len(s) = 3 /\ s[1] = x /\ s[2] = y /\ s[3] = z
           /\ (CHOOSE n \in DOMAIN s : s[n] = x) = 1
           /\ (CHOOSE n \in DOMAIN s : s[n] = y) = 2
           /\ (CHOOSE n \in DOMAIN s : s[n] = z) = 3
<1>1. DOMAIN s = 1 .. 3 /\ Len(s) = 3 /\ s[1] = x /\ s[2] = y /\ s[3] = z
  OBVIOUS
<1>2. \A n \in 1 .. 3 : n = 1 \/ n = 2 \/ n = 3
  OBVIOUS
<1>3. \E n \in DOMAIN s : s[n] = x
  BY <1>1
<1>4. \E n \in DOMAIN s : s[n] = y
  BY <1>1
<1>5. \E n \in DOMAIN s : s[n] = z
  BY <1>1
<1>6. QED
  BY <1>1, <1>2, <1>3, <1>4, <1>5

LEMMA RestoreProceeds ==
    ASSUME NEW o, o.kind = "restore"
    PROVE  /\ o.phase = "bind" => Proceed(o) = [o EXCEPT !.phase = "credentials"]
           /\ o.phase = "credentials" => Proceed(o) = [o EXCEPT !.phase = "state"]
           /\ o.phase = "state" => Proceed(o) = Idle
<1>1. PICK s : s = Steps(o.kind)
  OBVIOUS
<1>2. s = <<"bind", "credentials", "state">>
  BY <1>1 DEF Steps
<1>3. /\ Len(s) = 3 /\ s[1] = "bind" /\ s[2] = "credentials" /\ s[3] = "state"
      /\ (CHOOSE n \in DOMAIN s : s[n] = "bind") = 1
      /\ (CHOOSE n \in DOMAIN s : s[n] = "credentials") = 2
      /\ (CHOOSE n \in DOMAIN s : s[n] = "state") = 3
  BY <1>2, ThirdOf
<1>4. o.phase = "bind" => Proceed(o) = [o EXCEPT !.phase = "credentials"]
  BY <1>1, <1>3 DEF Proceed
<1>5. o.phase = "credentials" => Proceed(o) = [o EXCEPT !.phase = "state"]
  BY <1>1, <1>3 DEF Proceed
<1>6. o.phase = "state" => Proceed(o) = Idle
  BY <1>1, <1>3 DEF Proceed
<1>7. QED
  BY <1>4, <1>5, <1>6

LEMMA AnswerProceeds ==
    ASSUME NEW o, o.kind \in {"connect", "disconnect"}
    PROVE  /\ o.phase = "credentials" => Proceed(o) = [o EXCEPT !.phase = "state"]
           /\ o.phase = "state" => Proceed(o) = [o EXCEPT !.phase = "config"]
           /\ o.phase = "config" => Proceed(o) = Idle
<1>1. PICK s : s = Steps(o.kind)
  OBVIOUS
<1>2. s = <<"credentials", "state", "config">>
  BY <1>1 DEF Steps
<1>3. /\ Len(s) = 3 /\ s[1] = "credentials" /\ s[2] = "state" /\ s[3] = "config"
      /\ (CHOOSE n \in DOMAIN s : s[n] = "credentials") = 1
      /\ (CHOOSE n \in DOMAIN s : s[n] = "state") = 2
      /\ (CHOOSE n \in DOMAIN s : s[n] = "config") = 3
  BY <1>2, ThirdOf
<1>4. QED
  BY <1>1, <1>3 DEF Proceed

LEMMA SyncProceeds ==
    ASSUME NEW o, o.kind = "sync"
    PROVE  /\ o.phase = "scan" => Proceed(o) = [o EXCEPT !.phase = "credentials"]
           /\ o.phase = "credentials" => Proceed(o) = [o EXCEPT !.phase = "state"]
           /\ o.phase = "state" => Proceed(o) = [o EXCEPT !.phase = "import"]
           /\ o.phase = "import" => Proceed(o) = Idle
<1>1. PICK s : s = Steps(o.kind)
  OBVIOUS
<1>2. s = <<"scan", "credentials", "state", "import">>
  BY <1>1 DEF Steps
<1>3. DOMAIN s = 1 .. 4 /\ Len(s) = 4 /\ s[1] = "scan" /\ s[2] = "credentials" /\ s[3] = "state"
      /\ s[4] = "import"
  BY <1>2
<1>4. \A n \in 1 .. 4 : n = 1 \/ n = 2 \/ n = 3 \/ n = 4
  OBVIOUS
<1>5. /\ (CHOOSE n \in DOMAIN s : s[n] = "scan") = 1
      /\ (CHOOSE n \in DOMAIN s : s[n] = "credentials") = 2
      /\ (CHOOSE n \in DOMAIN s : s[n] = "state") = 3
      /\ (CHOOSE n \in DOMAIN s : s[n] = "import") = 4
  BY <1>3, <1>4
<1>6. o.phase = "scan" => Proceed(o) = [o EXCEPT !.phase = "credentials"]
  BY <1>1, <1>3, <1>5 DEF Proceed
<1>7. o.phase = "credentials" => Proceed(o) = [o EXCEPT !.phase = "state"]
  BY <1>1, <1>3, <1>5 DEF Proceed
<1>8. o.phase = "state" => Proceed(o) = [o EXCEPT !.phase = "import"]
  BY <1>1, <1>3, <1>5 DEF Proceed
<1>9. ASSUME o.phase = "import" PROVE Proceed(o) = Idle
  <2>1. (CHOOSE n \in DOMAIN Steps(o.kind) : Steps(o.kind)[n] = o.phase) = 4
    BY <1>1, <1>5, <1>9
  <2>2. Len(Steps(o.kind)) = 4
    BY <1>1, <1>3
  <2>3. QED
    BY <2>1, <2>2 DEF Proceed
<1>10. QED
  BY <1>6, <1>7, <1>8, <1>9

\* What is spent stays within its bound.
LEMMA Spends ==
    ASSUME BrokerType
    PROVE  /\ Spend("corrections", MaxCorrections) =>
                 /\ used'.corrections = used.corrections + 1
                 /\ used' \in [corrections : 0 .. MaxCorrections, requests : 0 .. MaxRequests,
                               faults : 0 .. MaxFaults, crashes : 0 .. MaxCrashes]
           /\ \/ Spend("requests", MaxRequests) \/ Spend("faults", MaxFaults)
              \/ Spend("crashes", MaxCrashes)
              => /\ used'.corrections = used.corrections
                 /\ used' \in [corrections : 0 .. MaxCorrections, requests : 0 .. MaxRequests,
                               faults : 0 .. MaxFaults, crashes : 0 .. MaxCrashes]
<1>1. used \in [corrections : 0 .. MaxCorrections, requests : 0 .. MaxRequests,
                faults : 0 .. MaxFaults, crashes : 0 .. MaxCrashes]
  BY DEF BrokerType
<1>2. QED
  BY <1>1, Constants DEF Spend

-----------------------------------------------------------------------------
(* What a step does to the request, and the types.                         *)

RestoreOp == [kind : {"restore"}, phase : {"bind", "credentials", "state"}]
AnswerOp  == [kind : {"connect", "disconnect"}, phase : {"credentials", "state", "config"}]

LEMMA OpFacts ==
    ASSUME BrokerType
    PROVE  /\ op = Idle \/ op \in RestoreOp \/ op \in AnswerOp \/ op \in SyncOp
           /\ Idle.kind = "idle" /\ Idle.phase = "idle"
           /\ op.kind = "sync" => op \in SyncOp
           /\ op.kind = "restore" => op \in RestoreOp
           /\ op.kind \in {"connect", "disconnect"} => op \in AnswerOp
           /\ op.phase \in {"scan", "import"} => op \in SyncOp
           /\ op.phase = "bind" => op \in RestoreOp
           /\ op.phase = "config" => op \in AnswerOp
           /\ op.phase \in {"credentials", "state"} => op \in RestoreOp \/ op \in AnswerOp \/ op \in SyncOp
<1>1. op = Idle \/ op \in RestoreOp \/ op \in AnswerOp \/ op \in SyncOp
  BY DEF BrokerType, RestoreOp, AnswerOp
<1>2. QED
  BY <1>1 DEF RestoreOp, AnswerOp, SyncOp, Idle

\* A step that has been done leads to the next one of its request.
LEMMA GoesOn ==
    ASSUME BrokerType, op' = Proceed(op), op.phase \in {"bind", "credentials", "state", "config"}
    PROVE  /\ op' = Idle \/ op' \in RestoreOp \/ op' \in AnswerOp \/ op' \in SyncOp
           /\ op'.kind \in {"idle", op.kind} /\ op'.phase # "scan"
           /\ op.kind = "sync" => /\ op.phase \in {"credentials", "state"}
                                  /\ op' = [op EXCEPT !.phase = IF op.phase = "credentials"
                                                                THEN "state" ELSE "import"]
                                  /\ op' \in SyncOp
           /\ op'.kind = "sync" => op.kind = "sync"
           /\ op.phase = "config" => op' = Idle
<1>1. CASE op \in RestoreOp
  <2>1. op.kind = "restore" /\ op.phase \in {"bind", "credentials", "state"}
    BY <1>1 DEF RestoreOp
  <2>2. [op EXCEPT !.phase = "credentials"] \in RestoreOp /\ [op EXCEPT !.phase = "state"] \in RestoreOp
    BY <1>1 DEF RestoreOp
  <2>3. op' \in RestoreOp \/ op' = Idle
    BY <2>1, <2>2, RestoreProceeds
  <2>4. QED
    BY <2>1, <2>3 DEF RestoreOp, Idle
<1>2. CASE op \in AnswerOp
  <2>1. op.kind \in {"connect", "disconnect"} /\ op.phase \in {"credentials", "state", "config"}
    BY <1>2 DEF AnswerOp
  <2>6. [op EXCEPT !.phase = "state"] \in AnswerOp /\ [op EXCEPT !.phase = "config"] \in AnswerOp
    BY <1>2 DEF AnswerOp
  <2>7. [op EXCEPT !.phase = "state"].kind = op.kind /\ [op EXCEPT !.phase = "config"].kind = op.kind
    BY <1>2 DEF AnswerOp
  <2>2. PICK o \in AnswerOp, q \in AnswerOp :
          o = [op EXCEPT !.phase = "state"] /\ q = [op EXCEPT !.phase = "config"]
          /\ o.kind = op.kind /\ q.kind = op.kind
    BY <2>6, <2>7
  <2>3. op' \in {o, q, Idle}
    BY <2>1, <2>2, AnswerProceeds
  <2>4. op.phase = "config" => op' = Idle
    BY <2>1, AnswerProceeds
  <2>5. QED
    BY <2>1, <2>2, <2>3, <2>4 DEF AnswerOp, Idle
<1>3. CASE op \in SyncOp
  <2>1. op.kind = "sync" /\ op.phase \in {"scan", "credentials", "state", "import"}
    BY <1>3 DEF SyncOp
  <2>2. PICK o \in SyncOp, q \in SyncOp :
          o = [op EXCEPT !.phase = "state"] /\ q = [op EXCEPT !.phase = "import"]
    BY <1>3 DEF SyncOp
  <2>3. op.phase \in {"credentials", "state"}
    BY <2>1
  <2>4. op' = IF op.phase = "credentials" THEN o ELSE q
    BY <2>1, <2>2, <2>3, SyncProceeds
  <2>5. o.kind = "sync" /\ q.kind = "sync" /\ o.phase # "scan" /\ q.phase # "scan"
    BY <1>3, <2>2 DEF SyncOp
  <2>6. op' = [op EXCEPT !.phase = IF op.phase = "credentials" THEN "state" ELSE "import"]
    BY <2>2, <2>4
  <2>7. QED
    BY <2>1, <2>3, <2>4, <2>5, <2>6
<1>4. op # Idle
  BY OpFacts
<1>5. QED
  BY <1>1, <1>2, <1>3, <1>4, OpFacts

LEMMA Types ==
    /\ Start \in Cursor /\ Fresh \in SyncState /\ Unmanaged \in Managed
    /\ Account \subseteq Owner /\ "none" \in Owner
    /\ Unmanaged.account = "none" /\ Unmanaged.registered = FALSE /\ Unmanaged.revoked = FALSE
    /\ Unmanaged.state = Fresh /\ Fresh.cursor = Start /\ \A e \in Event : Fresh.events[e] = 0
    /\ Start.of = "none" /\ Start.offset = 0
<1>1. Start \in Cursor /\ "none" \in Owner /\ Account \subseteq Owner /\ Start.of = "none" /\ Start.offset = 0
  BY DEF Start, Cursor, Owner
<1>2. NoEvents \in [Event -> {0} \cup Revision] /\ \A e \in Event : NoEvents[e] = 0
  BY DEF NoEvents
<1>3. Fresh \in SyncState /\ Fresh.cursor = Start /\ \A e \in Event : Fresh.events[e] = 0
  BY <1>1, <1>2 DEF Fresh, SyncState
<1> HIDE DEF Event
<1>4. QED
  BY <1>1, <1>3 DEF Unmanaged, Managed

-----------------------------------------------------------------------------
(* One page of a scan.                                                     *)

\* A page brings at most the one event that the broker has next.
LEMMA PageFacts ==
    ASSUME BrokerType, HistoryInv, op \in SyncOp, managed.account \in Account
    PROVE  /\ WithPage \in [Event -> {0} \cup Revision] /\ Advanced \in Cursor
           /\ \A e \in Event : WithPage[e] = managed.state.events[e] \/ WithPage[e] = Now(e)
           /\ \A e \in Event : managed.state.events[e] # 0 => WithPage[e] # 0
           /\ LET i == op.cursor.offset + 1
              IN  /\ i \in Nat
                  /\ i \in DOMAIN history[managed.account] =>
                        /\ <<managed.account, i>> \in Event
                        /\ WithPage[<<managed.account, i>>] = history[managed.account][i]
<1>1. PICK a \in Account, i \in Nat : a = managed.account /\ i = op.cursor.offset + 1
  BY DEF SyncOp, Cursor
<1>2. PICK events \in [Event -> {0} \cup Revision] : events = managed.state.events
  BY DEF BrokerType, Managed, SyncState
<1>3. WithPage = IF i \in DOMAIN history[a] THEN [events EXCEPT ![<<a, i>>] = history[a][i]] ELSE events
  BY <1>1, <1>2 DEF WithPage
<1>4. Advanced \in Cursor
  BY <1>1, Types DEF Advanced, Cursor
<1>5. history[a] \in Seq(Revision) /\ Len(history[a]) <= MaxEvents[a] /\ MaxEvents[a] \in Nat
  BY Constants DEF BrokerType, HistoryInv
<1>6. CASE i \in DOMAIN history[a]
  <2>1. i \in 1 .. MaxEvents[a] /\ history[a][i] \in Revision
    BY <1>5, <1>6
  <2>2. PICK e0 \in Event : e0 = <<a, i>>
    BY <2>1, Constants
  <2>3. e0[1] = a /\ e0[2] = i
    BY <2>2
  <2>4. Now(e0) = history[a][i]
    BY <1>6, <2>3 DEF Now
  <2>5. WithPage = [events EXCEPT ![e0] = history[a][i]]
    BY <1>3, <1>6, <2>2
  <2>6. history[a][i] # 0
    BY <2>1 DEF Revision
  <2>7. QED
    BY <1>1, <1>2, <1>4, <2>1, <2>2, <2>4, <2>5, <2>6
<1>7. CASE i \notin DOMAIN history[a]
  BY <1>1, <1>2, <1>3, <1>4, <1>7
<1>8. QED
  BY <1>6, <1>7

\* What the end of a scan leaves.
LEMMA ScanEnds ==
    ASSUME BrokerType, op \in SyncOp, op.phase = "scan", NEW cursor \in Cursor,
           NEW events \in [Event -> {0} \cup Revision], NEW partial \in BOOLEAN,
           EndScan(cursor, events, partial)
    PROVE  /\ op' = [op EXCEPT !.cursor = cursor, !.partial = partial, !.phase = "credentials"]
           /\ op' \in SyncOp
           /\ managed' = [managed EXCEPT !.state = [cursor |-> cursor, events |-> events]]
           /\ managed' \in Managed
<1>1. PICK o \in SyncOp : o = [op EXCEPT !.cursor = cursor, !.partial = partial]
  BY DEF SyncOp
<1>2. o.kind = "sync" /\ o.phase = "scan"
  BY <1>1 DEF SyncOp
<1>3. op' = [o EXCEPT !.phase = "credentials"]
  BY <1>1, <1>2, SyncProceeds DEF EndScan
<1>4. op' \in SyncOp
  BY <1>3 DEF SyncOp
<1>5. op' = [op EXCEPT !.cursor = cursor, !.partial = partial, !.phase = "credentials"]
  BY <1>1, <1>3 DEF SyncOp
<1>6. [cursor |-> cursor, events |-> events] \in SyncState
  BY DEF SyncState
<1>7. managed' = [managed EXCEPT !.state = [cursor |-> cursor, events |-> events]]
  BY DEF EndScan
<1>8. managed' \in Managed
  BY <1>6, <1>7 DEF BrokerType, Managed
<1>9. QED
  BY <1>4, <1>5, <1>7, <1>8

\* A step of a scan: it keeps the events or takes the page; and it goes on, where it is
\* or behind a complete page, or ends: behind a complete page, where it is, or, when
\* the broker has no more, at the start of the next scan.
ScanStep(events, cursor, partial) ==
    /\ \/ /\ managed' = [managed EXCEPT !.state.events = events]
          /\ op'.phase = "scan" /\ ~partial
       \/ /\ managed' = [managed EXCEPT !.state = [cursor |-> cursor, events |-> events]]
          /\ op'.phase = "credentials"
    /\ op' \in SyncOp /\ op'.cursor = cursor /\ op'.partial = partial /\ op'.from = op.from
    /\ op'.seen = op.seen /\ op'.done = op.done /\ op'.blocked = op.blocked
    /\ managed' \in Managed
    /\ \/ cursor = op.cursor
       \/ cursor = Advanced /\ events = WithPage
          /\ op.cursor.offset + 1 < Len(history[managed.account])
       \/ cursor = Start /\ events = WithPage /\ ~partial /\ op'.phase = "credentials"
          /\ ~(op.cursor.offset + 1 < Len(history[managed.account]))
    /\ op'.phase = "credentials" /\ ~partial =>
          events = WithPage /\ ~(op.cursor.offset + 1 < Len(history[managed.account]))

LEMMA ScanSteps ==
    ASSUME BrokerType, HistoryInv, SyncInv, managed.account \in Account,
           ReadPage \/ ReadFails \/ ReadPartialPage
    PROVE  /\ op \in SyncOp /\ op.phase = "scan"
           /\ \E events \in {managed.state.events, WithPage}, cursor \in Cursor, partial \in BOOLEAN :
                 ScanStep(events, cursor, partial)
<1>0. op \in SyncOp /\ op.phase = "scan" /\ op.kind = "sync" /\ op.partial = FALSE
  <2>1. op.phase = "scan"
    BY DEF ReadPage, ReadFails, ReadPartialPage, Scanning
  <2>2. op \in SyncOp
    BY <2>1, OpFacts
  <2>3. op.kind = "sync" /\ op.partial \in BOOLEAN
    BY <2>2 DEF SyncOp
  <2>4. ~op.partial
    BY <2>1, <2>3 DEF SyncInv
  <2>5. QED
    BY <2>1, <2>2, <2>3, <2>4
<1>1. PICK old \in [Event -> {0} \cup Revision] : old = managed.state.events
  BY DEF BrokerType, Managed, SyncState
<1>2. PICK new \in [Event -> {0} \cup Revision], ahead \in Cursor :
        new = WithPage /\ ahead = Advanced
  BY <1>0, PageFacts
<1>3. Start \in Cursor /\ op.cursor \in Cursor
  BY <1>0, Types DEF SyncOp
<1>4. ASSUME NEW cursor \in Cursor, NEW events \in {old, new}, NEW partial \in BOOLEAN,
             EndScan(cursor, events, partial),
             \/ cursor = op.cursor /\ partial
             \/ cursor = ahead /\ events = new /\ op.cursor.offset + 1 < Len(history[managed.account])
                /\ partial
             \/ cursor = Start /\ events = new /\ ~partial
                /\ ~(op.cursor.offset + 1 < Len(history[managed.account]))
      PROVE  ScanStep(events, cursor, partial)
  <2>1. events \in [Event -> {0} \cup Revision]
    BY <1>4
  <2>2. /\ op' = [op EXCEPT !.cursor = cursor, !.partial = partial, !.phase = "credentials"]
        /\ op' \in SyncOp
        /\ managed' = [managed EXCEPT !.state = [cursor |-> cursor, events |-> events]]
        /\ managed' \in Managed
    <3>1. cursor \in Cursor /\ partial \in BOOLEAN /\ EndScan(cursor, events, partial)
      BY <1>4
    <3>2. QED
      BY <1>0, <2>1, <3>1, ScanEnds
  <2>3. op'.cursor = cursor /\ op'.partial = partial /\ op'.phase = "credentials" /\ op'.from = op.from
        /\ op'.seen = op.seen /\ op'.done = op.done /\ op'.blocked = op.blocked
    BY <1>0, <2>2 DEF SyncOp
  <2>4. QED
    BY <1>2, <1>4, <2>2, <2>3 DEF ScanStep
<1>5. CASE ReadPage
  <2>1. CASE /\ op.cursor.offset + 1 < Len(history[managed.account]) /\ op.pages + 1 < MaxPages
    <3>1. managed' = [managed EXCEPT !.state.events = new]
          /\ op' = [op EXCEPT !.cursor = ahead, !.pages = @ + 1, !.attempts = 0]
      BY <1>2, <1>5, <2>1 DEF ReadPage
    <3>2. managed' \in Managed
      BY <3>1 DEF BrokerType, Managed, SyncState
    <3>7. op.pages + 1 \in 0 .. MaxPages - 1 /\ 0 \in 0 .. MaxAttempts - 1
      <4>1. op.pages \in 0 .. MaxPages - 1
        BY <1>0 DEF SyncOp
      <4>2. QED
        BY <2>1, <4>1, Constants
    <3>3. op' \in SyncOp
      BY <1>0, <3>1, <3>7 DEF SyncOp
    <3>4. op'.cursor = ahead /\ op'.partial = FALSE /\ op'.phase = "scan" /\ op'.from = op.from
          /\ op'.seen = op.seen /\ op'.done = op.done /\ op'.blocked = op.blocked
      BY <1>0, <3>1 DEF SyncOp
    <3>5. ScanStep(new, ahead, FALSE)
      BY <1>2, <2>1, <3>1, <3>2, <3>3, <3>4 DEF ScanStep
    <3>6. QED
      BY <1>0, <1>2, <3>5
  <2>2. CASE /\ op.cursor.offset + 1 < Len(history[managed.account]) /\ ~(op.pages + 1 < MaxPages)
    BY <1>0, <1>2, <1>4, <1>5, <2>2 DEF ReadPage
  <2>3. CASE ~(op.cursor.offset + 1 < Len(history[managed.account]))
    BY <1>0, <1>2, <1>3, <1>4, <1>5, <2>3 DEF ReadPage
  <2>4. QED
    BY <2>1, <2>2, <2>3
<1>6. CASE ReadFails
  <2>1. CASE EndScan(op.cursor, managed.state.events, TRUE)
    BY <1>0, <1>1, <1>3, <1>4, <2>1
  <2>2. CASE /\ op.attempts + 1 < MaxAttempts /\ op' = [op EXCEPT !.attempts = @ + 1]
             /\ managed' = managed
    <3>7. op.attempts + 1 \in 0 .. MaxAttempts - 1
      <4>1. op.attempts \in 0 .. MaxAttempts - 1
        BY <1>0 DEF SyncOp
      <4>2. QED
        BY <2>2, <4>1, Constants
    <3>1. op' \in SyncOp
      BY <1>0, <2>2, <3>7 DEF SyncOp
    <3>2. op'.cursor = op.cursor /\ op'.partial = FALSE /\ op'.phase = "scan" /\ op'.from = op.from
          /\ op'.seen = op.seen /\ op'.done = op.done /\ op'.blocked = op.blocked
      BY <1>0, <2>2 DEF SyncOp
    <3>3. managed' \in Managed /\ managed' = [managed EXCEPT !.state.events = old]
      BY <1>1, <2>2 DEF BrokerType, Managed, SyncState
    <3>4. ScanStep(old, op.cursor, FALSE)
      BY <3>1, <3>2, <3>3 DEF ScanStep
    <3>5. QED
      BY <1>0, <1>1, <1>3, <3>4
  <2>3. QED
    BY <1>6, <2>1, <2>2 DEF ReadFails
<1>7. CASE ReadPartialPage
  <2>1. PICK events \in {old, new} : EndScan(op.cursor, events, TRUE)
    BY <1>1, <1>2, <1>7 DEF ReadPartialPage
  <2>2. QED
    BY <1>0, <1>1, <1>2, <1>3, <1>4, <2>1
<1>8. QED
  BY <1>5, <1>6, <1>7

-----------------------------------------------------------------------------
(* The types are kept.                                                     *)

OpType_ == op = Idle \/ op \in RestoreOp \/ op \in AnswerOp \/ op \in SyncOp
UsedType == used \in [corrections : 0 .. MaxCorrections, requests : 0 .. MaxRequests,
                      faults : 0 .. MaxFaults, crashes : 0 .. MaxCrashes]
StatusType == status \in [kind : {"none", "connect", "disconnect", "restore_failed"}]
                            \cup [kind : {"synced"}, complete : {FALSE}] \cup AnswerType
DataType ==
    /\ history \in [Account -> Seq(Revision)]
    /\ credsFile \in Owner /\ stateFile \in SyncState /\ config \in BOOLEAN
    /\ loaded \in BOOLEAN /\ saved \in [account : Owner, state : SyncState]
    /\ managed \in Managed
    /\ journal \in [Event -> {0} \cup Revision]
    /\ wanted \in Owner \cup {"gone"}

LEMMA TypeParts == BrokerType <=> DataType /\ OpType_ /\ StatusType /\ UsedType
  BY DEF BrokerType, DataType, OpType_, StatusType, UsedType, RestoreOp, AnswerOp

LEMMA TypePartsNext == BrokerType' <=> DataType' /\ OpType_' /\ StatusType' /\ UsedType'
  BY DEF BrokerType, DataType, OpType_, StatusType, UsedType, RestoreOp, AnswerOp

LEMMA AbandonTypes ==
    ASSUME BrokerType, Abandon
    PROVE  OpType_' /\ StatusType' /\ UsedType'
<1>1. status' \in {status, [kind |-> "restore_failed"]} /\ op' = Idle
  BY DEF Abandon
<1>2. UsedType'
  BY Spends DEF Abandon, UsedType
<1>3. StatusType'
  <2>1. StatusType
    BY TypeParts
  <2>2. CASE status' = status
    BY <2>1, <2>2 DEF StatusType
  <2>3. CASE status' = [kind |-> "restore_failed"]
    BY <2>3 DEF StatusType
  <2>4. QED
    BY <1>1, <2>2, <2>3
<1>4. QED
  BY <1>1, <1>2, <1>3 DEF OpType_

LEMMA SpendTypes ==
    ASSUME BrokerType, Spend("requests", MaxRequests) \/ Spend("faults", MaxFaults)
                       \/ Spend("crashes", MaxCrashes) \/ Spend("corrections", MaxCorrections)
    PROVE  UsedType'
  BY Spends DEF UsedType

LEMMA StepTypes ==
    ASSUME BrokerType, HistoryInv, SyncInv, OwnerInv, Step
    PROVE  BrokerType'
<1>0. DataType /\ OpType_ /\ StatusType /\ UsedType
  BY TypeParts
<1>1. CASE Restore
  <2>1. CASE managed' = Bind(saved.account) /\ op' = Proceed(op) /\ UNCHANGED <<status, used>>
    <3>1. Bind(saved.account) \in Managed
      BY <1>0 DEF Bind, DataType, Managed
    <3>2. OpType_'
      BY <1>1, <2>1, GoesOn DEF Restore, OpType_
    <3>3. DataType'
      BY <1>0, <1>1, <2>1, <3>1 DEF Restore, DataType, broker, files
    <3>4. QED
      BY <1>0, <2>1, <3>2, <3>3, TypePartsNext DEF StatusType, UsedType
  <2>2. CASE Abandon /\ UNCHANGED managed
    <3>1. DataType'
      BY <1>0, <1>1, <2>2 DEF Restore, DataType, broker, files
    <3>2. QED
      BY <2>2, <3>1, AbandonTypes, TypePartsNext
  <2>3. QED
    BY <1>1, <2>1, <2>2 DEF Restore
<1>2. CASE SaveCredentials
  <2>1. DataType'
    BY <1>0, <1>2 DEF SaveCredentials, DataType, broker, memory
  <2>2. CASE op' = Proceed(op) /\ UNCHANGED <<status, used>>
    <3>1. OpType_'
      BY <1>2, <2>2, GoesOn DEF SaveCredentials, OpType_
    <3>2. QED
      BY <1>0, <2>1, <2>2, <3>1, TypePartsNext DEF StatusType, UsedType
  <2>3. CASE Abandon
    BY <2>1, <2>3, AbandonTypes, TypePartsNext
  <2>4. QED
    BY <1>2, <2>2, <2>3 DEF SaveCredentials
<1>3. CASE SaveState
  <2>1. CASE /\ stateFile' = IF managed.registered THEN managed.state ELSE saved.state
             /\ saved' = [saved EXCEPT !.state = stateFile']
             /\ op' = Proceed(op) /\ UNCHANGED <<status, used>>
    <3>1. stateFile' \in SyncState
      BY <1>0, <2>1 DEF DataType, Managed
    <3>2. saved' \in [account : Owner, state : SyncState]
      BY <1>0, <2>1, <3>1 DEF DataType
    <3>3. DataType'
      BY <1>0, <1>3, <3>1, <3>2 DEF SaveState, DataType, broker
    <3>4. OpType_'
      BY <1>3, <2>1, GoesOn DEF SaveState, OpType_
    <3>5. QED
      BY <1>0, <2>1, <3>3, <3>4, TypePartsNext DEF StatusType, UsedType
  <2>2. CASE Abandon /\ UNCHANGED <<stateFile, saved>>
    <3>1. DataType'
      BY <1>0, <1>3, <2>2 DEF SaveState, DataType, broker
    <3>2. QED
      BY <2>2, <3>1, AbandonTypes, TypePartsNext
  <2>3. QED
    BY <1>3, <2>1, <2>2 DEF SaveState
<1>4. CASE SaveConfig
  <2>1. op' = Idle /\ op.kind \in {"connect", "disconnect"}
    BY <1>4, GoesOn, OpFacts DEF SaveConfig, AnswerOp
  <2>2. status' = [kind |-> op.kind]
    BY <1>4 DEF SaveConfig
  <2>3. DataType'
    BY <1>0, <1>4 DEF SaveConfig, DataType, Managed, Owner, broker, memory
  <2>4. UsedType'
    BY <1>0, <1>4 DEF SaveConfig, UsedType
  <2>5. QED
    BY <2>1, <2>2, <2>3, <2>4, TypePartsNext DEF OpType_, StatusType
<1>5. CASE ReadPage \/ ReadFails \/ ReadPartialPage
  <2>1. managed.account \in Account
    <3>1. op.kind = "sync"
      BY <1>5, OpFacts DEF ReadPage, ReadFails, ReadPartialPage, Scanning, SyncOp
    <3>2. QED
      BY <3>1 DEF OwnerInv
  <2>2. op' \in SyncOp /\ managed' \in Managed
    BY <1>5, <2>1, ScanSteps DEF ScanStep
  <2>3. UNCHANGED <<broker, files, loaded, saved, journal, status, wanted>>
    BY <1>5 DEF ReadPage, ReadFails, ReadPartialPage
  <2>4. UsedType'
    BY <1>0, <1>5, SpendTypes DEF ReadPage, ReadFails, ReadPartialPage, UsedType
  <2>5. DataType'
    BY <1>0, <2>2, <2>3 DEF DataType, broker, files
  <2>6. QED
    BY <1>0, <2>2, <2>3, <2>4, <2>5, TypePartsNext DEF OpType_, StatusType
<1>6. ASSUME NEW e \in Event, Import(e) PROVE BrokerType'
  <2>1. op \in SyncOp /\ e \in Event
    BY <1>6, OpFacts DEF Import
  <2>2. CASE /\ journal' = [journal EXCEPT ![e] = managed.state.events[e]]
             /\ op' = [op EXCEPT !.done = @ \cup {e}] /\ UNCHANGED used
    <3>1. op' \in SyncOp
      BY <2>1, <2>2 DEF SyncOp
    <3>2. journal' \in [Event -> {0} \cup Revision]
      BY <1>0, <2>2 DEF DataType, Managed, SyncState
    <3>3. DataType'
      BY <1>0, <1>6, <3>2 DEF Import, DataType, broker, files, memory
    <3>4. QED
      BY <1>0, <1>6, <2>2, <3>1, <3>3, TypePartsNext DEF Import, OpType_, StatusType, UsedType
  <2>3. CASE /\ Spend("faults", MaxFaults)
             /\ op' = [op EXCEPT !.done = @ \cup {e}, !.partial = TRUE] /\ UNCHANGED journal
    <3>1. op' \in SyncOp
      BY <2>1, <2>3 DEF SyncOp
    <3>2. DataType'
      BY <1>0, <1>6, <2>3 DEF Import, DataType, broker, files, memory
    <3>3. UsedType'
      BY <2>3, SpendTypes
    <3>4. QED
      BY <1>0, <1>6, <3>1, <3>2, <3>3, TypePartsNext DEF Import, OpType_, StatusType
  <2>4. QED
    BY <1>6, <2>2, <2>3 DEF Import
<1>7. CASE SyncDone
  <2>1. op \in SyncOp /\ op.kind = "sync" /\ op.phase = "import"
    BY <1>7, OpFacts DEF SyncDone, SyncOp
  <2>2. op' = Idle
    BY <1>7, <2>1, SyncProceeds DEF SyncDone
  <2>3. managed.account \in Account
    BY <2>1 DEF OwnerInv
  <2>4. StatusType'
    <3>1. ~op.partial => Answer \in AnswerType
      BY <2>1, <2>3 DEF Answer, AnswerType, SyncOp
    <3>2. status' = IF op.partial THEN [kind |-> "synced", complete |-> FALSE] ELSE Answer
      BY <1>7 DEF SyncDone
    <3>3. QED
      BY <3>1, <3>2 DEF StatusType
  <2>5. DataType' /\ UsedType'
    BY <1>0, <1>7 DEF SyncDone, DataType, UsedType, broker, files, memory
  <2>6. QED
    BY <2>2, <2>4, <2>5, TypePartsNext DEF OpType_
<1>8. QED
  BY <1>1, <1>2, <1>3, <1>4, <1>5, <1>6, <1>7 DEF Step

LEMMA RequestTypes ==
    ASSUME BrokerType, OwnerInv, Request
    PROVE  BrokerType'
<1>0. DataType /\ OpType_ /\ StatusType /\ UsedType
  BY TypeParts
<1>1. CASE Load
  <2>1. [kind |-> "restore", phase |-> "bind"] \in RestoreOp
    BY DEF RestoreOp
  <2>2. OpType_'
    BY <1>1, <2>1 DEF Load, OpType_
  <2>3. DataType'
    BY <1>0, <1>1 DEF Load, DataType, broker, files
  <2>4. QED
    BY <1>0, <1>1, <2>2, <2>3, TypePartsNext DEF Load, StatusType, UsedType
<1>2. CASE Disconnect
  <2>1. [kind |-> "disconnect", phase |-> "credentials"] \in AnswerOp
    BY DEF AnswerOp
  <2>2. [Unmanaged EXCEPT !.registered = TRUE, !.revoked = TRUE] \in Managed
    BY Types DEF Managed
  <2>3. DataType'
    BY <1>0, <1>2, <2>2, Types DEF Disconnect, DataType, broker, files
  <2>4. UsedType'
    BY <1>2, SpendTypes DEF Disconnect
  <2>5. QED
    BY <1>0, <1>2, <2>1, <2>3, <2>4, TypePartsNext DEF Disconnect, OpType_, StatusType
<1>3. CASE SyncStart
  <2>0. managed.account \in Account /\ history[managed.account] \in Seq(Revision)
        /\ managed.state.cursor \in Cursor
    BY <1>0, <1>3 DEF SyncStart, OwnerInv, DataType, Managed, SyncState
  <2>1. PICK sync \in SyncOp : sync = Sync(managed.state.cursor, history[managed.account])
    <3>1. 0 \in 0 .. MaxPages - 1 /\ 0 \in 0 .. MaxAttempts - 1 /\ {} \in SUBSET Event
      BY Constants
    <3>2. \A cursor \in Cursor, seen \in Seq(Revision) : Sync(cursor, seen) \in SyncOp
      BY <3>1 DEF Sync, SyncOp
    <3>3. QED
      BY <2>0, <3>2
  <2>2. [sync EXCEPT !.blocked = TRUE, !.partial = TRUE, !.phase = "credentials"] \in SyncOp
    BY DEF SyncOp
  <2>3. op' \in SyncOp
    BY <1>3, <2>1, <2>2 DEF SyncStart
  <2>4. UsedType'
    BY <1>0, <1>3, SpendTypes DEF SyncStart, UsedType
  <2>5. DataType'
    BY <1>0, <1>3 DEF SyncStart, DataType, broker, files, memory
  <2>6. QED
    BY <1>0, <1>3, <2>3, <2>4, <2>5, TypePartsNext DEF SyncStart, OpType_, StatusType
<1>4. CASE SyncRevoked
  <2>1. DataType' /\ UsedType' /\ OpType_'
    BY <1>0, <1>4 DEF SyncRevoked, DataType, UsedType, OpType_, broker, files, memory
  <2>2. StatusType'
    BY <1>4 DEF SyncRevoked, StatusType
  <2>3. QED
    BY <2>1, <2>2, TypePartsNext
<1>5. ASSUME NEW a \in Account, Connect(a) PROVE BrokerType'
  <2>1. [kind |-> "connect", phase |-> "credentials"] \in AnswerOp
    BY DEF AnswerOp
  <2>2. Bind(a) \in Managed
    BY <1>0, Types DEF Bind, DataType, Managed
  <2>3. DataType'
    BY <1>0, <1>5, <2>2, Types DEF Connect, DataType, broker, files
  <2>4. UsedType'
    BY <1>5, SpendTypes DEF Connect
  <2>5. QED
    BY <1>0, <1>5, <2>1, <2>3, <2>4, TypePartsNext DEF Connect, OpType_, StatusType
<1>6. QED
  BY <1>1, <1>2, <1>3, <1>4, <1>5 DEF Request

-----------------------------------------------------------------------------
(* The broker's history only grows.                                        *)

HistoryGrows ==
    \A b \in Account : /\ Len(history[b]) <= Len(history'[b])
                       /\ \A i \in DOMAIN history[b] : history[b][i] <= history'[b][i]

LEMMA Revisions == 1 \in Revision /\ \A r \in {0} \cup Revision : r \in Nat
  BY Constants DEF Revision

LEMMA NowType ==
    ASSUME NEW h \in [Account -> Seq(Revision)], NEW e \in Event
    PROVE  (IF e[2] \in DOMAIN h[e[1]] THEN h[e[1]][e[2]] ELSE 0) \in Nat
<1>1. PICK a \in Account, i \in Nat : e[1] = a /\ e[2] = i
  BY Constants
<1>2. h[a] \in Seq(Revision)
  OBVIOUS
<1>3. i \in DOMAIN h[a] => h[a][i] \in Nat
  <2>1. i \in DOMAIN h[a] => h[a][i] \in Revision
    BY <1>2
  <2>2. QED
    BY <2>1, Revisions
<1>4. QED
  BY <1>1, <1>3

LEMMA NowGrows ==
    ASSUME BrokerType, BrokerType', HistoryGrows, NEW e \in Event
    PROVE  Now(e) \in Nat /\ Now(e)' \in Nat /\ Now(e) <= Now(e)'
<1>1. PICK a \in Account, i \in Nat : e[1] = a /\ e[2] = i
  BY Constants
<1>2. history[a] \in Seq(Revision) /\ history'[a] \in Seq(Revision)
  BY DEF BrokerType
<1>3. Len(history[a]) <= Len(history'[a]) /\ Len(history[a]) \in Nat /\ Len(history'[a]) \in Nat
      /\ \A j \in DOMAIN history[a] : history[a][j] <= history'[a][j]
  BY <1>2 DEF HistoryGrows
<1>4. Now(e) \in Nat /\ Now(e)' \in Nat
  BY NowType DEF BrokerType, Now
<1>5. CASE i \in DOMAIN history[a]
  <2>1. i \in DOMAIN history'[a]
    BY <1>2, <1>3, <1>5
  <2>2. QED
    BY <1>1, <1>3, <1>4, <1>5, <2>1 DEF Now
<1>6. CASE i \notin DOMAIN history[a]
  BY <1>1, <1>4, <1>6 DEF Now
<1>7. QED
  BY <1>5, <1>6

LEMMA BrokerMoves ==
    ASSUME BrokerType, HistoryInv, NEW a \in Account, Execute(a) \/ Correct(a)
    PROVE  BrokerType' /\ HistoryInv' /\ HistoryGrows
<1>0. /\ DataType /\ OpType_ /\ StatusType /\ UsedType
      /\ history \in [Account -> Seq(Revision)] /\ history[a] \in Seq(Revision)
      /\ used.corrections \in 0 .. MaxCorrections /\ MaxCorrections \in Nat
      /\ MaxEvents[a] \in Nat
  BY TypeParts, Constants DEF DataType, UsedType
<1>1. \A b \in Account : /\ history[b] \in Seq(Revision) /\ Len(history[b]) \in Nat
                         /\ Len(history[b]) <= MaxEvents[b]
                         /\ \A i \in DOMAIN history[b] : /\ history[b][i] \in Revision
                                                         /\ history[b][i] \in Nat
                                                         /\ history[b][i] <= 1 + used.corrections
  <2> SUFFICES ASSUME NEW b \in Account
               PROVE  /\ history[b] \in Seq(Revision) /\ Len(history[b]) \in Nat
                      /\ Len(history[b]) <= MaxEvents[b]
                      /\ \A i \in DOMAIN history[b] : /\ history[b][i] \in Revision
                                                      /\ history[b][i] \in Nat
                                                      /\ history[b][i] <= 1 + used.corrections
    OBVIOUS
  <2>1. history[b] \in Seq(Revision)
    BY <1>0
  <2>2. \A i \in DOMAIN history[b] : history[b][i] \in Revision
    BY <2>1
  <2>3. \A i \in DOMAIN history[b] : history[b][i] \in Nat
    BY <2>2, Revisions
  <2>4. Len(history[b]) <= MaxEvents[b] /\ \A i \in DOMAIN history[b] : history[b][i] <= 1 + used.corrections
    BY DEF HistoryInv
  <2>5. Len(history[b]) \in Nat
    BY <2>1
  <2>6. QED
    BY <2>1, <2>2, <2>3, <2>4, <2>5
<1>2. Revision \subseteq Nat
  BY <1>0 DEF Revision
<1>3. CASE Execute(a)
  <2>1. PICK h \in Seq(Revision) : h = Append(history[a], 1)
    <3>1. Append(history[a], 1) \in Seq(Revision)
      <4>1. 1 \in Revision
        BY Revisions
      <4>2. QED
        BY <1>0, <4>1
    <3>2. QED
      BY <3>1
  <2>2. history' = [history EXCEPT ![a] = h] /\ history' \in [Account -> Seq(Revision)]
        /\ UNCHANGED <<files, memory, journal, op, status, wanted, used>>
    BY <1>0, <1>3, <2>1 DEF Execute
  <2>3. Len(h) = Len(history[a]) + 1 /\ h[Len(history[a]) + 1] = 1
        /\ \A i \in DOMAIN history[a] : h[i] = history[a][i]
    BY <1>0, <2>1
  <2>4. Len(h) <= MaxEvents[a]
    BY <1>0, <1>1, <1>3, <2>3 DEF Execute
  <2>5. \A i \in DOMAIN h : h[i] <= 1 + used.corrections
    <3> SUFFICES ASSUME NEW i \in DOMAIN h PROVE h[i] <= 1 + used.corrections
      OBVIOUS
    <3>1. i \in DOMAIN history[a] \/ i = Len(history[a]) + 1
      BY <1>1, <2>1, <2>3
    <3>2. QED
      BY <1>0, <1>1, <2>3, <3>1
  <2>6. DataType' /\ OpType_' /\ StatusType' /\ UsedType'
    BY <1>0, <2>2 DEF DataType, OpType_, StatusType, UsedType, files, memory
  <2>7. HistoryInv'
    BY <1>1, <2>2, <2>4, <2>5 DEF HistoryInv
  <2>8. ASSUME NEW b \in Account, NEW i \in DOMAIN history[b] PROVE history[b][i] <= history'[b][i]
    <3>1. history[b][i] \in Nat
      BY <1>1
    <3>2. history'[b][i] = history[b][i]
      BY <1>0, <2>2, <2>3
    <3>3. QED
      BY <3>1, <3>2
  <2>9. HistoryGrows
    BY <1>1, <2>2, <2>3, <2>8 DEF HistoryGrows
  <2>10. QED
    BY <2>6, <2>7, <2>9, TypePartsNext
<1>4. CASE Correct(a)
  <2>1. PICK i \in DOMAIN history[a] :
          /\ Spend("corrections", MaxCorrections)
          /\ history' = [history EXCEPT ![a][i] = @ + 1]
    BY <1>4 DEF Correct
  <2>2. UNCHANGED <<files, memory, journal, op, status, wanted>>
    BY <1>4 DEF Correct
  <2>3. used'.corrections = used.corrections + 1 /\ UsedType'
        /\ used'.corrections \in 0 .. MaxCorrections
    BY <2>1, Spends DEF UsedType
  <2>4. history[a][i] + 1 \in Revision
    BY <1>0, <1>1, <1>2, <2>3 DEF Revision
  <2>5. PICK h \in Seq(Revision) : h = [history[a] EXCEPT ![i] = history[a][i] + 1]
    <3>1. [history[a] EXCEPT ![i] = history[a][i] + 1] \in Seq(Revision)
      <4>1. PICK n \in Nat : DOMAIN history[a] = 1 .. n /\ history[a] \in [1 .. n -> Revision]
        BY <1>0
      <4>2. [history[a] EXCEPT ![i] = history[a][i] + 1] \in [1 .. n -> Revision]
        BY <2>4, <4>1
      <4>3. \A q \in [1 .. n -> Revision] : q \in Seq(Revision)
        OBVIOUS
      <4>4. QED
        BY <4>2, <4>3
    <3>2. QED
      BY <3>1
  <2>6. history' = [history EXCEPT ![a] = h] /\ history' \in [Account -> Seq(Revision)]
    BY <1>0, <2>1, <2>5
  <2>7. Len(h) = Len(history[a]) /\ DOMAIN h = DOMAIN history[a]
        /\ \A j \in DOMAIN history[a] : h[j] = IF j = i THEN history[a][i] + 1 ELSE history[a][j]
    BY <1>0, <2>5
  <2>8. \A j \in DOMAIN h : h[j] <= 1 + used'.corrections /\ history[a][j] <= h[j]
    <3> SUFFICES ASSUME NEW j \in DOMAIN history[a]
                 PROVE  h[j] <= 1 + used'.corrections /\ history[a][j] <= h[j]
      BY <2>7
    <3>1. history[a][j] \in Nat /\ history[a][i] \in Nat /\ history[a][j] <= 1 + used.corrections
          /\ history[a][i] <= 1 + used.corrections
      BY <1>1
    <3>2. h[j] = IF j = i THEN history[a][i] + 1 ELSE history[a][j]
      BY <2>7
    <3>3. QED
      BY <1>0, <2>3, <3>1, <3>2
  <2>9. DataType' /\ OpType_' /\ StatusType'
    BY <1>0, <2>2, <2>6 DEF DataType, OpType_, StatusType, files, memory
  <2>10. HistoryInv'
    <3> SUFFICES ASSUME NEW b \in Account
                 PROVE  /\ Len(history'[b]) <= MaxEvents[b]
                        /\ \A j \in DOMAIN history'[b] : history'[b][j] <= 1 + used'.corrections
      BY DEF HistoryInv
    <3>1. CASE b = a
      BY <1>1, <2>6, <2>7, <2>8, <3>1
    <3>2. CASE b # a
      <4>1. history'[b] = history[b]
        BY <2>6, <3>2
      <4>2. \A j \in DOMAIN history[b] : history[b][j] \in Nat /\ history[b][j] <= 1 + used.corrections
        BY <1>1
      <4>3. \A j \in DOMAIN history[b] : history[b][j] <= 1 + used'.corrections
        BY <1>0, <2>3, <4>2
      <4>4. QED
        BY <1>1, <4>1, <4>3
    <3>3. QED
      BY <3>1, <3>2
  <2>11. HistoryGrows
    <3> SUFFICES ASSUME NEW b \in Account
                 PROVE  /\ Len(history[b]) <= Len(history'[b])
                        /\ \A j \in DOMAIN history[b] : history[b][j] <= history'[b][j]
      BY DEF HistoryGrows
    <3>1. CASE b = a
      BY <1>1, <2>6, <2>7, <2>8, <3>1
    <3>2. CASE b # a
      <4>1. history'[b] = history[b]
        BY <2>6, <3>2
      <4>2. \A j \in DOMAIN history[b] : history[b][j] \in Nat
        BY <1>1
      <4>3. QED
        BY <1>1, <4>1, <4>2
    <3>3. QED
      BY <3>1, <3>2
  <2>12. QED
    BY <2>3, <2>9, <2>10, <2>11, TypePartsNext
<1>5. QED
  BY <1>3, <1>4

-----------------------------------------------------------------------------
(* What the manager and its files know of the broker.                      *)

LEMMA KnownKept ==
    ASSUME BrokerType, BrokerType', HistoryGrows, KnownInv, journal' = journal,
           NEW known, known = {stateFile, saved.state, managed.state, Fresh},
           stateFile' \in known, saved'.state \in known, managed'.state \in known
    PROVE  KnownInv'
<1>1. known \subseteq SyncState
  BY Types DEF BrokerType, Managed
<1>2. \A e \in Event : /\ Now(e) \in Nat /\ Now(e)' \in Nat /\ Now(e) <= Now(e)' /\ journal[e] \in Nat
                       /\ journal[e] <= Now(e) /\ journal'[e] = journal[e]
  <2> SUFFICES ASSUME NEW e \in Event
               PROVE  /\ Now(e) \in Nat /\ Now(e)' \in Nat /\ Now(e) <= Now(e)' /\ journal[e] \in Nat
                      /\ journal[e] <= Now(e) /\ journal'[e] = journal[e]
    OBVIOUS
  <2>1. Now(e) \in Nat /\ Now(e)' \in Nat /\ Now(e) <= Now(e)'
    BY NowGrows
  <2>2. journal[e] \in Nat
    BY Revisions DEF BrokerType
  <2>3. QED
    BY <2>1, <2>2 DEF KnownInv
<1>3. \A state \in known : StateInv(state)
  <2>1. StateInv(Fresh)
    BY <1>2, Types, Constants DEF StateInv, Covers, EventsInv
  <2>2. QED
    BY <2>1 DEF KnownInv
<1>4. ASSUME NEW state \in known PROVE StateInv(state)'
  <2>1. StateInv(state) /\ \A e \in Event : state.events[e] \in Nat
    BY <1>1, <1>3, Revisions DEF SyncState
  <2>2. QED
    BY <1>2, <2>1 DEF StateInv, Covers, EventsInv
<1>5. StateInv(stateFile)' /\ StateInv(saved.state)' /\ StateInv(managed.state)'
  BY <1>4 DEF StateInv, Covers, EventsInv
<1>6. QED
  BY <1>2, <1>5 DEF KnownInv

-----------------------------------------------------------------------------
(* One step of a scan keeps what is known and what the sync owes.          *)

LEMMA ScanKeeps ==
    ASSUME BrokerType, HistoryInv, KnownInv, SyncInv, managed.account \in Account,
           ReadPage \/ ReadFails \/ ReadPartialPage
    PROVE  KnownInv' /\ SyncInv'
<1>1. PICK events \in {managed.state.events, WithPage}, cursor \in Cursor, partial \in BOOLEAN :
        ScanStep(events, cursor, partial)
  BY ScanSteps
<1>2. op \in SyncOp /\ op.phase = "scan" /\ op.kind = "sync" /\ op' \in SyncOp /\ op'.kind = "sync"
  BY <1>1, ScanSteps DEF ScanStep, SyncOp
<1>3. /\ history' = history /\ stateFile' = stateFile /\ saved' = saved /\ journal' = journal
  BY DEF ReadPage, ReadFails, ReadPartialPage, broker, files
<1>4. PICK a \in Account, h \in Seq(Revision), seen \in Seq(Revision), now \in Cursor, old \in [Event -> {0} \cup Revision] :
        a = managed.account /\ h = history[a] /\ seen = op.seen /\ now = op.cursor
        /\ old = managed.state.events
  BY <1>2 DEF BrokerType, SyncOp, Managed, SyncState
<1>5. /\ events \in [Event -> {0} \cup Revision]
      /\ \A e \in Event : events[e] \in Nat /\ Now(e) \in Nat /\ journal[e] \in Nat
      /\ \A e \in Event : events[e] = old[e] \/ events[e] = Now(e)
      /\ \A e \in Event : old[e] # 0 => events[e] # 0
  <2>1. /\ WithPage \in [Event -> {0} \cup Revision]
        /\ \A e \in Event : WithPage[e] = managed.state.events[e] \/ WithPage[e] = Now(e)
        /\ \A e \in Event : managed.state.events[e] # 0 => WithPage[e] # 0
    BY <1>2, PageFacts
  <2>2. events \in [Event -> {0} \cup Revision]
    BY <1>4, <2>1
  <2>3. \A e \in Event : events[e] \in Nat /\ Now(e) \in Nat /\ journal[e] \in Nat
    BY <2>2, Revisions, NowType DEF BrokerType, Now
  <2>4. QED
    BY <1>4, <2>1, <2>2, <2>3
<1>6. /\ MaxEvents[a] \in Nat /\ Len(h) <= MaxEvents[a] /\ Len(seen) <= Len(h)
      /\ \A i \in DOMAIN h : <<a, i>> \in Event /\ Now(<<a, i>>) = h[i] /\ h[i] \in Nat /\ h[i] # 0
      /\ \A i \in DOMAIN seen : /\ i \in DOMAIN h /\ seen[i] <= h[i] /\ seen[i] \in Nat /\ seen[i] # 0
                                /\ Owed(op.from, seen, i) \in Nat
                                /\ 1 <= Owed(op.from, seen, i) /\ Owed(op.from, seen, i) <= seen[i]
  <2>1. MaxEvents[a] \in Nat /\ Len(h) <= MaxEvents[a] /\ Len(seen) <= Len(h)
    BY <1>2, <1>4, Constants DEF HistoryInv, SyncInv
  <2>2. \A i \in DOMAIN h : h[i] \in Revision
    BY <1>4
  <2>3. \A i \in DOMAIN seen : seen[i] \in Revision
    BY <1>4
  <2>4. \A r \in Revision : r \in Nat /\ r # 0
    BY DEF Revision
  <2>5. \A i \in DOMAIN h : <<a, i>> \in Event /\ Now(<<a, i>>) = h[i]
    <3> SUFFICES ASSUME NEW i \in DOMAIN h PROVE <<a, i>> \in Event /\ Now(<<a, i>>) = h[i]
      OBVIOUS
    <3>1. i \in 1 .. MaxEvents[a] /\ i \in Nat
      BY <2>1
    <3>2. QED
      BY <1>4, <3>1, Constants DEF Now
  <2>6. \A i \in DOMAIN seen : i \in DOMAIN h /\ seen[i] <= h[i]
    <3>1. \A i \in DOMAIN op.seen : op.seen[i] <= history[managed.account][i]
      BY <1>2 DEF SyncInv
    <3>2. \A i \in DOMAIN seen : i \in DOMAIN h
      BY <1>4, <2>1
    <3>3. QED
      BY <1>4, <3>1, <3>2
  <2>7. \A i \in DOMAIN seen : Owed(op.from, seen, i) \in {seen[i], 1}
    BY DEF Owed
  <2>8. ASSUME NEW i \in DOMAIN seen
        PROVE  /\ i \in DOMAIN h /\ seen[i] <= h[i] /\ seen[i] \in Nat /\ seen[i] # 0
               /\ Owed(op.from, seen, i) \in Nat
               /\ 1 <= Owed(op.from, seen, i) /\ Owed(op.from, seen, i) <= seen[i]
    <3>1. PICK n : n = seen[i]
      OBVIOUS
    <3>2. n \in Nat /\ n # 0 /\ Owed(op.from, seen, i) \in {n, 1}
      BY <2>3, <2>4, <2>7, <3>1
    <3>3. QED
      BY <2>6, <3>1, <3>2
  <2>9. \A i \in DOMAIN h : h[i] \in Nat /\ h[i] # 0
    BY <2>2, <2>4
  <2>10. QED
    BY <2>1, <2>5, <2>8, <2>9
\* The page holds the execution at the cursor, if the broker has one there.
<1>7. /\ now.offset \in Nat
      /\ events = WithPage /\ now.offset + 1 \in DOMAIN h => events[<<a, now.offset + 1>>] = h[now.offset + 1]
  BY <1>2, <1>4, PageFacts DEF Cursor
<1>8. Covers(now, old)
  BY <1>2, <1>4 DEF SyncInv
<1>9. cursor # now => /\ events = WithPage
                      /\ \/ /\ cursor = [of |-> IF now = Start \/ now.of = a THEN a ELSE "none",
                                         offset |-> now.offset + 1]
                            /\ now.offset + 1 \in DOMAIN h
                         \/ cursor = Start /\ op'.phase = "credentials"
  BY <1>1, <1>4, <1>7 DEF ScanStep, Advanced
<1>10. Covers(cursor, events)
  <2>1. CASE cursor = now
    <3>1. ASSUME now.of \in Account, NEW i \in 1 .. now.offset PROVE <<now.of, i>> \in Event
      <4>1. MaxEvents[now.of] \in Nat /\ now.offset <= MaxEvents[now.of]
        BY <1>8, <3>1, Constants DEF Covers
      <4>2. i \in Nat /\ i \in 1 .. MaxEvents[now.of]
        BY <1>7, <3>1, <4>1
      <4>3. QED
        BY <3>1, <4>2, Constants
    <3>2. QED
      BY <1>5, <1>8, <2>1, <3>1 DEF Covers
  <2>2. CASE cursor = Start
    BY <2>2, Types, Constants DEF Covers
  <2>3. CASE /\ cursor = [of |-> IF now = Start \/ now.of = a THEN a ELSE "none",
                          offset |-> now.offset + 1]
             /\ now.offset + 1 \in DOMAIN h /\ events = WithPage
    <3>1. CASE ~(now = Start \/ now.of = a)
      BY <2>3, <3>1, Constants DEF Covers
    <3>2. CASE now = Start \/ now.of = a
      <4>1. cursor.of = a /\ cursor.offset = now.offset + 1
        BY <2>3, <3>2
      <4>2. now.offset + 1 <= MaxEvents[a] /\ events[<<a, now.offset + 1>>] # 0
        BY <1>6, <1>7, <2>3
      <4>3. ASSUME NEW i \in 1 .. now.offset PROVE events[<<a, i>>] # 0
        <5>1. now # Start
          BY <4>3, Types
        <5>2. now.of = a /\ old[<<a, i>>] # 0
          BY <1>8, <3>2, <4>3, <5>1 DEF Covers
        <5>3. <<a, i>> \in Event
          <6>1. i \in Nat /\ i \in 1 .. MaxEvents[a]
            BY <1>6, <1>7, <4>2, <4>3
          <6>2. QED
            BY <6>1, Constants
        <5>4. QED
          BY <1>5, <5>2, <5>3
      <4>4. \A i \in 1 .. now.offset + 1 : i \in 1 .. now.offset \/ i = now.offset + 1
        BY <1>7
      <4>5. QED
        BY <4>1, <4>2, <4>3, <4>4 DEF Covers
    <3>3. QED
      BY <3>1, <3>2
  <2>4. QED
    BY <1>9, <2>1, <2>2, <2>3
<1>11. \A e \in Event : events[e] <= Now(e) /\ (events[e] # 0 => journal[e] <= events[e])
  <2>1. \A e \in Event : /\ old[e] <= Now(e) /\ (old[e] # 0 => journal[e] <= old[e])
                         /\ journal[e] <= Now(e)
    BY <1>4 DEF KnownInv, StateInv, EventsInv
  <2>2. ASSUME NEW e \in Event PROVE events[e] <= Now(e) /\ (events[e] # 0 => journal[e] <= events[e])
    <3>1. PICK n \in Nat : n = Now(e)
      BY <1>5
    <3>2. events[e] \in {old[e], n}
      BY <1>5, <3>1
    <3>3. QED
      BY <1>5, <2>1, <3>1, <3>2
  <2>3. QED
    BY <2>2
<1>12. KnownInv'
  <2>1. /\ managed'.state.events = events
        /\ managed'.state.cursor = cursor \/ managed'.state.cursor = managed.state.cursor
    BY <1>1 DEF ScanStep, BrokerType, Managed, SyncState
  <2>2. Covers(managed.state.cursor, events)
    <3>1. Covers(managed.state.cursor, old) /\ managed.state.cursor \in Cursor
      BY <1>4 DEF KnownInv, StateInv, BrokerType, Managed, SyncState
    <3>2. PICK c \in Cursor : c = managed.state.cursor
      BY <3>1
    <3>3. ASSUME c.of \in Account, NEW i \in 1 .. c.offset PROVE <<c.of, i>> \in Event
      <4>1. MaxEvents[c.of] \in Nat /\ c.offset <= MaxEvents[c.of] /\ c.offset \in Nat
        BY <3>1, <3>2, <3>3, Constants DEF Covers, Cursor
      <4>2. i \in Nat /\ i \in 1 .. MaxEvents[c.of]
        BY <3>3, <4>1
      <4>3. QED
        BY <3>3, <4>2, Constants
    <3>4. QED
      BY <1>5, <3>1, <3>2, <3>3 DEF Covers
  <2>3. Covers(managed'.state.cursor, managed'.state.events)
    BY <1>10, <2>1, <2>2
  <2>4. \A e \in Event : Now(e)' = Now(e)
    BY <1>3 DEF Now
  <2>5. StateInv(managed.state)'
    BY <1>3, <1>11, <2>1, <2>3, <2>4 DEF StateInv, EventsInv, Covers
  <2>6. StateInv(stateFile)' /\ StateInv(saved.state)' /\ \A e \in Event : journal'[e] <= Now(e)'
    BY <1>3, <2>4 DEF KnownInv, StateInv, EventsInv, Covers
  <2>7. QED
    BY <2>5, <2>6 DEF KnownInv
\* What the sync owes up to the cursor, and all of it at the end.
<1>13. Follows(op.from, a) =>
         /\ Follows(now, a)
         /\ \A i \in DOMAIN seen : i <= now.offset => old[<<a, i>>] >= Owed(op.from, seen, i)
  BY <1>2, <1>4 DEF SyncInv
<1>14. ASSUME Follows(op.from, a), NEW i \in DOMAIN seen,
              i <= now.offset \/ (i = now.offset + 1 /\ events = WithPage)
       PROVE  events[<<a, i>>] >= Owed(op.from, seen, i)
  <2>1. <<a, i>> \in Event /\ Now(<<a, i>>) = h[i] /\ h[i] \in Nat /\ seen[i] <= h[i]
        /\ seen[i] \in Nat /\ Owed(op.from, seen, i) \in Nat /\ Owed(op.from, seen, i) <= seen[i]
        /\ i \in DOMAIN h
    BY <1>6
  <2>2. events[<<a, i>>] \in Nat /\ events[<<a, i>>] \in {old[<<a, i>>], h[i]}
    BY <1>5, <2>1
  <2>3. CASE events[<<a, i>>] = h[i]
    BY <2>1, <2>2, <2>3
  <2>4. CASE events[<<a, i>>] = old[<<a, i>>] /\ i <= now.offset
    BY <1>13, <1>14, <2>4
  <2>5. CASE i = now.offset + 1 /\ events = WithPage
    BY <1>7, <2>1, <2>3, <2>5
  <2>6. QED
    BY <1>14, <2>2, <2>3, <2>4, <2>5
<1>15. managed'.account = a /\ managed'.state.events = events
  BY <1>1, <1>4 DEF ScanStep, BrokerType, Managed, SyncState
<1>16. op'.phase \in {"scan", "credentials"} /\ op'.from = op.from /\ op'.seen = seen
       /\ op'.done = {} /\ op'.blocked = FALSE /\ op'.cursor = cursor /\ op'.partial = partial
       /\ (op'.phase = "scan" => ~partial)
  <2>1. op.done = {} /\ ~op.blocked /\ op.blocked \in BOOLEAN
    BY <1>2 DEF SyncInv, SyncOp
  <2>2. QED
    BY <1>1, <1>4, <2>1 DEF ScanStep
<1>17. ASSUME op'.phase = "scan", Follows(op.from, a)
       PROVE  /\ Follows(cursor, a)
              /\ \A i \in DOMAIN seen : i <= cursor.offset => events[<<a, i>>] >= Owed(op.from, seen, i)
  <2>1. CASE cursor = now
    BY <1>13, <1>14, <1>17, <2>1
  <2>2. CASE cursor # now
    <3>1. cursor = [of |-> IF now = Start \/ now.of = a THEN a ELSE "none", offset |-> now.offset + 1]
          /\ events = WithPage
      BY <1>9, <1>17, <2>2
    <3>2. now = Start \/ now.of = a
      BY <1>13, <1>17 DEF Follows
    <3>3. cursor.of = a /\ cursor.offset = now.offset + 1
      BY <3>1, <3>2
    <3>4. \A i \in DOMAIN seen : i <= now.offset + 1 => i <= now.offset \/ i = now.offset + 1
      BY <1>4, <1>7
    <3>5. QED
      BY <1>14, <1>17, <3>1, <3>3, <3>4 DEF Follows
  <2>3. QED
    BY <2>1, <2>2
<1>18. ASSUME op'.phase = "credentials", ~partial, Follows(op.from, a)
       PROVE  \A i \in DOMAIN seen : events[<<a, i>>] >= Owed(op.from, seen, i)
  <2>1. events = WithPage /\ ~(now.offset + 1 < Len(h))
    BY <1>1, <1>4, <1>18 DEF ScanStep
  <2>2. \A i \in DOMAIN seen : i <= now.offset \/ i = now.offset + 1
    <3>1. Len(seen) \in Nat /\ Len(h) \in Nat /\ DOMAIN seen = 1 .. Len(seen)
      BY <1>4
    <3>2. Len(seen) <= now.offset + 1 /\ now.offset \in Nat
      BY <1>6, <1>7, <2>1, <3>1
    <3>3. QED
      BY <3>1, <3>2
  <2>3. QED
    BY <1>14, <1>18, <2>1, <2>2
<1>19. /\ Len(op'.seen) <= Len(history'[managed'.account])
       /\ \A i \in DOMAIN op'.seen : op'.seen[i] <= history'[managed'.account][i]
  BY <1>3, <1>4, <1>6, <1>15, <1>16
<1>20. SyncInv'
  <2>1. op'.phase = "scan" => Covers(op.cursor, managed.state.events)'
    BY <1>10, <1>15, <1>16 DEF Covers
  <2>2. op'.phase = "scan" /\ Follows(op.from, managed.account)' =>
          /\ Follows(op.cursor, managed.account)'
          /\ \A i \in DOMAIN op'.seen : i <= op'.cursor.offset =>
               managed'.state.events[<<managed'.account, i>>] >= Owed(op.from, op.seen, i)'
    BY <1>15, <1>16, <1>17 DEF Follows, Owed
  <2>3. op'.phase # "scan" /\ ~op'.partial /\ Follows(op.from, managed.account)' =>
          \A i \in DOMAIN op'.seen :
               managed'.state.events[<<managed'.account, i>>] >= Owed(op.from, op.seen, i)'
    BY <1>15, <1>16, <1>18 DEF Follows, Owed
  <2>4. QED
    BY <1>16, <1>19, <2>1, <2>2, <2>3 DEF SyncInv
<1>21. QED
  BY <1>12, <1>20

-----------------------------------------------------------------------------
(* Who is connected.                                                       *)

\* The end of a request.
LEMMA OwnerAtEnd ==
    ASSUME OwnerInv, op' = Idle,
           UNCHANGED <<loaded, managed, saved, credsFile, config, wanted>>
    PROVE  OwnerInv'
<1>1. op'.kind = "idle"
  BY DEF Idle
<1>2. /\ ~loaded' => op' = Idle /\ managed' = Unmanaged
      /\ managed'.registered /\ ~managed'.revoked => managed'.account \in Account
      /\ ~managed'.registered \/ managed'.revoked => managed'.account = "none"
  BY DEF OwnerInv
<1>3. /\ wanted' \in Account => /\ credsFile' = wanted' /\ config'
                                /\ managed'.account \in {wanted', "none"}
                                /\ (loaded' => saved'.account = wanted')
      /\ wanted' = "gone" => /\ credsFile' = "none" /\ ~config'
                             /\ managed'.account = "none"
                             /\ (loaded' => saved'.account = "none")
  BY DEF OwnerInv
<1>4. QED
  BY <1>1, <1>2, <1>3 DEF OwnerInv

\* A later step of the same request, the credentials being on disk.
LEMMA OwnerGoesOn ==
    ASSUME OwnerInv, op'.kind = op.kind, credsFile' = credsFile, saved'.account = saved.account,
           op.kind \in {"connect", "disconnect"} => op.phase # "credentials" \/ op'.phase = "credentials",
           UNCHANGED <<loaded, managed, config, wanted>>, op # Idle
    PROVE  OwnerInv'
<1>1. loaded
  BY DEF OwnerInv
<1>2. /\ op.kind = "restore" => /\ saved.account \in Account /\ saved.account = credsFile /\ config
                              /\ wanted \in {"none", saved.account}
      /\ op.kind = "connect" => /\ managed.registered /\ ~managed.revoked
                                /\ saved.account = managed.account /\ wanted = "none"
                                /\ (op.phase # "credentials" => credsFile = saved.account)
      /\ op.kind = "disconnect" => /\ managed.account = "none"
                                   /\ saved.account = "none" /\ wanted = "none"
                                   /\ (op.phase # "credentials" => credsFile = "none")
      /\ op.kind = "sync" => managed.registered /\ ~managed.revoked
  BY DEF OwnerInv
<1>3. /\ managed.registered /\ ~managed.revoked => managed.account \in Account
      /\ ~managed.registered \/ managed.revoked => managed.account = "none"
      /\ wanted \in Account => /\ credsFile = wanted /\ config
                               /\ managed.account \in {wanted, "none"}
                               /\ (loaded => saved.account = wanted)
      /\ wanted = "gone" => /\ credsFile = "none" /\ ~config
                            /\ managed.account = "none"
                            /\ (loaded => saved.account = "none")
  BY DEF OwnerInv
<1>4. QED
  BY <1>1, <1>2, <1>3 DEF OwnerInv

LEMMA OwnerStep ==
    ASSUME BrokerType, HistoryInv, SyncInv, OwnerInv, Step
    PROVE  OwnerInv'
<1>0. Idle.kind = "idle" /\ "gone" \notin Account /\ "none" \notin Account
  BY Constants DEF Idle
<1>1. CASE Restore
  <2>1. op.kind = "restore" /\ op.phase = "bind" /\ op # Idle
    BY <1>1, OpFacts DEF Restore, RestoreOp
  <2>2. /\ saved.account \in Account /\ saved.account = credsFile /\ config /\ loaded
        /\ wanted \in {"none", saved.account}
    BY <2>1 DEF OwnerInv
  <2>3. UNCHANGED <<credsFile, config, loaded, saved, wanted>>
    BY <1>1 DEF Restore, files
  <2>4. CASE managed' = Bind(saved.account) /\ op' = Proceed(op)
    <3>1. op' = [op EXCEPT !.phase = "credentials"]
      BY <2>1, <2>4, RestoreProceeds
    <3>2. op'.kind = "restore"
      BY <2>1, <3>1, OpFacts DEF RestoreOp
    <3>3. managed'.registered = TRUE /\ managed'.revoked = FALSE /\ managed'.account = saved.account
      BY <2>4 DEF Bind
    <3>4. QED
      BY <1>0, <2>2, <2>3, <3>2, <3>3 DEF OwnerInv
  <2>5. CASE Abandon /\ UNCHANGED managed
    BY <2>3, <2>5, OwnerAtEnd DEF Abandon
  <2>6. QED
    BY <1>1, <2>4, <2>5 DEF Restore
<1>2. CASE SaveCredentials
  <2>1. op.phase = "credentials" /\ op # Idle
        /\ UNCHANGED <<config, loaded, managed, saved, wanted>>
    BY <1>2, OpFacts DEF SaveCredentials, memory
  <2>2. CASE credsFile' = saved.account /\ op' = Proceed(op)
    <3>1. op.kind \in {"restore", "connect", "disconnect", "sync"} /\ op'.kind = op.kind
      <4>1. CASE op \in RestoreOp
        BY <2>1, <2>2, <4>1, RestoreProceeds DEF RestoreOp
      <4>2. CASE op \in AnswerOp
        BY <2>1, <2>2, <4>2, AnswerProceeds DEF AnswerOp
      <4>3. CASE op \in SyncOp
        BY <2>1, <2>2, <4>3, SyncProceeds DEF SyncOp
      <4>4. QED
        BY <2>1, <4>1, <4>2, <4>3, OpFacts
    <3>2. loaded
      BY <2>1 DEF OwnerInv
    <3>3. /\ op.kind = "restore" => /\ saved.account \in Account /\ saved.account = credsFile /\ config
                                    /\ wanted \in {"none", saved.account}
          /\ op.kind = "connect" => /\ managed.registered /\ ~managed.revoked
                                    /\ saved.account = managed.account /\ wanted = "none"
          /\ op.kind = "disconnect" => /\ managed.account = "none"
                                       /\ saved.account = "none" /\ wanted = "none"
          /\ op.kind = "sync" => managed.registered /\ ~managed.revoked
      BY DEF OwnerInv
    <3>4. /\ managed.registered /\ ~managed.revoked => managed.account \in Account
          /\ ~managed.registered \/ managed.revoked => managed.account = "none"
          /\ wanted \in Account => /\ credsFile = wanted /\ config
                                   /\ managed.account \in {wanted, "none"}
                                   /\ saved.account = wanted
          /\ wanted = "gone" => /\ credsFile = "none" /\ ~config
                                /\ managed.account = "none" /\ saved.account = "none"
      BY <3>2 DEF OwnerInv
    <3>5. QED
      BY <2>1, <2>2, <3>1, <3>2, <3>3, <3>4 DEF OwnerInv
  <2>3. CASE Abandon /\ UNCHANGED credsFile
    BY <2>1, <2>3, OwnerAtEnd DEF Abandon
  <2>4. QED
    BY <1>2, <2>2, <2>3 DEF SaveCredentials
<1>3. CASE SaveState
  <2>1. op.phase = "state" /\ op # Idle /\ UNCHANGED <<credsFile, config, loaded, managed, wanted>>
    BY <1>3, OpFacts DEF SaveState
  <2>2. CASE saved' = [saved EXCEPT !.state = stateFile'] /\ op' = Proceed(op)
    <3>1. saved'.account = saved.account
      BY <2>2 DEF BrokerType
    <3>2. CASE op \in RestoreOp
      <4>1. op' = Idle
        BY <2>1, <2>2, <3>2, RestoreProceeds DEF RestoreOp
      <4>2. QED
        <5>1. op'.kind = "idle"
          BY <4>1 DEF Idle
        <5>2. /\ ~loaded' => op' = Idle /\ managed' = Unmanaged
              /\ managed'.registered /\ ~managed'.revoked => managed'.account \in Account
              /\ ~managed'.registered \/ managed'.revoked => managed'.account = "none"
          BY <2>1, <4>1 DEF OwnerInv
        <5>3. /\ wanted' \in Account => /\ credsFile' = wanted' /\ config'
                                        /\ managed'.account \in {wanted', "none"}
                                        /\ (loaded' => saved'.account = wanted')
              /\ wanted' = "gone" => /\ credsFile' = "none" /\ ~config'
                                     /\ managed'.account = "none"
                                     /\ (loaded' => saved'.account = "none")
          BY <2>1, <3>1 DEF OwnerInv
        <5>4. QED
          BY <5>1, <5>2, <5>3 DEF OwnerInv
    <3>3. CASE op \in AnswerOp
      <4>1. op'.kind = op.kind
        BY <2>1, <2>2, <3>3, AnswerProceeds DEF AnswerOp
      <4>2. QED
        BY <2>1, <3>1, <4>1, OwnerGoesOn
    <3>4. CASE op \in SyncOp
      <4>1. op'.kind = op.kind
        BY <2>1, <2>2, <3>4, SyncProceeds DEF SyncOp
      <4>2. QED
        BY <2>1, <3>1, <4>1, OwnerGoesOn
    <3>5. QED
      BY <2>1, <3>2, <3>3, <3>4, OpFacts
  <2>3. CASE Abandon /\ UNCHANGED <<stateFile, saved>>
    BY <2>1, <2>3, OwnerAtEnd DEF Abandon
  <2>4. QED
    BY <1>3, <2>2, <2>3 DEF SaveState
<1>4. CASE SaveConfig
  <2>1. op \in AnswerOp /\ op.phase = "config" /\ op.kind \in {"connect", "disconnect"} /\ op # Idle
    BY <1>4, OpFacts DEF SaveConfig, AnswerOp
  <2>2. op' = Idle /\ config' = (op.kind = "connect")
        /\ wanted' = (IF op.kind = "connect" THEN managed.account ELSE "gone")
        /\ UNCHANGED <<credsFile, loaded, saved, managed>>
    BY <1>4, <2>1, AnswerProceeds DEF SaveConfig, memory
  <2>3. /\ op.kind = "connect" => /\ managed.registered /\ ~managed.revoked
                                  /\ saved.account = managed.account /\ credsFile = saved.account
        /\ op.kind = "disconnect" => /\ managed.account = "none" /\ saved.account = "none"
                                     /\ credsFile = "none"
        /\ loaded
        /\ managed.registered /\ ~managed.revoked => managed.account \in Account
        /\ ~managed.registered \/ managed.revoked => managed.account = "none"
    BY <2>1 DEF OwnerInv
  <2>4. QED
    BY <1>0, <2>1, <2>2, <2>3 DEF OwnerInv
<1>5. CASE ReadPage \/ ReadFails \/ ReadPartialPage
  <2>1. op.phase = "scan" /\ op \in SyncOp /\ op.kind = "sync" /\ op # Idle
    BY <1>5, OpFacts DEF ReadPage, ReadFails, ReadPartialPage, Scanning, SyncOp
  <2>2. managed.account \in Account
    BY <2>1 DEF OwnerInv
  <2>3. /\ op'.kind = "sync" /\ managed'.registered = managed.registered
        /\ managed'.revoked = managed.revoked /\ managed'.account = managed.account
    <3>1. PICK events \in {managed.state.events, WithPage}, cursor \in Cursor, partial \in BOOLEAN :
            ScanStep(events, cursor, partial)
      BY <1>5, <2>2, ScanSteps
    <3>2. op' \in SyncOp
      BY <3>1 DEF ScanStep
    <3>3. /\ managed'.registered = managed.registered
          /\ managed'.revoked = managed.revoked /\ managed'.account = managed.account
      BY <3>1 DEF ScanStep, BrokerType, Managed
    <3>4. QED
      BY <3>2, <3>3 DEF SyncOp
  <2>4. UNCHANGED <<credsFile, config, loaded, saved, wanted>>
    BY <1>5 DEF ReadPage, ReadFails, ReadPartialPage, files
  <2>5. loaded
    BY <2>1 DEF OwnerInv
  <2>6. QED
    BY <2>1, <2>3, <2>4, <2>5 DEF OwnerInv
<1>6. ASSUME NEW e \in Event, Import(e) PROVE OwnerInv'
  <2>1. op \in SyncOp /\ op # Idle /\ op.kind = "sync" /\ UNCHANGED <<files, memory, wanted>>
    BY <1>6, OpFacts DEF Import, SyncOp
  <2>2. op'.kind = op.kind
    BY <1>6, <2>1 DEF Import, SyncOp
  <2>3. QED
    BY <2>1, <2>2, OwnerGoesOn DEF files, memory
<1>7. CASE SyncDone
  <2>1. op.kind = "sync" /\ op.phase = "import"
    BY <1>7, OpFacts DEF SyncDone, SyncOp
  <2>2. op' = Idle
    BY <1>7, <2>1, SyncProceeds DEF SyncDone
  <2>3. QED
    BY <1>7, <2>2, OwnerAtEnd DEF SyncDone, files, memory
<1>8. QED
  BY <1>1, <1>2, <1>3, <1>4, <1>5, <1>6, <1>7 DEF Step

LEMMA OwnerRequest ==
    ASSUME BrokerType, OwnerInv, Request \/ Crash
    PROVE  OwnerInv'
<1>0. /\ Idle.kind = "idle" /\ "gone" \notin Account /\ "none" \notin Account
      /\ saved \in [account : Owner, state : SyncState] /\ wanted \in Owner \cup {"gone"}
      /\ credsFile \in Owner
  BY Constants DEF Idle, BrokerType
<1>1. CASE Load
  <2>1. managed = Unmanaged /\ managed' = managed /\ loaded' = TRUE
        /\ saved'.account = credsFile /\ UNCHANGED <<credsFile, config, wanted>>
    BY <1>1 DEF Load, OwnerInv, files
  <2>2. op' = IF config /\ credsFile # "none" THEN [kind |-> "restore", phase |-> "bind"] ELSE Idle
    BY <1>1 DEF Load
  <2>3. /\ wanted \in Account => /\ credsFile = wanted /\ config
        /\ wanted = "gone" => /\ credsFile = "none" /\ ~config
    BY DEF OwnerInv
  <2>4. QED
    BY <1>0, <2>1, <2>2, <2>3, Types DEF OwnerInv, Owner
<1>2. CASE Disconnect
  <2>1. /\ op' = [kind |-> "disconnect", phase |-> "credentials"] /\ wanted' = "none"
        /\ saved'.account = "none" /\ loaded /\ UNCHANGED <<credsFile, config, loaded>>
        /\ managed' = IF managed.registered
                  THEN [Unmanaged EXCEPT !.registered = TRUE, !.revoked = TRUE]
                  ELSE managed
    BY <1>2 DEF Disconnect, files
  <2>2. managed'.account = "none"
        /\ (managed'.registered => managed'.revoked)
    BY <2>1 DEF OwnerInv, Unmanaged
  <2>3. QED
    BY <1>0, <2>1, <2>2 DEF OwnerInv
<1>3. CASE SyncStart
  <2>1. op' \in {Sync(managed.state.cursor, history[managed.account]),
                 [Sync(managed.state.cursor, history[managed.account]) EXCEPT
                    !.blocked = TRUE, !.partial = TRUE, !.phase = "credentials"]}
    BY <1>3 DEF SyncStart
  <2>2. op'.kind = "sync"
    <3>1. PICK sync : sync = Sync(managed.state.cursor, history[managed.account])
      OBVIOUS
    <3>2. sync.kind = "sync"
      BY <3>1 DEF Sync
    <3>3. [sync EXCEPT !.blocked = TRUE, !.partial = TRUE, !.phase = "credentials"].kind = "sync"
      BY <3>1 DEF Sync
    <3>4. QED
      BY <2>1, <3>1, <3>2, <3>3
  <2>3. loaded /\ managed.registered /\ ~managed.revoked
        /\ UNCHANGED <<loaded, managed, saved, credsFile, config, wanted>>
    BY <1>3 DEF SyncStart, files, memory
  <2>4. QED
    BY <2>2, <2>3 DEF OwnerInv
<1>4. CASE SyncRevoked
  BY <1>4, OwnerAtEnd DEF SyncRevoked, files, memory
<1>5. ASSUME NEW a \in Account, Connect(a) PROVE OwnerInv'
  <2>1. /\ op' = [kind |-> "connect", phase |-> "credentials"] /\ wanted' = "none"
        /\ managed' = Bind(a) /\ loaded /\ UNCHANGED <<credsFile, config, loaded>>
        /\ saved' = [saved EXCEPT !.account = a]
    BY <1>5 DEF Connect, files
  <2>2. managed'.registered = TRUE /\ managed'.revoked = FALSE /\ managed'.account = a
    BY <2>1 DEF Bind
  <2>3. saved'.account = a
    BY <1>0, <2>1
  <2>4. QED
    BY <1>0, <2>1, <2>2, <2>3 DEF OwnerInv
<1>6. CASE Crash
  <2>1. /\ op' = Idle /\ managed' = Unmanaged /\ loaded' = FALSE
        /\ UNCHANGED <<credsFile, config, wanted>>
    BY <1>6 DEF Crash, files
  <2>2. QED
    BY <1>0, <2>1, Types DEF OwnerInv
<1>7. QED
  BY <1>1, <1>2, <1>3, <1>4, <1>5, <1>6 DEF Request

-----------------------------------------------------------------------------
(* The journal, and what is known after each step.                         *)

\* What an import writes is the event as the files and the manager have it.
LEMMA Imports ==
    ASSUME BrokerType, KnownInv, SyncInv, NEW e \in Event, Import(e)
    PROVE  /\ op \in SyncOp /\ op.kind = "sync" /\ op.phase = "import" /\ ~op.blocked
           /\ stateFile = managed.state /\ saved.state = managed.state
           /\ managed.state.events[e] # 0 /\ journal[e] <= managed.state.events[e]
           /\ e \notin op.done
           /\ UNCHANGED <<history, stateFile, saved, managed, status>>
           /\ journal' \in {journal, [journal EXCEPT ![e] = managed.state.events[e]]}
<1>1. op \in SyncOp /\ op.kind = "sync" /\ op.phase = "import"
  BY OpFacts DEF Import, SyncOp
<1>2. stateFile = managed.state /\ saved.state = managed.state
  BY <1>1 DEF SyncInv
<1>3. ~op.blocked /\ managed.state.events[e] # 0 /\ e \notin op.done
  BY DEF Import, ToImport
<1>4. journal[e] <= managed.state.events[e]
  BY <1>3 DEF KnownInv, StateInv, EventsInv
<1>5. QED
  BY <1>1, <1>2, <1>3, <1>4 DEF Import, broker, files, memory

LEMMA JournalGrows ==
    ASSUME BrokerType, KnownInv, SyncInv, [Next]_vars
    PROVE  \A e \in Event : journal'[e] >= journal[e]
<1>1. \A e \in Event : journal[e] \in Nat
  BY Revisions DEF BrokerType
<1>2. ASSUME NEW e \in Event, Import(e)
      PROVE  \A f \in Event : journal'[f] >= journal[f]
  <2>1. /\ journal' \in {journal, [journal EXCEPT ![e] = managed.state.events[e]]}
        /\ journal[e] <= managed.state.events[e]
    BY <1>2, Imports
  <2>2. managed.state.events[e] \in Nat
    BY Revisions DEF BrokerType, Managed, SyncState
  <2>3. PICK n \in Nat : n = managed.state.events[e]
    BY <2>2
  <2>4. \A f \in Event : journal'[f] = journal[f] \/ (f = e /\ journal'[f] = n)
    BY <2>1, <2>3 DEF BrokerType
  <2>5. QED
    BY <1>1, <2>1, <2>3, <2>4
<1>3. CASE UNCHANGED journal
  BY <1>1, <1>3
<1>4. UNCHANGED journal \/ \E e \in Event : Import(e)
  BY DEF Next, Request, Step, Crash, Load, Disconnect, SyncStart, SyncRevoked, Connect, Restore,
         SaveCredentials, SaveState, SaveConfig, ReadPage, ReadFails, ReadPartialPage, SyncDone,
         Execute, Correct, vars
<1>5. QED
  BY <1>2, <1>3, <1>4

LEMMA HistoryKept ==
    ASSUME BrokerType, history' = history
    PROVE  HistoryGrows
<1>1. \A b \in Account : history[b] \in Seq(Revision)
  BY DEF BrokerType
<1>2. \A b \in Account : Len(history[b]) \in Nat /\ \A i \in DOMAIN history[b] : history[b][i] \in Nat
  <2> SUFFICES ASSUME NEW b \in Account
               PROVE  Len(history[b]) \in Nat /\ \A i \in DOMAIN history[b] : history[b][i] \in Nat
    OBVIOUS
  <2>1. history[b] \in Seq(Revision)
    BY <1>1
  <2>2. \A i \in DOMAIN history[b] : history[b][i] \in Revision
    BY <2>1
  <2>3. \A i \in DOMAIN history[b] : history[b][i] \in Nat
    BY <2>2, Revisions
  <2>4. QED
    BY <2>1, <2>3
<1>3. QED
  BY <1>2 DEF HistoryGrows

\* Everything but a page and an import only moves what is known.
LEMMA KnownMoves ==
    ASSUME BrokerType, BrokerType', HistoryInv, KnownInv, SyncInv, OwnerInv,
           \/ Request \/ Crash \/ Restore \/ SaveCredentials \/ SaveState \/ SaveConfig \/ SyncDone
    PROVE  KnownInv'
<1>1. PICK known : known = {stateFile, saved.state, managed.state, Fresh}
  OBVIOUS
<1>2. /\ managed \in Managed /\ saved \in [account : Owner, state : SyncState]
      /\ Unmanaged.state = Fresh
  BY Types DEF BrokerType
<1>3. history' = history /\ journal' = journal
  BY DEF Request, Load, Disconnect, SyncStart, SyncRevoked, Connect, Crash, Restore,
         SaveCredentials, SaveState, SaveConfig, SyncDone, broker
<1>4. \A a \in Owner : Bind(a).state \in known
  BY <1>1 DEF Bind
<1>5. stateFile' \in known
  <2>1. stateFile' = stateFile \/ stateFile' = managed.state \/ stateFile' = saved.state
    BY DEF Request, Load, Disconnect, SyncStart, SyncRevoked, Connect, Crash, Restore,
           SaveCredentials, SaveState, SaveConfig, SyncDone, files
  <2>2. QED
    BY <1>1, <2>1
<1>6. saved'.state \in known
  <2>1. CASE Load
    BY <1>1, <2>1 DEF Load
  <2>2. CASE Disconnect \/ Crash
    BY <1>1, <2>2 DEF Disconnect, Crash
  <2>3. ASSUME NEW a \in Account, Connect(a) PROVE saved'.state \in known
    <3>1. saved'.state = saved.state
      BY <1>2, <2>3 DEF Connect
    <3>2. QED
      BY <1>1, <3>1
  <2>4. CASE SaveState
    <3>1. saved' = saved \/ saved' = [saved EXCEPT !.state = stateFile']
      BY <2>4 DEF SaveState
    <3>2. PICK state : state = stateFile'
      OBVIOUS
    <3>3. saved' = saved \/ saved'.state = state
      BY <1>2, <3>1, <3>2
    <3>4. QED
      BY <1>1, <1>5, <3>2, <3>3
  <2>5. CASE SyncStart \/ SyncRevoked \/ Restore \/ SaveCredentials \/ SaveConfig \/ SyncDone
    <3>1. saved' = saved
      BY <2>5 DEF SyncStart, SyncRevoked, Restore, SaveCredentials, SaveConfig, SyncDone, memory
    <3>2. QED
      BY <1>1, <3>1
  <2>6. QED
    BY <2>1, <2>2, <2>3, <2>4, <2>5 DEF Request
<1>7. managed'.state \in known
  <2>1. CASE Disconnect
    <3>1. managed' = managed \/ managed' = [Unmanaged EXCEPT !.registered = TRUE, !.revoked = TRUE]
      BY <2>1 DEF Disconnect
    <3>2. [Unmanaged EXCEPT !.registered = TRUE, !.revoked = TRUE].state = Fresh
      BY DEF Unmanaged
    <3>3. QED
      BY <1>1, <3>1, <3>2
  <2>2. CASE Crash
    BY <1>1, <1>2, <2>2 DEF Crash
  <2>3. ASSUME NEW a \in Account, Connect(a) PROVE managed'.state \in known
    BY <1>4, <2>3, Types DEF Connect
  <2>4. CASE Restore
    <3>1. managed' = managed \/ managed' = Bind(saved.account)
      BY <2>4 DEF Restore
    <3>2. QED
      BY <1>1, <1>2, <1>4, <3>1
  <2>5. CASE Load \/ SyncStart \/ SyncRevoked \/ SaveCredentials \/ SaveState \/ SaveConfig \/ SyncDone
    <3>1. managed' = managed
      BY <2>5 DEF Load, SyncStart, SyncRevoked, SaveCredentials, SaveState, SaveConfig, SyncDone, memory
    <3>2. QED
      BY <1>1, <3>1
  <2>6. QED
    BY <2>1, <2>2, <2>3, <2>4, <2>5 DEF Request
<1>8. HistoryGrows
  BY <1>3, HistoryKept
<1>9. QED
  BY <1>1, <1>3, <1>5, <1>6, <1>7, <1>8, KnownKept

LEMMA ImportKnown ==
    ASSUME BrokerType, KnownInv, SyncInv, NEW e \in Event, Import(e)
    PROVE  KnownInv'
<1>1. /\ stateFile = managed.state /\ saved.state = managed.state
      /\ managed.state.events[e] # 0
      /\ UNCHANGED <<history, stateFile, saved, managed, status>>
      /\ journal' \in {journal, [journal EXCEPT ![e] = managed.state.events[e]]}
  BY Imports
<1>2. PICK s \in SyncState : s = managed.state
  BY DEF BrokerType, Managed
<1>3. \A f \in Event : journal'[f] = journal[f] \/ (f = e /\ journal'[f] = s.events[e])
  BY <1>1, <1>2 DEF BrokerType
<1>4. \A f \in Event : /\ s.events[f] <= Now(f) /\ journal[f] <= Now(f)
                       /\ (s.events[f] # 0 => journal[f] <= s.events[f])
                       /\ s.events[f] \in Nat
  <2>1. StateInv(s)
    BY <1>2 DEF KnownInv
  <2>2. \A f \in Event : s.events[f] \in Nat
    BY Revisions DEF SyncState
  <2>3. QED
    BY <2>1, <2>2 DEF KnownInv, StateInv, EventsInv
<1>5. \A f \in Event : /\ s.events[f] <= Now(f) /\ journal'[f] <= Now(f)
                       /\ (s.events[f] # 0 => journal'[f] <= s.events[f])
  BY <1>3, <1>4
<1>6. \A f \in Event : Now(f)' = Now(f)
  BY <1>1 DEF Now
<1>7. StateInv(s)'
  <2>1. Covers(s.cursor, s.events)
    BY <1>2 DEF KnownInv, StateInv
  <2>2. Covers(s.cursor, s.events)'
    BY <2>1 DEF Covers
  <2>3. QED
    BY <1>5, <1>6, <2>2 DEF StateInv, EventsInv
<1>8. stateFile' = s /\ saved'.state = s /\ managed'.state = s
  BY <1>1, <1>2
<1>9. QED
  BY <1>5, <1>6, <1>7, <1>8 DEF KnownInv, StateInv, EventsInv, Covers

-----------------------------------------------------------------------------
(* What the sync owes, and what its answer says.                           *)

\* What is known of the account that is synced.
LEMMA SyncTypes ==
    ASSUME BrokerType, HistoryInv, SyncInv, op.kind = "sync", managed.account \in Account
    PROVE  LET a == managed.account IN
           /\ op \in SyncOp /\ history[a] \in Seq(Revision) /\ op.seen \in Seq(Revision)
           /\ Len(history[a]) \in Nat /\ Len(op.seen) \in Nat
           /\ \A i \in DOMAIN op.seen :
                 /\ i \in DOMAIN history[a] /\ <<a, i>> \in Event /\ op.seen[i] \in Nat
                 /\ Owed(op.from, op.seen, i) \in Nat /\ 1 <= Owed(op.from, op.seen, i)
                 /\ managed.state.events[<<a, i>>] \in Nat /\ journal[<<a, i>>] \in Nat
           /\ \A i \in DOMAIN history[a] : history[a][i] \in Nat
<1>1. PICK a \in Account : a = managed.account
  OBVIOUS
<1>2. op \in SyncOp
  BY OpFacts
<1>3. op.seen \in Seq(Revision) /\ history[a] \in Seq(Revision)
  BY <1>2 DEF SyncOp, BrokerType
<1>4. PICK seen \in Seq(Revision), h \in Seq(Revision) : seen = op.seen /\ h = history[a]
  BY <1>3
<1>5. Len(seen) <= Len(h) /\ Len(h) <= MaxEvents[a] /\ MaxEvents[a] \in Nat
  BY <1>1, <1>4, Constants DEF SyncInv, HistoryInv
<1>6. \A r \in Revision : r \in Nat /\ 1 <= r
  BY DEF Revision
<1>7. \A i \in DOMAIN h : h[i] \in Revision
  BY <1>4
<1>8. \A i \in DOMAIN seen : seen[i] \in Revision /\ Owed(op.from, seen, i) \in {seen[i], 1}
  BY <1>4 DEF Owed
<1>9. ASSUME NEW i \in DOMAIN seen
      PROVE  /\ i \in DOMAIN h /\ <<a, i>> \in Event /\ seen[i] \in Nat
             /\ Owed(op.from, seen, i) \in Nat /\ 1 <= Owed(op.from, seen, i)
             /\ managed.state.events[<<a, i>>] \in Nat /\ journal[<<a, i>>] \in Nat
  <2>1. i \in DOMAIN h /\ i \in Nat /\ i \in 1 .. MaxEvents[a]
    BY <1>4, <1>5
  <2>2. PICK e \in Event : e = <<a, i>>
    BY <2>1, Constants
  <2>3. managed.state.events[e] \in Nat /\ journal[e] \in Nat
    BY Revisions DEF BrokerType, Managed, SyncState
  <2>4. seen[i] \in Nat /\ 1 <= seen[i]
    BY <1>6, <1>8
  <2>5. Owed(op.from, seen, i) \in {seen[i], 1}
    BY <1>8
  <2>6. Owed(op.from, seen, i) \in Nat /\ 1 <= Owed(op.from, seen, i)
    BY <2>4, <2>5
  <2>7. QED
    BY <2>1, <2>2, <2>3, <2>4, <2>6
<1>10. \A i \in DOMAIN h : h[i] \in Nat
  BY <1>6, <1>7
<1>11. QED
  BY <1>1, <1>2, <1>4, <1>9, <1>10

\* The sync that starts owes what its account has now, and at its cursor it has what a
\* scan from there needs.
LEMMA SyncStarts ==
    ASSUME BrokerType, HistoryInv, KnownInv, OwnerInv, SyncStart
    PROVE  SyncInv'
<1>1. /\ managed.account \in Account
      /\ UNCHANGED <<history, managed, stateFile, saved, journal>>
  BY DEF SyncStart, OwnerInv, broker, files, memory
<1>2. PICK a \in Account, h \in Seq(Revision), now \in Cursor :
        a = managed.account /\ h = history[a] /\ now = managed.state.cursor
  BY <1>1 DEF BrokerType, Managed, SyncState
<1>3. \A i \in DOMAIN h : h[i] \in Nat /\ i \in Nat /\ i >= 1
  <2>1. \A i \in DOMAIN h : h[i] \in Revision
    BY <1>2
  <2>2. \A i \in DOMAIN h : h[i] \in Nat
    BY <2>1, Revisions
  <2>3. \A i \in DOMAIN h : i \in Nat /\ i >= 1
    BY <1>2
  <2>4. QED
    BY <2>2, <2>3
<1>4. Covers(now, managed.state.events)
  BY <1>2 DEF KnownInv, StateInv
<1>5. op' \in {Sync(now, h), [Sync(now, h) EXCEPT !.blocked = TRUE, !.partial = TRUE,
                                                   !.phase = "credentials"]}
  BY <1>2 DEF SyncStart
<1>6. /\ op'.cursor = now /\ op'.from = now /\ op'.seen = h /\ op'.done = {}
      /\ \/ op'.phase = "scan" /\ ~op'.partial /\ ~op'.blocked
         \/ op'.phase = "credentials" /\ op'.partial /\ op'.blocked
  <2>1. CASE op' = Sync(now, h)
    BY <2>1 DEF Sync
  <2>2. CASE op' = [Sync(now, h) EXCEPT !.blocked = TRUE, !.partial = TRUE, !.phase = "credentials"]
    BY <2>2 DEF Sync
  <2>3. QED
    BY <1>5, <2>1, <2>2
<1>7. ASSUME Follows(now, a), NEW i \in DOMAIN h, i <= now.offset
      PROVE  managed.state.events[<<a, i>>] >= Owed(now, h, i)
  <2>1. now # Start
    <3>1. i >= 1
      BY <1>3
    <3>2. now.offset # 0
      BY <1>2, <1>7, <3>1 DEF Cursor
    <3>3. QED
      BY <3>2, Types
  <2>2. now.of = a /\ Owed(now, h, i) = 1 /\ now.offset \in Nat
    BY <1>2, <1>7, <2>1 DEF Follows, Owed, Cursor
  <2>3. i \in 1 .. now.offset /\ i \in Nat
    BY <1>3, <1>7, <2>2
  <2>4. managed.state.events[<<a, i>>] # 0 /\ now.offset <= MaxEvents[a] /\ MaxEvents[a] \in Nat
    BY <1>4, <2>2, <2>3, Constants DEF Covers
  <2>5. i \in 1 .. MaxEvents[a]
    BY <2>2, <2>3, <2>4
  <2>6. <<a, i>> \in Event
    BY <2>3, <2>5, Constants
  <2>7. managed.state.events[<<a, i>>] \in Nat
    BY <2>6, Revisions DEF BrokerType, Managed, SyncState
  <2>8. QED
    BY <2>2, <2>4, <2>7
<1>8. /\ Len(h) <= Len(h) /\ \A i \in DOMAIN h : h[i] <= h[i]
  BY <1>2, <1>3
<1>9. managed'.account = a /\ managed'.state.events = managed.state.events /\ history'[a] = h
  BY <1>1, <1>2
<1>10. Len(op'.seen) <= Len(history'[managed'.account])
       /\ \A i \in DOMAIN op'.seen : op'.seen[i] <= history'[managed'.account][i]
  BY <1>6, <1>8, <1>9
<1>11. op'.phase = "scan" => Covers(op.cursor, managed.state.events)'
  BY <1>4, <1>6, <1>9 DEF Covers
<1>12. op'.phase = "scan" /\ Follows(op.from, managed.account)' =>
          /\ Follows(op.cursor, managed.account)'
          /\ \A i \in DOMAIN op'.seen : i <= op'.cursor.offset =>
               managed'.state.events[<<managed'.account, i>>] >= Owed(op.from, op.seen, i)'
  BY <1>6, <1>7, <1>9 DEF Follows, Owed
<1>13. QED
  BY <1>6, <1>10, <1>11, <1>12 DEF SyncInv

\* The files are written before the import.
LEMMA SyncWrites ==
    ASSUME BrokerType, SyncInv, OwnerInv, op.kind = "sync", op.phase \in {"credentials", "state"},
           op' = Proceed(op), UNCHANGED <<history, managed, journal>>,
           op.phase = "state" => stateFile' = managed.state /\ saved'.state = managed.state
    PROVE  SyncInv'
<1>1. op' = [op EXCEPT !.phase = IF op.phase = "credentials" THEN "state" ELSE "import"]
      /\ op \in SyncOp
  BY GoesOn, OpFacts
<1>2. /\ op'.kind = "sync" /\ op'.seen = op.seen /\ op'.from = op.from /\ op'.partial = op.partial
      /\ op'.blocked = op.blocked /\ op'.done = op.done
      /\ op'.phase = IF op.phase = "credentials" THEN "state" ELSE "import"
  BY <1>1 DEF SyncOp
<1>3. /\ Len(op'.seen) <= Len(history'[managed'.account])
      /\ \A i \in DOMAIN op'.seen : op'.seen[i] <= history'[managed'.account][i]
      /\ op'.blocked => op'.partial
      /\ op.done = {}
  BY <1>2 DEF SyncInv
<1>4. ~op'.partial /\ Follows(op.from, managed.account)' =>
        \A i \in DOMAIN op'.seen :
            managed'.state.events[<<managed'.account, i>>] >= Owed(op.from, op.seen, i)'
  BY <1>2 DEF SyncInv, Follows, Owed
<1>5. op'.phase = "import" => stateFile' = managed' .state /\ saved'.state = managed'.state
  BY <1>2
<1>6. QED
  BY <1>2, <1>3, <1>4, <1>5 DEF SyncInv

LEMMA ImportSyncs ==
    ASSUME BrokerType, KnownInv, SyncInv, NEW e \in Event, Import(e)
    PROVE  SyncInv'
<1>1. /\ op \in SyncOp /\ op.kind = "sync" /\ op.phase = "import" /\ ~op.blocked
      /\ stateFile = managed.state /\ saved.state = managed.state /\ e \notin op.done
      /\ UNCHANGED <<history, stateFile, saved, managed, status>>
  BY Imports
<1>2. /\ Len(op.seen) <= Len(history[managed.account])
      /\ \A i \in DOMAIN op.seen : op.seen[i] <= history[managed.account][i]
      /\ ~op.partial => \A f \in op.done : journal[f] = managed.state.events[f]
      /\ ~op.partial /\ Follows(op.from, managed.account) =>
            \A i \in DOMAIN op.seen :
                managed.state.events[<<managed.account, i>>] >= Owed(op.from, op.seen, i)
  BY <1>1 DEF SyncInv
<1>3. \/ /\ journal' = [journal EXCEPT ![e] = managed.state.events[e]]
         /\ op' = [op EXCEPT !.done = @ \cup {e}]
      \/ op' = [op EXCEPT !.done = @ \cup {e}, !.partial = TRUE]
  BY DEF Import
<1>4. /\ op'.kind = "sync" /\ op'.phase = "import" /\ op'.seen = op.seen /\ op'.from = op.from
      /\ op'.blocked = op.blocked /\ op'.done = op.done \cup {e}
      /\ op'.partial \/ (op'.partial = op.partial /\ journal' = [journal EXCEPT ![e] = managed.state.events[e]])
  BY <1>1, <1>3 DEF SyncOp
<1>5. ~op'.partial => \A f \in op'.done : journal'[f] = managed.state.events[f]
  <2> SUFFICES ASSUME ~op'.partial, NEW f \in op'.done
               PROVE  journal'[f] = managed.state.events[f]
    OBVIOUS
  <2>1. journal' = [journal EXCEPT ![e] = managed.state.events[e]] /\ ~op.partial
    BY <1>4
  <2>2. DOMAIN journal = Event /\ op.done \subseteq Event
    BY <1>1 DEF BrokerType, SyncOp
  <2>3. f \in Event /\ (f = e \/ f \in op.done)
    BY <1>4, <2>2
  <2>4. QED
    BY <1>2, <2>1, <2>2, <2>3
<1>6. QED
  BY <1>1, <1>2, <1>4, <1>5 DEF SyncInv, Follows, Owed

\* What the broker does meanwhile does not concern the sync.
LEMMA SyncUnmoved ==
    ASSUME BrokerType, HistoryInv, SyncInv, OwnerInv, HistoryGrows, BrokerType',
           UNCHANGED <<managed, stateFile, saved, journal, op>>
    PROVE  SyncInv'
<1> SUFFICES ASSUME op.kind = "sync" PROVE SyncInv'
  BY DEF SyncInv
<1>1. PICK a \in Account : a = managed.account
  BY DEF OwnerInv
<1>2. /\ op \in SyncOp /\ Len(op.seen) \in Nat /\ Len(history[a]) \in Nat
      /\ \A i \in DOMAIN op.seen : i \in DOMAIN history[a] /\ op.seen[i] \in Nat
      /\ \A i \in DOMAIN history[a] : history[a][i] \in Nat
  BY <1>1, SyncTypes
<1>3. Len(history[a]) <= Len(history'[a]) /\ Len(history'[a]) \in Nat
      /\ \A i \in DOMAIN history[a] : history[a][i] <= history'[a][i] /\ history'[a][i] \in Nat
  <2>1. Len(history[a]) <= Len(history'[a])
        /\ \A i \in DOMAIN history[a] : history[a][i] <= history'[a][i]
    BY DEF HistoryGrows
  <2>2. history'[a] \in Seq(Revision) /\ history[a] \in Seq(Revision)
    BY DEF BrokerType
  <2>3. \A i \in DOMAIN history[a] : i \in DOMAIN history'[a]
    BY <2>1, <2>2
  <2>4. \A i \in DOMAIN history'[a] : history'[a][i] \in Revision
    BY <2>2
  <2>5. \A i \in DOMAIN history[a] : history'[a][i] \in Nat
    BY <2>3, <2>4, Revisions
  <2>6. QED
    BY <2>1, <2>2, <2>5
<1>4. Len(op.seen) <= Len(history[a]) /\ \A i \in DOMAIN op.seen : op.seen[i] <= history[a][i]
  BY <1>1 DEF SyncInv
<1>5. Len(op.seen) <= Len(history'[a]) /\ \A i \in DOMAIN op.seen : op.seen[i] <= history'[a][i]
  BY <1>2, <1>3, <1>4
<1>6. QED
  BY <1>1, <1>5 DEF SyncInv, Covers, Follows, Owed

-----------------------------------------------------------------------------
(* The answers.                                                            *)

\* An answer stays true while it stands: the journal does not go back.
LEMMA AnswerStands ==
    ASSUME BrokerType, AnswerInv, CompleteSyncIsComplete, status' = status,
           journal' \in [Event -> {0} \cup Revision],
           \A e \in Event : journal'[e] >= journal[e]
    PROVE  AnswerInv' /\ CompleteSyncIsComplete'
<1>1. AnswerInv'
  BY DEF AnswerInv
<1>2. SUFFICES ASSUME status.kind = "synced", status.complete,
                      status.from = Start \/ status.from.of = status.account,
                      NEW i \in DOMAIN status.seen
               PROVE  journal'[<<status.account, i>>] >= IF status.from = Start THEN status.seen[i] ELSE 1
  BY <1>1 DEF CompleteSyncIsComplete
<1>3. PICK e \in Event : e = <<status.account, i>>
  BY <1>2 DEF AnswerInv
<1>4. journal[e] >= IF status.from = Start THEN status.seen[i] ELSE 1
  BY <1>2, <1>3 DEF CompleteSyncIsComplete
<1>5. journal[e] \in Nat /\ journal'[e] \in Nat
  BY Revisions DEF BrokerType
<1>6. status \in AnswerType
  BY <1>2 DEF BrokerType
<1>7. status.seen[i] \in Nat
  <2>1. status.seen \in Seq(Revision)
    BY <1>6 DEF AnswerType
  <2>2. status.seen[i] \in Revision
    BY <1>2, <2>1
  <2>3. QED
    BY <2>2, Revisions
<1>8. QED
  BY <1>3, <1>4, <1>5, <1>7

\* The answer of a complete sync: all events the manager has are imported, and it has
\* what the sync owes.
LEMMA AnswerGiven ==
    ASSUME BrokerType, HistoryInv, SyncInv, OwnerInv, SyncDone
    PROVE  AnswerInv' /\ CompleteSyncIsComplete'
<1>1. op \in SyncOp /\ op.kind = "sync" /\ op.phase = "import" /\ managed.account \in Account
  <2>1. op \in SyncOp /\ op.kind = "sync" /\ op.phase = "import"
    BY OpFacts DEF SyncDone, SyncOp
  <2>2. QED
    BY <2>1 DEF OwnerInv
<1>2. CASE op.partial
  <2>1. status' = [kind |-> "synced", complete |-> FALSE]
    BY <1>2 DEF SyncDone
  <2>2. status'.complete = FALSE
    BY <2>1
  <2>3. QED
    BY <2>2 DEF AnswerInv, CompleteSyncIsComplete
<1>3. CASE ~op.partial
  <2>1. PICK a \in Account : a = managed.account
    BY <1>1
  <2>2. /\ status'.kind = "synced" /\ status'.complete = TRUE /\ status'.account = a
        /\ status'.from = op.from /\ status'.seen = op.seen /\ journal' = journal
    BY <1>3, <2>1 DEF SyncDone, Answer
  <2>3. \A i \in DOMAIN op.seen :
          /\ <<a, i>> \in Event /\ Owed(op.from, op.seen, i) \in Nat /\ 1 <= Owed(op.from, op.seen, i)
          /\ managed.state.events[<<a, i>>] \in Nat /\ journal[<<a, i>>] \in Nat
    BY <1>1, <2>1, SyncTypes
  <2>4. ~op.blocked /\ \A e \in op.done : journal[e] = managed.state.events[e]
    BY <1>1, <1>3 DEF SyncInv
  <2>5. \A e \in Event : managed.state.events[e] # 0 => e \in op.done
    BY <2>4 DEF SyncDone, ToImport
  <2>6. ASSUME op.from = Start \/ op.from.of = a, NEW i \in DOMAIN op.seen
        PROVE  journal[<<a, i>>] >= Owed(op.from, op.seen, i)
    <3>1. managed.state.events[<<a, i>>] >= Owed(op.from, op.seen, i)
      BY <1>1, <1>3, <2>1, <2>6 DEF SyncInv, Follows
    <3>2. managed.state.events[<<a, i>>] # 0 /\ <<a, i>> \in Event
      BY <2>3, <3>1
    <3>3. journal[<<a, i>>] = managed.state.events[<<a, i>>]
      BY <2>4, <2>5, <3>2
    <3>4. QED
      BY <3>1, <3>3
  <2>7. AnswerInv'
    BY <2>2, <2>3 DEF AnswerInv
  <2>8. CompleteSyncIsComplete'
    BY <2>2, <2>6 DEF CompleteSyncIsComplete, Owed
  <2>9. QED
    BY <2>7, <2>8
<1>4. QED
  BY <1>1, <1>2, <1>3 DEF SyncOp

-----------------------------------------------------------------------------
(* The invariant.                                                          *)

LEMMA HistoryStays ==
    ASSUME BrokerType, HistoryInv, Request \/ Step \/ Crash
    PROVE  history' = history /\ HistoryInv'
<1>1. history' = history
  BY DEF Request, Load, Disconnect, SyncStart, SyncRevoked, Connect, Step, Restore, SaveCredentials,
         SaveState, SaveConfig, ReadPage, ReadFails, ReadPartialPage, Import, SyncDone, Crash, broker
<1>2. \/ used' = used \/ Spend("requests", MaxRequests) \/ Spend("faults", MaxFaults)
      \/ Spend("crashes", MaxCrashes)
  BY DEF Request, Load, Disconnect, SyncStart, SyncRevoked, Connect, Step, Restore, SaveCredentials,
         SaveState, SaveConfig, ReadPage, ReadFails, ReadPartialPage, Import, SyncDone, Crash, Abandon
<1>3. used'.corrections = used.corrections
  BY <1>2, Spends
<1>4. QED
  BY <1>1, <1>3 DEF HistoryInv

LEMMA BrokerInit == Init => BrokerInv
<1> SUFFICES ASSUME Init PROVE BrokerInv
  OBVIOUS
<1>1. BrokerType
  <2>1. << >> \in Seq(Revision)
    OBVIOUS
  <2>2. history \in [Account -> Seq(Revision)]
    BY <2>1 DEF Init
  <2>3. NoEvents \in [Event -> {0} \cup Revision]
    BY DEF NoEvents
  <2>4. used \in [corrections : 0 .. MaxCorrections, requests : 0 .. MaxRequests,
                  faults : 0 .. MaxFaults, crashes : 0 .. MaxCrashes]
    BY Constants DEF Init
  <2>5. status \in [kind : {"none", "connect", "disconnect", "restore_failed"}]
    BY DEF Init, NoStatus
  <2>6. QED
    BY <2>2, <2>3, <2>4, <2>5, Types DEF Init, BrokerType
<1>2. \A a \in Account : history[a] = << >> /\ Len(history[a]) = 0 /\ DOMAIN history[a] = {}
  <2>1. \A a \in Account : history[a] = << >>
    BY DEF Init
  <2>2. Len(<< >>) = 0 /\ DOMAIN << >> = {}
    OBVIOUS
  <2>3. QED
    BY <2>1, <2>2
<1>3. HistoryInv
  <2>1. \A a \in Account : 0 <= MaxEvents[a]
    <3> SUFFICES ASSUME NEW a \in Account PROVE 0 <= MaxEvents[a]
      OBVIOUS
    <3>1. MaxEvents[a] \in Nat
      BY Constants
    <3>2. QED
      BY <3>1
  <2>2. QED
    BY <1>2, <2>1 DEF HistoryInv
<1>4. \A e \in Event : Now(e) = 0 /\ journal[e] = 0
  BY <1>2, Constants DEF Init, Now, NoEvents
<1>5. StateInv(Fresh)
  BY <1>4, Types, Constants DEF StateInv, Covers, EventsInv
<1>6. stateFile = Fresh /\ saved.state = Fresh /\ managed.state = Fresh
  BY Types DEF Init
<1>7. KnownInv
  BY <1>4, <1>5, <1>6 DEF KnownInv
<1>8. OwnerInv
  BY Types, Constants DEF Init, OwnerInv, Idle
<1>9. SyncInv
  BY DEF Init, SyncInv, Idle
<1>10. AnswerInv /\ CompleteSyncIsComplete
  BY DEF Init, NoStatus, AnswerInv, CompleteSyncIsComplete
<1>11. QED
  BY <1>1, <1>3, <1>7, <1>8, <1>9, <1>10 DEF BrokerInv

LEMMA BrokerRequest == BrokerInv /\ (Request \/ Crash) => BrokerInv'
<1> SUFFICES ASSUME BrokerInv, Request \/ Crash PROVE BrokerInv'
  OBVIOUS
<1>0. BrokerType /\ HistoryInv /\ KnownInv /\ OwnerInv /\ SyncInv /\ AnswerInv /\ CompleteSyncIsComplete
  BY DEF BrokerInv
<1>1. BrokerType'
  <2>1. CASE Request
    BY <1>0, <2>1, RequestTypes
  <2>2. CASE Crash
    <3>1. DataType /\ OpType_ /\ StatusType /\ UsedType
      BY <1>0, TypeParts
    <3>2. DataType'
      BY <3>1, <2>2, Types DEF Crash, DataType, broker, files
    <3>3. UsedType'
      BY <1>0, <2>2, SpendTypes DEF Crash
    <3>4. OpType_' /\ StatusType'
      BY <3>1, <2>2 DEF Crash, OpType_, StatusType
    <3>5. QED
      BY <3>2, <3>3, <3>4, TypePartsNext
  <2>3. QED
    BY <2>1, <2>2
<1>2. HistoryInv' /\ history' = history
  BY <1>0, HistoryStays
<1>3. KnownInv'
  BY <1>0, <1>1, KnownMoves
<1>4. OwnerInv'
  BY <1>0, OwnerRequest
<1>5. SyncInv'
  <2>1. CASE SyncStart
    BY <1>0, <2>1, SyncStarts
  <2>2. CASE op' = Idle
    BY <2>2 DEF SyncInv, Idle
  <2>3. CASE Load
    <3>1. op'.kind \in {"restore", "idle"}
      BY <2>3 DEF Load, Idle
    <3>2. QED
      BY <3>1 DEF SyncInv
  <2>4. CASE Disconnect \/ \E a \in Account : Connect(a)
    <3>1. op'.kind \in {"connect", "disconnect"}
      BY <2>4 DEF Disconnect, Connect
    <3>2. QED
      BY <3>1 DEF SyncInv
  <2>5. CASE SyncRevoked
    BY <2>2, <2>5 DEF SyncRevoked
  <2>6. CASE Crash
    BY <2>2, <2>6 DEF Crash
  <2>7. QED
    BY <2>1, <2>3, <2>4, <2>5, <2>6 DEF Request
<1>6. AnswerInv' /\ CompleteSyncIsComplete'
  <2>1. CASE SyncRevoked
    <3>1. status'.complete = FALSE
      BY <2>1 DEF SyncRevoked
    <3>2. QED
      BY <3>1 DEF AnswerInv, CompleteSyncIsComplete
  <2>2. CASE ~SyncRevoked
    <3>1. status' = status /\ journal' = journal
      BY <2>2 DEF Request, Load, Disconnect, SyncStart, Connect, Crash
    <3>2. \A e \in Event : journal[e] \in Nat
      BY <1>0, Revisions DEF BrokerType
    <3>3. journal' \in [Event -> {0} \cup Revision]
      BY <1>1 DEF BrokerType
    <3>4. \A e \in Event : journal'[e] >= journal[e]
      BY <3>1, <3>2
    <3>5. QED
      BY <1>0, <3>1, <3>3, <3>4, AnswerStands
  <2>3. QED
    BY <2>1, <2>2
<1>7. QED
  BY <1>1, <1>2, <1>3, <1>4, <1>5, <1>6 DEF BrokerInv

LEMMA BrokerStep == BrokerInv /\ Step => BrokerInv'
<1> SUFFICES ASSUME BrokerInv, Step PROVE BrokerInv'
  OBVIOUS
<1>0. BrokerType /\ HistoryInv /\ KnownInv /\ OwnerInv /\ SyncInv /\ AnswerInv /\ CompleteSyncIsComplete
  BY DEF BrokerInv
<1>1. BrokerType'
  BY <1>0, StepTypes
<1>2. HistoryInv' /\ history' = history
  BY <1>0, HistoryStays
<1>3. OwnerInv'
  BY <1>0, OwnerStep
<1>4. ASSUME ReadPage \/ ReadFails \/ ReadPartialPage PROVE KnownInv' /\ SyncInv'
  <2>1. managed.account \in Account
    <3>1. op.kind = "sync"
      BY <1>0, <1>4, OpFacts DEF ReadPage, ReadFails, ReadPartialPage, Scanning, SyncOp
    <3>2. QED
      BY <1>0, <3>1 DEF OwnerInv
  <2>2. KnownInv' /\ SyncInv'
    BY <1>0, <1>4, <2>1, ScanKeeps
  <2>3. QED
    BY <2>2
<1>5. ASSUME NEW e \in Event, Import(e) PROVE KnownInv' /\ SyncInv'
  BY <1>0, <1>5, ImportKnown, ImportSyncs
<1>6. ASSUME Restore \/ SaveCredentials \/ SaveState \/ SaveConfig \/ SyncDone
      PROVE  KnownInv' /\ SyncInv'
  <2>1. KnownInv'
    BY <1>0, <1>1, <1>6, KnownMoves
  <2>2. CASE op' = Idle
    BY <2>1, <2>2 DEF SyncInv, Idle
  <2>3. CASE Restore
    <3>1. op.kind = "restore" /\ op.phase = "bind"
      BY <1>0, <2>3, OpFacts DEF Restore, RestoreOp
    <3>2. op' = Proceed(op) \/ op' = Idle
      BY <2>3 DEF Restore, Abandon
    <3>3. op' = Proceed(op) => op'.kind \in {"idle", "restore"}
      BY <1>0, <3>1, GoesOn
    <3>4. QED
      BY <2>1, <2>2, <3>2, <3>3 DEF SyncInv
  <2>4. CASE SaveCredentials
    <3>1. op.phase = "credentials" /\ UNCHANGED <<history, managed, journal>>
          /\ (op' = Proceed(op) \/ op' = Idle)
      BY <2>4 DEF SaveCredentials, Abandon, broker, memory
    <3>2. CASE op' = Proceed(op) /\ op.kind = "sync"
      BY <1>0, <2>1, <3>1, <3>2, SyncWrites
    <3>3. CASE op' = Proceed(op) /\ op.kind # "sync"
      <4>1. op'.kind # "sync"
        BY <1>0, <3>1, <3>3, GoesOn
      <4>2. QED
        BY <2>1, <4>1 DEF SyncInv
    <3>4. QED
      BY <2>2, <3>1, <3>2, <3>3
  <2>5. CASE SaveState
    <3>1. op.phase = "state" /\ UNCHANGED <<history, managed, journal>>
          /\ (op' = Proceed(op) \/ op' = Idle)
      BY <2>5 DEF SaveState, Abandon, broker
    <3>2. CASE op' # Idle /\ op.kind = "sync"
      <4>1. op' = Proceed(op)
        BY <3>1, <3>2
      <4>2. managed.registered
        BY <1>0, <3>2 DEF OwnerInv
      <4>3. stateFile' = managed.state /\ saved' = [saved EXCEPT !.state = stateFile']
        BY <2>5, <3>2, <4>2 DEF SaveState, Abandon
      <4>4. saved'.state = managed.state
        BY <1>0, <4>3 DEF BrokerType
      <4>5. QED
        BY <1>0, <2>1, <3>1, <3>2, <4>1, <4>3, <4>4, SyncWrites
    <3>3. CASE op' = Proceed(op) /\ op.kind # "sync"
      <4>1. op'.kind # "sync"
        BY <1>0, <3>1, <3>3, GoesOn
      <4>2. QED
        BY <2>1, <4>1 DEF SyncInv
    <3>4. QED
      BY <2>2, <3>1, <3>2, <3>3
  <2>6. CASE SaveConfig
    <3>1. op' = Idle
      BY <1>0, <2>6, GoesOn DEF SaveConfig
    <3>2. QED
      BY <2>2, <3>1
  <2>7. CASE SyncDone
    <3>1. op.kind = "sync" /\ op.phase = "import"
      BY <1>0, <2>7, OpFacts DEF SyncDone, SyncOp
    <3>2. op' = Idle
      BY <2>7, <3>1, SyncProceeds DEF SyncDone
    <3>3. QED
      BY <2>2, <3>2
  <2>8. QED
    BY <1>6, <2>3, <2>4, <2>5, <2>6, <2>7
<1>7. KnownInv' /\ SyncInv'
  <2>1. \/ ReadPage \/ ReadFails \/ ReadPartialPage \/ (\E e \in Event : Import(e))
        \/ Restore \/ SaveCredentials \/ SaveState \/ SaveConfig \/ SyncDone
    BY DEF Step
  <2>2. CASE Restore \/ SaveCredentials \/ SaveState \/ SaveConfig \/ SyncDone
    BY <1>6, <2>2
  <2>3. CASE ReadPage \/ ReadFails \/ ReadPartialPage
    BY <1>4, <2>3
  <2>4. QED
    BY <1>5, <2>1, <2>2, <2>3
<1>8. AnswerInv' /\ CompleteSyncIsComplete'
  <2>1. CASE SyncDone
    BY <1>0, <2>1, AnswerGiven
  <2>2. CASE status' = status
    <3>1. \A e \in Event : journal'[e] >= journal[e]
      BY <1>0, JournalGrows DEF Next
    <3>2. journal' \in [Event -> {0} \cup Revision]
      BY <1>1 DEF BrokerType
    <3>3. QED
      BY <1>0, <2>2, <3>1, <3>2, AnswerStands
  <2>3. CASE SaveConfig
    <3>1. op.kind \in {"connect", "disconnect"} /\ status' = [kind |-> op.kind]
      BY <1>0, <2>3, OpFacts DEF SaveConfig, AnswerOp
    <3>2. status'.kind # "synced"
      BY <3>1
    <3>3. QED
      BY <3>2 DEF AnswerInv, CompleteSyncIsComplete
  <2>4. CASE Abandon
    <3>1. status' = status \/ status'.kind = "restore_failed"
      BY <2>4 DEF Abandon
    <3>2. CASE status'.kind = "restore_failed"
      BY <3>2 DEF AnswerInv, CompleteSyncIsComplete
    <3>3. QED
      BY <2>2, <3>1, <3>2
  <2>5. SyncDone \/ SaveConfig \/ Abandon \/ status' = status
    BY DEF Step, Restore, SaveCredentials, SaveState, ReadPage, ReadFails, ReadPartialPage, Import
  <2>6. QED
    BY <2>1, <2>2, <2>3, <2>4, <2>5
<1>9. QED
  BY <1>1, <1>2, <1>3, <1>7, <1>8 DEF BrokerInv

LEMMA BrokerElsewhere == ASSUME BrokerInv, NEW a \in Account, Execute(a) \/ Correct(a) PROVE BrokerInv'
<1>0. BrokerType /\ HistoryInv /\ KnownInv /\ OwnerInv /\ SyncInv /\ AnswerInv /\ CompleteSyncIsComplete
  BY DEF BrokerInv
<1>1. BrokerType' /\ HistoryInv' /\ HistoryGrows
  BY <1>0, BrokerMoves
<1>2. UNCHANGED <<files, memory, journal, op, status, wanted>>
  BY DEF Execute, Correct
<1>3. KnownInv'
  <2>1. PICK known : known = {stateFile, saved.state, managed.state, Fresh}
    OBVIOUS
  <2>2. /\ stateFile' \in known /\ saved'.state \in known /\ managed'.state \in known
        /\ journal' = journal
    BY <1>2, <2>1 DEF files, memory
  <2>3. QED
    BY <1>0, <1>1, <2>1, <2>2, KnownKept
<1>4. OwnerInv'
  BY <1>0, <1>2 DEF OwnerInv, files, memory
<1>5. SyncInv'
  BY <1>0, <1>1, <1>2, SyncUnmoved DEF files, memory
<1>6. AnswerInv' /\ CompleteSyncIsComplete'
  BY <1>0, <1>2 DEF AnswerInv, CompleteSyncIsComplete
<1>7. QED
  BY <1>1, <1>3, <1>4, <1>5, <1>6 DEF BrokerInv

LEMMA BrokerNext == BrokerInv /\ [Next]_vars => BrokerInv'
<1> SUFFICES ASSUME BrokerInv, [Next]_vars PROVE BrokerInv'
  OBVIOUS
<1>1. CASE Request \/ Crash
  BY <1>1, BrokerRequest
<1>2. CASE Step
  BY <1>2, BrokerStep
<1>3. CASE \E a \in Account : Execute(a) \/ Correct(a)
  BY <1>3, BrokerElsewhere
<1>4. CASE UNCHANGED vars
  <2>1. UNCHANGED <<history, credsFile, stateFile, config, loaded, saved, managed, journal, op,
                    status, wanted, used>>
    BY <1>4 DEF vars, broker, files, memory
  <2>2. BrokerType' /\ HistoryInv'
    BY <2>1 DEF BrokerInv, BrokerType, HistoryInv
  <2>3. KnownInv'
    <3>1. \A e \in Event : Now(e)' = Now(e)
      BY <2>1 DEF Now
    <3>2. QED
      BY <2>1, <3>1 DEF BrokerInv, KnownInv, StateInv, Covers, EventsInv
  <2>4. OwnerInv'
    BY <2>1 DEF BrokerInv, OwnerInv
  <2>5. SyncInv'
    BY <2>1 DEF BrokerInv, SyncInv, Covers, Follows, Owed
  <2>6. AnswerInv' /\ CompleteSyncIsComplete'
    BY <2>1 DEF BrokerInv, AnswerInv, CompleteSyncIsComplete
  <2>7. QED
    BY <2>2, <2>3, <2>4, <2>5, <2>6 DEF BrokerInv
<1>5. QED
  BY <1>1, <1>2, <1>3, <1>4 DEF Next
-----------------------------------------------------------------------------
\* The inductive invariant of a connection: what the types are, how the broker's
\* history bounds what is known of it, that every saved cursor has its scan behind
\* it, who is connected, what the sync in progress owes and what the last answer said.
THEOREM BrokerInvariant == Spec => []BrokerInv
<1>1. Init => BrokerInv
  BY BrokerInit
<1>2. BrokerInv /\ [Next]_vars => BrokerInv'
  BY BrokerNext
<1>3. QED
  BY <1>1, <1>2, PTL DEF Spec

\* Every variable has its type: no sync reads more than max_pages pages, and no page is
\* tried more than max_attempts times (SyncEngine.sync).
THEOREM BrokerTypeCorrect == Spec => []TypeOK
<1>1. BrokerInv => TypeOK
  <2> SUFFICES ASSUME BrokerInv PROVE TypeOK
    OBVIOUS
  <2>1. BrokerType
    BY DEF BrokerInv
  <2>2. OpType
    <3>1. CASE op \in SyncOp
      <4>1. /\ op.kind = "sync" /\ op.phase \in {"scan", "credentials", "state", "import"}
            /\ op.cursor \in Cursor /\ op.from \in Cursor /\ op.pages \in 0 .. MaxPages - 1
            /\ op.attempts \in 0 .. MaxAttempts - 1 /\ op.done \subseteq Event
        BY <3>1 DEF SyncOp
      <4>2. op.pages < MaxPages /\ op.attempts < MaxAttempts
        BY <4>1, Constants
      <4>3. QED
        BY <4>1, <4>2 DEF OpType
    <3>2. QED
      BY <2>1, <3>1 DEF BrokerType, OpType
  <2>3. status.kind \in {"none", "connect", "disconnect", "restore_failed", "synced"}
    BY <2>1 DEF BrokerType, AnswerType
  <2>4. QED
    BY <2>1, <2>2, <2>3 DEF BrokerType, TypeOK
<1>2. QED
  BY <1>1, BrokerInvariant, PTL

\* A sync that reports itself complete has lost no execution: all its account had when
\* the sync began are in the journal, however the scan was interrupted by failed pages,
\* failed writes and restarts (SyncEngine.sync, ConnectionController.sync); and the cursor
\* on disk never stands behind an execution that is not on disk with it.
THEOREM NothingGetsSkipped == Spec => []NothingIsSkipped
<1>1. BrokerInv => CompleteSyncIsComplete
  BY DEF BrokerInv
<1>2. BrokerInv => CursorCoversItsScan
  BY DEF BrokerInv, KnownInv, StateInv, Covers, CursorCoversItsScan
<1>3. QED
  BY <1>1, <1>2, BrokerInvariant, PTL DEF NothingIsSkipped

\* Whatever failed or restarted in between, the connection is the one the last answered
\* request left: after a connect its account and no other, after a disconnect none.
THEOREM ConnectionsAreTheOnesAskedFor == Spec => []ConnectionIsTheOneAskedFor
<1>1. BrokerInv => ConnectionIsTheOneAskedFor
  BY DEF BrokerInv, OwnerInv, ConnectionIsTheOneAskedFor
<1>2. QED
  BY <1>1, BrokerInvariant, PTL

\* Replaying the durable events on every sync never takes an execution of the journal
\* back to an earlier revision, nor out of it (the import of ConnectionController.sync).
THEOREM JournalsNeverGoBack == Spec => JournalNeverGoesBack
<1>1. BrokerInv /\ [Next]_vars => [\A e \in Event : journal'[e] >= journal[e]]_vars
  BY JournalGrows DEF BrokerInv
<1>2. QED
  BY <1>1, BrokerInvariant, PTL DEF Spec, JournalNeverGoesBack
=============================================================================
