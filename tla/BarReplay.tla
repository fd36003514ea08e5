----------------------------- MODULE BarReplay -----------------------------
(***************************************************************************)
(* The bar replays of a tenant (trader/replay.py behind the replay lock of *)
(* trader/api/service.py): a cursor over recorded bars, and in training a  *)
(* paper account whose orders are filled at the open of the next bar.      *)
(* Going back in training starts a new session and keeps the old one.      *)
(***************************************************************************)
EXTENDS Integers, Sequences, SequencesExt, Selection

CONSTANTS LastBar,     \* the bars are 0 .. LastBar
          OpenPrice,   \* OpenPrice[i] is the opening price of bar i
          InitialCash,
          Quantities,  \* the quantities of an order, negative to sell
          MaxReplays,  \* bound: sessions that are asked for
          MaxSessions, \* bound: sessions, the branches included
          MaxOrders    \* bound: orders of one session

ASSUME ReplayAssumption ==
    /\ LastBar \in Nat /\ OpenPrice \in [0 .. LastBar -> Nat \ {0}]
    /\ InitialCash \in Nat \ {0} /\ Quantities \subseteq Int \ {0}
    /\ {MaxReplays, MaxSessions, MaxOrders} \subseteq Nat

VARIABLE sessions  \* the documents "replay_session", by their number

replayVars == <<sessions>>

ReplayInit == sessions = << >>

create_record(mode, index) ==
    [mode |-> mode, index |-> index, parent |-> 0,
     orders |-> << >>, fills |-> << >>, cash |-> InitialCash, position |-> 0]

create_replay_session ==
    /\ Len(sessions) < MaxReplays
    /\ \E mode \in {"review", "training"}, index \in 0 .. LastBar :
        sessions' = Append(sessions, create_record(mode, index))

-----------------------------------------------------------------------------
(* Orders are filled when their next bar is revealed, in the order they    *)
(* came: without credit, and short by no more than the initial capital.    *)

Affordable_long(cash, position, price) == cash >= 0
Affordable(cash, position, price) ==
    cash >= 0 /\ (position < 0 => -position * price <= InitialCash)

FillOf(order) == [id |-> order.id, index |-> order.at + 1, quantity |-> order.quantity,
                price |-> OpenPrice[order.at + 1]]

Account(cash, position) == [cash |-> cash, position |-> position]
Opening == Account(InitialCash, 0)
Traded(account, fill) ==
    Account(account.cash - fill.quantity * fill.price, account.position + fill.quantity)
AccountAfter(fills) == FoldLeft(Traded, Opening, fills)

WithStatus(order, status) == [order EXCEPT !.status = status]

SettleOrder(s, i) ==
    LET fill == FillOf(s.orders[i])
        left == Traded(Account(s.cash, s.position), fill)
    IN  IF Affordable(left.cash, left.position, fill.price)
        THEN [s EXCEPT !.orders[i] = WithStatus(@, "filled"), !.fills = Append(@, fill),
                       !.cash = left.cash, !.position = left.position]
        ELSE [s EXCEPT !.orders[i] = WithStatus(@, "rejected")]

Due(s, i, to) == s.orders[i].status = "pending" /\ s.orders[i].at + 1 <= to

Settled(s, i, to) == IF Due(s, i, to) THEN SettleOrder(s, i) ELSE s
_settle(s, to) ==
    FoldLeft(LAMBDA t, i : Settled(t, i, to), s, [i \in DOMAIN s.orders |-> i])

-----------------------------------------------------------------------------
(* The requests on one session.                                            *)

Order(s, q) ==
    [id |-> IF s.orders = << >> THEN 1 ELSE Last(s.orders).id + 1,
     at |-> s.index, quantity |-> q, status |-> "pending"]

WithOrder(s, q) == [s EXCEPT !.orders = Append(@, Order(s, q))]

\* "simulate": an order at the cursor, if there is a next bar.
Simulate_atTheEnd(n) ==
    /\ sessions[n].mode = "training"
    /\ Len(sessions[n].orders) < MaxOrders
    /\ \E q \in Quantities :
        sessions' = [sessions EXCEPT ![n] = WithOrder(@, q)]
Simulate(n) ==
    /\ sessions[n].mode = "training" /\ sessions[n].index < LastBar
    /\ Len(sessions[n].orders) < MaxOrders
    /\ \E q \in Quantities :
        sessions' = [sessions EXCEPT ![n] = WithOrder(@, q)]

\* The session a training goes back to: the fills of the revealed bars and their
\* orders, and the account these fills leave.
FilledBy(s, to) == Selected(s.fills, {f \in ToSet(s.fills) : f.index <= to})
OrdersOf(s, fills) ==
    Selected(s.orders, {o \in ToSet(s.orders) : \E f \in ToSet(fills) : f.id = o.id})

Rewound(s, n, to) ==
    LET fills == FilledBy(s, to)
        left  == AccountAfter(fills)
    IN  [s EXCEPT !.parent = n, !.index = to, !.fills = fills, !.orders = OrdersOf(s, fills),
                  !.cash = left.cash, !.position = left.position]

Branch_inPlace(n, s) == sessions' = [sessions EXCEPT ![n] = s]
Branch(n, s) == Len(sessions) < MaxSessions /\ sessions' = Append(sessions, s)

\* "step", "seek" and "rewind".
Move(n) ==
    \E to \in 0 .. LastBar :
        LET s == sessions[n] IN
        \/ s.mode = "review" /\ sessions' = [sessions EXCEPT ![n] = [s EXCEPT !.index = to]]
        \/ s.mode = "training" /\ to < s.index /\ Branch(n, Rewound(s, n, to))
        \/ /\ s.mode = "training" /\ to >= s.index
           /\ sessions' = [sessions EXCEPT ![n] = [_settle(s, to) EXCEPT !.index = to]]

ReplayNext == create_replay_session \/ \E n \in DOMAIN sessions : Simulate(n) \/ Move(n)

ReplaySpec == ReplayInit /\ [][ReplayNext]_replayVars

-----------------------------------------------------------------------------
ReplayTypeOK ==
    \A n \in DOMAIN sessions :
        /\ sessions[n].mode \in {"review", "training"}
        /\ sessions[n].index \in 0 .. LastBar /\ sessions[n].parent \in 0 .. n - 1
        /\ \A o \in ToSet(sessions[n].orders) :
            /\ o.at \in 0 .. LastBar - 1
            /\ o.status \in {"pending", "filled", "rejected"}

\* The account of a training is what its fills make of the initial capital; after
\* each of them it was affordable; they come from the bars already revealed, in their
\* order; and what is pending waits for a bar not yet revealed: across steps, jumps
\* over several bars, rewinds and branches of branches.
AccountIsReplayable ==
    \A n \in DOMAIN sessions : LET s == sessions[n] IN
        /\ Account(s.cash, s.position) = AccountAfter(s.fills)
        /\ \A k \in DOMAIN s.fills :
            LET then == AccountAfter(SubSeq(s.fills, 1, k))
            IN  /\ then.cash >= 0
                /\ -then.position * s.fills[k].price <= InitialCash
                /\ s.fills[k].index <= s.index /\ s.fills[k].price = OpenPrice[s.fills[k].index]
                /\ k > 1 => s.fills[k - 1].index <= s.fills[k].index
        /\ \A o \in ToSet(s.orders) : o.status = "pending" => o.at = s.index

\* An experiment is never rewritten: the cursor of a training only advances and its
\* fills are only added to, whatever is rewound; a branch begins with what its
\* parent had filled up to the bar it starts from (apply_action).
ExperimentsOnlyGrow ==
    [][/\ \A n \in DOMAIN sessions : sessions[n].mode = "training" =>
            /\ sessions[n].index <= sessions'[n].index
            /\ IsPrefix(sessions[n].fills, sessions'[n].fills)
       /\ \A n \in DOMAIN sessions' \ DOMAIN sessions : sessions'[n].parent # 0 =>
            LET s == sessions'[n] IN
            s.fills = FilledBy(sessions[s.parent], s.index)]_sessions
=============================================================================
