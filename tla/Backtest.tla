------------------------------- MODULE Backtest -------------------------------
(***************************************************************************)
(* The backtest engine (trader/backtest/engine.py) over the strategies its *)
(* language admits (dsl.py): one long position at most, one order waiting, *)
(* four steps a bar.  The engine is handed the whole series at once, and   *)
(* its steps here take the whole series too: what they read of it is what  *)
(* the properties are about.  Amounts are whole and divisions round down;  *)
(* neither prices nor fees nor slips are checked, so they may be negative. *)
(***************************************************************************)
EXTENDS Integers, Sequences, SequencesExt, FiniteSetsExt, Selection

CONSTANTS Shape,      \* the bars a series is made of
          BarCount,   \* bound: bars of a series
          Strategy,   \* the strategies tried
          StartCash,  \* initial_cash
          FeePercent, \* fees_bps, in hundreds
          SlippagePercent \* slippage_bps, in hundreds

Limit(kind, value) == [kind |-> kind, value |-> value]

\* The parts of a bar an indicator may read, and the indicators there are.
Source    == {"open", "high", "low", "close", "volume"}
Indicator == [kind : {"sma", "volume_sma", "highest", "lowest", "ema", "rsi", "atr"},
              source : Source, period : Nat \ {0}]

Atrs(s) == Selected(s.indicators, {d \in ToSet(s.indicators) : d.kind = "atr"})

validate_strategy(s) ==
    /\ s.indicators \in Seq(Indicator)
    /\ {s.stop.value, s.target.value, s.sizing.value, s.min_bars} \subseteq Nat
    /\ \A d \in ToSet(s.indicators) : d.kind = "volume_sma" => d.source = "volume"
    /\ s.indicators # << >> /\ s.entry # {} /\ s.exit # {}
    /\ \A c \in s.entry \cup s.exit : c.operands \in Seq(DOMAIN s.indicators)
    /\ s.stop.kind = "atr_multiple" => Atrs(s) # << >>
    /\ s.stop.kind = "none" => s.target.kind # "r_multiple" /\ s.sizing.kind # "risk_percent"

ASSUME BacktestAssumption ==
    /\ Shape \subseteq [Source -> Int]
    /\ \A s \in Strategy : validate_strategy(s)
    /\ {BarCount, StartCash} \subseteq Nat /\ {FeePercent, SlippagePercent} \subseteq Int

VARIABLES bars,     \* the series, read by the engine as a whole
          strategy,
          engine,   \* cash, position, pending, trades and equity_curve of _Engine
          at,       \* the index of the loop
          step      \* the step of the loop that is next

backtestVars == <<bars, strategy, engine, at, step>>

Index == 0 .. BarCount - 1
NoPosition == [quantity |-> 0]
NoOrder == [kind |-> "none"]

BacktestInit ==
    /\ bars \in [Index -> Shape]
    /\ strategy \in Strategy
    /\ engine = [cash |-> StartCash, position |-> NoPosition, pending |-> NoOrder,
                 trades |-> << >>, equity_curve |-> << >>]
    /\ at = 0 /\ step = "fill"

-----------------------------------------------------------------------------
(* Indicators: one value a bar, none before the series is warm.            *)

\* The last "period" positions, up to and with i.
Window_oneLater(i, period) == {j \in Index : j > i + 1 - period /\ j <= i + 1}
Window(i, period) == {j \in Index : j > i - period /\ j <= i}

Abs(x) == IF x < 0 THEN -x ELSE x

_true_range(series, i) ==
    LET b       == series[i]
        last    == series[i - 1].close
        reached == {b.high - last, b.low - last}
    IN  IF i = 0 THEN b.high - b.low ELSE Max({b.high - b.low} \cup {Abs(x) : x \in reached})

Mean(source, window, period) == MapThenSumSet(LAMBDA j : source[j], window) \div period

Weighted(old, new, period, weight) ==
    (old * (period - 1) + new * weight) \div (period - 1 + weight)

\* Seeded with the mean of the first "period" values, each later one of the weight given.
Smoothed(source, period, weight, i) ==
    LET value[j \in {j \in DOMAIN source : j >= period - 1}] ==
            IF j = period - 1 THEN Mean(source, 0 .. period - 1, period)
            ELSE Weighted(value[j - 1], source[j], period, weight)
    IN  value[i]

_ema(source, period, i) == Smoothed(source, period, 2, i)
Wilder(source, period, i) == Smoothed(source, period, 1, i)

_atr(series, period, i) == Wilder([j \in Index |-> _true_range(series, j)], period, i)

_rsi_value(gain, loss) ==
    IF loss = 0 THEN IF gain > 0 THEN 100 ELSE 50 ELSE (100 * gain) \div (gain + loss)

\* The first bar has no change, so that changes are one fewer than bars.
_rsi(source, period, i) ==
    LET Moves(sign) == [j \in 0 .. BarCount - 2 |-> Max({sign * (source[j + 1] - source[j]), 0})]
    IN  _rsi_value(Wilder(Moves(1), period, i - 1), Wilder(Moves(-1), period, i - 1))

Warm(d, i) == i \in Index /\ i >= IF d.kind = "rsi" THEN d.period ELSE d.period - 1

_indicator_value(d, series, i) ==
    LET source == [j \in Index |-> series[j][d.source]]
        window == Window(i, d.period)
    IN  CASE d.kind \in {"sma", "volume_sma"} -> Mean(source, window, d.period)
          [] d.kind = "highest" -> Max({source[j] : j \in window})
          [] d.kind = "lowest"  -> Min({source[j] : j \in window})
          [] d.kind = "ema"     -> _ema(source, d.period, i)
          [] d.kind = "rsi"     -> _rsi(source, d.period, i)
          [] OTHER              -> _atr(series, d.period, i)

-----------------------------------------------------------------------------
(* Rules.                                                                  *)

Crosses(c) == c.operator \in {"crosses_above", "crosses_below"}

\* The comparison of the operands' values now, and for a crossing those before.
Compares(operator, now, before) ==
    \/ operator = "gt"            /\ now[1] > now[2]
    \/ operator = "lt"            /\ now[1] < now[2]
    \/ operator = "gte"           /\ now[1] >= now[2]
    \/ operator = "lte"           /\ now[1] <= now[2]
    \/ operator = "crosses_above" /\ before[1] <= before[2] /\ now[1] > now[2]
    \/ operator = "crosses_below" /\ before[1] >= before[2] /\ now[1] < now[2]
    \/ operator = "is_true"       /\ now[1] > 0

_condition_holds(c, series, i) ==
    LET operands  == [n \in DOMAIN c.operands |-> strategy.indicators[c.operands[n]]]
        Values(j) == [n \in DOMAIN operands |-> _indicator_value(operands[n], series, j)]
    IN  /\ \A n \in DOMAIN operands, j \in IF Crosses(c) THEN {i - 1, i} ELSE {i} : Warm(operands[n], j)
        /\ Compares(c.operator, Values(i), IF Crosses(c) THEN Values(i - 1) ELSE << >>)

_rule_holds(rule, series, i) == \A c \in rule : _condition_holds(c, series, i)

-----------------------------------------------------------------------------
(* Entries.  The levels of a position and its size follow from its fill.   *)

\* The distance to the stop, 0 if there is none; a stop is above 0.
Risk(series, i, price) ==
    LET d    == Atrs(strategy)[1]
        risk == CASE strategy.stop.kind = "percent" -> (price * strategy.stop.value) \div 100
                  [] strategy.stop.kind = "atr_multiple" ->
                         IF Warm(d, i) THEN strategy.stop.value * Max({_atr(series, d.period, i), 0}) ELSE 0
                  [] OTHER -> 0
    IN  IF risk >= price THEN 0 ELSE risk

\* A level is a set of one price or of none.
_levels_from(price, risk) ==
    [stop   |-> IF risk = 0 THEN {} ELSE {price - risk},
     target |-> CASE strategy.target.kind = "percent" ->
                         {(price * (100 + strategy.target.value)) \div 100}
                  [] strategy.target.kind = "r_multiple" /\ risk # 0 ->
                         {price + strategy.target.value * risk}
                  [] OTHER -> {}]

_equity(e, price) == e.cash + e.position.quantity * price

_size(e, price, risk) ==
    LET share == _equity(e, price) * strategy.sizing.value
        per   == IF strategy.sizing.kind = "fixed_fraction" THEN price ELSE risk
    IN  IF strategy.sizing.kind = "fixed_quantity" THEN strategy.sizing.value
        ELSE IF price <= 0 \/ per <= 0 THEN 0 ELSE share \div (100 * per)

_fee(notional) == (Abs(notional) * FeePercent) \div 100
Slipped(price) == (price * SlippagePercent) \div 100

\* Nothing is bought on credit: an entry the cash does not cover is dropped.
Bought(e, i, price, levels, quantity) ==
    LET cost == price * quantity + _fee(price * quantity)
    IN  IF quantity <= 0 \/ e.cash < cost THEN e
        ELSE [e EXCEPT !.cash = @ - cost,
                       !.position = [quantity |-> quantity, entry_price |-> price, entry_index |-> i,
                                     stop |-> levels.stop, target |-> levels.target]]

_open_position(e, series, i, raw) ==
    LET price == raw + Slipped(raw)
        risk  == Risk(series, i, price)
    IN  Bought(e, i, price, _levels_from(price, risk), _size(e, price, risk))

_close_position(e, i, raw, reason) ==
    LET p     == e.position
        price == raw - Slipped(raw)
        gain  == price * p.quantity - _fee(price * p.quantity)
        fee   == _fee(p.entry_price * p.quantity)
    IN  IF p = NoPosition THEN e
        ELSE [e EXCEPT !.cash = @ + gain, !.position = NoPosition,
                       !.trades = Append(@, [entry |-> p.entry_index, exit |-> i, reason |-> reason,
                                             net_pnl |-> gain - p.entry_price * p.quantity - fee])]

-----------------------------------------------------------------------------
(* The four steps of a bar.                                                *)

_fill_pending(e, series, i) ==
    LET order == e.pending
        free  == [e EXCEPT !.pending = NoOrder]
    IN  IF order = NoOrder \/ i <= order.signal_index THEN e
        ELSE IF order.kind = "exit" THEN _close_position(free, i, series[i].open, "exit_signal")
        ELSE _open_position(free, series, i, series[i].open)

\* The stop wins a tie, and a bar that opens beyond a level fills at its open.
_barrier_price(p, b) ==
    LET stopped == \E level \in p.stop : b.low <= level
        aimed   == \E level \in p.target : b.high >= level
    IN  CASE stopped            -> <<Min({b.open} \cup p.stop), "stop">>
          [] aimed /\ ~stopped -> <<Max({b.open} \cup p.target), "target">>
          [] OTHER              -> << >>

_exit_on_barrier(e, series, i) ==
    LET barrier == IF e.position = NoPosition THEN << >> ELSE _barrier_price(e.position, series[i])
    IN  IF barrier = << >> THEN e ELSE _close_position(e, i, barrier[1], barrier[2])

_act(e, series, i, kind) ==
    IF strategy.fill = "next_open" THEN [e EXCEPT !.pending = [kind |-> kind, signal_index |-> i]]
    ELSE IF kind = "exit" THEN _close_position(e, i, series[i].close, "exit_signal")
    ELSE _open_position(e, series, i, series[i].close)

_signal(e, series, i) ==
    LET enters == e.position = NoPosition /\ i >= strategy.min_bars
                  /\ _rule_holds(strategy.entry, series, i)
        leaves == e.position # NoPosition /\ _rule_holds(strategy.exit, series, i)
    IN  CASE e.pending = NoOrder /\ enters -> _act(e, series, i, "entry")
          [] e.pending = NoOrder /\ leaves -> _act(e, series, i, "exit")
          [] OTHER -> e

_mark_to_market(e, series, i) ==
    [e EXCEPT !.equity_curve = Append(@, _equity(e, series[i].close))]

\* One turn of the loop of run(), a step at a time.
Turned(name, e, series, i) ==
    CASE name = "fill"    -> _fill_pending(e, series, i)
      [] name = "barrier" -> _exit_on_barrier(e, series, i)
      [] name = "signal"  -> _signal(e, series, i)
      [] OTHER            -> _mark_to_market(e, series, i)

After == [fill |-> "barrier", barrier |-> "signal", signal |-> "mark", mark |-> "fill"]

BacktestNext ==
    /\ at < BarCount
    /\ engine' = Turned(step, engine, bars, at)
    /\ step' = After[step]
    /\ at' = IF step = "mark" THEN at + 1 ELSE at
    /\ UNCHANGED <<bars, strategy>>

BacktestSpec == BacktestInit /\ [][BacktestNext]_backtestVars

-----------------------------------------------------------------------------
\* No sale costs more than it brings.  Nothing in the code sees to it.
Covered ==
    /\ FeePercent <= 100 /\ SlippagePercent <= 100
    /\ \A b \in Shape : b.open >= 0 /\ b.close >= 0

\* Shape of the state.  A purchase is paid from the cash there is, so that it is
\* negative only where a sale can cost more than it brings.
BacktestTypeOK ==
    /\ bars \in [Index -> Shape] /\ strategy \in Strategy
    /\ at \in 0 .. BarCount /\ step \in DOMAIN After
    /\ engine.cash \in Int /\ engine.position.quantity \in Nat
    /\ Covered => engine.cash >= 0
    /\ engine.pending = NoOrder
       \/ engine.pending \in [kind : {"entry", "exit"}, signal_index : 0 .. at]
    /\ Len(engine.equity_curve) = at

\* The series that cannot be told from this one at this step: the same bars before
\* this one, the same open of this one, and, after the fill at the open, all of it.
Indistinguishable ==
    {[j \in Index |-> IF j < at \/ (j = at /\ step # "fill") THEN bars[j] ELSE b] :
        b \in {b \in Shape : step = "fill" => b.open = bars[at].open}}

ReadsThePast ==
    at < BarCount =>
        \A series \in Indistinguishable :
            Turned(step, engine, series, at) = Turned(step, engine, bars, at)

\* No step acts on what it could not know: orders, fills, levels and sizes would be
\* the same whatever the bars after this one are, and at an open whatever becomes
\* of that bar (engine.py:3-7).  A stop in multiples of the ATR is the exception, see
\* ActsOnClosedBars.
LooksAheadInAtrOnly ==
    \/ step = "fill" /\ strategy.stop.kind = "atr_multiple"
    \/ ReadsThePast

\* engine.py:3: "Every decision at bar i reads only closed bars up to and including i,
\* and an order raised at bar i is filled from bar i+1 by default, so a signal can never
\* be acted on with information the decision did not have."
ActsOnClosedBars == ReadsThePast
=============================================================================
