------------------------------ MODULE FillLedger ------------------------------
(***************************************************************************)
(* build_fill_ledger (fills.py): the rows of a broker export, normalised   *)
(* and deduplicated, are booked one by one in the order of their           *)
(* timestamps into lots, first in, first out.                              *)
(*                                                                         *)
(* One scope, that is one account, instrument and currency: the lots of    *)
(* different scopes never meet.  Prices and fees follow the quantities and *)
(* are left out.                                                           *)
(***************************************************************************)
EXTENDS Naturals, Sequences, FiniteSets, FiniteSetsExt

CONSTANTS
    Rows,       \* trade rows an export may hold
    MaxRows     \* bound: the rows of one export

Side == {"BUY", "SELL"}
Effect == {"AUTO", "OPEN", "CLOSE"}

\* How precise a row's timestamp is, which is also what it is sorted by first:
\* with a time zone, with a time to the second, or anything else.
ZONED == 0
TIMED == 1
DATED == 2

Row == [side : Side, effect : Effect, precision : {ZONED, TIMED, DATED},
        when : Nat, quantity : Nat \ {0}, id : Nat]

ASSUME FillAssumption ==
    /\ Rows \subseteq Row
    /\ MaxRows \in Nat

VARIABLES
    rows,           \* the export
    allow_shorts,
    enforce_t1,     \* the fills are of the CN-A market
    booked,         \* rows the loop has reached, in order
    lots,           \* sequence of lots, oldest first
    sellable,       \* the lots the current sale may still take, by position
    left,           \* remaining_to_sell, 0 between sales
    matches,        \* what every sale took, from which lot
    issues          \* error-severity issues

vars == <<rows, allow_shorts, enforce_t1, booked, lots, sellable, left, matches, issues>>

-----------------------------------------------------------------------------
(* Rows. *)

\* Two half days a day.
Day(row) == (row.when + 1) \div 2

\* _dedupe_fills: the first of identical rows is kept.  A declared fill id (any
\* but 0) is part of a row's identity.
Kept == {i \in DOMAIN rows : \A j \in 1..(i - 1) : rows[j] # rows[i]}

\* Mutated form: the export's own order.
Before_unsorted(i, j) == i < j

\* How far the timestamp of a row is known.
Stamp(row) == IF row.precision = DATED THEN Day(row) ELSE row.when

\* _execution_sort_key: precision, then the timestamp as far as it is known, then
\* the row.
Before(i, j) ==
    \/ rows[i].precision < rows[j].precision
    \/ /\ rows[i].precision = rows[j].precision
       /\ \/ Stamp(rows[i]) < Stamp(rows[j])
          \/ Stamp(rows[i]) = Stamp(rows[j]) /\ i < j

Booked == {booked[k] : k \in DOMAIN booked}

\* The row the loop takes next.
IsNext(i) ==
    /\ i \in Kept \ Booked
    /\ \A j \in Kept \ Booked : j = i \/ Before(i, j)

IsShortOpen(row) == row.side = "SELL" /\ row.effect = "OPEN"
IsShortClose(row) == row.side = "BUY" /\ row.effect = "CLOSE"
OpensLong(row) == row.side = "BUY" /\ ~IsShortClose(row)
OpensShort(row) == IsShortOpen(row) /\ allow_shorts
Closes(row) == ~OpensLong(row) /\ ~OpensShort(row)

Issue(code, row) == [code |-> code, row |-> row]

-----------------------------------------------------------------------------
(* Lots. *)

Open(direction) ==
    {k \in DOMAIN lots : lots[k].remaining > 0 /\ lots[k].direction = direction}

\* Mutated form: shares bought today may be sold today.
Settled_sameDay(k, row) == Day(rows[lots[k].row]) <= Day(row)

\* Shares bought before the day of the sale.
Settled(k, row) == Day(rows[lots[k].row]) < Day(row)

\* The lots a closing row may take.
Sellable(row) ==
    IF IsShortClose(row) THEN Open("SHORT")
    ELSE {k \in Open("LONG") : enforce_t1 => Settled(k, row)}

\* What keeps a closing row from taking any: shares of the day, or none.
RefusalCode(row) ==
    LET blocked == {k \in DOMAIN lots : /\ lots[k].remaining > 0
                                        /\ enforce_t1
                                        /\ ~Settled(k, row)}
    IN  IF blocked # {} /\ ~(IsShortClose(row) /\ allow_shorts)
        THEN "t_plus_one_violation" ELSE "sell_without_position"

Lot(i, direction) ==
    [row |-> i, direction |-> direction, remaining |-> rows[i].quantity]

-----------------------------------------------------------------------------
(* The loop over the sorted fills. *)

Idle == left = 0 /\ sellable = {}

\* A purchase, or a short sale where shorts are allowed.
OpenLot(i) ==
    /\ Idle
    /\ IsNext(i)
    /\ ~Closes(rows[i])
    /\ booked' = Append(booked, i)
    /\ lots' = Append(lots, Lot(i, IF OpensLong(rows[i]) THEN "LONG" ELSE "SHORT"))
    /\ UNCHANGED <<rows, allow_shorts, enforce_t1, sellable, left, matches, issues>>

\* Mutated form: a sale that finds nothing to sell is skipped.
Refuse_silently(i) ==
    /\ Idle
    /\ IsNext(i)
    /\ Closes(rows[i])
    /\ Sellable(rows[i]) = {}
    /\ booked' = Append(booked, i)
    /\ UNCHANGED <<rows, allow_shorts, enforce_t1, lots, sellable, left, matches, issues>>

Refuse(i) ==
    /\ Idle
    /\ IsNext(i)
    /\ Closes(rows[i])
    /\ Sellable(rows[i]) = {}
    /\ booked' = Append(booked, i)
    /\ issues' = issues \cup {Issue(RefusalCode(rows[i]), i)}
    /\ UNCHANGED <<rows, allow_shorts, enforce_t1, lots, sellable, left, matches>>

StartSale(i) ==
    /\ Idle
    /\ IsNext(i)
    /\ Closes(rows[i])
    /\ Sellable(rows[i]) # {}
    /\ booked' = Append(booked, i)
    /\ sellable' = Sellable(rows[i])
    /\ left' = rows[i].quantity
    /\ UNCHANGED <<rows, allow_shorts, enforce_t1, lots, matches, issues>>

\* Mutated form: last in, first out.
Pick_newest == Max(sellable)

Pick == Min(sellable)

\* Mutated form: the larger of the two.
Larger(a, b) == IF a >= b THEN a ELSE b

Smaller(a, b) == IF a <= b THEN a ELSE b

Taken(k, quantity) ==
    [sale |-> booked[Len(booked)], lot |-> k, quantity |-> quantity]

\* Mutated form: a sale is covered by one lot only.
MatchLot_oldestOnly ==
    /\ left > 0
    /\ sellable # {}
    /\ LET k == Pick
           quantity == Smaller(lots[k].remaining, left)
       IN  /\ matches' = matches \cup {Taken(k, quantity)}
           /\ lots' = [lots EXCEPT ![k].remaining = @ - quantity]
           /\ left' = left - quantity
           /\ sellable' = {}
    /\ UNCHANGED <<rows, allow_shorts, enforce_t1, booked, issues>>

\* One lot of the inner loop.
MatchLot ==
    /\ left > 0
    /\ sellable # {}
    /\ LET k == Pick
           quantity == Smaller(lots[k].remaining, left)
       IN  /\ matches' = matches \cup {Taken(k, quantity)}
           /\ lots' = [lots EXCEPT ![k].remaining = @ - quantity]
           /\ left' = left - quantity
           /\ sellable' = sellable \ {k}
    /\ UNCHANGED <<rows, allow_shorts, enforce_t1, booked, issues>>

\* The inner loop is over; what it could not cover is an oversell.
EndSale ==
    /\ ~Idle
    /\ left = 0 \/ sellable = {}
    /\ issues' = IF left > 0 THEN issues \cup {Issue("oversell", booked[Len(booked)])}
                             ELSE issues
    /\ left' = 0
    /\ sellable' = {}
    /\ UNCHANGED <<rows, allow_shorts, enforce_t1, booked, lots, matches>>

\* _dedupe_fills has reported the rows it dropped before the loop begins.
Init ==
    /\ rows \in UNION {[1..n -> Rows] : n \in 0..MaxRows}
    /\ allow_shorts \in BOOLEAN
    /\ enforce_t1 \in BOOLEAN
    /\ booked = <<>>
    /\ lots = <<>>
    /\ sellable = {}
    /\ left = 0
    /\ matches = {}
    /\ issues = {Issue("duplicate_fill", i) : i \in (DOMAIN rows) \ Kept}

Next ==
    \/ \E i \in DOMAIN rows : OpenLot(i) \/ Refuse(i) \/ StartSale(i)
    \/ MatchLot
    \/ EndSale

Spec == Init /\ [][Next]_vars

-----------------------------------------------------------------------------
(* Properties. *)

\* The type of the ledger; a lot never holds less than nothing.
TypeOK ==
    /\ rows \in Seq(Rows)
    /\ allow_shorts \in BOOLEAN
    /\ enforce_t1 \in BOOLEAN
    /\ booked \in Seq(DOMAIN rows)
    /\ lots \in Seq([row : DOMAIN rows, direction : {"LONG", "SHORT"}, remaining : Nat])
    /\ sellable \subseteq DOMAIN lots
    /\ left \in Nat
    /\ matches \subseteq [sale : DOMAIN rows, lot : DOMAIN lots, quantity : Nat \ {0}]
    /\ issues \subseteq [code : {"duplicate_fill", "t_plus_one_violation",
                                "sell_without_position", "oversell"},
                        row : DOMAIN rows]

Quantity(some) == MapThenSumSet(LAMBDA m : m.quantity, some)
Matched(i) == Quantity({m \in matches : m.sale = i})

\* Rows the loop is through with.
Done == IF Idle THEN Booked ELSE Booked \ {booked[Len(booked)]}

\* Nothing is dropped in silence and nothing blamed without a cause: a row that
\* closes a position is matched in full or named by an error issue, never both;
\* a row that is no fill of its own is named by one.
SalesAccounted ==
    \A i \in DOMAIN rows :
        LET blamed == \E issue \in issues : issue.row = i
        IN  /\ i \in Done /\ Closes(rows[i]) =>
                   (blamed <=> Matched(i) < rows[i].quantity)
            /\ i \notin Kept => blamed /\ Matched(i) = 0

\* Shares are neither made nor lost: what sales took from a lot and what is left
\* of it is what was bought, whatever the order of partial matches.
LotsConserved ==
    \A k \in DOMAIN lots :
        lots[k].remaining + Quantity({m \in matches : m.lot = k})
            = rows[lots[k].row].quantity

\* The books balance from both sides: every share a row asked for is matched or
\* reported, and every share a lot holds or has given was bought.
QuantitiesAccounted == SalesAccounted /\ LotsConserved

\* First in, first out, also across partial matches and T+1: a lot is touched
\* only when every older one a sale could have taken instead is used up.
FirstInFirstOut ==
    \A l \in DOMAIN lots : lots[l].remaining < rows[lots[l].row].quantity =>
        \A k \in 1..(l - 1) :
            /\ lots[k].direction = lots[l].direction
            /\ enforce_t1 /\ lots[k].direction = "LONG" =>
                   Day(rows[lots[k].row]) <= Day(rows[lots[l].row])
            => lots[k].remaining = 0

\* Under T+1 no share is sold on the day it was bought or before, and no sale
\* covers a short or purchase sells a long, however precise the timestamps are.
SettledBeforeSold ==
    \A m \in matches :
        LET lot == lots[m.lot]
            sale == rows[m.sale]
        IN  /\ lot.direction = "LONG" <=> sale.side = "SELL"
            /\ enforce_t1 /\ lot.direction = "LONG" => Day(rows[lot.row]) < Day(sale)

\* Among rows whose timestamps are equally precise no sale takes from a lot that
\* was bought after it, as far as the timestamps tell.
BoughtBeforeSold ==
    \A m \in matches :
        LET bought == rows[lots[m.lot].row]
            sold == rows[m.sale]
        IN  bought.precision = sold.precision => Stamp(bought) <= Stamp(sold)

\* What a row closes was there to be closed: bought before it, settled, and the oldest
\* of its kind.
SoldInOrder == FirstInFirstOut /\ SettledBeforeSold /\ BoughtBeforeSold

AskedFor(some) == MapThenSumSet(LAMBDA i : rows[i].quantity, some)
Got(some) == MapThenSumSet(Matched, some)

Precise == \A i, j \in Kept : rows[i].precision = rows[j].precision

\* What was opened before a closing row that it may close, and what closed of it before.
Earlier(p) == {booked[o] : o \in 1..(p - 1)}
Opened(p) ==
    LET row == rows[booked[p]]
        long == ~IsShortClose(row)
    IN  {i \in Earlier(p) : /\ IF long THEN OpensLong(rows[i]) ELSE OpensShort(rows[i])
                            /\ enforce_t1 /\ long => Day(rows[i]) < Day(row)}
Closed(p) ==
    {i \in Earlier(p) :
        Closes(rows[i]) /\ (IsShortClose(rows[i]) <=> IsShortClose(rows[booked[p]]))}

\* The reference: a row closes as much as it asks for and the position holds,
\* which is what was opened before it (before its day, under T+1) less what
\* earlier rows closed.  Under T+1 it counts days, for equally precise rows.
ClosesWhatIsHeld ==
    \A p \in DOMAIN booked :
        /\ booked[p] \in Done
        /\ Closes(rows[booked[p]])
        /\ enforce_t1 => Precise
        => Matched(booked[p]) =
               Smaller(rows[booked[p]].quantity, AskedFor(Opened(p)) - Got(Closed(p)))

\* The books balance, and they agree with the reference.
LedgerBalances == QuantitiesAccounted /\ ClosesWhatIsHeld

\* fills.py:515, the promise of build_fill_ledger: "Ambiguity never becomes a
\* silent trade".  A sale matched with a purchase of a later day is reported.
AmbiguityIsReported ==
    \A m \in matches :
        Day(rows[lots[m.lot].row]) > Day(rows[m.sale]) =>
            \E issue \in issues : issue.row = m.sale
================================================================================
