------------------------------ MODULE MCFillLedger ------------------------------
(* The ledger of every export of a few rows over three days. *)
EXTENDS FillLedger

Trade(side, effect, precision, when, quantity, id) ==
    [side |-> side, effect |-> effect, precision |-> precision, when |-> when,
     quantity |-> quantity, id |-> id]

\* Purchases and sales of the first and the second day, in parts and in full; a
\* short sale and a cover; rows with a date only, and one with a time zone; one
\* that differs from another in its declared id only.
MCRows ==
    {Trade(s, "AUTO", TIMED, w, q, 0) : s \in {"BUY", "SELL"}, w \in {1, 3}, q \in {1, 2}}
    \cup {Trade("SELL", "OPEN", TIMED, 3, 1, 0), Trade("BUY", "CLOSE", TIMED, 4, 1, 0),
          Trade("BUY", "AUTO", DATED, 3, 1, 0), Trade("SELL", "AUTO", DATED, 1, 1, 0),
          Trade("BUY", "AUTO", ZONED, 3, 1, 0), Trade("BUY", "AUTO", TIMED, 1, 1, 7)}
================================================================================
