--------------------------- MODULE FillLedgerProofs ---------------------------
(***************************************************************************)
(* Theorems about the fill ledger (FillLedger.tla), for any set of rows,   *)
(* any length of the export and either market rule.                        *)
(***************************************************************************)
EXTENDS FillLedger, FoldTheorems, SequenceTheorems, TLAPS

\* The row being booked.
Sale == booked[Len(booked)]

LotType == [row : DOMAIN rows, direction : {"LONG", "SHORT"}, remaining : Nat]

\* What a sale in progress has in its hands: lots it may take, and as long as it
\* wants more, every one of them.
SaleInv ==
    ~Idle => /\ booked # <<>>
             /\ Closes(rows[Sale])
             /\ sellable \subseteq Sellable(rows[Sale])
             /\ left > 0 => Sellable(rows[Sale]) \subseteq sellable

\* Lots were opened by rows that are booked, so before the rows still to come
\* and before whatever closes them.
OrderInv ==
    /\ \A i \in Booked, j \in Kept \ Booked : Before(i, j)
    /\ \A k \in DOMAIN lots : lots[k].row \in Booked
    /\ ~Idle => \A k \in DOMAIN lots : Before(lots[k].row, Sale)
    /\ \A m \in matches : Before(lots[m.lot].row, m.sale)

LedgerInv == TypeOK /\ SaleInv /\ OrderInv /\ FirstInFirstOut /\ SettledBeforeSold

-----------------------------------------------------------------------------
(* Lemmas *)

LEMMA RowFacts ==
    ASSUME TypeOK, NEW i \in DOMAIN rows
    PROVE  /\ rows[i] \in Row
           /\ rows[i].quantity \in Nat \ {0}
           /\ Day(rows[i]) \in Nat
           /\ i \in Nat
<1>1. rows[i] \in Rows /\ i \in Nat
  <2>1. rows \in Seq(Rows)
    BY DEF TypeOK
  <2>2. QED
    BY <2>1, ElementOfSeq, LenProperties
<1>2. rows[i] \in Row
  BY <1>1, FillAssumption DEF FillAssumption
<1>3. rows[i].quantity \in Nat \ {0} /\ rows[i].when \in Nat
  BY <1>2 DEF Row
<1>4. Day(rows[i]) \in Nat
  BY <1>3 DEF Day
<1>5. QED
  BY <1>1, <1>2, <1>3, <1>4

LEMMA LotFacts ==
    ASSUME TypeOK
    PROVE  /\ lots \in Seq(LotType)
           /\ Len(lots) \in Nat /\ DOMAIN lots = 1..Len(lots)
           /\ \A k \in DOMAIN lots : /\ lots[k] \in LotType
                                     /\ lots[k].row \in DOMAIN rows
                                     /\ lots[k].direction \in {"LONG", "SHORT"}
                                     /\ lots[k].remaining \in Nat
<1>1. lots \in Seq(LotType)
  BY DEF TypeOK, LotType
<1>2. Len(lots) \in Nat /\ DOMAIN lots = 1..Len(lots)
  BY <1>1, LenProperties
<1>3. \A k \in DOMAIN lots : lots[k] \in LotType
  BY <1>1, <1>2, ElementOfSeq
<1>4. QED
  BY <1>1, <1>2, <1>3 DEF LotType

LEMMA SaleRow ==
    ASSUME TypeOK, booked # <<>>
    PROVE  Sale \in DOMAIN rows
<1>1. booked \in Seq(DOMAIN rows) /\ Len(booked) \in 1..Len(booked)
  BY EmptySeq, LenProperties DEF TypeOK
<1>2. QED
  BY <1>1, ElementOfSeq DEF Sale

\* Booking a row makes it the last of the booked rows.
LEMMA BookedFacts ==
    ASSUME TypeOK, NEW i \in DOMAIN rows, booked' = Append(booked, i), rows' = rows
    PROVE  /\ booked' \in Seq(DOMAIN rows)
           /\ booked' # <<>>
           /\ Sale' = i
           /\ Booked' = Booked \cup {i}
<1>1. booked \in Seq(DOMAIN rows) /\ Len(booked) \in Nat /\ DOMAIN booked = 1..Len(booked)
  BY LenProperties DEF TypeOK
<1>2. /\ booked' \in Seq(DOMAIN rows)
      /\ Len(booked') = Len(booked) + 1
      /\ DOMAIN booked' = 1..(Len(booked) + 1)
      /\ \A k \in 1..Len(booked) : booked'[k] = booked[k]
      /\ booked'[Len(booked) + 1] = i
  BY <1>1, AppendProperties, LenProperties
<1>3. booked' # <<>>
  BY <1>1, <1>2, EmptySeq
<1>4. Sale' = i
  BY <1>2 DEF Sale
<1>5. \A k \in DOMAIN booked' : k \in DOMAIN booked \/ k = Len(booked) + 1
  BY <1>1, <1>2
<1>6. \A k \in DOMAIN booked : k \in DOMAIN booked' /\ booked'[k] = booked[k]
  BY <1>1, <1>2
<1>7. Len(booked) + 1 \in DOMAIN booked'
  BY <1>1, <1>2
<1>8. Booked' = Booked \cup {i}
  BY <1>2, <1>5, <1>6, <1>7 DEF Booked
<1>9. QED
  BY <1>2, <1>3, <1>4, <1>8

LEMMA PickFacts ==
    ASSUME TypeOK, sellable # {}
    PROVE  Pick \in sellable /\ \A k \in sellable : Pick <= k
<1>1. DOMAIN lots \subseteq Nat
  BY LotFacts
<1>2. sellable \subseteq DOMAIN lots
  BY DEF TypeOK
<1>3. QED
  BY <1>1, <1>2, LeastOf DEF Pick

-----------------------------------------------------------------------------
(* The steps of the loop *)

LEMMA InitInv == Init => LedgerInv
<1> SUFFICES ASSUME Init PROVE LedgerInv
  OBVIOUS
<1>1. rows \in Seq(Rows)
  <2>1. PICK n \in Nat : rows \in [1..n -> Rows]
    BY FillAssumption DEF Init, FillAssumption
  <2>2. QED
    BY <2>1
<1>2. Kept \subseteq DOMAIN rows
  BY DEF Kept
<1>3. booked = <<>> /\ DOMAIN booked = {} /\ lots = <<>> /\ DOMAIN lots = {}
  BY DEF Init
<1>4. booked \in Seq(DOMAIN rows) /\ lots \in Seq(LotType)
  BY <1>3
<1>5. issues \subseteq [code : {"duplicate_fill", "t_plus_one_violation",
                               "sell_without_position", "oversell"},
                       row : DOMAIN rows]
  BY DEF Init, Issue
<1>6. TypeOK
  BY <1>1, <1>4, <1>5 DEF Init, TypeOK, LotType
<1>7. SaleInv
  BY DEF Init, SaleInv, Idle
<1>8. OrderInv
  BY <1>3 DEF Init, OrderInv, Idle, Booked
<1>9. FirstInFirstOut /\ SettledBeforeSold
  BY <1>3 DEF Init, FirstInFirstOut, SettledBeforeSold
<1>10. QED
  BY <1>6, <1>7, <1>8, <1>9 DEF LedgerInv

\* The row the loop takes comes after every lot and before the rows to come.
LEMMA BookNext ==
    ASSUME LedgerInv, NEW i \in DOMAIN rows, IsNext(i),
           booked' = Append(booked, i), rows' = rows
    PROVE  /\ (\A a \in Booked, j \in Kept \ Booked : Before(a, j))'
           /\ \A k \in DOMAIN lots : lots[k].row \in Booked' /\ Before(lots[k].row, i)
<1>1. Booked' = Booked \cup {i}
  BY BookedFacts DEF LedgerInv
<1>2. /\ \A a \in Booked, j \in Kept \ Booked : Before(a, j)
      /\ \A k \in DOMAIN lots : lots[k].row \in Booked
      /\ i \in Kept \ Booked
      /\ \A j \in Kept \ Booked : j = i \/ Before(i, j)
  BY DEF LedgerInv, OrderInv, IsNext
<1>3. Kept' = Kept /\ \A a, j : Before(a, j)' <=> Before(a, j)
  BY DEF Kept, Before, Stamp, Day
<1>4. \A a \in Booked', j \in Kept' \ Booked' : Before(a, j)'
  BY <1>1, <1>2, <1>3
<1>5. QED
  BY <1>1, <1>2, <1>4

LEMMA OpenKeeps ==
    ASSUME LedgerInv, NEW i \in DOMAIN rows, OpenLot(i)
    PROVE  LedgerInv'
<1> DEFINE direction == IF OpensLong(rows[i]) THEN "LONG" ELSE "SHORT"
           new == Lot(i, direction)
<1>1. /\ TypeOK /\ Idle /\ IsNext(i) /\ lots' = Append(lots, new)
      /\ booked' = Append(booked, i)
      /\ rows' = rows /\ allow_shorts' = allow_shorts /\ enforce_t1' = enforce_t1
      /\ sellable' = sellable /\ left' = left /\ matches' = matches /\ issues' = issues
  BY DEF LedgerInv, OpenLot
<1>2. /\ new \in LotType /\ new.row = i
      /\ new.remaining = rows[i].quantity
  <2>1. rows[i].quantity \in Nat
    BY <1>1, RowFacts
  <2>2. QED
    BY <2>1 DEF Lot, LotType
<1> HIDE DEF new
<1>3. /\ lots \in Seq(LotType) /\ Len(lots) \in Nat /\ DOMAIN lots = 1..Len(lots)
  BY <1>1, LotFacts
<1>4. /\ lots' \in Seq(LotType) /\ DOMAIN lots' = 1..(Len(lots) + 1)
      /\ \A k \in DOMAIN lots : k \in DOMAIN lots' /\ lots'[k] = lots[k]
      /\ lots'[Len(lots) + 1] = new
  BY <1>1, <1>2, <1>3, AppendProperties, LenProperties
<1>5. \A k \in DOMAIN lots' : k \in DOMAIN lots \/ k = Len(lots) + 1
  BY <1>3, <1>4
<1>6. /\ booked' \in Seq(DOMAIN rows) /\ Booked' = Booked \cup {i}
  BY <1>1, BookedFacts
<1>7. TypeOK'
  <2>1. LotType' = LotType /\ DOMAIN lots \subseteq DOMAIN lots'
    BY <1>1, <1>4 DEF LotType
  <2>2. sellable' \subseteq DOMAIN lots'
    BY <1>1, <2>1 DEF TypeOK
  <2>3. matches' \subseteq [sale : DOMAIN rows, lot : DOMAIN lots', quantity : Nat \ {0}]
    BY <1>1, <2>1 DEF TypeOK
  <2>4. QED
    BY <1>1, <1>4, <1>6, <2>1, <2>2, <2>3 DEF TypeOK, LotType
<1>8. Idle'
  BY <1>1 DEF Idle
<1>9. \A m \in matches : m.lot \in DOMAIN lots
  BY <1>1 DEF TypeOK
<1>10. OrderInv'
  <2>1. /\ (\A a \in Booked, j \in Kept \ Booked : Before(a, j))'
        /\ \A k \in DOMAIN lots : lots[k].row \in Booked'
    BY <1>1, BookNext
  <2>2. \A k \in DOMAIN lots' : lots'[k].row \in Booked'
    BY <1>2, <1>4, <1>5, <1>6, <2>1
  <2>3. \A m \in matches : Before(lots[m.lot].row, m.sale)
    BY DEF LedgerInv, OrderInv
  <2>4. \A a, j : Before(a, j)' <=> Before(a, j)
    BY <1>1 DEF Before, Stamp, Day
  <2>5. (\A m \in matches : Before(lots[m.lot].row, m.sale))'
    BY <1>1, <1>4, <1>9, <2>3, <2>4
  <2>6. QED
    BY <1>8, <2>1, <2>2, <2>5 DEF OrderInv
<1>11. FirstInFirstOut'
  <2> SUFFICES ASSUME NEW l \in DOMAIN lots',
                      lots'[l].remaining < rows[lots'[l].row].quantity,
                      NEW k \in 1..(l - 1),
                      lots'[k].direction = lots'[l].direction,
                      enforce_t1 /\ lots'[k].direction = "LONG" =>
                          Day(rows[lots'[k].row]) <= Day(rows[lots'[l].row])
               PROVE  lots'[k].remaining = 0
    BY <1>1 DEF FirstInFirstOut, Day
  <2>1. rows[i].quantity \in Nat
    BY <1>1, RowFacts
  <2>2. l \in DOMAIN lots
    BY <1>2, <1>4, <1>5, <2>1
  <2>3. k \in DOMAIN lots
    BY <1>3, <2>2
  <2>4. lots'[k] = lots[k] /\ lots'[l] = lots[l]
    BY <1>4, <2>2, <2>3
  <2>5. QED
    BY <2>2, <2>4 DEF LedgerInv, FirstInFirstOut
<1>12. SettledBeforeSold'
  <2>1. \A m \in matches : lots'[m.lot] = lots[m.lot]
    BY <1>4, <1>9
  <2>2. QED
    BY <1>1, <2>1 DEF LedgerInv, SettledBeforeSold, Day
<1>13. SaleInv'
  BY <1>8 DEF SaleInv
<1>14. QED
  BY <1>7, <1>10, <1>11, <1>12, <1>13 DEF LedgerInv

LEMMA RefuseKeeps ==
    ASSUME LedgerInv, NEW i \in DOMAIN rows, Refuse(i)
    PROVE  LedgerInv'
<1>1. /\ TypeOK /\ Idle /\ IsNext(i)
      /\ booked' = Append(booked, i) /\ issues' = issues \cup {Issue(RefusalCode(rows[i]), i)}
      /\ rows' = rows /\ allow_shorts' = allow_shorts /\ enforce_t1' = enforce_t1
      /\ lots' = lots /\ sellable' = sellable /\ left' = left /\ matches' = matches
  BY DEF LedgerInv, Refuse
<1>2. booked' \in Seq(DOMAIN rows)
  BY <1>1, BookedFacts
<1>3. RefusalCode(rows[i]) \in {"t_plus_one_violation", "sell_without_position"}
  BY DEF RefusalCode
<1>4. TypeOK'
  BY <1>1, <1>2, <1>3 DEF TypeOK, Issue
<1>5. Idle'
  BY <1>1 DEF Idle
<1>6. OrderInv'
  <2>1. /\ (\A a \in Booked, j \in Kept \ Booked : Before(a, j))'
        /\ \A k \in DOMAIN lots : lots[k].row \in Booked'
    BY <1>1, BookNext
  <2>2. \A a, j : Before(a, j)' <=> Before(a, j)
    BY <1>1 DEF Before, Stamp, Day
  <2>3. (\A m \in matches : Before(lots[m.lot].row, m.sale))'
    BY <1>1, <2>2 DEF LedgerInv, OrderInv
  <2>4. QED
    BY <1>1, <1>5, <2>1, <2>3 DEF OrderInv
<1>7. FirstInFirstOut' /\ SettledBeforeSold'
  BY <1>1 DEF LedgerInv, FirstInFirstOut, SettledBeforeSold, Day
<1>8. SaleInv'
  BY <1>5 DEF SaleInv
<1>9. QED
  BY <1>4, <1>6, <1>7, <1>8 DEF LedgerInv

LEMMA StartKeeps ==
    ASSUME LedgerInv, NEW i \in DOMAIN rows, StartSale(i)
    PROVE  LedgerInv'
<1>1. /\ TypeOK /\ Idle /\ IsNext(i) /\ Closes(rows[i])
      /\ booked' = Append(booked, i) /\ sellable' = Sellable(rows[i])
      /\ left' = rows[i].quantity
      /\ rows' = rows /\ allow_shorts' = allow_shorts /\ enforce_t1' = enforce_t1
      /\ lots' = lots /\ matches' = matches /\ issues' = issues
  BY DEF LedgerInv, StartSale
<1>2. booked' \in Seq(DOMAIN rows) /\ booked' # <<>> /\ Sale' = i
  BY <1>1, BookedFacts
<1>3. rows[i].quantity \in Nat \ {0}
  BY <1>1, RowFacts
<1>4. Sellable(rows[i]) \subseteq DOMAIN lots
  BY DEF Sellable, Open
<1>5. TypeOK'
  BY <1>1, <1>2, <1>3, <1>4 DEF TypeOK
<1>6. SaleInv'
  <2>1. Sellable(rows[Sale])' = Sellable(rows[i])
    BY <1>1, <1>2 DEF Sellable, Open, Settled, Day, IsShortClose
  <2>2. Closes(rows[Sale])'
    BY <1>1, <1>2 DEF Closes, OpensLong, OpensShort, IsShortOpen, IsShortClose
  <2>3. QED
    BY <1>1, <1>2, <2>1, <2>2 DEF SaleInv
<1>7. OrderInv'
  <2>1. /\ (\A a \in Booked, j \in Kept \ Booked : Before(a, j))'
        /\ \A k \in DOMAIN lots : lots[k].row \in Booked' /\ Before(lots[k].row, i)
    BY <1>1, BookNext
  <2>2. \A a, j : Before(a, j)' <=> Before(a, j)
    BY <1>1 DEF Before, Stamp, Day
  <2>3. (\A m \in matches : Before(lots[m.lot].row, m.sale))'
    BY <1>1, <2>2 DEF LedgerInv, OrderInv
  <2>4. (\A k \in DOMAIN lots : Before(lots[k].row, Sale))'
    BY <1>1, <1>2, <2>1, <2>2
  <2>5. QED
    BY <1>1, <2>1, <2>3, <2>4 DEF OrderInv
<1>8. FirstInFirstOut' /\ SettledBeforeSold'
  BY <1>1 DEF LedgerInv, FirstInFirstOut, SettledBeforeSold, Day
<1>9. QED
  BY <1>5, <1>6, <1>7, <1>8 DEF LedgerInv

LEMMA EndKeeps ==
    ASSUME LedgerInv, EndSale
    PROVE  LedgerInv'
<1>1. /\ TypeOK /\ ~Idle
      /\ issues' = IF left > 0 THEN issues \cup {Issue("oversell", Sale)} ELSE issues
      /\ left' = 0 /\ sellable' = {}
      /\ rows' = rows /\ allow_shorts' = allow_shorts /\ enforce_t1' = enforce_t1
      /\ booked' = booked /\ lots' = lots /\ matches' = matches
  BY DEF LedgerInv, EndSale, Sale
<1>2. Sale \in DOMAIN rows
  BY <1>1, SaleRow DEF LedgerInv, SaleInv
<1>3. TypeOK'
  BY <1>1, <1>2 DEF TypeOK, Issue
<1>4. Idle'
  BY <1>1 DEF Idle
<1>5. OrderInv'
  BY <1>1, <1>4 DEF LedgerInv, OrderInv, Booked, Kept, Before, Stamp, Day
<1>6. FirstInFirstOut' /\ SettledBeforeSold'
  BY <1>1 DEF LedgerInv, FirstInFirstOut, SettledBeforeSold, Day
<1>7. SaleInv'
  BY <1>4 DEF SaleInv
<1>8. QED
  BY <1>3, <1>5, <1>6, <1>7 DEF LedgerInv

\* What a match does to the lots: the oldest that may be taken loses what the
\* sale wants of it, and all of it when the sale wants more.
LEMMA MatchEffect ==
    ASSUME LedgerInv, MatchLot
    PROVE  \E quantity \in Nat \ {0} :
               /\ matches' = matches \cup {[sale |-> Sale, lot |-> Pick, quantity |-> quantity]}
               /\ quantity <= left /\ left' = left - quantity
               /\ quantity <= lots[Pick].remaining
               /\ left - quantity > 0 => quantity = lots[Pick].remaining
               /\ lots' \in Seq(LotType) /\ DOMAIN lots' = DOMAIN lots
               /\ \A k \in DOMAIN lots :
                      /\ lots'[k].row = lots[k].row /\ lots'[k].direction = lots[k].direction
                      /\ lots'[k].remaining = IF k = Pick THEN lots[k].remaining - quantity
                                                         ELSE lots[k].remaining
<1> DEFINE old == lots[Pick]
           quantity == Smaller(old.remaining, left)
           new == [old EXCEPT !.remaining = @ - quantity]
<1>1. /\ TypeOK /\ SaleInv /\ left > 0 /\ sellable # {} /\ left \in Nat
      /\ matches' = matches \cup {Taken(Pick, quantity)}
      /\ lots' = [lots EXCEPT ![Pick].remaining = @ - quantity]
      /\ left' = left - quantity
  BY DEF LedgerInv, MatchLot, TypeOK
<1>2. Pick \in Sellable(rows[Sale])
  BY <1>1, PickFacts DEF SaleInv, Idle
<1>3. Pick \in DOMAIN lots /\ old.remaining > 0
  BY <1>2 DEF Sellable, Open
<1>4. lots \in Seq(LotType) /\ DOMAIN lots = 1..Len(lots) /\ old \in LotType
  BY <1>1, <1>3, LotFacts
<1>5. old.remaining \in Nat
  BY <1>4 DEF LotType
<1>6. /\ quantity \in Nat \ {0} /\ quantity <= left /\ quantity <= old.remaining
      /\ left - quantity > 0 => quantity = old.remaining
      /\ old.remaining - quantity \in Nat
  BY <1>1, <1>3, <1>5 DEF Smaller
<1> HIDE DEF quantity
<1>7. /\ new \in LotType /\ new.row = old.row /\ new.direction = old.direction
      /\ new.remaining = old.remaining - quantity
  BY <1>4, <1>6 DEF LotType
<1>8. lots' = [lots EXCEPT ![Pick] = new]
  BY <1>1
<1> HIDE DEF new
<1>9. /\ lots' \in Seq(LotType) /\ DOMAIN lots' = DOMAIN lots
      /\ \A k \in DOMAIN lots : lots'[k] = IF k = Pick THEN new ELSE lots[k]
  BY <1>3, <1>4, <1>7, <1>8, ExceptSeq, LenProperties
<1>10. \A k \in DOMAIN lots :
          /\ lots'[k].row = lots[k].row /\ lots'[k].direction = lots[k].direction
          /\ lots'[k].remaining = IF k = Pick THEN lots[k].remaining - quantity
                                             ELSE lots[k].remaining
  BY <1>7, <1>9
<1>11. matches' = matches \cup {[sale |-> Sale, lot |-> Pick, quantity |-> quantity]}
  BY <1>1 DEF Taken, Sale
<1>12. QED
  BY <1>1, <1>6, <1>9, <1>10, <1>11

LEMMA MatchKeeps ==
    ASSUME LedgerInv, MatchLot
    PROVE  LedgerInv'
<1>1. /\ TypeOK /\ SaleInv /\ left > 0 /\ sellable # {} /\ left \in Nat
      /\ sellable' = sellable \ {Pick}
      /\ rows' = rows /\ allow_shorts' = allow_shorts /\ enforce_t1' = enforce_t1
      /\ booked' = booked /\ issues' = issues
  BY DEF LedgerInv, MatchLot, TypeOK
<1>2. /\ ~Idle /\ booked # <<>> /\ Closes(rows[Sale]) /\ sellable = Sellable(rows[Sale])
      /\ Sale \in DOMAIN rows
  BY <1>1, SaleRow DEF SaleInv, Idle
<1>3. /\ Pick \in sellable /\ \A k \in sellable : Pick <= k
      /\ Pick \in DOMAIN lots /\ lots[Pick].remaining > 0
  BY <1>1, <1>2, PickFacts DEF Sellable, Open
<1>4. PICK quantity \in Nat \ {0} :
               /\ matches' = matches \cup {[sale |-> Sale, lot |-> Pick, quantity |-> quantity]}
               /\ quantity <= left /\ left' = left - quantity
               /\ quantity <= lots[Pick].remaining
               /\ left - quantity > 0 => quantity = lots[Pick].remaining
               /\ lots' \in Seq(LotType) /\ DOMAIN lots' = DOMAIN lots
               /\ \A k \in DOMAIN lots :
                      /\ lots'[k].row = lots[k].row /\ lots'[k].direction = lots[k].direction
                      /\ lots'[k].remaining = IF k = Pick THEN lots[k].remaining - quantity
                                                         ELSE lots[k].remaining
  BY MatchEffect
<1>5. \A k \in DOMAIN lots : lots[k].remaining \in Nat /\ k \in Nat
  BY <1>1, LotFacts
<1>6. TypeOK'
  <2>1. LotType' = LotType
    BY <1>1 DEF LotType
  <2>2. left' \in Nat
    BY <1>1, <1>4
  <2>3. [sale |-> Sale, lot |-> Pick, quantity |-> quantity]
            \in [sale : DOMAIN rows, lot : DOMAIN lots, quantity : Nat \ {0}]
    BY <1>2, <1>3
  <2>4. matches' \subseteq [sale : DOMAIN rows, lot : DOMAIN lots', quantity : Nat \ {0}]
    BY <1>1, <1>4, <2>3 DEF TypeOK
  <2>5. sellable' \subseteq DOMAIN lots'
    BY <1>1, <1>4 DEF TypeOK
  <2>6. lots' \in Seq(LotType')
    BY <1>4, <2>1
  <2>7. QED
    BY <1>1, <2>2, <2>4, <2>5, <2>6 DEF TypeOK, LotType
<1>7. \A k \in DOMAIN lots : Settled(k, rows[Sale])' <=> Settled(k, rows[Sale])
  BY <1>1, <1>4 DEF Settled, Day, Sale
<1>8. SaleInv'
  <2>1. Sale' = Sale /\ Closes(rows[Sale])'
    BY <1>1, <1>2 DEF Sale, Closes, OpensLong, OpensShort, IsShortOpen, IsShortClose
  <2>2. \A k \in DOMAIN lots \ {Pick} :
            k \in Sellable(rows[Sale])' <=> k \in Sellable(rows[Sale])
    BY <1>1, <1>4, <1>7, <2>1 DEF Sellable, Open, IsShortClose
  <2>3. Sellable(rows[Sale])' \subseteq DOMAIN lots /\ Sellable(rows[Sale]) \subseteq DOMAIN lots
    BY <1>4 DEF Sellable, Open
  <2>4. sellable' \subseteq Sellable(rows[Sale])'
    BY <1>1, <1>2, <2>2, <2>3
  <2>5. ASSUME left' > 0 PROVE Sellable(rows[Sale])' \subseteq sellable'
    <3>1. lots'[Pick].remaining = 0
      BY <1>3, <1>4, <1>5, <2>5
    <3>2. Pick \notin Sellable(rows[Sale])'
      BY <3>1 DEF Sellable, Open
    <3>3. QED
      BY <1>1, <1>2, <2>2, <2>3, <3>2
  <2>6. booked' # <<>>
    BY <1>1, <1>2
  <2>7. QED
    BY <2>1, <2>4, <2>5, <2>6 DEF SaleInv
<1>9. Before(lots[Pick].row, Sale)
  BY <1>2, <1>3 DEF LedgerInv, OrderInv
<1>10. OrderInv'
  <2>1. \A a, j : Before(a, j)' <=> Before(a, j)
    BY <1>1 DEF Before, Stamp, Day
  <2>2. Booked' = Booked /\ Kept' = Kept /\ Sale' = Sale
    BY <1>1 DEF Booked, Kept, Sale
  <2>3. (\A a \in Booked, j \in Kept \ Booked : Before(a, j))'
    BY <2>1, <2>2 DEF LedgerInv, OrderInv
  <2>4. (\A k \in DOMAIN lots : lots[k].row \in Booked)'
    BY <1>4, <2>2 DEF LedgerInv, OrderInv
  <2>5. (\A k \in DOMAIN lots : Before(lots[k].row, Sale))'
    BY <1>2, <1>4, <2>1, <2>2 DEF LedgerInv, OrderInv
  <2>6. \A m \in matches' : \/ m \in matches /\ m.lot \in DOMAIN lots
                            \/ m.lot = Pick /\ m.sale = Sale
    BY <1>1, <1>4 DEF TypeOK
  <2>7. \A m \in matches' : Before(lots'[m.lot].row, m.sale)
    BY <1>3, <1>4, <1>9, <2>6 DEF LedgerInv, OrderInv
  <2>8. (\A m \in matches : Before(lots[m.lot].row, m.sale))'
    BY <2>1, <2>7
  <2>9. QED
    BY <2>3, <2>4, <2>5, <2>8 DEF OrderInv
<1>11. FirstInFirstOut'
  <2> SUFFICES ASSUME NEW l \in DOMAIN lots,
                      lots'[l].remaining < rows[lots[l].row].quantity,
                      NEW k \in 1..(l - 1),
                      lots[k].direction = lots[l].direction,
                      enforce_t1 /\ lots[k].direction = "LONG" =>
                          Day(rows[lots[k].row]) <= Day(rows[lots[l].row]),
                      k \in DOMAIN lots
               PROVE  lots'[k].remaining = 0
    <3>1. \A l \in DOMAIN lots : \A k \in 1..(l - 1) : k \in DOMAIN lots
      BY <1>1, LotFacts
    <3>2. QED
      BY <1>1, <1>4, <3>1 DEF FirstInFirstOut, Day
  <2>1. l \in Nat /\ k < l /\ k \in Nat
    BY <1>5
  <2>2. CASE l = Pick
    <3>1. k \notin sellable
      BY <1>3, <1>5, <2>1, <2>2
    <3>2. lots[l].direction = IF IsShortClose(rows[Sale]) THEN "SHORT" ELSE "LONG"
      BY <1>2, <1>3, <2>2 DEF Sellable, Open
    <3>3. enforce_t1 /\ ~IsShortClose(rows[Sale]) => Settled(l, rows[Sale])
      BY <1>2, <1>3, <2>2 DEF Sellable
    <3>4. /\ Day(rows[lots[k].row]) \in Nat /\ Day(rows[lots[l].row]) \in Nat
          /\ Day(rows[Sale]) \in Nat
      BY <1>1, <1>2, LotFacts, RowFacts
    <3>5. enforce_t1 /\ ~IsShortClose(rows[Sale]) => Settled(k, rows[Sale])
      BY <3>2, <3>3, <3>4 DEF Settled
    <3>6. lots[k].remaining = 0
      BY <1>2, <1>5, <3>1, <3>2, <3>5 DEF Sellable, Open
    <3>7. QED
      BY <1>4, <2>1, <2>2, <3>6
  <2>3. CASE l # Pick
    <3>1. lots[k].remaining = 0
      BY <1>4, <2>3 DEF LedgerInv, FirstInFirstOut
    <3>2. QED
      BY <1>3, <1>4, <3>1
  <2>4. QED
    BY <2>2, <2>3
<1>12. SettledBeforeSold'
  <2>1. /\ lots[Pick].direction = "LONG" <=> rows[Sale].side = "SELL"
        /\ enforce_t1 /\ lots[Pick].direction = "LONG" => Settled(Pick, rows[Sale])
    <3>1. rows[Sale].side \in {"BUY", "SELL"}
      BY <1>1, <1>2, RowFacts DEF Row, Side
    <3>2. QED
      BY <1>2, <1>3, <3>1 DEF Sellable, Open, Closes, OpensLong, IsShortClose
  <2>2. \A m \in matches' : \/ m \in matches /\ m.lot \in DOMAIN lots
                            \/ m.lot = Pick /\ m.sale = Sale
    BY <1>1, <1>4 DEF TypeOK
  <2>3. \A m \in matches' :
            /\ lots[m.lot].direction = "LONG" <=> rows[m.sale].side = "SELL"
            /\ enforce_t1 /\ lots[m.lot].direction = "LONG" =>
                   Day(rows[lots[m.lot].row]) < Day(rows[m.sale])
            /\ m.lot \in DOMAIN lots
    BY <1>3, <2>1, <2>2 DEF LedgerInv, SettledBeforeSold, Settled
  <2>4. QED
    BY <1>1, <1>4, <2>3 DEF SettledBeforeSold, Day
<1>13. QED
  BY <1>6, <1>8, <1>10, <1>11, <1>12 DEF LedgerInv

LEMMA StutterKeeps ==
    ASSUME LedgerInv, UNCHANGED vars
    PROVE  LedgerInv'
<1> USE DEF vars, LedgerInv
<1>1. TypeOK'
  BY DEF TypeOK
<1>2. SaleInv'
  BY DEF SaleInv, Sale, Idle, Sellable, Open, Settled, Day, Closes, OpensLong, OpensShort,
         IsShortOpen, IsShortClose
<1>3. OrderInv'
  BY DEF OrderInv, Sale, Idle, Booked, Kept, Before, Stamp, Day
<1>4. FirstInFirstOut' /\ SettledBeforeSold'
  BY DEF FirstInFirstOut, SettledBeforeSold, Day
<1>5. QED
  BY <1>1, <1>2, <1>3, <1>4

-----------------------------------------------------------------------------
(* The theorems *)

\* Booking an export keeps the ledger's invariant from the first row to the last.
THEOREM LedgerInvariant == Spec => []LedgerInv
<1>1. LedgerInv /\ [Next]_vars => LedgerInv'
  <2> SUFFICES ASSUME LedgerInv, [Next]_vars PROVE LedgerInv'
    OBVIOUS
  <2>1. ASSUME NEW i \in DOMAIN rows, OpenLot(i) PROVE LedgerInv'
    BY <2>1, OpenKeeps
  <2>2. ASSUME NEW i \in DOMAIN rows, Refuse(i) PROVE LedgerInv'
    BY <2>2, RefuseKeeps
  <2>3. ASSUME NEW i \in DOMAIN rows, StartSale(i) PROVE LedgerInv'
    BY <2>3, StartKeeps
  <2>4. CASE MatchLot
    BY <2>4, MatchKeeps
  <2>5. CASE EndSale
    BY <2>5, EndKeeps
  <2>6. CASE UNCHANGED vars
    BY <2>6, StutterKeeps
  <2>7. QED
    BY <2>1, <2>2, <2>3, <2>4, <2>5, <2>6 DEF Next
<1>2. QED
  BY <1>1, InitInv, PTL DEF Spec

\* Every reachable ledger is well formed; no lot is ever overdrawn.
THEOREM LedgerTypeCorrect == Spec => []TypeOK
<1>1. LedgerInv => TypeOK
  BY DEF LedgerInv
<1>2. QED
  BY <1>1, LedgerInvariant, PTL

\* Sales use up lots first in, first out, under either market rule.
THEOREM OldestFirst == Spec => []FirstInFirstOut
<1>1. LedgerInv => FirstInFirstOut
  BY DEF LedgerInv
<1>2. QED
  BY <1>1, LedgerInvariant, PTL

\* Under T+1 only shares of an earlier day are sold, and a sale never takes
\* a short nor a cover a long.
THEOREM SoldWhenSettled == Spec => []SettledBeforeSold
<1>1. LedgerInv => SettledBeforeSold
  BY DEF LedgerInv
<1>2. QED
  BY <1>1, LedgerInvariant, PTL

\* Between rows whose timestamps are equally precise, no sale takes from a lot
\* of a later row.
THEOREM SoldAfterBought == Spec => []BoughtBeforeSold
<1>1. LedgerInv => BoughtBeforeSold
  <2> SUFFICES ASSUME LedgerInv, NEW m \in matches,
                      rows[lots[m.lot].row].precision = rows[m.sale].precision
               PROVE  Stamp(rows[lots[m.lot].row]) <= Stamp(rows[m.sale])
    BY DEF BoughtBeforeSold
  <2>1. /\ TypeOK /\ Before(lots[m.lot].row, m.sale)
        /\ lots[m.lot].row \in DOMAIN rows /\ m.sale \in DOMAIN rows
    <3>1. TypeOK /\ m.lot \in DOMAIN lots /\ m.sale \in DOMAIN rows
      BY DEF LedgerInv, TypeOK
    <3>2. QED
      BY <3>1, LotFacts DEF LedgerInv, OrderInv
  <2>2. \A i \in DOMAIN rows : Stamp(rows[i]) \in Nat /\ rows[i].precision \in Nat
    BY <2>1, RowFacts DEF Stamp, Row, ZONED, TIMED, DATED
  <2>3. QED
    BY <2>1, <2>2 DEF Before
<1>2. QED
  BY <1>1, LedgerInvariant, PTL

\* A sale takes from the oldest lots that were there before it and had settled, in any
\* export and under either market rule.
THEOREM SalesAreInOrder == Spec => []SoldInOrder
<1>1. FirstInFirstOut /\ SettledBeforeSold /\ BoughtBeforeSold => SoldInOrder
  BY DEF SoldInOrder
<1>2. QED
  BY <1>1, OldestFirst, SoldWhenSettled, SoldAfterBought, PTL

-----------------------------------------------------------------------------
(* The books.  The sums of the ledger are sums: what MapThenSumSet finds,  *)
(* taking the elements as CHOOSE does, is their total in any order.        *)

LEMMA QuantityIsTotal ==
    ASSUME NEW S, IsFiniteSet(S), \A m \in S : m.quantity \in Nat
    PROVE  Quantity(S) = Total([m \in S |-> m.quantity], S)
<1> DEFINE h == [m \in S |-> m.quantity]
           F(f) == [s \in SUBSET S |->
                       IF s = {} THEN 0
                       ELSE (CHOOSE x \in s : TRUE).quantity + f[s \ {CHOOSE x \in s : TRUE}]]
<1>1. \A x \in S : h[x] \in Nat /\ h[x] = x.quantity
  OBVIOUS
<1> HIDE DEF h
<1>2. PICK g \in [SUBSET S -> Nat] : IsSum(g, h, S) /\ Total(h, S) = g[S]
  BY <1>1, TotalIsSum
<1>3. g = F(g)
  <2>1. ASSUME NEW s \in SUBSET S, s # {}
        PROVE  g[s] = (CHOOSE x \in s : TRUE).quantity + g[s \ {CHOOSE x \in s : TRUE}]
    <3>1. (CHOOSE x \in s : TRUE) \in S
      BY <2>1
    <3>2. g[s] = h[CHOOSE x \in s : TRUE] + g[s \ {CHOOSE x \in s : TRUE}]
      BY <1>2, <2>1 DEF IsSum
    <3>3. QED
      BY <1>1, <3>1, <3>2
  <2>2. g[{}] = 0
    BY <1>2 DEF IsSum
  <2>3. QED
    BY <2>1, <2>2
<1>4. PICK p : p = CHOOSE f : f = F(f)
  OBVIOUS
<1>5. p = F(p)
  <2> HIDE DEF F
  <2>1. \E f : f = F(f)
    BY <1>3
  <2>2. QED
    BY <1>4, <2>1, Zenon
<1>6. Quantity(S) = p[S]
  BY <1>4 DEF Quantity, MapThenSumSet, MapThenFoldSet
<1>7. IsSum(p, h, S)
  <2>1. ASSUME NEW s \in SUBSET S, s # {}
        PROVE  p[s] = h[CHOOSE x \in s : TRUE] + p[s \ {CHOOSE x \in s : TRUE}]
    <3>1. (CHOOSE x \in s : TRUE) \in S
      BY <2>1
    <3>2. p[s] = (CHOOSE x \in s : TRUE).quantity + p[s \ {CHOOSE x \in s : TRUE}]
      BY <1>5, <2>1
    <3>3. QED
      BY <1>1, <3>1, <3>2
  <2>2. p[{}] = 0
    BY <1>5
  <2>3. QED
    BY <2>1, <2>2 DEF IsSum
<1>8. p[S] = Total(h, S)
  <2> HIDE DEF F
  <2>1. QED
    BY <1>1, <1>7, SumIsTotal, Zenon
<1>9. QED
  BY <1>2, <1>6, <1>8 DEF h
LEMMA AskedForIsTotal ==
    ASSUME NEW S, IsFiniteSet(S), \A i \in S : rows[i].quantity \in Nat
    PROVE  AskedFor(S) = Total([i \in S |-> rows[i].quantity], S)
<1> DEFINE h == [i \in S |-> rows[i].quantity]
           F(f) == [s \in SUBSET S |->
                       IF s = {} THEN 0
                       ELSE rows[CHOOSE x \in s : TRUE].quantity + f[s \ {CHOOSE x \in s : TRUE}]]
<1>1. \A x \in S : h[x] \in Nat /\ h[x] = rows[x].quantity
  OBVIOUS
<1> HIDE DEF h
<1>2. PICK g \in [SUBSET S -> Nat] : IsSum(g, h, S) /\ Total(h, S) = g[S]
  BY <1>1, TotalIsSum
<1>3. g = F(g)
  <2>1. ASSUME NEW s \in SUBSET S, s # {}
        PROVE  g[s] = rows[CHOOSE x \in s : TRUE].quantity + g[s \ {CHOOSE x \in s : TRUE}]
    <3>1. (CHOOSE x \in s : TRUE) \in S
      BY <2>1
    <3>2. g[s] = h[CHOOSE x \in s : TRUE] + g[s \ {CHOOSE x \in s : TRUE}]
      BY <1>2, <2>1 DEF IsSum
    <3>3. QED
      BY <1>1, <3>1, <3>2
  <2>2. g[{}] = 0
    BY <1>2 DEF IsSum
  <2>3. QED
    BY <2>1, <2>2
<1>4. PICK p : p = CHOOSE f : f = F(f)
  OBVIOUS
<1>5. p = F(p)
  <2> HIDE DEF F
  <2>1. \E f : f = F(f)
    BY <1>3
  <2>2. QED
    BY <1>4, <2>1, Zenon
<1>6. AskedFor(S) = p[S]
  BY <1>4 DEF AskedFor, MapThenSumSet, MapThenFoldSet
<1>7. IsSum(p, h, S)
  <2>1. ASSUME NEW s \in SUBSET S, s # {}
        PROVE  p[s] = h[CHOOSE x \in s : TRUE] + p[s \ {CHOOSE x \in s : TRUE}]
    <3>1. (CHOOSE x \in s : TRUE) \in S
      BY <2>1
    <3>2. p[s] = rows[CHOOSE x \in s : TRUE].quantity + p[s \ {CHOOSE x \in s : TRUE}]
      BY <1>5, <2>1
    <3>3. QED
      BY <1>1, <3>1, <3>2
  <2>2. p[{}] = 0
    BY <1>5
  <2>3. QED
    BY <2>1, <2>2 DEF IsSum
<1>8. p[S] = Total(h, S)
  <2> HIDE DEF F
  <2>1. QED
    BY <1>1, <1>7, SumIsTotal, Zenon
<1>9. QED
  BY <1>2, <1>6, <1>8 DEF h
LEMMA GotIsTotal ==
    ASSUME NEW S, IsFiniteSet(S), \A i \in S : Matched(i) \in Nat
    PROVE  Got(S) = Total([i \in S |-> Matched(i)], S)
<1> DEFINE h == [i \in S |-> Matched(i)]
           F(f) == [s \in SUBSET S |->
                       IF s = {} THEN 0
                       ELSE Matched(CHOOSE x \in s : TRUE) + f[s \ {CHOOSE x \in s : TRUE}]]
<1>1. \A x \in S : h[x] \in Nat /\ h[x] = Matched(x)
  OBVIOUS
<1> HIDE DEF h
<1>2. PICK g \in [SUBSET S -> Nat] : IsSum(g, h, S) /\ Total(h, S) = g[S]
  BY <1>1, TotalIsSum
<1>3. g = F(g)
  <2>1. ASSUME NEW s \in SUBSET S, s # {}
        PROVE  g[s] = Matched(CHOOSE x \in s : TRUE) + g[s \ {CHOOSE x \in s : TRUE}]
    <3>1. (CHOOSE x \in s : TRUE) \in S
      BY <2>1
    <3>2. g[s] = h[CHOOSE x \in s : TRUE] + g[s \ {CHOOSE x \in s : TRUE}]
      BY <1>2, <2>1 DEF IsSum
    <3>3. QED
      BY <1>1, <3>1, <3>2
  <2>2. g[{}] = 0
    BY <1>2 DEF IsSum
  <2>3. QED
    BY <2>1, <2>2
<1>4. PICK p : p = CHOOSE f : f = F(f)
  OBVIOUS
<1>5. p = F(p)
  <2> HIDE DEF F
  <2>1. \E f : f = F(f)
    BY <1>3
  <2>2. QED
    BY <1>4, <2>1, Zenon
<1>6. Got(S) = p[S]
  BY <1>4 DEF Got, MapThenSumSet, MapThenFoldSet
<1>7. IsSum(p, h, S)
  <2>1. ASSUME NEW s \in SUBSET S, s # {}
        PROVE  p[s] = h[CHOOSE x \in s : TRUE] + p[s \ {CHOOSE x \in s : TRUE}]
    <3>1. (CHOOSE x \in s : TRUE) \in S
      BY <2>1
    <3>2. p[s] = Matched(CHOOSE x \in s : TRUE) + p[s \ {CHOOSE x \in s : TRUE}]
      BY <1>5, <2>1
    <3>3. QED
      BY <1>1, <3>1, <3>2
  <2>2. p[{}] = 0
    BY <1>5
  <2>3. QED
    BY <2>1, <2>2 DEF IsSum
<1>8. p[S] = Total(h, S)
  <2> HIDE DEF F
  <2>1. QED
    BY <1>1, <1>7, SumIsTotal, Zenon
<1>9. QED
  BY <1>2, <1>6, <1>8 DEF h

-----------------------------------------------------------------------------
\* Every match is of a closing row, and while a sale goes on none of its lots is
\* one it may still take.
MatchesOfSales ==
    /\ \A m \in matches : m.sale \in Booked /\ Closes(rows[m.sale])
    /\ ~Idle => \A m \in matches : m.sale = Sale => m.lot \notin sellable

\* The rows are booked once, in their order.
InOrder ==
    /\ Booked \subseteq Kept
    /\ \A p, q \in DOMAIN booked : p < q => Before(booked[p], booked[q])

\* The lots are of the rows that open one, a lot each.
LotsOfRows ==
    /\ \A k, l \in DOMAIN lots : lots[k].row = lots[l].row => k = l
    /\ \A k \in DOMAIN lots : /\ ~Closes(rows[lots[k].row])
                              /\ lots[k].direction = "LONG" <=> OpensLong(rows[lots[k].row])
    /\ \A i \in Booked : ~Closes(rows[i]) => \E k \in DOMAIN lots : lots[k].row = i

\* What the sale in progress has got and what it still wants is what it asked for.
SaleCounts == ~Idle => left + Matched(Sale) = rows[Sale].quantity

\* Errors name rows that are done with, or that were dropped.
IssuesOfDone == \A issue \in issues : issue.row \in Kept => issue.row \in Done

\* A sale that has ended got no more than it asked for, and less only when nothing
\* was left that it could take.
Finished ==
    booked # <<>> /\ Idle /\ Closes(rows[Sale]) =>
        /\ Matched(Sale) <= rows[Sale].quantity
        /\ Matched(Sale) < rows[Sale].quantity => Sellable(rows[Sale]) = {}

BooksInv ==
    /\ IsFiniteSet(matches)
    /\ MatchesOfSales /\ InOrder /\ LotsOfRows
    /\ LotsConserved /\ SaleCounts /\ IssuesOfDone /\ SalesAccounted /\ Finished

LEMMA QuantityOfNothing == Quantity({}) = 0
<1>1. Quantity({}) = Total([m \in {} |-> m.quantity], {})
  BY FS_EmptySet, QuantityIsTotal
<1>2. QED
  BY <1>1, TotalOfNothing

LEMMA QuantityWith ==
    ASSUME NEW S, IsFiniteSet(S), \A m \in S : m.quantity \in Nat,
           NEW x, x \notin S, x.quantity \in Nat
    PROVE  Quantity(S) \in Nat /\ Quantity(S \cup {x}) = x.quantity + Quantity(S)
<1> DEFINE U == S \cup {x}
           h == [m \in U |-> m.quantity]
           f == [m \in S |-> m.quantity]
<1>1. IsFiniteSet(U) /\ \A m \in U : m.quantity \in Nat /\ h[m] = m.quantity
  BY FS_AddElement
<1>2. \A m \in S : f[m] \in Nat /\ f[m] = h[m] /\ h[m] \in Nat
  OBVIOUS
<1>3. Quantity(U) = Total(h, U)
  BY <1>1, QuantityIsTotal
<1>4. Quantity(S) = Total(f, S)
  BY QuantityIsTotal
<1> HIDE DEF h, f
<1>5. Total(f, S) = Total(h, S) /\ Total(f, S) \in Nat
  BY <1>2, TotalEqual, TotalType
<1>6. h[x] \in Nat /\ h[x] = x.quantity
  BY <1>1
<1>7. Total(h, S \cup {x}) = h[x] + Total(h, S)
  BY <1>2, <1>6, TotalWith
<1>8. QED
  BY <1>3, <1>4, <1>5, <1>6, <1>7

\* The matches of any choice are finitely many, with quantities that are numbers.
LEMMA MatchFacts ==
    ASSUME TypeOK, IsFiniteSet(matches), NEW S \in SUBSET matches
    PROVE  IsFiniteSet(S) /\ (\A m \in S : m.quantity \in Nat) /\ Quantity(S) \in Nat
<1>1. IsFiniteSet(S)
  BY FS_Subset
<1>2. \A m \in S : m.quantity \in Nat
  BY DEF TypeOK
<1>3. \A m \in S : [n \in S |-> n.quantity][m] \in Nat
  BY <1>2
<1>4. Total([n \in S |-> n.quantity], S) \in Nat
  <2> DEFINE f == [n \in S |-> n.quantity]
  <2>1. \A m \in S : f[m] \in Nat
    BY <1>3
  <2> HIDE DEF f
  <2>2. Total(f, S) \in Nat
    BY <1>1, <2>1, TotalType
  <2>3. QED
    BY <2>2 DEF f
<1>5. QED
  BY <1>1, <1>2, <1>4, QuantityIsTotal

\* A row no sale of which is matched has got nothing.
LEMMA NothingMatched ==
    ASSUME NEW i, \A m \in matches : m.sale # i
    PROVE  Matched(i) = 0
<1>1. {m \in matches : m.sale = i} = {}
  OBVIOUS
<1>2. QED
  BY <1>1, QuantityOfNothing DEF Matched

LEMMA MatchedType ==
    ASSUME TypeOK, IsFiniteSet(matches), NEW i
    PROVE  Matched(i) \in Nat
<1>1. {m \in matches : m.sale = i} \in SUBSET matches
  OBVIOUS
<1>2. QED
  BY <1>1, MatchFacts DEF Matched

LEMMA BooksInit == Init => BooksInv
<1> SUFFICES ASSUME Init PROVE BooksInv
  OBVIOUS
<1>1. /\ booked = <<>> /\ lots = <<>> /\ matches = {} /\ left = 0 /\ sellable = {}
      /\ issues = {Issue("duplicate_fill", i) : i \in (DOMAIN rows) \ Kept}
  BY DEF Init
<1>2. DOMAIN booked = {} /\ DOMAIN lots = {} /\ Booked = {} /\ Idle
  BY <1>1 DEF Booked, Idle
<1>3. IsFiniteSet(matches)
  BY <1>1, FS_EmptySet
<1>4. MatchesOfSales /\ InOrder /\ LotsOfRows /\ SaleCounts /\ Finished
  BY <1>1, <1>2 DEF MatchesOfSales, InOrder, LotsOfRows, SaleCounts, Finished
<1>5. LotsConserved
  BY <1>2 DEF LotsConserved
<1>6. IssuesOfDone
  BY <1>1 DEF IssuesOfDone, Issue
<1>7. SalesAccounted
  <2>1. \A i : Matched(i) = 0
    BY <1>1, NothingMatched
  <2>2. \A i \in DOMAIN rows : i \notin Kept => \E issue \in issues : issue.row = i
    <3>1. ASSUME NEW i \in DOMAIN rows, i \notin Kept
          PROVE  \E issue \in issues : issue.row = i
      <4>1. Issue("duplicate_fill", i) \in issues /\ Issue("duplicate_fill", i).row = i
        BY <1>1, <3>1 DEF Issue
      <4>2. QED
        BY <4>1
    <3>2. QED
      BY <3>1
  <2>3. Done = {}
    BY <1>2 DEF Done
  <2>4. QED
    BY <2>1, <2>2, <2>3 DEF SalesAccounted
<1>8. QED
  BY <1>3, <1>4, <1>5, <1>6, <1>7 DEF BooksInv

\* What does not change with the rows and the rule on shorts.
LEMMA SameRows ==
    ASSUME rows' = rows, allow_shorts' = allow_shorts
    PROVE  /\ \A j : (Closes(rows[j]))' <=> Closes(rows[j])
           /\ \A j : (OpensLong(rows[j]))' <=> OpensLong(rows[j])
           /\ \A i, j : Before(i, j)' <=> Before(i, j)
           /\ Kept' = Kept
  BY DEF Closes, OpensLong, OpensShort, IsShortOpen, IsShortClose, Before, Stamp, Day, Kept

LEMMA SameMatches ==
    ASSUME matches' = matches
    PROVE  \A j : Matched(j)' = Matched(j)
  BY DEF Matched

\* Booking the next row keeps the order, and the row is new to the matches, the
\* lots and the issues.
LEMMA BookInOrder ==
    ASSUME LedgerInv, BooksInv, NEW i \in DOMAIN rows, IsNext(i), Idle,
           booked' = Append(booked, i), rows' = rows
    PROVE  /\ InOrder' /\ booked' # <<>> /\ Sale' = i /\ Booked' = Booked \cup {i}
           /\ i \in Kept /\ i \notin Booked /\ Done = Booked
           /\ Matched(i) = 0
           /\ \A k \in DOMAIN lots : lots[k].row # i
<1>1. TypeOK /\ InOrder /\ OrderInv /\ MatchesOfSales
  BY DEF LedgerInv, BooksInv
<1>2. booked' # <<>> /\ Sale' = i /\ Booked' = Booked \cup {i}
  BY <1>1, BookedFacts
<1>3. i \in Kept /\ i \notin Booked /\ Done = Booked
  BY DEF IsNext, Done
<1>4. \A k \in DOMAIN lots : lots[k].row # i
  BY <1>1, <1>3 DEF OrderInv
<1>5. Matched(i) = 0
  BY <1>1, <1>3, NothingMatched DEF MatchesOfSales
<1>6. Kept' = Kept /\ \A a, j : Before(a, j)' <=> Before(a, j)
  BY DEF Kept, Before, Stamp, Day
<1>7. booked \in Seq(DOMAIN rows) /\ Len(booked) \in Nat /\ DOMAIN booked = 1 .. Len(booked)
  BY <1>1, LenProperties DEF TypeOK
<1>8. /\ DOMAIN booked' = 1 .. (Len(booked) + 1)
      /\ \A k \in DOMAIN booked : booked'[k] = booked[k]
      /\ booked'[Len(booked) + 1] = i
  BY <1>7, AppendProperties, LenProperties
<1>9. ASSUME NEW p \in DOMAIN booked', NEW q \in DOMAIN booked', p < q
      PROVE  Before(booked'[p], booked'[q])
  <2>1. p \in DOMAIN booked /\ p \in Nat /\ q \in Nat
    BY <1>7, <1>8, <1>9
  <2>2. CASE q \in DOMAIN booked
    BY <1>1, <1>8, <1>9, <2>1, <2>2 DEF InOrder
  <2>3. CASE q = Len(booked) + 1
    <3>1. booked[p] \in Booked
      BY <2>1 DEF Booked
    <3>2. Before(booked[p], i)
      BY <1>1, <1>3, <3>1 DEF OrderInv
    <3>3. QED
      BY <1>8, <2>1, <2>3, <3>2
  <2>4. QED
    BY <1>7, <1>8, <2>2, <2>3
<1>10. InOrder'
  <2>1. Booked' \subseteq Kept'
    BY <1>1, <1>2, <1>3, <1>6 DEF InOrder
  <2>2. (\A p, q \in DOMAIN booked : p < q => Before(booked[p], booked[q]))'
    BY <1>6, <1>9
  <2>3. QED
    BY <2>1, <2>2 DEF InOrder
<1>11. QED
  BY <1>2, <1>3, <1>4, <1>5, <1>10

LEMMA BooksOpen ==
    ASSUME LedgerInv, BooksInv, NEW i \in DOMAIN rows, OpenLot(i)
    PROVE  BooksInv'
<1> DEFINE new == Lot(i, IF OpensLong(rows[i]) THEN "LONG" ELSE "SHORT")
<1>1. /\ TypeOK /\ Idle /\ IsNext(i) /\ ~Closes(rows[i]) /\ lots' = Append(lots, new)
      /\ booked' = Append(booked, i)
      /\ rows' = rows /\ allow_shorts' = allow_shorts /\ enforce_t1' = enforce_t1
      /\ sellable' = sellable /\ left' = left /\ matches' = matches /\ issues' = issues
  BY DEF LedgerInv, OpenLot
<1>2. /\ InOrder' /\ Sale' = i /\ Booked' = Booked \cup {i}
      /\ i \in Kept /\ i \notin Booked /\ Done = Booked
      /\ \A k \in DOMAIN lots : lots[k].row # i
  BY <1>1, BookInOrder
<1>3. /\ new.row = i /\ new.remaining = rows[i].quantity /\ rows[i].quantity \in Nat
      /\ new.direction = "LONG" <=> OpensLong(rows[i])
      /\ new \in LotType
  <2>1. rows[i].quantity \in Nat
    BY <1>1, RowFacts
  <2>2. QED
    BY <2>1 DEF Lot, LotType
<1> HIDE DEF new
<1>4. /\ lots \in Seq(LotType) /\ Len(lots) \in Nat /\ DOMAIN lots = 1..Len(lots)
  BY <1>1, LotFacts
<1>5. /\ DOMAIN lots' = 1..(Len(lots) + 1)
      /\ \A k \in DOMAIN lots : k \in DOMAIN lots' /\ lots'[k] = lots[k]
      /\ lots'[Len(lots) + 1] = new
      /\ \A k \in DOMAIN lots' : k \in DOMAIN lots \/ k = Len(lots) + 1
  <2>0. lots \in Seq(LotType) /\ new \in LotType /\ lots' = Append(lots, new)
    BY <1>1, <1>3, <1>4
  <2>1. lots' \in Seq(LotType) /\ Len(lots') = Len(lots) + 1
    BY <2>0, AppendProperties
  <2>2. \A k \in 1..Len(lots) : lots'[k] = lots[k]
    BY <2>0, AppendProperties
  <2>3. lots'[Len(lots) + 1] = new
    BY <2>0, AppendProperties
  <2>4. DOMAIN lots' = 1..(Len(lots) + 1)
    BY <2>1, LenProperties
  <2>5. QED
    BY <1>4, <2>2, <2>3, <2>4
<1>6. /\ \A j : (Closes(rows[j]))' <=> Closes(rows[j])
      /\ \A j : (OpensLong(rows[j]))' <=> OpensLong(rows[j])
      /\ \A j : Matched(j)' = Matched(j)
      /\ Kept' = Kept
  BY <1>1, SameRows, SameMatches
<1>7. Idle' /\ Done' = Booked'
  BY <1>1 DEF Idle, Done
<1>8. MatchesOfSales'
  BY <1>1, <1>2, <1>6, <1>7 DEF BooksInv, MatchesOfSales
<1>9. LotsOfRows'
  <2>1. \A k, l \in DOMAIN lots' : lots'[k].row = lots'[l].row => k = l
    BY <1>2, <1>3, <1>5 DEF BooksInv, LotsOfRows
  <2>2. \A k \in DOMAIN lots' : /\ ~Closes(rows[lots'[k].row])
                                /\ lots'[k].direction = "LONG" <=> OpensLong(rows[lots'[k].row])
    BY <1>1, <1>3, <1>5 DEF BooksInv, LotsOfRows
  <2>3. \A j \in Booked' : ~Closes(rows[j]) => \E k \in DOMAIN lots' : lots'[k].row = j
    <3>1. ASSUME NEW j \in Booked, ~Closes(rows[j]) PROVE \E k \in DOMAIN lots' : lots'[k].row = j
      <4>1. PICK k \in DOMAIN lots : lots[k].row = j
        BY <3>1 DEF BooksInv, LotsOfRows
      <4>2. QED
        BY <1>5, <4>1
    <3>2. \E k \in DOMAIN lots' : lots'[k].row = i
      <4>1. Len(lots) + 1 \in DOMAIN lots'
        BY <1>4, <1>5
      <4>2. QED
        BY <1>3, <1>5, <4>1
    <3>3. QED
      BY <1>2, <3>1, <3>2
  <2>4. QED
    BY <1>1, <1>6, <2>1, <2>2, <2>3 DEF LotsOfRows
<1>10. LotsConserved'
  <2>1. ASSUME NEW k \in DOMAIN lots'
        PROVE  lots'[k].remaining + Quantity({m \in matches : m.lot = k}) = rows[lots'[k].row].quantity
    <3>1. CASE k \in DOMAIN lots
      BY <1>5, <3>1 DEF BooksInv, LotsConserved
    <3>2. CASE k = Len(lots) + 1
      <4>1. k \notin DOMAIN lots
        BY <1>4, <3>2
      <4>2. \A m \in matches : m.lot \in DOMAIN lots
        BY <1>1 DEF TypeOK
      <4>3. {m \in matches : m.lot = k} = {}
        BY <4>1, <4>2
      <4>4. Quantity({m \in matches : m.lot = k}) = 0
        BY <4>3, QuantityOfNothing
      <4>5. QED
        BY <1>3, <1>5, <3>2, <4>4
    <3>3. QED
      BY <1>5, <3>1, <3>2
  <2>2. QED
    BY <1>1, <2>1 DEF LotsConserved
<1>11. SaleCounts' /\ Finished'
  BY <1>1, <1>2, <1>6, <1>7 DEF SaleCounts, Finished
<1>12. IssuesOfDone'
  BY <1>1, <1>2, <1>6, <1>7 DEF BooksInv, IssuesOfDone
<1>13. SalesAccounted'
  BY <1>1, <1>2, <1>6, <1>7 DEF BooksInv, SalesAccounted
<1>14. QED
  BY <1>1, <1>2, <1>8, <1>9, <1>10, <1>11, <1>12, <1>13 DEF BooksInv

LEMMA BooksRefuse ==
    ASSUME LedgerInv, BooksInv, NEW i \in DOMAIN rows, Refuse(i)
    PROVE  BooksInv'
<1> DEFINE new == Issue(RefusalCode(rows[i]), i)
<1>1. /\ TypeOK /\ Idle /\ IsNext(i) /\ Closes(rows[i]) /\ Sellable(rows[i]) = {}
      /\ booked' = Append(booked, i) /\ issues' = issues \cup {new}
      /\ rows' = rows /\ allow_shorts' = allow_shorts /\ enforce_t1' = enforce_t1
      /\ lots' = lots /\ sellable' = sellable /\ left' = left /\ matches' = matches
  BY DEF LedgerInv, Refuse
<1>2. /\ InOrder' /\ booked' # <<>> /\ Sale' = i /\ Booked' = Booked \cup {i}
      /\ i \in Kept /\ i \notin Booked /\ Done = Booked /\ Matched(i) = 0
  BY <1>1, BookInOrder
<1>3. new.row = i
  BY DEF Issue
<1> HIDE DEF new
<1>4. /\ \A j : (Closes(rows[j]))' <=> Closes(rows[j])
      /\ \A j : (OpensLong(rows[j]))' <=> OpensLong(rows[j])
      /\ \A j : Matched(j)' = Matched(j)
      /\ Kept' = Kept
  BY <1>1, SameRows, SameMatches
<1>5. Idle' /\ Done' = Booked'
  BY <1>1 DEF Idle, Done
<1>6. rows[i].quantity \in Nat \ {0}
  BY <1>1, RowFacts
<1>7. MatchesOfSales'
  BY <1>1, <1>2, <1>4, <1>5 DEF BooksInv, MatchesOfSales
<1>8. LotsOfRows'
  <2>1. \A j \in Booked' : ~Closes(rows[j]) => j \in Booked
    BY <1>1, <1>2
  <2>2. QED
    BY <1>1, <1>4, <2>1 DEF BooksInv, LotsOfRows
<1>9. LotsConserved' /\ SaleCounts'
  BY <1>1, <1>5 DEF BooksInv, LotsConserved, SaleCounts
<1>10. Finished'
  <2>1. Sellable(rows[Sale])' = {}
    BY <1>1, <1>2 DEF Sellable, Open, Settled, Day, IsShortClose
  <2>2. QED
    BY <1>1, <1>2, <1>4, <1>6, <2>1 DEF Finished
<1>11. IssuesOfDone'
  <2>1. \A issue \in issues' : issue \in issues \/ issue.row = i
    BY <1>1, <1>3
  <2>2. QED
    BY <1>1, <1>2, <1>4, <1>5, <2>1 DEF BooksInv, IssuesOfDone
<1>12. SalesAccounted'
  <2>1. ASSUME NEW j \in DOMAIN rows
        PROVE  /\ j \in Done' /\ Closes(rows[j]) =>
                      ((\E issue \in issues' : issue.row = j) <=> Matched(j) < rows[j].quantity)
               /\ j \notin Kept => (\E issue \in issues' : issue.row = j) /\ Matched(j) = 0
    <3>1. CASE j = i
      <4>1. \E issue \in issues' : issue.row = i
        BY <1>1, <1>3
      <4>2. QED
        BY <1>2, <1>6, <3>1, <4>1
    <3>2. CASE j # i
      <4>1. (\E issue \in issues' : issue.row = j) <=> \E issue \in issues : issue.row = j
        BY <1>1, <1>3, <3>2
      <4>2. j \in Done' => j \in Done
        BY <1>2, <1>5, <3>2
      <4>3. QED
        BY <4>1, <4>2 DEF BooksInv, SalesAccounted
    <3>3. QED
      BY <3>1, <3>2
  <2>2. QED
    BY <1>1, <1>4, <2>1 DEF SalesAccounted
<1>13. QED
  BY <1>1, <1>2, <1>7, <1>8, <1>9, <1>10, <1>11, <1>12 DEF BooksInv

LEMMA BooksStart ==
    ASSUME LedgerInv, BooksInv, NEW i \in DOMAIN rows, StartSale(i)
    PROVE  BooksInv'
<1>1. /\ TypeOK /\ Idle /\ IsNext(i) /\ Closes(rows[i])
      /\ booked' = Append(booked, i) /\ left' = rows[i].quantity
      /\ rows' = rows /\ allow_shorts' = allow_shorts /\ enforce_t1' = enforce_t1
      /\ lots' = lots /\ matches' = matches /\ issues' = issues
  BY DEF LedgerInv, StartSale
<1>2. /\ InOrder' /\ booked' # <<>> /\ Sale' = i /\ Booked' = Booked \cup {i}
      /\ i \in Kept /\ i \notin Booked /\ Done = Booked /\ Matched(i) = 0
  BY <1>1, BookInOrder
<1>3. /\ \A j : (Closes(rows[j]))' <=> Closes(rows[j])
      /\ \A j : (OpensLong(rows[j]))' <=> OpensLong(rows[j])
      /\ \A j : Matched(j)' = Matched(j)
      /\ Kept' = Kept
  BY <1>1, SameRows, SameMatches
<1>4. rows[i].quantity \in Nat \ {0}
  BY <1>1, RowFacts
<1>5. ~Idle' /\ Done' = Booked
  <2>1. ~Idle'
    BY <1>1, <1>4 DEF Idle
  <2>2. Done' = Booked' \ {Sale'}
    BY <2>1 DEF Done, Sale
  <2>3. QED
    BY <1>2, <2>1, <2>2
<1>6. MatchesOfSales'
  <2>1. \A m \in matches : m.sale # i
    BY <1>2 DEF BooksInv, MatchesOfSales
  <2>2. QED
    BY <1>1, <1>2, <1>3, <2>1 DEF BooksInv, MatchesOfSales
<1>7. LotsOfRows'
  <2>1. \A j \in Booked' : ~Closes(rows[j]) => j \in Booked
    BY <1>1, <1>2
  <2>2. QED
    BY <1>1, <1>3, <2>1 DEF BooksInv, LotsOfRows
<1>8. LotsConserved'
  BY <1>1 DEF BooksInv, LotsConserved
<1>9. SaleCounts'
  BY <1>1, <1>2, <1>3, <1>4 DEF SaleCounts
<1>10. Finished'
  BY <1>5 DEF Finished
<1>11. IssuesOfDone'
  BY <1>1, <1>2, <1>3, <1>5 DEF BooksInv, IssuesOfDone
<1>12. SalesAccounted'
  BY <1>1, <1>2, <1>3, <1>5 DEF BooksInv, SalesAccounted
<1>13. QED
  BY <1>1, <1>2, <1>6, <1>7, <1>8, <1>9, <1>10, <1>11, <1>12 DEF BooksInv

\* The sale in progress is a row of its own, not done with and not named by any error.
LEMMA SaleInProgress ==
    ASSUME LedgerInv, BooksInv, ~Idle
    PROVE  /\ Sale \in DOMAIN rows /\ Sale \in Booked /\ Sale \in Kept
           /\ Closes(rows[Sale]) /\ booked # <<>>
           /\ Done = Booked \ {Sale}
           /\ \A issue \in issues : issue.row # Sale
           /\ left + Matched(Sale) = rows[Sale].quantity
           /\ left \in Nat /\ Matched(Sale) \in Nat /\ rows[Sale].quantity \in Nat \ {0}
<1>1. TypeOK /\ booked # <<>> /\ Closes(rows[Sale]) /\ IsFiniteSet(matches)
  BY DEF LedgerInv, SaleInv, BooksInv
<1>2. Sale \in DOMAIN rows
  BY <1>1, SaleRow
<1>3. Sale \in Booked
  <2>1. booked \in Seq(DOMAIN rows) /\ Len(booked) \in 1 .. Len(booked) /\ DOMAIN booked = 1 .. Len(booked)
    BY <1>1, EmptySeq, LenProperties DEF TypeOK
  <2>2. QED
    BY <2>1 DEF Sale, Booked
<1>4. Sale \in Kept
  BY <1>3 DEF BooksInv, InOrder
<1>5. Done = Booked \ {Sale}
  BY DEF Done, Sale
<1>6. \A issue \in issues : issue.row # Sale
  BY <1>4, <1>5 DEF BooksInv, IssuesOfDone
<1>7. left \in Nat /\ Matched(Sale) \in Nat /\ rows[Sale].quantity \in Nat \ {0}
  BY <1>1, <1>2, RowFacts, MatchedType DEF TypeOK
<1>8. left + Matched(Sale) = rows[Sale].quantity
  BY DEF BooksInv, SaleCounts
<1>9. QED
  BY <1>1, <1>2, <1>3, <1>4, <1>5, <1>6, <1>7, <1>8

LEMMA BooksEnd ==
    ASSUME LedgerInv, BooksInv, EndSale
    PROVE  BooksInv'
<1>1. /\ ~Idle /\ (left = 0 \/ sellable = {})
      /\ issues' = IF left > 0 THEN issues \cup {Issue("oversell", Sale)} ELSE issues
      /\ left' = 0 /\ sellable' = {}
      /\ rows' = rows /\ allow_shorts' = allow_shorts /\ enforce_t1' = enforce_t1
      /\ booked' = booked /\ lots' = lots /\ matches' = matches
  BY DEF EndSale, Sale
<1>2. /\ Sale \in DOMAIN rows /\ Sale \in Booked /\ Sale \in Kept
      /\ Closes(rows[Sale]) /\ Done = Booked \ {Sale}
      /\ \A issue \in issues : issue.row # Sale
      /\ left + Matched(Sale) = rows[Sale].quantity
      /\ left \in Nat /\ Matched(Sale) \in Nat /\ rows[Sale].quantity \in Nat \ {0}
  BY <1>1, SaleInProgress
<1>3. /\ \A j : (Closes(rows[j]))' <=> Closes(rows[j])
      /\ \A j : (OpensLong(rows[j]))' <=> OpensLong(rows[j])
      /\ \A i, j : Before(i, j)' <=> Before(i, j)
      /\ \A j : Matched(j)' = Matched(j)
      /\ Kept' = Kept
  BY <1>1, SameRows, SameMatches
<1>4. Idle' /\ Done' = Booked /\ Booked' = Booked /\ Sale' = Sale
  BY <1>1 DEF Idle, Done, Booked, Sale
<1>5. /\ left > 0 => \E issue \in issues' : issue.row = Sale
      /\ left = 0 => issues' = issues
      /\ \A issue \in issues' : issue \in issues \/ issue.row = Sale
      /\ issues \subseteq issues'
  <2>1. Issue("oversell", Sale).row = Sale
    BY DEF Issue
  <2>2. QED
    BY <1>1, <1>2, <2>1
<1>6. MatchesOfSales' /\ LotsOfRows' /\ LotsConserved' /\ SaleCounts'
  BY <1>1, <1>3, <1>4 DEF BooksInv, MatchesOfSales, LotsOfRows, LotsConserved, SaleCounts
<1>7. InOrder'
  BY <1>1, <1>3, <1>4 DEF BooksInv, InOrder
<1>8. IssuesOfDone'
  BY <1>2, <1>3, <1>4, <1>5 DEF BooksInv, IssuesOfDone
<1>9. Finished'
  <2>1. left > 0 => Sellable(rows[Sale]) = {}
    BY <1>1 DEF LedgerInv, SaleInv
  <2>2. Sellable(rows[Sale])' = Sellable(rows[Sale])
    BY <1>1, <1>4 DEF Sellable, Open, Settled, Day, IsShortClose
  <2>3. QED
    BY <1>1, <1>2, <1>3, <1>4, <2>1, <2>2 DEF Finished
<1>10. SalesAccounted'
  <2>1. ASSUME NEW j \in DOMAIN rows
        PROVE  /\ j \in Booked /\ Closes(rows[j]) =>
                      ((\E issue \in issues' : issue.row = j) <=> Matched(j) < rows[j].quantity)
               /\ j \notin Kept => (\E issue \in issues' : issue.row = j) /\ Matched(j) = 0
    <3>1. CASE j = Sale
      <4>1. (\E issue \in issues' : issue.row = Sale) <=> left > 0
        BY <1>2, <1>5
      <4>2. left > 0 <=> Matched(Sale) < rows[Sale].quantity
        BY <1>2
      <4>3. QED
        BY <1>2, <3>1, <4>1, <4>2
    <3>2. CASE j # Sale
      <4>1. (\E issue \in issues' : issue.row = j) <=> \E issue \in issues : issue.row = j
        BY <1>5, <3>2
      <4>2. j \in Booked => j \in Done
        BY <1>2, <3>2
      <4>3. QED
        BY <4>1, <4>2 DEF BooksInv, SalesAccounted
    <3>3. QED
      BY <3>1, <3>2
  <2>2. QED
    BY <1>1, <1>3, <1>4, <2>1 DEF SalesAccounted
<1>11. QED
  BY <1>1, <1>6, <1>7, <1>8, <1>9, <1>10 DEF BooksInv

\* A match adds to what its sale got and to what its lot gave, and to nothing else.
LEMMA MatchAdds ==
    ASSUME LedgerInv, BooksInv, MatchLot
    PROVE  \E quantity \in Nat \ {0} :
               /\ quantity <= left /\ left' = left - quantity
               /\ DOMAIN lots' = DOMAIN lots
               /\ \A k \in DOMAIN lots :
                      /\ lots'[k].row = lots[k].row /\ lots'[k].direction = lots[k].direction
                      /\ lots'[k].remaining + Quantity({m \in matches' : m.lot = k})
                             = lots[k].remaining + Quantity({m \in matches : m.lot = k})
               /\ \A j : Matched(j)' = IF j = Sale THEN quantity + Matched(j) ELSE Matched(j)
               /\ IsFiniteSet(matches')
               /\ \A m \in matches' : m \in matches \/ (m.sale = Sale /\ m.lot = Pick)
<1>1. PICK quantity \in Nat \ {0} :
          /\ matches' = matches \cup {[sale |-> Sale, lot |-> Pick, quantity |-> quantity]}
          /\ quantity <= left /\ left' = left - quantity
          /\ quantity <= lots[Pick].remaining
          /\ DOMAIN lots' = DOMAIN lots
          /\ \A k \in DOMAIN lots :
                 /\ lots'[k].row = lots[k].row /\ lots'[k].direction = lots[k].direction
                 /\ lots'[k].remaining = IF k = Pick THEN lots[k].remaining - quantity
                                                    ELSE lots[k].remaining
  BY MatchEffect
<1> DEFINE new == [sale |-> Sale, lot |-> Pick, quantity |-> quantity]
<1>2. /\ new.sale = Sale /\ new.lot = Pick /\ new.quantity = quantity
      /\ matches' = matches \cup {new}
  BY <1>1
<1> HIDE DEF new
<1>3. TypeOK /\ ~Idle /\ sellable # {} /\ IsFiniteSet(matches)
  BY DEF LedgerInv, MatchLot, Idle, BooksInv
<1>4. Pick \in sellable
  BY <1>3, PickFacts
<1>5. new \notin matches
  BY <1>2, <1>3, <1>4 DEF BooksInv, MatchesOfSales
<1>6. IsFiniteSet(matches')
  BY <1>2, <1>3, FS_AddElement
<1>7. new.quantity \in Nat
  BY <1>1, <1>2
<1>8. ASSUME NEW j
      PROVE  Matched(j)' = IF j = Sale THEN quantity + Matched(j) ELSE Matched(j)
  <2> DEFINE old == {m \in matches : m.sale = j}
  <2>1. IsFiniteSet(old) /\ (\A m \in old : m.quantity \in Nat) /\ new \notin old
    BY <1>3, <1>5, MatchFacts
  <2>2. Quantity(old \cup {new}) = new.quantity + Quantity(old)
    <3> HIDE DEF old
    <3>1. QED
      BY <1>7, <2>1, QuantityWith
  <2>3. {m \in matches' : m.sale = j} = IF j = Sale THEN old \cup {new} ELSE old
    BY <1>2
  <2>4. QED
    BY <1>2, <2>2, <2>3 DEF Matched
<1>9. ASSUME NEW k \in DOMAIN lots
      PROVE  lots'[k].remaining + Quantity({m \in matches' : m.lot = k})
                 = lots[k].remaining + Quantity({m \in matches : m.lot = k})
  <2> DEFINE old == {m \in matches : m.lot = k}
  <2>1. /\ IsFiniteSet(old) /\ (\A m \in old : m.quantity \in Nat) /\ new \notin old
        /\ Quantity(old) \in Nat
    BY <1>3, <1>5, MatchFacts
  <2>2. Quantity(old \cup {new}) = new.quantity + Quantity(old)
    <3> HIDE DEF old
    <3>1. QED
      BY <1>7, <2>1, QuantityWith
  <2>3. {m \in matches' : m.lot = k} = IF k = Pick THEN old \cup {new} ELSE old
    BY <1>2
  <2>4. lots[k].remaining \in Nat
    BY <1>3, LotFacts
  <2> HIDE DEF old
  <2>5. CASE k = Pick
    <3>1. lots'[k].remaining = lots[k].remaining - quantity
      BY <1>1, <2>5
    <3>2. Quantity({m \in matches' : m.lot = k}) = quantity + Quantity(old)
      BY <1>2, <2>2, <2>3, <2>5
    <3>3. QED
      BY <1>1, <2>1, <2>4, <3>1, <3>2 DEF old
  <2>6. CASE k # Pick
    BY <1>1, <2>3, <2>6 DEF old
  <2>7. QED
    BY <2>5, <2>6
<1>10. \A m \in matches' : m \in matches \/ (m.sale = Sale /\ m.lot = Pick)
  <2>1. \A m \in matches' : m \in matches \/ m = new
    BY <1>2, Zenon
  <2>2. QED
    BY <1>2, <2>1, Zenon
<1>11. QED
  BY <1>1, <1>6, <1>8, <1>9, <1>10

LEMMA BooksMatch ==
    ASSUME LedgerInv, BooksInv, MatchLot
    PROVE  BooksInv'
<1>1. /\ ~Idle /\ sellable' = sellable \ {Pick} /\ left > 0
      /\ rows' = rows /\ allow_shorts' = allow_shorts /\ enforce_t1' = enforce_t1
      /\ booked' = booked /\ issues' = issues
  BY DEF MatchLot, Idle
<1>2. PICK quantity \in Nat \ {0} :
          /\ quantity <= left /\ left' = left - quantity
          /\ DOMAIN lots' = DOMAIN lots
          /\ \A k \in DOMAIN lots :
                 /\ lots'[k].row = lots[k].row /\ lots'[k].direction = lots[k].direction
                 /\ lots'[k].remaining + Quantity({m \in matches' : m.lot = k})
                        = lots[k].remaining + Quantity({m \in matches : m.lot = k})
          /\ \A j : Matched(j)' = IF j = Sale THEN quantity + Matched(j) ELSE Matched(j)
          /\ IsFiniteSet(matches')
          /\ \A m \in matches' : m \in matches \/ (m.sale = Sale /\ m.lot = Pick)
  BY MatchAdds
<1>3. /\ Sale \in DOMAIN rows /\ Sale \in Booked /\ Sale \in Kept
      /\ Closes(rows[Sale]) /\ Done = Booked \ {Sale}
      /\ \A issue \in issues : issue.row # Sale
      /\ left + Matched(Sale) = rows[Sale].quantity
      /\ left \in Nat /\ Matched(Sale) \in Nat /\ rows[Sale].quantity \in Nat \ {0}
  BY <1>1, SaleInProgress
<1>4. /\ \A j : (Closes(rows[j]))' <=> Closes(rows[j])
      /\ \A j : (OpensLong(rows[j]))' <=> OpensLong(rows[j])
      /\ \A i, j : Before(i, j)' <=> Before(i, j)
      /\ Kept' = Kept
  BY <1>1, SameRows
<1>5. Booked' = Booked /\ Sale' = Sale /\ Done' = IF Idle' THEN Booked ELSE Booked \ {Sale}
  BY <1>1 DEF Done, Booked, Sale
<1>6. /\ left' + Matched(Sale)' = rows[Sale].quantity
      /\ left' \in Nat /\ Matched(Sale)' \in Nat
  BY <1>2, <1>3, <1>5
<1>7. MatchesOfSales'
  <2>1. \A m \in matches' : m.sale \in Booked /\ Closes(rows[m.sale])
    BY <1>2, <1>3 DEF BooksInv, MatchesOfSales
  <2>2. \A m \in matches' : m.sale = Sale => m.lot \notin sellable'
    BY <1>1, <1>2 DEF BooksInv, MatchesOfSales
  <2>3. QED
    BY <1>1, <1>4, <1>5, <2>1, <2>2 DEF MatchesOfSales
<1>8. InOrder'
  BY <1>1, <1>4, <1>5 DEF BooksInv, InOrder
<1>9. LotsOfRows'
  <2>1. \A k, l \in DOMAIN lots' : lots'[k].row = lots'[l].row => k = l
    BY <1>2 DEF BooksInv, LotsOfRows
  <2>2. \A k \in DOMAIN lots' : /\ ~Closes(rows[lots'[k].row])
                                /\ lots'[k].direction = "LONG" <=> OpensLong(rows[lots'[k].row])
    BY <1>2 DEF BooksInv, LotsOfRows
  <2>3. ASSUME NEW j \in Booked, ~Closes(rows[j])
        PROVE  \E k \in DOMAIN lots' : lots'[k].row = j
    <3>1. PICK k \in DOMAIN lots : lots[k].row = j
      BY <2>3 DEF BooksInv, LotsOfRows
    <3>2. k \in DOMAIN lots' /\ lots'[k].row = j
      BY <1>2, <3>1
    <3>3. QED
      BY <3>2
  <2>4. QED
    BY <1>1, <1>4, <1>5, <2>1, <2>2, <2>3 DEF LotsOfRows
<1>10. LotsConserved'
  BY <1>1, <1>2 DEF BooksInv, LotsConserved
<1>11. SaleCounts'
  <2>1. rows'[Sale'] = rows[Sale] /\ left' + Matched(Sale)' = rows[Sale].quantity
    BY <1>1, <1>5, <1>6
  <2>2. QED
    BY <2>1 DEF SaleCounts
<1>12. IssuesOfDone'
  BY <1>1, <1>3, <1>4, <1>5 DEF BooksInv, IssuesOfDone
<1>13. Finished'
  <2>1. Idle' => Matched(Sale)' = rows[Sale].quantity
    BY <1>3, <1>6 DEF Idle
  <2>2. QED
    BY <1>1, <1>3, <1>5, <2>1 DEF Finished
<1>14. SalesAccounted'
  <2>1. ASSUME NEW j \in DOMAIN rows
        PROVE  /\ j \in Done' /\ Closes(rows[j]) =>
                      ((\E issue \in issues : issue.row = j) <=> Matched(j)' < rows[j].quantity)
               /\ j \notin Kept => (\E issue \in issues : issue.row = j) /\ Matched(j)' = 0
    <3>1. CASE j = Sale
      <4>1. Sale \in Done' => left' = 0
        BY <1>5 DEF Idle
      <4>2. Matched(j)' + left' = rows[j].quantity /\ Matched(j)' \in Nat
        BY <1>2, <1>3, <3>1
      <4>3. j \in Done' => ~(Matched(j)' < rows[j].quantity)
        BY <1>3, <3>1, <4>1, <4>2
      <4>4. QED
        BY <1>3, <3>1, <4>3
    <3>2. CASE j # Sale
      <4>1. j \in Done' => j \in Done
        BY <1>3, <1>5, <3>2
      <4>2. QED
        BY <1>2, <3>2, <4>1 DEF BooksInv, SalesAccounted
    <3>3. QED
      BY <3>1, <3>2
  <2>2. QED
    BY <1>1, <1>4, <2>1 DEF SalesAccounted
<1>15. QED
  BY <1>2, <1>7, <1>8, <1>9, <1>10, <1>11, <1>12, <1>13, <1>14 DEF BooksInv

LEMMA BooksStutter ==
    ASSUME BooksInv, UNCHANGED vars
    PROVE  BooksInv'
<1>1. /\ rows' = rows /\ allow_shorts' = allow_shorts /\ enforce_t1' = enforce_t1
      /\ booked' = booked /\ lots' = lots /\ sellable' = sellable /\ left' = left
      /\ matches' = matches /\ issues' = issues
  BY DEF vars
<1>2. /\ \A j : (Closes(rows[j]))' <=> Closes(rows[j])
      /\ \A j : (OpensLong(rows[j]))' <=> OpensLong(rows[j])
      /\ \A i, j : Before(i, j)' <=> Before(i, j)
      /\ \A j : Matched(j)' = Matched(j)
      /\ Kept' = Kept
  BY <1>1, SameRows, SameMatches
<1>3. (Idle' <=> Idle) /\ Done' = Done /\ Booked' = Booked /\ Sale' = Sale
  BY <1>1 DEF Idle, Done, Booked, Sale
<1>4. Sellable(rows[Sale])' = Sellable(rows[Sale])
  BY <1>1, <1>3 DEF Sellable, Open, Settled, Day, IsShortClose
<1>5. MatchesOfSales' /\ InOrder' /\ LotsOfRows' /\ LotsConserved'
  BY <1>1, <1>2, <1>3 DEF BooksInv, MatchesOfSales, InOrder, LotsOfRows, LotsConserved
<1>6. SaleCounts' /\ IssuesOfDone' /\ SalesAccounted' /\ Finished'
  BY <1>1, <1>2, <1>3, <1>4 DEF BooksInv, SaleCounts, IssuesOfDone, SalesAccounted, Finished
<1>7. QED
  BY <1>1, <1>5, <1>6 DEF BooksInv

-----------------------------------------------------------------------------
(* What a row closes.                                                      *)

\* The lots that are what the last row closes, with shares left or without.
Closable ==
    {k \in DOMAIN lots :
        /\ lots[k].direction = IF IsShortClose(rows[Sale]) THEN "SHORT" ELSE "LONG"
        /\ enforce_t1 /\ ~IsShortClose(rows[Sale]) => Settled(k, rows[Sale])}

\* A row comes no earlier in the day order than one that is booked before it.
LEMMA LaterDay ==
    ASSUME TypeOK, NEW i \in DOMAIN rows, NEW j \in DOMAIN rows,
           Before(i, j), rows[i].precision = rows[j].precision
    PROVE  Day(rows[i]) <= Day(rows[j])
<1>1. /\ rows[i].precision \in Nat /\ rows[j].precision \in Nat
      /\ rows[i].when \in Nat /\ rows[j].when \in Nat
  BY RowFacts DEF Row, ZONED, TIMED, DATED
<1>2. /\ Stamp(rows[i]) = IF rows[i].precision = DATED THEN Day(rows[i]) ELSE rows[i].when
      /\ Stamp(rows[j]) = IF rows[i].precision = DATED THEN Day(rows[j]) ELSE rows[j].when
  BY DEF Stamp
<1>3. Day(rows[i]) \in Nat /\ Day(rows[j]) \in Nat
  BY RowFacts
<1>4. Stamp(rows[i]) <= Stamp(rows[j])
  BY <1>1, <1>2, <1>3 DEF Before
<1>5. rows[i].when <= rows[j].when => Day(rows[i]) <= Day(rows[j])
  BY <1>1 DEF Day
<1>6. QED
  BY <1>2, <1>4, <1>5

LEMMA LastRow ==
    ASSUME LedgerInv, BooksInv, booked # <<>>
    PROVE  /\ Sale \in DOMAIN rows /\ Sale \in Booked
           /\ Earlier(Len(booked)) = Booked \ {Sale}
           /\ Booked \subseteq DOMAIN rows
           /\ \A i \in Earlier(Len(booked)) : Before(i, Sale)
<1>1. /\ booked \in Seq(DOMAIN rows) /\ Len(booked) \in 1 .. Len(booked)
      /\ Len(booked) \in Nat /\ DOMAIN booked = 1 .. Len(booked)
  BY EmptySeq, LenProperties DEF LedgerInv, TypeOK
<1>2. Sale \in DOMAIN rows /\ Sale \in Booked
  BY <1>1, ElementOfSeq DEF Sale, Booked
<1>3. Booked \subseteq DOMAIN rows
  BY <1>1, ElementOfSeq DEF Booked
<1>4. \A o \in 1 .. (Len(booked) - 1) : Before(booked[o], Sale)
  BY <1>1 DEF BooksInv, InOrder, Sale
<1>5. ~Before(Sale, Sale)
  <2>1. Sale \in Nat /\ rows[Sale].precision \in Nat /\ Stamp(rows[Sale]) \in Nat
    BY <1>2, RowFacts DEF Row, Stamp, ZONED, TIMED, DATED, LedgerInv
  <2>2. QED
    BY <2>1 DEF Before
<1>6. \A i \in Earlier(Len(booked)) : Before(i, Sale)
  BY <1>4 DEF Earlier
<1>7. Earlier(Len(booked)) = Booked \ {Sale}
  <2>1. Earlier(Len(booked)) \subseteq Booked
    BY <1>1 DEF Earlier, Booked
  <2>2. Sale \notin Earlier(Len(booked))
    BY <1>5, <1>6
  <2>3. ASSUME NEW i \in Booked, i # Sale PROVE i \in Earlier(Len(booked))
    <3>1. PICK o \in DOMAIN booked : i = booked[o]
      BY DEF Booked
    <3>2. o # Len(booked)
      BY <2>3, <3>1 DEF Sale
    <3>3. QED
      BY <1>1, <3>1, <3>2 DEF Earlier
  <2>4. QED
    BY <2>1, <2>2, <2>3
<1>8. QED
  BY <1>2, <1>3, <1>6, <1>7

\* What was opened that the last row may close is what the closable lots were opened by.
LEMMA OpenedByLots ==
    ASSUME LedgerInv, BooksInv, booked # <<>>, Closes(rows[Sale])
    PROVE  Opened(Len(booked)) = {lots[k].row : k \in Closable}
<1>1. /\ TypeOK /\ Earlier(Len(booked)) = Booked \ {Sale} /\ Booked \subseteq DOMAIN rows
  BY LastRow DEF LedgerInv
<1>2. rows[booked[Len(booked)]] = rows[Sale]
  BY DEF Sale
<1>3. /\ \A k \in DOMAIN lots : /\ ~Closes(rows[lots[k].row])
                                /\ lots[k].direction = "LONG" <=> OpensLong(rows[lots[k].row])
                                /\ lots[k].direction \in {"LONG", "SHORT"}
                                /\ lots[k].row \in Booked
      /\ \A i \in Booked : ~Closes(rows[i]) => \E k \in DOMAIN lots : lots[k].row = i
  BY <1>1, LotFacts DEF BooksInv, LotsOfRows, LedgerInv, OrderInv
<1>4. \A k \in DOMAIN lots : lots[k].row # Sale
  BY <1>3
<1>5. \A i : OpensLong(rows[i]) => ~OpensShort(rows[i])
  BY DEF OpensLong, OpensShort, IsShortOpen
<1>6. ASSUME NEW i \in Opened(Len(booked))
      PROVE  \E k \in Closable : lots[k].row = i
  <2>1. /\ i \in Booked
        /\ IF ~IsShortClose(rows[Sale]) THEN OpensLong(rows[i]) ELSE OpensShort(rows[i])
        /\ enforce_t1 /\ ~IsShortClose(rows[Sale]) => Day(rows[i]) < Day(rows[Sale])
    BY <1>1, <1>2, <1>6 DEF Opened
  <2>2. ~Closes(rows[i])
    BY <2>1 DEF Closes
  <2>3. PICK k \in DOMAIN lots : lots[k].row = i
    BY <1>3, <2>1, <2>2
  <2>4. lots[k].direction = IF IsShortClose(rows[Sale]) THEN "SHORT" ELSE "LONG"
    BY <1>3, <1>5, <2>1, <2>3
  <2>5. k \in Closable
    BY <2>1, <2>3, <2>4 DEF Closable, Settled
  <2>6. QED
    BY <2>3, <2>5
<1>7. ASSUME NEW k \in Closable
      PROVE  lots[k].row \in Opened(Len(booked))
  <2>1. /\ k \in DOMAIN lots
        /\ lots[k].direction = IF IsShortClose(rows[Sale]) THEN "SHORT" ELSE "LONG"
        /\ enforce_t1 /\ ~IsShortClose(rows[Sale]) => Day(rows[lots[k].row]) < Day(rows[Sale])
    BY DEF Closable, Settled
  <2>2. lots[k].row \in Earlier(Len(booked))
    BY <1>1, <1>3, <1>4, <2>1
  <2>3. IF ~IsShortClose(rows[Sale]) THEN OpensLong(rows[lots[k].row]) ELSE OpensShort(rows[lots[k].row])
    BY <1>3, <2>1 DEF Closes
  <2>4. QED
    BY <1>2, <2>1, <2>2, <2>3 DEF Opened
<1>8. QED
  BY <1>6, <1>7

\* Every match of a closable lot is the last row's or an earlier one's of its kind,
\* and every match of those is of a closable lot.
LEMMA MatchesOfClosable ==
    ASSUME LedgerInv, BooksInv, booked # <<>>, Closes(rows[Sale]), enforce_t1 => Precise
    PROVE  \A m \in matches : m.lot \in Closable <=>
                                  (m.sale = Sale \/ m.sale \in Closed(Len(booked)))
<1> SUFFICES ASSUME NEW m \in matches
             PROVE  m.lot \in Closable <=> (m.sale = Sale \/ m.sale \in Closed(Len(booked)))
  OBVIOUS
<1>1. /\ TypeOK /\ Earlier(Len(booked)) = Booked \ {Sale} /\ Booked \subseteq DOMAIN rows
      /\ Sale \in Booked
      /\ \A i \in Earlier(Len(booked)) : Before(i, Sale)
  BY LastRow DEF LedgerInv
<1>2. rows[booked[Len(booked)]] = rows[Sale]
  BY DEF Sale
<1>3. /\ m.lot \in DOMAIN lots /\ m.sale \in Booked /\ Closes(rows[m.sale])
      /\ lots[m.lot].row \in Booked /\ lots[m.lot].direction \in {"LONG", "SHORT"}
  BY <1>1, LotFacts DEF BooksInv, MatchesOfSales, TypeOK, LedgerInv, OrderInv
<1>4. /\ lots[m.lot].direction = "LONG" <=> rows[m.sale].side = "SELL"
      /\ enforce_t1 /\ lots[m.lot].direction = "LONG" => Day(rows[lots[m.lot].row]) < Day(rows[m.sale])
  BY DEF LedgerInv, SettledBeforeSold
<1>5. \A i \in Booked : Closes(rows[i]) => (IsShortClose(rows[i]) <=> rows[i].side # "SELL")
  <2> SUFFICES ASSUME NEW i \in Booked, Closes(rows[i])
               PROVE  IsShortClose(rows[i]) <=> rows[i].side # "SELL"
    OBVIOUS
  <2>1. rows[i].side \in {"BUY", "SELL"}
    BY <1>1, RowFacts DEF Row, Side
  <2>2. QED
    BY <2>1 DEF Closes, OpensLong, IsShortClose
<1>6. lots[m.lot].direction = IF IsShortClose(rows[m.sale]) THEN "SHORT" ELSE "LONG"
  BY <1>3, <1>4, <1>5
<1>7. CASE m.sale = Sale
  BY <1>3, <1>4, <1>6, <1>7 DEF Closable, Settled
<1>8. CASE m.sale # Sale
  <2>1. m.sale \in Earlier(Len(booked)) /\ Before(m.sale, Sale)
    BY <1>1, <1>3, <1>8
  <2>2. m.sale \in Closed(Len(booked)) <=>
            (IsShortClose(rows[m.sale]) <=> IsShortClose(rows[Sale]))
    BY <1>2, <1>3, <2>1 DEF Closed
  <2>3. enforce_t1 => Day(rows[m.sale]) <= Day(rows[Sale])
    <3>1. m.sale \in Kept /\ Sale \in Kept
      BY <1>1, <1>3 DEF BooksInv, InOrder
    <3>2. enforce_t1 => rows[m.sale].precision = rows[Sale].precision
      BY <3>1 DEF Precise
    <3>3. m.sale \in DOMAIN rows /\ Sale \in DOMAIN rows
      BY <1>1, <1>3
    <3>4. QED
      BY <1>1, <2>1, <3>2, <3>3, LaterDay
  <2>4. /\ Day(rows[lots[m.lot].row]) \in Nat /\ Day(rows[m.sale]) \in Nat
        /\ Day(rows[Sale]) \in Nat
    BY <1>1, <1>3, RowFacts
  <2>5. enforce_t1 /\ lots[m.lot].direction = "LONG" => Settled(m.lot, rows[Sale])
    BY <1>4, <2>3, <2>4 DEF Settled
  <2>6. m.lot \in Closable <=> (IsShortClose(rows[m.sale]) <=> IsShortClose(rows[Sale]))
    BY <1>3, <1>6, <2>5 DEF Closable
  <2>7. QED
    BY <1>8, <2>2, <2>6
<1>9. QED
  BY <1>7, <1>8

LEMMA QuantityByParts ==
    ASSUME NEW S, IsFiniteSet(S), \A m \in S : m.quantity \in Nat,
           NEW K, IsFiniteSet(K), NEW of, \A m \in S : of[m] \in K
    PROVE  Quantity(S) = Total([k \in K |-> Quantity({m \in S : of[m] = k})], K)
<1> DEFINE f == [m \in S |-> m.quantity]
           Part(k) == {m \in S : of[m] = k}
           parts == [k \in K |-> Total(f, Part(k))]
           sums == [k \in K |-> Quantity(Part(k))]
<1>1. Quantity(S) = Total(f, S) /\ \A m \in S : f[m] \in Nat /\ f[m] = m.quantity
  BY QuantityIsTotal
<1>2. ASSUME NEW k \in K PROVE Quantity(Part(k)) = Total(f, Part(k))
  <2> DEFINE P == Part(k)
             h == [m \in P |-> m.quantity]
  <2>1. IsFiniteSet(P) /\ (\A m \in P : m.quantity \in Nat)
    BY FS_Subset
  <2>2. \A m \in P : h[m] \in Nat /\ h[m] = f[m]
    BY <2>1
  <2>3. Quantity(P) = Total(h, P)
    <3> HIDE DEF P
    <3>1. QED
      BY <2>1, QuantityIsTotal
  <2> HIDE DEF P, h
  <2>4. Total(h, P) = Total(f, P)
    BY <2>1, <2>2, TotalEqual
  <2>5. QED
    BY <2>3, <2>4 DEF P
<1>3. sums = parts
  BY <1>2
<1>4. Total(f, S) = Total(parts, K)
  <2> HIDE DEF f
  <2>1. QED
    BY <1>1, TotalByParts
<1>5. QED
  BY <1>1, <1>3, <1>4

LEMMA QuantityOfUnion ==
    ASSUME NEW A, IsFiniteSet(A), NEW B, IsFiniteSet(B), A \cap B = {},
           \A m \in A \cup B : m.quantity \in Nat
    PROVE  Quantity(A \cup B) = Quantity(A) + Quantity(B)
<1> DEFINE U == A \cup B
           f == [m \in U |-> m.quantity]
           a == [m \in A |-> m.quantity]
           b == [m \in B |-> m.quantity]
<1>1. IsFiniteSet(U) /\ \A m \in U : f[m] \in Nat
  BY FS_Union
<1>2. (\A m \in A : a[m] \in Nat /\ a[m] = f[m]) /\ \A m \in B : b[m] \in Nat /\ b[m] = f[m]
  OBVIOUS
<1>3. Quantity(U) = Total(f, U)
  <2>1. \A m \in U : m.quantity \in Nat
    OBVIOUS
  <2> HIDE DEF U
  <2>2. QED
    BY <1>1, <2>1, QuantityIsTotal
<1>4. Quantity(A) = Total(a, A) /\ Quantity(B) = Total(b, B)
  BY QuantityIsTotal
<1> HIDE DEF f, a, b
<1>5. Total(a, A) = Total(f, A) /\ Total(b, B) = Total(f, B)
  BY <1>2, TotalEqual
<1>6. Total(f, A \cup B) = Total(f, A) + Total(f, B)
  BY <1>1, TotalOfUnion
<1>7. QED
  BY <1>3, <1>4, <1>5, <1>6

\* What was opened for a row to close is what earlier rows closed of it, what the row
\* itself has got, and what the lots still hold.
LEMMA HeldIsKept ==
    ASSUME LedgerInv, BooksInv, booked # <<>>, Closes(rows[Sale]), enforce_t1 => Precise
    PROVE  /\ Total([k \in Closable |-> lots[k].remaining], Closable) \in Nat
           /\ Total([i \in Closed(Len(booked)) |-> Matched(i)], Closed(Len(booked))) \in Nat
           /\ Total([i \in Opened(Len(booked)) |-> rows[i].quantity], Opened(Len(booked)))
                = Total([k \in Closable |-> lots[k].remaining], Closable)
                  + (Total([i \in Closed(Len(booked)) |-> Matched(i)], Closed(Len(booked)))
                     + Matched(Sale))
<1> DEFINE C == Closable
           D == Closed(Len(booked))
           O == Opened(Len(booked))
           remaining == [k \in C |-> lots[k].remaining]
           given == [k \in C |-> Quantity({m \in matches : m.lot = k})]
           bought == [k \in C |-> rows[lots[k].row].quantity]
           name == [k \in C |-> lots[k].row]
           asked == [i \in O |-> rows[i].quantity]
           got == [i \in D |-> Matched(i)]
<1>1. /\ TypeOK /\ IsFiniteSet(matches) /\ Booked \subseteq DOMAIN rows
      /\ Earlier(Len(booked)) = Booked \ {Sale}
  BY LastRow DEF LedgerInv, BooksInv
<1>2. IsFiniteSet(C) /\ C \subseteq DOMAIN lots
  <2>1. DOMAIN lots = 1 .. Len(lots) /\ Len(lots) \in Nat
    BY <1>1, LotFacts
  <2>2. IsFiniteSet(1 .. Len(lots))
    BY <2>1, FS_Interval
  <2>3. C \subseteq DOMAIN lots
    BY DEF Closable
  <2>4. QED
    BY <2>1, <2>2, <2>3, FS_Subset
<1>3. IsFiniteSet(D) /\ D \subseteq Booked /\ Sale \notin D
  <2>1. D \subseteq Booked /\ Sale \notin D /\ D \subseteq DOMAIN rows
    BY <1>1 DEF Closed
  <2>2. DOMAIN rows = 1 .. Len(rows) /\ Len(rows) \in Nat
    BY <1>1, LenProperties DEF TypeOK
  <2>3. IsFiniteSet(1 .. Len(rows))
    BY <2>2, FS_Interval
  <2>4. QED
    BY <2>1, <2>2, <2>3, FS_Subset
<1>4. \A k \in C : /\ remaining[k] \in Nat /\ given[k] \in Nat
                   /\ bought[k] = remaining[k] + given[k]
  <2> SUFFICES ASSUME NEW k \in C
               PROVE  /\ lots[k].remaining \in Nat /\ Quantity({m \in matches : m.lot = k}) \in Nat
                      /\ rows[lots[k].row].quantity
                             = lots[k].remaining + Quantity({m \in matches : m.lot = k})
    OBVIOUS
  <2>1. lots[k].remaining \in Nat
    BY <1>1, <1>2, LotFacts
  <2>2. {m \in matches : m.lot = k} \in SUBSET matches
    OBVIOUS
  <2>3. Quantity({m \in matches : m.lot = k}) \in Nat
    BY <1>1, <2>2, MatchFacts
  <2>4. QED
    BY <1>2, <2>1, <2>3 DEF BooksInv, LotsConserved
<1>5. /\ Total(bought, C) = Total(remaining, C) + Total(given, C)
      /\ Total(remaining, C) \in Nat
  <2> HIDE DEF C, remaining, given, bought
  <2>1. QED
    BY <1>2, <1>4, TotalOfSums, TotalType
<1>6. Total(asked, O) = Total(bought, C)
  <2>1. O = {name[k] : k \in C}
    BY OpenedByLots
  <2>2. \A k \in C : name[k] \in O
    BY <2>1
  <2>3. bought = [k \in C |-> asked[name[k]]]
    BY <2>2
  <2>4. \A k \in C : asked[name[k]] \in Nat
    <3>1. \A k \in C : name[k] \in DOMAIN rows
      BY <1>1, <1>2, LotFacts
    <3>2. \A k \in C : rows[name[k]].quantity \in Nat
      BY <1>1, <3>1, RowFacts
    <3>3. \A k \in C : asked[name[k]] = rows[name[k]].quantity
      BY <2>2
    <3>4. QED
      BY <3>2, <3>3
  <2>5. \A k, l \in C : name[k] = name[l] => k = l
    BY <1>2 DEF BooksInv, LotsOfRows
  <2> HIDE DEF C, O, name, asked, bought
  <2>6. Total([k \in C |-> asked[name[k]]], C) = Total(asked, {name[k] : k \in C})
    BY <1>2, <2>4, <2>5, TotalRenamed
  <2>7. QED
    BY <2>1, <2>3, <2>6
<1> DEFINE OfLots == {m \in matches : m.lot \in C}
           OfEarlier == {m \in matches : m.sale \in D}
           OfSale == {m \in matches : m.sale = Sale}
<1>7. Total(given, C) = Quantity(OfLots)
  <2> DEFINE of == [m \in OfLots |-> m.lot]
  <2>1. \A k \in C : {m \in OfLots : of[m] = k} = {m \in matches : m.lot = k}
    OBVIOUS
  <2>2. given = [k \in C |-> Quantity({m \in OfLots : of[m] = k})]
    BY <2>1
  <2>3. /\ IsFiniteSet(OfLots) /\ \A m \in OfLots : m.quantity \in Nat
        /\ \A m \in OfLots : of[m] \in C
    BY <1>1, MatchFacts
  <2> HIDE DEF OfLots, of, C, given
  <2>4. Quantity(OfLots) = Total([k \in C |-> Quantity({m \in OfLots : of[m] = k})], C)
    BY <1>2, <2>3, QuantityByParts
  <2>5. QED
    BY <2>2, <2>4
<1>8. Total(got, D) = Quantity(OfEarlier)
  <2> DEFINE of == [m \in OfEarlier |-> m.sale]
  <2>1. \A i \in D : {m \in OfEarlier : of[m] = i} = {m \in matches : m.sale = i}
    OBVIOUS
  <2>2. got = [i \in D |-> Quantity({m \in OfEarlier : of[m] = i})]
    BY <2>1 DEF Matched
  <2>3. /\ IsFiniteSet(OfEarlier) /\ \A m \in OfEarlier : m.quantity \in Nat
        /\ \A m \in OfEarlier : of[m] \in D
    BY <1>1, MatchFacts
  <2> HIDE DEF OfEarlier, of, D, got
  <2>4. Quantity(OfEarlier) = Total([k \in D |-> Quantity({m \in OfEarlier : of[m] = k})], D)
    BY <1>3, <2>3, QuantityByParts
  <2>5. QED
    BY <2>2, <2>4
<1>9. Quantity(OfLots) = Quantity(OfEarlier) + Matched(Sale)
  <2>1. OfLots = OfEarlier \cup OfSale /\ OfEarlier \cap OfSale = {}
    BY <1>3, MatchesOfClosable
  <2>2. /\ IsFiniteSet(OfEarlier) /\ IsFiniteSet(OfSale)
        /\ \A m \in OfEarlier \cup OfSale : m.quantity \in Nat
    BY <1>1, MatchFacts
  <2>3. Quantity(OfSale) = Matched(Sale)
    BY DEF Matched
  <2> HIDE DEF OfLots, OfEarlier, OfSale
  <2>4. Quantity(OfEarlier \cup OfSale) = Quantity(OfEarlier) + Quantity(OfSale)
    BY <2>1, <2>2, QuantityOfUnion
  <2>5. QED
    BY <2>1, <2>3, <2>4
<1>10. Total(got, D) \in Nat
  <2>1. OfEarlier \in SUBSET matches
    OBVIOUS
  <2>2. Quantity(OfEarlier) \in Nat
    BY <1>1, <2>1, MatchFacts
  <2>3. QED
    BY <1>8, <2>2
<1>11. QED
  <2> HIDE DEF OfLots, OfEarlier, OfSale
  <2>1. Total(asked, O) = Total(remaining, C) + (Total(got, D) + Matched(Sale))
    BY <1>5, <1>6, <1>7, <1>8, <1>9
  <2>2. QED
    BY <1>5, <1>10, <2>1

\* What the last row closed is the reference's answer, its sums written as totals.
LastInTotals ==
    booked # <<>> /\ Sale \in Done /\ Closes(rows[Sale]) /\ (enforce_t1 => Precise) =>
        Matched(Sale) =
            Smaller(rows[Sale].quantity,
                    Total([i \in Opened(Len(booked)) |-> rows[i].quantity], Opened(Len(booked)))
                    - Total([i \in Closed(Len(booked)) |-> Matched(i)], Closed(Len(booked))))

LEMMA LastCloses == LedgerInv /\ BooksInv => LastInTotals
<1> SUFFICES ASSUME LedgerInv, BooksInv, booked # <<>>, Sale \in Done, Closes(rows[Sale]),
                    enforce_t1 => Precise
             PROVE  Matched(Sale) = Smaller(rows[Sale].quantity,
                                   Total([i \in Opened(Len(booked)) |-> rows[i].quantity],
                                         Opened(Len(booked)))
                                   - Total([i \in Closed(Len(booked)) |-> Matched(i)],
                                           Closed(Len(booked))))
  BY DEF LastInTotals
<1> DEFINE asked == Total([i \in Opened(Len(booked)) |-> rows[i].quantity], Opened(Len(booked)))
           got == Total([i \in Closed(Len(booked)) |-> Matched(i)], Closed(Len(booked)))
           remaining == [k \in Closable |-> lots[k].remaining]
           kept == Total(remaining, Closable)
<1>1. kept \in Nat /\ got \in Nat /\ asked = kept + (got + Matched(Sale))
  BY HeldIsKept
<1>2. Idle
  BY DEF Done, Sale
<1>3. /\ Matched(Sale) <= rows[Sale].quantity
      /\ Matched(Sale) < rows[Sale].quantity => Sellable(rows[Sale]) = {}
  BY <1>2 DEF BooksInv, Finished
<1>4. TypeOK /\ Sale \in DOMAIN rows /\ IsFiniteSet(matches)
  BY LastRow DEF LedgerInv, BooksInv
<1>5. Matched(Sale) \in Nat /\ rows[Sale].quantity \in Nat
  BY <1>4, RowFacts, MatchedType
<1>6. Sellable(rows[Sale]) = {} => kept = 0
  <2> SUFFICES ASSUME Sellable(rows[Sale]) = {} PROVE kept = 0
    OBVIOUS
  <2>1. ASSUME NEW k \in Closable PROVE remaining[k] = 0
    <3>1. k \in DOMAIN lots /\ lots[k].remaining \in Nat
      BY <1>4, LotFacts DEF Closable
    <3>2. k \notin Sellable(rows[Sale])
      OBVIOUS
    <3>3. ~(lots[k].remaining > 0)
      BY <3>1, <3>2 DEF Closable, Sellable, Open
    <3>4. QED
      BY <3>1, <3>3
  <2>2. IsFiniteSet(Closable)
    <3>1. DOMAIN lots = 1 .. Len(lots) /\ Len(lots) \in Nat
      BY <1>4, LotFacts
    <3>2. IsFiniteSet(1 .. Len(lots)) /\ Closable \subseteq 1 .. Len(lots)
      BY <3>1, FS_Interval DEF Closable
    <3>3. QED
      BY <3>2, FS_Subset
  <2> HIDE DEF remaining
  <2>3. QED
    BY <2>1, <2>2, TotalOfZeros
<1> HIDE DEF asked, got, kept
<1>7. Matched(Sale) = Smaller(rows[Sale].quantity, asked - got)
  BY <1>1, <1>3, <1>5, <1>6 DEF Smaller
<1>8. QED
  BY <1>7 DEF asked, got

\* The reference, its sums written as totals.
ClosesInTotals ==
    \A p \in DOMAIN booked :
        booked[p] \in Done /\ Closes(rows[booked[p]]) /\ (enforce_t1 => Precise) =>
            Matched(booked[p]) =
                Smaller(rows[booked[p]].quantity,
                        Total([i \in Opened(p) |-> rows[i].quantity], Opened(p))
                        - Total([i \in Closed(p) |-> Matched(i)], Closed(p)))

LEMMA ClosesInit == Init => ClosesInTotals
<1> SUFFICES ASSUME Init PROVE ClosesInTotals
  OBVIOUS
<1>1. DOMAIN booked = {}
  BY DEF Init
<1>2. QED
  BY <1>1 DEF ClosesInTotals

\* Rows booked before the last one are done with.
EarlierDone ==
    \A p \in DOMAIN booked : p # Len(booked) =>
        booked[p] \in Done /\ booked[p] # Sale /\ \A i \in Earlier(p) : i # Sale

LEMMA EarlierAreDone == LedgerInv /\ BooksInv => EarlierDone
<1> SUFFICES ASSUME LedgerInv, BooksInv, NEW p \in DOMAIN booked, p # Len(booked)
             PROVE  booked[p] \in Done /\ booked[p] # Sale /\ \A i \in Earlier(p) : i # Sale
  BY DEF EarlierDone
<1>1. /\ booked \in Seq(DOMAIN rows) /\ Len(booked) \in Nat /\ DOMAIN booked = 1 .. Len(booked)
  BY LenProperties DEF LedgerInv, TypeOK
<1>2. booked # <<>>
  BY <1>1, EmptySeq
<1>3. p \in 1 .. (Len(booked) - 1)
  BY <1>1
<1>4. \A o \in 1 .. (Len(booked) - 1) : booked[o] # Sale
  BY <1>2, LastRow DEF Earlier
<1>5. booked[p] \in Booked
  BY DEF Booked
<1>6. booked[p] \in Done
  BY <1>3, <1>4, <1>5 DEF Done, Sale
<1>7. \A i \in Earlier(p) : i # Sale
  BY <1>1, <1>3, <1>4 DEF Earlier
<1>8. QED
  BY <1>3, <1>4, <1>6, <1>7

LEMMA NextClose ==
    LedgerInv' /\ BooksInv' => LastInTotals' /\ EarlierDone'
  BY LastCloses, EarlierAreDone, PTL

\* Earlier rows keep what they closed, and the last one closed what the reference says.
LEMMA ClosesStay ==
    ASSUME ClosesInTotals, LastInTotals', EarlierDone',
           rows' = rows, allow_shorts' = allow_shorts, enforce_t1' = enforce_t1,
           \A p \in DOMAIN booked' : p # Len(booked') =>
               /\ p \in DOMAIN booked /\ booked[p] \in Done
               /\ booked'[p] = booked[p] /\ \A o \in 1 .. (p - 1) : booked'[o] = booked[o],
           \A j : j # Sale' => Matched(j)' = Matched(j)
    PROVE  ClosesInTotals'
<1> SUFFICES ASSUME NEW p \in DOMAIN booked', (booked[p] \in Done)', Closes(rows[booked[p]])',
                    (enforce_t1 => Precise)'
             PROVE  (Matched(booked[p]) =
                        Smaller(rows[booked[p]].quantity,
                                Total([i \in Opened(p) |-> rows[i].quantity], Opened(p))
                                - Total([i \in Closed(p) |-> Matched(i)], Closed(p))))'
  BY DEF ClosesInTotals
<1>1. CASE p = Len(booked')
  <2>1. booked' # <<>>
    <3>1. booked' = <<>> => DOMAIN booked' = {}
      OBVIOUS
    <3>2. QED
      BY <3>1
  <2>2. booked'[p] = Sale'
    BY <1>1 DEF Sale
  <2>3. QED
    BY <1>1, <2>1, <2>2 DEF LastInTotals
<1>2. CASE p # Len(booked')
  <2>1. PICK i : i = booked[p]
    OBVIOUS
  <2>2. /\ p \in DOMAIN booked /\ i \in Done /\ booked'[p] = i
        /\ \A o \in 1 .. (p - 1) : booked'[o] = booked[o]
    BY <1>2, <2>1
  <2>3. i # Sale' /\ \A j \in Earlier(p)' : j # Sale'
    BY <1>2, <2>2 DEF EarlierDone
  <2>4. Earlier(p)' = Earlier(p)
    BY <2>2 DEF Earlier
  <2>5. Closes(rows[i]) /\ (enforce_t1 => Precise)
    BY <2>2 DEF Closes, OpensLong, OpensShort, IsShortOpen, IsShortClose, Precise, Kept
  <2>6. Matched(i)' = Matched(i) /\ Matched(booked[p])' = Matched(i)'
    BY <2>2, <2>3
  <2>7. Opened(p)' = Opened(p) /\ Closed(p)' = Closed(p)
    BY <2>1, <2>2, <2>4 DEF Opened, Closed, Closes, OpensLong, OpensShort, IsShortOpen, IsShortClose, Day
  <2>8. \A j \in Closed(p) : Matched(j)' = Matched(j)
    BY <2>3, <2>4 DEF Closed
  <2>9. [j \in Closed(p) |-> Matched(j)'] = [j \in Closed(p) |-> Matched(j)]
    BY <2>8
  <2>10. Matched(i) = Smaller(rows[i].quantity,
                              Total([j \in Opened(p) |-> rows[j].quantity], Opened(p))
                              - Total([j \in Closed(p) |-> Matched(j)], Closed(p)))
    BY <2>1, <2>2, <2>5 DEF ClosesInTotals
  <2>11. QED
    BY <2>2, <2>6, <2>7, <2>9, <2>10
<1>3. QED
  BY <1>1, <1>2

LEMMA ClosesStep ==
    ASSUME LedgerInv, BooksInv, ClosesInTotals, LedgerInv', BooksInv', [Next]_vars
    PROVE  ClosesInTotals'
<1>1. LastInTotals' /\ EarlierDone' /\ EarlierDone
  BY NextClose, EarlierAreDone
<1>2. /\ booked \in Seq(DOMAIN rows) /\ Len(booked) \in Nat /\ DOMAIN booked = 1 .. Len(booked)
  BY LenProperties DEF LedgerInv, TypeOK
<1>3. ASSUME NEW i \in DOMAIN rows, Idle, IsNext(i), booked' = Append(booked, i),
             rows' = rows, allow_shorts' = allow_shorts, enforce_t1' = enforce_t1,
             matches' = matches
      PROVE  ClosesInTotals'
  <2>1. /\ Len(booked') = Len(booked) + 1 /\ DOMAIN booked' = 1 .. (Len(booked) + 1)
        /\ \A k \in DOMAIN booked : booked'[k] = booked[k]
    BY <1>2, <1>3, AppendProperties, LenProperties
  <2>2. \A j : Matched(j)' = Matched(j)
    BY <1>3, SameMatches
  <2>3. ASSUME NEW p \in DOMAIN booked', p # Len(booked')
        PROVE  /\ p \in DOMAIN booked /\ booked[p] \in Done
               /\ booked'[p] = booked[p] /\ \A o \in 1 .. (p - 1) : booked'[o] = booked[o]
    <3>1. p \in DOMAIN booked
      BY <1>2, <2>1, <2>3
    <3>2. booked[p] \in Done
      BY <1>3, <3>1 DEF Done, Booked
    <3>3. \A o \in 1 .. (p - 1) : o \in DOMAIN booked
      BY <1>2, <3>1
    <3>4. QED
      BY <2>1, <3>1, <3>2, <3>3
  <2>4. QED
    BY <1>1, <1>3, <2>2, <2>3, ClosesStay
<1>4. ASSUME booked' = booked, rows' = rows, allow_shorts' = allow_shorts,
             enforce_t1' = enforce_t1, \A j : j # Sale => Matched(j)' = Matched(j)
      PROVE  ClosesInTotals'
  <2>1. Sale' = Sale
    BY <1>4 DEF Sale
  <2>2. \A p \in DOMAIN booked' : p # Len(booked') =>
            /\ p \in DOMAIN booked /\ booked[p] \in Done
            /\ booked'[p] = booked[p] /\ \A o \in 1 .. (p - 1) : booked'[o] = booked[o]
    BY <1>1, <1>4 DEF EarlierDone
  <2>3. QED
    BY <1>1, <1>4, <2>1, <2>2, ClosesStay
<1>5. ASSUME NEW i \in DOMAIN rows, OpenLot(i) \/ Refuse(i) \/ StartSale(i)
      PROVE  ClosesInTotals'
  BY <1>3, <1>5 DEF OpenLot, Refuse, StartSale
<1>6. CASE MatchLot
  <2>1. /\ booked' = booked /\ rows' = rows /\ allow_shorts' = allow_shorts
        /\ enforce_t1' = enforce_t1
    BY <1>6 DEF MatchLot
  <2>2. \A j : j # Sale => Matched(j)' = Matched(j)
    BY <1>6, MatchAdds
  <2>3. QED
    BY <1>4, <2>1, <2>2
<1>7. CASE EndSale \/ UNCHANGED vars
  <2>1. /\ booked' = booked /\ rows' = rows /\ allow_shorts' = allow_shorts
        /\ enforce_t1' = enforce_t1 /\ matches' = matches
    BY <1>7 DEF EndSale, vars
  <2>2. QED
    BY <1>4, <2>1, SameMatches
<1>8. QED
  BY <1>5, <1>6, <1>7 DEF Next

\* What the invariant says of the books.
LEMMA BooksBalance ==
    ASSUME LedgerInv, BooksInv, ClosesInTotals
    PROVE  LedgerBalances
<1>1. TypeOK /\ IsFiniteSet(matches) /\ QuantitiesAccounted
  BY DEF LedgerInv, BooksInv, QuantitiesAccounted
<1>2. IsFiniteSet(DOMAIN rows)
  <2>1. DOMAIN rows = 1 .. Len(rows) /\ Len(rows) \in Nat
    BY <1>1, LenProperties DEF TypeOK
  <2>2. QED
    BY <2>1, FS_Interval
<1>3. Booked \subseteq DOMAIN rows
  BY DEF BooksInv, InOrder, Kept
<1>4. ASSUME NEW p \in DOMAIN booked
      PROVE  /\ AskedFor(Opened(p)) = Total([i \in Opened(p) |-> rows[i].quantity], Opened(p))
             /\ Got(Closed(p)) = Total([i \in Closed(p) |-> Matched(i)], Closed(p))
  <2>1. Earlier(p) \subseteq DOMAIN rows
    <3>1. \A o \in 1 .. (p - 1) : o \in DOMAIN booked
      BY LenProperties DEF LedgerInv, TypeOK
    <3>2. QED
      BY <1>3, <3>1 DEF Earlier, Booked
  <2>2. Opened(p) \subseteq DOMAIN rows /\ Closed(p) \subseteq DOMAIN rows
    BY <2>1 DEF Opened, Closed
  <2>3. IsFiniteSet(Opened(p)) /\ IsFiniteSet(Closed(p))
    BY <1>2, <2>2, FS_Subset
  <2>4. \A i \in Opened(p) : rows[i].quantity \in Nat
    BY <1>1, <2>2, RowFacts
  <2>5. \A i \in Closed(p) : Matched(i) \in Nat
    BY <1>1, MatchedType
  <2>6. QED
    BY <2>3, <2>4, <2>5, AskedForIsTotal, GotIsTotal
<1>5. ClosesWhatIsHeld
  BY <1>4 DEF ClosesInTotals, ClosesWhatIsHeld
<1>6. QED
  BY <1>1, <1>5 DEF LedgerBalances

\* The books of any export balance, from the first row to the last: no share is made or
\* lost, no row drops out in silence, and every row closes what the reference says it may.
THEOREM LedgerBalanced == Spec => []LedgerBalances
<1>1. Init => BooksInv /\ ClosesInTotals
  BY BooksInit, ClosesInit
<1>2. LedgerInv /\ LedgerInv' /\ (BooksInv /\ ClosesInTotals) /\ [Next]_vars
          => (BooksInv /\ ClosesInTotals)'
  <2> SUFFICES ASSUME LedgerInv, LedgerInv', BooksInv, ClosesInTotals, [Next]_vars
               PROVE  BooksInv' /\ ClosesInTotals'
    OBVIOUS
  <2>1. BooksInv'
    <3>1. ASSUME NEW i \in DOMAIN rows, OpenLot(i) PROVE BooksInv'
      BY <3>1, BooksOpen
    <3>2. ASSUME NEW i \in DOMAIN rows, Refuse(i) PROVE BooksInv'
      BY <3>2, BooksRefuse
    <3>3. ASSUME NEW i \in DOMAIN rows, StartSale(i) PROVE BooksInv'
      BY <3>3, BooksStart
    <3>4. CASE MatchLot
      BY <3>4, BooksMatch
    <3>5. CASE EndSale
      BY <3>5, BooksEnd
    <3>6. CASE UNCHANGED vars
      BY <3>6, BooksStutter
    <3>7. QED
      BY <3>1, <3>2, <3>3, <3>4, <3>5, <3>6 DEF Next
  <2>2. QED
    BY <2>1, ClosesStep
<1>3. LedgerInv /\ BooksInv /\ ClosesInTotals => LedgerBalances
  BY BooksBalance
<1>4. QED
  BY <1>1, <1>2, <1>3, LedgerInvariant, PTL DEF Spec
================================================================================
