----------------------------- MODULE MCServices -----------------------------
(***************************************************************************)
(* The services on small instances.                                        *)
(***************************************************************************)
EXTENDS Services, TLC

\* Two models of one provider; a configured list ends in the offline route or has it
\* in its middle.
MCTarget     == {"a1", "a2"}
MCProviderOf == ("a1" :> "a") @@ ("a2" :> "a")
MCRoutes     == {<<"a1">>, <<"a2", "offline", "a1">>}
\* Retried and a short rest, or not retried and a rest of two passages of time.
MCRaised == {"network_unreachable", "insufficient_quota"}

\* A command that serves x and y; an installed package that serves x better, and y;
\* another one that needs x and the network, and whenever it is loaded hands out the
\* same provider of z and one of y that carries the id of the first package.
MCManifest ==
    "cmd" :> [kind |-> "subprocess", capabilities |-> <<"x", "y">>, requires |-> {},
              needs |-> {}, untrusted |-> TRUE, offers |-> << >>, shared |-> FALSE]
    @@ "pkg" :> [kind |-> "entry_point", capabilities |-> <<"y", "x">>, requires |-> {},
                 needs |-> {}, untrusted |-> FALSE, shared |-> FALSE,
                 offers |-> <<[id |-> "pkg", capability |-> "x", precedence |-> 1],
                              [id |-> "pkg", capability |-> "y", precedence |-> 0],
                              [id |-> "pkg", capability |-> "z", precedence |-> 0]>>]
    @@ "net" :> [kind |-> "entry_point", capabilities |-> <<"x", "z", "y">>, requires |-> {"x"},
                 needs |-> {"network"}, untrusted |-> FALSE, shared |-> TRUE,
                 offers |-> <<[id |-> "net", capability |-> "z", precedence |-> 0],
                              [id |-> "pkg", capability |-> "y", precedence |-> 0]>>]
MCProfiles == {{}, {"network"}}

\* a2 is a with another price; SQLite refuses "bad".
MCKey     == [f \in Fill |-> IF f \in {"a", "a2"} THEN "ka" ELSE f]
MCDay     == [x \in Fill \cup Explicit |-> CASE x \in {"a", "a2"} -> 1 [] x = "b" -> 2 [] OTHER -> 3]
\* The whole journal, and the journal up to the second day.
MCWindows == {{1, 2, 3}, {1, 2}}
MCBatches == {<<"a", "b">>, <<"a2", "a2">>, <<"a2", "bad">>}

MCOpenPrice  == [i \in 0 .. LastBar |-> IF i = 1 THEN 2 ELSE 1]
MCQuantities == {-2, 2}

\* A bar that rests, one that rises, one that falls and one that opens with a gap.
MCShape ==
    {[open |-> 100, high |-> 100, low |-> 100, close |-> 100, volume |-> 1],
     [open |-> 100, high |-> 120, low |-> 100, close |-> 120, volume |-> 4],
     [open |-> 100, high |-> 100, low |-> 80, close |-> 80, volume |-> 2],
     [open |-> 120, high |-> 120, low |-> 120, close |-> 120, volume |-> 0]}

Reads(kind, source, period) == [kind |-> kind, source |-> source, period |-> period]
Holds(operator, operands) == [operator |-> operator, operands |-> operands]

Tried(rules, fill, stop, target, sizing) ==
    rules @@ [stop |-> stop, target |-> target, sizing |-> sizing, min_bars |-> 1, fill |-> fill]

\* In above the mean of two bars, out on the way below it.
Averages ==
    [indicators |-> <<Reads("sma", "close", 1), Reads("sma", "close", 2), Reads("atr", "high", 2),
                      Reads("volume_sma", "volume", 2)>>,
     entry |-> {Holds("gt", <<1, 2>>), Holds("is_true", <<4>>)}, exit |-> {Holds("crosses_below", <<1, 2>>)}]

\* In at the highest high of two bars, out at their lowest low.
Breakout ==
    [indicators |-> <<Reads("ema", "close", 1), Reads("highest", "high", 2), Reads("lowest", "low", 2)>>,
     entry |-> {Holds("gte", <<1, 2>>)}, exit |-> {Holds("lte", <<1, 3>>)}]

\* In on the way above the average while changes are gains, out below it.
Momentum ==
    [indicators |-> <<Reads("atr", "high", 1), Reads("sma", "close", 1), Reads("ema", "close", 2),
                      Reads("rsi", "close", 1)>>,
     entry |-> {Holds("crosses_above", <<2, 3>>), Holds("is_true", <<4>>)},
     exit |-> {Holds("lt", <<2, 3>>)}]

\* Each rule, stop, target, size and fill mode.
MCStrategy ==
    {Tried(Averages, "next_open", Limit("none", 0), Limit("percent", 10), Limit("fixed_quantity", 2)),
     Tried(Breakout, "next_open", Limit("percent", 10), Limit("none", 0), Limit("fixed_fraction", 100)),
     Tried(Breakout, "same_close", Limit("percent", 10), Limit("r_multiple", 2), Limit("risk_percent", 5)),
     Tried(Averages, "next_open", Limit("atr_multiple", 1), Limit("r_multiple", 1), Limit("risk_percent", 5)),
     Tried(Momentum, "same_close", Limit("atr_multiple", 1), Limit("none", 0), Limit("fixed_fraction", 50))}

\* Two useful cases make the evidence; a third spoils it.
MCGrade == <<"useful_alert", "useful_alert", "invalid">>

\* A provider that is there from the beginning, one that is not, and the fallback.
MCCatalog == ("main" :> {"m"}) @@ ("cat" :> {"m"}) @@ ("offline" :> {})
MCLists   == {{"o"}}

MCKind == ("built" :> "builtin") @@ ("pip" :> "pypi") @@ ("src" :> "git")
=============================================================================
