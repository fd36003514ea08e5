------------------------------ MODULE MCRecords ------------------------------
(* The fill ledger, the tenant store, the requests, the packs, the loop, uploads and reviews. *)
EXTENDS MCFillLedger, Records

\* An import of one row, of two, in either order, and of one row twice.
MCImports == {<<1>>, <<1, 2>>, <<2, 1>>, <<2, 2>>}

Manifested(declared, late) == [declared |-> declared, complete |-> TRUE, late |-> late]
Decided(label, declared) == [declared |-> declared, complete |-> TRUE, label |-> label]
Became(pattern, gain) == [pattern |-> pattern, gain |-> gain, adverse |-> gain]
Ran(manifest, decision, outcome) ==
    [id |-> "x", manifest |-> manifest, decision |-> decision, outcome |-> outcome]

\* A run that passes, one that was not declared safe, one whose sources came too late,
\* one whose outcome has an unlucky digest, and two that pass under unlucky names.
Useful  == Ran(Manifested(TRUE, 0), Decided("ALERT", TRUE), Became(FALSE, 4))
Quiet   == Ran(Manifested(TRUE, 0), Decided("SILENT", FALSE), Became(FALSE, 0))
Leaking == Ran(Manifested(TRUE, 2), Decided("ALERT", TRUE), Became(FALSE, -4))
Unlucky == Ran(Manifested(TRUE, 0), Decided("SILENT", TRUE), Became(TRUE, 5))
Telling == [Useful EXCEPT !.id = "session-1"]
Phoning == [Useful EXCEPT !.id = "13912345678"]
MCIllegible == {Unlucky.outcome}
MCSuspect == {<<"session-1", 0>>}
MCMasked == {<<"13912345678", 0>>}

MCBuilds == {[runs |-> <<run>>, rule |-> [rule_id |-> "r"]] :
                run \in {Useful, Quiet, Leaking, Unlucky, Telling, Phoning}}

\* What a command may give: the candidate of the toy strategy, a failure, a signal that
\* names a symbol only, then a timeout after a candidate, nothing at all, another candidate,
\* and one without a symbol.
Gave(code, signal, candidate, stop, codes) ==
    [name |-> "toy", returncode |-> code, timed_out |-> code = 124, signal |-> signal,
     chose |-> candidate # Nothing, candidate |-> candidate, stop |-> stop, codes |-> codes]
ToyRan    == <<Gave(0, TRUE, "TOY.CUB", TRUE, {"TOY.CUB"})>>
ToyFailed == <<Gave(1, FALSE, Nothing, FALSE, {})>>
MCToyed == {ToyRan, ToyFailed}
MCCaptured == MCToyed \cup
    {<<Gave(0, TRUE, Nothing, FALSE, {"TOY.BETA"}), Gave(124, TRUE, "TOY.CUB", FALSE, {"TOY.CUB"})>>,
     <<Gave(0, FALSE, Nothing, FALSE, {})>>, <<Gave(0, TRUE, "TOY.BETA", FALSE, {"TOY.BETA"})>>,
     <<[Gave(0, TRUE, Nothing, FALSE, {"TOY.BETA"}) EXCEPT !.chose = TRUE]>>}

\* data/sample_prices.json, and prices that know one symbol and end after two days.
Moved(gain, dip, pattern) == [gain |-> gain, dip |-> dip, pattern |-> pattern]
MCToyPrices ==
    [s \in {"TOY.CUB", "TOY.BETA"} |->
        IF s = "TOY.CUB"
        THEN [d \in {0, 1, 3} |-> CASE d = 0 -> Moved(0, -1, FALSE) [] d = 1 -> Moved(5, -2, TRUE)
                                     [] d = 3 -> Moved(8, -3, TRUE)]
        ELSE [d \in {0, 1, 3} |-> CASE d = 0 -> Moved(0, -1, FALSE) [] d = 1 -> Moved(-2, -6, FALSE)
                                     [] d = 3 -> Moved(-1, -6, FALSE)]]
MCPrices == {MCToyPrices,
             [s \in {"TOY.CUB"} |-> [d \in {0, 2} |-> IF d = 0 THEN Moved(0, 0, FALSE) ELSE Moved(-4, -4, FALSE)]]}

\* A table with a title, a row that is no trade and one that SQLite refuses; a PDF with two
\* wrapped trades one after the other; a second sheet, a second list, a scanned page after
\* one with text, a PDF of scans; and files that a name or a request may misname.
Whole == {"day1", "symbol", "side", "price", "quantity"}
File(format, lines, upto, wrapped) ==
    [format |-> format, lines |-> lines, first |-> upto, wrapped |-> wrapped]
MCContent ==
    {File("table", <<{}, {"hint"}, Whole, {"side"}, {"hint"}, Whole>>, 4, {}),
     File("table", <<{"hint"}, Whole, Whole \cup {"huge"}, Whole>>, 4, {}),
     File("json", <<Whole, Whole>>, 1, {}),
     File("pdf", <<{"day1"}, {"symbol", "side", "price", "quantity"}, {"day2"}, {"symbol", "side"}>>, 3, {1, 3}),
     File("pdf", <<Whole, {"symbol"}>>, 0, {}),
     File("image", <<{"day2", "price"}, Whole>>, 2, {})}
MCKindOf == [n \in {"csv", "pdf", "bin"} |->
                CASE n = "csv" -> "table" [] n = "pdf" -> "pdf" [] n = "bin" -> "unknown"]

\* An issue that says by how many shares and a position under its symbol, and a note with a
\* file in it.
Plain(path, form, listed) == [path |-> path, value |-> [form |-> form, marks |-> {}], listed |-> listed]
Says(path, marks, listed) == [path |-> path, value |-> [form |-> "text", marks |-> marks], listed |-> listed]
MCAnalyses == {{Says(<<{}, {}>>, {"quantity", "account"}, FALSE), Says(<<{}, {"symbol"}>>, {"code"}, TRUE)},
               {Says(<<{}, {}>>, {"blob"}, FALSE)}}
Item(available) == [schema |-> "v2", safety |-> TRUE, shaped |-> TRUE,
                    source |-> TRUE, quality |-> TRUE, available |-> available]
Scope(n) == [schema |-> "v2", safety |-> TRUE, shaped |-> TRUE, review_id |-> n, decision |-> 2]
Handed(schema, n, available, payload, role) ==
    [schema |-> schema, safety |-> TRUE, shaped |-> TRUE, review_id |-> n, scope |-> Scope(n),
     envelope |-> [schema |-> "v2", safety |-> TRUE, shaped |-> TRUE, scope |-> Scope(n), payload |-> payload],
     evidence |-> {Item(available)}, observations |-> {}, challengers |-> {[_challenger EXCEPT !.role = role]}]
Sent == {Plain(<<{"amount"}>>, "band", FALSE)}
\* A package for either session, evidence from after the decision, an exact amount, and
\* a proposal that is no challenger.
MCPackages ==
    {Handed("v2", 1, 2, Sent, "challenger"), Handed("v1", 2, 1, Sent, "challenger"),
     Handed("v2", 1, 3, Sent, "challenger"), Handed("v2", 2, 1, Sent, "champion"),
     Handed("v2", 1, 1, {Plain(<<{"amount"}>>, "other", FALSE)}, "challenger")}
================================================================================
