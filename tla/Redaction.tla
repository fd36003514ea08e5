------------------------------ MODULE Redaction ------------------------------
(***************************************************************************)
(* What leaves the machine: redact_payload (redaction.py) reduces a        *)
(* payload, validate_redacted_payload (review_validation.py) judges one.   *)
(* A payload is the set of its leaves; a leaf is the keys that lead to it, *)
(* the positions in lists left out, and a value.  A key is the set of the  *)
(* rules that its name meets, a value its form and what its text contains. *)
(***************************************************************************)
EXTENDS Integers, Sequences, FiniteSets, FiniteSetsExt

\* direct: the name is one of IDENTIFIER_KEYS; identifier: it ends in one.
Rule == {"sensitive", "portfolio", "symbol", "date", "quantity", "amount", "time",
         "identifier", "direct", "attachment"}

\* No name is that of a symbol, a portfolio or a date and of something else, too, but
\* portfolio_name ends in a name; and no name has two of the endings.
Key == {k \in SUBSET Rule : /\ k \cap {"symbol", "date"} # {} => Cardinality(k) = 1
                            /\ "portfolio" \in k => k \subseteq {"portfolio", "identifier"}
                            /\ "direct" \in k => "identifier" \in k
                            /\ Cardinality(k \cap {"quantity", "amount", "time", "identifier"}) <= 1}

\* What a text may contain: what redact_string and scrub_symbol_codes know, file material,
\* and what no expression knows, an exact quantity ("by 200 shares") or an account.
SpelledOut == {"quantity", "account"}
Mark == {"secret", "code", "blob"} \cup SpelledOut

\* "unknown" is taken for the mask that it stands for.
Mask == {"REDACTED", "portfolio", "symbol", "subject", "band", "bucket", "month"}
Value == [form : {"other"} \cup Mask, marks : {{}}] \cup [form : {"text"}, marks : SUBSET Mark]

\* listed: a member of a list is above it.
Leaf == [path : Seq(Key), value : Value, listed : BOOLEAN]

IsText(value) == value.form # "other"

\* Under its last key a leaf has its value, under the others there is more to come.
IsLast(leaf, i) == i = Len(leaf.path)
TextAt(leaf, i) == IsLast(leaf, i) /\ IsText(leaf.value)

-----------------------------------------------------------------------------
quantity_band == "band"
amount_band == "band"
time_bucket == "bucket"
date_bucket == "month"
alias_for(kind) == kind

\* What stands in for a value, by the first rule that its key meets.
MaskOf(key, text) ==
    IF "sensitive" \in key THEN "REDACTED"
    ELSE IF "portfolio" \in key /\ text THEN alias_for("portfolio")
    ELSE CASE "symbol" \in key /\ text     -> alias_for("symbol")
           [] "date" \in key               -> date_bucket
           [] "quantity" \in key           -> quantity_band
           [] "amount" \in key             -> amount_band
           [] "time" \in key               -> time_bucket
           [] "identifier" \in key /\ text -> alias_for("subject")
           [] OTHER                        -> "none"

MasksAt(leaf) == {i \in DOMAIN leaf.path : MaskOf(leaf.path[i], TextAt(leaf, i)) # "none"}

\* redact_string and scrub_symbol_codes.
Cleaned(value) == [value EXCEPT !.marks = @ \ {"secret", "code"}]

RedactedLeaf(leaf) ==
    IF MasksAt(leaf) = {} THEN [leaf EXCEPT !.value = Cleaned(@)]
    ELSE LET i == Min(MasksAt(leaf))
         IN  [leaf EXCEPT !.path = SubSeq(@, 1, i),
                          !.value = [form |-> MaskOf(leaf.path[i], TextAt(leaf, i)), marks |-> {}]]

redact_payload(payload) == {RedactedLeaf(leaf) : leaf \in payload}

scan_for_attachments(payload) == {leaf \in payload : "blob" \in leaf.value.marks}

Blocked == [blocked |-> TRUE, payload |-> {}]

prepare_outbound(payload) ==
    IF scan_for_attachments(payload) # {} THEN Blocked
    ELSE [blocked |-> FALSE, payload |-> redact_payload(payload)]

-----------------------------------------------------------------------------
\* The rules by which a value must have been reduced to a band, a bucket or a month.
_matches_redaction_key(key) == key \cap {"quantity", "amount", "time", "date"} # {}

_is_alias(leaf, i, kind) == IsLast(leaf, i) /\ leaf.value.form = kind

\* Nothing below such a key is looked at again.
StopsAt(leaf, i) ==
    \/ _matches_redaction_key(leaf.path[i])
    \/ "symbol" \in leaf.path[i] /\ _is_alias(leaf, i, "symbol")
    \/ "portfolio" \in leaf.path[i] /\ _is_alias(leaf, i, "portfolio")

\* The form that a key asks of its value, where it asks for one.
Coarsened(key) ==
    CASE key \cap {"quantity", "amount"} # {} -> {"band", "month"} \* 2026-09
      [] "time" \in key                       -> {"bucket"}
      [] "date" \in key                       -> {"month"}
      [] "symbol" \in key                     -> {"symbol"}
      [] "portfolio" \in key                  -> {"portfolio"}
      [] OTHER                                -> {}

KeyIsFine(leaf, i) ==
    LET key == leaf.path[i]
    IN  /\ "attachment" \notin key
        /\ "sensitive" \in key => IsLast(leaf, i) /\ leaf.value.form = "REDACTED"
        /\ "direct" \in key /\ TextAt(leaf, i) => leaf.value.form \in {"REDACTED", "subject"}
        /\ Coarsened(key) # {} => IsLast(leaf, i) /\ leaf.value.form \in Coarsened(key)

LeafIsFine(leaf) ==
    /\ "blob" \notin leaf.value.marks
    /\ \A i \in DOMAIN leaf.path : (\A j \in 1 .. i - 1 : ~StopsAt(leaf, j)) => KeyIsFine(leaf, i)
    /\ (\A i \in DOMAIN leaf.path : ~StopsAt(leaf, i)) => leaf.value.marks \cap {"secret", "code"} = {}

validate_redacted_payload(payload) == \A leaf \in payload : LeafIsFine(leaf)

-----------------------------------------------------------------------------
\* A leaf that redaction cannot make fine: file material, by its key or in its text; a
\* key of two rules, of which it follows one and the validator asks for both; a symbol
\* or a portfolio that is no text.
Unmaskable(leaf) ==
    \/ "blob" \in leaf.value.marks
    \/ \E i \in DOMAIN leaf.path :
        LET key == leaf.path[i]
        IN  \/ "attachment" \in key
            \/ "sensitive" \in key /\ _matches_redaction_key(key)
            \/ key \cap {"symbol", "portfolio"} # {} /\ ~TextAt(leaf, i)

Spells(leaf) == leaf.value.marks \cap SpelledOut # {}

\* What redaction goes by is masked or gone: no key asks for a mask that is not there, no
\* text for cleaning, and a quantity or an account is in clear under keys without a rule only.
Reduced(leaf) ==
    /\ leaf.value.marks \cap {"secret", "code"} = {}
    /\ Spells(leaf) => MasksAt(leaf) = {}
    /\ \A i \in DOMAIN leaf.path : MaskOf(leaf.path[i], TextAt(leaf, i)) # "none" =>
           IsLast(leaf, i) /\ leaf.value.form = MaskOf(leaf.path[i], TRUE)
=============================================================================
