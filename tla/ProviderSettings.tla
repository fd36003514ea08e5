-------------------------- MODULE ProviderSettings --------------------------
(***************************************************************************)
(* The assistant's providers in providers.json and their keys in           *)
(* credentials.json (agent/providers.py), which holds the credentials of   *)
(* plugins as well (plugin_installer.py), changed by requests of the       *)
(* workbench (workbench/server.py).  A request reads a file, works out its *)
(* new content and writes it whole, in place and without a lock; a check   *)
(* of the models asks the endpoint first.  A file that does not parse      *)
(* reads as the defaults.  Keys given by the environment, endpoints,       *)
(* labels, the marks of a model and the default selection, which falls     *)
(* back to a provider that is there when it is read, are left out.         *)
(***************************************************************************)
EXTENDS Integers, Sequences, FiniteSets, SequencesExt, Selection

CONSTANTS Editor,         \* the requests in progress at the same time
          Provider, Model,
          Catalog,        \* the models of each provider of PROVIDER_CATALOG
          Main, Fallback, \* ALPHATECH_PROVIDER_ID and OFFLINE_PROVIDER_ID
          Conversational, \* the models that is_conversational_model lets in
          Lists,          \* the model lists a user types in
          Managed,        \* the plugins whose credentials are kept here
          Torn,           \* a file that does not parse
          MaxEdits        \* bound: requests, as many of them side by side as there are
                          \* editors, and none once two have clashed

\* What a whole providers.json holds.
Entry    == [models : SUBSET Model, removable : BOOLEAN]
Settings == [order : Seq(Provider), entry : UNION {[S -> Entry] : S \in SUBSET Provider}]

ASSUME SettingsAssumption ==
    /\ {Main, Fallback} \subseteq DOMAIN Catalog /\ DOMAIN Catalog \subseteq Provider
    /\ Main # Fallback
    /\ Managed \cap Provider = {}  \* their keys are in tables of their own
    /\ Torn \notin Settings /\ \A S \in SUBSET (Provider \cup Managed) : Torn # S
    /\ Catalog \in [DOMAIN Catalog -> SUBSET Model]
    /\ Conversational \subseteq Model /\ Lists \subseteq SUBSET Model
    /\ MaxEdits \in Nat

VARIABLES settings,    \* providers.json: the order and the providers' entries, or Torn
          credentials, \* credentials.json: who has a key, or Torn
          edit,        \* what each request is doing
          choice,      \* the models of each provider the user has, as far as he was told
          keyed,       \* the providers and plugins he gave a key, likewise
          lost,        \* of each provider, the models declared while a check that then
                       \* wrote its list was asking
          strays,      \* providers removed by a request that was killed before it came to
                       \* their keys, or while another was about to give them one
          clashed,     \* a file was changed under a request's hands, or left half-written
          edits        \* requests so far

history == <<choice, keyed, lost, strays>>
settingsVars == <<settings, credentials, edit, history, clashed, edits>>

\* default_settings
Defaults ==
    [order |-> <<Main, Fallback>>,
     entry |-> [p \in {Main, Fallback} |-> [models |-> Catalog[p], removable |-> FALSE]]]

\* A request: what it does with a provider and its key, how far it got, what it read
\* and what it is about to write.
NoEdit == [op |-> "none", provider |-> Main, key |-> "same", phase |-> "idle",
           seen |-> {}, base |-> Defaults, new |-> Defaults, keyNew |-> {}]

SettingsInit ==
    /\ settings = Defaults /\ credentials = {}
    /\ edit = [e \in Editor |-> NoEdit]
    /\ choice = [p \in {Main, Fallback} |-> Catalog[p]]
    /\ keyed = {} /\ lost = [p \in Provider |-> {}] /\ strays = {}
    /\ clashed = FALSE /\ edits = 0

-----------------------------------------------------------------------------
(* What a request makes of the settings it read.                           *)

load_settings == IF settings = Torn THEN Defaults ELSE settings
load_credentials == IF credentials = Torn THEN {} ELSE credentials

Configured(s) == DOMAIN s.entry

\* _move_before_offline
Ordered(order, p) ==
    IF p \in ToSet(order) THEN order
    ELSE IF Fallback \in ToSet(order)
         THEN InsertAt(order, SelectInSeq(order, LAMBDA x : x = Fallback), p)
         ELSE Append(order, p)

WithEntry(s, p, entry) ==
    [order |-> Ordered(s.order, p),
     entry |-> [x \in Configured(s) \cup {p} |-> IF x = p THEN entry ELSE s.entry[x]]]

\* Installing again keeps the models that are there.
Installed_afresh(s, p, fresh) == WithEntry(s, p, [models |-> fresh, removable |-> TRUE])
Installed(s, p, fresh) ==
    WithEntry(s, p, [models |-> IF p \in Configured(s) THEN s.entry[p].models ELSE fresh,
                     removable |-> TRUE])

\* Unless a list comes with it.
Described(s, p, list) == WithEntry(s, p, [models |-> list, removable |-> TRUE])

Updated(s, p, list) == WithEntry(s, p, [s.entry[p] EXCEPT !.models = list])

Removed(s, p) ==
    [order |-> Selected(s.order, ToSet(s.order) \ {p}),
     entry |-> [x \in Configured(s) \ {p} |-> s.entry[x]]]

\* A model the endpoint no longer lists is kept (and marked); a new one it lists is
\* added when it looks as if one could talk to it.
reconcile_models_replaced(declared, live) == live \cap Conversational
reconcile_models(declared, live) == declared \cup (live \cap Conversational)

-----------------------------------------------------------------------------
(* The requests begin: each reads the settings and is refused or knows     *)
(* what to write.                                                          *)

Begin(e) ==
    /\ edit[e].phase = "idle" /\ edits < MaxEdits /\ ~clashed
    /\ edits % Cardinality(Editor) = 0 => \A x \in Editor : edit[x].phase = "idle"
    /\ edits' = edits + 1
    /\ UNCHANGED <<settings, credentials, history, clashed>>

Started(op, p, key, new) ==
    [NoEdit EXCEPT !.op = op, !.provider = p, !.key = key, !.phase = "truncate",
                   !.base = load_settings, !.new = new]

\* From the catalog, or by hand without or with a list of models.
install_provider(e) ==
    \E p \in Provider, key \in {"same", "given"} :
        /\ Begin(e)
        /\ \/ \E fresh \in {{}} \cup (IF p \in DOMAIN Catalog THEN {Catalog[p]} ELSE {}) :
                edit' = [edit EXCEPT ![e] =
                            Started("install", p, key, Installed(load_settings, p, fresh))]
           \/ \E list \in Lists :
                edit' = [edit EXCEPT ![e] =
                            Started("describe", p, key, Described(load_settings, p, list))]

update_provider(e) ==
    \E p \in Configured(load_settings), list \in Lists, key \in {"same", "given", "cleared"} :
        /\ Begin(e)
        /\ edit' = [edit EXCEPT ![e] =
             Started("update", p, key, Updated(load_settings, p, list))]

remove_provider(e) ==
    \E p \in Configured(load_settings) :
        /\ load_settings.entry[p].removable
        /\ Begin(e)
        /\ edit' = [edit EXCEPT ![e] = Started("remove", p, "cleared", Removed(load_settings, p))]

\* The credentials of a plugin, once it is installed.
_save_plugin_credentials(e) ==
    \E p \in Managed :
        /\ Begin(e)
        /\ edit' = [edit EXCEPT ![e] = [NoEdit EXCEPT
             !.op = "plugin", !.provider = p, !.key = "given", !.phase = "keys"]]

\* check_models reads what is declared and asks the endpoint; one that is in the
\* catalog only can be asked too.
check_models(e) ==
    \E p \in Configured(load_settings) \cup DOMAIN Catalog :
        /\ Begin(e)
        /\ edit' = [edit EXCEPT ![e] = [NoEdit EXCEPT
             !.op = "check", !.provider = p, !.phase = "asked",
             !.seen = IF p \in Configured(load_settings) THEN load_settings.entry[p].models
                      ELSE Catalog[p]]]

\* The endpoint answers with what it serves (the fallback has none and is not asked):
\* what was read before is put together with the answer and replaces what is declared
\* now.  A provider that was removed in the meantime, and a lookup that failed, change
\* nothing.
Answered(e) ==
    LET p == edit[e].provider IN
    /\ edit[e].phase = "asked"
    /\ \E live \in IF p = Fallback THEN {{}} ELSE SUBSET Model \ {{}} :
         edit' = [edit EXCEPT ![e] =
             IF p \in Configured(load_settings)
             THEN [Started("check", p, "same",
                           Updated(load_settings, p, reconcile_models(@.seen, live)))
                   EXCEPT !.seen = edit[e].seen]
             ELSE NoEdit]
    /\ UNCHANGED <<settings, credentials, history, clashed, edits>>

LookupFails(e) ==
    /\ edit[e].phase = "asked" /\ edit[e].provider # Fallback
    /\ edit' = [edit EXCEPT ![e] = NoEdit]
    /\ UNCHANGED <<settings, credentials, history, clashed, edits>>

-----------------------------------------------------------------------------
(* Writing a file: it is emptied and then filled.  Who fills it after      *)
(* another request did leaves, if his text is shorter, the other's end.    *)

Truncate(e) ==
    /\ edit[e].phase = "truncate"
    /\ settings' = Torn
    /\ clashed' = (clashed \/ settings # edit[e].base)
    /\ edit' = [edit EXCEPT ![e].phase = "write"]
    /\ UNCHANGED <<credentials, history, edits>>

\* What the user may rely on once the settings are written: installing what he has
\* and checking it take no model from him.
Told(e) ==
    LET p == edit[e].provider IN
    CASE edit[e].op = "remove" -> [x \in DOMAIN choice \ {p} |-> choice[x]]
      [] edit[e].op = "check" \/ (edit[e].op = "install" /\ p \in DOMAIN choice) -> choice
      [] OTHER -> [x \in DOMAIN choice \cup {p} |->
                     IF x = p THEN edit[e].new.entry[p].models ELSE choice[x]]

\* A list the user gave makes good what he lost; a check loses what it has not read.
Missed(e) ==
    LET p == edit[e].provider IN
    CASE edit[e].op = "check" ->
           [lost EXCEPT ![p] = @ \cup (IF p \in DOMAIN choice THEN choice[p] \ edit[e].seen ELSE {})]
      [] edit[e].op = "install" /\ p \in DOMAIN choice -> lost
      [] OTHER -> [lost EXCEPT ![p] = {}]

AtKeys(e) == edit[e].phase \in {"keys", "truncateKeys", "writeKeys"}

\* A provider that goes while another request has still to write the key it was given.
Stray(e) ==
    LET p == edit[e].provider IN
    IF edit[e].op # "remove" THEN strays \ {p}
    ELSE IF \E x \in Editor : AtKeys(x) /\ edit[x].provider = p /\ edit[x].key = "given"
         THEN strays \cup {p} ELSE strays

Write(e) ==
    /\ edit[e].phase = "write"
    /\ settings' \in IF settings = Torn THEN {edit[e].new} ELSE {edit[e].new, Torn}
    /\ choice' = Told(e) /\ lost' = Missed(e) /\ strays' = Stray(e)
    /\ edit' = [edit EXCEPT ![e] = IF @.key = "same" THEN NoEdit ELSE [@ EXCEPT !.phase = "keys"]]
    /\ UNCHANGED <<credentials, keyed, clashed, edits>>

WrittenKeys(e, known) ==
    CASE edit[e].key = "given"   -> known \cup {edit[e].provider}
      [] edit[e].key = "cleared" -> known \ {edit[e].provider}
      [] OTHER -> known

Filling(d) == d.phase \in {"truncateKeys", "writeKeys"}

\* _store_key, or the second half of update_provider and remove_provider; the removal
\* of a provider without a key writes nothing.
LoadKeys(e) ==
    /\ edit[e].phase = "keys"
    /\ LET new == WrittenKeys(e, load_credentials)
       IN  edit' = [edit EXCEPT ![e] =
             IF @.op = "remove" /\ new = load_credentials THEN NoEdit
             ELSE [@ EXCEPT !.phase = "truncateKeys", !.keyNew = new]]
    /\ clashed' = (clashed \/ \E x \in Editor \ {e} : Filling(edit[x]))
    /\ UNCHANGED <<settings, credentials, history, edits>>

TruncateKeys(e) ==
    /\ edit[e].phase = "truncateKeys"
    /\ credentials' = Torn
    /\ edit' = [edit EXCEPT ![e].phase = "writeKeys"]
    /\ UNCHANGED <<settings, history, clashed, edits>>

WriteKeys(e) ==
    /\ edit[e].phase = "writeKeys"
    /\ credentials' \in IF credentials = Torn THEN {edit[e].keyNew} ELSE {edit[e].keyNew, Torn}
    /\ keyed' = WrittenKeys(e, keyed)
    /\ edit' = [edit EXCEPT ![e] = NoEdit]
    /\ UNCHANGED <<settings, choice, lost, strays, clashed, edits>>

\* It has taken a provider out and has not come to its key.
Removing(e) == edit[e].op = "remove" /\ AtKeys(e)

\* The server is killed: inside a write it leaves the file cut off, and between the two
\* files of a request both are whole.
Stopped ==
    /\ clashed' = (clashed \/ \E e \in Editor : edit[e].phase \in {"write", "writeKeys"})
    /\ strays' = strays \cup {edit[e].provider : e \in {x \in Editor : Removing(x)}}
    /\ edit' = [e \in Editor |-> NoEdit]
    /\ UNCHANGED <<settings, credentials, choice, keyed, lost, edits>>

SettingsNext ==
    \/ Stopped
    \/ \E e \in Editor :
        \/ install_provider(e) \/ update_provider(e) \/ remove_provider(e)
        \/ _save_plugin_credentials(e)
        \/ check_models(e) \/ Answered(e) \/ LookupFails(e)
        \/ Truncate(e) \/ Write(e) \/ LoadKeys(e) \/ TruncateKeys(e) \/ WriteKeys(e)

SettingsSpec == SettingsInit /\ [][SettingsNext]_settingsVars

-----------------------------------------------------------------------------
\* Shape of the state: what is read or about to be written is a whole file, and only a
\* user's own change or a check is under way.
SettingsTypeOK ==
    /\ \A s \in {settings} \cup UNION {{edit[e].base, edit[e].new} : e \in Editor} :
        s # Torn => /\ Configured(s) \subseteq Provider
                    /\ \A p \in Configured(s) : s.entry[p] \in Entry
    /\ credentials # Torn => credentials \subseteq Provider \cup Managed
    /\ keyed \subseteq Provider \cup Managed /\ clashed \in BOOLEAN
    /\ DOMAIN choice \subseteq Provider /\ \A p \in DOMAIN choice : choice[p] \subseteq Model
    /\ lost \in [Provider -> SUBSET Model] /\ strays \subseteq Provider
    /\ edits \in 0 .. MaxEdits

\* Each provider stands in the order once, and the fallback, if it is there, last.
OrderIsWhole(s) ==
    /\ ToSet(s.order) = Configured(s) /\ Len(s.order) = Cardinality(Configured(s))
    /\ Fallback \in Configured(s) => Last(s.order) = Fallback

\* As long as no two requests changed one file at once and no kill cut one off, however
\* the requests were interleaved and wherever between its files one was killed, the user
\* keeps what he chose: his providers and no other, the keys he gave, and every model he
\* declared but those he declared while a check of the same provider was asking, whose
\* list does not have them.  A key outlives its provider only if the removal was killed
\* between the two files, or another request then stored the key it had been given.
\* Any settings that can be read list each provider once and the fallback last.
ChoicesSurvive ==
    /\ settings # Torn => OrderIsWhole(settings)
    /\ ~clashed =>
        /\ settings # Torn =>
            /\ Configured(settings) = DOMAIN choice
            /\ \A p \in DOMAIN choice : choice[p] \ lost[p] \subseteq settings.entry[p].models
        /\ (\A e \in Editor : edit[e].phase # "writeKeys") => credentials = keyed
        /\ \A p \in keyed \cap Provider :
            p \in DOMAIN choice \cup strays \/ \E e \in Editor : Removing(e) /\ edit[e].provider = p
=============================================================================
