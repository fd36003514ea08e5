--------------------------- MODULE PluginInstall ---------------------------
(***************************************************************************)
(* Curated plugins on this machine: their code, fetched and removed by     *)
(* the installer (plugin_installer.py), and what the market records of     *)
(* them (plugin_marketplace.py), which its view reports.  Requests of the  *)
(* workbench run side by side: each makes an installer of its own, whose   *)
(* lock therefore excludes nobody, while the market's lock makes each of   *)
(* its operations one step.  Refused requests, the credentials (see        *)
(* ProviderSettings), the virtual environment and marketplace.json, which  *)
(* only its own clean-up reads, are left out.                              *)
(***************************************************************************)
EXTENDS Naturals

CONSTANTS Curated,      \* the plugins of the catalog
          Kind,         \* how each is obtained: "builtin", "pypi" or "git"
          Wizard,       \* the requests in progress at the same time
          MaxWizards    \* bound: requests

ASSUME InstallAssumption ==
    /\ "none" \notin Curated
    /\ Kind \in [Curated -> {"builtin", "pypi", "git"}]
    /\ MaxWizards \in Nat

VARIABLES code,       \* of each plugin: none, part of it or the whole
          record,     \* its state in the plugin store
          wizard,     \* what each request is doing
          worked,     \* the checkouts in which the user works
          doubtful,   \* plugins of which the record is not known to be true
          wizards     \* requests so far

installVars == <<code, record, wizard, worked, doubtful, wizards>>

Closed == [plugin |-> "none", phase |-> "closed", cleanup |-> FALSE]

InstallInit ==
    /\ code = [p \in Curated |-> IF Kind[p] = "builtin" THEN "whole" ELSE "none"]
    /\ record = [p \in Curated |-> "none"]
    /\ wizard = [w \in Wizard |-> Closed]
    /\ worked = {} /\ doubtful = {} /\ wizards = 0

OthersAt(w, p) == \E x \in Wizard \ {w} : wizard[x].plugin = p

\* Who begins while another is at the same plugin casts doubt on it.
Opened(w, p) ==
    /\ wizard[w].phase = "closed" /\ wizards < MaxWizards
    /\ wizards' = wizards + 1
    /\ doubtful' = IF OthersAt(w, p) THEN doubtful \cup {p} ELSE doubtful

\* rmtree that ignores its errors leaves nothing or something.
RemoveTree(w, p) ==
    \E left \in {"none", "part"} :
        /\ code' = [code EXCEPT ![p] = left]
        /\ worked' = worked
        /\ doubtful' = IF left = "part" THEN doubtful \cup {p} ELSE doubtful

-----------------------------------------------------------------------------
(* An installation: fetch, probe, record.                                  *)

\* A checkout that is there is not fetched again, only probed.
FirstPhase_unseen(p) == IF Kind[p] = "builtin" THEN "probe" ELSE "fetch"
FirstPhase(p) ==
    IF Kind[p] = "builtin" \/ (Kind[p] = "git" /\ code[p] # "none") THEN "probe" ELSE "fetch"

install(w) ==
    \E p \in Curated :
        /\ Opened(w, p)
        /\ wizard' = [wizard EXCEPT ![w] =
             [plugin |-> p, phase |-> FirstPhase(p),
              cleanup |-> Kind[p] = "git" /\ FirstPhase(p) = "fetch"]]
        /\ UNCHANGED <<code, record, worked>>

\* git refuses a directory that has something in it, and the failure of the clone
\* removes it.  A package that is there is left as it is.
Fetch(w) ==
    LET p == wizard[w].plugin IN
    /\ wizard[w].phase = "fetch"
    /\ IF Kind[p] = "git" /\ code[p] # "none"
       THEN RemoveTree(w, p) /\ wizard' = [wizard EXCEPT ![w] = Closed]
       ELSE /\ code' = [code EXCEPT ![p] = IF @ = "whole" THEN @ ELSE "part"]
            /\ wizard' = [wizard EXCEPT ![w].phase = "fetching"]
            /\ UNCHANGED <<worked, doubtful>>
    /\ UNCHANGED <<record, wizards>>

Fetched(w) ==
    LET p == wizard[w].plugin IN
    /\ wizard[w].phase = "fetching"
    /\ code' = [code EXCEPT ![p] = "whole"]
    /\ wizard' = [wizard EXCEPT ![w].phase = "probe"]
    /\ UNCHANGED <<record, worked, doubtful, wizards>>

\* The fetch fails or takes too long, or the probe fails: a checkout that was begun
\* here is removed, what pip left stays.
GiveUp(w) ==
    /\ IF wizard[w].cleanup
       THEN RemoveTree(w, wizard[w].plugin)
       ELSE UNCHANGED <<code, worked, doubtful>>
    /\ wizard' = [wizard EXCEPT ![w] = Closed]
    /\ UNCHANGED <<record, wizards>>

FetchFailed(w) == wizard[w].phase = "fetching" /\ GiveUp(w)

\* A source checkout has a .git directory; a package can be imported.  Part of one may
\* pass; an import may fail for reasons of its own.
Probed(w) ==
    /\ wizard[w].phase = "probe" /\ code[wizard[w].plugin] # "none"
    /\ wizard' = [wizard EXCEPT ![w].phase = "record"]
    /\ UNCHANGED <<code, record, worked, doubtful, wizards>>

ProbeFailed(w) ==
    LET p == wizard[w].plugin IN
    /\ wizard[w].phase = "probe"
    /\ Kind[p] = "pypi" \/ code[p] # "whole"
    /\ GiveUp(w)

install_record(w) ==
    /\ wizard[w].phase = "record"
    /\ record' = [record EXCEPT ![wizard[w].plugin] = "ACTIVE"]
    /\ wizard' = [wizard EXCEPT ![w] = Closed]
    /\ UNCHANGED <<code, worked, doubtful, wizards>>

-----------------------------------------------------------------------------
\* The record goes first (revoke_record), then the code.
uninstall_plugin(w) ==
    \E p \in Curated :
        /\ Opened(w, p)
        /\ record' = [record EXCEPT ![p] = IF @ = "none" THEN @ ELSE "REVOKED"]
        /\ wizard' = [wizard EXCEPT ![w] = [plugin |-> p, phase |-> "remove", cleanup |-> FALSE]]
        /\ UNCHANGED <<code, worked>>

\* The failure of either removal is not looked at.
uninstall(w) ==
    LET p == wizard[w].plugin IN
    /\ wizard[w].phase = "remove"
    /\ \E left \in IF Kind[p] = "builtin" \/ code[p] = "none" THEN {code[p]}
                   ELSE {"none", "part"} \cup (IF Kind[p] = "pypi" THEN {code[p]} ELSE {}) :
         /\ code' = [code EXCEPT ![p] = left]
         /\ doubtful' = CASE left = "part" /\ Kind[p] = "git" -> doubtful \cup {p}
                          [] left = "none" /\ ~OthersAt(w, p) /\ record[p] # "ACTIVE" -> doubtful \ {p}
                          [] OTHER -> doubtful
    /\ worked' = worked \ {p}
    /\ wizard' = [wizard EXCEPT ![w] = Closed]
    /\ UNCHANGED <<record, wizards>>

\* The market records an installation that it takes to have passed its health check,
\* and enables what was disabled or revoked: no code is looked at.
Recorded(p, state) ==
    /\ wizards < MaxWizards /\ wizards' = wizards + 1
    /\ record' = [record EXCEPT ![p] = state]
    /\ doubtful' = IF state = "ACTIVE" /\ (code[p] # "whole" \/ \E w \in Wizard : wizard[w].plugin = p)
                   THEN doubtful \cup {p} ELSE doubtful
    /\ UNCHANGED <<code, wizard, worked>>

install_market_plugin == \E p \in Curated : Recorded(p, "ACTIVE")

set_enabled ==
    \E p \in Curated, state \in {"ACTIVE", "DISABLED"} : record[p] # "none" /\ Recorded(p, state)

\* The user changes files of a checkout.
Work ==
    \E p \in Curated \ worked :
        /\ Kind[p] = "git" /\ code[p] = "whole" /\ record[p] = "ACTIVE"
        /\ worked' = worked \cup {p}
        /\ UNCHANGED <<code, record, wizard, doubtful, wizards>>

\* The server is killed; what git or pip had begun may still be finished.
Survives(p) ==
    IF \E w \in Wizard : wizard[w].plugin = p /\ wizard[w].phase = "fetching"
    THEN {code[p], "whole"} ELSE {code[p]}

ServerKilled ==
    /\ \E w \in Wizard : wizard[w] # Closed
    /\ code' \in {c \in [Curated -> {"none", "part", "whole"}] : \A p \in Curated : c[p] \in Survives(p)}
    /\ doubtful' = doubtful \cup {p \in Curated : Kind[p] = "git" /\ code'[p] = "part"}
    /\ wizard' = [w \in Wizard |-> Closed]
    /\ UNCHANGED <<record, worked, wizards>>

InstallNext ==
    \/ install_market_plugin \/ set_enabled \/ Work \/ ServerKilled
    \/ \E w \in Wizard :
        \/ install(w) \/ Fetch(w) \/ Fetched(w) \/ FetchFailed(w) \/ Probed(w) \/ ProbeFailed(w)
        \/ install_record(w) \/ uninstall_plugin(w) \/ uninstall(w)

InstallSpec == InstallInit /\ [][InstallNext]_installVars

-----------------------------------------------------------------------------
\* Shape of the state.
InstallTypeOK ==
    /\ code \in [Curated -> {"none", "part", "whole"}]
    /\ record \in [Curated -> {"none", "ACTIVE", "DISABLED", "REVOKED"}]
    /\ \A w \in Wizard :
        /\ wizard[w].plugin \in Curated <=> wizard[w].phase # "closed"
        /\ wizard[w].phase \in {"closed", "fetch", "fetching", "probe", "record", "remove"}
        /\ wizard[w].cleanup => Kind[wizard[w].plugin] = "git"
    /\ worked \subseteq Curated /\ doubtful \subseteq Curated /\ wizards \in 0 .. MaxWizards

\* A plugin the market shows as enabled is there as a whole, however requests for
\* different plugins, failing fetches, probes and restarts follow each other, and no
\* installation takes from the user a checkout he works in; except where two requests
\* were at the same plugin, a checkout was left half-written or half-removed, or the
\* market enabled what it never looked for, until an uninstallation clears it away.
EnabledIsThere ==
    \A p \in Curated \ doubtful : record[p] = "ACTIVE" \/ p \in worked => code[p] = "whole"
=============================================================================
