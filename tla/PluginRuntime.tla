--------------------------- MODULE PluginRuntime ---------------------------
(***************************************************************************)
(* The plugins of one process (plugins/runtime.py): discovery, activation  *)
(* under the profile's permissions, the providers a plugin registers in    *)
(* the service registry and the effect scope that undoes them, execution,  *)
(* and the lifecycle state kept in a database all processes share.         *)
(***************************************************************************)
EXTENDS Integers, Sequences, SequencesExt, Selection

CONSTANTS Plugin,
          Capability,
          Manifest,   \* Manifest[p]: kind, capabilities, requires, needs, isolated, offers
          Profiles,   \* the permission sets a process may be started with
          MaxObjects  \* bound: provider objects made by one process

Permission == {"network", "credentials", "external_llm"}

ASSUME PluginAssumption ==
    /\ Profiles \subseteq SUBSET Permission
    /\ MaxObjects \in Nat
    /\ \A p \in Plugin :
        /\ Manifest[p].kind \in {"subprocess", "entry_point"}
        /\ Manifest[p].capabilities \in Seq(Capability)
        /\ Manifest[p].requires \subseteq Capability
        /\ Manifest[p].needs \subseteq Permission
        /\ Manifest[p].untrusted \in BOOLEAN
        \* what the entry point returns: its providers, new ones at each load or the same
        \* they may carry the id of any plugin, and mostly carry none or its own
        /\ Manifest[p].offers \in Seq([id : Plugin, capability : Capability, precedence : Int])
        /\ Manifest[p].shared \in BOOLEAN

VARIABLES profile,   \* the permissions of the running process
          state,     \* PluginInstance.state in the process, "absent" when unknown to it
          providers, \* ServiceRegistry._providers: the registrations of a capability, best first
          effects,   \* EffectScope of a plugin: the providers its disposers take back
          stored,    \* plugin_state, shared by the processes
          made       \* provider objects made so far, which name them

pluginVars == <<profile, state, providers, effects, stored, made>>

PluginInit ==
    /\ profile \in Profiles
    /\ state = [p \in Plugin |-> "absent"]
    /\ providers = [c \in Capability |-> << >>]
    /\ effects = [p \in Plugin |-> << >>]
    /\ stored = [p \in Plugin |-> "absent"]
    /\ made = 0

SERVING == {"ACTIVE", "EXECUTED"}

-----------------------------------------------------------------------------
(* ServiceRegistry: the providers of a capability by falling precedence,   *)
(* equals in the order they came.                                          *)

Registered_first(regs, x) == <<x>> \o regs
Registered(regs, x) ==
    LET higher == {y \in ToSet(regs) : y.precedence >= x.precedence}
    IN  Selected(regs, higher) \o <<x>> \o Selected(regs, ToSet(regs) \ higher)

\* A provider is taken out by its identity, however often it was registered.
Without(regs, x) == Selected(regs, ToSet(regs) \ {x})

register_provider(provs, x) == [provs EXCEPT ![x.capability] = Registered(@, x)]
unregister_provider(provs, x) == [provs EXCEPT ![x.capability] = Without(@, x)]

Registry(provs, new) == FoldLeft(register_provider, provs, new)

Resolvable(provs, c) == provs[c] # << >>
resolve(c) == providers[c][1]

-----------------------------------------------------------------------------
(* Discovery: the instances are rebuilt from the database, which the       *)
(* effects and the providers of the process outlive.                       *)

hydrate == [p \in Plugin |-> IF stored[p] = "absent" THEN state[p] ELSE stored[p]]

Discover(p) ==
    /\ LET found == IF stored[p] = "absent" THEN "DISCOVERED" ELSE stored[p]
       IN  /\ state' = [hydrate EXCEPT ![p] = found]
           /\ stored' = [stored EXCEPT ![p] = found]
    /\ UNCHANGED <<profile, providers, effects, made>>

\* PluginStateStore.record: the state this process has, over whatever is there.
Persist(p, s) ==
    /\ state' = [state EXCEPT ![p] = s]
    /\ stored' = [stored EXCEPT ![p] = s]

-----------------------------------------------------------------------------
(* Activation.                                                             *)

Blocked(p) ==
    \/ ~(Manifest[p].needs \subseteq profile)
    \/ Manifest[p].untrusted /\ Manifest[p].kind # "subprocess"

Missing(p) == {c \in Manifest[p].requires : ~Resolvable(providers, c)}

should_activate(p, enabled) ==
    CASE Blocked(p)                     -> "BLOCKED"
      [] ~Blocked(p) /\ Missing(p) # {} -> "PENDING"
      [] OTHER                          -> IF enabled THEN "ACTIVE" ELSE "DISABLED"

\* A provider that p registers; "plugin" is the id it carries.
ProviderObject(p, id, c, precedence, object) ==
    [maker |-> p, plugin |-> id, capability |-> c, precedence |-> precedence, object |-> object]

\* A subprocess gets a provider of each capability it does not consume and that
\* is not already served by one of its own.
Commands(p) ==
    LET cs == Selected(Manifest[p].capabilities,
                {c \in Capability \ Manifest[p].requires :
                    ~(Resolvable(providers, c) /\ resolve(c).plugin = p)})
    IN  [i \in DOMAIN cs |-> ProviderObject(p, p, cs[i], 0, made + i)]

\* An entry point gives providers of its own; those of a capability the manifest
\* does not declare are not taken, and an id one carries already is left to it.
Loaded(p) ==
    LET taken == Selected(Manifest[p].offers,
                          {o \in ToSet(Manifest[p].offers) :
                              o.capability \in ToSet(Manifest[p].capabilities)})
    IN  [i \in DOMAIN taken |-> ProviderObject(p, taken[i].id, taken[i].capability, taken[i].precedence,
                                         IF Manifest[p].shared THEN -i ELSE made + i)]

Scoped_unlessSick(p, new, healthy) == IF healthy THEN effects[p] \o new ELSE effects[p]
Scoped(p, new, healthy) == effects[p] \o new

\* Who serves the first capability of the plugin that anyone serves answers for its
\* health; a command always answers ok, and a plugin without any provider is well.
MayBeSick(p, provs) ==
    LET served == Selected(Manifest[p].capabilities, {c \in Capability : Resolvable(provs, c)})
    IN  served # << >> /\ Manifest[provs[served[1]][1].maker].kind = "entry_point"

activate(p, enabled) ==
    /\ state[p] # "absent"
    /\ LET s == should_activate(p, enabled)
       IN  IF s # "ACTIVE"
           THEN Persist(p, s) /\ UNCHANGED <<providers, effects, made>>
           ELSE \E new \in IF Manifest[p].kind = "subprocess" THEN {Commands(p)}
                           ELSE {Loaded(p), << >>},  \* << >>: the entry point does not load
                   healthy \in BOOLEAN :
                LET provs == Registry(providers, new)
                IN  /\ made + Len(new) <= MaxObjects
                    /\ healthy \/ MayBeSick(p, provs)
                    /\ providers' = provs
                    /\ effects' = [effects EXCEPT ![p] = Scoped(p, new, healthy)]
                    /\ made' = made + Len(new)
                    /\ Persist(p, IF healthy THEN "ACTIVE" ELSE "FAILED")
    /\ UNCHANGED profile

-----------------------------------------------------------------------------
(* Unloading: the scope is disposed of, last effect first.                 *)

Disposed_latest(provs, scope) ==
    IF scope = << >> THEN provs
    ELSE unregister_provider(provs, Last(scope))
Disposed(provs, scope) == FoldLeft(unregister_provider, provs, Reverse(scope))

\* Of what still serves in the plugin's name the first is taken out as well, whoever
\* registered it.
Leftover(p, provs) ==
    Selected(Manifest[p].capabilities,
             {c \in Capability : Resolvable(provs, c) /\ provs[c][1].plugin = p})

deactivate(p) ==
    /\ state[p] # "absent"
    /\ LET left == Disposed(providers, effects[p])
           more == Leftover(p, left)
       IN  providers' = IF more = << >> THEN left
                        ELSE unregister_provider(left, left[more[1]][1])
    /\ effects' = [effects EXCEPT ![p] = << >>]
    /\ Persist(p, "DISABLED")
    /\ UNCHANGED <<profile, made>>

\* One capability is run, by the plugin that serves it and under its own name.
execute(p, c) ==
    /\ state[p] \in SERVING /\ ~Blocked(p)
    /\ Resolvable(providers, c) /\ resolve(c).plugin = p
    /\ \E s \in {"EXECUTED", "FAILED"} : Persist(p, s)
    /\ UNCHANGED <<profile, providers, effects, made>>

-----------------------------------------------------------------------------
(* Other commands, each a process of its own.                              *)

\* The command ends and another starts: nothing but the database is left.
NextCommand ==
    /\ profile' \in Profiles
    /\ state' = stored
    /\ providers' = [c \in Capability |-> << >>]
    /\ effects' = [p \in Plugin |-> << >>]
    /\ made' = 0
    /\ UNCHANGED stored

\* "plugin remove", next to the running process.
plugin_remove(p) ==
    /\ stored[p] # "absent"
    /\ stored' = [stored EXCEPT ![p] = "REVOKED"]
    /\ UNCHANGED <<profile, state, providers, effects, made>>

PluginNext ==
    \/ NextCommand
    \/ \E p \in Plugin :
        \/ Discover(p) \/ deactivate(p) \/ plugin_remove(p)
        \/ \E enabled \in BOOLEAN : activate(p, enabled)
        \/ \E c \in Capability : execute(p, c)

PluginSpec == PluginInit /\ [][PluginNext]_pluginVars

-----------------------------------------------------------------------------
States == {"absent", "DISCOVERED", "ACTIVE", "PENDING", "BLOCKED", "DISABLED", "FAILED",
           "EXECUTED", "REVOKED"}

PluginTypeOK ==
    /\ profile \in Profiles
    /\ state \in [Plugin -> States] /\ stored \in [Plugin -> States]
    /\ made \in 0 .. MaxObjects

Offered(p) == UNION {{x \in ToSet(providers[c]) : x.maker = p} : c \in Capability}

\* The scope of a plugin holds every provider it has in the registry and none of
\* another plugin, whatever activations, failures, shadowing and discoveries led
\* there: to unload it takes back all of them and nothing else (EffectScope).  What it
\* holds is in the registry, but for a provider that carries the id of another plugin,
\* whose deactivation may have taken it out.
EffectsAreTheProviders ==
    \A p \in Plugin :
        /\ Offered(p) \subseteq ToSet(effects[p])
        /\ \A x \in ToSet(effects[p]) : x.maker = p /\ (x \in Offered(p) \/ x.plugin # p)

\* A capability is served by a provider of the highest precedence registered for
\* it, the one that came first among equals, also after others were taken out.
StrongestServes ==
    \A c \in Capability : \A x \in ToSet(providers[c]) :
        Resolvable(providers, c) =>
            \/ resolve(c).precedence > x.precedence
            \/ resolve(c).precedence = x.precedence
               /\ (resolve(c).object > 0 /\ x.object > 0 => resolve(c).object <= x.object)

\* The registry of a process, after any sequence of loading, failing, shadowing,
\* discovering and unloading: each plugin can be taken out of it as a whole, nothing
\* takes out a provider that carries its own plugin's id but its own deactivation, and
\* the strongest of those that are left serves.
RegistryIsSound == EffectsAreTheProviders /\ StrongestServes
=============================================================================
