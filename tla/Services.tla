------------------------------ MODULE Services ------------------------------
(***************************************************************************)
(* The route chain, the plugin runtime, the import, the bar replay, the    *)
(* backtest, the self-evolve loop, the provider settings, the installation *)
(* of plugins and the integration of agents.  They share no state, so that *)
(* interleaving them shows nothing: a behaviour picks one of them at its   *)
(* beginning and the others stand still.                                   *)
(***************************************************************************)
EXTENDS RouteChain, PluginRuntime, TradeImport, BarReplay, Backtest, SelfEvolve,
        ProviderSettings, PluginInstall, AgentIntegration

VARIABLE service

servicesVars ==
    <<service, routeVars, pluginVars, importVars, replayVars, backtestVars, evolveVars,
      settingsVars, installVars, agentVars>>

ServicesInit ==
    /\ service \in {"route", "plugins", "import", "replay", "backtest", "evolve",
                    "settings", "install", "agents"}
    /\ RouteInit /\ PluginInit /\ ImportInit /\ ReplayInit /\ BacktestInit /\ EvolveInit
    /\ SettingsInit /\ InstallInit /\ IntegrationInit
    \* One profile, one series, one strategy and one format are enough for those that
    \* have none.
    /\ service # "plugins" => profile = {}
    /\ service # "backtest" =>
           /\ bars = [i \in Index |-> CHOOSE b \in Shape : TRUE]
           /\ strategy = CHOOSE s \in Strategy : TRUE
    /\ service # "agents" => format = "json"

Stands(name, vars) == IF service = name THEN TRUE ELSE UNCHANGED vars

ServicesNext ==
    /\ UNCHANGED service
    /\ Stands("route", routeVars) /\ Stands("plugins", pluginVars) /\ Stands("import", importVars)
    /\ Stands("replay", replayVars) /\ Stands("backtest", backtestVars)
    /\ Stands("evolve", evolveVars) /\ Stands("settings", settingsVars)
    /\ Stands("install", installVars) /\ Stands("agents", agentVars)
    /\ \/ service = "route" /\ RouteNext
       \/ service = "plugins" /\ PluginNext
       \/ service = "import" /\ ImportNext
       \/ service = "replay" /\ ReplayNext
       \/ service = "backtest" /\ BacktestNext
       \/ service = "evolve" /\ EvolveNext
       \/ service = "settings" /\ SettingsNext
       \/ service = "install" /\ InstallNext
       \/ service = "agents" /\ IntegrationNext

\* RouteFairness, of the service that has it.
ServicesFairness == \A u \in Turn : WF_routeVars(service = "route" /\ RouteStep(u))

ServicesSpec == ServicesInit /\ [][ServicesNext]_servicesVars /\ ServicesFairness

\* Shape of the state of the service that moves, as its module says it.
ServicesTypeOK ==
    /\ service = "route"    => RouteTypeOK
    /\ service = "plugins"  => PluginTypeOK
    /\ service = "import"   => ImportTypeOK
    /\ service = "replay"   => ReplayTypeOK
    /\ service = "backtest" => BacktestTypeOK
    /\ service = "evolve"   => EvolveTypeOK
    /\ service = "settings" => SettingsTypeOK
    /\ service = "install"  => InstallTypeOK
    /\ service = "agents"   => IntegrationTypeOK
=============================================================================
