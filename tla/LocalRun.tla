------------------------------ MODULE LocalRun ------------------------------
(***************************************************************************)
(* Starting and stopping the two programs (relay/local.rs, relay/server.rs)*)
(* and their plugins (plugin/mod.rs).                                      *)
(*                                                                         *)
(* A program runs its relays, and its plugin if one is configured, until   *)
(* the first of them ends; then it stops as a whole.  The local side waits *)
(* for its plugin before it listens, the server side does not.             *)
(***************************************************************************)
EXTENDS Context, Integers

CONSTANT PluginTries    \* how often the local side tries its plugin (10)

ASSUME PluginTriesAssumption == PluginTries \in Nat \ {0}

VARIABLES
    phase,      \* of each program: "launch", "check", "running" or "stopped"
    plugin,     \* of each program: "none", "starting", "listening" or "exited"
    tried       \* how often the local side has tried its plugin

launch == <<phase, plugin, tried>>

Sides == {"local", "server"}

enable_tcp ==
    config.config_type \in {"Socks5Local", "HttpLocal"} \/ config.mode \in {"TcpOnly", "TcpAndUdp"}

LaunchInit ==
    /\ phase = [s \in Sides |-> "launch"]
    /\ plugin = [s \in Sides |-> "none"]
    /\ tried = 0

Becomes(s, p) == phase' = [phase EXCEPT ![s] = p]
PluginBecomes(s, p) == plugin' = [plugin EXCEPT ![s] = p]

\* A plugin that cannot be started ends the program.
launch_plugins(s, next) ==
    \/ PluginBecomes(s, "starting") /\ Becomes(s, next)
    \/ UNCHANGED plugin /\ Becomes(s, "stopped")

\* relay::local::run, until its relays run
run_local ==
    /\ phase["local"] = "launch"
    /\ IF enable_tcp /\ "local" \in config.plugins
       THEN launch_plugins("local", "check")
       ELSE UNCHANGED plugin /\ Becomes("local", "running")
    /\ UNCHANGED <<config, tried>>

\* relay::server::run_with
run_with ==
    /\ phase["server"] = "launch"
    /\ IF "server" \in config.plugins
       THEN launch_plugins("server", "running")
       ELSE UNCHANGED plugin /\ Becomes("server", "running")
    /\ UNCHANGED <<config, tried>>

\* One try to connect to the plugin, and the wait after one that failed.
check_plugins_started ==
    /\ phase["local"] = "check"
    /\ IF plugin["local"] = "listening"
       THEN Becomes("local", "running") /\ UNCHANGED tried
       ELSE /\ tried' = tried + 1
            /\ IF tried' = PluginTries THEN Becomes("local", "stopped") ELSE UNCHANGED phase
    /\ UNCHANGED <<config, plugin>>

\* The plugin's process binds its port, or ends.
PluginListens(s) ==
    /\ plugin[s] = "starting"
    /\ PluginBecomes(s, "listening")
    /\ UNCHANGED <<config, phase, tried>>

PluginExits(s) ==
    /\ plugin[s] \in {"starting", "listening"}
    /\ PluginBecomes(s, "exited")
    /\ UNCHANGED <<config, phase, tried>>

\* Plugins::into_future resolves, and with it select_all.
PluginWatched(s) ==
    /\ phase[s] = "running" /\ plugin[s] = "exited" /\ (s = "local" => FreeWorker)
    /\ Becomes(s, "stopped")
    /\ UNCHANGED <<config, plugin, tried>>

\* accept() fails, which ends the TCP relay and with it the program.  Its
\* plugin is killed when the program is gone.
RelayEnds(s) ==
    /\ phase[s] = "running" /\ (s = "local" => FreeWorker)
    /\ Becomes(s, "stopped")
    /\ plugin' = [plugin EXCEPT ![s] = IF @ = "none" THEN @ ELSE "exited"]
    /\ UNCHANGED <<config, tried>>

\* A connection to the program gets through, via its plugin if it has one.
Reachable(s) ==
    /\ phase[s] = "running"
    /\ s \in config.plugins => plugin[s] = "listening"
=============================================================================
