-------------------------- MODULE MonitoringThread --------------------------
(***************************************************************************)
(* The life of the server: startSlave, _monitoringThread, which starts and *)
(* stops the lib60870 slave as south plugins come and go, and stop.  The   *)
(* south plugins report their connection in readings (south_event), which  *)
(* the thread of plugin_send stores without a lock while the monitoring    *)
(* thread walks over them.                                                 *)
(*                                                                         *)
(* The sweep of the outstanding commands at the end of a round is one step *)
(* here; OutstandingCommands says what it does.                            *)
(***************************************************************************)
EXTENDS Integers

CONSTANTS
    Plugins,  \* number of monitored south plugins
    Faults    \* what may go wrong in the environment

\* late control: startSlave may come before registerControl.
\* failing operation: the operation callback may return 0 or less.
\* failing start: CS104_Slave_start may fail to bind.
FaultKinds == {"late control", "failing operation", "failing start"}

ASSUME PluginsAssumption == Plugins \in Nat
ASSUME FaultsAssumption == Faults \subseteq FaultKinds

VARIABLES
    faults,          \* what may go wrong in this behaviour
    mode,            \* IEC104Config::Mode, configured before the start
    registered,      \* m_oper # nullptr
    connxStatus,     \* m_connxStatus of each SouthPluginMonitor
    slave,           \* the lib60870 server behind m_slave
    started,         \* m_started
    stopper,         \* where stop stands
    pc,              \* where the monitoring thread stands
    plugin,          \* checkIfSouthConnected: the plugin it looks at next
    southStatusRequested,
    serverRunning,
    initSocketFinished,  \* m_initSocketFinished
    notices          \* init_socket_finished messages the south side took since
                     \* the slave was last started or stopped (history)

envVars == <<faults, mode, registered, connxStatus>>
threadVars == <<pc, plugin, southStatusRequested, serverRunning,
                initSocketFinished, notices>>
mtVars == <<envVars, slave, started, stopper, threadVars>>

SouthPlugins == 1 .. Plugins

Modes == {"CONNECT_ALWAYS", "CONNECT_IF_SOUTH_CONNX_STARTED"}

ThreadPcs == {"none", "loop", "request", "mode", "notify", "check", "sweep", "ended"}

MTInit ==
    /\ faults \in SUBSET Faults
    /\ mode \in Modes
    /\ registered = FALSE
    /\ connxStatus = [p \in SouthPlugins |-> "NOT_CONNECTED"]
    /\ slave = "stopped"
    /\ started = FALSE
    /\ stopper = "idle"
    /\ pc = "none"
    /\ plugin = 1
    /\ southStatusRequested = FALSE
    /\ serverRunning = FALSE
    /\ initSocketFinished = FALSE
    /\ notices = 0

-----------------------------------------------------------------------------
(* Fledge and the south plugins *)

registerControl ==
    /\ ~registered
    /\ stopper = "idle"
    /\ registered' = TRUE
    /\ UNCHANGED <<faults, mode, connxStatus, slave, started, stopper, threadVars>>

\* Any connx_status but "started" counts as "not connected".
updateSouthMonitoringInstance(p) ==
    /\ \E s \in {"NOT_CONNECTED", "STARTED"} \ {connxStatus[p]} :
          connxStatus' = [connxStatus EXCEPT ![p] = s]
    /\ UNCHANGED <<faults, mode, registered, slave, started, stopper, threadVars>>

startSlave ==
    /\ stopper = "idle"
    /\ pc = "none"
    /\ "late control" \in faults \/ registered
    /\ started' = TRUE
    /\ pc' = "loop"
    /\ UNCHANGED <<envVars, slave, stopper, plugin, southStatusRequested,
                   serverRunning, initSocketFinished, notices>>

\* Mistake: the thread is not joined.
StopRequestedWithoutJoin ==
    /\ stopper = "idle"
    /\ started' = FALSE
    /\ stopper' = "joined"
    /\ UNCHANGED <<envVars, slave, threadVars>>

\* stop: clear m_started, join the thread, destroy the slave.
StopRequested ==
    /\ stopper = "idle"
    /\ started' = FALSE
    /\ stopper' = IF started THEN "joining" ELSE "joined"
    /\ UNCHANGED <<envVars, slave, threadVars>>

Join ==
    /\ stopper = "joining"
    /\ pc = "ended"
    /\ stopper' = "joined"
    /\ UNCHANGED <<envVars, slave, started, threadVars>>

DestroySlave ==
    /\ stopper = "joined"
    /\ slave' = "destroyed"
    /\ stopper' = "stopped"
    /\ UNCHANGED <<envVars, started, threadVars>>

-----------------------------------------------------------------------------
(* The monitoring thread *)

\* The outcomes of operation: was it called back with a result above zero?
operation(ok) == ok = registered \/ ("failing operation" \in faults /\ ok = FALSE)

\* CS104_Slave_start, which reports nothing to its caller.
StartServer ==
    /\ slave' = "running" \/ ("failing start" \in faults /\ slave' = "stopped")
    /\ serverRunning' = TRUE
    /\ notices' = 0

StopServer ==
    /\ slave' = "stopped"
    /\ serverRunning' = FALSE
    /\ notices' = 0

LeaveLoop ==
    /\ pc = "loop"
    /\ ~started
    /\ pc' = "ended"
    /\ IF serverRunning THEN StopServer ELSE UNCHANGED <<slave, serverRunning, notices>>
    /\ UNCHANGED <<envVars, started, stopper, plugin, southStatusRequested,
                   initSocketFinished>>

\* Mistake: m_started is not tested.
EnterRoundAlways ==
    /\ pc = "loop"
    /\ pc' = IF southStatusRequested THEN "mode" ELSE "request"
    /\ UNCHANGED <<envVars, slave, started, stopper, plugin,
                   southStatusRequested, serverRunning, initSocketFinished, notices>>

EnterRound ==
    /\ pc = "loop"
    /\ started
    /\ pc' = IF southStatusRequested THEN "mode" ELSE "request"
    /\ UNCHANGED <<envVars, slave, started, stopper, plugin,
                   southStatusRequested, serverRunning, initSocketFinished, notices>>

requestSouthConnectionStatus ==
    /\ pc = "request"
    /\ operation(southStatusRequested')
    /\ pc' = "mode"
    /\ UNCHANGED <<envVars, slave, started, stopper, plugin, serverRunning,
                   initSocketFinished, notices>>

StartAlways ==
    /\ pc = "mode"
    /\ mode = "CONNECT_ALWAYS"
    /\ IF serverRunning THEN UNCHANGED <<slave, serverRunning, notices>> ELSE StartServer
    /\ pc' = "sweep"
    /\ UNCHANGED <<envVars, started, stopper, plugin, southStatusRequested,
                   initSocketFinished>>

\* Mistake: the walk over the plugins starts before the first one.
ConsiderSouthFromZero ==
    /\ pc = "mode"
    /\ mode = "CONNECT_IF_SOUTH_CONNX_STARTED"
    /\ pc' = IF serverRunning /\ slave = "running" /\ ~initSocketFinished
               THEN "notify" ELSE "check"
    /\ plugin' = 0
    /\ UNCHANGED <<envVars, slave, started, stopper, southStatusRequested,
                   serverRunning, initSocketFinished, notices>>

\* Mistake: the walk goes on where the last one ended.
ConsiderSouthWithoutReset ==
    /\ pc = "mode"
    /\ mode = "CONNECT_IF_SOUTH_CONNX_STARTED"
    /\ pc' = IF serverRunning /\ slave = "running" /\ ~initSocketFinished
               THEN "notify" ELSE "check"
    /\ UNCHANGED <<envVars, slave, started, stopper, plugin, southStatusRequested,
                   serverRunning, initSocketFinished, notices>>

\* With the server running the south is told first, if it has not been yet.
ConsiderSouth ==
    /\ pc = "mode"
    /\ mode = "CONNECT_IF_SOUTH_CONNX_STARTED"
    /\ pc' = IF serverRunning /\ slave = "running" /\ ~initSocketFinished
               THEN "notify" ELSE "check"
    /\ plugin' = 1
    /\ UNCHANGED <<envVars, slave, started, stopper, southStatusRequested,
                   serverRunning, initSocketFinished, notices>>

\* Mistake: the flag is not set.
NotifySouthAgain ==
    /\ pc = "notify"
    /\ \E heard \in BOOLEAN :
          /\ operation(heard)
          /\ notices' = IF heard THEN notices + 1 ELSE notices
    /\ pc' = "check"
    /\ UNCHANGED <<envVars, slave, started, stopper, plugin,
                   southStatusRequested, serverRunning, initSocketFinished>>

NotifySouth ==
    /\ pc = "notify"
    /\ \E heard \in BOOLEAN :
          /\ operation(heard)
          /\ notices' = IF heard THEN notices + 1 ELSE notices
    /\ initSocketFinished' = TRUE
    /\ pc' = "check"
    /\ UNCHANGED <<envVars, slave, started, stopper, plugin,
                   southStatusRequested, serverRunning>>

\* checkIfSouthConnected looks at one plugin after the other; updates of the
\* others may come in between.
NextPlugin ==
    /\ pc = "check"
    /\ plugin \in SouthPlugins
    /\ connxStatus[plugin] # "STARTED"
    /\ plugin' = plugin + 1
    /\ UNCHANGED <<envVars, slave, started, stopper, pc, southStatusRequested,
                   serverRunning, initSocketFinished, notices>>

SouthConnected ==
    /\ pc = "check"
    /\ plugin \in SouthPlugins
    /\ connxStatus[plugin] = "STARTED"
    /\ IF serverRunning THEN UNCHANGED <<slave, serverRunning, notices>> ELSE StartServer
    /\ pc' = "sweep"
    /\ UNCHANGED <<envVars, started, stopper, plugin, southStatusRequested,
                   initSocketFinished>>

\* Mistake: "continue" without a south side, which skips the sweep.
SouthNotConnectedContinues ==
    /\ pc = "check"
    /\ plugin > Plugins
    /\ IF serverRunning
         THEN StopServer /\ initSocketFinished' = FALSE
         ELSE UNCHANGED <<slave, serverRunning, notices, initSocketFinished>>
    /\ pc' = "loop"
    /\ UNCHANGED <<envVars, started, stopper, plugin, southStatusRequested>>

\* Mistake: the flag is not cleared.
SouthNotConnectedKeepsFlag ==
    /\ pc = "check"
    /\ plugin > Plugins
    /\ IF serverRunning THEN StopServer ELSE UNCHANGED <<slave, serverRunning, notices>>
    /\ pc' = "sweep"
    /\ UNCHANGED <<envVars, started, stopper, plugin, southStatusRequested,
                   initSocketFinished>>

SouthNotConnected ==
    /\ pc = "check"
    /\ plugin > Plugins
    /\ IF serverRunning
         THEN StopServer /\ initSocketFinished' = FALSE
         ELSE UNCHANGED <<slave, serverRunning, notices, initSocketFinished>>
    /\ pc' = "sweep"
    /\ UNCHANGED <<envVars, started, stopper, plugin, southStatusRequested>>

Sweep ==
    /\ pc = "sweep"
    /\ pc' = "loop"
    /\ UNCHANGED <<envVars, slave, started, stopper, plugin,
                   southStatusRequested, serverRunning, initSocketFinished, notices>>

_monitoringThread ==
    \/ EnterRound
    \/ LeaveLoop
    \/ requestSouthConnectionStatus
    \/ StartAlways
    \/ ConsiderSouth
    \/ NotifySouth
    \/ NextPlugin
    \/ SouthConnected
    \/ SouthNotConnected
    \/ Sweep

stop == StopRequested \/ Join \/ DestroySlave

MTNext ==
    \/ registerControl
    \/ \E p \in SouthPlugins : updateSouthMonitoringInstance(p)
    \/ startSlave
    \/ stop
    \/ _monitoringThread

MTSpec == MTInit /\ [][MTNext]_mtVars

\* The monitoring thread never waits for anything but its sleep of 100 ms and
\* the calls it makes, which return; stop, once called, goes on.
MTFairness == WF_mtVars(_monitoringThread) /\ WF_mtVars(Join) /\ WF_mtVars(DestroySlave)

MTFairSpec == MTSpec /\ MTFairness

-----------------------------------------------------------------------------
(* Properties *)

\* Every variable has its type.
MTTypeOK ==
    /\ faults \subseteq Faults
    /\ mode \in Modes
    /\ registered \in BOOLEAN
    /\ connxStatus \in [SouthPlugins -> {"NOT_CONNECTED", "STARTED"}]
    /\ slave \in {"stopped", "running", "destroyed"}
    /\ started \in BOOLEAN
    /\ stopper \in {"idle", "joining", "joined", "stopped"}
    /\ pc \in ThreadPcs
    /\ plugin \in 1 .. Plugins + 1
    /\ southStatusRequested \in BOOLEAN
    /\ serverRunning \in BOOLEAN
    /\ initSocketFinished \in BOOLEAN
    /\ notices \in Nat

\* The monitoring thread never touches the slave after stop destroyed it, and
\* the slave is not destroyed while it runs.
SlaveOutlivesThread ==
    slave = "destroyed" => pc \in {"none", "ended"} /\ ~serverRunning

\* The south side hears "init_socket_finished" at most once for each start of
\* the server, and only while the server listens.
ToldOncePerStart == notices =< 1 /\ (notices = 1 => slave = "running")

StaysConnected(p) == <>[](started /\ connxStatus[p] = "STARTED")

\* Unless its start fails, the server follows its mode.  In CONNECT_ALWAYS it
\* runs for good once started.  Otherwise a south plugin that stays connected
\* gets it running for good, and it stops for good when no plugin comes back:
\* no status is missed, whichever plugin reports it while the thread walks over
\* them.
ServerFollowsMode ==
    "failing start" \notin faults =>
    IF mode = "CONNECT_ALWAYS"
      THEN <>[]started => <>[](slave = "running")
      ELSE /\ (\E p \in SouthPlugins : StaysConnected(p)) => <>[](slave = "running")
           /\ <>[](\A p \in SouthPlugins : connxStatus[p] # "STARTED")
                => <>[](slave # "running")

\* Where nothing goes wrong, the south side is eventually told after every start
\* of the server, also after the south connection was lost and came back.
SouthIsTold ==
    faults = {} /\ mode = "CONNECT_IF_SOUTH_CONNX_STARTED" =>
        ((\E p \in SouthPlugins : StaysConnected(p)) => <>[](notices = 1))
=============================================================================
