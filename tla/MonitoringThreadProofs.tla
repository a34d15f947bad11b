----------------------- MODULE MonitoringThreadProofs -----------------------
(***************************************************************************)
(* The safety of the server's life cycle, for every number of monitored    *)
(* south plugins, both modes and every environment.                        *)
(***************************************************************************)
EXTENDS MonitoringThread, TLAPS

HasEnded == pc \in {"none", "ended"}

\* What stop relies on: a thread exists, or is over, exactly as m_started and
\* the progress of stop say.
StopInv ==
    /\ stopper = "idle" => (started <=> ~HasEnded)
    /\ stopper # "idle" => ~started
    /\ stopper \in {"joined", "stopped"} => HasEnded
    /\ slave = "destroyed" => stopper = "stopped"

\* What the flags say about the slave.
SlaveInv ==
    /\ slave = "running" => serverRunning
    /\ serverRunning => ~HasEnded

\* What the flags say about the south side.
NoticeInv ==
    /\ pc = "notify" => ~initSocketFinished /\ serverRunning /\ slave = "running"
    /\ notices \in {0, 1}
    /\ notices = 1 => initSocketFinished /\ slave = "running"

MTInv == MTTypeOK /\ StopInv /\ SlaveInv /\ NoticeInv

-----------------------------------------------------------------------------

\* The initial state satisfies the invariant.
LEMMA MTInitInv == MTInit => MTInv
<1> SUFFICES ASSUME MTInit PROVE MTInv
  OBVIOUS
<1>1. connxStatus \in [SouthPlugins -> {"NOT_CONNECTED", "STARTED"}]
  BY DEF MTInit
<1>2. plugin \in 1 .. Plugins + 1 /\ notices \in Nat
  BY PluginsAssumption DEF MTInit
<1>3. MTTypeOK
  BY <1>1, <1>2 DEF MTInit, MTTypeOK, ThreadPcs
<1> QED BY <1>3 DEF MTInit, MTInv, StopInv, SlaveInv, NoticeInv, HasEnded

\* operation yields a truth value.
LEMMA OperationOutcome ==
    ASSUME NEW ok, registered \in BOOLEAN, operation(ok)
    PROVE  ok \in BOOLEAN
BY DEF operation

\* Steps of Fledge, of the south plugins and of stop keep the invariant.
LEMMA EnvironmentInv ==
    ASSUME MTInv,
           \/ registerControl
           \/ \E p \in SouthPlugins : updateSouthMonitoringInstance(p)
           \/ startSlave
           \/ stop
    PROVE  MTInv'
<1> USE DEF MTInv, MTTypeOK, StopInv, SlaveInv, NoticeInv, HasEnded, ThreadPcs,
            envVars, threadVars
<1>1. CASE registerControl
  BY <1>1 DEF registerControl
<1>2. CASE \E p \in SouthPlugins : updateSouthMonitoringInstance(p)
  <2>1. PICK p \in SouthPlugins : updateSouthMonitoringInstance(p)
    BY <1>2
  <2>2. connxStatus' \in [SouthPlugins -> {"NOT_CONNECTED", "STARTED"}]
    BY <2>1 DEF updateSouthMonitoringInstance
  <2> QED BY <2>1, <2>2 DEF updateSouthMonitoringInstance
<1>3. CASE startSlave
  BY <1>3 DEF startSlave
<1>4. CASE StopRequested
  BY <1>4 DEF StopRequested
<1>5. CASE Join
  BY <1>5 DEF Join
<1>6. CASE DestroySlave
  BY <1>6 DEF DestroySlave
<1> QED BY <1>1, <1>2, <1>3, <1>4, <1>5, <1>6 DEF stop

\* Every step of the monitoring thread keeps the invariant.
LEMMA ThreadInv ==
    ASSUME MTInv, _monitoringThread
    PROVE  MTInv'
<1> USE PluginsAssumption
    DEF MTInv, MTTypeOK, StopInv, SlaveInv, NoticeInv, HasEnded, ThreadPcs, SouthPlugins,
        envVars, threadVars
<1>1. CASE EnterRound
  BY <1>1 DEF EnterRound
<1>2. CASE LeaveLoop
  <2>1. CASE serverRunning
    <3>1. slave' = "stopped" /\ serverRunning' = FALSE /\ notices' = 0
      BY <1>2, <2>1, Zenon DEF LeaveLoop, StopServer
    <3>2. slave # "destroyed"
      BY <2>1
    <3>3. pc = "loop" /\ ~started /\ pc' = "ended"
          /\ UNCHANGED <<envVars, started, stopper, plugin, southStatusRequested,
                         initSocketFinished>>
      BY <1>2, Zenon DEF LeaveLoop
    <3>4. MTTypeOK'
      BY <3>1, <3>3
    <3> QED BY <3>1, <3>2, <3>3, <3>4
  <2>2. CASE ~serverRunning
    BY <1>2, <2>2 DEF LeaveLoop
  <2> QED BY <2>1, <2>2
<1>3. CASE requestSouthConnectionStatus
  <2>1. southStatusRequested' \in BOOLEAN
    BY <1>3, OperationOutcome DEF requestSouthConnectionStatus
  <2> QED BY <1>3, <2>1 DEF requestSouthConnectionStatus
<1>4. CASE StartAlways
  BY <1>4 DEF StartAlways, StartServer
<1>5. CASE ConsiderSouth
  BY <1>5 DEF ConsiderSouth
<1>6. CASE NotifySouth
  BY <1>6 DEF NotifySouth
<1>7. CASE NextPlugin
  BY <1>7 DEF NextPlugin
<1>8. CASE SouthConnected
  BY <1>8 DEF SouthConnected, StartServer
<1>9. CASE SouthNotConnected
  <2>1. CASE serverRunning
    <3>1. slave' = "stopped" /\ serverRunning' = FALSE /\ notices' = 0 /\ initSocketFinished' = FALSE
      BY <1>9, <2>1, Zenon DEF SouthNotConnected, StopServer
    <3>2. slave # "destroyed"
      BY <2>1
    <3>3. pc = "check" /\ pc' = "sweep"
          /\ UNCHANGED <<envVars, started, stopper, plugin, southStatusRequested>>
      BY <1>9, Zenon DEF SouthNotConnected
    <3>4. MTTypeOK'
      BY <3>1, <3>3
    <3> QED BY <3>1, <3>2, <3>3, <3>4
  <2>2. CASE ~serverRunning
    BY <1>9, <2>2 DEF SouthNotConnected
  <2> QED BY <2>1, <2>2
<1>10. CASE Sweep
  BY <1>10 DEF Sweep
<1> QED
  BY <1>1, <1>2, <1>3, <1>4, <1>5, <1>6, <1>7, <1>8, <1>9, <1>10 DEF _monitoringThread

\* The invariant is inductive.
LEMMA MTNextInv == MTInv /\ [MTNext]_mtVars => MTInv'
<1> SUFFICES ASSUME MTInv, [MTNext]_mtVars PROVE MTInv'
  OBVIOUS
<1>1. CASE _monitoringThread
  BY <1>1, ThreadInv
<1>2. CASE MTNext /\ ~_monitoringThread
  BY <1>2, EnvironmentInv DEF MTNext
<1>3. CASE UNCHANGED mtVars
  BY <1>3 DEF mtVars, envVars, threadVars, MTInv, MTTypeOK, StopInv, SlaveInv, NoticeInv, HasEnded
<1> QED BY <1>1, <1>2, <1>3

\* The invariant holds in every reachable state.
LEMMA MTInvAlways == MTSpec => []MTInv
BY MTInitInv, MTNextInv, PTL DEF MTSpec

\* Every variable of the monitoring thread has its type.
THEOREM ServerTypeCorrect == MTSpec => []MTTypeOK
<1>1. MTInv => MTTypeOK
  BY DEF MTInv
<1> QED BY <1>1, MTInvAlways, PTL

\* stop joins the monitoring thread before it destroys the slave, wherever it
\* finds the thread, and the thread leaves the slave stopped behind.
THEOREM SlaveIsNotUsedAfterStop == MTSpec => []SlaveOutlivesThread
<1>1. MTInv => SlaveOutlivesThread
  BY DEF MTInv, StopInv, SlaveInv, HasEnded, SlaveOutlivesThread
<1> QED BY <1>1, MTInvAlways, PTL

\* The south side is told of each start of the server at most once.
THEOREM SouthIsToldOnce == MTSpec => []ToldOncePerStart
<1>1. MTInv => ToldOncePerStart
  BY DEF MTInv, NoticeInv, ToldOncePerStart
<1> QED BY <1>1, MTInvAlways, PTL
=============================================================================
