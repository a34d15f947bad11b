---------------------------- MODULE IEC104Server ----------------------------
(***************************************************************************)
(* The server as a whole: the command path, the connections and their      *)
(* audits (CommandPath) under the life of the server (MonitoringThread).   *)
(* The monitoring thread starts and stops the slave that masters connect   *)
(* to and sweeps the list they fill; a command needs a south plugin that   *)
(* is started when it arrives, its feedback a slave that runs when it is   *)
(* sent; stop waits for the thread and then for the connections; the       *)
(* destructor empties the list before it calls stop.                       *)
(*                                                                         *)
(* CS104_Slave_stop ends the listening.  Whether it closes the connections *)
(* too is left open: they may close at any time anyway.  CS104_Slave_      *)
(* destroy closes them all, each in its own thread, and waits for that.    *)
(***************************************************************************)
EXTENDS CommandPath

CONSTANTS
    Plugins,  \* number of monitored south plugins
    Faults    \* what may go wrong in the environment of MonitoringThread

\* Without registerControl, and with a callback that fails, commands fail too.
ASSUME ServerAssumption == OperationMayFail \/ Faults \subseteq {"failing start"}

VARIABLES
    faults, mode, registered, connxStatus, slave, started, stopper, pc, plugin,
    southStatusRequested, serverRunning, initSocketFinished, notices,
    deleting  \* has the destructor begun?

Life == INSTANCE MonitoringThread

lifeVars == <<faults, mode, registered, connxStatus, slave, started, stopper, pc,
              plugin, southStatusRequested, serverRunning, initSocketFinished,
              notices>>

serverVars == <<vars, lifeVars, deleting>>

ServerInit == Init /\ Life!MTInit /\ deleting = FALSE

-----------------------------------------------------------------------------
(* Steps of one part alone *)

OfPath(A) == A /\ UNCHANGED <<lifeVars, deleting>>

OfLife(A) == A /\ UNCHANGED <<vars, deleting>>

-----------------------------------------------------------------------------
(* The life of the server *)

startServer ==
    /\ ~deleting
    /\ Life!startSlave
    /\ Start
    /\ UNCHANGED deleting

SouthSide ==
    OfLife(\/ ~deleting /\ Life!registerControl
           \/ \E p \in Life!SouthPlugins : Life!updateSouthMonitoringInstance(p))

\* A round ends with the sweep of the list; the other steps leave it alone.
Round ==
    \/ Life!Sweep /\ Monitor /\ UNCHANGED deleting
    \/ pc # "sweep" /\ OfLife(Life!_monitoringThread)

\* ~IEC104Server: the list is emptied, then stop is called again.
Destructor ==
    /\ stopper \in {"idle", "stopped"}
    /\ ~deleting
    /\ deleting' = TRUE
    /\ removeAllOutstandingCommands
    /\ UNCHANGED <<rgVars, cpVars, lifeVars>>

StopRequested == OfLife(Life!StopRequested)

Join == OfLife(Life!Join)

AllClosed == \A c \in Conns : ~IsOpen(c)

DestroySlave == AllClosed /\ OfLife(Life!DestroySlave)

-----------------------------------------------------------------------------
(* Masters and the south side *)

SouthIsStarted == \E p \in Life!SouthPlugins : connxStatus[p] = "STARTED"

\* asduHandler goes on to its end, whatever becomes of the south side.
HandlerGoesOn(c) ==
    OfPath(\/ ForwardAdd(c)
           \/ registered /\ OperationAccepted(c)
           \/ OperationFailed(c)
           \/ SendNegativeResponse(c))

CommandArrives(c) == SouthIsStarted /\ OfPath(validateCommand(c))

\* Only a slave that runs accepts connections.
Connect(c) == slave = "running" /\ OfPath(Open(c))

EndConnection(c) == OfPath(Close(c))

TakeOverGoesOn(c) == OfPath(Activate(c) \/ \E d \in Conns : TakeOver(c, d))

RequestStartOrStop(c) == OfPath(RequestStart(c) \/ RequestStop(c))

\* send drops what comes while the slave does not run.
Reading ==
    OfPath(\E x \in south :
              \/ /\ slave = "running"
                 /\ \/ \E negative \in BOOLEAN : FeedbackActCon(x, negative)
                    \/ FeedbackActTerm(x)
              \/ FeedbackLost(x))

-----------------------------------------------------------------------------

ServerNext ==
    \/ startServer
    \/ SouthSide
    \/ Round
    \/ Destructor
    \/ StopRequested
    \/ Join
    \/ DestroySlave
    \/ \E c \in Conns :
          \/ CommandArrives(c)
          \/ HandlerGoesOn(c)
          \/ Connect(c)
          \/ EndConnection(c)
          \/ TakeOverGoesOn(c)
          \/ RequestStartOrStop(c)
    \/ Reading
    \/ OfPath(ClockTick)

ServerSpec == ServerInit /\ [][ServerNext]_serverVars

\* The monitoring thread goes on, a stop that was called and the one at the end
\* of the destructor too, the clock advances, a handler that has begun ends, and
\* CS104_Slave_destroy closes what is open (strong fairness: the connection's
\* thread sees it in each round of its loop, between any two messages).  Masters,
\* the south side and Fledge need do nothing.
ServerFairness ==
    /\ WF_serverVars(Round)
    /\ WF_serverVars(deleting /\ StopRequested)
    /\ WF_serverVars(Join)
    /\ WF_serverVars(DestroySlave)
    /\ WF_serverVars(OfPath(ClockTick))
    /\ \A c \in Conns :
          /\ WF_serverVars(HandlerGoesOn(c))
          /\ WF_serverVars(TakeOverGoesOn(c))
          /\ SF_serverVars(stopper = "joined" /\ EndConnection(c))

ServerFairSpec == ServerSpec /\ ServerFairness

-----------------------------------------------------------------------------
(* Properties *)

\* When stop has returned, no connection is open, the service is not reported as
\* connected, and no command is left in the list that would name a connection
\* object which is freed: whatever the handlers, take-overs, the sweep and the
\* destructor were doing when stop was called, and although the destructor
\* empties the list before the connection threads have ended.
StopLeavesNothing ==
    stopper = "stopped" =>
        /\ AllClosed
        /\ globalAudit # "connected"
        /\ kept /\ EveryClientIsListed => outstanding = {}

\* No command waits for ever, whatever becomes of the south side, the slave and
\* the server after it was accepted: the sweep, or else the end of its
\* connection, removes it.  (The clients are listed and keep to their entries;
\* others may have commands left when the sweep has ended.)
CommandsEnd ==
    []kept /\ EveryClientIsListed =>
        \A n \in Commands :
            (\E e \in outstanding : e.seq = n) ~> (\A e \in outstanding : e.seq # n)

\* stop returns, although it waits for the monitoring thread and for handlers
\* and take-overs that are under way on the connections.
StopEnds == stopper # "idle" ~> stopper = "stopped"
=============================================================================
