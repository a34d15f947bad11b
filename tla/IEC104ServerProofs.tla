------------------------ MODULE IEC104ServerProofs ------------------------
(***************************************************************************)
(* Proofs about the connections of outstanding commands: for any clients,  *)
(* connections and keys, no command of a listed client that keeps to its   *)
(* entries is left in the list when its connection object is freed, and    *)
(* stop leaves neither commands nor connections behind.  What is proved of *)
(* the parts holds in the whole server.                                    *)
(***************************************************************************)
EXTENDS IEC104Server, CommandPathProofs, RedundancyGroupsProofs

\* Connections come from clients that may connect.
OpenWereAccepted == \A c \in Conns : IsOpen(c) => Accepts(conn[c].ip)

\* asduHandler only runs on open connections.
BusyIsOpen == \A c \in Conns : handler[c].pc # "idle" => IsOpen(c)

OrphansWereIssued == orphans \subseteq 1 .. nextSeq - 1

\* The inductive invariant.
LiveInv ==
    /\ DialogueInv
    /\ AuditInv
    /\ OpenWereAccepted
    /\ BusyIsOpen
    /\ OrphansWereIssued
    /\ CommandsOnLiveConnections

\* Every entry after the step was there before it.
NothingAdded ==
    \A h \in outstanding' : \E g \in outstanding : g.seq = h.seq /\ g.conn = h.conn

-----------------------------------------------------------------------------

\* Each step of the command path is one of the connections or leaves them alone.
LEMMA PathSteps == [Next]_vars => [RGNext]_rgVars
<1> SUFFICES ASSUME [Next]_vars PROVE [RGNext]_rgVars
  OBVIOUS
<1>1. CASE Start
  BY <1>1 DEF Start, RGNext
<1>2. ASSUME NEW c \in Conns, AsduHandler(c) PROVE UNCHANGED rgVars
  BY <1>2 DEF AsduHandler, validateCommand, ForwardAdd, OperationAccepted, OperationFailed,
              SendNegativeResponse
<1>3. ASSUME NEW c \in Conns, ConnectionEvent(c) PROVE RGNext
  BY <1>3 DEF ConnectionEvent, Open, Close, RequestStart, TakeOver, Activate, RequestStop, RGNext
<1>4. CASE Feedback \/ Monitor \/ ClockTick
  BY <1>4 DEF Feedback, FeedbackActCon, FeedbackActTerm, FeedbackLost, Monitor, ClockTick
<1>5. CASE UNCHANGED vars
  BY <1>5 DEF vars
<1> QED BY <1>1, <1>2, <1>3, <1>4, <1>5 DEF Next

\* A step after which every open connection still is open, that adds no
\* command and keeps the handlers on open connections.
LEMMA StayOpenStep ==
    ASSUME LiveInv, DialogueInv', AuditInv', NothingAdded,
           UNCHANGED <<orphans, nextSeq>>,
           kept' => kept,
           \A c \in Conns : IsOpen(c) => IsOpen(c)',
           \A c \in Conns : IsOpen(c)' =>
               (IsOpen(c) /\ conn'[c].ip = conn[c].ip) \/ Accepts(conn'[c].ip),
           \A c \in Conns : handler'[c].pc # "idle" => handler[c].pc # "idle" \/ IsOpen(c)
    PROVE  LiveInv'
<1>1. OpenWereAccepted'
  BY DEF LiveInv, OpenWereAccepted
<1>2. BusyIsOpen'
  BY DEF LiveInv, BusyIsOpen
<1>3. OrphansWereIssued'
  BY DEF LiveInv, OrphansWereIssued
<1>4. CommandsOnLiveConnections'
  <2> SUFFICES ASSUME kept', EveryClientIsListed, NEW h \in outstanding'
               PROVE  IsOpen(h.conn)' /\ h.seq \notin orphans'
    BY DEF CommandsOnLiveConnections
  <2>1. PICK g \in outstanding : g.seq = h.seq /\ g.conn = h.conn
    BY DEF NothingAdded
  <2>2. IsOpen(g.conn) /\ g.seq \notin orphans
    BY DEF LiveInv, CommandsOnLiveConnections
  <2>3. g.conn \in Conns
    BY CPFacts DEF LiveInv, DialogueInv, Entries
  <2> QED BY <2>1, <2>2, <2>3
<1> QED BY <1>1, <1>2, <1>3, <1>4 DEF LiveInv

\* A new command comes on an open connection.
LEMMA AddLiveInv ==
    ASSUME LiveInv, DialogueInv', AuditInv', NEW c \in Conns, ForwardAdd(c)
    PROVE  LiveInv'
<1>1. PICK key \in Keys, select \in BOOLEAN : addToOutstandingCommands(key, c, select)
  BY DEF ForwardAdd
<1>2. /\ outstanding' = outstanding \union {OutstandingCommand(nextSeq, key, c, select)}
      /\ nextSeq' = nextSeq + 1
  BY <1>1 DEF addToOutstandingCommands
<1>3. /\ handler[c].pc = "accepted" /\ AtPc(c, "added", nextSeq)
      /\ orphans' = orphans /\ conn' = conn /\ kept' = kept
  BY DEF ForwardAdd, rgVars
<1>4. nextSeq \in Nat /\ IsOpen(c)
  BY <1>3, CPFacts DEF LiveInv, DialogueInv, BusyIsOpen
<1>5. OpenWereAccepted'
  BY <1>3 DEF LiveInv, OpenWereAccepted, IsOpen
<1>6. BusyIsOpen'
  <2>1. \A d \in Conns : d # c => handler'[d] = handler[d]
    BY <1>3 DEF AtPc, LiveInv, DialogueInv, CPInv, CPTypes
  <2> QED BY <1>3, <1>4, <2>1 DEF LiveInv, BusyIsOpen, IsOpen
<1>7. OrphansWereIssued'
  BY <1>2, <1>3, <1>4 DEF LiveInv, OrphansWereIssued
<1>8. CommandsOnLiveConnections'
  <2> SUFFICES ASSUME kept, EveryClientIsListed, NEW h \in outstanding'
               PROVE  IsOpen(h.conn)' /\ h.seq \notin orphans'
    BY <1>3 DEF CommandsOnLiveConnections
  <2>1. CASE h \in outstanding
    BY <1>3, <2>1 DEF LiveInv, CommandsOnLiveConnections, IsOpen
  <2>2. CASE h = OutstandingCommand(nextSeq, key, c, select)
    <3>1. h.seq = nextSeq /\ h.conn = c
      BY <2>2 DEF OutstandingCommand
    <3> QED BY <1>3, <1>4, <3>1 DEF LiveInv, OrphansWereIssued, IsOpen
  <2> QED BY <1>2, <2>1, <2>2
<1> QED BY <1>5, <1>6, <1>7, <1>8 DEF LiveInv

\* A close purges the commands of its connection: the RedGroupCon is found.
LEMMA CloseLiveInv ==
    ASSUME LiveInv, DialogueInv', AuditInv', NEW c \in Conns, Close(c)
    PROVE  LiveInv'
<1>1. /\ handler[c].pc = "idle" /\ DropCommands(c) /\ orphans' = orphans \union IssuedOn(c)
      /\ conn[c].state \in {"stopped", "started"} /\ conn' = [conn EXCEPT ![c] = Free]
      /\ handler' = handler /\ kept' = kept
  BY DEF Close, Closed, InOwnThread
<1>2. /\ \A d \in Conns : d # c => conn'[d] = conn[d]
      /\ conn'[c] = Free /\ ~IsOpen(c)' /\ IsOpen(c)
  BY <1>1 DEF LiveInv, AuditInv, RGInv, RGTypeOK, Free, IsOpen
<1>3. outstanding' \subseteq outstanding /\ nextSeq' = nextSeq
  BY <1>1 DEF DropCommands, removeOutstandingCommands, Erase, ocVars
<1>4. OpenWereAccepted'
  BY <1>2 DEF LiveInv, OpenWereAccepted, IsOpen
<1>5. BusyIsOpen'
  BY <1>1, <1>2 DEF LiveInv, BusyIsOpen, IsOpen
<1>6. OrphansWereIssued'
  BY <1>1, <1>3 DEF LiveInv, OrphansWereIssued, IssuedOn
<1>7. CommandsOnLiveConnections'
  <2> SUFFICES ASSUME kept, EveryClientIsListed, NEW h \in outstanding'
               PROVE  IsOpen(h.conn)' /\ h.seq \notin orphans'
    BY <1>1 DEF CommandsOnLiveConnections
  <2>1. SlotsOf(conn[c].ip) # {}
    <3>1. Accepts(conn[c].ip) /\ conn[c].ip \in IPs
      BY <1>2 DEF LiveInv, OpenWereAccepted, AuditInv, RGInv, BindingInv, OpenConnsDiffer
    <3> QED BY <3>1 DEF EveryClientIsListed
  <2>2. PICK s \in Slots : IsBoundTo(s, c)
    BY <1>2, <2>1 DEF LiveInv, AuditInv, EveryConnectionIsBound
  <2>3. HasCurrentConnection(conn[c].ip, conn[c].port)
    BY <2>2, BoundIsFound DEF HasCurrentConnection, LiveInv, AuditInv
  <2>4. removeOutstandingCommands(c)
    BY <1>1, <2>3 DEF DropCommands
  <2>5. h \in outstanding /\ h.conn # c
    BY <2>4 DEF removeOutstandingCommands, Erase, isSentFromConnection
  <2>6. IsOpen(h.conn) /\ h.seq \notin orphans
    BY <2>5 DEF LiveInv, CommandsOnLiveConnections
  <2>7. h.conn \in Conns /\ issued[h.seq].conn = h.conn
    <3>1. issued[h.seq] = [key |-> h.key, conn |-> h.conn, select |-> h.select]
      BY <2>5 DEF LiveInv, DialogueInv, CPInv, OCInv, EntryKeepsItsRequest
    <3>2. h \in Entries
      BY <2>5, CPFacts DEF LiveInv, DialogueInv
    <3> QED BY <3>1, <3>2 DEF Entries
  <2>8. h.seq \notin IssuedOn(c)
    BY <2>5, <2>7 DEF IssuedOn
  <2> QED BY <1>1, <1>2, <2>5, <2>6, <2>7, <2>8 DEF IsOpen
<1> QED BY <1>4, <1>5, <1>6, <1>7 DEF LiveInv

\* The other connection events leave every open connection open.
LEMMA EventStaysOpen ==
    ASSUME LiveInv, NEW c \in Conns, ConnectionEvent(c), ~Close(c)
    PROVE  /\ UNCHANGED <<orphans, nextSeq, handler>> /\ outstanding' \subseteq outstanding
           /\ kept' => kept
           /\ \A d \in Conns : IsOpen(d) => IsOpen(d)'
           /\ \A d \in Conns : IsOpen(d)' =>
                 (IsOpen(d) /\ conn'[d].ip = conn[d].ip) \/ Accepts(conn'[d].ip)
<1>1. conn \in [Conns -> [state : ConnStates, ip : IPs \union {None}, port : Ports \union {None}]]
  BY DEF LiveInv, AuditInv, RGInv, RGTypeOK
<1>2. \A d \in Conns : DropCommands(d) => outstanding' \subseteq outstanding /\ nextSeq' = nextSeq
  BY DEF DropCommands, removeOutstandingCommands, Erase, ocVars
<1>3. /\ UNCHANGED <<orphans, nextSeq, handler>> /\ outstanding' \subseteq outstanding
  BY <1>2 DEF ConnectionEvent, Open, RequestStart, TakeOver, Activate, RequestStop, ocVars, cpVars
<1>4. ASSUME NEW d \in Conns, NEW state \in ConnStates \ {"free"}, IsOpen(d),
             conn' = [conn EXCEPT ![d].state = state]
      PROVE  \A e \in Conns : /\ IsOpen(e) <=> IsOpen(e)'
                              /\ conn'[e].ip = conn[e].ip
  BY <1>1, <1>4 DEF IsOpen
<1>5. CASE Open(c)
  <2>1. PICK ip \in IPs, port \in Ports : Opened(c, ip, port)
    BY <1>5 DEF Open
  <2>2. /\ conn'[c] = [state |-> "stopped", ip |-> ip, port |-> port]
        /\ \A d \in Conns : d # c => conn'[d] = conn[d]
        /\ Accepts(ip) /\ (kept' => kept)
    BY <1>1, <2>1 DEF Opened
  <2>3. /\ conn'[c].state = "stopped" /\ conn'[c].ip = ip
    BY <2>2
  <2> QED BY <1>3, <2>2, <2>3 DEF IsOpen
<1>6. CASE RequestStart(c)
  <2>1. IsOpen(c) /\ conn' = [conn EXCEPT ![c].state = "starting"] /\ kept' = kept
    BY <1>6 DEF RequestStart, StartDT, IsOpen
  <2> QED BY <1>3, <1>4, <2>1 DEF ConnStates
<1>7. CASE Activate(c)
  <2>1. IsOpen(c) /\ conn' = [conn EXCEPT ![c].state = "started"] /\ kept' = kept
    BY <1>7 DEF Activate, Activated, IsOpen
  <2> QED BY <1>3, <1>4, <2>1 DEF ConnStates
<1>8. CASE RequestStop(c)
  <2>1. IsOpen(c) /\ conn' = [conn EXCEPT ![c].state = "stopped"] /\ kept' = kept
    BY <1>8 DEF RequestStop, StopDT, IsOpen
  <2> QED BY <1>3, <1>4, <2>1 DEF ConnStates
<1>9. ASSUME NEW d \in Conns, TakeOver(c, d)
      PROVE  /\ kept' => kept
             /\ \A e \in Conns : IsOpen(e) <=> IsOpen(e)'
             /\ \A e \in Conns : conn'[e].ip = conn[e].ip
  <2>1. IsOpen(d) /\ conn' = [conn EXCEPT ![d].state = "stopped"] /\ kept' = kept
    BY <1>9 DEF TakeOver, Supersede, IsOpen
  <2> QED BY <1>4, <2>1 DEF ConnStates
<1> QED BY <1>3, <1>5, <1>6, <1>7, <1>8, <1>9 DEF ConnectionEvent

\* The steps of asduHandler other than ForwardAdd add no command.
LEMMA HandlerLiveInv ==
    ASSUME LiveInv, DialogueInv', AuditInv', NEW c \in Conns, AsduHandler(c), ~ForwardAdd(c)
    PROVE  LiveInv'
<1>1. UNCHANGED <<outstanding, nextSeq, orphans, conn, kept>>
  BY DEF AsduHandler, validateCommand, OperationAccepted, OperationFailed, SendNegativeResponse,
         ocVars, rgVars
<1>2. \A d \in Conns : handler'[d].pc # "idle" => handler[d].pc # "idle" \/ IsOpen(d)
  BY DEF AsduHandler, validateCommand, OperationAccepted, OperationFailed, SendNegativeResponse,
         AtPc, IsOpen, LiveInv, DialogueInv, CPInv, CPTypes
<1>3. NothingAdded
  BY <1>1 DEF NothingAdded
<1> QED BY <1>1, <1>2, <1>3, StayOpenStep DEF IsOpen

\* Feedback, the monitoring thread and the clock add no command.
LEMMA FeedbackAddsNothing ==
    ASSUME LiveInv, Feedback \/ Monitor \/ ClockTick
    PROVE  NothingAdded /\ UNCHANGED <<nextSeq, orphans, conn, kept, handler>>
<1>1. \A g \in outstanding : g \in Entries
  BY CPFacts DEF LiveInv, DialogueInv
<1>2. UNCHANGED <<orphans, conn, kept, handler>>
  BY DEF Feedback, FeedbackActCon, FeedbackActTerm, FeedbackLost, Monitor, ClockTick, rgVars, cpVars
<1>3. ASSUME outstanding' \subseteq outstanding PROVE NothingAdded
  BY <1>3 DEF NothingAdded
<1>4. ASSUME NEW x \in south, NEW negative \in BOOLEAN, FeedbackActCon(x, negative)
      PROVE  NothingAdded /\ nextSeq' = nextSeq
  <2>1. CASE UNCHANGED ocVars
    BY <1>3, <2>1 DEF ocVars
  <2>2. ASSUME NEW e \in outstanding, AnswerActCon(e, negative)
        PROVE  NothingAdded /\ nextSeq' = nextSeq
    <3>1. sendActCon(e, negative).seq = e.seq /\ sendActCon(e, negative).conn = e.conn
      BY <1>1, SendActConKeepsIdentity
    <3>2. /\ outstanding' \subseteq outstanding \union {sendActCon(e, negative)}
          /\ nextSeq' = nextSeq
      BY <2>2 DEF AnswerActCon
    <3> QED BY <3>1, <3>2 DEF NothingAdded
  <2> QED BY <1>4, <2>1, <2>2 DEF FeedbackActCon, handleActCon
<1>5. ASSUME NEW x \in south, FeedbackActTerm(x)
      PROVE  NothingAdded /\ nextSeq' = nextSeq
  BY <1>3, <1>5 DEF FeedbackActTerm, handleActTerm, AnswerActTerm, ocVars
<1>6. ASSUME NEW x \in south, FeedbackLost(x)
      PROVE  NothingAdded /\ nextSeq' = nextSeq
  BY <1>3, <1>6 DEF FeedbackLost, ocVars
<1>7. CASE Monitor
  BY <1>2, <1>3, <1>7 DEF Monitor, removeTimedOutCommands, Erase
<1>8. CASE ClockTick
  <2> DEFINE T(e) == [e EXCEPT !.left = IF @ >= 0 THEN @ - 1 ELSE -1]
  <2>1. outstanding' = {T(e) : e \in outstanding} /\ nextSeq' = nextSeq
    BY <1>8 DEF ClockTick, Tick
  <2>2. \A e \in outstanding : T(e).seq = e.seq /\ T(e).conn = e.conn
    BY <1>1 DEF Entries
  <2> HIDE DEF T
  <2> QED BY <1>2, <2>1, <2>2 DEF NothingAdded
<1> QED BY <1>2, <1>4, <1>5, <1>6, <1>7, <1>8 DEF Feedback

-----------------------------------------------------------------------------

\* The initial state satisfies the invariant.
LEMMA LiveInitInv == Init => LiveInv
<1> SUFFICES ASSUME Init PROVE LiveInv
  OBVIOUS
<1>1. DialogueInv /\ AuditInv
  BY DialogueInitInv, AuditInitInv DEF Init
<1>2. /\ \A c \in Conns : ~IsOpen(c) /\ handler[c].pc = "idle"
      /\ orphans = {} /\ outstanding = {}
  BY DEF Init, RGInit, OCInit, Free, IsOpen
<1> QED BY <1>1, <1>2 DEF LiveInv, OpenWereAccepted, BusyIsOpen, OrphansWereIssued,
                          CommandsOnLiveConnections

\* Every step keeps the invariant.
LEMMA LiveNextInv == LiveInv /\ [Next]_vars => LiveInv'
<1> SUFFICES ASSUME LiveInv, [Next]_vars PROVE LiveInv'
  OBVIOUS
<1>1. DialogueInv' /\ AuditInv'
  BY DialogueNextInv, AuditNextInv, PathSteps DEF LiveInv
<1>2. CASE Start \/ UNCHANGED vars
  <2>1. UNCHANGED <<outstanding, nextSeq, orphans, conn, kept, handler>>
    BY <1>2 DEF Start, startSlave, vars, ocVars, rgVars, cpVars
  <2>2. NothingAdded
    BY <2>1 DEF NothingAdded
  <2> QED BY <1>1, <2>1, <2>2, StayOpenStep DEF IsOpen
<1>3. ASSUME NEW c \in Conns, AsduHandler(c) PROVE LiveInv'
  BY <1>1, <1>3, HandlerLiveInv, AddLiveInv
<1>4. ASSUME NEW c \in Conns, ConnectionEvent(c) PROVE LiveInv'
  <2>1. CASE Close(c)
    BY <1>1, <2>1, CloseLiveInv
  <2>2. CASE ~Close(c)
    <3>1. /\ UNCHANGED <<orphans, nextSeq, handler>> /\ outstanding' \subseteq outstanding
          /\ kept' => kept
          /\ \A d \in Conns : IsOpen(d) => IsOpen(d)'
          /\ \A d \in Conns : IsOpen(d)' =>
                (IsOpen(d) /\ conn'[d].ip = conn[d].ip) \/ Accepts(conn'[d].ip)
      BY <1>4, <2>2, EventStaysOpen
    <3>2. NothingAdded
      BY <3>1 DEF NothingAdded
    <3> QED BY <1>1, <3>1, <3>2, StayOpenStep
  <2> QED BY <2>1, <2>2
<1>5. CASE Feedback \/ Monitor \/ ClockTick
  <2>1. NothingAdded /\ UNCHANGED <<nextSeq, orphans, conn, kept, handler>>
    BY <1>5, FeedbackAddsNothing
  <2> QED BY <1>1, <2>1, StayOpenStep DEF IsOpen
<1> QED BY <1>2, <1>3, <1>4, <1>5 DEF Next

\* The types of the command path, for any clients, connections and keys.
THEOREM PathTypeCorrect == Spec => []CPTypeOK
<1>1. LiveInv => CPTypeOK
  <2> SUFFICES ASSUME LiveInv PROVE CPTypeOK
    OBVIOUS
  <2>1. CPTypes /\ refused \subseteq 1 .. nextSeq - 1 /\ orphans \subseteq 1 .. nextSeq - 1
    BY DEF LiveInv, DialogueInv, CPInv, RefusedStayUnknown, OrphansWereIssued
  <2>2. nextSeq \in 1 .. MaxCmds + 1
    BY DEF LiveInv, DialogueInv, CPInv, OCInv, OCTypeOK
  <2>3. 1 .. nextSeq - 1 \subseteq Commands
    BY <2>2, MaxCmdsAssumption DEF Commands
  <2> QED BY <2>1, <2>3 DEF CPTypeOK, CPTypes
<1> QED BY <1>1, LiveInitInv, LiveNextInv, PTL DEF Spec

\* No outstanding command of a listed client that keeps to its entries outlives
\* its connection, although the library reuses connection objects and a take-over
\* may purge the list while asduHandler is about to add to it.
THEOREM CommandsStayOnLiveConnections == Spec => []CommandsOnLiveConnections
<1>1. LiveInv => CommandsOnLiveConnections
  BY DEF LiveInv
<1> QED BY <1>1, LiveInitInv, LiveNextInv, PTL DEF Spec

\* The properties of the connection events hold in the command path as well: it
\* is a behaviour of RedundancyGroups.
THEOREM PathIsRGSpec == Spec => RGSpec
<1>1. Init => RGInit
  BY DEF Init
<1> QED BY <1>1, PathSteps, PTL DEF Spec, RGSpec

-----------------------------------------------------------------------------
(* The server as a whole *)

\* Where stop stands says where the monitoring thread is.
StopFollowsThread ==
    /\ stopper = "idle" => (started <=> pc # "none") /\ pc # "ended"
    /\ stopper \in {"joined", "stopped"} => pc \in {"none", "ended"}

\* Nothing connects to a slave that was destroyed.
StoppedForGood == stopper = "stopped" => slave = "destroyed" /\ AllClosed

\* The inductive invariant.
ServerInv == LiveInv /\ StopFollowsThread /\ StoppedForGood

\* A step of the server is one of the command path, or the destructor.
LEMMA ServerPathSteps == [ServerNext]_serverVars => Destructor \/ [Next]_vars
<1> SUFFICES ASSUME [ServerNext]_serverVars PROVE Destructor \/ [Next]_vars
  OBVIOUS
<1>1. CASE startServer
  BY <1>1 DEF startServer, Next
<1>2. CASE Round
  BY <1>2 DEF Round, OfLife, Next
<1>3. CASE SouthSide \/ StopRequested \/ Join \/ DestroySlave \/ UNCHANGED serverVars
  BY <1>3 DEF SouthSide, StopRequested, Join, DestroySlave, OfLife, serverVars
<1>4. CASE Reading
  BY <1>4 DEF Reading, OfPath, Feedback, Next
<1>5. CASE OfPath(ClockTick)
  BY <1>5 DEF OfPath, Next
<1>6. ASSUME NEW c \in Conns,
             \/ CommandArrives(c) \/ HandlerGoesOn(c) \/ Connect(c) \/ EndConnection(c)
             \/ TakeOverGoesOn(c) \/ RequestStartOrStop(c)
      PROVE  Next
  BY <1>6 DEF CommandArrives, HandlerGoesOn, Connect, EndConnection, TakeOverGoesOn,
              RequestStartOrStop, OfPath, Next, AsduHandler, ConnectionEvent
<1> QED BY <1>1, <1>2, <1>3, <1>4, <1>5, <1>6 DEF ServerNext

\* The invariant of the command path holds in the server.
LEMMA ServerLiveInv == LiveInv /\ [ServerNext]_serverVars => LiveInv'
<1> SUFFICES ASSUME LiveInv, [ServerNext]_serverVars PROVE LiveInv'
  OBVIOUS
<1>1. CASE Destructor
  <2>1. outstanding' = {} /\ UNCHANGED <<nextSeq, issued, answers, rgVars, cpVars>>
    BY <1>1 DEF Destructor, removeAllOutstandingCommands, Erase
  <2>2. CPInv'
    BY <2>1, EraseCPInv DEF LiveInv, DialogueInv, cpVars
  <2>3. DialogueInv'
    BY <2>1, <2>2, EraseDialogueInv DEF LiveInv, cpVars
  <2>4. AuditInv'
    BY <2>1, AuditNextInv DEF LiveInv
  <2>5. NothingAdded
    BY <2>1 DEF NothingAdded
  <2> QED BY <2>1, <2>3, <2>4, <2>5, StayOpenStep DEF rgVars, cpVars, IsOpen
<1>2. CASE [Next]_vars
  BY <1>2, LiveNextInv
<1> QED BY <1>1, <1>2, ServerPathSteps

\* Every step that is not one of the life of the server leaves its state alone.
LEMMA ServerLifeSteps == [ServerNext]_serverVars => UNCHANGED lifeVars \/ Life!MTNext
<1> SUFFICES ASSUME [ServerNext]_serverVars PROVE UNCHANGED lifeVars \/ Life!MTNext
  OBVIOUS
<1>1. CASE startServer \/ SouthSide \/ Round
  BY <1>1 DEF startServer, SouthSide, Round, OfLife, Life!MTNext, Life!_monitoringThread
<1>2. CASE StopRequested \/ Join \/ DestroySlave
  BY <1>2 DEF StopRequested, Join, DestroySlave, OfLife, Life!MTNext, Life!stop
<1>3. CASE Destructor \/ Reading \/ OfPath(ClockTick) \/ UNCHANGED serverVars
  BY <1>3 DEF Destructor, Reading, OfPath, serverVars
<1>4. ASSUME NEW c \in Conns,
             \/ CommandArrives(c) \/ HandlerGoesOn(c) \/ Connect(c) \/ EndConnection(c)
             \/ TakeOverGoesOn(c) \/ RequestStartOrStop(c)
      PROVE  UNCHANGED lifeVars
  BY <1>4 DEF CommandArrives, HandlerGoesOn, Connect, EndConnection, TakeOverGoesOn,
              RequestStartOrStop, OfPath
<1> QED BY <1>1, <1>2, <1>3, <1>4 DEF ServerNext

\* The thread only runs between startSlave and the join.
LEMMA StopFollowsThreadInv ==
    ASSUME StopFollowsThread, UNCHANGED lifeVars \/ Life!MTNext
    PROVE  StopFollowsThread'
<1> USE DEF StopFollowsThread, Life!envVars, Life!threadVars
<1>1. CASE UNCHANGED lifeVars
  BY <1>1 DEF lifeVars
<1>2. CASE Life!registerControl \/ \E p \in Life!SouthPlugins : Life!updateSouthMonitoringInstance(p)
  BY <1>2 DEF Life!registerControl, Life!updateSouthMonitoringInstance
<1>3. CASE Life!startSlave
  BY <1>3 DEF Life!startSlave
<1>4. CASE Life!stop
  BY <1>4 DEF Life!stop, Life!StopRequested, Life!Join, Life!DestroySlave
<1>5. CASE Life!_monitoringThread
  BY <1>5 DEF Life!_monitoringThread, Life!EnterRound, Life!LeaveLoop,
     Life!requestSouthConnectionStatus, Life!StartAlways, Life!ConsiderSouth, Life!NotifySouth,
     Life!NextPlugin, Life!SouthConnected, Life!SouthNotConnected, Life!Sweep
<1> QED BY <1>1, <1>2, <1>3, <1>4, <1>5 DEF Life!MTNext

\* Once stop has returned the slave stays destroyed.
LEMMA DestroyedForGood ==
    ASSUME StopFollowsThread, stopper = "stopped", UNCHANGED lifeVars \/ Life!MTNext
    PROVE  slave' = slave
<1> USE DEF StopFollowsThread, Life!envVars, Life!threadVars
<1>1. CASE UNCHANGED lifeVars
  BY <1>1 DEF lifeVars
<1>2. CASE Life!registerControl \/ \E p \in Life!SouthPlugins : Life!updateSouthMonitoringInstance(p)
  BY <1>2 DEF Life!registerControl, Life!updateSouthMonitoringInstance
<1>3. ~Life!startSlave /\ ~Life!stop
  BY DEF Life!startSlave, Life!stop, Life!StopRequested, Life!Join, Life!DestroySlave
<1>4. ~Life!_monitoringThread
  BY DEF Life!_monitoringThread, Life!EnterRound, Life!LeaveLoop,
     Life!requestSouthConnectionStatus, Life!StartAlways, Life!ConsiderSouth, Life!NotifySouth,
     Life!NextPlugin, Life!SouthConnected, Life!SouthNotConnected, Life!Sweep
<1> QED BY <1>1, <1>2, <1>3, <1>4 DEF Life!MTNext

\* With all connections closed only Connect opens one.
LEMMA StaysClosed ==
    ASSUME AllClosed, [ServerNext]_serverVars, \A c \in Conns : ~Connect(c)
    PROVE  AllClosed'
<1> USE DEF AllClosed, IsOpen
<1>1. CASE \/ startServer \/ SouthSide \/ Round \/ Destructor \/ StopRequested \/ Join
           \/ DestroySlave \/ Reading \/ OfPath(ClockTick) \/ UNCHANGED serverVars
  <2>1. conn' = conn
    BY <1>1 DEF startServer, Start, startSlave, SouthSide, Round, Monitor, Destructor, StopRequested,
       Join, DestroySlave, OfLife, OfPath, Reading, FeedbackActCon, FeedbackActTerm, FeedbackLost,
       ClockTick, serverVars, vars, rgVars
  <2> QED BY <2>1
<1>2. ASSUME NEW c \in Conns, CommandArrives(c) \/ HandlerGoesOn(c) PROVE conn' = conn
  BY <1>2 DEF CommandArrives, HandlerGoesOn, OfPath, validateCommand, ForwardAdd,
              OperationAccepted, OperationFailed, SendNegativeResponse, rgVars
<1>3. ASSUME NEW c \in Conns
      PROVE  ~EndConnection(c) /\ ~TakeOverGoesOn(c) /\ ~RequestStartOrStop(c)
  BY DEF EndConnection, TakeOverGoesOn, RequestStartOrStop, OfPath, Close, Activate, TakeOver,
         RequestStart, RequestStop, Closed, Activated, Supersede, StartDT, StopDT
<1> QED BY <1>1, <1>2, <1>3 DEF ServerNext

\* stop ends with the destruction of the slave.
LEMMA OnlyDestroyEnds ==
    ASSUME [ServerNext]_serverVars, stopper # "stopped", stopper' = "stopped"
    PROVE  DestroySlave
<1>1. \/ startServer \/ SouthSide \/ Round \/ StopRequested \/ Join \/ DestroySlave
  <2>1. ~UNCHANGED lifeVars
    BY DEF lifeVars
  <2> QED BY <2>1 DEF ServerNext, CommandArrives, HandlerGoesOn, Connect, EndConnection,
       TakeOverGoesOn, RequestStartOrStop, OfPath, Destructor, Reading, serverVars
<1>2. ~startServer /\ ~SouthSide /\ ~StopRequested /\ ~Join
  BY DEF startServer, SouthSide, StopRequested, Join, OfLife, Life!startSlave,
     Life!registerControl, Life!updateSouthMonitoringInstance, Life!StopRequested, Life!Join
<1>3. ~Round
  BY DEF Round, OfLife, Life!_monitoringThread, Life!EnterRound, Life!LeaveLoop,
     Life!requestSouthConnectionStatus, Life!StartAlways, Life!ConsiderSouth, Life!NotifySouth,
     Life!NextPlugin, Life!SouthConnected, Life!SouthNotConnected, Life!Sweep
<1> QED BY <1>1, <1>2, <1>3

LEMMA ServerInitInv == ServerInit => ServerInv
<1> SUFFICES ASSUME ServerInit PROVE ServerInv
  OBVIOUS
<1>1. LiveInv
  BY LiveInitInv DEF ServerInit
<1> QED BY <1>1 DEF ServerInit, ServerInv, StopFollowsThread, StoppedForGood, Life!MTInit

LEMMA ServerNextInv == ServerInv /\ [ServerNext]_serverVars => ServerInv'
<1> SUFFICES ASSUME ServerInv, [ServerNext]_serverVars PROVE ServerInv'
  OBVIOUS
<1>1. LiveInv' /\ StopFollowsThread'
  BY ServerLiveInv, ServerLifeSteps, StopFollowsThreadInv DEF ServerInv
<1>2. CASE stopper = "stopped"
  <2>1. slave' = "destroyed" /\ slave = "destroyed"
    BY <1>2, ServerLifeSteps, DestroyedForGood DEF ServerInv, StoppedForGood
  <2>2. \A c \in Conns : ~Connect(c)
    BY <2>1 DEF Connect
  <2> QED BY <1>1, <1>2, <2>1, <2>2, StaysClosed DEF ServerInv, StoppedForGood
<1>3. CASE stopper # "stopped" /\ stopper' = "stopped"
  <2>1. DestroySlave
    BY <1>3, OnlyDestroyEnds
  <2>2. slave' = "destroyed" /\ AllClosed /\ conn' = conn
    BY <2>1 DEF DestroySlave, OfLife, vars, rgVars, Life!DestroySlave
  <2> QED BY <1>1, <2>2 DEF ServerInv, StoppedForGood, AllClosed, IsOpen
<1>4. CASE stopper' # "stopped"
  BY <1>1, <1>4 DEF ServerInv, StoppedForGood
<1> QED BY <1>2, <1>3, <1>4

\* When stop has returned nothing is left, for any clients, connections, keys and
\* south plugins.
THEOREM NothingIsLeftAfterStop == ServerSpec => []StopLeavesNothing
<1>1. ServerInv => StopLeavesNothing
  <2> SUFFICES ASSUME ServerInv, stopper = "stopped"
               PROVE  /\ AllClosed
                      /\ globalAudit # "connected"
                      /\ kept /\ EveryClientIsListed => outstanding = {}
    BY DEF StopLeavesNothing
  <2>1. AllClosed
    BY DEF ServerInv, StoppedForGood
  <2>2. \A s \in Slots : slot[s].port = None
    BY <2>1 DEF ServerInv, LiveInv, AuditInv, RGInv, BindingInv, BoundSlotsAreOpen, IsBoundTo, AllClosed
  <2>3. globalAudit # "connected"
    BY <2>2 DEF ServerInv, LiveInv, AuditInv, RGInv, GlobalLossIsReported, isAnyConnectionEstablished
  <2>4. ASSUME kept, EveryClientIsListed PROVE outstanding = {}
    <3>1. \A e \in outstanding : e.conn \in Conns
      BY CPFacts DEF ServerInv, LiveInv, DialogueInv, Entries
    <3> QED BY <2>1, <2>4, <3>1 DEF ServerInv, LiveInv, CommandsOnLiveConnections, AllClosed
  <2> QED BY <2>1, <2>3, <2>4
<1> QED BY <1>1, ServerInitInv, ServerNextInv, PTL DEF ServerSpec

-----------------------------------------------------------------------------
(* What is proved of the parts holds in the whole *)

\* The life of the server inside the whole is a behaviour of MonitoringThread:
\* what is proved there, also that stop never destroys a slave which the thread
\* may still use, holds while masters and the south side do what they like.
THEOREM ServerIsMTSpec == ServerSpec => Life!MTSpec
<1>1. ServerInit => Life!MTInit
  BY DEF ServerInit
<1>2. UNCHANGED lifeVars => UNCHANGED Life!mtVars
  BY DEF lifeVars, Life!mtVars, Life!envVars, Life!threadVars
<1>3. [ServerNext]_serverVars => [Life!MTNext]_(Life!mtVars)
  BY <1>2, ServerLifeSteps
<1> QED BY <1>1, <1>3, PTL DEF ServerSpec, Life!MTSpec

\* The audits of the connections hold in the whole server too: it is a behaviour
\* of RedundancyGroups, whenever the slave starts, stops or is destroyed.
THEOREM ServerIsRGSpec == ServerSpec => RGSpec
<1>1. ServerInit => RGInit
  BY DEF ServerInit, Init
<1>2. [ServerNext]_serverVars => [RGNext]_rgVars
  BY ServerPathSteps, PathSteps DEF Destructor
<1> QED BY <1>1, <1>2, PTL DEF ServerSpec, RGSpec

\* The destructor forgets the commands that are left; it answers none.
LEMMA DestructorForgets ==
    ASSUME DialogueInv, DialogueInv', Destructor
    PROVE  Dialogue!Next
<1>1. outstanding' = {} /\ UNCHANGED <<nextSeq, issued, answers, refused, clean>>
  BY DEF Destructor, removeAllOutstandingCommands, Erase, cpVars
<1>2. CPInv /\ CPInv'
  BY DEF DialogueInv
<1> QED BY <1>1, <1>2, ForgetIsSimulated

\* The whole server keeps the dialogue that the command path promises: starting
\* and stopping it, with commands under way, can only make it fall silent.
THEOREM ServerKeepsDialogue == ServerSpec => KeepsDialogue
<1>1. ServerInit => Dialogue!Init /\ LiveInv
  BY InitIsSimulated, LiveInitInv DEF ServerInit
<1>2. ASSUME LiveInv, LiveInv', [ServerNext]_serverVars PROVE Dialogue!Next
  <2>1. DialogueInv /\ DialogueInv'
    BY <1>2 DEF LiveInv
  <2>2. CASE Destructor
    BY <2>1, <2>2, DestructorForgets
  <2>3. CASE [Next]_vars
    BY <2>1, <2>3, NextIsSimulated
  <2> QED BY <1>2, <2>2, <2>3, ServerPathSteps
<1>3. LiveInv /\ LiveInv' /\ [ServerNext]_serverVars => [Dialogue!Next]_(Dialogue!dialogueVars)
  BY <1>2
<1> QED BY <1>1, <1>3, ServerLiveInv, PTL DEF ServerSpec, KeepsDialogue, Dialogue!Spec

\* No outstanding command of the server outlives its connection, also while the
\* server stops with connections open.
THEOREM ServerCommandsStayOnLiveConnections == ServerSpec => []CommandsOnLiveConnections
<1>1. LiveInv => CommandsOnLiveConnections
  BY DEF LiveInv
<1>2. ServerInit => LiveInv
  BY LiveInitInv DEF ServerInit
<1> QED BY <1>1, <1>2, ServerLiveInv, PTL DEF ServerSpec

\* Feedback reaches the command it is about and ACT-TERM follows ACT-CON, also
\* when the server stops and starts between a command and its feedback.
THEOREM ServerAnswersRightly == ServerSpec => FeedbackReachesItsCommand /\ ActTermFollowsActCon
<1>1. [ServerNext]_serverVars => [Next]_vars \/ UNCHANGED answers
  BY ServerPathSteps DEF Destructor, removeAllOutstandingCommands, Erase
<1>2. ASSUME CPInv, [ServerNext]_serverVars
      PROVE  /\ RoutedRight \/ UNCHANGED vars
             /\ InOrder \/ UNCHANGED vars
  <2>1. CASE [Next]_vars
    BY <1>2, <2>1, RoutesRight, KeepsOrder
  <2>2. CASE UNCHANGED answers
    <3>1. RoutedRight
      BY <2>2 DEF RoutedRight
    <3>2. InOrder
      <4>1. ASSUME NEW e \in outstanding, answers'[e.seq] = Append(answers[e.seq], "term")
            PROVE  FALSE
        <5>1. answers[e.seq] \in Seq(Answers)
          BY <1>2, EntryFacts DEF CPInv
        <5>2. Len(Append(answers[e.seq], "term")) = Len(answers[e.seq]) + 1
          BY <5>1 DEF Answers
        <5> QED BY <4>1, <5>1, <5>2, <2>2
      <4> QED BY <4>1 DEF InOrder
    <3> QED BY <3>1, <3>2
  <2> QED BY <1>1, <1>2, <2>1, <2>2
<1>3. CPInv /\ [ServerNext]_serverVars => [RoutedRight]_vars /\ [InOrder]_vars
  BY <1>2
<1>4. LiveInv => CPInv
  BY DEF LiveInv, DialogueInv
<1>5. ServerInit => LiveInv
  BY LiveInitInv DEF ServerInit
<1> QED BY <1>3, <1>4, <1>5, ServerLiveInv, PTL
        DEF ServerSpec, FeedbackReachesItsCommand, ActTermFollowsActCon, RoutedRight, InOrder
=============================================================================
