-------------------------- MODULE RedundancyGroups --------------------------
(***************************************************************************)
(* The configured redundancy groups, the connection events lib60870 raises *)
(* and the audits they cause: sendInitialAudits, connectionEventHandler,   *)
(* isAnyConnectionEstablished, sendConnectionStatusAudit and               *)
(* sendGlobalStatusAudit of IEC104Server, with IEC104ServerRedGroup and    *)
(* RedGroupCon.  connectionEventHandler holds m_connectionEventsLock from  *)
(* its first to its last statement, so one event is one action.            *)
(*                                                                         *)
(* A RedGroupCon is a slot <<g, j>>: connection j of group g.  It is bound *)
(* to a TCP connection by the remote port and unbound while its port is    *)
(* empty.  A path <<g, letter>> is what the audits name.                   *)
(***************************************************************************)
EXTENDS MasterConnections, Integers, Sequences, FiniteSets

CONSTANTS
    IPs,                   \* client addresses
    Ports,                 \* remote ports
    None,                  \* the empty string
    RedGroups,             \* configuration: the clt_ip entries of each group
    MaxRedGroups           \* m_maxRedundancyGroups

ASSUME RedGroupsAssumption == RedGroups \in Seq(Seq(IPs))
ASSUME NoneAssumption == None \notin Ports /\ None \notin IPs
ASSUME MaxRedGroupsAssumption == MaxRedGroups \in Nat \ {0}

VARIABLES
    conn,        \* lib60870: state, address and port of each connection object
    slot,        \* m_port and m_isActive of each RedGroupCon
    pathAudit,   \* the last audit published for each path
    lastAudit,   \* m_last_connection_audit
    globalAudit, \* m_last_global_audit
    kept         \* has no address ever had more connections open than its group
                 \* lists entries for it? (history)

auditVars == <<pathAudit, lastAudit, globalAudit>>
rgVars == <<conn, slot, auditVars, kept>>

-----------------------------------------------------------------------------
(* Configuration *)

Groups == 1 .. Len(RedGroups)

Slots == UNION {{<<g, j>> : j \in 1 .. Len(RedGroups[g])} : g \in Groups}

ClientIP(s) == RedGroups[s[1]][s[2]]

PathLetter(s) == IF s[2] = 1 THEN "A" ELSE "B"

PathOf(s) == <<s[1], PathLetter(s)>>

AuditedGroups == Groups \union 1 .. MaxRedGroups

Paths == AuditedGroups \X {"A", "B"}

PathStates == {"none", "unused", "disconnected", "passive", "active"}

HasClient(g, ip) == \E j \in 1 .. Len(RedGroups[g]) : RedGroups[g][j] = ip

\* IEC104Config::GetRedundancyGroup: the first group that lists the address.
GetRedundancyGroup(ip, g) ==
    /\ g \in Groups
    /\ HasClient(g, ip)
    /\ \A h \in 1 .. g - 1 : ~HasClient(h, ip)

SlotsOf(ip) == {s \in Slots : GetRedundancyGroup(ip, s[1]) /\ ClientIP(s) = ip}

-----------------------------------------------------------------------------
(* lib60870 *)

ConnStates == {"free", "stopped", "starting", "started"}

Free == [state |-> "free", ip |-> None, port |-> None]

IsOpen(c) == conn[c].state # "free"

OpenFrom(ip) == {c \in Conns : IsOpen(c) /\ conn[c].ip = ip}

IsCatchAll(g) == g \in Groups /\ RedGroups[g] = <<>>

\* The group lib60870 puts an address in: the one that allows it, otherwise one
\* without a list; all share one group when none is configured.
ServedBy(ip, g) ==
    \/ GetRedundancyGroup(ip, g)
    \/ (\A h \in Groups : ~HasClient(h, ip)) /\ IsCatchAll(g)

Accepts(ip) == Groups = {} \/ \E g \in Groups : ServedBy(ip, g)

SameGroup(ip, ip2) ==
    Groups = {} \/ \E g \in Groups : ServedBy(ip, g) /\ ServedBy(ip2, g)

\* CS104_Slave_setMaxOpenConnections; 0 means no limit.
MaxOpenConnections == Cardinality(Slots)

BelowMaxOpenConnections ==
    \/ MaxOpenConnections = 0
    \/ Cardinality({c \in Conns : IsOpen(c)}) < MaxOpenConnections

-----------------------------------------------------------------------------
(* Audits *)

\* Mistake: the same type counts as a repetition whatever the path.
sendConnectionStatusAuditByType(type, path) ==
    IF lastAudit # <<>> /\ lastAudit[2] = type
      THEN UNCHANGED <<pathAudit, lastAudit>>
      ELSE /\ pathAudit' = [pathAudit EXCEPT ![path] = type]
           /\ lastAudit' = <<path, type>>

\* A repetition of the last audit is not sent again.
sendConnectionStatusAudit(type, path) ==
    IF lastAudit = <<path, type>>
      THEN UNCHANGED <<pathAudit, lastAudit>>
      ELSE /\ pathAudit' = [pathAudit EXCEPT ![path] = type]
           /\ lastAudit' = <<path, type>>

sendGlobalStatusAudit(type) == globalAudit' = type

\* The audits of startSlave.  They end with path B of the last group.
InitialAudit(p) ==
    IF \E s \in Slots : PathOf(s) = p THEN "disconnected" ELSE "unused"

LastAuditedGroup == CHOOSE g \in AuditedGroups : \A h \in AuditedGroups : h =< g

sendInitialAudits ==
    LET last == <<LastAuditedGroup, "B">>
    IN  /\ pathAudit' = [p \in Paths |-> InitialAudit(p)]
        /\ lastAudit' = <<last, InitialAudit(last)>>
        /\ sendGlobalStatusAudit("disconnected")

isAnyConnectionEstablished(slots) == \E s \in Slots : slots[s].port # None

-----------------------------------------------------------------------------
(* connectionEventHandler *)

\* IEC104ServerRedGroup::GetRedGroupCon(ip, port) of group g.
GetRedGroupCon(g, ip, port, s) ==
    LET Fits(t) == t \in Slots /\ t[1] = g /\ ClientIP(t) = ip
                               /\ slot[t].port = port
    IN  Fits(s) /\ \A j \in 1 .. s[2] - 1 : ~Fits(<<g, j>>)

\* The RedGroupCon of an event: the one with this port, or else the first
\* unbound one.
IsCurrentConnection(ip, port, s) ==
    \E g \in Groups :
        /\ GetRedundancyGroup(ip, g)
        /\ \/ GetRedGroupCon(g, ip, port, s)
           \/ /\ ~\E t \in Slots : GetRedGroupCon(g, ip, port, t)
              /\ GetRedGroupCon(g, ip, None, s)

HasCurrentConnection(ip, port) == \E s \in Slots : IsCurrentConnection(ip, port, s)

\* Mistake: the open connection is not reported.
OnOpenedSilent(s, port) ==
    /\ slot' = [slot EXCEPT ![s].port = port]
    /\ UNCHANGED auditVars

OnOpened(s, port) ==
    /\ slot' = [slot EXCEPT ![s].port = port]
    /\ sendConnectionStatusAudit("passive", PathOf(s))
    /\ UNCHANGED globalAudit

\* Mistake: the RedGroupCon is not released.
OnClosedKeepsPort(s, port) ==
    /\ sendConnectionStatusAudit("disconnected", PathOf(s))
    /\ UNCHANGED slot
    /\ IF isAnyConnectionEstablished(slot)
         THEN UNCHANGED globalAudit
         ELSE sendGlobalStatusAudit("disconnected")

\* Mistake: the connection that closes still counts as established.
OnClosedTestsTooEarly(s, port) ==
    /\ sendConnectionStatusAudit("disconnected", PathOf(s))
    /\ slot' = [slot EXCEPT ![s].port = None]
    /\ IF isAnyConnectionEstablished(slot)
         THEN UNCHANGED globalAudit
         ELSE sendGlobalStatusAudit("disconnected")

\* Mistake: every close is reported as the loss of the service.
OnClosedAlwaysLost(s, port) ==
    /\ sendConnectionStatusAudit("disconnected", PathOf(s))
    /\ slot' = [slot EXCEPT ![s].port = None]
    /\ sendGlobalStatusAudit("disconnected")

OnClosed(s, port) ==
    /\ sendConnectionStatusAudit("disconnected", PathOf(s))
    /\ slot' = [slot EXCEPT ![s].port = None]
    /\ IF isAnyConnectionEstablished(slot')
         THEN UNCHANGED globalAudit
         ELSE sendGlobalStatusAudit("disconnected")

\* Mistake: no global audit.
OnActivatedLocally(s, port) ==
    /\ sendConnectionStatusAudit("active", PathOf(s))
    /\ slot' = [slot EXCEPT ![s] = [port |-> port, active |-> TRUE]]
    /\ UNCHANGED globalAudit

OnActivated(s, port) ==
    /\ sendConnectionStatusAudit("active", PathOf(s))
    /\ sendGlobalStatusAudit("connected")
    /\ slot' = [slot EXCEPT ![s] = [port |-> port, active |-> TRUE]]

\* Mistake: an audit that is none of the documented ones.
OnDeactivatedInactive(s, port) ==
    /\ sendConnectionStatusAudit("inactive", PathOf(s))
    /\ slot' = [slot EXCEPT ![s] = [port |-> port, active |-> FALSE]]
    /\ UNCHANGED globalAudit

OnDeactivated(s, port) ==
    /\ sendConnectionStatusAudit("passive", PathOf(s))
    /\ slot' = [slot EXCEPT ![s] = [port |-> port, active |-> FALSE]]
    /\ UNCHANGED globalAudit

OnEvent(event, s, port) ==
    \/ event = "CONNECTION_OPENED" /\ OnOpened(s, port)
    \/ event = "CONNECTION_CLOSED" /\ OnClosed(s, port)
    \/ event = "ACTIVATED" /\ OnActivated(s, port)
    \/ event = "DEACTIVATED" /\ OnDeactivated(s, port)

connectionEventHandler(ip, port, event) ==
    \/ \E s \in Slots : IsCurrentConnection(ip, port, s) /\ OnEvent(event, s, port)
    \/ ~HasCurrentConnection(ip, port) /\ UNCHANGED <<slot, auditVars>>

-----------------------------------------------------------------------------
(* Behaviour: lib60870 raises the events *)

RGInit ==
    /\ conn = [c \in Conns |-> Free]
    /\ slot = [s \in Slots |-> [port |-> None, active |-> FALSE]]
    /\ pathAudit = [p \in Paths |-> "none"]
    /\ lastAudit = <<>>
    /\ globalAudit = "none"
    /\ kept = TRUE

Started == globalAudit # "none"

startSlave ==
    /\ ~Started
    /\ sendInitialAudits
    /\ UNCHANGED <<conn, slot, kept>>

\* The client has a RedGroupCon left for one more connection.
HasRoom(ip) == Cardinality(OpenFrom(ip)) < Cardinality(SlotsOf(ip))

Opened(c, ip, port) ==
    /\ Started
    /\ ~IsOpen(c)
    /\ Accepts(ip)
    /\ BelowMaxOpenConnections
    /\ kept' = (kept /\ (SlotsOf(ip) = {} \/ HasRoom(ip)))
    /\ \A d \in OpenFrom(ip) : conn[d].port # port
    /\ conn' = [conn EXCEPT ![c] = [state |-> "stopped", ip |-> ip, port |-> port]]
    /\ connectionEventHandler(ip, port, "CONNECTION_OPENED")

Closed(c) ==
    /\ conn[c].state \in {"stopped", "started"}
    /\ conn' = [conn EXCEPT ![c] = Free]
    /\ UNCHANGED kept
    /\ connectionEventHandler(conn[c].ip, conn[c].port, "CONNECTION_CLOSED")

\* STARTDT: the connection's thread first stops the others of the group ...
StartDT(c) ==
    /\ conn[c].state = "stopped"
    /\ conn' = [conn EXCEPT ![c].state = "starting"]
    /\ UNCHANGED <<slot, auditVars, kept>>

Supersede(c, d) ==
    /\ conn[c].state = "starting"
    /\ conn[d].state = "started"
    /\ SameGroup(conn[c].ip, conn[d].ip)
    /\ conn' = [conn EXCEPT ![d].state = "stopped"]
    /\ connectionEventHandler(conn[d].ip, conn[d].port, "DEACTIVATED")
    /\ UNCHANGED kept

\* ... and is activated once none of them is.
Activated(c) ==
    /\ conn[c].state = "starting"
    /\ \A d \in Conns : conn[d].state = "started" => ~SameGroup(conn[c].ip, conn[d].ip)
    /\ conn' = [conn EXCEPT ![c].state = "started"]
    /\ connectionEventHandler(conn[c].ip, conn[c].port, "ACTIVATED")
    /\ UNCHANGED kept

StopDT(c) ==
    /\ conn[c].state = "started"
    /\ conn' = [conn EXCEPT ![c].state = "stopped"]
    /\ connectionEventHandler(conn[c].ip, conn[c].port, "DEACTIVATED")
    /\ UNCHANGED kept

RGNext ==
    \/ startSlave
    \/ \E c \in Conns, ip \in IPs, port \in Ports : Opened(c, ip, port)
    \/ \E c \in Conns : Closed(c) \/ StartDT(c) \/ Activated(c) \/ StopDT(c)
    \/ \E c, d \in Conns : Supersede(c, d)

RGSpec == RGInit /\ [][RGNext]_rgVars

-----------------------------------------------------------------------------
(* Properties *)

IsBoundTo(s, c) ==
    /\ slot[s].port # None
    /\ IsOpen(c)
    /\ conn[c].ip = ClientIP(s)
    /\ conn[c].port = slot[s].port

\* Every variable has its type.
RGTypeOK ==
    /\ conn \in [Conns -> [state : ConnStates, ip : IPs \union {None},
                           port : Ports \union {None}]]
    /\ slot \in [Slots -> [port : Ports \union {None}, active : BOOLEAN]]
    /\ pathAudit \in [Paths -> PathStates]
    /\ lastAudit \in {<<>>} \union (Paths \X PathStates)
    /\ globalAudit \in {"none", "disconnected", "connected"}
    /\ kept \in BOOLEAN

\* No RedGroupCon leaks or is shared: a bound RedGroupCon stands for a
\* connection lib60870 still has open from its address, and no connection
\* holds two of them, although the port is first set by whichever event comes
\* when a RedGroupCon is free and cleared only by CONNECTION_CLOSED.
SlotsFollowConnections ==
    /\ \A s \in Slots : slot[s].port # None => \E c \in Conns : IsBoundTo(s, c)
    /\ \A c \in Conns, s, t \in Slots : IsBoundTo(s, c) /\ IsBoundTo(t, c) => s = t

PathState(c) == IF conn[c].state = "started" THEN "active" ELSE "passive"

\* The audit trail tells the truth: in a group of at most two connections, for
\* which the letters A and B are distinct, the last audit of a path is
\* "disconnected" while its RedGroupCon is free and otherwise names the
\* state of the connection it is bound to; dropping repeated audits never
\* hides a change.
PathAuditsAreTrue ==
    \A s \in Slots :
        Started /\ Len(RedGroups[s[1]]) =< 2 =>
            /\ slot[s].port = None => pathAudit[PathOf(s)] = "disconnected"
            /\ \A c \in Conns : IsBoundTo(s, c) => pathAudit[PathOf(s)] = PathState(c)

\* The service is reported connected only while some RedGroupCon is bound:
\* the close of the last one always reports the loss.
GlobalLossIsReported ==
    globalAudit = "connected" => isAnyConnectionEstablished(slot)

\* As long as no client opens more connections than its group lists entries
\* for it, every connection from a configured address has its RedGroupCon, hence
\* its events are audited and its commands are dropped when it closes.
EveryConnectionIsBound ==
    \A c \in Conns :
        kept /\ IsOpen(c) /\ SlotsOf(conn[c].ip) # {} => \E s \in Slots : IsBoundTo(s, c)

\* While a connection carries data, from such a client, the service is reported
\* connected.
ActiveIsReported ==
    \A c \in Conns :
        kept /\ conn[c].state = "started" /\ SlotsOf(conn[c].ip) # {}
            => globalAudit = "connected"

ServiceLost == globalAudit = "connected" /\ globalAudit' = "disconnected"

NoneRemains ==
    \A c \in Conns : conn[c].state # "free" => SlotsOf(conn[c].ip) = {}

\* "If no connection remain, send global disconnect audit": the step of
\* connectionEventHandler that reports the service disconnected leaves no
\* connection open from a configured address.
LossOnlyIfNoneRemains == [][ServiceLost => NoneRemains']_rgVars

\* This is so at least as long as every client keeps to its number of
\* connections.
LossIsTrueForKept == [][kept /\ ServiceLost => NoneRemains']_rgVars

\* With such clients a path with a letter of its own is never seen to jump from
\* "disconnected" to "active": the audit of CONNECTION_OPENED always comes first.
PassiveBeforeActive ==
    [][kept => \A s \in Slots :
          Len(RedGroups[s[1]]) =< 2 /\ pathAudit[PathOf(s)] = "disconnected"
              => pathAudit'[PathOf(s)] # "active"]_rgVars
=============================================================================
