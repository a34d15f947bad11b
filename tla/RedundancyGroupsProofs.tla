----------------------- MODULE RedundancyGroupsProofs -----------------------
(***************************************************************************)
(* Proofs about the RedGroupCons and what the supervision is told, for any *)
(* configuration of groups and any number of clients: a bound RedGroupCon  *)
(* stands for one open connection, every connection of a client that keeps *)
(* to its entries has one, the audits name the state of every path, and    *)
(* the service is reported lost when it is and never by mistake.           *)
(***************************************************************************)
EXTENDS RedundancyGroups, TLAPS, FiniteSetTheorems

\* Two connections open at the same time differ in address or remote port.
OpenConnsDiffer ==
    /\ \A c \in Conns : IsOpen(c) => conn[c].ip \in IPs /\ conn[c].port \in Ports
    /\ \A c, d \in Conns :
          /\ IsOpen(c) /\ IsOpen(d)
          /\ conn[c].ip = conn[d].ip /\ conn[c].port = conn[d].port
          => c = d

\* Only RedGroupCons of the first group that lists their address are bound.
BoundInFirstGroup ==
    \A s \in Slots : slot[s].port # None => GetRedundancyGroup(ClientIP(s), s[1])

\* Bound RedGroupCons differ in address or port.
BoundSlotsDiffer ==
    \A s, t \in Slots :
        /\ slot[s].port # None
        /\ ClientIP(s) = ClientIP(t) /\ slot[s].port = slot[t].port
        => s = t

\* A bound RedGroupCon stands for an open connection.
BoundSlotsAreOpen ==
    \A s \in Slots : slot[s].port # None => \E c \in Conns : IsBoundTo(s, c)

BindingInv ==
    /\ OpenConnsDiffer
    /\ BoundInFirstGroup
    /\ BoundSlotsDiffer
    /\ BoundSlotsAreOpen

\* The inductive invariant.
RGInv == RGTypeOK /\ BindingInv /\ GlobalLossIsReported

-----------------------------------------------------------------------------
(* The configuration *)

LEMMA SlotFacts ==
    ASSUME NEW s \in Slots
    PROVE  /\ s[1] \in Groups /\ s[2] \in 1 .. Len(RedGroups[s[1]])
           /\ s = <<s[1], s[2]>>
           /\ ClientIP(s) \in IPs
           /\ PathOf(s) \in Paths
<1>1. PICK g \in Groups : s \in {<<g, j>> : j \in 1 .. Len(RedGroups[g])}
  BY DEF Slots
<1>2. PICK j \in 1 .. Len(RedGroups[g]) : s = <<g, j>>
  BY <1>1
<1>3. RedGroups[g] \in Seq(IPs)
  BY RedGroupsAssumption DEF Groups
<1>4. RedGroups[g][j] \in IPs
  BY <1>2, <1>3
<1>5. PathOf(s) \in Paths
  BY <1>2 DEF PathOf, PathLetter, Paths, AuditedGroups
<1> QED BY <1>2, <1>4, <1>5 DEF ClientIP

\* An address belongs to one group at most.
LEMMA OneGroup ==
    ASSUME NEW ip, NEW g, NEW h, GetRedundancyGroup(ip, g), GetRedundancyGroup(ip, h)
    PROVE  g = h
<1>1. Len(RedGroups) \in Nat
  BY RedGroupsAssumption
<1>2. g \in Nat /\ h \in Nat /\ g >= 1 /\ h >= 1
  BY <1>1 DEF GetRedundancyGroup, Groups
<1>3. ~(g < h) /\ ~(h < g)
  BY <1>2 DEF GetRedundancyGroup
<1> QED BY <1>2, <1>3

\* The group whose paths are audited last exists.
LEMMA LastGroupFact == LastAuditedGroup \in AuditedGroups
<1>1. Len(RedGroups) \in Nat /\ MaxRedGroups \in Nat /\ MaxRedGroups >= 1
  BY RedGroupsAssumption, MaxRedGroupsAssumption
<1>2. \E g \in AuditedGroups : \A h \in AuditedGroups : h =< g
  <2>1. CASE Len(RedGroups) =< MaxRedGroups
    BY <2>1, <1>1 DEF AuditedGroups, Groups
  <2>2. CASE MaxRedGroups =< Len(RedGroups)
    BY <2>2, <1>1 DEF AuditedGroups, Groups
  <2> QED BY <2>1, <2>2, <1>1
<1> QED BY <1>2 DEF LastAuditedGroup

-----------------------------------------------------------------------------
(* connectionEventHandler *)

\* The RedGroupCon of an event: bound to the connection, or free, and then no
\* other one is bound to it.
LEMMA CurrentFacts ==
    ASSUME BindingInv, NEW ip, NEW port, port # None,
           NEW s, IsCurrentConnection(ip, port, s)
    PROVE  /\ s \in Slots /\ ClientIP(s) = ip /\ GetRedundancyGroup(ip, s[1])
           /\ slot[s].port \in {port, None}
           /\ slot[s].port = None =>
                 \A t \in Slots : ClientIP(t) = ip => slot[t].port # port
<1>1. PICK g \in Groups :
         /\ GetRedundancyGroup(ip, g)
         /\ \/ GetRedGroupCon(g, ip, port, s)
            \/ /\ ~\E t \in Slots : GetRedGroupCon(g, ip, port, t)
               /\ GetRedGroupCon(g, ip, None, s)
  BY DEF IsCurrentConnection
<1>2. s \in Slots /\ s[1] = g /\ ClientIP(s) = ip /\ slot[s].port \in {port, None}
  BY <1>1 DEF GetRedGroupCon
<1>3. ASSUME slot[s].port = None, NEW t \in Slots, ClientIP(t) = ip, slot[t].port = port
      PROVE  FALSE
  <2>1. ~\E u \in Slots : GetRedGroupCon(g, ip, port, u)
    BY <1>1, <1>3 DEF GetRedGroupCon
  <2>2. t[1] = g
    BY <1>1, <1>3, OneGroup DEF BindingInv, BoundInFirstGroup
  <2>3. t = <<g, t[2]>> /\ t[2] \in Nat
    BY <2>2, SlotFacts
  <2>4. \A j \in 1 .. t[2] - 1 :
           ~(<<g, j>> \in Slots /\ ClientIP(<<g, j>>) = ip /\ slot[<<g, j>>].port = port)
    BY <1>3, <2>3 DEF BindingInv, BoundSlotsDiffer
  <2>5. GetRedGroupCon(g, ip, port, t)
    BY <1>3, <2>2, <2>4 DEF GetRedGroupCon
  <2> QED BY <2>1, <2>5
<1> QED BY <1>1, <1>2, <1>3

\* A RedGroupCon that is bound to the connection is the one of its events.
LEMMA BoundIsCurrent ==
    ASSUME BindingInv, NEW t \in Slots, slot[t].port # None
    PROVE  IsCurrentConnection(ClientIP(t), slot[t].port, t)
<1> DEFINE g == t[1]
<1>1. g \in Groups /\ t = <<g, t[2]>> /\ t[2] \in Nat
  BY SlotFacts
<1>2. GetRedundancyGroup(ClientIP(t), g)
  BY DEF BindingInv, BoundInFirstGroup
<1>3. \A j \in 1 .. t[2] - 1 :
         ~(<<g, j>> \in Slots /\ ClientIP(<<g, j>>) = ClientIP(t) /\ slot[<<g, j>>].port = slot[t].port)
  BY <1>1 DEF BindingInv, BoundSlotsDiffer
<1>4. GetRedGroupCon(g, ClientIP(t), slot[t].port, t)
  BY <1>3 DEF GetRedGroupCon
<1> QED BY <1>1, <1>2, <1>4 DEF IsCurrentConnection

\* The RedGroupCon of an event has the port p after it; without one nothing changes.
SlotsAfter(ip, port, p) ==
    \/ slot' = slot /\ ~HasCurrentConnection(ip, port)
    \/ \E s \in Slots :
          /\ IsCurrentConnection(ip, port, s)
          /\ slot'[s].port = p
          /\ \A t \in Slots : t # s => slot'[t] = slot[t]

PortAfter(event, port) == IF event = "CONNECTION_CLOSED" THEN None ELSE port

\* What an event does to the RedGroupCons and the audits.
LEMMA EventEffect ==
    ASSUME RGTypeOK, NEW ip, NEW port \in Ports, NEW event,
           connectionEventHandler(ip, port, event)
    PROVE  /\ SlotsAfter(ip, port, PortAfter(event, port))
           /\ slot' \in [Slots -> [port : Ports \union {None}, active : BOOLEAN]]
           /\ pathAudit' \in [Paths -> PathStates]
           /\ lastAudit' \in {<<>>} \union (Paths \X PathStates)
           /\ globalAudit' \in {globalAudit, "disconnected", "connected"}
           /\ globalAudit' = "connected" =>
                 \/ globalAudit = "connected" /\ slot' = slot
                 \/ \E s \in Slots : slot'[s].port # None
<1>1. CASE ~HasCurrentConnection(ip, port) /\ UNCHANGED <<slot, auditVars>>
  BY <1>1 DEF RGTypeOK, auditVars, SlotsAfter
<1>2. ASSUME NEW s \in Slots, IsCurrentConnection(ip, port, s), OnEvent(event, s, port)
      PROVE  /\ slot'[s].port = PortAfter(event, port)
             /\ \A t \in Slots : t # s => slot'[t] = slot[t]
             /\ slot' \in [Slots -> [port : Ports \union {None}, active : BOOLEAN]]
             /\ pathAudit' \in [Paths -> PathStates]
             /\ lastAudit' \in {<<>>} \union (Paths \X PathStates)
             /\ globalAudit' \in {globalAudit, "disconnected", "connected"}
             /\ globalAudit' = "connected" => \E t \in Slots : slot'[t].port # None
  <2>1. \A type \in PathStates : sendConnectionStatusAudit(type, PathOf(s)) =>
           /\ pathAudit' \in [Paths -> PathStates]
           /\ lastAudit' \in {<<>>} \union (Paths \X PathStates)
    <3>1. PathOf(s) \in Paths
      BY SlotFacts
    <3>2. /\ pathAudit \in [Paths -> PathStates]
          /\ lastAudit \in {<<>>} \union (Paths \X PathStates)
      BY DEF RGTypeOK
    <3>3. ASSUME NEW type \in PathStates, NEW path \in Paths,
                 sendConnectionStatusAudit(type, path)
          PROVE  /\ pathAudit' \in [Paths -> PathStates]
                 /\ lastAudit' \in {<<>>} \union (Paths \X PathStates)
      BY <3>2, <3>3 DEF sendConnectionStatusAudit
    <3> QED BY <3>1, <3>3
  <2>2. \A f \in [Slots -> [port : Ports \union {None}, active : BOOLEAN]],
           p \in Ports \union {None} :
           /\ [f EXCEPT ![s].port = p]
                 \in [Slots -> [port : Ports \union {None}, active : BOOLEAN]]
           /\ [f EXCEPT ![s].port = p][s].port = p
           /\ \A t \in Slots : t # s => [f EXCEPT ![s].port = p][t] = f[t]
    OBVIOUS
  <2>3. slot \in [Slots -> [port : Ports \union {None}, active : BOOLEAN]]
    BY DEF RGTypeOK
  <2>4. port # None
    BY NoneAssumption
  <2>5. CASE event = "CONNECTION_OPENED" /\ OnOpened(s, port)
    BY <2>1, <2>2, <2>3, <2>4, <2>5 DEF OnOpened, PathStates, PortAfter
  <2>6. CASE event = "CONNECTION_CLOSED" /\ OnClosed(s, port)
    <3>1. slot' = [slot EXCEPT ![s].port = None]
      BY <2>6 DEF OnClosed
    <3>2. /\ globalAudit' \in {globalAudit, "disconnected"}
          /\ globalAudit' = "connected" => isAnyConnectionEstablished(slot')
      BY <2>6 DEF OnClosed, sendGlobalStatusAudit
    <3> QED BY <2>1, <2>2, <2>3, <2>6, <3>1, <3>2
            DEF OnClosed, PathStates, isAnyConnectionEstablished, PortAfter
  <2>7. CASE event = "ACTIVATED" /\ OnActivated(s, port)
    BY <2>1, <2>3, <2>4, <2>7 DEF OnActivated, PathStates, sendGlobalStatusAudit, PortAfter
  <2>8. CASE event = "DEACTIVATED" /\ OnDeactivated(s, port)
    BY <2>1, <2>3, <2>4, <2>8 DEF OnDeactivated, PathStates, PortAfter
  <2> QED BY <1>2, <2>5, <2>6, <2>7, <2>8 DEF OnEvent
<1> QED BY <1>1, <1>2 DEF connectionEventHandler, SlotsAfter


\* The connections other than c stay as they are.
OthersKept(c) ==
    \A d \in Conns : d # c =>
        conn'[d].ip = conn[d].ip /\ conn'[d].port = conn[d].port /\ (IsOpen(d)' <=> IsOpen(d))

\* An event of a connection that is open after it keeps the binding.
LEMMA BindStep ==
    ASSUME BindingInv, RGTypeOK, NEW c \in Conns, NEW ip \in IPs, NEW port \in Ports,
           OthersKept(c), IsOpen(c)', conn'[c].ip = ip, conn'[c].port = port,
           IsOpen(c) => conn[c].ip = ip /\ conn[c].port = port,
           ~IsOpen(c) => \A d \in Conns : IsOpen(d) /\ conn[d].ip = ip => conn[d].port # port,
           NEW event, event # "CONNECTION_CLOSED",
           connectionEventHandler(ip, port, event)
    PROVE  BindingInv'
<1>1. port # None
  BY NoneAssumption
<1>2. SlotsAfter(ip, port, port)
  <2>1. PortAfter(event, port) = port
    BY DEF PortAfter
  <2>2. SlotsAfter(ip, port, PortAfter(event, port))
    BY EventEffect
  <2> QED BY <2>1, <2>2
<1>3. OpenConnsDiffer'
  BY DEF OthersKept, BindingInv, OpenConnsDiffer
<1>4. ASSUME NEW t \in Slots, slot'[t] = slot[t], slot[t].port # None
      PROVE  \E d \in Conns : IsBoundTo(t, d)'
  <2>1. PICK d \in Conns : IsBoundTo(t, d)
    BY <1>4 DEF BindingInv, BoundSlotsAreOpen
  <2>2. IsBoundTo(t, d)'
    BY <1>4, <2>1 DEF IsBoundTo, OthersKept
  <2> QED BY <2>2
<1>5. CASE slot' = slot
  <2>1. BoundInFirstGroup' /\ BoundSlotsDiffer'
    BY <1>5 DEF BindingInv, BoundInFirstGroup, BoundSlotsDiffer
  <2>2. BoundSlotsAreOpen'
    BY <1>4, <1>5 DEF BoundSlotsAreOpen
  <2> QED BY <1>3, <2>1, <2>2 DEF BindingInv
<1>6. ASSUME NEW s \in Slots, IsCurrentConnection(ip, port, s), slot'[s].port = port,
             \A t \in Slots : t # s => slot'[t] = slot[t]
      PROVE  BindingInv'
  <2>1. /\ ClientIP(s) = ip /\ GetRedundancyGroup(ip, s[1])
        /\ slot[s].port \in {port, None}
        /\ slot[s].port = None => \A t \in Slots : ClientIP(t) = ip => slot[t].port # port
    BY <1>1, <1>6, CurrentFacts
  <2>2. BoundInFirstGroup'
    BY <1>6, <2>1 DEF BindingInv, BoundInFirstGroup
  <2>3. \A t \in Slots : t # s /\ ClientIP(t) = ip => slot[t].port # port
    BY <1>1, <2>1 DEF BindingInv, BoundSlotsDiffer
  <2>4. BoundSlotsDiffer'
    BY <1>6, <2>1, <2>3 DEF BindingInv, BoundSlotsDiffer
  <2>5. IsBoundTo(s, c)'
    BY <1>1, <1>6, <2>1 DEF IsBoundTo
  <2>6. BoundSlotsAreOpen'
    BY <1>4, <1>6, <2>5 DEF BoundSlotsAreOpen
  <2> QED BY <1>3, <2>2, <2>4, <2>6 DEF BindingInv
<1> QED BY <1>2, <1>5, <1>6 DEF SlotsAfter

\* A close releases the RedGroupCon of the connection.
LEMMA ReleaseStep ==
    ASSUME BindingInv, RGTypeOK, NEW c \in Conns, NEW ip, NEW port, IsOpen(c),
           conn[c].ip = ip, conn[c].port = port,
           OthersKept(c), ~IsOpen(c)',
           connectionEventHandler(ip, port, "CONNECTION_CLOSED")
    PROVE  BindingInv'
<1>1. ip \in IPs /\ port \in Ports /\ port # None
  BY NoneAssumption DEF BindingInv, OpenConnsDiffer
<1>2. SlotsAfter(ip, port, None)
  <2>1. PortAfter("CONNECTION_CLOSED", port) = None
    BY DEF PortAfter
  <2> QED BY <1>1, <2>1, EventEffect
<1>3. OpenConnsDiffer'
  BY DEF OthersKept, BindingInv, OpenConnsDiffer
<1>4. \A t \in Slots : slot'[t].port # None => slot'[t] = slot[t]
  BY <1>2 DEF SlotsAfter
<1>5. BoundInFirstGroup' /\ BoundSlotsDiffer'
  BY <1>4 DEF BindingInv, BoundInFirstGroup, BoundSlotsDiffer
<1>6. ASSUME NEW t \in Slots, slot'[t].port # None
      PROVE  \E d \in Conns : IsBoundTo(t, d)'
  <2>1. slot'[t] = slot[t]
    BY <1>4, <1>6
  <2>2. PICK d \in Conns : IsBoundTo(t, d)
    BY <1>6, <2>1 DEF BindingInv, BoundSlotsAreOpen
  <2>3. ASSUME d = c PROVE FALSE
    <3>1. ClientIP(t) = ip /\ slot[t].port = port
      BY <2>2, <2>3 DEF IsBoundTo
    <3>2. IsCurrentConnection(ip, port, t)
      BY <1>1, <3>1, BoundIsCurrent
    <3>3. PICK s \in Slots : IsCurrentConnection(ip, port, s) /\ slot'[s].port = None
      BY <1>2, <3>2 DEF HasCurrentConnection, SlotsAfter
    <3>4. /\ ClientIP(s) = ip /\ slot[s].port \in {port, None}
          /\ slot[s].port = None => \A u \in Slots : ClientIP(u) = ip => slot[u].port # port
      BY <1>1, <3>3, CurrentFacts
    <3>5. s = t
      BY <1>1, <3>1, <3>4 DEF BindingInv, BoundSlotsDiffer
    <3> QED BY <1>6, <3>3, <3>5
  <2>4. IsBoundTo(t, d)'
    BY <2>1, <2>2, <2>3 DEF IsBoundTo, OthersKept
  <2> QED BY <2>4
<1>7. BoundSlotsAreOpen'
  BY <1>6 DEF BoundSlotsAreOpen
<1> QED BY <1>3, <1>5, <1>7 DEF BindingInv

\* The types and the report of the loss after an event.
LEMMA EventKeeps ==
    ASSUME RGTypeOK, GlobalLossIsReported, NEW ip, NEW port \in Ports, NEW event,
           connectionEventHandler(ip, port, event),
           conn' \in [Conns -> [state : ConnStates, ip : IPs \union {None},
                                port : Ports \union {None}]],
           kept' \in BOOLEAN
    PROVE  RGTypeOK' /\ GlobalLossIsReported'
<1>2. /\ slot' \in [Slots -> [port : Ports \union {None}, active : BOOLEAN]]
      /\ pathAudit' \in [Paths -> PathStates]
      /\ lastAudit' \in {<<>>} \union (Paths \X PathStates)
      /\ globalAudit' \in {globalAudit, "disconnected", "connected"}
      /\ globalAudit' = "connected" =>
            \/ globalAudit = "connected" /\ slot' = slot
            \/ \E s \in Slots : slot'[s].port # None
  BY EventEffect
<1> QED BY <1>2 DEF RGTypeOK, GlobalLossIsReported, isAnyConnectionEstablished

-----------------------------------------------------------------------------

\* The initial state satisfies the invariant.
LEMMA RGInitInv == RGInit => RGInv
  BY NoneAssumption
  DEF RGInit, RGInv, RGTypeOK, BindingInv, OpenConnsDiffer, BoundInFirstGroup, BoundSlotsDiffer,
      BoundSlotsAreOpen, GlobalLossIsReported, Free, IsOpen, ConnStates, PathStates

\* The audits of startSlave.
LEMMA StartInv ==
    ASSUME RGInv, startSlave
    PROVE  RGInv'
<1>1. /\ pathAudit' = [p \in Paths |-> InitialAudit(p)]
      /\ lastAudit' = <<<<LastAuditedGroup, "B">>, InitialAudit(<<LastAuditedGroup, "B">>)>>
      /\ globalAudit' = "disconnected" /\ UNCHANGED <<conn, slot, kept>>
  BY DEF startSlave, sendInitialAudits, sendGlobalStatusAudit
<1>2. \A p : InitialAudit(p) \in PathStates
  BY DEF InitialAudit, PathStates
<1>3. <<LastAuditedGroup, "B">> \in Paths
  BY LastGroupFact DEF Paths
<1>4. RGTypeOK' /\ GlobalLossIsReported'
  BY <1>1, <1>2, <1>3 DEF RGInv, RGTypeOK, GlobalLossIsReported
<1>5. BindingInv'
  BY <1>1 DEF RGInv, BindingInv, OpenConnsDiffer, BoundInFirstGroup, BoundSlotsDiffer,
              BoundSlotsAreOpen, IsBoundTo, IsOpen
<1> QED BY <1>4, <1>5 DEF RGInv

LEMMA OpenedInv ==
    ASSUME RGInv, NEW c \in Conns, NEW ip \in IPs, NEW port \in Ports, Opened(c, ip, port)
    PROVE  RGInv'
<1>1. /\ ~IsOpen(c) /\ \A d \in OpenFrom(ip) : conn[d].port # port
      /\ conn' = [conn EXCEPT ![c] = [state |-> "stopped", ip |-> ip, port |-> port]]
      /\ connectionEventHandler(ip, port, "CONNECTION_OPENED")
      /\ kept' = (kept /\ (SlotsOf(ip) = {} \/ HasRoom(ip)))
  BY DEF Opened
<1>2. kept' \in BOOLEAN
  BY <1>1
<1>3. /\ conn' \in [Conns -> [state : ConnStates, ip : IPs \union {None}, port : Ports \union {None}]]
      /\ conn'[c] = [state |-> "stopped", ip |-> ip, port |-> port]
      /\ \A d \in Conns : d # c => conn'[d] = conn[d]
  BY <1>1 DEF RGInv, RGTypeOK, ConnStates
<1>4. RGTypeOK' /\ GlobalLossIsReported'
  BY <1>1, <1>2, <1>3, EventKeeps DEF RGInv
<1>5. OthersKept(c) /\ IsOpen(c)' /\ conn'[c].ip = ip /\ conn'[c].port = port
  BY <1>3 DEF OthersKept, IsOpen
<1>6. \A d \in Conns : IsOpen(d) /\ conn[d].ip = ip => conn[d].port # port
  BY <1>1 DEF OpenFrom
<1>7. BindingInv'
  BY <1>1, <1>5, <1>6, BindStep DEF RGInv
<1> QED BY <1>4, <1>7 DEF RGInv

LEMMA ClosedInv ==
    ASSUME RGInv, NEW c \in Conns, Closed(c)
    PROVE  RGInv'
<1>1. /\ conn[c].state \in {"stopped", "started"} /\ conn' = [conn EXCEPT ![c] = Free]
      /\ connectionEventHandler(conn[c].ip, conn[c].port, "CONNECTION_CLOSED")
      /\ UNCHANGED kept
  BY DEF Closed
<1>2. IsOpen(c) /\ conn[c].ip \in IPs /\ conn[c].port \in Ports
  BY <1>1 DEF IsOpen, RGInv, BindingInv, OpenConnsDiffer
<1>3. /\ conn' \in [Conns -> [state : ConnStates, ip : IPs \union {None}, port : Ports \union {None}]]
      /\ conn'[c] = Free
      /\ \A d \in Conns : d # c => conn'[d] = conn[d]
  BY <1>1 DEF RGInv, RGTypeOK, ConnStates, Free
<1>4. RGTypeOK' /\ GlobalLossIsReported'
  BY <1>1, <1>2, <1>3, EventKeeps DEF RGInv, RGTypeOK
<1>5. OthersKept(c) /\ ~IsOpen(c)'
  BY <1>3 DEF OthersKept, IsOpen, Free
<1>6. BindingInv'
  BY <1>1, <1>2, <1>5, ReleaseStep DEF RGInv
<1> QED BY <1>4, <1>6 DEF RGInv

\* A connection changes its state and an event other than a close is raised.
LEMMA StateChangeInv ==
    ASSUME RGInv, NEW c \in Conns, IsOpen(c), NEW state \in ConnStates \ {"free"},
           conn' = [conn EXCEPT ![c].state = state], UNCHANGED kept,
           NEW event, event # "CONNECTION_CLOSED",
           connectionEventHandler(conn[c].ip, conn[c].port, event)
    PROVE  RGInv'
<1>1. PICK ip, port : ip = conn[c].ip /\ port = conn[c].port
  OBVIOUS
<1>2. ip \in IPs /\ port \in Ports
  BY <1>1 DEF RGInv, BindingInv, OpenConnsDiffer
<1>3. /\ conn' \in [Conns -> [state : ConnStates, ip : IPs \union {None}, port : Ports \union {None}]]
      /\ conn'[c].state = state /\ conn'[c].ip = ip /\ conn'[c].port = port
      /\ \A d \in Conns : d # c => conn'[d] = conn[d]
  BY <1>1 DEF RGInv, RGTypeOK
<1>4. RGTypeOK' /\ GlobalLossIsReported'
  BY <1>1, <1>2, <1>3, EventKeeps DEF RGInv, RGTypeOK
<1>5. OthersKept(c) /\ IsOpen(c)'
  BY <1>3 DEF OthersKept, IsOpen
<1>6. BindingInv'
  <2>1. BindingInv /\ RGTypeOK
    BY DEF RGInv
  <2>2. connectionEventHandler(ip, port, event)
    BY <1>1
  <2>3. /\ IsOpen(c)' /\ conn'[c].ip = ip /\ conn'[c].port = port
        /\ IsOpen(c) /\ conn[c].ip = ip /\ conn[c].port = port
    BY <1>1, <1>3, <1>5
  <2> QED BY <1>2, <1>5, <2>1, <2>2, <2>3, BindStep
<1> QED BY <1>4, <1>6 DEF RGInv

LEMMA StartDTInv ==
    ASSUME RGInv, NEW c \in Conns, StartDT(c)
    PROVE  RGInv'
<1>1. /\ conn[c].state = "stopped" /\ conn' = [conn EXCEPT ![c].state = "starting"]
      /\ UNCHANGED <<slot, pathAudit, lastAudit, globalAudit, kept>>
  BY DEF StartDT, auditVars
<1>2. /\ conn' \in [Conns -> [state : ConnStates, ip : IPs \union {None}, port : Ports \union {None}]]
      /\ \A d \in Conns : /\ conn'[d].ip = conn[d].ip /\ conn'[d].port = conn[d].port
                          /\ IsOpen(d)' <=> IsOpen(d)
  <2>1. conn \in [Conns -> [state : ConnStates, ip : IPs \union {None}, port : Ports \union {None}]]
    BY DEF RGInv, RGTypeOK
  <2>2. /\ conn' \in [Conns -> [state : ConnStates, ip : IPs \union {None}, port : Ports \union {None}]]
        /\ conn'[c].state = "starting" /\ conn'[c].ip = conn[c].ip /\ conn'[c].port = conn[c].port
        /\ \A d \in Conns : d # c => conn'[d] = conn[d]
    BY <1>1, <2>1 DEF ConnStates
  <2> QED BY <1>1, <2>2 DEF IsOpen
<1>3. RGTypeOK' /\ GlobalLossIsReported'
  BY <1>1, <1>2 DEF RGInv, RGTypeOK, GlobalLossIsReported, isAnyConnectionEstablished
<1>4. BindingInv'
  BY <1>1, <1>2 DEF RGInv, BindingInv, OpenConnsDiffer, BoundInFirstGroup, BoundSlotsDiffer,
                    BoundSlotsAreOpen, IsBoundTo
<1> QED BY <1>3, <1>4 DEF RGInv

\* Every step keeps the invariant.
LEMMA RGNextInv == RGInv /\ [RGNext]_rgVars => RGInv'
<1> SUFFICES ASSUME RGInv, [RGNext]_rgVars PROVE RGInv'
  OBVIOUS
<1>1. CASE startSlave
  BY <1>1, StartInv
<1>2. CASE \E c \in Conns, ip \in IPs, port \in Ports : Opened(c, ip, port)
  BY <1>2, OpenedInv
<1>3. ASSUME NEW c \in Conns, Closed(c) \/ StartDT(c) PROVE RGInv'
  BY <1>3, ClosedInv, StartDTInv
<1>4. ASSUME NEW c \in Conns, Activated(c) PROVE RGInv'
  BY <1>4, StateChangeInv DEF Activated, IsOpen, ConnStates
<1>5. ASSUME NEW c \in Conns, StopDT(c) PROVE RGInv'
  BY <1>5, StateChangeInv DEF StopDT, IsOpen, ConnStates
<1>6. ASSUME NEW c \in Conns, NEW d \in Conns, Supersede(c, d) PROVE RGInv'
  BY <1>6, StateChangeInv DEF Supersede, IsOpen, ConnStates
<1>7. CASE UNCHANGED rgVars
  <2>1. UNCHANGED <<conn, slot, pathAudit, lastAudit, globalAudit, kept>>
    BY <1>7 DEF rgVars, auditVars
  <2>2. RGTypeOK' /\ GlobalLossIsReported'
    BY <2>1 DEF RGInv, RGTypeOK, GlobalLossIsReported, isAnyConnectionEstablished
  <2>3. BindingInv'
    BY <2>1 DEF RGInv, BindingInv, OpenConnsDiffer, BoundInFirstGroup, BoundSlotsDiffer,
                BoundSlotsAreOpen, IsBoundTo, IsOpen
  <2> QED BY <2>2, <2>3 DEF RGInv
<1> QED BY <1>1, <1>2, <1>3, <1>4, <1>5, <1>6, <1>7 DEF RGNext

\* The variables have their types, for any configuration and any clients.
THEOREM AuditsTypeCorrect == RGSpec => []RGTypeOK
<1>1. RGInv => RGTypeOK
  BY DEF RGInv
<1> QED BY <1>1, RGInitInv, RGNextInv, PTL DEF RGSpec

\* No RedGroupCon leaks or is shared, for any configuration and any clients,
\* however they connect, take over and close.
THEOREM SlotsAlwaysFollow == RGSpec => []SlotsFollowConnections
<1>1. RGInv => SlotsFollowConnections
  BY DEF RGInv, BindingInv, BoundSlotsAreOpen, BoundSlotsDiffer, SlotsFollowConnections, IsBoundTo
<1> QED BY <1>1, RGInitInv, RGNextInv, PTL DEF RGSpec

\* The close of the last bound RedGroupCon always reports the loss.
THEOREM GlobalLossIsAlwaysReported == RGSpec => []GlobalLossIsReported
<1>1. RGInv => GlobalLossIsReported
  BY DEF RGInv
<1> QED BY <1>1, RGInitInv, RGNextInv, PTL DEF RGSpec

-----------------------------------------------------------------------------
(* The audit trail *)

\* Nothing is open before startSlave.
NothingBeforeStart ==
    ~Started => /\ \A c \in Conns : ~IsOpen(c)
                /\ \A s \in Slots : slot[s].port = None

OpenIsFinite == IsFiniteSet({c \in Conns : IsOpen(c)})

\* The audit that is not repeated is the last one of its path.
LastAuditIsTrue == lastAudit # <<>> => pathAudit[lastAudit[1]] = lastAudit[2]

\* The inductive invariant.
AuditInv ==
    /\ RGInv
    /\ NothingBeforeStart
    /\ OpenIsFinite
    /\ LastAuditIsTrue
    /\ EveryConnectionIsBound
    /\ PathAuditsAreTrue
    /\ ActiveIsReported

-----------------------------------------------------------------------------
(* An event *)

StateAfter(event) ==
    IF event = "CONNECTION_CLOSED" THEN "free"
    ELSE IF event = "ACTIVATED" THEN "started" ELSE "stopped"

AuditOf(event) ==
    IF event = "CONNECTION_CLOSED" THEN "disconnected"
    ELSE IF event = "ACTIVATED" THEN "active" ELSE "passive"

Events == {"CONNECTION_OPENED", "CONNECTION_CLOSED", "ACTIVATED", "DEACTIVATED"}

\* An event of the connection c, which has this address and port.
EventStep(c, ip, port, event) ==
    /\ Started
    /\ ip \in IPs /\ port \in Ports /\ event \in Events
    /\ conn'[c].state = StateAfter(event)
    /\ IsOpen(c)' => conn'[c].ip = ip /\ conn'[c].port = port
    /\ \A d \in Conns : d # c => conn'[d] = conn[d]
    /\ IsOpen(c) => conn[c].ip = ip /\ conn[c].port = port
    /\ ~IsOpen(c) => \A d \in OpenFrom(ip) : conn[d].port # port
    /\ event = "CONNECTION_OPENED" <=> ~IsOpen(c)
    /\ event # "CONNECTION_OPENED" => kept' = kept
    /\ kept' => kept /\ (~IsOpen(c) => SlotsOf(ip) = {} \/ HasRoom(ip))
    /\ connectionEventHandler(ip, port, event)

\* The global audit of an event.
GlobalAfter(event) ==
    IF event = "ACTIVATED" THEN globalAudit' = "connected"
    ELSE IF event = "CONNECTION_CLOSED"
      THEN IF isAnyConnectionEstablished(slot')
             THEN globalAudit' = globalAudit ELSE globalAudit' = "disconnected"
      ELSE globalAudit' = globalAudit

\* What the event does to its RedGroupCon u and to the audits.
HandledAt(u, ip, port, event) ==
    /\ IsCurrentConnection(ip, port, u)
    /\ slot'[u].port = PortAfter(event, port)
    /\ \A t \in Slots : t # u => slot'[t] = slot[t]
    /\ pathAudit' = [pathAudit EXCEPT ![PathOf(u)] = AuditOf(event)]
    /\ lastAudit' = <<PathOf(u), AuditOf(event)>>
    /\ GlobalAfter(event)

LEMMA AuditIsSent ==
    ASSUME RGTypeOK, LastAuditIsTrue, NEW path \in Paths, NEW type \in PathStates,
           sendConnectionStatusAudit(type, path)
    PROVE  /\ pathAudit' = [pathAudit EXCEPT ![path] = type]
           /\ lastAudit' = <<path, type>>
<1>1. CASE lastAudit = <<path, type>>
  <2>1. pathAudit[path] = type /\ pathAudit \in [Paths -> PathStates]
    BY <1>1 DEF LastAuditIsTrue, RGTypeOK
  <2>2. pathAudit = [pathAudit EXCEPT ![path] = type]
    BY <2>1
  <2> QED BY <1>1, <2>2 DEF sendConnectionStatusAudit
<1>2. CASE lastAudit # <<path, type>>
  BY <1>2 DEF sendConnectionStatusAudit
<1> QED BY <1>1, <1>2

LEMMA EventIsHandled ==
    ASSUME RGTypeOK, LastAuditIsTrue, NEW ip, NEW port \in Ports, NEW event,
           connectionEventHandler(ip, port, event)
    PROVE  \/ ~HasCurrentConnection(ip, port) /\ UNCHANGED <<slot, auditVars>>
           \/ \E u \in Slots : HandledAt(u, ip, port, event)
<1>1. ASSUME NEW u \in Slots, IsCurrentConnection(ip, port, u), OnEvent(event, u, port)
      PROVE  HandledAt(u, ip, port, event)
  <2>1. PathOf(u) \in Paths /\ AuditOf(event) \in PathStates
    BY SlotFacts DEF AuditOf, PathStates
  <2>2. slot \in [Slots -> [port : Ports \union {None}, active : BOOLEAN]]
    BY DEF RGTypeOK
  <2>3. /\ slot'[u].port = PortAfter(event, port)
        /\ \A t \in Slots : t # u => slot'[t] = slot[t]
    BY <1>1, <2>2 DEF OnEvent, OnOpened, OnClosed, OnActivated, OnDeactivated, PortAfter
  <2>4. sendConnectionStatusAudit(AuditOf(event), PathOf(u)) /\ GlobalAfter(event)
    BY <1>1 DEF OnEvent, OnOpened, OnClosed, OnActivated, OnDeactivated, AuditOf, GlobalAfter,
                sendGlobalStatusAudit
  <2> QED BY <1>1, <2>1, <2>3, <2>4, AuditIsSent DEF HandledAt
<1> QED BY <1>1 DEF connectionEventHandler

\* Every step is an event, or startSlave, or STARTDT, or changes nothing.
LEMMA StepKinds ==
    ASSUME RGInv, NothingBeforeStart, [RGNext]_rgVars
    PROVE  \/ startSlave
           \/ \E c \in Conns : StartDT(c)
           \/ \E c \in Conns, ip \in IPs, port \in Ports, event \in Events :
                 EventStep(c, ip, port, event)
           \/ UNCHANGED rgVars
<1>1. \A c \in Conns : IsOpen(c) => Started /\ conn[c].ip \in IPs /\ conn[c].port \in Ports
  BY DEF RGInv, BindingInv, OpenConnsDiffer, NothingBeforeStart
<1>2. conn \in [Conns -> [state : ConnStates, ip : IPs \union {None}, port : Ports \union {None}]]
  BY DEF RGInv, RGTypeOK
<1>3. ASSUME NEW c \in Conns, NEW ip \in IPs, NEW port \in Ports, Opened(c, ip, port)
      PROVE  EventStep(c, ip, port, "CONNECTION_OPENED")
  <2>1. /\ conn'[c] = [state |-> "stopped", ip |-> ip, port |-> port]
        /\ \A d \in Conns : d # c => conn'[d] = conn[d]
    BY <1>2, <1>3 DEF Opened
  <2>2. /\ ~IsOpen(c) /\ conn'[c].state = "stopped"
        /\ conn'[c].ip = ip /\ conn'[c].port = port
    BY <1>3, <2>1 DEF Opened
  <2> QED BY <1>3, <2>1, <2>2 DEF Opened, EventStep, Events, StateAfter
<1>4. ASSUME NEW c \in Conns, Closed(c)
      PROVE  EventStep(c, conn[c].ip, conn[c].port, "CONNECTION_CLOSED")
  <2>1. conn'[c] = Free /\ \A d \in Conns : d # c => conn'[d] = conn[d]
    BY <1>2, <1>4 DEF Closed
  <2>2. IsOpen(c) /\ ~IsOpen(c)' /\ conn'[c].state = "free"
    BY <1>4, <2>1 DEF Closed, IsOpen, Free
  <2> QED BY <1>1, <1>4, <2>1, <2>2 DEF Closed, EventStep, Events, StateAfter
<1>5. ASSUME NEW c \in Conns, IsOpen(c), NEW event \in {"ACTIVATED", "DEACTIVATED"},
             conn' = [conn EXCEPT ![c].state = StateAfter(event)], UNCHANGED kept,
             connectionEventHandler(conn[c].ip, conn[c].port, event)
      PROVE  EventStep(c, conn[c].ip, conn[c].port, event)
  <2>1. /\ conn'[c].state = StateAfter(event)
        /\ conn'[c].ip = conn[c].ip /\ conn'[c].port = conn[c].port
        /\ \A d \in Conns : d # c => conn'[d] = conn[d]
    BY <1>2, <1>5
  <2> QED BY <1>1, <1>5, <2>1 DEF EventStep, Events
<1>6. ASSUME NEW c \in Conns, Activated(c)
      PROVE  EventStep(c, conn[c].ip, conn[c].port, "ACTIVATED")
  BY <1>5, <1>6 DEF Activated, IsOpen, StateAfter
<1>7. ASSUME NEW c \in Conns, StopDT(c)
      PROVE  EventStep(c, conn[c].ip, conn[c].port, "DEACTIVATED")
  BY <1>5, <1>7 DEF StopDT, IsOpen, StateAfter
<1>8. ASSUME NEW c \in Conns, NEW d \in Conns, Supersede(c, d)
      PROVE  EventStep(d, conn[d].ip, conn[d].port, "DEACTIVATED")
  BY <1>5, <1>8 DEF Supersede, IsOpen, StateAfter
<1>9. \A c, ip, port, event :
         EventStep(c, ip, port, event) => ip \in IPs /\ port \in Ports /\ event \in Events
  BY DEF EventStep
<1> QED BY <1>3, <1>4, <1>6, <1>7, <1>8, <1>9 DEF RGNext

-----------------------------------------------------------------------------
(* EveryConnectionIsBound *)

\* A set of numbers has a first one.
LEMMA LeastNumber ==
    ASSUME NEW S, S \subseteq Nat, S # {}
    PROVE  \E n \in S : \A m \in S : n =< m
<1> DEFINE Less == {p \in Nat \X Nat : p[1] < p[2]}
<1>1. IsWellFoundedOn(Less, Nat)
  BY NatLessThanWellFounded DEF OpToRel
<1>2. PICK n \in S : \A m \in S : <<m, n>> \notin Less
  <2> HIDE DEF Less
  <2> QED BY <1>1, WFMin
<1>3. \A m \in S : m \in Nat /\ n \in Nat /\ ~(m < n)
  BY <1>2
<1> QED BY <1>3

\* A client with a free RedGroupCon has one for its next connection.
LEMMA FreeSlotIsFound ==
    ASSUME NEW ip, NEW port, NEW s \in SlotsOf(ip), slot[s].port = None
    PROVE  HasCurrentConnection(ip, port)
<1> DEFINE g == s[1]
           FreeAt(j) == <<g, j>> \in Slots /\ ClientIP(<<g, j>>) = ip /\ slot[<<g, j>>].port = None
           free == {j \in Nat : FreeAt(j)}
<1>1. s \in Slots /\ GetRedundancyGroup(ip, g) /\ ClientIP(s) = ip
  BY DEF SlotsOf
<1>2. g \in Groups /\ s = <<g, s[2]>> /\ s[2] \in Nat
  BY <1>1, SlotFacts
<1>3. PICK j \in free : \A k \in free : j =< k
  <2>1. s[2] \in free
    BY <1>1, <1>2
  <2> QED BY <2>1, LeastNumber
<1>4. \A k \in 1 .. j - 1 : ~FreeAt(k)
  BY <1>3
<1>5. GetRedGroupCon(g, ip, None, <<g, j>>)
  BY <1>3, <1>4 DEF GetRedGroupCon
<1>6. <<g, j>> \in Slots
  BY <1>3
<1>7. CASE \E t \in Slots : GetRedGroupCon(g, ip, port, t)
  BY <1>1, <1>2, <1>7 DEF HasCurrentConnection, IsCurrentConnection
<1>8. CASE ~\E t \in Slots : GetRedGroupCon(g, ip, port, t)
  <2>1. IsCurrentConnection(ip, port, <<g, j>>)
    BY <1>1, <1>2, <1>5, <1>8 DEF IsCurrentConnection
  <2> QED BY <1>6, <2>1 DEF HasCurrentConnection
<1> QED BY <1>7, <1>8

\* A client with fewer connections than entries has a free RedGroupCon: bound
\* ones stand for different connections.
LEMMA RoomMeansFreeSlot ==
    ASSUME RGInv, OpenIsFinite, NEW ip, HasRoom(ip)
    PROVE  \E s \in SlotsOf(ip) : slot[s].port = None
<1> SUFFICES ASSUME \A s \in SlotsOf(ip) : slot[s].port # None PROVE FALSE
  OBVIOUS
<1> DEFINE Holder(s) == CHOOSE c \in Conns : IsBoundTo(s, c)
           f == [s \in SlotsOf(ip) |-> Holder(s)]
<1>1. \A s \in SlotsOf(ip) : Holder(s) \in Conns /\ IsBoundTo(s, Holder(s)) /\ ClientIP(s) = ip
  BY DEF SlotsOf, RGInv, BindingInv, BoundSlotsAreOpen
<1> HIDE DEF Holder
<1>2. \A s \in SlotsOf(ip) : Holder(s) \in OpenFrom(ip)
  BY <1>1 DEF IsBoundTo, OpenFrom
<1>3. \A s, t \in SlotsOf(ip) : Holder(s) = Holder(t) => s = t
  BY <1>1 DEF IsBoundTo, SlotsOf, RGInv, BindingInv, BoundSlotsDiffer
<1>4. f \in Injection(SlotsOf(ip), OpenFrom(ip))
  BY <1>2, <1>3 DEF Injection, IsInjective
<1>5. IsFiniteSet(OpenFrom(ip))
  <2>1. OpenFrom(ip) \subseteq {c \in Conns : IsOpen(c)}
    BY DEF OpenFrom
  <2> QED BY <2>1, FS_Subset DEF OpenIsFinite
<1>6. IsFiniteSet(SlotsOf(ip)) /\ Cardinality(SlotsOf(ip)) =< Cardinality(OpenFrom(ip))
  <2> HIDE DEF f
  <2> QED BY <1>4, <1>5, FS_Injection
<1>7. Cardinality(SlotsOf(ip)) \in Nat /\ Cardinality(OpenFrom(ip)) \in Nat
  BY <1>5, <1>6, FS_CardinalityType
<1> QED BY <1>6, <1>7 DEF HasRoom

\* An event leaves the RedGroupCons of the other connections alone.
LEMMA OthersUntouched ==
    ASSUME RGInv, NEW c \in Conns, NEW ip, NEW port, NEW event, EventStep(c, ip, port, event),
           NEW u \in Slots, HandledAt(u, ip, port, event),
           NEW d \in Conns, d # c, NEW s \in Slots, IsBoundTo(s, d)
    PROVE  s # u
<1> SUFFICES ASSUME s = u PROVE FALSE
  OBVIOUS
<1>1. port # None
  BY NoneAssumption DEF EventStep
<1>2. ClientIP(u) = ip /\ slot[u].port \in {port, None}
  BY <1>1, CurrentFacts DEF HandledAt, RGInv
<1>3. IsOpen(d) /\ conn[d].ip = ip /\ conn[d].port = port
  BY <1>2 DEF IsBoundTo
<1>4. CASE IsOpen(c)
  BY <1>3, <1>4 DEF EventStep, RGInv, BindingInv, OpenConnsDiffer
<1>5. CASE ~IsOpen(c)
  BY <1>3, <1>5 DEF EventStep, OpenFrom
<1> QED BY <1>4, <1>5

\* The connection is bound to the RedGroupCon of its event, unless it closes.
LEMMA CurrentIsBound ==
    ASSUME RGInv, NEW c \in Conns, NEW ip, NEW port, NEW event, EventStep(c, ip, port, event),
           NEW u \in Slots, HandledAt(u, ip, port, event), IsOpen(c)'
    PROVE  IsBoundTo(u, c)'
<1>1. port # None
  BY NoneAssumption DEF EventStep
<1>2. ClientIP(u) = ip
  BY <1>1, CurrentFacts DEF HandledAt, RGInv
<1>3. slot'[u].port = port
  BY DEF HandledAt, EventStep, PortAfter, StateAfter, IsOpen
<1>4. conn'[c].ip = ip /\ conn'[c].port = port
  BY DEF EventStep
<1> QED BY <1>1, <1>2, <1>3, <1>4 DEF IsBoundTo

\* A connection that is bound is found by its events.
LEMMA BoundIsFound ==
    ASSUME RGInv, NEW c \in Conns, NEW s \in Slots, IsBoundTo(s, c)
    PROVE  IsCurrentConnection(conn[c].ip, conn[c].port, s)
  BY BoundIsCurrent DEF RGInv, IsBoundTo

\* The events of a client that keeps to its entries have their RedGroupCon.
LEMMA KeptIsFound ==
    ASSUME AuditInv, NEW c \in Conns, NEW ip, NEW port, NEW event,
           EventStep(c, ip, port, event), kept', SlotsOf(ip) # {}
    PROVE  HasCurrentConnection(ip, port)
<1>1. CASE IsOpen(c)
  <2>1. conn[c].ip = ip /\ conn[c].port = port /\ kept
    BY <1>1 DEF EventStep
  <2>2. PICK s \in Slots : IsBoundTo(s, c)
    BY <1>1, <2>1 DEF AuditInv, EveryConnectionIsBound
  <2> QED BY <2>1, <2>2, BoundIsFound DEF HasCurrentConnection, AuditInv
<1>2. CASE ~IsOpen(c)
  <2>1. HasRoom(ip)
    BY <1>2 DEF EventStep
  <2>2. PICK s \in SlotsOf(ip) : slot[s].port = None
    BY <2>1, RoomMeansFreeSlot DEF AuditInv
  <2> QED BY <2>2, FreeSlotIsFound
<1> QED BY <1>1, <1>2

\* An event keeps the connections bound.
LEMMA EventKeepsBound ==
    ASSUME AuditInv, NEW c \in Conns, NEW ip, NEW port, NEW event, EventStep(c, ip, port, event)
    PROVE  EveryConnectionIsBound'
<1> SUFFICES ASSUME NEW d \in Conns, kept', IsOpen(d)', SlotsOf(conn'[d].ip) # {}
             PROVE  \E s \in Slots : IsBoundTo(s, d)'
  BY DEF EveryConnectionIsBound
<1>1. /\ \/ ~HasCurrentConnection(ip, port) /\ UNCHANGED <<slot, auditVars>>
         \/ \E u \in Slots : HandledAt(u, ip, port, event)
      /\ kept
  BY EventIsHandled DEF AuditInv, RGInv, EventStep
<1>2. CASE d # c
  <2>1. conn'[d] = conn[d] /\ IsOpen(d)
    BY <1>2 DEF EventStep, IsOpen
  <2>2. PICK s \in Slots : IsBoundTo(s, d)
    BY <1>1, <2>1 DEF AuditInv, EveryConnectionIsBound
  <2>3. CASE UNCHANGED slot
    BY <2>1, <2>2, <2>3 DEF IsBoundTo, IsOpen
  <2>4. ASSUME NEW u \in Slots, HandledAt(u, ip, port, event)
        PROVE  IsBoundTo(s, d)'
    <3>1. s # u
      BY <1>2, <2>2, <2>4, OthersUntouched DEF AuditInv
    <3>2. slot'[s] = slot[s]
      BY <2>4, <3>1 DEF HandledAt
    <3> QED BY <2>1, <2>2, <3>2 DEF IsBoundTo, IsOpen
  <2> QED BY <1>1, <2>3, <2>4
<1>3. CASE d = c
  <2>1. conn'[c].ip = ip
    BY <1>3 DEF EventStep
  <2>2. HasCurrentConnection(ip, port)
    BY <1>3, <2>1, KeptIsFound
  <2>3. PICK u \in Slots : HandledAt(u, ip, port, event)
    BY <1>1, <2>2
  <2> QED BY <1>3, <2>3, CurrentIsBound DEF AuditInv
<1> QED BY <1>2, <1>3

\* An event keeps the number of connections finite.
LEMMA EventKeepsFinite ==
    ASSUME OpenIsFinite, NEW c \in Conns, NEW ip, NEW port, NEW event,
           EventStep(c, ip, port, event)
    PROVE  OpenIsFinite'
<1> DEFINE open == {d \in Conns : IsOpen(d)}
<1>1. IsFiniteSet(open \union {c})
  BY FS_AddElement DEF OpenIsFinite
<1>2. {d \in Conns : IsOpen(d)'} \subseteq open \union {c}
  BY DEF EventStep, IsOpen
<1>3. IsFiniteSet({d \in Conns : IsOpen(d)'})
  BY <1>1, <1>2, FS_Subset
<1> QED BY <1>3 DEF OpenIsFinite

-----------------------------------------------------------------------------
(* The audits *)

\* In a group of at most two the paths are distinct.
LEMMA OwnPath ==
    ASSUME NEW s \in Slots, NEW t \in Slots, Len(RedGroups[s[1]]) =< 2, PathOf(s) = PathOf(t)
    PROVE  s = t
<1>1. s[1] = t[1] /\ PathLetter(s) = PathLetter(t)
  BY DEF PathOf
<1>2. Len(RedGroups[s[1]]) \in Nat
  BY SlotFacts, RedGroupsAssumption DEF Groups
<1>3. s[2] \in {1, 2} /\ t[2] \in {1, 2}
  BY <1>1, <1>2, SlotFacts
<1> QED BY <1>1, <1>3, SlotFacts DEF PathLetter

\* What is audited of the RedGroupCon s.
AuditIsTrueFor(s) ==
    /\ slot[s].port = None => pathAudit[PathOf(s)] = "disconnected"
    /\ \A c \in Conns : IsBoundTo(s, c) => pathAudit[PathOf(s)] = PathState(c)

\* An event keeps the server started and the last audit true.
LEMMA EventKeepsLast ==
    ASSUME AuditInv, NEW c \in Conns, NEW ip, NEW port, NEW event, EventStep(c, ip, port, event)
    PROVE  Started' /\ LastAuditIsTrue'
<1>1. \/ UNCHANGED <<slot, auditVars>>
      \/ \E u \in Slots : HandledAt(u, ip, port, event)
  BY EventIsHandled DEF AuditInv, RGInv, EventStep
<1>2. CASE UNCHANGED <<slot, auditVars>>
  BY <1>2 DEF EventStep, Started, AuditInv, LastAuditIsTrue, auditVars
<1>3. ASSUME NEW u \in Slots, HandledAt(u, ip, port, event)
      PROVE  Started' /\ LastAuditIsTrue'
  <2>1. PathOf(u) \in Paths /\ pathAudit \in [Paths -> PathStates]
    BY SlotFacts DEF AuditInv, RGInv, RGTypeOK
  <2>2. LastAuditIsTrue'
    BY <1>3, <2>1 DEF HandledAt, LastAuditIsTrue
  <2>3. Started'
    BY <1>3 DEF HandledAt, GlobalAfter, EventStep, Started
  <2> QED BY <2>2, <2>3
<1> QED BY <1>1, <1>2, <1>3

\* An event keeps the audit trail true.
LEMMA EventKeepsTrue ==
    ASSUME AuditInv, RGInv', NEW c \in Conns, NEW ip, NEW port, NEW event,
           EventStep(c, ip, port, event)
    PROVE  PathAuditsAreTrue'
<1> SUFFICES ASSUME NEW s \in Slots, Len(RedGroups[s[1]]) =< 2
             PROVE  AuditIsTrueFor(s)'
  BY DEF PathAuditsAreTrue, AuditIsTrueFor
<1>1. AuditIsTrueFor(s)
  BY DEF AuditInv, PathAuditsAreTrue, AuditIsTrueFor, EventStep
<1>2. \/ ~HasCurrentConnection(ip, port) /\ UNCHANGED <<slot, auditVars>>
      \/ \E u \in Slots : HandledAt(u, ip, port, event)
  BY EventIsHandled DEF AuditInv, RGInv, EventStep
<1>3. \A d \in Conns : d # c => (IsBoundTo(s, d)' => conn'[d] = conn[d])
  BY DEF EventStep
<1>4. CASE ~HasCurrentConnection(ip, port) /\ UNCHANGED <<slot, auditVars>>
  <2>1. slot' = slot /\ pathAudit' = pathAudit
    BY <1>4 DEF auditVars
  <2>2. ASSUME NEW d \in Conns, IsBoundTo(s, d)'
        PROVE  pathAudit[PathOf(s)] = PathState(d)'
    <3>1. CASE d # c
      BY <1>1, <1>3, <2>1, <2>2, <3>1 DEF AuditIsTrueFor, IsBoundTo, IsOpen, PathState
    <3>2. CASE d = c
      <4>1. slot[s].port # None /\ slot[s].port = port /\ ClientIP(s) = ip
        BY <2>1, <2>2, <3>2 DEF IsBoundTo, EventStep
      <4>2. IsCurrentConnection(ip, port, s)
        BY <4>1, BoundIsCurrent DEF AuditInv, RGInv
      <4> QED BY <1>4, <4>2 DEF HasCurrentConnection
    <3> QED BY <3>1, <3>2
  <2> QED BY <1>1, <2>1, <2>2 DEF AuditIsTrueFor
<1>5. ASSUME NEW u \in Slots, HandledAt(u, ip, port, event)
      PROVE  AuditIsTrueFor(s)'
  <2>1. PathOf(u) \in Paths /\ PathOf(s) \in Paths /\ pathAudit \in [Paths -> PathStates]
    BY SlotFacts DEF AuditInv, RGInv, RGTypeOK
  <2>2. IsOpen(c)' => IsBoundTo(u, c)'
    BY <1>5, CurrentIsBound DEF AuditInv
  <2>3. CASE s # u
    <3>1. slot'[s] = slot[s]
      BY <1>5, <2>3 DEF HandledAt
    <3>2. pathAudit'[PathOf(s)] = pathAudit[PathOf(s)]
      <4>1. PathOf(s) # PathOf(u)
        BY <2>3, OwnPath
      <4> QED BY <1>5, <2>1, <4>1 DEF HandledAt
    <3>3. ASSUME NEW d \in Conns, IsBoundTo(s, d)'
          PROVE  pathAudit[PathOf(s)] = PathState(d)'
      <4>1. d # c
        BY <2>2, <2>3, <3>3 DEF IsBoundTo, RGInv, BindingInv, BoundSlotsDiffer
      <4>2. conn'[d] = conn[d]
        BY <1>3, <3>3, <4>1
      <4>3. IsBoundTo(s, d)
        BY <3>1, <3>3, <4>2 DEF IsBoundTo, IsOpen
      <4> QED BY <1>1, <4>2, <4>3 DEF AuditIsTrueFor, PathState
    <3> QED BY <1>1, <3>1, <3>2, <3>3 DEF AuditIsTrueFor
  <2>4. CASE s = u
    <3>1. pathAudit'[PathOf(s)] = AuditOf(event) /\ slot'[s].port = PortAfter(event, port)
      BY <1>5, <2>1, <2>4 DEF HandledAt
    <3>2. slot'[s].port = None => event = "CONNECTION_CLOSED"
      BY <3>1, NoneAssumption DEF PortAfter, EventStep
    <3>3. ASSUME NEW d \in Conns, IsBoundTo(s, d)'
          PROVE  AuditOf(event) = PathState(d)'
      <4>1. event # "CONNECTION_CLOSED"
        BY <3>1, <3>3 DEF IsBoundTo, PortAfter
      <4>2. IsOpen(c)'
        BY <4>1 DEF EventStep, StateAfter, IsOpen
      <4>3. d = c
        BY <2>2, <2>4, <3>3, <4>2 DEF IsBoundTo, RGInv, BindingInv, OpenConnsDiffer
      <4>4. conn'[c].state = StateAfter(event)
        BY DEF EventStep
      <4> QED BY <4>1, <4>3, <4>4 DEF AuditOf, StateAfter, PathState
    <3> QED BY <3>1, <3>2, <3>3 DEF AuditIsTrueFor, AuditOf
  <2> QED BY <2>3, <2>4
<1> QED BY <1>2, <1>4, <1>5

\* An event keeps active clients reported.
LEMMA EventKeepsActive ==
    ASSUME AuditInv, NEW c \in Conns, NEW ip, NEW port, NEW event,
           EventStep(c, ip, port, event)
    PROVE  ActiveIsReported'
<1> SUFFICES ASSUME NEW d \in Conns, kept', conn'[d].state = "started",
                    SlotsOf(conn'[d].ip) # {}
             PROVE  globalAudit' = "connected"
  BY DEF ActiveIsReported
<1>1. \/ ~HasCurrentConnection(ip, port) /\ UNCHANGED <<slot, auditVars>>
      \/ \E u \in Slots : HandledAt(u, ip, port, event)
  BY EventIsHandled DEF AuditInv, RGInv, EventStep
<1>2. EveryConnectionIsBound' /\ kept
  BY EventKeepsBound DEF EventStep
<1>3. isAnyConnectionEstablished(slot')
  BY <1>2 DEF EveryConnectionIsBound, IsBoundTo, IsOpen, isAnyConnectionEstablished
<1>4. CASE d # c
  <2>1. globalAudit = "connected"
    BY <1>2, <1>4 DEF EventStep, AuditInv, ActiveIsReported
  <2> QED BY <1>1, <1>3, <2>1 DEF HandledAt, GlobalAfter, auditVars
<1>5. CASE d = c
  <2>1. event = "ACTIVATED" /\ conn'[c].ip = ip
    BY <1>5 DEF EventStep, StateAfter, IsOpen
  <2>2. HasCurrentConnection(ip, port)
    BY <1>5, <2>1, KeptIsFound
  <2> QED BY <1>1, <2>1, <2>2 DEF HandledAt, GlobalAfter
<1> QED BY <1>4, <1>5

-----------------------------------------------------------------------------

\* The initial state satisfies the invariant.
LEMMA AuditInitInv == RGInit => AuditInv
<1> SUFFICES ASSUME RGInit PROVE AuditInv
  OBVIOUS
<1>1. RGInv
  BY RGInitInv
<1>2. /\ \A c \in Conns : ~IsOpen(c) /\ conn[c].state = "free"
      /\ \A s \in Slots : slot[s].port = None
      /\ lastAudit = <<>> /\ globalAudit = "none"
  BY DEF RGInit, IsOpen, Free
<1>3. OpenIsFinite
  <2>1. {c \in Conns : IsOpen(c)} = {}
    BY <1>2
  <2> QED BY <2>1, FS_EmptySet DEF OpenIsFinite
<1>4. EveryConnectionIsBound /\ PathAuditsAreTrue /\ ActiveIsReported
  BY <1>2 DEF EveryConnectionIsBound, PathAuditsAreTrue, ActiveIsReported, Started
<1> QED BY <1>1, <1>2, <1>3, <1>4 DEF AuditInv, NothingBeforeStart, LastAuditIsTrue

\* The audits of startSlave are true: nothing is open.
LEMMA StartAuditInv ==
    ASSUME AuditInv, startSlave, RGInv'
    PROVE  AuditInv'
<1>1. /\ pathAudit' = [p \in Paths |-> InitialAudit(p)]
      /\ lastAudit' = <<<<LastAuditedGroup, "B">>, InitialAudit(<<LastAuditedGroup, "B">>)>>
      /\ globalAudit' = "disconnected" /\ UNCHANGED <<conn, slot, kept>>
  BY DEF startSlave, sendInitialAudits, sendGlobalStatusAudit
<1>2. /\ \A c \in Conns : ~IsOpen(c)'
      /\ \A s \in Slots : slot'[s].port = None
  BY <1>1 DEF AuditInv, NothingBeforeStart, startSlave, IsOpen
<1>3. LastAuditIsTrue'
  <2>1. <<LastAuditedGroup, "B">> \in Paths
    BY LastGroupFact DEF Paths
  <2> QED BY <1>1, <2>1 DEF LastAuditIsTrue
<1>4. PathAuditsAreTrue'
  <2>1. \A s \in Slots : pathAudit'[PathOf(s)] = "disconnected"
    BY <1>1, SlotFacts DEF InitialAudit
  <2> QED BY <1>2, <2>1 DEF PathAuditsAreTrue, IsBoundTo
<1>5. EveryConnectionIsBound' /\ ActiveIsReported' /\ NothingBeforeStart'
  BY <1>1, <1>2 DEF EveryConnectionIsBound, ActiveIsReported, NothingBeforeStart, IsOpen, Started
<1>6. OpenIsFinite'
  BY <1>1 DEF AuditInv, OpenIsFinite, IsOpen
<1> QED BY <1>3, <1>4, <1>5, <1>6 DEF AuditInv

\* STARTDT tells the supervision nothing.
LEMMA StartDTAuditInv ==
    ASSUME AuditInv, NEW c \in Conns, StartDT(c), RGInv'
    PROVE  AuditInv'
<1>1. /\ conn[c].state = "stopped" /\ conn' = [conn EXCEPT ![c].state = "starting"]
      /\ slot' = slot /\ pathAudit' = pathAudit /\ lastAudit' = lastAudit
      /\ globalAudit' = globalAudit /\ kept' = kept
  BY DEF StartDT, auditVars
<1>2. conn \in [Conns -> [state : ConnStates, ip : IPs \union {None}, port : Ports \union {None}]]
  BY DEF AuditInv, RGInv, RGTypeOK
<1>3. \A d \in Conns :
         /\ conn'[d].ip = conn[d].ip /\ conn'[d].port = conn[d].port
         /\ IsOpen(d)' <=> IsOpen(d)
         /\ conn'[d].state = "started" <=> conn[d].state = "started"
  BY <1>1, <1>2 DEF IsOpen
<1>4. \A d \in Conns, s \in Slots : IsBoundTo(s, d)' <=> IsBoundTo(s, d)
  BY <1>1, <1>3 DEF IsBoundTo
<1>5. EveryConnectionIsBound'
  BY <1>1, <1>3, <1>4 DEF AuditInv, EveryConnectionIsBound
<1>6. PathAuditsAreTrue'
  BY <1>1, <1>3, <1>4 DEF AuditInv, PathAuditsAreTrue, PathState, Started
<1>7. ActiveIsReported' /\ LastAuditIsTrue' /\ NothingBeforeStart'
  BY <1>1, <1>3 DEF AuditInv, ActiveIsReported, LastAuditIsTrue, NothingBeforeStart, Started
<1>8. OpenIsFinite'
  <2>1. {d \in Conns : IsOpen(d)'} = {d \in Conns : IsOpen(d)}
    BY <1>3
  <2> QED BY <2>1 DEF AuditInv, OpenIsFinite
<1> QED BY <1>5, <1>6, <1>7, <1>8 DEF AuditInv

\* Every step keeps the invariant.
LEMMA AuditNextInv == AuditInv /\ [RGNext]_rgVars => AuditInv'
<1> SUFFICES ASSUME AuditInv, [RGNext]_rgVars PROVE AuditInv'
  OBVIOUS
<1>1. RGInv'
  BY RGNextInv DEF AuditInv
<1>2. CASE startSlave
  BY <1>1, <1>2, StartAuditInv
<1>3. ASSUME NEW c \in Conns, StartDT(c) PROVE AuditInv'
  BY <1>1, <1>3, StartDTAuditInv
<1>4. ASSUME NEW c \in Conns, NEW ip \in IPs, NEW port \in Ports, NEW event \in Events,
             EventStep(c, ip, port, event)
      PROVE  AuditInv'
  <2>1. EveryConnectionIsBound' /\ PathAuditsAreTrue' /\ ActiveIsReported'
    BY <1>1, <1>4, EventKeepsBound, EventKeepsTrue, EventKeepsActive
  <2>2. Started' /\ LastAuditIsTrue' /\ OpenIsFinite'
    BY <1>4, EventKeepsLast, EventKeepsFinite DEF AuditInv
  <2> QED BY <1>1, <2>1, <2>2 DEF AuditInv, NothingBeforeStart
<1>5. CASE UNCHANGED rgVars
  <2>1. UNCHANGED <<conn, slot, pathAudit, lastAudit, globalAudit, kept>>
    BY <1>5 DEF rgVars, auditVars
  <2> QED BY <1>1, <2>1
          DEF AuditInv, NothingBeforeStart, OpenIsFinite, LastAuditIsTrue, EveryConnectionIsBound,
              PathAuditsAreTrue, ActiveIsReported, IsBoundTo, IsOpen, PathState, Started
<1> QED BY <1>2, <1>3, <1>4, <1>5, StepKinds DEF AuditInv

\* A client with no more connections than entries has a RedGroupCon for each of
\* them, however it connects, takes over and closes.
THEOREM ConnectionsAreBound == RGSpec => []EveryConnectionIsBound
<1>1. AuditInv => EveryConnectionIsBound
  BY DEF AuditInv
<1> QED BY <1>1, AuditInitInv, AuditNextInv, PTL DEF RGSpec

\* The audits name the state of each path, although repeated ones are dropped.
THEOREM AuditTrailIsTrue == RGSpec => []PathAuditsAreTrue
<1>1. AuditInv => PathAuditsAreTrue
  BY DEF AuditInv
<1> QED BY <1>1, AuditInitInv, AuditNextInv, PTL DEF RGSpec

\* While a client that keeps to its entries is active the service is reported
\* connected.
THEOREM ActiveIsAlwaysReported == RGSpec => []ActiveIsReported
<1>1. AuditInv => ActiveIsReported
  BY DEF AuditInv
<1> QED BY <1>1, AuditInitInv, AuditNextInv, PTL DEF RGSpec

\* The service is only reported lost when no connection remains, as long as the
\* clients keep to their entries.
THEOREM LossIsNeverFalse == RGSpec => LossIsTrueForKept
<1>1. ASSUME AuditInv, AuditInv', [RGNext]_rgVars, kept, ServiceLost
      PROVE  NoneRemains'
  <2> SUFFICES ASSUME NEW d \in Conns, conn'[d].state # "free", SlotsOf(conn'[d].ip) # {}
               PROVE  FALSE
    BY DEF NoneRemains
  <2>1. globalAudit = "connected" /\ globalAudit' = "disconnected"
    BY <1>1 DEF ServiceLost
  <2>2. ~startSlave /\ ~UNCHANGED rgVars /\ \A c \in Conns : ~StartDT(c)
    BY <2>1 DEF startSlave, Started, rgVars, auditVars, StartDT
  <2>3. PICK c \in Conns, ip \in IPs, port \in Ports, event \in Events :
           EventStep(c, ip, port, event)
    BY <1>1, <2>2, StepKinds DEF AuditInv
  <2>4. \/ UNCHANGED <<slot, auditVars>>
        \/ \E u \in Slots : HandledAt(u, ip, port, event)
    BY <1>1, <2>3, EventIsHandled DEF AuditInv, RGInv, EventStep
  <2>5. event = "CONNECTION_CLOSED" /\ ~isAnyConnectionEstablished(slot')
    BY <2>1, <2>4 DEF HandledAt, GlobalAfter, auditVars
  <2>6. kept'
    BY <1>1, <2>3, <2>5 DEF EventStep
  <2>7. \E s \in Slots : IsBoundTo(s, d)'
    BY <1>1, <2>6 DEF AuditInv, EveryConnectionIsBound, IsOpen
  <2> QED BY <2>5, <2>7 DEF IsBoundTo, isAnyConnectionEstablished
<1>2. AuditInv /\ AuditInv' /\ [RGNext]_rgVars => [kept /\ ServiceLost => NoneRemains']_rgVars
  BY <1>1
<1> QED BY <1>2, AuditInitInv, AuditNextInv, PTL DEF RGSpec, LossIsTrueForKept

\* With such clients the audit of CONNECTION_OPENED always comes before the one
\* of ACTIVATED.
THEOREM PassiveIsFirst == RGSpec => PassiveBeforeActive
<1>1. ASSUME AuditInv, [RGNext]_rgVars, kept, NEW s \in Slots, Len(RedGroups[s[1]]) =< 2,
             pathAudit[PathOf(s)] = "disconnected", pathAudit'[PathOf(s)] = "active"
      PROVE  FALSE
  <2>1. ~startSlave /\ ~UNCHANGED rgVars /\ \A c \in Conns : ~StartDT(c)
    BY <1>1, SlotFacts
    DEF startSlave, sendInitialAudits, InitialAudit, rgVars, auditVars, StartDT
  <2>2. PICK c \in Conns, ip \in IPs, port \in Ports, event \in Events :
           EventStep(c, ip, port, event)
    BY <1>1, <2>1, StepKinds DEF AuditInv
  <2>3. PICK u \in Slots : HandledAt(u, ip, port, event)
    BY <1>1, <2>2, EventIsHandled DEF AuditInv, RGInv, EventStep, auditVars
  <2>4. PathOf(s) \in Paths /\ PathOf(u) \in Paths /\ pathAudit \in [Paths -> PathStates]
    BY <1>1, SlotFacts DEF AuditInv, RGInv, RGTypeOK
  <2>5. PathOf(s) = PathOf(u) /\ AuditOf(event) = "active"
    BY <1>1, <2>3, <2>4 DEF HandledAt
  <2>6. s = u
    BY <1>1, <2>5, OwnPath
  <2>7. IsOpen(c) /\ conn[c].ip = ip /\ conn[c].port = port
    BY <2>2, <2>5 DEF EventStep, AuditOf
  <2>8. /\ port # None
        /\ ClientIP(u) = ip /\ GetRedundancyGroup(ip, u[1]) /\ slot[u].port \in {port, None}
        /\ slot[u].port = None => \A t \in Slots : ClientIP(t) = ip => slot[t].port # port
    BY <1>1, <2>3, CurrentFacts, NoneAssumption DEF HandledAt, AuditInv, RGInv
  <2>9. PICK t \in Slots : IsBoundTo(t, c)
    BY <1>1, <2>7, <2>8 DEF AuditInv, EveryConnectionIsBound, SlotsOf
  <2>10. t = u
    BY <1>1, <2>7, <2>8, <2>9 DEF IsBoundTo, AuditInv, RGInv, BindingInv, BoundSlotsDiffer
  <2>11. pathAudit[PathOf(s)] = PathState(c)
    BY <1>1, <2>2, <2>6, <2>9, <2>10 DEF AuditInv, PathAuditsAreTrue, EventStep
  <2> QED BY <1>1, <2>11 DEF PathState
<1>2. AuditInv /\ [RGNext]_rgVars =>
         [kept => \A s \in Slots :
             Len(RedGroups[s[1]]) =< 2 /\ pathAudit[PathOf(s)] = "disconnected"
                 => pathAudit'[PathOf(s)] # "active"]_rgVars
  BY <1>1
<1> QED BY <1>2, AuditInitInv, AuditNextInv, PTL DEF RGSpec, PassiveBeforeActive
=============================================================================
