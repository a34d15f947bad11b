------------------------ MODULE ConfigurationProofs ------------------------
(***************************************************************************)
(* Proofs about the import of a configuration, for any configurations: any *)
(* number of data points, elements, groups and clients with any defects.   *)
(* The import takes one element, token or client per step, so what it has  *)
(* made of those before is an inductive invariant.                         *)
(***************************************************************************)
EXTENDS Configuration, TLAPS, FiniteSetTheorems, SequenceTheorems

-----------------------------------------------------------------------------
(* The inductive invariant of the data points *)

IsWalking == pc \in {"datapoint", "element", "token", "address"}

InDatapoint == pc \in {"element", "token", "address"}

\* The element that comes next.
Position == <<datapoint, element>>

\* Everything before the position is well, or hidden by an element that ended
\* its data point.
WalkInv ==
    /\ pc \in {"configure", "exchange", "datapoint"} => element = 1
    /\ pc \in {"configure", "exchange"} => datapoint = 1
    /\ pc # "configure" => pc = "ready" \/ conf.items
    /\ IsWalking =>
          /\ conf.items /\ conf.exchange.ok
          /\ \A d \in 1 .. datapoint - 1 : Datapoints[d].ok
          /\ \A q \in Positions : IsBefore(q, Position) /\ IsFatal(ElementAt(q)) => IsHidden(q)
    /\ InDatapoint =>
          /\ datapoint =< Len(Datapoints) /\ Datapoints[datapoint].ok
          /\ \A q \in Positions : q[1] = datapoint /\ q[2] < element => ~EndsDatapoint(ElementAt(q))

\* The groups of the element as far as its tokens were read.
TokenInv ==
    /\ pc \in {"token", "address"} =>
          /\ element =< Len(Datapoints[datapoint].protocols)
          /\ Element.kind = "iec104" /\ Element.members /\ Element.groups # "other"
    /\ pc = "token" =>
          /\ Element.groups = "string"
          /\ token =< Len(Element.tokens) + 1
          /\ \A k \in 1 .. token - 1 : IsGroup(Element.tokens[k])
          /\ gi_groups = {IF Element.tokens[k] = Station THEN 0 ELSE Element.tokens[k] : k \in 1 .. token - 1}
    /\ pc = "address" =>
          /\ gi_groups = ListedGroups(Element)
          /\ IsFatal(Element) => ~Element.address

\* What an element has been made of: the ones before the position, or all.
IsDone(p) == IsImported \/ IsBefore(p, Position)

Points == {p \in Positions : Yields(p) /\ IsDone(p)}

Address(p) == <<ElementAt(p).ca, ElementAt(p).ioa>>

PointOf(e) ==
    [type |-> typeIdToDataType(e.typeId), command |-> isSupportedCommandType(e.typeId),
     groups |-> ListedGroups(e)]

IsReplaced(p) == \E q \in Points : Address(q) = Address(p) /\ IsBefore(p, q)

MapInv ==
    /\ DOMAIN imported = {Address(p) : p \in Points}
    /\ \A p \in Points : IsReplaced(p) \/ imported[Address(p)] = PointOf(ElementAt(p))

-----------------------------------------------------------------------------
(* The inductive invariants of the redundancy groups and of TLS *)

\* The clients that the first connections of a group list.
ClientsBefore(g, n) ==
    {g.connections[c].clt_ip : c \in {k \in 1 .. Len(g.connections) : k < n /\ g.connections[k].ok}}

\* A group that was made of one that is configured.
IsMade(r, g) == ClientsOf(r) = ListedClients(g)

GroupInv ==
    /\ \A i \in 1 .. Len(groups) :
          /\ groups[i].index = i - 1
          /\ \E g \in 1 .. Len(conf.stack.groups) : conf.stack.groups[g].ok /\ IsMade(groups[i], conf.stack.groups[g])
    /\ pc \notin {"group", "connection", "tls", "slave", "ready"} => group = 1
    /\ pc \in {"group", "connection"} =>
          \A g \in 1 .. Len(conf.stack.groups) : g < group /\ conf.stack.groups[g].ok =>
              \E i \in 1 .. Len(groups) : IsMade(groups[i], conf.stack.groups[g])
    /\ pc = "connection" =>
          /\ RedundancyGroup.ok
          /\ redGroup.index = Len(groups)
          /\ ClientsOf(redGroup) = ClientsBefore(RedundancyGroup, connection)
    /\ pc \in {"tls", "slave", "ready"} /\ conf.items /\ HasLayers =>
          \A g \in 1 .. Len(conf.stack.groups) : conf.stack.groups[g].ok =>
              \E i \in 1 .. Len(groups) : IsMade(groups[i], conf.stack.groups[g])

\* Whoever asks for TLS and gives both layers gets it; the certificates are those
\* of the text, and the slave is made of them.
TlsInv ==
    /\ pc \in {"tls", "slave"} /\ ConfiguredForTls /\ conf.stack.application => useTls
    /\ pc \notin {"slave", "ready"} => certs = NoCerts
    /\ pc # "ready" => slave = NoSlave
    /\ pc = "slave" => \/ certs = NoCerts /\ ~conf.tls.ok
                       \/ /\ certs.remote_certs = Named(conf.tls.remote_certs)
                          /\ certs.ca_certs = Named(conf.tls.ca_certs)

-----------------------------------------------------------------------------
(* Types *)

GroupReached == pc = "connection" => group =< Len(conf.stack.groups)

CFTypeInv == CFTypeOK /\ conf \in Configurations /\ GroupReached

PointRecords == [type : DataTypes, command : BOOLEAN, groups : SUBSET (0 .. 16)]

\* The parts of the configuration, as ConfigurationAssumption has them.
LEMMA ConfTypes ==
    ASSUME conf \in Configurations
    PROVE  /\ Datapoints \in Seq([ok : BOOLEAN, protocols : Seq(ProtocolElements)])
           /\ \A name \in DOMAIN conf.stack.json : conf.stack.json[name] \in Int
           /\ conf.stack.groups \in Seq(GroupElements)
           /\ conf.stack.filter_list \subseteq Int
           /\ conf.stack.transport \in BOOLEAN /\ conf.stack.application \in BOOLEAN /\ conf.stack.tls \in BOOLEAN
           /\ conf.tls.own_cert \in BOOLEAN /\ conf.tls.private_key \in BOOLEAN
  BY ConfigurationAssumption DEF Datapoints

\* The data point and the element that come next.
LEMMA ElementTypes ==
    ASSUME conf \in Configurations, NEW d \in 1 .. Len(Datapoints)
    PROVE  /\ Datapoints[d].protocols \in Seq(ProtocolElements)
           /\ \A e \in 1 .. Len(Datapoints[d].protocols) : Datapoints[d].protocols[e] \in ProtocolElements
<1>1. Datapoints[d] \in [ok : BOOLEAN, protocols : Seq(ProtocolElements)]
  BY ConfTypes, ElementOfSeq
<1>2. Datapoints[d].protocols \in Seq(ProtocolElements)
  BY <1>1
<1> QED BY <1>2, ElementOfSeq

\* The tables give every type that is imported a data type.
LEMMA ImportedTypes ==
    \A typeId \in CommandTypes \union MonitoringTypes : typeIdToDataType(typeId) \in DataTypes
<1> SUFFICES ASSUME NEW typeId \in CommandTypes \union MonitoringTypes
             PROVE  typeIdToDataType(typeId) \in DataTypes
  OBVIOUS
<1>1. CASE typeId \in {"M_SP_NA_1", "M_SP_TA_1", "M_SP_TB_1", "C_SC_NA_1", "C_SC_TA_1"}
  BY <1>1 DEF typeIdToDataType, DataTypes
<1>2. CASE typeId \in {"M_DP_NA_1", "M_DP_TA_1", "M_DP_TB_1", "C_DC_NA_1", "C_DC_TA_1"}
  BY <1>2 DEF typeIdToDataType, DataTypes
<1>3. CASE typeId \in {"M_ST_NA_1", "M_ST_TA_1", "M_ST_TB_1", "C_RC_NA_1", "C_RC_TA_1"}
  BY <1>3 DEF typeIdToDataType, DataTypes
<1>4. CASE typeId \in {"M_ME_NA_1", "M_ME_TA_1", "M_ME_TD_1", "C_SE_NA_1", "C_SE_TA_1"}
  BY <1>4 DEF typeIdToDataType, DataTypes
<1>5. CASE typeId \in {"M_ME_NB_1", "M_ME_TB_1", "M_ME_TE_1", "C_SE_NB_1", "C_SE_TB_1"}
  BY <1>5 DEF typeIdToDataType, DataTypes
<1>6. CASE typeId \in {"M_ME_NC_1", "M_ME_TC_1", "M_ME_TF_1", "C_SE_NC_1", "C_SE_TC_1"}
  BY <1>6 DEF typeIdToDataType, DataTypes
<1> QED BY <1>1, <1>2, <1>3, <1>4, <1>5, <1>6 DEF CommandTypes, MonitoringTypes

\* A parameter is in the range that its warning gives, whatever is configured.
IsWarned(name) ==
    /\ \A v \in Int : Accepts(name, v) => v \in WarnedRange[name]
    /\ Defaults[name] \in WarnedRange[name]

LEMMA AcceptsFact == \A name \in DOMAIN Defaults : IsWarned(name)
<1>1. IsWarned("port")
  BY DEF IsWarned, Accepts, WarnedRange, Between, Defaults
<1>2. IsWarned("k_value")
  BY DEF IsWarned, Accepts, WarnedRange, Between, Defaults
<1>3. IsWarned("w_value")
  BY DEF IsWarned, Accepts, WarnedRange, Between, Defaults
<1>4. IsWarned("t0_timeout")
  BY DEF IsWarned, Accepts, WarnedRange, Between, Defaults
<1>5. IsWarned("t1_timeout")
  BY DEF IsWarned, Accepts, WarnedRange, Between, Defaults
<1>6. IsWarned("t2_timeout")
  BY DEF IsWarned, Accepts, WarnedRange, Between, Defaults
<1>7. IsWarned("t3_timeout")
  BY DEF IsWarned, Accepts, WarnedRange, Between, Defaults
<1>8. IsWarned("ca_asdu_size")
  BY DEF IsWarned, Accepts, WarnedRange, Between, Defaults
<1>9. IsWarned("ioaddr_size")
  BY DEF IsWarned, Accepts, WarnedRange, Between, Defaults
<1>10. IsWarned("asdu_size")
  BY DEF IsWarned, Accepts, WarnedRange, Between, Defaults
<1>11. IsWarned("asdu_queue_size")
  BY DEF IsWarned, Accepts, WarnedRange, Between, Defaults
<1>12. IsWarned("accept_cmd_with_time")
  BY DEF IsWarned, Accepts, WarnedRange, Between, Defaults
<1>13. IsWarned("cmd_recv_timeout")
  BY DEF IsWarned, Accepts, WarnedRange, Between, Defaults
<1>14. IsWarned("cmd_exec_timeout")
  BY DEF IsWarned, Accepts, WarnedRange, Between, Defaults
<1> QED BY <1>1, <1>2, <1>3, <1>4, <1>5, <1>6, <1>7, <1>8, <1>9, <1>10, <1>11, <1>12, <1>13, <1>14 DEF Defaults

LEMMA ParamsFact ==
    ASSUME NEW json, \A name \in DOMAIN json : json[name] \in Int
    PROVE  /\ DOMAIN Params(json) = DOMAIN Defaults
           /\ \A name \in DOMAIN Defaults : Params(json)[name] \in WarnedRange[name]
<1>1. DOMAIN Params(json) = DOMAIN Defaults
  BY DEF Params
<1>2. ASSUME NEW name \in DOMAIN Defaults PROVE Params(json)[name] \in WarnedRange[name]
  <2>1. Params(json)[name] =
           IF name \in DOMAIN json /\ Accepts(name, json[name]) THEN json[name] ELSE Defaults[name]
    BY DEF Params
  <2> QED BY <2>1, AcceptsFact DEF IsWarned
<1> QED BY <1>1, <1>2

LEMMA OriginatorsFact ==
    ASSUME NEW filterList, filterList \subseteq Int
    PROVE  Originators(filterList) \subseteq 0 .. 255
<1> SUFFICES ASSUME NEW oa \in Originators(filterList) PROVE oa \in 0 .. 255
  OBVIOUS
<1>1. oa \in filterList /\ oa >= 0 /\ oa < 256
  BY DEF Originators
<1>2. oa \in Int
  BY <1>1
<1> QED BY <1>1, <1>2

LEMMA InitCFTypes == CFInit => CFTypeInv
<1> SUFFICES ASSUME CFInit PROVE CFTypeInv
  OBVIOUS
<1>1. imported \in [DOMAIN imported -> PointRecords]
  <2>1. imported = <<>> /\ DOMAIN <<>> = {}
    BY DEF CFInit
  <2> QED BY <2>1
<1>2. redGroup \in RedundancyGroups /\ groups \in Seq(RedundancyGroups)
  <2>1. <<>> \in Seq(STRING) /\ <<>> \in Seq(RedundancyGroups)
    OBVIOUS
  <2> QED BY <2>1 DEF CFInit, RedundancyGroups
<1>3. DOMAIN params = DOMAIN Defaults /\ \A name \in DOMAIN params : params[name] \in WarnedRange[name]
  BY AcceptsFact DEF CFInit, IsWarned
<1>4. useTls \in BOOLEAN
  BY DEF CFInit
<1> QED BY <1>1, <1>2, <1>3, <1>4 DEF CFInit, CFTypeInv, GroupReached, CFTypeOK, PointRecords, NoCerts, NoSlave

\* The group and the client that come next.
LEMMA GroupTypes ==
    ASSUME conf \in Configurations, NEW g \in 1 .. Len(conf.stack.groups)
    PROVE  /\ conf.stack.groups[g].connections \in Seq([ok : BOOLEAN, clt_ip : STRING])
           /\ \A c \in 1 .. Len(conf.stack.groups[g].connections) :
                 conf.stack.groups[g].connections[c] \in [ok : BOOLEAN, clt_ip : STRING]
<1>1. conf.stack.groups[g] \in GroupElements
  BY ConfTypes, ElementOfSeq
<1>2. conf.stack.groups[g].connections \in Seq([ok : BOOLEAN, clt_ip : STRING])
  BY <1>1 DEF GroupElements
<1> QED BY <1>2, ElementOfSeq

\* The steps that only move on in the exchange configuration.
Moves ==
    \/ ImportExchangeConfig \/ ImportDatapoint \/ EndDatapoint \/ EndDatapoints
    \/ BrokenElement \/ OtherProtocol \/ MissingMember \/ GroupsNotString
    \/ BrokenGroup \/ BrokenAddress

\* Those that read the groups of an element.
ReadsGroups == BeginGroups \/ ImportGroup \/ GroupOutOfRange \/ EndGroups

LEMMA MovesCFTypes == CFTypeInv /\ Moves => CFTypeInv'
<1> SUFFICES ASSUME CFTypeInv, Moves PROVE CFTypeInv'
  OBVIOUS
<1>1. datapoint \in Nat \ {0} /\ element \in Nat \ {0}
  BY DEF CFTypeInv, GroupReached, CFTypeOK
<1>2. /\ pc' \in {"datapoint", "element", "stack"}
      /\ datapoint' \in Nat \ {0} /\ element' \in Nat \ {0}
      /\ UNCHANGED <<conf, token, gi_groups, imported, stackVars, tlsVars>>
  BY <1>1 DEF Moves, ImportExchangeConfig, ImportDatapoint, EndDatapoint, EndDatapoints, BrokenElement,
         OtherProtocol, MissingMember, GroupsNotString, BrokenGroup, BrokenAddress, GiveUp,
         NextElement, At
<1> QED BY <1>2 DEF CFTypeInv, GroupReached, CFTypeOK, stackVars, groupVars, tlsVars

LEMMA ReadsGroupsCFTypes == CFTypeInv /\ ReadsGroups => CFTypeInv'
<1> SUFFICES ASSUME CFTypeInv, ReadsGroups PROVE CFTypeInv'
  OBVIOUS
<1>1. token \in Nat \ {0} /\ gi_groups \subseteq 0 .. 16
  BY DEF CFTypeInv, GroupReached, CFTypeOK
<1>2. /\ pc' \in {"token", "address"}
      /\ token' \in Nat \ {0} /\ gi_groups' \subseteq 0 .. 16
      /\ UNCHANGED <<conf, datapoint, element, imported, stackVars, tlsVars>>
  <2>1. CASE BeginGroups
    BY <2>1 DEF BeginGroups, StationGroup, InGroups
  <2>2. CASE ImportGroup
    <3> DEFINE t == Element.tokens[token]
    <3>1. CASE t = Station
      BY <2>2, <3>1, <1>1 DEF ImportGroup, StationGroup, InGroups
    <3>2. CASE t # Station /\ t \in 1 .. 16
      <4>1. InGroups("token", token + 1, gi_groups \union {t})
        BY <2>2, <3>2 DEF ImportGroup
      <4>2. t \in 0 .. 16
        BY <3>2
      <4>3. gi_groups \union {t} \subseteq 0 .. 16
        BY <4>2, <1>1, Zenon
      <4> HIDE DEF t
      <4> QED BY <4>1, <4>3, <1>1 DEF InGroups
    <3> QED BY <2>2, <3>1, <3>2 DEF ImportGroup, IsGroup
  <2>3. CASE GroupOutOfRange
    BY <2>3, <1>1 DEF GroupOutOfRange, StationGroup, InGroups
  <2>4. CASE EndGroups
    BY <2>4, <1>1 DEF EndGroups, InGroups
  <2> QED BY <2>1, <2>2, <2>3, <2>4 DEF ReadsGroups
<1> QED BY <1>2 DEF CFTypeInv, GroupReached, CFTypeOK, stackVars, groupVars, tlsVars

LEMMA AddDataPointCFTypes == CFTypeInv /\ AddDataPoint => CFTypeInv'
<1> SUFFICES ASSUME CFTypeInv, AddDataPoint PROVE CFTypeInv'
  OBVIOUS
<1>1. imported \in [DOMAIN imported -> PointRecords] /\ gi_groups \in SUBSET (0 .. 16)
  BY DEF CFTypeInv, GroupReached, CFTypeOK, PointRecords
<1>2. imported' \in [DOMAIN imported' -> PointRecords]
  <2>1. CASE Element.typeId \in CommandTypes \union MonitoringTypes
    <3> DEFINE r == [type |-> typeIdToDataType(Element.typeId),
                     command |-> isSupportedCommandType(Element.typeId), groups |-> gi_groups]
    <3>1. r \in PointRecords
      BY <2>1, <1>1, ImportedTypes DEF PointRecords, isSupportedCommandType
    <3>2. imported' = [a \in DOMAIN imported \union {<<Element.ca, Element.ioa>>} |->
                          IF a = <<Element.ca, Element.ioa>> THEN r ELSE imported[a]]
      BY <2>1 DEF AddDataPoint, Imported, isSupportedCommandType, isSupportedMonitoringType
    <3> QED BY <3>1, <3>2, <1>1
  <2>2. CASE Element.typeId \notin CommandTypes \union MonitoringTypes
    BY <2>2, <1>1 DEF AddDataPoint, isSupportedCommandType, isSupportedMonitoringType
  <2> QED BY <2>1, <2>2
<1>3. /\ pc' = "element" /\ element' = element + 1
      /\ UNCHANGED <<conf, datapoint, token, gi_groups, stackVars, tlsVars>>
  BY DEF AddDataPoint
<1> QED BY <1>2, <1>3 DEF CFTypeInv, GroupReached, CFTypeOK, PointRecords, stackVars, groupVars, tlsVars

LEMMA ProtocolCFTypes == CFTypeInv /\ importProtocolConfig => CFTypeInv'
<1> SUFFICES ASSUME CFTypeInv, importProtocolConfig PROVE CFTypeInv'
  OBVIOUS
<1> USE DEF CFTypeInv, CFTypeOK, GroupReached
<1>1. CASE BeginStack
  BY <1>1 DEF BeginStack, exchangeVars, stackVars, groupVars, tlsVars
<1>2. CASE IgnoreGroup
  BY <1>2 DEF IgnoreGroup, InStack, exchangeVars, tlsVars
<1>3. CASE MakeGroup
  <2>1. [index |-> NewIndex, clients |-> <<>>] \in RedundancyGroups
    <3>1. NewIndex \in Nat
      BY LenProperties DEF NewIndex
    <3>2. <<>> \in Seq(STRING)
      OBVIOUS
    <3> QED BY <3>1, <3>2 DEF RedundancyGroups
  <2> QED BY <1>3, <2>1 DEF MakeGroup, InStack, exchangeVars, tlsVars
<1>4. CASE importRedundancyGroupConnections
  <2>1. redGroup' \in RedundancyGroups
    <3> DEFINE c == RedundancyGroup.connections[connection]
    <3>1. CASE c.ok
      <4>1. c.clt_ip \in STRING
        <5>1. connection \in 1 .. Len(RedundancyGroup.connections)
          BY <1>4 DEF importRedundancyGroupConnections
        <5>2. group \in 1 .. Len(conf.stack.groups)
          BY <1>4 DEF GroupReached, importRedundancyGroupConnections
        <5>3. c \in [ok : BOOLEAN, clt_ip : STRING]
          BY <5>1, <5>2, GroupTypes DEF RedundancyGroup
        <5> QED BY <5>3
      <4>2. redGroup.index \in Nat /\ redGroup.clients \in Seq(STRING)
        BY DEF RedundancyGroups
      <4>3. Append(redGroup.clients, c.clt_ip) \in Seq(STRING)
        BY <4>1, <4>2, AppendProperties
      <4>4. redGroup' = [redGroup EXCEPT !.clients = Append(redGroup.clients, c.clt_ip)]
        BY <1>4, <3>1 DEF importRedundancyGroupConnections, InStack
      <4> QED BY <4>3, <4>4 DEF RedundancyGroups
    <3>2. CASE ~c.ok
      BY <1>4, <3>2 DEF importRedundancyGroupConnections, InStack
    <3> QED BY <3>1, <3>2
  <2> QED BY <1>4, <2>1 DEF importRedundancyGroupConnections, InStack, exchangeVars, tlsVars
<1>5. CASE AddGroup
  <2>1. Append(groups, redGroup) \in Seq(RedundancyGroups)
    BY AppendProperties
  <2> QED BY <1>5, <2>1 DEF AddGroup, InStack, exchangeVars, tlsVars
<1>6. CASE ImportParameters
  <2>1. DOMAIN params' = DOMAIN Defaults /\ \A name \in DOMAIN params' : params'[name] \in WarnedRange[name]
    BY <1>6, ConfTypes, ParamsFact DEF ImportParameters
  <2>2. originators' \subseteq 0 .. 255
    <3>1. conf.stack.filter_list \subseteq Int
      BY ConfTypes
    <3>2. originators' = Originators(conf.stack.filter_list)
      BY <1>6 DEF ImportParameters
    <3>3. Originators(conf.stack.filter_list) \subseteq 0 .. 255
      BY <3>1, OriginatorsFact
    <3> QED BY <3>2, <3>3
  <2>3. south'.mode \in {"accept_always", "accept_if_south_connx_started"}
    BY <1>6 DEF ImportParameters, South
  <2>4. useTls' \in BOOLEAN
    BY <1>6, ConfTypes DEF ImportParameters
  <2> QED BY <1>6, <2>1, <2>2, <2>3, <2>4 DEF ImportParameters, exchangeVars, groupVars, tlsVars
<1> QED BY <1>1, <1>2, <1>3, <1>4, <1>5, <1>6 DEF importProtocolConfig

LEMMA NextCFTypes == CFTypeInv /\ [CFNext]_cfVars => CFTypeInv'
<1> SUFFICES ASSUME CFTypeInv, [CFNext]_cfVars PROVE CFTypeInv'
  OBVIOUS
<1>1. CASE Configure
  BY <1>1 DEF Configure, CFTypeInv, GroupReached, CFTypeOK, exchangeVars, stackVars, groupVars, tlsVars
<1>2. CASE importExchangeConfig
  BY <1>2, MovesCFTypes, ReadsGroupsCFTypes, AddDataPointCFTypes DEF importExchangeConfig, Moves, ReadsGroups
<1>3. CASE importProtocolConfig
  BY <1>3, ProtocolCFTypes
<1>4. CASE importTlsConfig
  BY <1>4, ConfTypes DEF importTlsConfig, CFTypeInv, GroupReached, CFTypeOK, exchangeVars, stackVars, groupVars
<1>5. CASE createSlave
  BY <1>5 DEF createSlave, Created, Slave, NoSlave, CFTypeInv, GroupReached, CFTypeOK, exchangeVars, stackVars, groupVars
<1>6. CASE UNCHANGED cfVars
  BY <1>6 DEF cfVars, CFTypeInv, GroupReached, CFTypeOK, exchangeVars, stackVars, groupVars, tlsVars
<1> QED BY <1>1, <1>2, <1>3, <1>4, <1>5, <1>6 DEF CFNext, setJsonConfig

LEMMA TypesHold == CFSpec => []CFTypeInv
  BY InitCFTypes, NextCFTypes, PTL DEF CFSpec

\* Whatever the configuration says, every variable has its type: no data point
\* has a type that the server cannot send or take, and no parameter is outside
\* the range that the warning about it names.
THEOREM ImportTypeCorrect == CFSpec => []CFTypeOK
<1>1. CFTypeInv => CFTypeOK
  BY DEF CFTypeInv
<1> QED BY <1>1, TypesHold, PTL

-----------------------------------------------------------------------------
(* TLS *)

TlsProperty == TlsInv /\ TlsIsNotDropped

LEMMA InitTls == CFInit => TlsProperty
  BY DEF CFInit, TlsProperty, TlsInv, TlsIsNotDropped

LEMMA NextTls == TlsProperty /\ [CFNext]_cfVars => TlsProperty'
<1> SUFFICES ASSUME TlsProperty, [CFNext]_cfVars PROVE TlsProperty'
  OBVIOUS
<1>1. CASE Configure
  <2>1. /\ pc = "configure" /\ pc' \in {"exchange", "ready"}
        /\ UNCHANGED <<conf, certs, slave>>
    BY <1>1 DEF Configure, tlsVars
  <2>2. slave'.kind = "none" /\ slave' = NoSlave
    BY <2>1 DEF TlsProperty, TlsInv, NoSlave
  <2> QED BY <2>1, <2>2 DEF TlsProperty, TlsInv, TlsIsNotDropped
<1>2. CASE importExchangeConfig \/ importProtocolConfig
  <2>1. /\ pc \notin {"slave", "ready"} /\ pc' \notin {"slave", "ready"}
        /\ UNCHANGED <<conf, certs, slave>>
    BY <1>2 DEF importExchangeConfig, ImportExchangeConfig, ImportDatapoint, EndDatapoint, EndDatapoints,
           BrokenElement, OtherProtocol, MissingMember, GroupsNotString, BeginGroups, ImportGroup,
           BrokenGroup, GroupOutOfRange, EndGroups, BrokenAddress, AddDataPoint, GiveUp, NextElement, At,
           InGroups, AtElement, AtToken, importProtocolConfig, BeginStack, IgnoreGroup, MakeGroup,
           importRedundancyGroupConnections, AddGroup, ImportParameters, InStack, tlsVars
  <2>2. ASSUME pc' = "tls", ConfiguredForTls, conf.stack.application PROVE useTls'
    <3>1. HasLayers
      BY <2>2 DEF ConfiguredForTls, HasLayers
    <3>2. ImportParameters
      BY <1>2, <2>2, <3>1 DEF importExchangeConfig, ImportExchangeConfig, ImportDatapoint, EndDatapoint,
           EndDatapoints, BrokenElement, OtherProtocol, MissingMember, GroupsNotString, BeginGroups,
           ImportGroup, BrokenGroup, GroupOutOfRange, EndGroups, BrokenAddress, AddDataPoint, GiveUp,
           NextElement, At, InGroups, importProtocolConfig, BeginStack, IgnoreGroup, MakeGroup,
           importRedundancyGroupConnections, AddGroup, InStack
    <3> QED BY <2>2, <3>2 DEF ImportParameters, ConfiguredForTls
  <2>3. ConfiguredForTls' = ConfiguredForTls
    BY <2>1 DEF ConfiguredForTls
  <2> QED BY <2>1, <2>2, <2>3 DEF TlsProperty, TlsInv, TlsIsNotDropped
<1>3. CASE importTlsConfig
  <2>1. /\ pc = "tls" /\ pc' = "slave" /\ UNCHANGED <<conf, slave, useTls>>
        /\ ~conf.tls.ok => certs' = certs
        /\ conf.tls.ok => /\ certs'.remote_certs = Named(conf.tls.remote_certs)
                          /\ certs'.ca_certs = Named(conf.tls.ca_certs)
    BY <1>3 DEF importTlsConfig, stackVars
  <2> QED BY <2>1 DEF TlsProperty, TlsInv, TlsIsNotDropped, ConfiguredForTls
<1>4. CASE createSlave
  <2>1. pc = "slave" /\ pc' = "ready" /\ UNCHANGED <<conf, certs>> /\ slave' = Created
    BY <1>4 DEF createSlave
  <2>2. CASE useTls /\ CanBeSecure
    <3>1. certs # NoCerts
      BY <2>2 DEF CanBeSecure, NoCerts
    <3>2. /\ certs.remote_certs = Named(conf.tls.remote_certs)
          /\ certs.ca_certs = Named(conf.tls.ca_certs)
      BY <3>1, <2>1 DEF TlsProperty, TlsInv
    <3>3. slave' = Slave("secure", TLSConfiguration)
      BY <2>1, <2>2 DEF Created
    <3>4. /\ slave'.kind = "secure"
          /\ slave'.tls.onlyKnown = (certs.remote_certs # <<>>)
          /\ slave'.tls.chain = (certs.ca_certs # <<>>)
      BY <3>3 DEF Slave, TLSConfiguration
    <3> QED BY <2>1, <3>2, <3>4 DEF TlsProperty, TlsInv, TlsIsNotDropped
  <2>3. CASE useTls /\ ~CanBeSecure
    <3>1. slave'.kind = "none"
      BY <2>1, <2>3 DEF Created, NoSlave
    <3> QED BY <2>1, <3>1 DEF TlsProperty, TlsInv, TlsIsNotDropped
  <2>4. CASE ~useTls
    <3>1. slave'.kind = "plain"
      BY <2>1, <2>4 DEF Created, Slave
    <3>2. ConfiguredForTls => ~conf.stack.application
      BY <2>1, <2>4 DEF TlsProperty, TlsInv
    <3> QED BY <2>1, <3>1, <3>2 DEF TlsProperty, TlsInv, TlsIsNotDropped, ConfiguredForTls
  <2> QED BY <2>2, <2>3, <2>4
<1>5. CASE UNCHANGED cfVars
  <2>1. UNCHANGED <<conf, pc, useTls, certs, slave>>
    BY <1>5 DEF cfVars, stackVars, tlsVars
  <2> QED BY <2>1 DEF TlsProperty, TlsInv, TlsIsNotDropped, ConfiguredForTls
<1> QED BY <1>1, <1>2, <1>3, <1>4, <1>5 DEF CFNext, setJsonConfig

\* For any configuration whose transport layer asks for TLS, the server runs
\* without it only if the application layer is missing, the one case in which the
\* import gives up before it reads the flag.  With TLS, whichever of the
\* certificates that are named cannot be loaded, it does not come to accept
\* masters it is not to know.
THEOREM TlsHolds == CFSpec => []TlsIsNotDropped
<1>1. TlsProperty => TlsIsNotDropped
  BY DEF TlsProperty
<1>2. CFSpec => []TlsProperty
  BY InitTls, NextTls, PTL DEF CFSpec
<1> QED BY <1>1, <1>2, PTL

-----------------------------------------------------------------------------
(* The redundancy groups *)

LEMMA AllClients ==
    ASSUME NEW g, Len(g.connections) \in Nat, NEW n \in Nat, n > Len(g.connections)
    PROVE  ClientsBefore(g, n) = ListedClients(g)
<1>1. \A k \in 1 .. Len(g.connections) : k < n
  OBVIOUS
<1> QED BY <1>1 DEF ClientsBefore, ListedClients

\* A client that is appended.
LEMMA AppendedClient ==
    ASSUME NEW r \in RedundancyGroups, NEW ip \in STRING
    PROVE  ClientsOf([r EXCEPT !.clients = Append(r.clients, ip)]) = ClientsOf(r) \union {ip}
<1> DEFINE s == Append(r.clients, ip)
<1>1. r.clients \in Seq(STRING) /\ Len(r.clients) \in Nat
  BY LenProperties DEF RedundancyGroups
<1>2. /\ Len(s) = Len(r.clients) + 1
      /\ \A k \in 1 .. Len(r.clients) : s[k] = r.clients[k]
      /\ s[Len(r.clients) + 1] = ip
  BY <1>1, AppendProperties
<1>3. [r EXCEPT !.clients = s].clients = s
  BY DEF RedundancyGroups
<1> HIDE DEF s
<1>4. ClientsOf([r EXCEPT !.clients = s]) = {s[k] : k \in 1 .. Len(s)}
  BY <1>3 DEF ClientsOf
<1>5. ASSUME NEW k \in 1 .. Len(s) PROVE s[k] \in ClientsOf(r) \union {ip}
  <2>1. CASE k = Len(s)
    BY <2>1, <1>1, <1>2
  <2>2. CASE k # Len(s)
    <3>1. k \in 1 .. Len(r.clients)
      BY <2>2, <1>1, <1>2
    <3> QED BY <3>1, <1>2 DEF ClientsOf
  <2> QED BY <2>1, <2>2
<1>6. ASSUME NEW k \in 1 .. Len(r.clients) PROVE r.clients[k] \in {s[j] : j \in 1 .. Len(s)}
  <2>1. k \in 1 .. Len(s) /\ s[k] = r.clients[k]
    BY <1>1, <1>2
  <2> QED BY <2>1
<1>7. ip \in {s[j] : j \in 1 .. Len(s)}
  BY <1>1, <1>2
<1>8. \A x \in ClientsOf(r) : x \in {s[j] : j \in 1 .. Len(s)}
  BY <1>6 DEF ClientsOf
<1> QED BY <1>4, <1>5, <1>7, <1>8 DEF s

\* One more connection is looked at.
LEMMA NextClient ==
    ASSUME NEW g, NEW n \in 1 .. Len(g.connections), Len(g.connections) \in Nat
    PROVE  ClientsBefore(g, n + 1) = IF g.connections[n].ok
                                       THEN ClientsBefore(g, n) \union {g.connections[n].clt_ip}
                                       ELSE ClientsBefore(g, n)
<1>1. \A k \in 1 .. Len(g.connections) : k < n + 1 <=> k < n \/ k = n
  OBVIOUS
<1>2. CASE g.connections[n].ok
  BY <1>1, <1>2 DEF ClientsBefore
<1>3. CASE ~g.connections[n].ok
  BY <1>1, <1>3 DEF ClientsBefore
<1> QED BY <1>2, <1>3

LEMMA InitGroups == CFInit => GroupInv
<1> SUFFICES ASSUME CFInit PROVE GroupInv
  OBVIOUS
<1>1. pc = "configure" /\ group = 1 /\ groups = <<>> /\ Len(<<>>) = 0
  BY DEF CFInit
<1> QED BY <1>1 DEF GroupInv

\* A step that is not about the groups.
LEMMA OtherSteps ==
    ASSUME GroupInv, UNCHANGED <<conf, groupVars>>,
           pc' \notin {"group", "connection", "tls", "slave", "ready"}
              => pc \notin {"group", "connection", "tls", "slave", "ready"},
           pc' \notin {"group", "connection"},
           pc' \in {"tls", "slave", "ready"} /\ conf.items /\ HasLayers
              => pc \in {"tls", "slave", "ready"}
    PROVE  GroupInv'
  BY DEF GroupInv, groupVars, IsMade, RedundancyGroup, HasLayers

LEMMA GroupsTypes ==
    ASSUME CFTypeInv
    PROVE  /\ Len(groups) \in Nat /\ group \in Nat \ {0} /\ connection \in Nat \ {0}
           /\ Len(conf.stack.groups) \in Nat
           /\ groups \in Seq(RedundancyGroups) /\ redGroup \in RedundancyGroups
<1>1. groups \in Seq(RedundancyGroups) /\ conf.stack.groups \in Seq(GroupElements)
  BY ConfTypes DEF CFTypeInv, CFTypeOK
<1> QED BY <1>1, LenProperties DEF CFTypeInv, CFTypeOK

LEMMA IgnoreGroupGroups == CFTypeInv /\ GroupInv /\ IgnoreGroup => GroupInv'
<1> SUFFICES ASSUME CFTypeInv, GroupInv, IgnoreGroup PROVE GroupInv'
  OBVIOUS
<1>1. /\ pc = "group" /\ pc' = "group" /\ group' = group + 1 /\ ~conf.stack.groups[group].ok
      /\ conf' = conf /\ groups' = groups
  BY DEF IgnoreGroup, InStack, RedundancyGroup
<1>2. ASSUME NEW g \in 1 .. Len(conf.stack.groups), g < group + 1, conf.stack.groups[g].ok
      PROVE  \E i \in 1 .. Len(groups) : IsMade(groups[i], conf.stack.groups[g])
  <2>1. g < group
    BY <1>1, <1>2, GroupsTypes
  <2> QED BY <1>1, <1>2, <2>1 DEF GroupInv
<1> QED BY <1>1, <1>2 DEF GroupInv, IsMade

LEMMA MakeGroupGroups == CFTypeInv /\ GroupInv /\ MakeGroup => GroupInv'
<1> SUFFICES ASSUME CFTypeInv, GroupInv, MakeGroup PROVE GroupInv'
  OBVIOUS
<1>1. /\ pc = "group" /\ pc' = "connection" /\ group' = group /\ connection' = 1
      /\ conf.stack.groups[group].ok /\ conf' = conf /\ groups' = groups
      /\ redGroup'.index = Len(groups) /\ redGroup'.clients = <<>>
  BY DEF MakeGroup, InStack, RedundancyGroup, NewIndex
<1>2. ClientsOf(redGroup') = {}
  BY <1>1 DEF ClientsOf
<1>3. ClientsBefore(RedundancyGroup', 1) = {}
  BY DEF ClientsBefore
<1>4. RedundancyGroup' = conf.stack.groups[group]
  BY <1>1 DEF RedundancyGroup
<1> QED BY <1>1, <1>2, <1>3, <1>4 DEF GroupInv, IsMade

LEMMA ConnectionsGroups == CFTypeInv /\ GroupInv /\ importRedundancyGroupConnections => GroupInv'
<1> SUFFICES ASSUME CFTypeInv, GroupInv, importRedundancyGroupConnections PROVE GroupInv'
  OBVIOUS
<1> DEFINE g == conf.stack.groups[group]
           c == g.connections[connection]
<1>1. /\ pc = "connection" /\ pc' = "connection" /\ group' = group /\ connection' = connection + 1
      /\ connection =< Len(g.connections) /\ conf' = conf /\ groups' = groups
      /\ redGroup' = IF c.ok THEN [redGroup EXCEPT !.clients = Append(redGroup.clients, c.clt_ip)]
                             ELSE redGroup
  BY DEF importRedundancyGroupConnections, InStack, RedundancyGroup
<1>2. group \in 1 .. Len(conf.stack.groups)
  BY <1>1, GroupsTypes DEF CFTypeInv, GroupReached
<1>3. g.connections \in Seq([ok : BOOLEAN, clt_ip : STRING]) /\ Len(g.connections) \in Nat
  BY <1>2, GroupTypes, LenProperties DEF CFTypeInv
<1>4. connection \in 1 .. Len(g.connections)
  BY <1>1, <1>3, GroupsTypes
<1>5. c.clt_ip \in STRING
  <2>1. c \in [ok : BOOLEAN, clt_ip : STRING]
    BY <1>2, <1>4, GroupTypes DEF CFTypeInv
  <2> QED BY <2>1
<1>6. ClientsOf(redGroup) = ClientsBefore(g, connection)
  BY <1>1 DEF GroupInv, RedundancyGroup
<1>7. ClientsOf(redGroup') = ClientsBefore(g, connection + 1)
  <2>1. ClientsBefore(g, connection + 1) = IF c.ok THEN ClientsBefore(g, connection) \union {c.clt_ip}
                                                   ELSE ClientsBefore(g, connection)
    BY <1>3, <1>4, NextClient
  <2>2. ClientsOf([redGroup EXCEPT !.clients = Append(redGroup.clients, c.clt_ip)])
           = ClientsOf(redGroup) \union {c.clt_ip}
    BY <1>5, GroupsTypes, AppendedClient
  <2> QED BY <1>1, <1>6, <2>1, <2>2
<1>8. redGroup'.index = redGroup.index
  BY <1>1, GroupsTypes DEF RedundancyGroups
<1>9. RedundancyGroup' = g /\ RedundancyGroup = g
  BY <1>1 DEF RedundancyGroup
<1> HIDE DEF g, c
<1> QED BY <1>1, <1>7, <1>8, <1>9 DEF GroupInv, IsMade

LEMMA AddGroupGroups == CFTypeInv /\ GroupInv /\ AddGroup => GroupInv'
<1> SUFFICES ASSUME CFTypeInv, GroupInv, AddGroup PROVE GroupInv'
  OBVIOUS
<1> DEFINE n == Len(groups)
<1>1. /\ pc = "connection" /\ pc' = "group" /\ group' = group + 1 /\ conf' = conf
      /\ groups' = Append(groups, redGroup)
      /\ connection > Len(RedundancyGroup.connections)
  BY DEF AddGroup, InStack
<1>2. /\ Len(groups') = n + 1 /\ groups'[n + 1] = redGroup
      /\ \A i \in 1 .. n : groups'[i] = groups[i]
  BY <1>1, GroupsTypes, AppendProperties
<1>3. group \in 1 .. Len(conf.stack.groups) /\ RedundancyGroup = conf.stack.groups[group]
  BY <1>1, GroupsTypes DEF CFTypeInv, GroupReached, RedundancyGroup
<1>4. /\ redGroup.index = n /\ conf.stack.groups[group].ok
      /\ IsMade(redGroup, conf.stack.groups[group])
  <2>1. Len(RedundancyGroup.connections) \in Nat
    BY <1>3, GroupTypes, LenProperties DEF CFTypeInv
  <2>2. ClientsBefore(RedundancyGroup, connection) = ListedClients(RedundancyGroup)
    BY <1>1, <2>1, GroupsTypes, AllClients
  <2> QED BY <1>1, <1>3, <2>2 DEF GroupInv, IsMade
<1>5. ASSUME NEW i \in 1 .. n + 1
      PROVE  /\ groups'[i].index = i - 1
             /\ \E g \in 1 .. Len(conf.stack.groups) :
                   conf.stack.groups[g].ok /\ IsMade(groups'[i], conf.stack.groups[g])
  <2>1. CASE i = n + 1
    BY <2>1, <1>2, <1>3, <1>4, GroupsTypes
  <2>2. CASE i # n + 1
    <3>1. i \in 1 .. n
      BY <2>2, GroupsTypes
    <3> QED BY <3>1, <1>2 DEF GroupInv
  <2> QED BY <2>1, <2>2
<1>6. ASSUME NEW g \in 1 .. Len(conf.stack.groups), g < group + 1, conf.stack.groups[g].ok
      PROVE  \E i \in 1 .. n + 1 : IsMade(groups'[i], conf.stack.groups[g])
  <2>1. CASE g = group
    BY <2>1, <1>2, <1>4, GroupsTypes
  <2>2. CASE g # group
    <3>1. g < group
      BY <2>2, <1>6, GroupsTypes
    <3>2. PICK i \in 1 .. n : IsMade(groups[i], conf.stack.groups[g])
      BY <1>1, <1>6, <3>1 DEF GroupInv
    <3> QED BY <3>2, <1>2, GroupsTypes
  <2> QED BY <2>1, <2>2
<1> HIDE DEF n
<1> QED BY <1>1, <1>2, <1>5, <1>6 DEF GroupInv, IsMade

LEMMA NextGroups == CFTypeInv /\ GroupInv /\ [CFNext]_cfVars => GroupInv'
<1> SUFFICES ASSUME CFTypeInv, GroupInv, [CFNext]_cfVars PROVE GroupInv'
  OBVIOUS
<1>1. CASE Configure
  BY <1>1, OtherSteps DEF Configure, stackVars
<1>2. CASE importExchangeConfig
  <2>1. /\ UNCHANGED <<conf, groupVars>>
        /\ pc \in {"exchange", "datapoint", "element", "token", "address"}
        /\ pc' \in {"datapoint", "element", "token", "address", "stack"}
    BY <1>2 DEF importExchangeConfig, ImportExchangeConfig, ImportDatapoint, EndDatapoint, EndDatapoints,
           BrokenElement, OtherProtocol, MissingMember, GroupsNotString, BeginGroups, ImportGroup,
           BrokenGroup, GroupOutOfRange, EndGroups, BrokenAddress, AddDataPoint, GiveUp, NextElement, At,
           InGroups, AtElement, AtToken, stackVars
  <2> QED BY <2>1, OtherSteps
<1>3. CASE BeginStack
  <2>1. /\ UNCHANGED <<conf, groupVars>> /\ pc = "stack" /\ pc' \in {"group", "tls"}
        /\ pc' = "tls" => ~HasLayers
    BY <1>3 DEF BeginStack, stackVars
  <2>2. CASE pc' = "tls"
    BY <2>1, <2>2, OtherSteps
  <2>3. CASE pc' = "group"
    <3>1. group = 1
      BY <2>1 DEF GroupInv
    <3> QED BY <2>1, <2>3, <3>1 DEF GroupInv, groupVars, IsMade
  <2> QED BY <2>1, <2>2, <2>3
<1>4. CASE IgnoreGroup \/ MakeGroup \/ importRedundancyGroupConnections \/ AddGroup
  BY <1>4, IgnoreGroupGroups, MakeGroupGroups, ConnectionsGroups, AddGroupGroups
<1>5. CASE ImportParameters
  <2>1. /\ UNCHANGED <<conf, groups>> /\ pc = "group" /\ pc' = "tls"
        /\ group > Len(conf.stack.groups)
    BY <1>5 DEF ImportParameters, groupVars
  <2>2. ASSUME NEW g \in 1 .. Len(conf.stack.groups), conf.stack.groups[g].ok
        PROVE  \E i \in 1 .. Len(groups) : IsMade(groups[i], conf.stack.groups[g])
    <3>1. g < group
      BY <2>1, GroupsTypes
    <3> QED BY <2>1, <2>2, <3>1 DEF GroupInv
  <2> QED BY <2>1, <2>2 DEF GroupInv, IsMade, HasLayers
<1>6. CASE importTlsConfig
  BY <1>6, OtherSteps DEF importTlsConfig, stackVars
<1>7. CASE createSlave
  BY <1>7, OtherSteps DEF createSlave, stackVars
<1>8. CASE UNCHANGED cfVars
  BY <1>8 DEF cfVars, stackVars, groupVars, GroupInv, IsMade, RedundancyGroup, HasLayers
<1> QED BY <1>1, <1>2, <1>3, <1>4, <1>5, <1>6, <1>7, <1>8 DEF CFNext, setJsonConfig, importProtocolConfig

\* Whatever groups and clients are ignored, a group has its place among the
\* groups for its number, the clients of one that is configured, and every one
\* that is configured without mistake comes to be.
THEOREM GroupsComeAsConfigured == CFSpec => []GroupsAreNumbered
<1>1. GroupInv => GroupsAreNumbered
  BY DEF GroupInv, GroupsAreNumbered, IsMade
<1>2. CFSpec => []GroupInv
  BY TypesHold, InitGroups, NextGroups, PTL DEF CFSpec
<1> QED BY <1>1, <1>2, PTL

-----------------------------------------------------------------------------
(* Positions *)

LEMMA PositionsFact ==
    \A p : p \in Positions <=>
        \E d \in 1 .. Len(Datapoints) : \E e \in 1 .. Len(Datapoints[d].protocols) : p = <<d, e>>
  BY DEF Positions

\* The numbers of a position.
LEMMA PositionTypes ==
    ASSUME CFTypeInv, NEW p \in Positions
    PROVE  /\ p[1] \in 1 .. Len(Datapoints) /\ p[2] \in 1 .. Len(Datapoints[p[1]].protocols)
           /\ p = <<p[1], p[2]>>
           /\ Len(Datapoints) \in Nat /\ Len(Datapoints[p[1]].protocols) \in Nat
           /\ ElementAt(p) \in ProtocolElements
<1>1. PICK d \in 1 .. Len(Datapoints) : \E e \in 1 .. Len(Datapoints[d].protocols) : p = <<d, e>>
  BY PositionsFact
<1>4. PICK e \in 1 .. Len(Datapoints[d].protocols) : p = <<d, e>>
  BY <1>1
<1>2. Len(Datapoints) \in Nat /\ Len(Datapoints[d].protocols) \in Nat
  BY ConfTypes, ElementTypes, LenProperties DEF CFTypeInv
<1>3. Datapoints[d].protocols[e] \in ProtocolElements
  BY ElementTypes DEF CFTypeInv
<1> QED BY <1>4, <1>2, <1>3 DEF ElementAt

\* What is said about the configuration stays as long as it does.
LEMMA SameConf ==
    ASSUME conf' = conf
    PROVE  /\ Datapoints' = Datapoints /\ Positions' = Positions
           /\ \A p : /\ ElementAt(p)' = ElementAt(p) /\ Address(p)' = Address(p)
                     /\ IsHidden(p)' <=> IsHidden(p)
                     /\ Yields(p)' <=> Yields(p)
<1>1. Datapoints' = Datapoints
  BY DEF Datapoints
<1>2. Positions' = Positions
  BY <1>1 DEF Positions
<1>3. ASSUME NEW p PROVE ElementAt(p)' = ElementAt(p)
  BY <1>1 DEF ElementAt
<1>4. ASSUME NEW p PROVE IsHidden(p)' <=> IsHidden(p)
  BY <1>2, <1>3 DEF IsHidden
<1>5. ASSUME NEW p PROVE IsReached(p)' <=> IsReached(p)
  BY <1>1, <1>2, <1>3, <1>4 DEF IsReached
<1>6. ASSUME NEW p PROVE Yields(p)' <=> Yields(p)
  BY <1>3, <1>5 DEF Yields
<1> QED BY <1>1, <1>2, <1>3, <1>4, <1>6 DEF Address

LEMMA PositionIsNat == CFTypeInv => datapoint \in Nat \ {0} /\ element \in Nat \ {0}
  BY DEF CFTypeInv, CFTypeOK

\* The order of the positions.
LEMMA NextInDatapoint ==
    ASSUME CFTypeInv, NEW p \in Positions
    PROVE  IsBefore(p, <<datapoint, element + 1>>) <=> IsBefore(p, Position) \/ p = Position
<1>1. p[1] \in Nat /\ p[2] \in Nat /\ p = <<p[1], p[2]>>
  BY PositionTypes
<1> QED BY <1>1, PositionIsNat DEF IsBefore, Position

LEMMA NextDatapoint ==
    ASSUME CFTypeInv, NEW p \in Positions
    PROVE  IsBefore(p, <<datapoint + 1, 1>>) <=> p[1] =< datapoint
<1>1. p[1] \in Nat /\ p[2] \in Nat \ {0}
  BY PositionTypes
<1> QED BY <1>1, PositionIsNat DEF IsBefore

LEMMA Compared ==
    ASSUME CFTypeInv, NEW p \in Positions
    PROVE  IsBefore(p, Position) \/ p = Position \/ IsBefore(Position, p)
<1>1. p[1] \in Nat /\ p[2] \in Nat /\ p = <<p[1], p[2]>>
  BY PositionTypes
<1> QED BY <1>1, PositionIsNat DEF IsBefore, Position

\* The position as long as there is an element at it.
AtAnElement == InDatapoint /\ element =< Len(Datapoints[datapoint].protocols)

LEMMA AtPosition ==
    ASSUME CFTypeInv, WalkInv, AtAnElement
    PROVE  /\ Position \in Positions /\ ElementAt(Position) = Element
           /\ ~IsHidden(Position) /\ Element \in ProtocolElements
<1>1. Len(Datapoints) \in Nat
  BY ConfTypes, LenProperties DEF CFTypeInv
<1>2. datapoint \in 1 .. Len(Datapoints)
  BY <1>1, PositionIsNat DEF WalkInv, AtAnElement
<1>3. Len(Datapoints[datapoint].protocols) \in Nat
  BY <1>2, ElementTypes, LenProperties DEF CFTypeInv
<1>4. element \in 1 .. Len(Datapoints[datapoint].protocols)
  BY <1>3, PositionIsNat DEF AtAnElement
<1>5. Position \in Positions
  BY <1>2, <1>4, PositionsFact DEF Position
<1>6. ElementAt(Position) = Element
  BY DEF ElementAt, Position, Element
<1>7. ~IsHidden(Position)
  BY DEF IsHidden, WalkInv, AtAnElement, Position
<1>8. Element \in ProtocolElements
  BY <1>2, <1>4, ElementTypes DEF Element, CFTypeInv
<1> QED BY <1>5, <1>6, <1>7, <1>8

\* After an element that is fatal there is nothing that yields a data point.
LEMMA StopsAt ==
    ASSUME CFTypeInv, WalkInv, AtAnElement, IsFatal(Element), NEW p \in Positions, Yields(p)
    PROVE  IsBefore(p, Position)
<1>1. p # Position
  BY AtPosition DEF Yields
<1>2. ~IsBefore(Position, p)
  BY AtPosition DEF Yields, IsReached
<1> QED BY <1>1, <1>2, Compared

\* After one that ends its data point there is none in this data point.
LEMMA EndsAt ==
    ASSUME CFTypeInv, WalkInv, AtAnElement, EndsDatapoint(Element), NEW p \in Positions,
           p[1] =< datapoint
    PROVE  IsBefore(p, Position) \/ p = Position \/ IsHidden(p)
<1>1. CASE IsBefore(Position, p)
  <2>1. p[1] = datapoint /\ element < p[2]
    BY <1>1, PositionTypes, PositionIsNat DEF IsBefore, Position
  <2>2. Position[1] = p[1] /\ Position[2] < p[2]
    BY <2>1 DEF Position
  <2> QED BY <2>2, AtPosition DEF IsHidden
<1> QED BY <1>1, Compared

\* The data points stay as they are when an import goes on over elements that
\* yield none.
LEMMA KeepsMap ==
    ASSUME MapInv, conf' = conf, imported' = imported,
           \A p \in Positions : Yields(p) => (IsDone(p)' <=> IsDone(p))
    PROVE  MapInv'
<1>1. Points' = Points
  BY SameConf DEF Points
<1>2. \A p : Address(p)' = Address(p) /\ ElementAt(p)' = ElementAt(p)
  BY SameConf
<1>3. ASSUME NEW p PROVE IsReplaced(p)' <=> IsReplaced(p)
  BY <1>1, <1>2 DEF IsReplaced
<1>4. DOMAIN imported' = {Address(p)' : p \in Points'}
  BY <1>1, <1>2 DEF MapInv
<1>5. ASSUME NEW p \in Points'
      PROVE  IsReplaced(p)' \/ imported'[Address(p)'] = PointOf(ElementAt(p)')
  BY <1>1, <1>2, <1>3 DEF MapInv
<1>6. \A p : PointOf(ElementAt(p))' = PointOf(ElementAt(p)')
  BY DEF PointOf, ListedGroups, typeIdToDataType, isSupportedCommandType
<1> QED BY <1>4, <1>5, <1>6 DEF MapInv

-----------------------------------------------------------------------------
(* The walk over the data points *)

PointsInv == WalkInv /\ TokenInv /\ MapInv

\* Where exactly those positions that yield a data point lie behind that did.
LEMMA GivesUp ==
    ASSUME CFTypeInv, PointsInv, GiveUp, pc = "exchange" \/ IsWalking,
           \A p \in Positions : Yields(p) => IsBefore(p, Position)
    PROVE  PointsInv'
<1>1. pc' = "stack" /\ conf' = conf /\ imported' = imported
  BY DEF GiveUp, At
<1>2. conf.items
  BY DEF PointsInv, WalkInv, IsWalking
<1>3. WalkInv' /\ TokenInv'
  BY <1>1, <1>2 DEF WalkInv, TokenInv, IsWalking, InDatapoint
<1>4. \A p \in Positions : Yields(p) => IsDone(p) /\ IsDone(p)'
  BY <1>1 DEF IsDone, IsImported
<1>5. MapInv'
  BY <1>1, <1>4, KeepsMap DEF PointsInv
<1> QED BY <1>3, <1>5 DEF PointsInv

LEMMA BeginExchange == CFTypeInv /\ PointsInv /\ (Configure \/ ImportExchangeConfig) => PointsInv'
<1> SUFFICES ASSUME CFTypeInv, PointsInv, Configure \/ ImportExchangeConfig PROVE PointsInv'
  OBVIOUS
<1>1. CASE Configure
  <2>1. /\ pc = "configure" /\ pc' = (IF conf.items THEN "exchange" ELSE "ready")
        /\ UNCHANGED <<conf, datapoint, element, imported>>
    BY <1>1 DEF Configure, exchangeVars
  <2>2. WalkInv' /\ TokenInv'
    BY <2>1 DEF PointsInv, WalkInv, TokenInv, IsWalking, InDatapoint
  <2>3. ASSUME NEW p \in Positions, Yields(p) PROVE IsDone(p)' <=> IsDone(p)
    <3>1. pc' = "exchange"
      BY <2>1, <2>3 DEF Yields, IsReached
    <3> QED BY <2>1, <3>1 DEF IsDone, IsImported, Position
  <2> QED BY <2>1, <2>2, <2>3, KeepsMap DEF PointsInv
<1>2. CASE ImportExchangeConfig /\ conf.exchange.ok
  <2>1. /\ pc = "exchange" /\ pc' = "datapoint" /\ datapoint' = 1 /\ element' = 1
        /\ UNCHANGED <<conf, imported>>
    BY <1>2 DEF ImportExchangeConfig, At
  <2>2. datapoint = 1 /\ element = 1 /\ conf.items
    BY <2>1 DEF PointsInv, WalkInv
  <2>3. ASSUME NEW q \in Positions PROVE ~IsBefore(q, <<1, 1>>)
    BY PositionTypes DEF IsBefore
  <2>4. Datapoints' = Datapoints /\ Positions' = Positions /\ Position' = <<1, 1>>
    BY <2>1, SameConf DEF Position
  <2>5. WalkInv'
    <3>1. \A q \in Positions' : ~IsBefore(q, Position')
      BY <2>3, <2>4
    <3> QED BY <1>2, <2>1, <2>2, <3>1 DEF WalkInv, IsWalking, InDatapoint
  <2>6. TokenInv'
    BY <2>1 DEF TokenInv
  <2>7. \A p : IsDone(p)' <=> IsDone(p)
    BY <2>1, <2>2 DEF IsDone, IsImported, Position
  <2> QED BY <2>1, <2>5, <2>6, <2>7, KeepsMap DEF PointsInv
<1>3. CASE ImportExchangeConfig /\ ~conf.exchange.ok
  <2>1. GiveUp /\ pc = "exchange"
    BY <1>3 DEF ImportExchangeConfig
  <2>2. \A p \in Positions : ~Yields(p)
    BY <1>3 DEF Yields, IsReached
  <2> QED BY <2>1, <2>2, GivesUp
<1> QED BY <1>1, <1>2, <1>3

LEMMA ImportDatapointPoints == CFTypeInv /\ PointsInv /\ ImportDatapoint => PointsInv'
<1> SUFFICES ASSUME CFTypeInv, PointsInv, ImportDatapoint PROVE PointsInv'
  OBVIOUS
<1>1. pc = "datapoint" /\ element = 1 /\ datapoint =< Len(Datapoints)
  BY DEF ImportDatapoint, PointsInv, WalkInv
<1>2. CASE Datapoints[datapoint].ok
  <2>1. /\ pc' = "element" /\ datapoint' = datapoint /\ element' = element
        /\ UNCHANGED <<conf, imported>>
    BY <1>1, <1>2 DEF ImportDatapoint, At
  <2>2. Position' = Position /\ \A q \in Positions : q[2] \in Nat \ {0}
    BY <2>1, PositionTypes DEF Position
  <2>3. WalkInv'
    BY <1>1, <1>2, <2>1, <2>2, SameConf DEF PointsInv, WalkInv, IsWalking, InDatapoint
  <2>4. TokenInv'
    BY <2>1 DEF TokenInv
  <2>5. \A p : IsDone(p)' <=> IsDone(p)
    BY <1>1, <2>1, <2>2 DEF IsDone, IsImported
  <2> QED BY <2>1, <2>3, <2>4, <2>5, KeepsMap DEF PointsInv
<1>3. CASE ~Datapoints[datapoint].ok
  <2>1. GiveUp
    BY <1>3 DEF ImportDatapoint
  <2>2. ASSUME NEW p \in Positions, Yields(p) PROVE IsBefore(p, Position)
    <3>1. p[1] \in Nat
      BY PositionTypes
    <3>2. ~(datapoint \in 1 .. p[1])
      BY <1>3, <2>2 DEF Yields, IsReached
    <3> QED BY <3>1, <3>2, PositionIsNat DEF IsBefore, Position
  <2> QED BY <1>1, <2>1, <2>2, GivesUp DEF IsWalking
<1> QED BY <1>2, <1>3

\* On to the next data point.
LEMMA NextDatapointPoints ==
    ASSUME CFTypeInv, PointsInv, At("datapoint", datapoint + 1, 1), InDatapoint,
           \A q \in Positions : q[1] =< datapoint =>
               \/ IsBefore(q, Position)
               \/ /\ ~Yields(q)
                  /\ IsHidden(q) \/ ~IsFatal(ElementAt(q))
    PROVE  PointsInv'
<1>1. /\ pc' = "datapoint" /\ datapoint' = datapoint + 1 /\ element' = 1
      /\ UNCHANGED <<conf, imported>>
  BY DEF At
<1>2. ASSUME NEW q \in Positions PROVE IsBefore(q, Position') <=> q[1] =< datapoint
  BY <1>1, NextDatapoint DEF Position
<1>3. WalkInv'
  <2>1. conf.items /\ conf.exchange.ok
    BY DEF PointsInv, WalkInv, InDatapoint, IsWalking
  <2>2. \A d \in 1 .. datapoint : Datapoints[d].ok
    <3>1. \A d \in 1 .. datapoint : d \in 1 .. datapoint - 1 \/ d = datapoint
      BY PositionIsNat
    <3> QED BY <3>1 DEF PointsInv, WalkInv, InDatapoint, IsWalking
  <2>3. ASSUME NEW q \in Positions, IsBefore(q, Position'), IsFatal(ElementAt(q)) PROVE IsHidden(q)
    <3>1. CASE IsBefore(q, Position)
      BY <2>3, <3>1 DEF PointsInv, WalkInv, InDatapoint, IsWalking
    <3> QED BY <1>2, <2>3, <3>1
  <2>4. datapoint' - 1 = datapoint
    BY <1>1, PositionIsNat
  <2>5. \A q : IsFatal(ElementAt(q))' <=> IsFatal(ElementAt(q))
    BY <1>1, SameConf DEF IsFatal
  <2>6. \A d \in 1 .. datapoint' - 1 : Datapoints'[d].ok
    BY <1>1, <2>2, <2>4, SameConf
  <2>7. \A q \in Positions' : IsBefore(q, Position') /\ IsFatal(ElementAt(q))' => IsHidden(q)'
    BY <1>1, <2>3, <2>5, SameConf
  <2> QED BY <1>1, <2>1, <2>6, <2>7 DEF WalkInv, IsWalking, InDatapoint
<1>4. TokenInv'
  BY <1>1 DEF TokenInv
<1>5. ASSUME NEW p \in Positions, Yields(p) PROVE IsDone(p)' <=> IsDone(p)
  <2>1. pc \notin {"stack", "group", "connection", "tls", "slave", "ready"}
    BY DEF InDatapoint
  <2>2. IsBefore(p, Position) => p[1] =< datapoint
    BY PositionTypes, PositionIsNat DEF IsBefore, Position
  <2> QED BY <1>1, <1>2, <1>5, <2>1, <2>2 DEF IsDone, IsImported
<1> QED BY <1>1, <1>3, <1>4, <1>5, KeepsMap DEF PointsInv

LEMMA EndDatapointPoints == CFTypeInv /\ PointsInv /\ EndDatapoint => PointsInv'
<1> SUFFICES ASSUME CFTypeInv, PointsInv, EndDatapoint PROVE PointsInv'
  OBVIOUS
<1>1. /\ pc = "element" /\ element > Len(Datapoints[datapoint].protocols)
      /\ At("datapoint", datapoint + 1, 1)
  BY DEF EndDatapoint
<1>2. ASSUME NEW q \in Positions, q[1] =< datapoint PROVE IsBefore(q, Position)
  <2>1. /\ q[1] \in Nat /\ q[2] \in Nat /\ q[2] =< Len(Datapoints[q[1]].protocols)
        /\ Len(Datapoints[q[1]].protocols) \in Nat
    BY PositionTypes
  <2>2. CASE q[1] = datapoint
    BY <1>1, <2>1, <2>2, PositionIsNat DEF IsBefore, Position
  <2>3. CASE q[1] # datapoint
    BY <1>2, <2>1, <2>3, PositionIsNat DEF IsBefore, Position
  <2> QED BY <2>2, <2>3
<1> QED BY <1>1, <1>2, NextDatapointPoints DEF InDatapoint

LEMMA EndDatapointsPoints == CFTypeInv /\ PointsInv /\ EndDatapoints => PointsInv'
<1> SUFFICES ASSUME CFTypeInv, PointsInv, EndDatapoints PROVE PointsInv'
  OBVIOUS
<1>1. pc = "datapoint" /\ datapoint > Len(Datapoints) /\ GiveUp
  BY DEF EndDatapoints
<1>2. ASSUME NEW p \in Positions PROVE IsBefore(p, Position)
  BY <1>1, PositionTypes, PositionIsNat DEF IsBefore, Position
<1> QED BY <1>1, <1>2, GivesUp DEF IsWalking

\* The import gives up just at the elements that are fatal.
LEMMA FatalElements ==
    ASSUME CFTypeInv, PointsInv, BrokenElement \/ MissingMember \/ BrokenGroup \/ BrokenAddress
    PROVE  AtAnElement /\ IsFatal(Element) /\ GiveUp /\ IsWalking
<1>1. CASE BrokenElement
  BY <1>1 DEF BrokenElement, AtElement, AtAnElement, InDatapoint, IsWalking, IsFatal
<1>2. CASE MissingMember
  BY <1>2 DEF MissingMember, AtElement, AtAnElement, InDatapoint, IsWalking, IsFatal
<1>3. CASE BrokenGroup
  <2>1. /\ pc = "token" /\ token =< Len(Element.tokens) /\ Element.tokens[token] = NoInt /\ GiveUp
    BY <1>3 DEF BrokenGroup, AtToken
  <2>2. /\ AtAnElement /\ Element.kind = "iec104" /\ Element.groups = "string"
        /\ \A k \in 1 .. token - 1 : Element.tokens[k] \in {Station} \union (1 .. 16)
    BY <2>1 DEF PointsInv, TokenInv, AtAnElement, InDatapoint, IsGroup
  <2>3. token \in 1 .. Len(Element.tokens)
    <3>1. Element.tokens \in Seq(Int)
      BY <2>2, AtPosition DEF ProtocolElements, PointsInv
    <3>2. Len(Element.tokens) \in Nat /\ token \in Nat \ {0}
      BY <3>1, LenProperties DEF CFTypeInv, CFTypeOK
    <3> QED BY <2>1, <3>2
  <2> QED BY <2>1, <2>2, <2>3 DEF IsFatal, IsWalking
<1>4. CASE BrokenAddress
  <2>1. pc = "address" /\ ~Element.address /\ GiveUp
    BY <1>4 DEF BrokenAddress
  <2>2. AtAnElement /\ Element.kind = "iec104" /\ Element.groups # "other"
    BY <2>1 DEF PointsInv, TokenInv, AtAnElement, InDatapoint
  <2> QED BY <2>1, <2>2 DEF IsFatal, IsWalking
<1> QED BY <1>1, <1>2, <1>3, <1>4

LEMMA FatalPoints ==
    CFTypeInv /\ PointsInv /\ (BrokenElement \/ MissingMember \/ BrokenGroup \/ BrokenAddress)
        => PointsInv'
  BY FatalElements, StopsAt, GivesUp DEF PointsInv

LEMMA GroupsNotStringPoints == CFTypeInv /\ PointsInv /\ GroupsNotString => PointsInv'
<1> SUFFICES ASSUME CFTypeInv, PointsInv, GroupsNotString PROVE PointsInv'
  OBVIOUS
<1>1. /\ AtAnElement /\ InDatapoint /\ Element.kind = "iec104" /\ Element.members
      /\ Element.groups = "other" /\ At("datapoint", datapoint + 1, 1)
  BY DEF GroupsNotString, AtElement, AtAnElement, InDatapoint
<1>2. EndsDatapoint(Element) /\ ~IsFatal(Element)
  BY <1>1 DEF EndsDatapoint, IsFatal
<1>3. ElementAt(Position) = Element
  BY <1>1, AtPosition DEF PointsInv
<1>4. ~Yields(Position) /\ ~IsFatal(ElementAt(Position))
  BY <1>2, <1>3 DEF Yields
<1>5. \A q \in Positions : IsHidden(q) => ~Yields(q)
  BY DEF Yields, IsReached
<1>6. ASSUME NEW q \in Positions, q[1] =< datapoint
      PROVE  IsBefore(q, Position) \/ q = Position \/ IsHidden(q)
  BY <1>1, <1>2, <1>6, EndsAt DEF PointsInv
<1> QED BY <1>1, <1>4, <1>5, <1>6, NextDatapointPoints

\* Goes on with the next element of the data point.
LEMMA NextElementWalk ==
    ASSUME CFTypeInv, PointsInv, AtAnElement, pc' = "element", datapoint' = datapoint,
           element' = element + 1, conf' = conf, ~IsFatal(Element), ~EndsDatapoint(Element)
    PROVE  WalkInv' /\ TokenInv'
<1>1. /\ conf.items /\ conf.exchange.ok
      /\ \A d \in 1 .. datapoint - 1 : Datapoints[d].ok
      /\ \A q \in Positions : IsBefore(q, Position) /\ IsFatal(ElementAt(q)) => IsHidden(q)
      /\ datapoint =< Len(Datapoints) /\ Datapoints[datapoint].ok
      /\ \A q \in Positions : q[1] = datapoint /\ q[2] < element => ~EndsDatapoint(ElementAt(q))
  BY DEF PointsInv, WalkInv, AtAnElement, InDatapoint, IsWalking
<1>2. ElementAt(Position) = Element
  BY AtPosition DEF PointsInv
<1>3. ASSUME NEW q \in Positions, IsBefore(q, <<datapoint, element + 1>>), IsFatal(ElementAt(q))
      PROVE  IsHidden(q)
  BY <1>1, <1>2, <1>3, NextInDatapoint
<1>4. ASSUME NEW q \in Positions, q[1] = datapoint, q[2] < element + 1
      PROVE  ~EndsDatapoint(ElementAt(q))
  <2>1. q[2] \in Nat /\ q = <<q[1], q[2]>>
    BY PositionTypes
  <2>2. q[2] < element \/ q = Position
    BY <1>4, <2>1, PositionIsNat DEF Position
  <2> QED BY <1>1, <1>2, <1>4, <2>2
<1>5. \A q : /\ IsFatal(ElementAt(q))' <=> IsFatal(ElementAt(q))
             /\ EndsDatapoint(ElementAt(q))' <=> EndsDatapoint(ElementAt(q))
  BY SameConf DEF IsFatal, EndsDatapoint
<1>6. Position' = <<datapoint, element + 1>>
  BY DEF Position
<1>7. /\ \A q \in Positions' : IsBefore(q, Position') /\ IsFatal(ElementAt(q))' => IsHidden(q)'
      /\ \A q \in Positions' : q[1] = datapoint' /\ q[2] < element' => ~EndsDatapoint(ElementAt(q))'
  BY <1>3, <1>4, <1>5, <1>6, SameConf
<1>8. Datapoints' = Datapoints
  BY SameConf
<1>9. WalkInv'
  BY <1>1, <1>7, <1>8 DEF WalkInv, IsWalking, InDatapoint
<1> QED BY <1>9 DEF TokenInv

LEMMA OtherProtocolPoints == CFTypeInv /\ PointsInv /\ OtherProtocol => PointsInv'
<1> SUFFICES ASSUME CFTypeInv, PointsInv, OtherProtocol PROVE PointsInv'
  OBVIOUS
<1>1. /\ pc = "element" /\ AtAnElement /\ Element.kind = "other"
      /\ pc' = "element" /\ datapoint' = datapoint /\ element' = element + 1
      /\ UNCHANGED <<conf, imported>>
  BY DEF OtherProtocol, AtElement, NextElement, At, AtAnElement, InDatapoint
<1>2. ~IsFatal(Element) /\ ~EndsDatapoint(Element)
  BY <1>1 DEF IsFatal, EndsDatapoint
<1>3. ~Yields(Position)
  BY <1>1, AtPosition DEF Yields, PointsInv
<1>4. ASSUME NEW p \in Positions, Yields(p) PROVE IsDone(p)' <=> IsDone(p)
  <2>1. IsBefore(p, Position') <=> IsBefore(p, Position)
    BY <1>1, <1>3, <1>4, NextInDatapoint DEF Position
  <2> QED BY <1>1, <2>1 DEF IsDone, IsImported
<1> QED BY <1>1, <1>2, <1>4, NextElementWalk, KeepsMap DEF PointsInv

-----------------------------------------------------------------------------
(* The groups of an element *)

\* The group that a token stands for, and those of the first tokens.
GroupOf(t) == IF t = Station THEN 0 ELSE t

GroupsBefore(tokens, n) == {GroupOf(tokens[k]) : k \in 1 .. n - 1}

\* What is known of the element whose groups are read.
LEMMA GroupsElement ==
    ASSUME CFTypeInv, PointsInv, pc = "token"
    PROVE  /\ AtAnElement /\ Element.kind = "iec104" /\ Element.members /\ Element.groups = "string"
           /\ Len(Element.tokens) \in Nat /\ token \in Nat \ {0} /\ token =< Len(Element.tokens) + 1
           /\ \A k \in 1 .. token - 1 : IsGroup(Element.tokens[k])
           /\ gi_groups = GroupsBefore(Element.tokens, token)
<1>1. /\ AtAnElement /\ Element.kind = "iec104" /\ Element.members /\ Element.groups = "string"
      /\ token =< Len(Element.tokens) + 1
      /\ \A k \in 1 .. token - 1 : IsGroup(Element.tokens[k])
      /\ gi_groups = GroupsBefore(Element.tokens, token)
  BY DEF PointsInv, TokenInv, AtAnElement, InDatapoint, GroupsBefore, GroupOf
<1>2. Element.tokens \in Seq(Int)
  BY <1>1, AtPosition DEF PointsInv, ProtocolElements
<1>3. Len(Element.tokens) \in Nat /\ token \in Nat \ {0}
  BY <1>2, LenProperties DEF CFTypeInv, CFTypeOK
<1> QED BY <1>1, <1>3

\* Reading groups leaves the position where it is.
LEMMA ReadingPoints ==
    ASSUME CFTypeInv, PointsInv, AtAnElement, InDatapoint', ~IsImported, TokenInv',
           UNCHANGED <<conf, datapoint, element, imported>>
    PROVE  PointsInv'
<1>1. /\ Position' = Position /\ Datapoints' = Datapoints /\ Positions' = Positions
      /\ \A p : /\ IsFatal(ElementAt(p))' <=> IsFatal(ElementAt(p))
                /\ EndsDatapoint(ElementAt(p))' <=> EndsDatapoint(ElementAt(p))
                /\ IsHidden(p)' <=> IsHidden(p)
  BY SameConf DEF Position, IsFatal, EndsDatapoint
<1>2. pc' \in {"element", "token", "address"} /\ pc \in {"element", "token", "address"}
  BY DEF InDatapoint, AtAnElement
<1>3. /\ conf.items /\ conf.exchange.ok
      /\ \A d \in 1 .. datapoint - 1 : Datapoints[d].ok
      /\ \A q \in Positions : IsBefore(q, Position) /\ IsFatal(ElementAt(q)) => IsHidden(q)
      /\ datapoint =< Len(Datapoints) /\ Datapoints[datapoint].ok
      /\ \A q \in Positions : q[1] = datapoint /\ q[2] < element => ~EndsDatapoint(ElementAt(q))
  BY <1>2 DEF PointsInv, WalkInv, AtAnElement, InDatapoint, IsWalking
<1>4. /\ \A q \in Positions' : IsBefore(q, Position') /\ IsFatal(ElementAt(q))' => IsHidden(q)'
      /\ \A q \in Positions' : q[1] = datapoint' /\ q[2] < element' => ~EndsDatapoint(ElementAt(q))'
  BY <1>1, <1>3
<1>5. WalkInv'
  BY <1>1, <1>2, <1>3, <1>4 DEF WalkInv, IsWalking, InDatapoint
<1>6. \A p : IsDone(p)' <=> IsDone(p)
  BY <1>1, <1>2 DEF IsDone, IsImported
<1> QED BY <1>5, <1>6, KeepsMap DEF PointsInv

LEMMA ReadsGroupsPoints == CFTypeInv /\ PointsInv /\ ReadsGroups => PointsInv'
<1> SUFFICES ASSUME CFTypeInv, PointsInv, ReadsGroups PROVE PointsInv'
  OBVIOUS
<1>1. UNCHANGED <<conf, datapoint, element, imported>> /\ Element' = Element
  BY DEF ReadsGroups, BeginGroups, ImportGroup, GroupOutOfRange, EndGroups, InGroups, Element, Datapoints
<1>2. UNCHANGED Datapoints
  BY <1>1, SameConf
<1>3. ListedGroups(Element)' = ListedGroups(Element) /\ (IsFatal(Element)' <=> IsFatal(Element))
  BY <1>1 DEF ListedGroups, IsFatal
<1>4. CASE BeginGroups
  <2>1. /\ pc = "element" /\ AtAnElement /\ Element.kind = "iec104" /\ Element.members
        /\ element =< Len(Datapoints[datapoint].protocols)
    BY <1>4 DEF BeginGroups, AtElement, AtAnElement, InDatapoint
  <2>2. CASE Element.groups = "absent"
    <3>1. pc' = "address" /\ gi_groups' = StationGroup
      BY <1>4, <2>2 DEF BeginGroups, InGroups
    <3>2. ListedGroups(Element) = StationGroup
      BY <2>2 DEF ListedGroups
    <3>3. IsFatal(Element) => ~Element.address
      BY <2>1, <2>2 DEF IsFatal
    <3>4. TokenInv'
      BY <1>1, <1>2, <1>3, <2>1, <2>2, <3>1, <3>2, <3>3 DEF TokenInv
    <3> QED BY <1>1, <2>1, <3>1, <3>4, ReadingPoints DEF InDatapoint, IsImported
  <2>3. CASE Element.groups = "string"
    <3>1. pc' = "token" /\ token' = 1 /\ gi_groups' = {}
      BY <1>4, <2>3 DEF BeginGroups, InGroups
    <3>2. 1 =< Len(Element.tokens) + 1
      <4>1. Element.tokens \in Seq(Int)
        BY <2>1, AtPosition DEF PointsInv, ProtocolElements
      <4> QED BY <4>1, LenProperties
    <3>3. TokenInv'
      BY <1>1, <1>2, <2>1, <2>3, <3>1, <3>2 DEF TokenInv
    <3> QED BY <1>1, <2>1, <3>1, <3>3, ReadingPoints DEF InDatapoint, IsImported
  <2> QED BY <1>4, <2>2, <2>3 DEF BeginGroups
<1>5. CASE ImportGroup
  <2> DEFINE t == Element.tokens[token]
  <2>1. /\ pc = "token" /\ token =< Len(Element.tokens) /\ IsGroup(t) /\ pc' = "token"
        /\ token' = token + 1
        /\ gi_groups' = gi_groups \union (IF t = Station THEN StationGroup ELSE {t})
    BY <1>5 DEF ImportGroup, AtToken, InGroups
  <2>2. gi_groups' = gi_groups \union {GroupOf(t)}
    BY <2>1 DEF GroupOf, StationGroup
  <2>3. GroupsBefore(Element.tokens, token + 1) = GroupsBefore(Element.tokens, token) \union {GroupOf(t)}
    <3>1. \A k : k \in 1 .. (token + 1) - 1 <=> k \in 1 .. token - 1 \/ k = token
      BY <2>1, GroupsElement
    <3> QED BY <3>1 DEF GroupsBefore
  <2>4. \A k \in 1 .. (token + 1) - 1 : IsGroup(Element.tokens[k])
    <3>1. \A k : k \in 1 .. (token + 1) - 1 => k \in 1 .. token - 1 \/ k = token
      BY <2>1, GroupsElement
    <3> QED BY <2>1, <3>1, GroupsElement
  <2>5. gi_groups' = GroupsBefore(Element'.tokens, token')
    BY <1>1, <2>1, <2>2, <2>3, GroupsElement
  <2>6. \A k \in 1 .. token' - 1 : IsGroup(Element'.tokens[k])
    BY <1>1, <2>1, <2>4
  <2>7. token' =< Len(Element'.tokens) + 1
    BY <1>1, <2>1, GroupsElement
  <2>8. TokenInv'
    <3>1. \A k : IsGroup(Element.tokens[k])' <=> IsGroup(Element'.tokens[k])
      BY DEF IsGroup
    <3>2. gi_groups' = {IF Element'.tokens[k] = Station THEN 0 ELSE Element'.tokens[k] : k \in 1 .. token' - 1}
      BY <2>5 DEF GroupsBefore, GroupOf
    <3>3. element =< Len(Datapoints[datapoint].protocols)
      BY <2>1, GroupsElement DEF AtAnElement
    <3> QED BY <1>1, <1>2, <2>1, <2>6, <2>7, <3>2, <3>3, GroupsElement DEF TokenInv, IsGroup
  <2> QED BY <1>1, <2>1, <2>8, GroupsElement, ReadingPoints DEF InDatapoint, IsImported
<1>6. CASE GroupOutOfRange
  <2>1. /\ pc = "token" /\ token =< Len(Element.tokens) /\ ~IsGroup(Element.tokens[token])
        /\ Element.tokens[token] # NoInt /\ pc' = "address" /\ gi_groups' = StationGroup
    BY <1>6 DEF GroupOutOfRange, AtToken, InGroups
  <2>2. token \in 1 .. Len(Element.tokens)
    BY <2>1, GroupsElement
  <2>3. ListedGroups(Element) = StationGroup
    BY <2>1, <2>2 DEF ListedGroups, IsGroup
  <2>4. IsFatal(Element) => ~Element.address
    <3>1. ASSUME NEW i \in 1 .. Len(Element.tokens), Element.tokens[i] = NoInt,
                 \A k \in 1 .. i - 1 : Element.tokens[k] \in {Station} \union (1 .. 16)
          PROVE  FALSE
      <4>1. CASE i < token
        <5>1. i \in 1 .. token - 1
          BY <4>1, <2>2, GroupsElement
        <5>2. IsGroup(Element.tokens[i])
          BY <2>1, <5>1, GroupsElement
        <5>3. ~IsGroup(NoInt)
          BY DEF IsGroup, NoInt, Station
        <5> QED BY <3>1, <5>2, <5>3
      <4>2. CASE i > token
        <5>1. token \in 1 .. i - 1
          BY <4>2, <2>2
        <5> QED BY <2>1, <3>1, <5>1 DEF IsGroup
      <4>3. CASE i = token
        BY <2>1, <3>1, <4>3
      <4> QED BY <2>2, <4>1, <4>2, <4>3
    <3> QED BY <2>1, <3>1, GroupsElement DEF IsFatal
  <2>5. TokenInv'
    BY <1>1, <1>2, <1>3, <2>1, <2>3, <2>4, GroupsElement DEF TokenInv, AtAnElement
  <2> QED BY <1>1, <2>1, <2>5, GroupsElement, ReadingPoints DEF InDatapoint, IsImported
<1>7. CASE EndGroups
  <2>1. /\ pc = "token" /\ token > Len(Element.tokens) /\ pc' = "address" /\ gi_groups' = gi_groups
    BY <1>7 DEF EndGroups, InGroups
  <2>2. token - 1 = Len(Element.tokens)
    BY <2>1, GroupsElement
  <2>3. \A i \in 1 .. Len(Element.tokens) : Element.tokens[i] \in {Station} \union (1 .. 16)
    BY <2>1, <2>2, GroupsElement DEF IsGroup
  <2>4. ListedGroups(Element) = GroupsBefore(Element.tokens, token)
    BY <2>1, <2>2, <2>3, GroupsElement DEF ListedGroups, GroupsBefore, GroupOf
  <2>5. IsFatal(Element) => ~Element.address
    <3>1. \A i \in 1 .. Len(Element.tokens) : Element.tokens[i] # NoInt
      BY <2>3 DEF NoInt, Station
    <3> QED BY <2>1, <3>1, GroupsElement DEF IsFatal
  <2>6. TokenInv'
    BY <1>1, <1>2, <1>3, <2>1, <2>4, <2>5, GroupsElement DEF TokenInv, AtAnElement
  <2> QED BY <1>1, <2>1, <2>6, GroupsElement, ReadingPoints DEF InDatapoint, IsImported
<1> QED BY <1>4, <1>5, <1>6, <1>7 DEF ReadsGroups

-----------------------------------------------------------------------------
(* A data point is added *)

\* The element that is taken for a data point, if its type is one of the tables.
LEMMA AddedElement ==
    ASSUME CFTypeInv, PointsInv, AddDataPoint
    PROVE  /\ AtAnElement /\ ~IsFatal(Element) /\ ~EndsDatapoint(Element)
           /\ gi_groups = ListedGroups(Element)
           /\ Position \in Positions /\ ElementAt(Position) = Element
           /\ Yields(Position) <=> Element.typeId \in CommandTypes \union MonitoringTypes
<1>1. /\ pc = "address" /\ AtAnElement /\ Element.address /\ Element.kind = "iec104"
      /\ Element.groups # "other" /\ (IsFatal(Element) => ~Element.address)
      /\ gi_groups = ListedGroups(Element)
  BY DEF AddDataPoint, PointsInv, TokenInv, AtAnElement, InDatapoint
<1>2. ~IsFatal(Element) /\ ~EndsDatapoint(Element)
  BY <1>1 DEF EndsDatapoint
<1>3. Position \in Positions /\ ElementAt(Position) = Element /\ ~IsHidden(Position)
  BY <1>1, AtPosition DEF PointsInv
<1>4. IsReached(Position)
  <2>1. /\ conf.items /\ conf.exchange.ok
        /\ \A d \in 1 .. datapoint - 1 : Datapoints[d].ok
        /\ \A q \in Positions : IsBefore(q, Position) /\ IsFatal(ElementAt(q)) => IsHidden(q)
        /\ Datapoints[datapoint].ok
    BY <1>1 DEF PointsInv, WalkInv, IsWalking, InDatapoint
  <2>2. \A d \in 1 .. datapoint : d \in 1 .. datapoint - 1 \/ d = datapoint
    BY PositionIsNat
  <2>3. Position[1] = datapoint
    BY DEF Position
  <2> QED BY <1>3, <2>1, <2>2, <2>3 DEF IsReached
<1> QED BY <1>1, <1>2, <1>3, <1>4 DEF Yields

\* The positions that are done after it.
LEMMA AddedPoints ==
    ASSUME CFTypeInv, PointsInv, AddDataPoint
    PROVE  /\ Points \subseteq Positions
           /\ \A p \in Points : IsBefore(p, Position)
           /\ \A p : p \in Points' <=> p \in Points \/ (p = Position /\ Yields(Position))
<1>1. /\ pc = "address" /\ pc' = "element" /\ datapoint' = datapoint /\ element' = element + 1
      /\ conf' = conf
  BY DEF AddDataPoint
<1>2. \A p \in Points : p \in Positions /\ IsBefore(p, Position)
  BY <1>1 DEF Points, IsDone, IsImported
<1>3. Position' = <<datapoint, element + 1>>
  BY <1>1 DEF Position
<1>4. \A p : p \in Points' <=> p \in Positions /\ Yields(p) /\ IsBefore(p, Position')
  BY <1>1, SameConf DEF Points, IsDone, IsImported
<1>5. \A p : p \in Points <=> p \in Positions /\ Yields(p) /\ IsBefore(p, Position)
  BY <1>1 DEF Points, IsDone, IsImported
<1>6. \A p \in Positions : IsBefore(p, Position') <=> IsBefore(p, Position) \/ p = Position
  BY <1>3, NextInDatapoint
<1> QED BY <1>2, <1>4, <1>5, <1>6, AddedElement

LEMMA AddDataPointPoints == CFTypeInv /\ PointsInv /\ AddDataPoint => PointsInv'
<1> SUFFICES ASSUME CFTypeInv, PointsInv, AddDataPoint PROVE PointsInv'
  OBVIOUS
<1>1. /\ pc' = "element" /\ datapoint' = datapoint /\ element' = element + 1 /\ conf' = conf
  BY DEF AddDataPoint
<1>2. WalkInv' /\ TokenInv'
  BY <1>1, AddedElement, NextElementWalk
<1>3. MapInv'
  <2>1. CASE Element.typeId \in CommandTypes \union MonitoringTypes
    <3> DEFINE a == <<Element.ca, Element.ioa>>
               r == PointOf(Element)
    <3>1. Address(Position) = a /\ Yields(Position)
      BY <2>1, AddedElement DEF Address
    <3>2. imported' = [b \in DOMAIN imported \union {a} |-> IF b = a THEN r ELSE imported[b]]
      BY <2>1, AddedElement DEF AddDataPoint, Imported, PointOf, isSupportedCommandType, isSupportedMonitoringType
    <3> HIDE DEF a, r
    <3>3. /\ DOMAIN imported' = DOMAIN imported \union {a}
          /\ imported'[a] = r
          /\ \A b \in DOMAIN imported : b # a => imported'[b] = imported[b]
      BY <3>2
    <3>4. \A p : Address(p)' = Address(p) /\ ElementAt(p)' = ElementAt(p)
      BY <1>1, SameConf
    <3>5. \A p : p \in Points' <=> p \in Points \/ p = Position
      BY <3>1, AddedPoints
    <3>6. DOMAIN imported = {Address(p) : p \in Points}
      BY DEF PointsInv, MapInv
    <3>7. DOMAIN imported' = {Address(p)' : p \in Points'}
      BY <3>1, <3>3, <3>4, <3>5, <3>6
    <3>8. ASSUME NEW p \in Points' PROVE IsReplaced(p)' \/ imported'[Address(p)'] = PointOf(ElementAt(p)')
      <4>1. CASE p = Position
        BY <4>1, <3>1, <3>3, <3>4, AddedElement DEF r
      <4>2. CASE p # Position /\ Address(p) = a
        <5>1. Position \in Points' /\ IsBefore(p, Position)
          BY <4>2, <3>5, AddedPoints
        <5> QED BY <4>2, <5>1, <3>1, <3>4 DEF IsReplaced
      <4>3. CASE p # Position /\ Address(p) # a /\ IsReplaced(p)
        <5>1. PICK q \in Points : Address(q) = Address(p) /\ IsBefore(p, q)
          BY <4>3 DEF IsReplaced
        <5> QED BY <5>1, <3>4, <3>5 DEF IsReplaced
      <4>4. CASE p # Position /\ Address(p) # a /\ ~IsReplaced(p)
        <5>1. p \in Points /\ Address(p) \in DOMAIN imported
          BY <4>4, <3>5, <3>6
        <5>2. imported[Address(p)] = PointOf(ElementAt(p))
          BY <4>4, <5>1 DEF PointsInv, MapInv
        <5> QED BY <4>4, <5>1, <5>2, <3>3, <3>4
      <4> QED BY <4>1, <4>2, <4>3, <4>4
    <3>9. \A p : PointOf(ElementAt(p))' = PointOf(ElementAt(p)')
      BY DEF PointOf, ListedGroups, typeIdToDataType, isSupportedCommandType
    <3> QED BY <3>7, <3>8, <3>9 DEF MapInv
  <2>2. CASE Element.typeId \notin CommandTypes \union MonitoringTypes
    <3>1. imported' = imported
      BY <2>2 DEF AddDataPoint, isSupportedCommandType, isSupportedMonitoringType
    <3>2. ~Yields(Position)
      BY <2>2, AddedElement
    <3>3. \A p \in Positions : Yields(p) => (IsDone(p)' <=> IsDone(p))
      BY <1>1, <3>2, NextInDatapoint DEF IsDone, IsImported, Position, AddDataPoint
    <3> QED BY <1>1, <3>1, <3>3, KeepsMap DEF PointsInv
  <2> QED BY <2>1, <2>2
<1> QED BY <1>2, <1>3 DEF PointsInv

-----------------------------------------------------------------------------
(* What is imported *)

LEMMA InitPoints == CFTypeInv /\ CFInit => PointsInv
<1> SUFFICES ASSUME CFTypeInv, CFInit PROVE PointsInv
  OBVIOUS
<1>1. pc = "configure" /\ datapoint = 1 /\ element = 1 /\ DOMAIN imported = {}
  BY DEF CFInit
<1>2. WalkInv /\ TokenInv
  BY <1>1 DEF WalkInv, TokenInv, IsWalking, InDatapoint
<1>3. Points = {}
  BY <1>1, PositionTypes DEF Points, IsDone, IsImported, IsBefore, Position
<1> QED BY <1>1, <1>2, <1>3 DEF PointsInv, MapInv

LEMMA NextPoints == CFTypeInv /\ PointsInv /\ [CFNext]_cfVars => PointsInv'
<1> SUFFICES ASSUME CFTypeInv, PointsInv, [CFNext]_cfVars PROVE PointsInv'
  OBVIOUS
<1>1. CASE Configure \/ importExchangeConfig
  BY <1>1, BeginExchange, ImportDatapointPoints, EndDatapointPoints, EndDatapointsPoints, FatalPoints,
     OtherProtocolPoints, GroupsNotStringPoints, ReadsGroupsPoints, AddDataPointPoints
     DEF importExchangeConfig, ReadsGroups
<1>2. CASE importProtocolConfig \/ importTlsConfig \/ createSlave \/ UNCHANGED cfVars
  <2>1. CASE UNCHANGED cfVars
    <3>1. UNCHANGED <<conf, pc, exchangeVars>>
      BY <2>1 DEF cfVars
    <3>2. /\ UNCHANGED <<conf, pc, datapoint, element, token, gi_groups, imported>>
          /\ Position' = Position /\ Element' = Element /\ IsWalking' = IsWalking
          /\ InDatapoint' = InDatapoint /\ IsImported' = IsImported
      BY <3>1 DEF exchangeVars, Position, Element, Datapoints, IsWalking, InDatapoint, IsImported
    <3>3. \A p : /\ IsFatal(ElementAt(p))' <=> IsFatal(ElementAt(p))
                 /\ EndsDatapoint(ElementAt(p))' <=> EndsDatapoint(ElementAt(p))
      BY <3>2, SameConf DEF IsFatal, EndsDatapoint
    <3>4. WalkInv'
      BY <3>2, <3>3, SameConf DEF PointsInv, WalkInv
    <3>5. TokenInv'
      BY <3>2, SameConf DEF PointsInv, TokenInv, ListedGroups, IsFatal, IsGroup
    <3>6. \A p : IsDone(p)' <=> IsDone(p)
      BY <3>2 DEF IsDone
    <3> QED BY <3>2, <3>4, <3>5, <3>6, KeepsMap DEF PointsInv
  <2>2. CASE ~UNCHANGED cfVars
    <3>1. /\ UNCHANGED <<conf, imported>> /\ IsImported /\ IsImported' /\ pc # "ready"
          /\ pc' \notin {"configure", "exchange"} /\ ~IsWalking' /\ ~InDatapoint'
      BY <1>2, <2>2 DEF importProtocolConfig, BeginStack, IgnoreGroup, MakeGroup,
         importRedundancyGroupConnections, AddGroup, ImportParameters, importTlsConfig, createSlave,
         InStack, exchangeVars, IsImported, IsWalking, InDatapoint
    <3>2. WalkInv' /\ TokenInv'
      BY <3>1 DEF PointsInv, WalkInv, TokenInv, IsWalking, InDatapoint, IsImported
    <3>3. \A p : IsDone(p)' <=> IsDone(p)
      BY <3>1 DEF IsDone
    <3> QED BY <3>1, <3>2, <3>3, KeepsMap DEF PointsInv
  <2> QED BY <2>1, <2>2
<1> QED BY <1>1, <1>2 DEF CFNext, setJsonConfig

LEMMA PointsHold == CFSpec => [](CFTypeInv /\ PointsInv)
<1>1. CFInit => CFTypeInv /\ PointsInv
  BY InitCFTypes, InitPoints
<1>2. CFTypeInv /\ PointsInv /\ [CFNext]_cfVars => (CFTypeInv /\ PointsInv)'
  BY NextCFTypes, NextPoints
<1> QED BY <1>1, <1>2, PTL DEF CFSpec

\* The tables agree on every type that can be imported.
Fits(typeId) ==
    LET type == typeIdToDataType(typeId)
        command == isSupportedCommandType(typeId)
    IN  \/ isMatchingCommand(type, command, typeId)
        \/ ~command /\ isMessageTypeMatching(type, typeId)
        \/ typeId \in CP24Types

LEMMA TablesAgree == \A typeId \in CommandTypes \union MonitoringTypes : Fits(typeId)
<1> SUFFICES ASSUME NEW typeId \in CommandTypes \union MonitoringTypes PROVE Fits(typeId)
  OBVIOUS
<1>1. /\ isSupportedCommandType(typeId) <=> typeId \in CommandTypes
      /\ Fits(typeId) <=> \/ /\ typeId \in CommandTypes
                             /\ typeId \in ObjectCommands[typeIdToDataType(typeId)]
                          \/ /\ typeId \notin CommandTypes
                             /\ typeId \in ReadingTypes[typeIdToDataType(typeId)]
                          \/ typeId \in CP24Types
  BY Zenon DEF Fits, isSupportedCommandType, isMatchingCommand, isMessageTypeMatching
<1>2. CASE typeId \in {"M_SP_NA_1", "M_SP_TA_1", "M_SP_TB_1", "C_SC_NA_1", "C_SC_TA_1"}
  <2>1. typeIdToDataType(typeId) = "SP"
    BY <1>2 DEF typeIdToDataType
  <2>2. ObjectCommands["SP"] = {"C_SC_NA_1", "C_SC_TA_1"} /\ ReadingTypes["SP"] = {"M_SP_NA_1", "M_SP_TB_1"}
    BY DEF ObjectCommands, ReadingTypes
  <2> QED BY <1>1, <1>2, <2>1, <2>2 DEF CommandTypes, CP24Types
<1>3. CASE typeId \in {"M_DP_NA_1", "M_DP_TA_1", "M_DP_TB_1", "C_DC_NA_1", "C_DC_TA_1"}
  <2>1. typeIdToDataType(typeId) = "DP"
    BY <1>3 DEF typeIdToDataType
  <2>2. ObjectCommands["DP"] = {"C_DC_NA_1", "C_DC_TA_1"} /\ ReadingTypes["DP"] = {"M_DP_NA_1", "M_DP_TB_1"}
    BY DEF ObjectCommands, ReadingTypes
  <2> QED BY <1>1, <1>3, <2>1, <2>2 DEF CommandTypes, CP24Types
<1>4. CASE typeId \in {"M_ST_NA_1", "M_ST_TA_1", "M_ST_TB_1", "C_RC_NA_1", "C_RC_TA_1"}
  <2>1. typeIdToDataType(typeId) = "STEP_POS"
    BY <1>4 DEF typeIdToDataType
  <2>2. ObjectCommands["STEP_POS"] = {"C_RC_NA_1", "C_RC_TA_1"} /\ ReadingTypes["STEP_POS"] = {"M_ST_NA_1", "M_ST_TB_1"}
    BY DEF ObjectCommands, ReadingTypes
  <2> QED BY <1>1, <1>4, <2>1, <2>2 DEF CommandTypes, CP24Types
<1>5. CASE typeId \in {"M_ME_NA_1", "M_ME_TA_1", "M_ME_TD_1", "C_SE_NA_1", "C_SE_TA_1"}
  <2>1. typeIdToDataType(typeId) = "NORMALIZED"
    BY <1>5 DEF typeIdToDataType
  <2>2. ObjectCommands["NORMALIZED"] = {"C_SE_NA_1", "C_SE_TA_1"} /\ ReadingTypes["NORMALIZED"] = {"M_ME_NA_1", "M_ME_TD_1"}
    BY DEF ObjectCommands, ReadingTypes
  <2> QED BY <1>1, <1>5, <2>1, <2>2 DEF CommandTypes, CP24Types
<1>6. CASE typeId \in {"M_ME_NB_1", "M_ME_TB_1", "M_ME_TE_1", "C_SE_NB_1", "C_SE_TB_1"}
  <2>1. typeIdToDataType(typeId) = "SCALED"
    BY <1>6 DEF typeIdToDataType
  <2>2. ObjectCommands["SCALED"] = {"C_SE_NB_1", "C_SE_TB_1"} /\ ReadingTypes["SCALED"] = {"M_ME_NB_1", "M_ME_TE_1"}
    BY DEF ObjectCommands, ReadingTypes
  <2> QED BY <1>1, <1>6, <2>1, <2>2 DEF CommandTypes, CP24Types
<1>7. CASE typeId \in {"M_ME_NC_1", "M_ME_TC_1", "M_ME_TF_1", "C_SE_NC_1", "C_SE_TC_1"}
  <2>1. typeIdToDataType(typeId) = "SHORT"
    BY <1>7 DEF typeIdToDataType
  <2>2. ObjectCommands["SHORT"] = {"C_SE_NC_1", "C_SE_TC_1"} /\ ReadingTypes["SHORT"] = {"M_ME_NC_1", "M_ME_TF_1"}
    BY DEF ObjectCommands, ReadingTypes
  <2> QED BY <1>1, <1>7, <2>1, <2>2 DEF CommandTypes, CP24Types
<1> QED BY <1>2, <1>3, <1>4, <1>5, <1>6, <1>7 DEF CommandTypes, MonitoringTypes

\* When everything is imported, all that yields a data point is done.
LEMMA AllDone ==
    ASSUME IsImported
    PROVE  Points = {p \in Positions : Yields(p)}
  BY DEF Points, IsDone

\* Whatever the configuration says, the server has just the data points of the
\* elements that come before the first one that the import gives up at, each in
\* the groups that the last element for its address lists.
THEOREM PointsComeAsConfigured == CFSpec => []ImportedAsConfigured
<1>1. CFTypeInv /\ PointsInv => ImportedAsConfigured
  <2> SUFFICES ASSUME PointsInv, IsImported PROVE ImportedAsConfigured
    BY DEF ImportedAsConfigured
  <2> DEFINE points == {p \in Positions : Yields(p)}
             address(p) == <<ElementAt(p).ca, ElementAt(p).ioa>>
  <2>1. Points = points
    BY AllDone
  <2>2. DOMAIN imported = {address(p) : p \in points}
    BY <2>1 DEF PointsInv, MapInv, Address
  <2>3. ASSUME NEW p \in points
        PROVE  \/ \E q \in points : address(q) = address(p) /\ IsBefore(p, q)
               \/ imported[address(p)].groups = ListedGroups(ElementAt(p))
    <3>1. IsReplaced(p) \/ imported[address(p)] = PointOf(ElementAt(p))
      BY <2>1 DEF PointsInv, MapInv, Address
    <3>2. IsReplaced(p) => \E q \in points : address(q) = address(p) /\ IsBefore(p, q)
      BY <2>1 DEF IsReplaced, Address
    <3> QED BY <3>1, <3>2 DEF PointOf
  <2> QED BY <2>2, <2>3 DEF ImportedAsConfigured
<1> QED BY <1>1, PointsHold, PTL

\* Whatever type an element gives, the data point that the server has for it
\* takes commands, or readings, of just this type; all but the six types with a
\* CP24Time2a, which can be configured but are matched by no reading.
THEOREM ImportedPointsAreUsable == CFSpec => []PointsAreUsable
<1>1. CFTypeInv /\ PointsInv => PointsAreUsable
  <2> SUFFICES ASSUME PointsInv, IsImported, NEW p \in Positions, Yields(p)
               PROVE  LET e == ElementAt(p)
                          d == imported[<<e.ca, e.ioa>>]
                      IN  \/ \E q \in Positions : /\ Yields(q) /\ IsBefore(p, q)
                                                  /\ ElementAt(q).ca = e.ca /\ ElementAt(q).ioa = e.ioa
                          \/ isMatchingCommand(d.type, d.command, e.typeId)
                          \/ ~d.command /\ isMessageTypeMatching(d.type, e.typeId)
                          \/ e.typeId \in CP24Types
    BY DEF PointsAreUsable
  <2> DEFINE e == ElementAt(p)
             d == imported[<<e.ca, e.ioa>>]
  <2>1. p \in Points
    BY AllDone
  <2>2. Fits(e.typeId)
    BY TablesAgree DEF Yields
  <2>3. CASE IsReplaced(p)
    <3>1. PICK q \in Points : Address(q) = Address(p) /\ IsBefore(p, q)
      BY <2>3 DEF IsReplaced
    <3>2. q \in Positions /\ Yields(q) /\ ElementAt(q).ca = e.ca /\ ElementAt(q).ioa = e.ioa
      BY <3>1 DEF Points, Address
    <3> QED BY <3>1, <3>2
  <2>4. CASE ~IsReplaced(p)
    <3>1. d = PointOf(e)
      BY <2>1, <2>4 DEF PointsInv, MapInv, Address
    <3>2. d.type = typeIdToDataType(e.typeId) /\ d.command = isSupportedCommandType(e.typeId)
      BY <3>1 DEF PointOf
    <3> HIDE DEF d, e
    <3>3. \/ isMatchingCommand(d.type, d.command, e.typeId)
          \/ ~d.command /\ isMessageTypeMatching(d.type, e.typeId)
          \/ e.typeId \in CP24Types
      BY <2>2, <3>2 DEF Fits
    <3> QED BY <3>3 DEF d, e
  <2> QED BY <2>3, <2>4
<1> QED BY <1>1, PointsHold, PTL
=============================================================================
