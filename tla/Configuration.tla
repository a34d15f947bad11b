---------------------------- MODULE Configuration ----------------------------
(***************************************************************************)
(* How configure and setJsonConfig make a server from its configuration:   *)
(* importExchangeConfig walks the data points element by element and the   *)
(* groups of an element token by token, importProtocolConfig takes the     *)
(* redundancy groups client by client, the parameters and the originators, *)
(* importTlsConfig the names of the certificates, which                    *)
(* createTLSConfiguration loads.                                           *)
(*                                                                         *)
(* A JSON text is a record of what the code asks of it; "ok" says that     *)
(* what the code goes on from is there and of the right kind.  The server  *)
(* runs on whatever was imported when an import gives up:                  *)
(* m_exchangeConfigComplete and m_protocolConfigComplete are never read.   *)
(***************************************************************************)
EXTENDS DataPointTypes, Integers, Sequences

CONSTANT
    Configurations  \* [items, exchange, stack, tls]: are there protocol_stack and
                    \* exchanged_data, and the three JSON texts

\* An element of the protocols of a data point, and a redundancy group.
ProtocolElements ==
    [kind : {"broken", "other", "iec104"}, members : BOOLEAN, groups : {"absent", "string", "other"},
     tokens : Seq(Int), address : BOOLEAN, ca : Int, ioa : Int, typeId : TypeIds]

GroupElements == [ok : BOOLEAN, connections : Seq([ok : BOOLEAN, clt_ip : STRING])]

ASSUME ConfigurationAssumption ==
    \A c \in Configurations :
        /\ c.exchange.datapoints \in Seq([ok : BOOLEAN, protocols : Seq(ProtocolElements)])
        /\ \A name \in DOMAIN c.stack.json : c.stack.json[name] \in Int
        /\ c.stack.groups \in Seq(GroupElements)
        /\ c.stack.filter_list \subseteq Int
        /\ c.stack.transport \in BOOLEAN /\ c.stack.application \in BOOLEAN /\ c.stack.tls \in BOOLEAN
        /\ c.tls.own_cert \in BOOLEAN /\ c.tls.private_key \in BOOLEAN

VARIABLES
    conf,         \* the configuration
    pc,           \* where configure stands
    datapoint,    \* the data point, ...
    element,      \* ... the element of its protocols and ...
    token,        \* ... the token of its gi_groups that come next
    gi_groups,    \* gi_groups of the element, as a set
    imported,     \* m_exchangeDefinitions, by <<ca, ioa>>
    group,        \* the redundancy group and ...
    connection,   \* ... the connection of it that come next
    redGroup,     \* redundancyGroup, the group that is made
    groups,       \* m_redundancyGroups
    params,       \* the integers of the protocol stack
    originators,  \* m_allowedOriginators, empty as long as m_filterOriginators is FALSE
    south,        \* m_mode and m_monitoredSouthPlugins
    useTls,       \* m_useTls
    certs,        \* m_ownCertificate, m_privateKey, and the two lists
    slave         \* m_slave

exchangeVars == <<datapoint, element, token, gi_groups, imported>>

groupVars == <<group, connection, redGroup, groups>>

stackVars == <<groupVars, params, originators, south, useTls>>

tlsVars == <<certs, slave>>

cfVars == <<conf, pc, exchangeVars, stackVars, tlsVars>>

-----------------------------------------------------------------------------

\* configure: without tls_conf it goes on with an empty text.
Configure ==
    /\ pc = "configure"
    /\ pc' = IF conf.items THEN "exchange" ELSE "ready"
    /\ UNCHANGED <<conf, exchangeVars, stackVars, tlsVars>>

-----------------------------------------------------------------------------
(* importExchangeConfig *)

Datapoints == conf.exchange.datapoints

Element == Datapoints[datapoint].protocols[element]

\* Goes on at an element of a data point.
At(next, d, e) ==
    /\ pc' = next /\ datapoint' = d /\ element' = e
    /\ UNCHANGED <<conf, token, gi_groups, imported, stackVars, tlsVars>>

\* A return: what comes later is not imported.
GiveUp == At("stack", datapoint, element)

NextElement == At("element", datapoint, element + 1)

ImportExchangeConfig ==
    /\ pc = "exchange"
    /\ IF conf.exchange.ok THEN At("datapoint", 1, 1) ELSE GiveUp

\* The object, its label and its protocols.
ImportDatapoint ==
    /\ pc = "datapoint"
    /\ datapoint =< Len(Datapoints)
    /\ IF Datapoints[datapoint].ok THEN At("element", datapoint, 1) ELSE GiveUp

EndDatapoint ==
    /\ pc = "element"
    /\ element > Len(Datapoints[datapoint].protocols)
    /\ At("datapoint", datapoint + 1, 1)

\* m_exchangeConfigComplete is set.
EndDatapoints ==
    /\ pc = "datapoint"
    /\ datapoint > Len(Datapoints)
    /\ GiveUp

AtElement(kind) ==
    /\ pc = "element"
    /\ element =< Len(Datapoints[datapoint].protocols)
    /\ Element.kind = kind

\* An element that is no object or has no name.
BrokenElement == AtElement("broken") /\ GiveUp

OtherProtocol == AtElement("other") /\ NextElement

MissingMember == AtElement("iec104") /\ ~Element.members /\ GiveUp

\* gi_groups is not a string: the break leaves the loop over the protocols.
GroupsNotString ==
    /\ AtElement("iec104")
    /\ Element.members
    /\ Element.groups = "other"
    /\ At("datapoint", datapoint + 1, 1)

\* The tokens of gi_groups: a number is itself, the others are
Station == -1      \* "station",
Word == -2         \* neither digits nor "station",
NoInt == -3        \* digits that std::stoi refuses: none at all, or too many.

IsGroup(t) == t = Station \/ t \in 1 .. 16

\* Bit 0 of gi_groups is the station interrogation.
StationGroup == {0}

\* Goes on in gi_groups.
InGroups(next, i, gs) ==
    /\ pc' = next /\ token' = i /\ gi_groups' = gs
    /\ UNCHANGED <<conf, datapoint, element, imported, stackVars, tlsVars>>

\* gi_groups is absent: the station's group; or a string.
BeginGroups ==
    /\ AtElement("iec104")
    /\ Element.members
    /\ \/ Element.groups = "absent" /\ InGroups("address", 1, StationGroup)
       \/ Element.groups = "string" /\ InGroups("token", 1, {})

AtToken ==
    /\ pc = "token"
    /\ token =< Len(Element.tokens)

\* One round of the loop over the tokens.
ImportGroup ==
    /\ AtToken
    /\ IsGroup(Element.tokens[token])
    /\ InGroups("token", token + 1, gi_groups \union
          (IF Element.tokens[token] = Station THEN StationGroup ELSE {Element.tokens[token]}))

BrokenGroup ==
    /\ AtToken
    /\ Element.tokens[token] = NoInt
    /\ GiveUp

\* Mistake: a group out of range is skipped.
GroupOutOfRangeSkipped ==
    /\ AtToken
    /\ ~IsGroup(Element.tokens[token]) /\ Element.tokens[token] # NoInt
    /\ InGroups("token", token + 1, gi_groups)

\* A number out of range or a word: only the station's group.
GroupOutOfRange ==
    /\ AtToken
    /\ ~IsGroup(Element.tokens[token]) /\ Element.tokens[token] # NoInt
    /\ InGroups("address", token, StationGroup)

EndGroups ==
    /\ pc = "token"
    /\ token > Len(Element.tokens)
    /\ InGroups("address", token, gi_groups)

BrokenAddress == pc = "address" /\ ~Element.address /\ GiveUp

\* A later element for the same address replaces the data point.
Imported(e) ==
    [a \in DOMAIN imported \union {<<e.ca, e.ioa>>} |->
        IF a = <<e.ca, e.ioa>>
          THEN [type |-> typeIdToDataType(e.typeId),
                command |-> isSupportedCommandType(e.typeId),
                groups |-> gi_groups]
          ELSE imported[a]]

AddDataPoint ==
    /\ pc = "address"
    /\ Element.address
    /\ imported' = IF isSupportedCommandType(Element.typeId)
                        \/ isSupportedMonitoringType(Element.typeId)
                     THEN Imported(Element) ELSE imported
    /\ pc' = "element" /\ element' = element + 1
    /\ UNCHANGED <<conf, datapoint, token, gi_groups, stackVars, tlsVars>>

importExchangeConfig ==
    \/ ImportExchangeConfig \/ ImportDatapoint \/ EndDatapoint \/ EndDatapoints
    \/ BrokenElement \/ OtherProtocol \/ MissingMember \/ GroupsNotString
    \/ BeginGroups \/ ImportGroup \/ BrokenGroup \/ GroupOutOfRange \/ EndGroups
    \/ BrokenAddress \/ AddDataPoint

-----------------------------------------------------------------------------
(* importProtocolConfig *)

Defaults ==
    [port |-> 2404, k_value |-> 12, w_value |-> 8, t0_timeout |-> 30, t1_timeout |-> 15,
     t2_timeout |-> 10, t3_timeout |-> 20, ca_asdu_size |-> 2, ioaddr_size |-> 3,
     asdu_size |-> 0, asdu_queue_size |-> 100, accept_cmd_with_time |-> 1,
     cmd_recv_timeout |-> 0, cmd_exec_timeout |-> 20]

\* Mistake: the limits of k and w are not excluded.
AcceptsLimits(name, v) ==
    CASE name = "port" -> v > 0 /\ v < 65536
      [] name \in {"k_value", "w_value"} -> v >= 0 /\ v =< 32768
      [] name \in {"t0_timeout", "t1_timeout", "t2_timeout"} -> v > 0 /\ v < 256
      [] name \in {"t3_timeout", "cmd_recv_timeout", "cmd_exec_timeout"} -> v >= 0
      [] name = "ca_asdu_size" -> v > 0 /\ v < 3
      [] name = "ioaddr_size" -> v > 0 /\ v < 4
      [] name = "asdu_size" -> v = 0 \/ (v > 10 /\ v < 254)
      [] name = "asdu_queue_size" -> v > 0
      [] name = "accept_cmd_with_time" -> v > -1 /\ v < 3

Accepts(name, v) ==
    CASE name = "port" -> v > 0 /\ v < 65536
      [] name \in {"k_value", "w_value"} -> v > 0 /\ v < 32768
      [] name \in {"t0_timeout", "t1_timeout", "t2_timeout"} -> v > 0 /\ v < 256
      [] name \in {"t3_timeout", "cmd_recv_timeout", "cmd_exec_timeout"} -> v > -1
      [] name = "ca_asdu_size" -> v > 0 /\ v < 3
      [] name = "ioaddr_size" -> v > 0 /\ v < 4
      [] name = "asdu_size" -> v = 0 \/ (v > 10 /\ v < 254)
      [] name = "asdu_queue_size" -> v > 0
      [] name = "accept_cmd_with_time" -> v > -1 /\ v < 3

\* A member that is missing or no integer is not in json.
Params(json) ==
    [name \in DOMAIN Defaults |->
        IF name \in DOMAIN json /\ Accepts(name, json[name]) THEN json[name] ELSE Defaults[name]]

\* The originators of filter_list; filter_orig is not looked at.
Originators(filterList) == {oa \in filterList : oa >= 0 /\ oa < 256}

IsOriginatorAllowed(oa) == originators # {} => oa \in originators

\* An unknown mode is the default; a monitoring without asset is ignored.
Monitored(list) ==
    LET valid(m) == m.ok
        named == SelectSeq(list, valid)
    IN  [i \in 1 .. Len(named) |-> named[i].asset]

South(stack) ==
    [mode |-> IF stack.mode = "accept_if_south_connx_started" THEN stack.mode ELSE "accept_always",
     monitored |-> Monitored(stack.south_monitoring)]

\* The two layers, without which nothing of the protocol stack is read.
HasLayers == conf.stack.transport /\ conf.stack.application

\* When a layer is missing the defaults stay: no group, any originator, no TLS.
BeginStack ==
    /\ pc = "stack"
    /\ pc' = IF HasLayers THEN "group" ELSE "tls"
    /\ UNCHANGED <<conf, exchangeVars, stackVars, tlsVars>>

RedundancyGroup == conf.stack.groups[group]

\* Goes on in the groups.
InStack(next, g, c, red, gs) ==
    /\ pc' = next /\ group' = g /\ connection' = c /\ redGroup' = red /\ groups' = gs
    /\ UNCHANGED <<conf, exchangeVars, params, originators, south, useTls, tlsVars>>

\* A group without valid name is ignored.
IgnoreGroup ==
    /\ pc = "group"
    /\ group =< Len(conf.stack.groups)
    /\ ~RedundancyGroup.ok
    /\ InStack("group", group + 1, connection, redGroup, groups)

\* Mistake: an ignored group keeps its number.
NewIndexByPosition == group - 1

\* m_index of the next group: m_redundancyGroups.size().
NewIndex == Len(groups)

MakeGroup ==
    /\ pc = "group"
    /\ group =< Len(conf.stack.groups)
    /\ RedundancyGroup.ok
    /\ InStack("connection", group, 1, [index |-> NewIndex, clients |-> <<>>], groups)

\* A client without valid address is ignored.
importRedundancyGroupConnections ==
    /\ pc = "connection"
    /\ connection =< Len(RedundancyGroup.connections)
    /\ LET c == RedundancyGroup.connections[connection]
       IN  InStack("connection", group, connection + 1,
                   IF c.ok THEN [redGroup EXCEPT !.clients = Append(@, c.clt_ip)] ELSE redGroup,
                   groups)

AddGroup ==
    /\ pc = "connection"
    /\ connection > Len(RedundancyGroup.connections)
    /\ InStack("group", group + 1, connection, redGroup, Append(groups, redGroup))

\* The rest of the transport layer, the application layer and the monitoring.
ImportParameters ==
    /\ pc = "group"
    /\ group > Len(conf.stack.groups)
    /\ pc' = "tls"
    /\ params' = Params(conf.stack.json)
    /\ originators' = Originators(conf.stack.filter_list)
    /\ south' = South(conf.stack)
    /\ useTls' = conf.stack.tls
    /\ UNCHANGED <<conf, exchangeVars, groupVars, tlsVars>>

importProtocolConfig ==
    \/ BeginStack \/ IgnoreGroup \/ MakeGroup \/ importRedundancyGroupConnections \/ AddGroup
    \/ ImportParameters

AllowCmdWithTime == params["accept_cmd_with_time"] \in {1, 2}

AllowCmdWithoutTime == params["accept_cmd_with_time"] \in {0, 2}

-----------------------------------------------------------------------------
(* importTlsConfig *)

NoCerts == [own_cert |-> FALSE, private_key |-> FALSE, remote_certs |-> <<>>, ca_certs |-> <<>>]

\* The elements of a list of certificates that name a file.
Named(list) == LET valid(c) == c.ok IN SelectSeq(list, valid)

importTlsConfig ==
    /\ pc = "tls"
    /\ pc' = "slave"
    /\ certs' = IF conf.tls.ok
                  THEN [own_cert |-> conf.tls.own_cert, private_key |-> conf.tls.private_key,
                        remote_certs |-> Named(conf.tls.remote_certs),
                        ca_certs |-> Named(conf.tls.ca_certs)]
                  ELSE certs
    /\ UNCHANGED <<conf, exchangeVars, stackVars, slave>>

-----------------------------------------------------------------------------
(* The slave *)

Loaded(list) == LET valid(c) == c.loaded IN SelectSeq(list, valid)

\* What lib60870 accepts: the certificates that were loaded and, if all that
\* are configured were not, none.
TLSConfiguration ==
    [onlyKnown |-> certs.remote_certs # <<>>, known |-> Loaded(certs.remote_certs),
     chain |-> certs.ca_certs # <<>>, authorities |-> Loaded(certs.ca_certs)]

\* Without TLS everybody is accepted.
Open == [onlyKnown |-> FALSE, known |-> <<>>, chain |-> FALSE, authorities |-> <<>>]

NoSlave == [kind |-> "none", tls |-> Open, multipleGroups |-> FALSE]

Slave(kind, tls) == [kind |-> kind, tls |-> tls, multipleGroups |-> groups # <<>>]

\* Is there a certificate, and a key, of the server that can be read and loaded?
CanBeSecure == certs.own_cert /\ certs.private_key

\* Mistake: without certificate the server does without TLS.
CreatedOrPlain ==
    IF useTls /\ CanBeSecure THEN Slave("secure", TLSConfiguration) ELSE Slave("plain", Open)

Created ==
    IF ~useTls THEN Slave("plain", Open)
    ELSE IF CanBeSecure THEN Slave("secure", TLSConfiguration)
    ELSE NoSlave

createSlave ==
    /\ pc = "slave"
    /\ pc' = "ready"
    /\ slave' = Created
    /\ UNCHANGED <<conf, exchangeVars, stackVars, certs>>

-----------------------------------------------------------------------------

CFInit ==
    /\ conf \in Configurations
    /\ pc = "configure"
    /\ datapoint = 1
    /\ element = 1
    /\ token = 1
    /\ gi_groups = {}
    /\ imported = <<>>
    /\ group = 1
    /\ connection = 1
    /\ redGroup = [index |-> 0, clients |-> <<>>]
    /\ groups = <<>>
    /\ params = Defaults
    /\ originators = {}
    /\ south = [mode |-> "accept_always", monitored |-> <<>>]
    /\ useTls = FALSE
    /\ certs = NoCerts
    /\ slave = NoSlave

setJsonConfig ==
    importExchangeConfig \/ importProtocolConfig \/ importTlsConfig \/ createSlave

CFNext == Configure \/ setJsonConfig

CFSpec == CFInit /\ [][CFNext]_cfVars

-----------------------------------------------------------------------------
(* Properties *)

\* The ranges that the warnings of the import give.
Between(first, last) == {v \in Int : first =< v /\ v =< last}

WarnedRange ==
    [port |-> Between(1, 65535), k_value |-> Between(1, 32767), w_value |-> Between(1, 32767),
     t0_timeout |-> Between(1, 255), t1_timeout |-> Between(1, 255), t2_timeout |-> Between(1, 255),
     t3_timeout |-> Nat, ca_asdu_size |-> Between(1, 2), ioaddr_size |-> Between(1, 3),
     asdu_size |-> {0} \union Between(11, 253), asdu_queue_size |-> Nat \ {0},
     accept_cmd_with_time |-> Between(0, 2), cmd_recv_timeout |-> Nat, cmd_exec_timeout |-> Nat]

RedundancyGroups == [index : Nat, clients : Seq(STRING)]

\* Every variable has its type: no data point has the type "none", and no
\* parameter, however the stack is broken, is outside the range its warning
\* names.  The originators alone follow the test of the import and not the log:
\* the test lets 0 through, the log about the values it refuses names [1..255].
CFTypeOK ==
    /\ pc \in {"configure", "exchange", "datapoint", "element", "token", "address", "stack",
               "group", "connection", "tls", "slave", "ready"}
    /\ datapoint \in Nat \ {0} /\ element \in Nat \ {0} /\ token \in Nat \ {0}
    /\ gi_groups \subseteq 0 .. 16
    /\ imported \in [DOMAIN imported -> [type : DataTypes, command : BOOLEAN,
                                         groups : SUBSET (0 .. 16)]]
    /\ group \in Nat \ {0} /\ connection \in Nat \ {0}
    /\ redGroup \in RedundancyGroups /\ groups \in Seq(RedundancyGroups)
    /\ DOMAIN params = DOMAIN Defaults
    /\ \A name \in DOMAIN params : params[name] \in WarnedRange[name]
    /\ originators \subseteq 0 .. 255
    /\ south.mode \in {"accept_always", "accept_if_south_connx_started"}
    /\ useTls \in BOOLEAN
    /\ certs.own_cert \in BOOLEAN /\ certs.private_key \in BOOLEAN
    /\ slave.kind \in {"none", "plain", "secure"}

Positions ==
    UNION {{d} \X (1 .. Len(Datapoints[d].protocols)) : d \in 1 .. Len(Datapoints)}

ElementAt(p) == Datapoints[p[1]].protocols[p[2]]

IsBefore(p, q) == p[1] < q[1] \/ (p[1] = q[1] /\ p[2] < q[2])

\* Nothing that follows such an element is imported ...
IsFatal(e) ==
    \/ e.kind = "broken"
    \/ /\ e.kind = "iec104"
       /\ \/ ~e.members
          \/ e.groups # "other" /\ ~e.address
          \/ /\ e.groups = "string"
             /\ \E i \in 1 .. Len(e.tokens) :
                   /\ e.tokens[i] = NoInt
                   /\ \A k \in 1 .. i - 1 : e.tokens[k] \in {Station} \union (1 .. 16)

\* ... nor what follows this one in the protocols of the same data point.
EndsDatapoint(e) == e.kind = "iec104" /\ e.members /\ e.groups = "other"

IsHidden(p) == \E q \in Positions : q[1] = p[1] /\ q[2] < p[2] /\ EndsDatapoint(ElementAt(q))

IsReached(p) ==
    /\ conf.items
    /\ conf.exchange.ok
    /\ \A d \in 1 .. p[1] : Datapoints[d].ok
    /\ ~IsHidden(p)
    /\ \A q \in Positions : IsBefore(q, p) /\ IsFatal(ElementAt(q)) => IsHidden(q)

\* The elements that yield a data point.
Yields(p) ==
    LET e == ElementAt(p)
    IN  /\ e.kind = "iec104" /\ ~IsFatal(e) /\ ~EndsDatapoint(e)
        /\ e.typeId \in CommandTypes \union MonitoringTypes
        /\ IsReached(p)

\* The groups it is in: those listed, or the station if one of them is none.
ListedGroups(e) ==
    IF e.groups = "absent" \/ \E i \in 1 .. Len(e.tokens) : e.tokens[i] \notin {Station} \union (1 .. 16)
      THEN StationGroup
      ELSE {IF e.tokens[i] = Station THEN 0 ELSE e.tokens[i] : i \in 1 .. Len(e.tokens)}

IsImported == pc \in {"stack", "group", "connection", "tls", "slave", "ready"}

\* The data points of the server are exactly those of the elements that come
\* before the first one the import gives up at; of two elements for one
\* address the later one counts; and a data point is in the groups its
\* element lists, or in the station's alone if it lists one that is no group.
ImportedAsConfigured ==
    IsImported =>
        LET points == {p \in Positions : Yields(p)}
            address(p) == <<ElementAt(p).ca, ElementAt(p).ioa>>
        IN  /\ DOMAIN imported = {address(p) : p \in points}
            /\ \A p \in points :
                  \/ \E q \in points : address(q) = address(p) /\ IsBefore(p, q)
                  \/ imported[address(p)].groups = ListedGroups(ElementAt(p))

\* The types with a CP24Time2a: configurable, but no reading matches them.
CP24Types == {"M_SP_TA_1", "M_DP_TA_1", "M_ST_TA_1", "M_ME_TA_1", "M_ME_TB_1", "M_ME_TC_1"}

\* Whatever type an element gives, the data point that the server has for it
\* afterwards takes commands, or readings, of just that type: the tables that
\* import, command check and send go by agree.  They do not for CP24Types: the
\* import takes a data point of such a type, but no reading ever matches it.
PointsAreUsable ==
    IsImported =>
        \A p \in Positions : Yields(p) =>
            LET e == ElementAt(p)
                d == imported[<<e.ca, e.ioa>>]
            IN  \/ \E q \in Positions : /\ Yields(q) /\ IsBefore(p, q)
                                        /\ ElementAt(q).ca = e.ca /\ ElementAt(q).ioa = e.ioa
                \/ isMatchingCommand(d.type, d.command, e.typeId)
                \/ ~d.command /\ isMessageTypeMatching(d.type, e.typeId)
                \/ e.typeId \in CP24Types

\* The clients that a group of the configuration lists, and those of a group.
ListedClients(g) ==
    {g.connections[c].clt_ip : c \in {k \in 1 .. Len(g.connections) : g.connections[k].ok}}

ClientsOf(r) == {r.clients[k] : k \in 1 .. Len(r.clients)}

\* Audits of connection events name a group by m_index, the initial ones by
\* its place among the groups: whatever groups are ignored, these are the same,
\* and each group has just the clients of one that is configured, and each of
\* those comes to be.
GroupsAreNumbered ==
    /\ \A i \in 1 .. Len(groups) :
          /\ groups[i].index = i - 1
          /\ \E g \in 1 .. Len(conf.stack.groups) :
                /\ conf.stack.groups[g].ok
                /\ ClientsOf(groups[i]) = ListedClients(conf.stack.groups[g])
    /\ conf.items /\ HasLayers /\ pc \in {"tls", "slave", "ready"} =>
          \A g \in 1 .. Len(conf.stack.groups) : conf.stack.groups[g].ok =>
              \E i \in 1 .. Len(groups) : ClientsOf(groups[i]) = ListedClients(conf.stack.groups[g])

\* The transport layer of the configuration asks for TLS, whatever is made of it.
ConfiguredForTls == conf.stack.transport /\ conf.stack.tls

\* When the configuration asks for TLS, the server runs without it only in one
\* case: the application layer is missing, so that the import gives up before it
\* reads the transport layer.  Otherwise, whatever is wrong with the other texts,
\* the server runs with TLS or not at all.  And one that is to know its masters or their
\* authorities accepts no others, whichever of the certificates cannot be loaded.
TlsIsNotDropped ==
    pc = "ready" /\ ConfiguredForTls =>
        /\ slave.kind = "plain" => ~conf.stack.application
        /\ slave.kind = "secure" =>
              /\ Named(conf.tls.remote_certs) # <<>> => slave.tls.onlyKnown
              /\ Named(conf.tls.ca_certs) # <<>> => slave.tls.chain

\* "value is not a string, defaulting to station.": a data point whose
\* gi_groups is not a string is in the station's group.
DefaultsToStation ==
    IsImported =>
        \A p \in Positions :
            LET e == ElementAt(p)
            IN  IsReached(p) /\ EndsDatapoint(e) /\ e.address /\ e.typeId \in MonitoringTypes
                    => <<e.ca, e.ioa>> \in DOMAIN imported
=============================================================================
