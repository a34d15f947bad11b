---------------------------- MODULE ExchangedData ----------------------------
(***************************************************************************)
(* The exchanged data points and the three ways to them: a command         *)
(* (validateCommand), a reading of the south side (send, m_getDataPoint)   *)
(* and an interrogation (interrogationHandler, sendInterrogationResponse). *)
(* Each connection has its own lib60870 thread, readings come in another   *)
(* one, and all of them use m_exchangeDefinitions without a lock.          *)
(*                                                                         *)
(* Looking something up with operator[] inserts it: an unknown CA gets an  *)
(* empty map, an unknown IOA a null pointer.  Data points are never moved  *)
(* or removed.  Their values are left out.                                 *)
(***************************************************************************)
EXTENDS MasterConnections, DataPointTypes, CommandTime, Integers, Sequences, FiniteSets

CONSTANTS
    CAs,                  \* common addresses
    IOAs,                 \* information object addresses
    BroadcastCA,          \* 0xff or 0xffff
    QOIs,                 \* qualifiers of interrogation that masters use
    Commands,             \* commands that masters send
    Readings,             \* addresses <<ca, ioa>> in readings of the south side
    DataPoints,           \* the configured data points
    MaxElements,          \* information objects that fit into an ASDU
    AllowCmdWithTime,
    AllowCmdWithoutTime

ASSUME AddressAssumption ==
    /\ CAs \subseteq Nat
    /\ IOAs \subseteq Nat
    /\ IsFiniteSet(CAs) /\ IsFiniteSet(IOAs)
    /\ BroadcastCA \in Nat \ CAs
ASSUME DataPointAssumption ==
    /\ DataPoints \subseteq [ca : CAs, ioa : IOAs, type : DataTypes, command : BOOLEAN,
                             groups : SUBSET (20 .. 36)]
    /\ \A d, e \in DataPoints : d.ca = e.ca /\ d.ioa = e.ioa => d = e
ASSUME InputAssumption ==
    /\ QOIs \subseteq Nat
    /\ Readings \subseteq CAs \X IOAs
    /\ Commands \subseteq [south : BOOLEAN, cot : {"ACTIVATION", "other"}, io : BOOLEAN,
                           ca : CAs, originator : BOOLEAN, ioa : IOAs, typeId : TypeIds,
                           age : Int]
ASSUME BoundAssumption == MaxElements \in Nat
ASSUME AllowAssumption == AllowCmdWithTime \in BOOLEAN /\ AllowCmdWithoutTime \in BOOLEAN

VARIABLES
    definitions,  \* m_exchangeDefinitions: the IOAs with an entry, by CA
    request,      \* what the master on each connection asked for last
    handling,     \* where interrogationHandler stands on each connection
    out           \* the ASDUs sent in answer to the last request

edVars == <<definitions, request, handling, out>>

ConfiguredCAs == {d.ca : d \in DataPoints}

ConfiguredIOAs(ca) == {d.ioa : d \in {e \in DataPoints : e.ca = ca}}

PointsAt(ca, ioa) == {d \in DataPoints : d.ca = ca /\ d.ioa = ioa}

-----------------------------------------------------------------------------
(* m_exchangeDefinitions *)

\* Mistake: the entry is replaced instead of extended.
TouchedAfresh(ca, ioas) ==
    [a \in DOMAIN definitions \union {ca} |-> IF a = ca THEN ioas ELSE definitions[a]]

\* m_exchangeDefinitions[ca] and, for each of ioas, m_exchangeDefinitions[ca][ioa].
Touched(ca, ioas) ==
    [a \in DOMAIN definitions \union {ca} |->
        (IF a \in DOMAIN definitions THEN definitions[a] ELSE {})
            \union (IF a = ca THEN ioas ELSE {})]

IsKnown(ca) == ca \in DOMAIN definitions

\* A reading for (ca, ioa); a data point of another type is not updated.
m_getDataPoint(ca, ioa) ==
    /\ definitions' = Touched(ca, {ioa})
    /\ UNCHANGED <<request, handling, out>>

-----------------------------------------------------------------------------
(* Commands *)

HasPoint(ca, ioa) == PointsAt(ca, ioa) # {}

LooksUp(cmd) ==
    isSupportedCommandType(cmd.typeId) /\ cmd.south /\ cmd.cot = "ACTIVATION" /\ cmd.io

\* The checks of asduHandler and validateCommand in their order, each with the
\* answer that a command gets which is the first to fail it.  The first answer
\* is lib60870's, for a type that asduHandler does not take.
Checks(cmd) ==
    << [ok |-> isSupportedCommandType(cmd.typeId), answer |-> "UNKNOWN_TYPE_ID"],
       [ok |-> cmd.south,               answer |-> "ACT_CON"],
       [ok |-> cmd.cot = "ACTIVATION",  answer |-> "UNKNOWN_COT"],
       [ok |-> cmd.io,                  answer |-> "UNKNOWN_TYPE_ID"],
       [ok |-> IsKnown(cmd.ca) /\ definitions[cmd.ca] # {}, answer |-> "UNKNOWN_CA"],
       [ok |-> cmd.originator,          answer |-> "ACT_CON"],
       [ok |-> HasPoint(cmd.ca, cmd.ioa), answer |-> "UNKNOWN_IOA"],
       [ok |-> \A d \in PointsAt(cmd.ca, cmd.ioa) : isMatchingCommand(d.type, d.command, cmd.typeId),
        answer |-> "UNKNOWN_TYPE_ID"],
       [ok |-> IF isCommandWithTimestamp(cmd.typeId) THEN AllowCmdWithTime ELSE AllowCmdWithoutTime,
        answer |-> "UNKNOWN_TYPE_ID"],
       [ok |-> isCommandWithTimestamp(cmd.typeId) => checkIfCmdTimeIsValid(cmd.typeId, cmd.age),
        answer |-> "ACT_CON"] >>

\* A command that fails no check is forwarded and gets no answer for now.
CommandAnswers(cmd) ==
    LET checks == Checks(cmd)
        failed == {i \in 1 .. Len(checks) : ~checks[i].ok}
    IN  {checks[i].answer : i \in {j \in failed : \A k \in failed : j =< k}}

ASDU(kind, ca) == [kind |-> kind, ca |-> ca, elements |-> <<>>]

validateCommand(c, cmd) ==
    /\ handling[c].pc = "idle"
    /\ definitions' = IF LooksUp(cmd) THEN Touched(cmd.ca, {}) ELSE definitions
    /\ request' = [request EXCEPT ![c] = [kind |-> "command", ca |-> cmd.ca, qoi |-> 0]]
    /\ LET answers == CommandAnswers(cmd)
       IN  out' = [out EXCEPT ![c] = IF answers = {} THEN <<>>
                                     ELSE <<ASDU(CHOOSE a \in answers : TRUE, cmd.ca)>>]
    /\ UNCHANGED handling

-----------------------------------------------------------------------------
(* Interrogation *)

InRange(qoi) == qoi >= 20 /\ qoi =< 36

Idle == [pc |-> "idle", ca |-> 0, ld |-> {}, elements |-> <<>>]

At(pc, ca, ld, elements) == [pc |-> pc, ca |-> ca, ld |-> ld, elements |-> elements]

Go(c, h) == handling' = [handling EXCEPT ![c] = h]

Send(c, asdus) == out' = [out EXCEPT ![c] = @ \o asdus]

\* Mistake: an empty map ends the walk.
NextCAUnlessEmpty(ca) ==
    LET above == {a \in DOMAIN definitions : a > ca}
        next == CHOOSE a \in above : \A b \in above : a =< b
    IN  IF above = {} \/ definitions[next] = {} THEN Idle
        ELSE At("confirm", next, {}, <<>>)

\* The iterator over m_exchangeDefinitions at its next CA above ca, or at end.
NextCA(ca) ==
    LET above == {a \in DOMAIN definitions : a > ca}
    IN  IF above = {} THEN Idle
        ELSE At("confirm", CHOOSE a \in above : \A b \in above : a =< b, {}, <<>>)

interrogationHandler(c, ca, qoi) ==
    /\ handling[c].pc = "idle"
    /\ request' = [request EXCEPT ![c] =
                      [kind |-> "interrogation", ca |-> ca, qoi |-> qoi]]
    /\ LET refused == ~InRange(qoi) \/ (ca # BroadcastCA /\ ~IsKnown(ca))
       IN  /\ out' = [out EXCEPT ![c] = IF refused THEN <<ASDU("negative", ca)>> ELSE <<>>]
           /\ Go(c, IF refused THEN Idle
                    ELSE IF ca = BroadcastCA THEN NextCA(-1)
                    ELSE At("confirm", ca, {}, <<>>))
    /\ UNCHANGED definitions

\* sendInterrogationResponse: ACT-CON, and a copy of the data points of the CA ...
Confirm(c) ==
    LET h == handling[c]
    IN  /\ h.pc = "confirm"
        /\ Send(c, <<ASDU("con", h.ca)>>)
        /\ Go(c, At("walk", h.ca, definitions[h.ca], <<>>))
        /\ UNCHANGED <<definitions, request>>

IsReported(d, qoi) == ~d.command /\ qoi \in d.groups

\* CS101_ASDU_addInformationObject: one type in an ASDU, and no more than fit.
Fits(elements, d) ==
    /\ Len(elements) < MaxElements
    /\ elements # <<>> => elements[1].type = d.type

Data(ca, elements) == [kind |-> "data", ca |-> ca, elements |-> elements]

Added(elements, d) ==
    IF Fits(elements, d) THEN Append(elements, [ioa |-> d.ioa, type |-> d.type])
                         ELSE elements

\* Mistake: the data point that did not fit is forgotten.
BegunAfterFlushEmpty(d) == <<>>

\* The ASDU that is begun when d did not fit into the last one.
BegunAfterFlush(d) == Added(<<>>, d)

\* ... the walk over them, in the order of their IOAs ...
ReportPoint(c) ==
    LET h == handling[c]
        ioa == CHOOSE i \in h.ld : \A j \in h.ld : i =< j
        reported == {d \in PointsAt(h.ca, ioa) : IsReported(d, request[c].qoi)}
        ld == h.ld \ {ioa}
    IN  /\ h.pc = "walk"
        /\ h.ld # {}
        /\ \/ /\ reported = {}
              /\ Go(c, [h EXCEPT !.ld = ld])
              /\ UNCHANGED out
           \/ \E d \in reported :
              IF Fits(h.elements, d)
                THEN Go(c, At("walk", h.ca, ld, Added(h.elements, d))) /\ UNCHANGED out
                ELSE /\ Send(c, <<Data(h.ca, h.elements)>>)
                     /\ Go(c, At("walk", h.ca, ld, BegunAfterFlush(d)))
        /\ UNCHANGED <<definitions, request>>

\* Mistake: the last ASDU is sent even if it is empty.
LastASDUAlways(ca, elements) == <<Data(ca, elements)>>

LastASDU(ca, elements) == IF elements = <<>> THEN <<>> ELSE <<Data(ca, elements)>>

\* ... and the last ASDU and ACT-TERM.
Terminate(c) ==
    LET h == handling[c]
    IN  /\ h.pc = "walk"
        /\ h.ld = {}
        /\ Send(c, Append(LastASDU(h.ca, h.elements), ASDU("term", h.ca)))
        /\ Go(c, IF request[c].ca = BroadcastCA THEN NextCA(h.ca) ELSE Idle)
        /\ UNCHANGED <<definitions, request>>

-----------------------------------------------------------------------------

EDInit ==
    /\ definitions = [ca \in ConfiguredCAs |-> ConfiguredIOAs(ca)]
    /\ request = [c \in Conns |-> [kind |-> "none", ca |-> 0, qoi |-> 0]]
    /\ handling = [c \in Conns |-> Idle]
    /\ out = [c \in Conns |-> <<>>]

EDNext ==
    \/ \E r \in Readings : m_getDataPoint(r[1], r[2])
    \/ \E c \in Conns :
          \/ \E cmd \in Commands : validateCommand(c, cmd)
          \/ \E ca \in CAs \union {BroadcastCA}, qoi \in QOIs : interrogationHandler(c, ca, qoi)
          \/ Confirm(c)
          \/ ReportPoint(c)
          \/ Terminate(c)

EDSpec == EDInit /\ [][EDNext]_edVars

-----------------------------------------------------------------------------
(* Properties *)

ASDUKinds == {"negative", "con", "data", "term", "ACT_CON", "UNKNOWN_COT",
              "UNKNOWN_TYPE_ID", "UNKNOWN_CA", "UNKNOWN_IOA"}

Elements == Seq([ioa : IOAs, type : DataTypes])

\* Every variable has its type, and what was configured is still there.
EDTypeOK ==
    /\ DOMAIN definitions \subseteq CAs
    /\ \A ca \in DOMAIN definitions : definitions[ca] \subseteq IOAs
    /\ \A d \in DataPoints : IsKnown(d.ca) /\ d.ioa \in definitions[d.ca]
    /\ request \in [Conns -> [kind : {"none", "command", "interrogation"}, ca : Nat, qoi : Nat]]
    /\ handling \in [Conns -> [pc : {"idle", "confirm", "walk"}, ca : Nat,
                               ld : SUBSET IOAs, elements : Elements]]
    /\ out \in [Conns -> Seq([kind : ASDUKinds, ca : Nat, elements : Elements])]

Positions(c) == 1 .. Len(out[c])

\* How often the answer names the data point.
Reports(c, d) ==
    {p \in Positions(c) \X (1 .. MaxElements) :
        LET a == out[c][p[1]]
        IN  /\ a.kind = "data" /\ a.ca = d.ca
            /\ p[2] =< Len(a.elements)
            /\ a.elements[p[2]].ioa = d.ioa}

\* An interrogation reports every data point of the group exactly once, and
\* nothing else, before ACT-TERM for its CA: no point is lost or repeated
\* where one ASDU is full or its type changes and the next one begins, and
\* entries that other threads insert meanwhile do not show.
InterrogationIsComplete ==
    \A c \in Conns, d \in DataPoints :
        (\E i \in Positions(c) : out[c][i] = ASDU("term", d.ca)) =>
            Cardinality(Reports(c, d)) = IF IsReported(d, request[c].qoi) THEN 1 ELSE 0

\* A broadcast interrogation that is over has confirmed and terminated every
\* configured CA, each once, although the map grows while it is walked.
BroadcastReachesAll ==
    \A c \in Conns, ca \in ConfiguredCAs :
        /\ handling[c].pc = "idle"
        /\ request[c].kind = "interrogation"
        /\ request[c].ca = BroadcastCA
        /\ InRange(request[c].qoi)
        => \A kind \in {"con", "term"} :
              Cardinality({i \in Positions(c) : out[c][i] = ASDU(kind, ca)}) = 1

\* No empty ASDU is sent and none mixes types.
AsdusAreWellFormed ==
    \A c \in Conns : \A i \in Positions(c) :
        LET a == out[c][i]
        IN  a.kind = "data" =>
              /\ a.elements # <<>>
              /\ \A k \in 1 .. Len(a.elements) : a.elements[k].type = a.elements[1].type

\* Is the time of a command within the timeout?
IsInTime(cmd) == CmdRecvTimeout = 0 \/ (-RecvLimit =< cmd.age /\ cmd.age =< RecvLimit)

\* Is the type of a command one that its object was configured with?
IsTypeOf(typeId, d) == d.command /\ typeId \in CommandTypes /\ typeIdToDataType(typeId) = d.type

\* Whatever unknown addresses were used before and inserted on the way, a
\* command is forwarded exactly when the configuration has a command object of
\* its type at its address and the configured checks allow it: the tables by
\* which an object gets its type and is commanded agree, and a time tag that
\* is less than 2^32 ms off passes exactly when it is within the timeout.
CommandsFollowConfiguration ==
    \A cmd \in Commands :
        Distance(cmd.age) < IntRange =>
        (CommandAnswers(cmd) = {} <=>
            /\ LooksUp(cmd) /\ cmd.originator
            /\ IF isCommandWithTimestamp(cmd.typeId) THEN AllowCmdWithTime /\ IsInTime(cmd)
                                                     ELSE AllowCmdWithoutTime
            /\ \E d \in DataPoints : d.ca = cmd.ca /\ d.ioa = cmd.ioa /\ IsTypeOf(cmd.typeId, d))

\* "ASSERT_EQ(1, LinkedList_size(receivedASDUs))": a master that interrogates
\* a CA which is not configured gets one ASDU, the negative ACT-CON.
UnknownCAIsRefused ==
    \A c \in Conns :
        request[c].kind = "interrogation" /\ request[c].ca \notin ConfiguredCAs \union {BroadcastCA}
            => \A i \in Positions(c) : i = 1 /\ out[c][i].kind = "negative"
=============================================================================
