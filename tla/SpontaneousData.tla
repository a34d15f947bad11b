--------------------------- MODULE SpontaneousData ---------------------------
(***************************************************************************)
(* How the value of a data point gets from a reading to a master: send     *)
(* stores it (m_updateDataPoint) and, for some causes, puts it into the    *)
(* queue of every redundancy group (m_enqueueSpontDatapoint), from the     *)
(* thread of plugin_send.  Interrogations read the data points in the      *)
(* threads of their connections, while a value and its quality are         *)
(* written, and without a lock.                                            *)
(*                                                                         *)
(* The queues, their delivery and its repetition after a lost connection   *)
(* are lib60870's.  A master is the active connection of its group.        *)
(***************************************************************************)
EXTENDS DataPointTypes, Integers, Sequences

CONSTANTS
    Masters,    \* one for each redundancy group
    Addresses,  \* addresses in readings, numbered in the order of the map
    Points,     \* the addresses with a data point
    DataType,   \* m_type of each data point
    Reported,   \* the data points that an interrogation reports
    Readings,   \* readings of the south side
    QueueSize   \* asdu_queue_size

Kinds == {"integer", "float", "string", "none"}

Qualities == {"initial", "good", "bad"}

\* The causes that make a reading spontaneous data, and one that does not.
ReportedCots == {"PERIODIC", "BACKGROUND_SCAN", "SPONTANEOUS",
                 "RETURN_INFO_REMOTE", "RETURN_INFO_LOCAL"}
Cots == ReportedCots \union {"INTERROGATED_BY_STATION"}

ASSUME PointAssumption ==
    /\ Addresses \subseteq Nat
    /\ Points \subseteq Addresses
    /\ DataType \in [Points -> DataTypes]
    /\ Reported \subseteq Points
ASSUME ReadingAssumption ==
    Readings \subseteq [address : Addresses, typeId : TypeIds, kind : Kinds, v : Int,
                        quality : {"good", "bad"}, cot : Cots]
ASSUME QueueAssumption == QueueSize \in Nat \ {0}

VARIABLES
    running,   \* CS104_Slave_isRunning
    value,     \* m_value: the member it was written through, and its value
    quality,   \* the quality in m_value
    sending,   \* where send stands, with its reading
    queue,     \* the ASDU queue of each group
    sent,      \* how many of its ASDUs were sent and not yet confirmed
    open,      \* is the master connected?
    gi,        \* its interrogation: what sendInterrogationResponse has read so far
    image,     \* what the master last got for each data point
    latest,    \* history: the value and quality of the last reading taken in
    current    \* history: the data points of which a master has, or will get
               \* from its queue, the value and quality that are stored

sdVars == <<running, value, quality, sending, queue, sent, open, gi, image,
            latest, current>>

-----------------------------------------------------------------------------
(* Values *)

\* The member of m_value that m_updateDataPoint writes for a type id, and the
\* one that m_enqueueSpontDatapoint reads for it.
UpdatedMember(typeId) ==
    CASE typeId \in {"M_SP_NA_1", "M_SP_TB_1"} -> "SP"
      [] typeId \in {"M_DP_NA_1", "M_DP_TB_1"} -> "DP"
      [] typeId \in {"M_ST_NA_1", "M_ST_TB_1"} -> "STEP_POS"
      [] typeId \in {"M_ME_NA_1", "M_ME_TD_1"} -> "NORMALIZED"
      [] typeId \in {"M_ME_NB_1", "M_ME_TE_1"} -> "SCALED"
      [] typeId \in {"M_ME_NC_1", "M_ME_TF_1"} -> "SHORT"

SentMember(typeId) ==
    CASE typeId = "M_SP_NA_1" \/ typeId = "M_SP_TB_1" -> "SP"
      [] typeId = "M_DP_NA_1" \/ typeId = "M_DP_TB_1" -> "DP"
      [] typeId = "M_ST_NA_1" \/ typeId = "M_ST_TB_1" -> "STEP_POS"
      [] typeId = "M_ME_NA_1" \/ typeId = "M_ME_TD_1" -> "NORMALIZED"
      [] typeId = "M_ME_NB_1" \/ typeId = "M_ME_TE_1" -> "SCALED"
      [] typeId = "M_ME_NC_1" \/ typeId = "M_ME_TF_1" -> "SHORT"

\* The kind of do_value that m_updateDataPoint takes for a member; another
\* kind leaves the value as it is.
ValueKind ==
    [SP |-> "integer", DP |-> "integer", STEP_POS |-> "string",
     NORMALIZED |-> "float", SCALED |-> "integer", SHORT |-> "float"]

\* Integers of seven and of sixteen bits are below these.
StepLimit == 64
ScaledLimit == 32768

\* x as a signed integer below limit.
Signed(x, limit) == ((x + limit) % (2 * limit)) - limit

\* What the bit field or integer of a member keeps of a value.
Field(member, v) ==
    CASE member = "SP" -> v % 2
      [] member = "DP" -> v % 4
      [] member = "STEP_POS" -> Signed(v, StepLimit)
      [] member = "SCALED" -> Signed(v, ScaledLimit)
      [] OTHER -> v

Ranges ==
    [SP |-> 0 .. 1, DP |-> 0 .. 3, STEP_POS |-> -StepLimit .. StepLimit - 1,
     SCALED |-> -ScaledLimit .. ScaledLimit - 1, NORMALIZED |-> Int, SHORT |-> Int]

Stored(p) == [v |-> value[p].v, q |-> quality[p]]

Event(p, member) == [point |-> p, member |-> member, v |-> value[p].v, q |-> quality[p]]

Events(m, p) == {i \in 1 .. Len(queue[m]) : queue[m][i].point = p}

-----------------------------------------------------------------------------
(* send, in the thread of plugin_send *)

IsTakenIn(r) == r.address \in Points /\ isMessageTypeMatching(DataType[r.address], r.typeId)

Idle == [pc |-> "idle"]

At(pc, r) == [pc |-> pc, reading |-> r]

\* A reading that comes while the server does not run goes nowhere, not even
\* into the data point; it is counted as sent all the same.
DropReading(r) ==
    /\ sending.pc = "idle"
    /\ ~running
    /\ IsTakenIn(r)
    /\ sending' = At("dropped", r)
    /\ UNCHANGED <<running, value, quality, queue, sent, open, gi, image,
                   latest, current>>

CountDropped ==
    /\ sending.pc = "dropped"
    /\ sending' = Idle
    /\ UNCHANGED <<running, value, quality, queue, sent, open, gi, image,
                   latest, current>>

TakeReading(r) ==
    /\ sending.pc = "idle"
    /\ running
    /\ IsTakenIn(r)
    /\ sending' = At("value", r)
    /\ UNCHANGED <<running, value, quality, queue, sent, open, gi, image,
                   latest, current>>

\* The value that is stored under the type id of r.
Written(r) ==
    LET member == UpdatedMember(r.typeId)
    IN  [member |-> member,
         v |-> IF r.kind = ValueKind[member] THEN Field(member, r.v) ELSE value[r.address].v]

\* The interrogations under way have read, or will read, something older.
Overtake(p) == gi' = [m \in Masters |-> [gi[m] EXCEPT !.overtaken = @ \union {p}]]

\* m_updateDataPoint: first the value ...
UpdateValue ==
    LET r == sending.reading
    IN  /\ sending.pc = "value"
        /\ value' = [value EXCEPT ![r.address] = Written(r)]
        /\ latest' = [latest EXCEPT ![r.address] =
                         [v |-> IF r.kind = ValueKind[DataType[r.address]] THEN r.v ELSE @.v,
                          q |-> r.quality]]
        /\ current' = [m \in Masters |-> current[m] \ {r.address}]
        /\ Overtake(r.address)
        /\ sending' = At("quality", r)
        /\ UNCHANGED <<running, quality, queue, sent, open, image>>

\* Mistake: the quality is only stored with a value.
UpdateQualityWithValue ==
    LET r == sending.reading
    IN  /\ sending.pc = "quality"
        /\ quality' = [quality EXCEPT ![r.address] = IF r.kind = "none" THEN @ ELSE r.quality]
        /\ sending' = IF r.cot \in ReportedCots THEN At("enqueue", r) ELSE Idle
        /\ UNCHANGED <<running, value, queue, sent, open, gi, image, latest, current>>

\* ... then the quality.
UpdateQuality ==
    LET r == sending.reading
    IN  /\ sending.pc = "quality"
        /\ quality' = [quality EXCEPT ![r.address] = r.quality]
        /\ sending' = IF r.cot \in ReportedCots THEN At("enqueue", r) ELSE Idle
        /\ UNCHANGED <<running, value, queue, sent, open, gi, image, latest, current>>

IsFull(m) == Len(queue[m]) = QueueSize

\* Mistake: a full queue keeps its oldest ASDUs and drops the new one.
EnqueuedUnlessFull(m, e) == IF IsFull(m) THEN queue[m] ELSE Append(queue[m], e)

\* Mistake: nothing is dropped.
EnqueuedAlways(m, e) == Append(queue[m], e)

\* CS104_Slave_enqueueASDU: a full queue drops its oldest ASDU.
Enqueued(m, e) == Append(IF IsFull(m) THEN Tail(queue[m]) ELSE queue[m], e)

\* The points whose only ASDU is dropped from a full queue before it was sent.
Dropped(m) ==
    IF IsFull(m) /\ sent[m] = 0 /\ Events(m, Head(queue[m]).point) = {1}
      THEN {Head(queue[m]).point} ELSE {}

m_enqueueSpontDatapoint ==
    LET r == sending.reading
        e == Event(r.address, SentMember(r.typeId))
    IN  /\ sending.pc = "enqueue"
        /\ queue' = [m \in Masters |-> Enqueued(m, e)]
        /\ sent' = [m \in Masters |-> IF IsFull(m) /\ sent[m] > 0 THEN sent[m] - 1 ELSE sent[m]]
        /\ current' = [m \in Masters |-> (current[m] \ Dropped(m)) \union {r.address}]
        /\ sending' = Idle
        /\ UNCHANGED <<running, value, quality, open, gi, image, latest>>

send ==
    \/ \E r \in Readings : DropReading(r) \/ TakeReading(r)
    \/ CountDropped
    \/ UpdateValue
    \/ UpdateQuality
    \/ m_enqueueSpontDatapoint

-----------------------------------------------------------------------------
(* Interrogation, in the thread of the connection; in which order value and *)
(* quality are read is up to the compiler.                                  *)

Interrogation(pc, rest) ==
    [pc |-> pc, rest |-> rest, v |-> 0, q |-> "initial", elements |-> {}, overtaken |-> {}]

NoInterrogation == Interrogation("idle", {})

Interrogate(m) ==
    /\ open[m]
    /\ gi[m].pc = "idle"
    /\ gi' = [gi EXCEPT ![m] = Interrogation("walk", Reported)]
    /\ UNCHANGED <<running, value, quality, sending, queue, sent, open, image,
                   latest, current>>

NextPoint(m) == CHOOSE p \in gi[m].rest : \A q \in gi[m].rest : p =< q

IsBeingWritten(p) == sending.pc = "quality" /\ sending.reading.address = p

ReadFirst(m) ==
    LET p == NextPoint(m)
        overtaken == IF IsBeingWritten(p) THEN gi[m].overtaken \union {p}
                                          ELSE gi[m].overtaken \ {p}
    IN  /\ gi[m].pc = "walk"
        /\ gi[m].rest # {}
        /\ \/ gi' = [gi EXCEPT ![m] = [@ EXCEPT !.pc = "value_read", !.v = value[p].v,
                                                !.overtaken = overtaken]]
           \/ gi' = [gi EXCEPT ![m] = [@ EXCEPT !.pc = "quality_read", !.q = quality[p],
                                                !.overtaken = overtaken]]
        /\ UNCHANGED <<running, value, quality, sending, queue, sent, open, image,
                       latest, current>>

Element(p, v, q) == [point |-> p, member |-> DataType[p], v |-> v, q |-> q]

\* What is read of the point when its other half is read as well.
ReadElement(m) ==
    LET p == NextPoint(m)
    IN  IF gi[m].pc = "value_read" THEN Element(p, gi[m].v, quality[p])
                                   ELSE Element(p, value[p].v, gi[m].q)

\* Mistake: the walk does not go on.
ReadSecondAgain(m) ==
    /\ gi[m].pc \in {"value_read", "quality_read"}
    /\ gi' = [gi EXCEPT ![m] = [@ EXCEPT !.pc = "walk", !.elements = @ \union {ReadElement(m)},
                                        !.v = 0, !.q = "initial"]]
    /\ UNCHANGED <<running, value, quality, sending, queue, sent, open, image,
                   latest, current>>

ReadSecond(m) ==
    /\ gi[m].pc \in {"value_read", "quality_read"}
    /\ gi' = [gi EXCEPT ![m] = [pc |-> "walk", rest |-> @.rest \ {NextPoint(m)},
                                v |-> 0, q |-> "initial",
                                elements |-> @.elements \union {ReadElement(m)},
                                overtaken |-> @.overtaken]]
    /\ UNCHANGED <<running, value, quality, sending, queue, sent, open, image,
                   latest, current>>

\* When an ASDU is full is up to ExchangedData.
SendASDU(m) ==
    LET told == {e.point : e \in gi[m].elements}
        read(p) == CHOOSE e \in gi[m].elements : e.point = p
    IN  /\ gi[m].pc = "walk"
        /\ told # {}
        /\ image' = [image EXCEPT ![m] =
                         [p \in Points |-> IF p \in told THEN [v |-> read(p).v, q |-> read(p).q]
                                                          ELSE @[p]]]
        /\ current' = [current EXCEPT ![m] =
                           @ \union {p \in told \ gi[m].overtaken : Events(m, p) = {}}]
        /\ gi' = [gi EXCEPT ![m].elements = {}]
        /\ UNCHANGED <<running, value, quality, sending, queue, sent, open, latest>>

EndInterrogation(m) ==
    /\ gi[m].pc = "walk"
    /\ gi[m].rest = {}
    /\ gi[m].elements = {}
    /\ gi' = [gi EXCEPT ![m] = NoInterrogation]
    /\ UNCHANGED <<running, value, quality, sending, queue, sent, open, image,
                   latest, current>>

sendInterrogationResponse(m) ==
    ReadFirst(m) \/ ReadSecond(m) \/ SendASDU(m) \/ EndInterrogation(m)

-----------------------------------------------------------------------------
(* lib60870 and the monitoring thread *)

\* The thread of the connection sends what is in the queue between handlers.
Deliver(m) ==
    /\ open[m]
    /\ gi[m].pc = "idle"
    /\ sent[m] < Len(queue[m])
    /\ LET e == queue[m][sent[m] + 1]
       IN  image' = [image EXCEPT ![m][e.point] = [v |-> e.v, q |-> e.q]]
    /\ sent' = [sent EXCEPT ![m] = @ + 1]
    /\ UNCHANGED <<running, value, quality, sending, queue, open, gi, latest, current>>

Confirm(m) ==
    /\ sent[m] > 0
    /\ queue' = [queue EXCEPT ![m] = Tail(@)]
    /\ sent' = [sent EXCEPT ![m] = @ - 1]
    /\ UNCHANGED <<running, value, quality, sending, open, gi, image, latest, current>>

Connect(m) ==
    /\ running
    /\ ~open[m]
    /\ open' = [open EXCEPT ![m] = TRUE]
    /\ UNCHANGED <<running, value, quality, sending, queue, sent, gi, image,
                   latest, current>>

\* What was not confirmed will be sent again.  A handler that is still under
\* way sends to nobody.
Disconnect(m) ==
    /\ open[m]
    /\ open' = [open EXCEPT ![m] = FALSE]
    /\ sent' = [sent EXCEPT ![m] = 0]
    /\ gi' = [gi EXCEPT ![m] = NoInterrogation]
    /\ UNCHANGED <<running, value, quality, sending, queue, image, latest, current>>

StartServer ==
    /\ ~running
    /\ running' = TRUE
    /\ UNCHANGED <<value, quality, sending, queue, sent, open, gi, image,
                   latest, current>>

Unsent(m, p) == {i \in Events(m, p) : i > sent[m]}

\* The queues may outlive the stop or not.
StopServer ==
    /\ running
    /\ running' = FALSE
    /\ open' = [m \in Masters |-> FALSE]
    /\ sent' = [m \in Masters |-> 0]
    /\ gi' = [m \in Masters |-> NoInterrogation]
    /\ \/ UNCHANGED <<queue, current>>
       \/ /\ queue' = [m \in Masters |-> <<>>]
          /\ current' = [m \in Masters |-> {p \in current[m] : Unsent(m, p) = {}}]
    /\ UNCHANGED <<value, quality, sending, image, latest>>

-----------------------------------------------------------------------------

SDInit ==
    /\ running = FALSE
    /\ value = [p \in Points |-> [member |-> DataType[p], v |-> 0]]
    /\ quality = [p \in Points |-> "initial"]
    /\ sending = Idle
    /\ queue = [m \in Masters |-> <<>>]
    /\ sent = [m \in Masters |-> 0]
    /\ open = [m \in Masters |-> FALSE]
    /\ gi = [m \in Masters |-> NoInterrogation]
    /\ image = [m \in Masters |-> [p \in Points |-> [v |-> 0, q |-> "none"]]]
    /\ latest = [p \in Points |-> [v |-> 0, q |-> "initial"]]
    /\ current = [m \in Masters |-> {}]

SDNext ==
    \/ send
    \/ StartServer
    \/ StopServer
    \/ \E m \in Masters :
          \/ Interrogate(m)
          \/ sendInterrogationResponse(m)
          \/ Deliver(m)
          \/ Confirm(m)
          \/ Connect(m)
          \/ Disconnect(m)

SDSpec == SDInit /\ [][SDNext]_sdVars

\* Handlers go on, and the thread of a connection sends from its queue in each
\* round of its loop, however often an interrogation comes in between.
SDFairness ==
    \A m \in Masters : WF_sdVars(sendInterrogationResponse(m)) /\ SF_sdVars(Deliver(m))

SDFairSpec == SDSpec /\ SDFairness

-----------------------------------------------------------------------------
(* Properties *)

ValueType == [member : DataTypes, v : Int]

SendingType ==
    {Idle} \union [pc : {"value", "quality", "enqueue", "dropped"}, reading : Readings]

ImageType == [v : Int, q : Qualities \union {"none"}]

EventType == [point : Points, member : DataTypes, v : Int, q : Qualities]

InterrogationType ==
    [pc : {"idle", "walk", "value_read", "quality_read"}, rest : SUBSET Points, v : Int,
     q : Qualities, elements : SUBSET EventType, overtaken : SUBSET Points]

\* Every variable has its type, and no queue is longer than asdu_queue_size.
SDTypeOK ==
    /\ running \in BOOLEAN
    /\ value \in [Points -> ValueType]
    /\ quality \in [Points -> Qualities]
    /\ sending \in SendingType
    /\ queue \in [Masters -> Seq(EventType)]
    /\ sent \in [Masters -> Nat]
    /\ \A m \in Masters : Len(queue[m]) =< QueueSize /\ sent[m] =< Len(queue[m])
    /\ open \in [Masters -> BOOLEAN]
    /\ gi \in [Masters -> InterrogationType]
    /\ image \in [Masters -> [Points -> ImageType]]
    /\ latest \in [Points -> [v : Int, q : Qualities]]
    /\ current \in [Masters -> SUBSET Points]

\* A value is stored, sent and interrogated through one and the same member of
\* the union m_value, that of the data point's type, although four functions
\* choose the member each on its own.
MembersAgree ==
    /\ \A p \in Points : value[p].member = DataType[p]
    /\ \A m \in Masters : \A i \in 1 .. Len(queue[m]) :
          queue[m][i].member = DataType[queue[m][i].point]

\* What a master got last for a data point is what is stored, unless an ASDU
\* that says so is in its queue, or was dropped from it, or the reading was
\* not one to report: an interrogation that reads half of an update, or
\* answers late, is always made up for.
ImageIsCurrent ==
    \A m \in Masters : \A p \in current[m] :
        Unsent(m, p) = {} => image[m][p] = Stored(p)

\* Once it is stored, a data point holds the value and the quality of the last
\* reading that was taken in, if its type can hold that value at all.
PointIsLastReading ==
    \A p \in Points :
        latest[p].v \in Ranges[DataType[p]] /\ ~IsBeingWritten(p) => Stored(p) = latest[p]

\* What is in the queue of a master that stays connected reaches it, however
\* often it interrogates meanwhile.
ImageCatchesUp ==
    \A m \in Masters, p \in Points :
        p \in current[m] /\ open[m] ~>
            p \notin current[m] \/ ~open[m] \/ image[m][p] = Stored(p)
=============================================================================
