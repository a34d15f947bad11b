----------------------- MODULE SpontaneousDataProofs -----------------------
(***************************************************************************)
(* Proofs about the way of a value: for any number of masters and data     *)
(* points, any queue size and any readings, a data point holds what was    *)
(* last read, through the member of its type, and a master that has been   *)
(* sent everything has it too.                                             *)
(***************************************************************************)
EXTENDS SpontaneousData, TLAPS, FiniteSetTheorems

\* send only works on readings for a data point of their type.
ReadingIsTakenIn ==
    sending.pc \in {"value", "quality", "enqueue"} => IsTakenIn(sending.reading)

\* Value and quality are those of the last reading, each on its own.
ValueIsLast ==
    \A p \in Points : latest[p].v \in Ranges[DataType[p]] => value[p].v = latest[p].v

QualityIsLast ==
    \A p \in Points :
        latest[p].q = IF IsBeingWritten(p) THEN sending.reading.quality ELSE quality[p]

\* The inductive invariant of the data points.
StoreInv ==
    /\ SDTypeOK
    /\ ReadingIsTakenIn
    /\ MembersAgree
    /\ ValueIsLast
    /\ QualityIsLast

-----------------------------------------------------------------------------

HalfRead(m) == gi[m].pc \in {"value_read", "quality_read"}

\* The walk over the data points: a point that is half read is still to come,
\* and every point is read once.
WalkIsInOrder(m) ==
    /\ HalfRead(m) => gi[m].rest # {}
    /\ \A e \in gi[m].elements : e.point \in Points \ gi[m].rest
    /\ \A e, f \in gi[m].elements : e.point = f.point => e = f

\* What was read of a point and not overtaken is what is stored.
ReadIsStored(m) ==
    /\ \A e \in gi[m].elements :
          e.point \notin gi[m].overtaken => [v |-> e.v, q |-> e.q] = Stored(e.point)
    /\ HalfRead(m) /\ NextPoint(m) \notin gi[m].overtaken =>
          IF gi[m].pc = "value_read" THEN gi[m].v = value[NextPoint(m)].v
                                     ELSE gi[m].q = quality[NextPoint(m)]

\* While the quality of a point is to be written, nobody has it, and what was
\* read of it counts as overtaken.
WrittenIsOvertaken(m) ==
    \A p \in Points : IsBeingWritten(p) =>
        /\ p \notin current[m]
        /\ (\E e \in gi[m].elements : e.point = p) => p \in gi[m].overtaken
        /\ HalfRead(m) /\ NextPoint(m) = p => p \in gi[m].overtaken

\* The last ASDU that is queued for a point says what is stored.
LastQueuedIsStored(m) ==
    \A p \in current[m] : \A i \in 1 .. Len(queue[m]) :
        /\ queue[m][i].point = p
        /\ \A j \in i + 1 .. Len(queue[m]) : queue[m][j].point # p
        => [v |-> queue[m][i].v, q |-> queue[m][i].q] = Stored(p)

\* What an interrogation has missed will be sent from the queue after it.
OvertakenIsQueued(m) ==
    \A p \in current[m] :
        gi[m].pc # "idle" /\ p \in gi[m].overtaken => Unsent(m, p) # {}

MasterIsCurrent(m) ==
    \A p \in current[m] : Unsent(m, p) = {} => image[m][p] = Stored(p)

MasterInv(m) ==
    /\ WalkIsInOrder(m)
    /\ ReadIsStored(m)
    /\ WrittenIsOvertaken(m)
    /\ LastQueuedIsStored(m)
    /\ OvertakenIsQueued(m)
    /\ MasterIsCurrent(m)

\* The inductive invariant of the masters.
ImageInv == StoreInv /\ \A m \in Masters : MasterInv(m)

-----------------------------------------------------------------------------
(* The tables of types, and values *)

\* The tables of the type ids agree on the member for a data type.
LEMMA TablesAgree ==
    ASSUME NEW type \in DataTypes, NEW typeId, isMessageTypeMatching(type, typeId)
    PROVE  UpdatedMember(typeId) = type /\ SentMember(typeId) = type
<1>1. CASE type = "SP"
  BY <1>1 DEF isMessageTypeMatching, ReadingTypes, UpdatedMember, SentMember
<1>2. CASE type = "DP"
  BY <1>2 DEF isMessageTypeMatching, ReadingTypes, UpdatedMember, SentMember
<1>3. CASE type = "STEP_POS"
  BY <1>3 DEF isMessageTypeMatching, ReadingTypes, UpdatedMember, SentMember
<1>4. CASE type = "NORMALIZED"
  BY <1>4 DEF isMessageTypeMatching, ReadingTypes, UpdatedMember, SentMember
<1>5. CASE type = "SCALED"
  BY <1>5 DEF isMessageTypeMatching, ReadingTypes, UpdatedMember, SentMember
<1>6. CASE type = "SHORT"
  BY <1>6 DEF isMessageTypeMatching, ReadingTypes, UpdatedMember, SentMember
<1> QED BY <1>1, <1>2, <1>3, <1>4, <1>5, <1>6 DEF DataTypes

\* The signed integers keep the values in their range.
LEMMA RemainderFact ==
    ASSUME NEW x \in Int, NEW n \in Nat \ {0}
    PROVE  x % n \in Int /\ (x \in 0 .. n - 1 => x % n = x)
  OBVIOUS

LEMMA SignedKeepsRange ==
    ASSUME NEW v \in Int, NEW limit \in Nat \ {0}
    PROVE  /\ Signed(v, limit) \in Int
           /\ v \in -limit .. limit - 1 => Signed(v, limit) = v
<1> DEFINE x == v + limit
           n == 2 * limit
<1>1. x \in Int /\ n \in Nat \ {0}
  OBVIOUS
<1>2. v \in -limit .. limit - 1 => x \in 0 .. n - 1
  OBVIOUS
<1>3. Signed(v, limit) = (x % n) - limit
  BY DEF Signed
<1>4. x % n \in Int /\ (x \in 0 .. n - 1 => x % n = x)
  BY <1>1, RemainderFact
<1>5. x - limit = v
  OBVIOUS
<1> HIDE DEF x, n
<1> QED BY <1>2, <1>3, <1>4, <1>5

LEMMA LimitFact == StepLimit \in Nat \ {0} /\ ScaledLimit \in Nat \ {0}
  BY DEF StepLimit, ScaledLimit

\* A member keeps the values in its range.
LEMMA FieldKeepsRange ==
    ASSUME NEW member \in DataTypes, NEW v \in Int
    PROVE  Field(member, v) \in Int /\ (v \in Ranges[member] => Field(member, v) = v)
<1>1. CASE member = "SP"
  BY <1>1 DEF Field, Ranges
<1>2. CASE member = "DP"
  BY <1>2 DEF Field, Ranges
<1>3. CASE member = "STEP_POS"
  BY <1>3, SignedKeepsRange, LimitFact DEF Field, Ranges
<1>4. CASE member = "SCALED"
  BY <1>4, SignedKeepsRange, LimitFact DEF Field, Ranges
<1>5. CASE member \in {"NORMALIZED", "SHORT"}
  BY <1>5 DEF Field, Ranges
<1> QED BY <1>1, <1>2, <1>3, <1>4, <1>5 DEF DataTypes

\* A set of numbers has a first one.
LEMMA LeastNumber ==
    ASSUME NEW S, S \subseteq Nat, S # {}
    PROVE  \E n \in S : \A m \in S : n =< m
<1> DEFINE Less == {p \in Nat \X Nat : p[1] < p[2]}
<1>1. IsWellFoundedOn(Less, Nat)
  BY NatLessThanWellFounded DEF OpToRel
<1>2. PICK n \in S : \A m \in S : <<m, n>> \notin Less
  <2> HIDE DEF Less
  <2> QED BY <1>1, WFMin
<1>3. \A m \in S : m \in Nat /\ n \in Nat /\ ~(m < n)
  BY <1>2
<1> QED BY <1>3

LEMMA NextPointFact ==
    ASSUME NEW m, gi[m].rest \subseteq Points, gi[m].rest # {}
    PROVE  NextPoint(m) \in gi[m].rest
<1>1. gi[m].rest \subseteq Nat
  BY PointAssumption
<1> QED BY <1>1, LeastNumber DEF NextPoint

-----------------------------------------------------------------------------
(* Types *)

\* The initial state has its types.
LEMMA TypesInit == SDInit => SDTypeOK
<1> SUFFICES ASSUME SDInit PROVE SDTypeOK
  OBVIOUS
<1>1. value \in [Points -> ValueType] /\ latest \in [Points -> [v : Int, q : Qualities]]
  BY PointAssumption DEF SDInit, ValueType, Qualities
<1>2. NoInterrogation \in InterrogationType
  BY DEF NoInterrogation, Interrogation, InterrogationType, Qualities
<1>3. [v |-> 0, q |-> "none"] \in ImageType
  BY DEF ImageType
<1>4. <<>> \in Seq(EventType) /\ Len(<<>>) = 0
  OBVIOUS
<1>5. queue \in [Masters -> Seq(EventType)] /\ sent \in [Masters -> Nat]
  BY <1>4 DEF SDInit
<1>6. \A m \in Masters : Len(queue[m]) =< QueueSize /\ sent[m] =< Len(queue[m])
  BY <1>4, QueueAssumption DEF SDInit
<1>7. gi \in [Masters -> InterrogationType] /\ image \in [Masters -> [Points -> ImageType]]
  BY <1>2, <1>3 DEF SDInit
<1> QED BY <1>1, <1>5, <1>6, <1>7 DEF SDInit, SDTypeOK, SendingType, Qualities

\* What a reading is.
LEMMA ReadingFact ==
    ASSUME SDTypeOK, sending.pc # "idle"
    PROVE  /\ sending.pc \in {"value", "quality", "enqueue", "dropped"}
           /\ sending = At(sending.pc, sending.reading)
           /\ sending.reading \in Readings
           /\ sending.reading.v \in Int
           /\ sending.reading.quality \in Qualities
<1>1. sending \in [pc : {"value", "quality", "enqueue", "dropped"}, reading : Readings]
  BY DEF SDTypeOK, SendingType, Idle
<1> QED BY <1>1, ReadingAssumption DEF At, Qualities

LEMMA AtType ==
    ASSUME NEW pc \in {"value", "quality", "enqueue", "dropped"}, NEW r \in Readings
    PROVE  At(pc, r) \in SendingType /\ At(pc, r).pc = pc /\ At(pc, r).reading = r
  BY DEF At, SendingType

-----------------------------------------------------------------------------
(* send *)

\* send takes a reading, or counts one that it dropped.
LEMMA TakeStep ==
    ASSUME StoreInv,
           (\E r \in Readings : DropReading(r) \/ TakeReading(r)) \/ CountDropped
    PROVE  StoreInv'
<1>1. /\ UNCHANGED <<running, value, quality, queue, sent, open, gi, image, latest, current>>
      /\ \/ sending' = Idle
         \/ \E r \in Readings, pc \in {"value", "dropped"} : IsTakenIn(r) /\ sending' = At(pc, r)
  BY DEF DropReading, TakeReading, CountDropped
<1>2. sending.pc # "quality"
  BY DEF DropReading, TakeReading, CountDropped
<1>3. /\ sending' \in SendingType
      /\ sending'.pc # "quality"
      /\ sending'.pc # "idle" => IsTakenIn(sending'.reading)
  BY <1>1, AtType DEF Idle, SendingType
<1>4. SDTypeOK'
  BY <1>1, <1>3 DEF StoreInv, SDTypeOK
<1>5. ReadingIsTakenIn'
  BY <1>3 DEF ReadingIsTakenIn, IsTakenIn
<1>6. MembersAgree' /\ ValueIsLast'
  BY <1>1 DEF StoreInv, MembersAgree, ValueIsLast
<1>7. QualityIsLast'
  BY <1>1, <1>2, <1>3 DEF StoreInv, QualityIsLast, IsBeingWritten
<1> QED BY <1>4, <1>5, <1>6, <1>7 DEF StoreInv

\* A step that leaves the data points and send alone.
LEMMA OtherStep ==
    ASSUME StoreInv, UNCHANGED <<value, quality, sending, latest>>, SDTypeOK',
           \A m \in Masters : \A i \in 1 .. Len(queue'[m]) :
               queue'[m][i].member = DataType[queue'[m][i].point]
    PROVE  StoreInv'
  BY DEF StoreInv, ReadingIsTakenIn, IsTakenIn, MembersAgree, ValueIsLast, QualityIsLast,
         IsBeingWritten

\* The point that is written, and the member it is written through.
LEMMA TargetFact ==
    ASSUME StoreInv, sending.pc \in {"value", "quality", "enqueue"}
    PROVE  /\ sending.reading.address \in Points
           /\ UpdatedMember(sending.reading.typeId) = DataType[sending.reading.address]
           /\ SentMember(sending.reading.typeId) = DataType[sending.reading.address]
           /\ DataType[sending.reading.address] \in DataTypes
<1>1. IsTakenIn(sending.reading)
  BY DEF StoreInv, ReadingIsTakenIn
<1>2. sending.reading.address \in Points /\ DataType[sending.reading.address] \in DataTypes
  BY <1>1, PointAssumption DEF IsTakenIn
<1> QED BY <1>1, <1>2, TablesAgree DEF IsTakenIn

LEMMA UpdateValueStep ==
    ASSUME StoreInv, UpdateValue
    PROVE  StoreInv'
<1> DEFINE r == sending.reading
           a == r.address
           type == DataType[a]
<1>1. /\ sending.pc = "value"
      /\ value' = [value EXCEPT ![a] = Written(r)]
      /\ sending' = At("quality", r)
      /\ UNCHANGED <<running, quality, queue, sent, open, image>>
  BY DEF UpdateValue
<1>2. latest' = [latest EXCEPT ![a] = [v |-> IF r.kind = ValueKind[type] THEN r.v ELSE @.v,
                                       q |-> r.quality]]
  BY DEF UpdateValue
<1>3. r \in Readings /\ r.v \in Int /\ r.quality \in Qualities
  BY <1>1, ReadingFact DEF StoreInv
<1>4. a \in Points /\ UpdatedMember(r.typeId) = type /\ type \in DataTypes
  BY <1>1, TargetFact
<1>5. /\ value \in [Points -> ValueType]
      /\ latest \in [Points -> [v : Int, q : Qualities]]
  BY DEF StoreInv, SDTypeOK
<1>6. /\ Written(r) = [member |-> type, v |-> IF r.kind = ValueKind[type] THEN Field(type, r.v)
                                                                       ELSE value[a].v]
      /\ Written(r) \in ValueType
  BY <1>3, <1>4, <1>5, FieldKeepsRange DEF Written, ValueType
<1>7. /\ \A p \in Points : value'[p] = IF p = a THEN Written(r) ELSE value[p]
      /\ value' \in [Points -> ValueType]
  BY <1>1, <1>4, <1>5, <1>6
<1>8. /\ \A p \in Points \ {a} : latest'[p] = latest[p]
      /\ latest'[a].v = (IF r.kind = ValueKind[type] THEN r.v ELSE latest[a].v)
      /\ latest'[a].q = r.quality
      /\ latest' \in [Points -> [v : Int, q : Qualities]]
  BY <1>2, <1>3, <1>4, <1>5
<1>9. sending' \in SendingType /\ sending'.pc = "quality" /\ sending'.reading = r
  BY <1>1, <1>3, AtType
<1>10. current' \in [Masters -> SUBSET Points]
  BY DEF UpdateValue, StoreInv, SDTypeOK
<1>11. gi' \in [Masters -> InterrogationType]
  <2> SUFFICES ASSUME NEW m \in Masters
               PROVE  [gi[m] EXCEPT !.overtaken = @ \union {a}] \in InterrogationType
    BY DEF UpdateValue, Overtake
  <2>1. gi[m] \in InterrogationType
    BY DEF StoreInv, SDTypeOK
  <2> QED BY <1>4, <2>1 DEF InterrogationType
<1>12. SDTypeOK'
  BY <1>1, <1>7, <1>8, <1>9, <1>10, <1>11 DEF StoreInv, SDTypeOK
<1>13. ReadingIsTakenIn'
  BY <1>1, <1>9 DEF StoreInv, ReadingIsTakenIn, IsTakenIn
<1>14. MembersAgree'
  BY <1>1, <1>6, <1>7 DEF StoreInv, MembersAgree
<1>15. ValueIsLast'
  BY <1>3, <1>4, <1>6, <1>7, <1>8, FieldKeepsRange DEF StoreInv, ValueIsLast
<1>16. QualityIsLast'
  BY <1>1, <1>8, <1>9 DEF StoreInv, QualityIsLast, IsBeingWritten
<1> QED BY <1>12, <1>13, <1>14, <1>15, <1>16 DEF StoreInv

LEMMA UpdateQualityStep ==
    ASSUME StoreInv, UpdateQuality
    PROVE  StoreInv'
<1> DEFINE r == sending.reading
           a == r.address
<1>1. /\ sending.pc = "quality"
      /\ quality' = [quality EXCEPT ![a] = r.quality]
      /\ sending' = At("enqueue", r) \/ sending' = Idle
      /\ UNCHANGED <<running, value, queue, sent, open, gi, image, latest, current>>
  BY DEF UpdateQuality
<1>2. r \in Readings /\ r.quality \in Qualities /\ a \in Points /\ IsTakenIn(r)
  BY <1>1, ReadingFact, TargetFact DEF StoreInv, ReadingIsTakenIn
<1>3. /\ sending' \in SendingType
      /\ sending'.pc # "quality"
      /\ sending'.pc # "idle" => IsTakenIn(sending'.reading)
  BY <1>1, <1>2, AtType DEF Idle, SendingType
<1>4. /\ quality' \in [Points -> Qualities]
      /\ \A p \in Points : quality'[p] = IF p = a THEN r.quality ELSE quality[p]
  BY <1>1, <1>2 DEF StoreInv, SDTypeOK
<1>5. SDTypeOK'
  BY <1>1, <1>3, <1>4 DEF StoreInv, SDTypeOK
<1>6. ReadingIsTakenIn'
  BY <1>3 DEF ReadingIsTakenIn, IsTakenIn
<1>7. MembersAgree' /\ ValueIsLast'
  BY <1>1 DEF StoreInv, MembersAgree, ValueIsLast
<1>8. QualityIsLast'
  BY <1>1, <1>3, <1>4 DEF StoreInv, QualityIsLast, IsBeingWritten
<1> QED BY <1>5, <1>6, <1>7, <1>8 DEF StoreInv

\* The ASDU that send puts into the queues.
LEMMA NewEventFact ==
    ASSUME StoreInv, sending.pc = "enqueue"
    PROVE  LET a == sending.reading.address
               e == Event(a, SentMember(sending.reading.typeId))
           IN  /\ e \in EventType
               /\ e.point = a /\ e.member = DataType[a]
               /\ [v |-> e.v, q |-> e.q] = Stored(a)
<1> DEFINE a == sending.reading.address
<1>1. a \in Points /\ SentMember(sending.reading.typeId) = DataType[a] /\ DataType[a] \in DataTypes
  BY TargetFact
<1>2. value[a].v \in Int /\ quality[a] \in Qualities
  BY <1>1 DEF StoreInv, SDTypeOK, ValueType
<1> QED BY <1>1, <1>2 DEF Event, EventType, Stored

\* What a queue is after an ASDU was added: perhaps a first ASDU was dropped,
\* and the new one is the last.
LEMMA EnqueuedFact ==
    ASSUME StoreInv, NEW m \in Masters, NEW e \in EventType
    PROVE  \E d \in {0, 1} :
               /\ d = 1 <=> IsFull(m)
               /\ Enqueued(m, e) \in Seq(EventType)
               /\ Len(Enqueued(m, e)) = Len(queue[m]) + 1 - d
               /\ Len(Enqueued(m, e)) =< QueueSize /\ Len(Enqueued(m, e)) \in Nat \ {0}
               /\ Enqueued(m, e)[Len(Enqueued(m, e))] = e
               /\ \A i \in 1 .. Len(Enqueued(m, e)) - 1 : Enqueued(m, e)[i] = queue[m][i + d]
<1> DEFINE old == queue[m]
<1>1. old \in Seq(EventType) /\ Len(old) \in Nat /\ Len(old) =< QueueSize /\ QueueSize \in Nat \ {0}
  BY QueueAssumption DEF StoreInv, SDTypeOK
<1>2. CASE IsFull(m)
  <2>1. Len(old) >= 1
    BY <1>1, <1>2 DEF IsFull
  <2>2. /\ Tail(old) \in Seq(EventType)
        /\ Len(Tail(old)) = Len(old) - 1
        /\ \A i \in 1 .. Len(old) - 1 : Tail(old)[i] = old[i + 1]
    BY <1>1, <2>1
  <2>3. Enqueued(m, e) = Append(Tail(old), e)
    BY <1>2 DEF Enqueued
  <2> QED BY <1>1, <1>2, <2>1, <2>2, <2>3
<1>3. CASE ~IsFull(m)
  <2>1. Enqueued(m, e) = Append(old, e) /\ Len(old) # QueueSize
    BY <1>3 DEF Enqueued, IsFull
  <2> QED BY <1>1, <1>3, <2>1
<1> QED BY <1>2, <1>3

LEMMA EnqueueStep ==
    ASSUME StoreInv, m_enqueueSpontDatapoint
    PROVE  StoreInv'
<1> DEFINE a == sending.reading.address
           e == Event(a, SentMember(sending.reading.typeId))
<1>1. /\ sending.pc = "enqueue"
      /\ queue' = [m \in Masters |-> Enqueued(m, e)]
      /\ sent' = [m \in Masters |-> IF IsFull(m) /\ sent[m] > 0 THEN sent[m] - 1 ELSE sent[m]]
      /\ current' = [m \in Masters |-> (current[m] \ Dropped(m)) \union {a}]
      /\ sending' = Idle
      /\ UNCHANGED <<running, value, quality, open, gi, image, latest>>
  BY DEF m_enqueueSpontDatapoint
<1>2. e \in EventType /\ e.point = a /\ e.member = DataType[a] /\ a \in Points
  BY <1>1, NewEventFact, TargetFact
<1> HIDE DEF e
<1>3. \A m \in Masters : queue'[m] = Enqueued(m, e)
  BY <1>1
<1>4. ASSUME NEW m \in Masters
      PROVE  /\ queue'[m] \in Seq(EventType)
             /\ sent'[m] \in Nat
             /\ Len(queue'[m]) =< QueueSize /\ sent'[m] =< Len(queue'[m])
             /\ \A i \in 1 .. Len(queue'[m]) : queue'[m][i].member = DataType[queue'[m][i].point]
  <2>0. queue'[m] = Enqueued(m, e) /\ e \in EventType
    BY <1>2, <1>3
  <2>1. PICK d \in {0, 1} :
        /\ d = 1 <=> IsFull(m)
        /\ queue'[m] \in Seq(EventType)
        /\ Len(queue'[m]) = Len(queue[m]) + 1 - d
        /\ Len(queue'[m]) =< QueueSize
        /\ queue'[m][Len(queue'[m])] = e
        /\ \A i \in 1 .. Len(queue'[m]) - 1 : queue'[m][i] = queue[m][i + d]
    BY <2>0, EnqueuedFact
  <2>2. sent[m] \in Nat /\ sent[m] =< Len(queue[m]) /\ Len(queue[m]) \in Nat
    BY DEF StoreInv, SDTypeOK
  <2>3. sent'[m] = IF IsFull(m) /\ sent[m] > 0 THEN sent[m] - 1 ELSE sent[m]
    BY <1>1
  <2>4. \A i \in 1 .. Len(queue[m]) : queue[m][i].member = DataType[queue[m][i].point]
    BY DEF StoreInv, MembersAgree
  <2>5. ASSUME NEW i \in 1 .. Len(queue'[m])
        PROVE  queue'[m][i].member = DataType[queue'[m][i].point]
    <3>1. CASE i = Len(queue'[m])
      BY <1>2, <2>1, <3>1
    <3>2. CASE i # Len(queue'[m])
      <4>1. i \in 1 .. Len(queue'[m]) - 1 /\ i + d \in 1 .. Len(queue[m])
        BY <2>1, <2>2, <3>2
      <4> QED BY <2>1, <2>4, <4>1
    <3> QED BY <3>1, <3>2
  <2> QED BY <2>1, <2>2, <2>3, <2>5
<1>5. queue' \in [Masters -> Seq(EventType)] /\ sent' \in [Masters -> Nat]
  <2>1. queue' = [m \in Masters |-> queue'[m]] /\ sent' = [m \in Masters |-> sent'[m]]
    BY <1>1
  <2> QED BY <1>4, <2>1
<1>6. current' \in [Masters -> SUBSET Points]
  BY <1>1, <1>2 DEF StoreInv, SDTypeOK
<1>7. SDTypeOK'
  BY <1>1, <1>4, <1>5, <1>6 DEF StoreInv, SDTypeOK, SendingType
<1>8. MembersAgree'
  BY <1>1, <1>4 DEF StoreInv, MembersAgree
<1>9. ReadingIsTakenIn' /\ ValueIsLast' /\ QualityIsLast'
  BY <1>1 DEF StoreInv, ReadingIsTakenIn, ValueIsLast, QualityIsLast, IsBeingWritten, Idle
<1> QED BY <1>7, <1>8, <1>9 DEF StoreInv

-----------------------------------------------------------------------------
(* What a master knows *)

\* The next point of a walk is still to come.
LEMMA NextFact ==
    ASSUME StoreInv, NEW m \in Masters, WalkIsInOrder(m), HalfRead(m) \/ gi[m].rest # {}
    PROVE  NextPoint(m) \in gi[m].rest /\ NextPoint(m) \in Points
<1>1. gi[m].rest \subseteq Points
  BY DEF StoreInv, SDTypeOK, InterrogationType
<1> QED BY <1>1, NextPointFact DEF WalkIsInOrder

LEMMA SameNext ==
    ASSUME NEW m, gi'[m].rest = gi[m].rest
    PROVE  NextPoint(m)' = NextPoint(m)
  BY DEF NextPoint

\* A step that neither touches a data point nor a master.
LEMMA MasterFrame ==
    ASSUME NEW m \in Masters, MasterInv(m), UNCHANGED <<value, quality>>,
           \A p \in Points : IsBeingWritten(p)' <=> IsBeingWritten(p),
           gi'[m] = gi[m], queue'[m] = queue[m], sent'[m] = sent[m],
           image'[m] = image[m], current'[m] = current[m]
    PROVE  MasterInv(m)'
<1>1. NextPoint(m)' = NextPoint(m) /\ (HalfRead(m)' <=> HalfRead(m))
  BY SameNext DEF HalfRead
<1>2. \A p : Stored(p)' = Stored(p)
  BY DEF Stored
<1>3. \A p : Unsent(m, p)' = Unsent(m, p)
  BY DEF Unsent, Events
<1>4. WalkIsInOrder(m)'
  BY <1>1 DEF MasterInv, WalkIsInOrder
<1>5. ReadIsStored(m)'
  BY <1>1, <1>2 DEF MasterInv, ReadIsStored
<1>6. WrittenIsOvertaken(m)'
  BY <1>1 DEF MasterInv, WrittenIsOvertaken
<1>7. LastQueuedIsStored(m)'
  BY <1>2 DEF MasterInv, LastQueuedIsStored
<1>8. OvertakenIsQueued(m)' /\ MasterIsCurrent(m)'
  BY <1>2, <1>3 DEF MasterInv, OvertakenIsQueued, MasterIsCurrent
<1> QED BY <1>4, <1>5, <1>6, <1>7, <1>8 DEF MasterInv

\* send takes a reading: no master is concerned.
LEMMA TakeImage ==
    ASSUME ImageInv,
           (\E r \in Readings : DropReading(r) \/ TakeReading(r)) \/ CountDropped
    PROVE  ImageInv'
<1>1. /\ UNCHANGED <<value, quality, queue, sent, gi, image, current>>
      /\ sending.pc # "quality" /\ sending'.pc # "quality"
  BY DEF DropReading, TakeReading, CountDropped, Idle, At
<1>2. \A m \in Masters : MasterInv(m)'
  BY <1>1, MasterFrame DEF ImageInv, IsBeingWritten
<1> QED BY <1>2, TakeStep DEF ImageInv

\* The value of a point is written: nobody has it any longer, and who has
\* read it has been overtaken.
LEMMA UpdateValueImage ==
    ASSUME ImageInv, UpdateValue
    PROVE  ImageInv'
<1> DEFINE a == sending.reading.address
<1>1. StoreInv /\ StoreInv'
  BY UpdateValueStep DEF ImageInv
<1>2. /\ sending.pc = "value" /\ sending' = At("quality", sending.reading)
      /\ value' = [value EXCEPT ![a] = Written(sending.reading)]
      /\ current' = [m \in Masters |-> current[m] \ {a}]
      /\ gi' = [m \in Masters |-> [gi[m] EXCEPT !.overtaken = @ \union {a}]]
      /\ UNCHANGED <<quality, queue, sent, image>>
  BY DEF UpdateValue, Overtake
<1>3. \A p \in Points : ~IsBeingWritten(p) /\ (IsBeingWritten(p)' => p = a)
  BY <1>2 DEF IsBeingWritten, At
<1>4. a \in Points
  BY <1>1, <1>2, TargetFact
<1>5. \A p \in Points \ {a} : value'[p] = value[p] /\ Stored(p)' = Stored(p)
  BY <1>1, <1>2 DEF StoreInv, SDTypeOK, Stored
<1>6. ASSUME NEW m \in Masters PROVE MasterInv(m)'
  <2> USE DEF MasterInv
  <2>1. /\ current'[m] = current[m] \ {a} /\ current[m] \subseteq Points
        /\ gi'[m].pc = gi[m].pc /\ gi'[m].rest = gi[m].rest /\ gi'[m].v = gi[m].v
        /\ gi'[m].q = gi[m].q /\ gi'[m].elements = gi[m].elements
        /\ gi'[m].overtaken = gi[m].overtaken \union {a}
    <3>1. gi[m] \in InterrogationType /\ current[m] \subseteq Points
      BY <1>1 DEF StoreInv, SDTypeOK
    <3>2. gi'[m] = [gi[m] EXCEPT !.overtaken = @ \union {a}]
      BY <1>2
    <3> QED BY <1>2, <3>1, <3>2 DEF InterrogationType
  <2>2. NextPoint(m)' = NextPoint(m) /\ (HalfRead(m)' <=> HalfRead(m)) /\ MasterInv(m)
    BY <2>1, SameNext DEF HalfRead, ImageInv
  <2>3. \A p \in Points : Unsent(m, p)' = Unsent(m, p)
    BY <1>2 DEF Unsent, Events
  <2>4. WalkIsInOrder(m)'
    BY <2>1, <2>2 DEF WalkIsInOrder
  <2>5. ReadIsStored(m)'
    <3>1. \A e \in gi[m].elements : e.point \in Points
      BY <2>2 DEF WalkIsInOrder
    <3>2. HalfRead(m) => NextPoint(m) \in Points
      BY <1>1, <2>2, NextFact
    <3> QED BY <1>2, <1>5, <2>1, <2>2, <3>1, <3>2 DEF ReadIsStored
  <2>6. WrittenIsOvertaken(m)'
    BY <1>3, <2>1 DEF WrittenIsOvertaken
  <2>7. LastQueuedIsStored(m)'
    BY <1>2, <1>5, <2>1, <2>2 DEF LastQueuedIsStored
  <2>8. OvertakenIsQueued(m)'
    BY <2>1, <2>2, <2>3 DEF OvertakenIsQueued
  <2>9. MasterIsCurrent(m)'
    BY <1>2, <1>5, <2>1, <2>2, <2>3 DEF MasterIsCurrent
  <2> QED BY <2>4, <2>5, <2>6, <2>7, <2>8, <2>9
<1> QED BY <1>1, <1>6 DEF ImageInv

\* Its quality is written.
LEMMA UpdateQualityImage ==
    ASSUME ImageInv, UpdateQuality
    PROVE  ImageInv'
<1> DEFINE a == sending.reading.address
<1>1. StoreInv /\ StoreInv'
  BY UpdateQualityStep DEF ImageInv
<1>2. /\ sending.pc = "quality" /\ sending'.pc # "quality"
      /\ quality' = [quality EXCEPT ![a] = sending.reading.quality]
      /\ UNCHANGED <<value, queue, sent, gi, image, current>>
  BY DEF UpdateQuality, Idle, At
<1>3. a \in Points /\ IsBeingWritten(a) /\ \A p \in Points : ~IsBeingWritten(p)'
  BY <1>1, <1>2, TargetFact DEF IsBeingWritten
<1>4. \A p \in Points \ {a} : quality'[p] = quality[p] /\ Stored(p)' = Stored(p)
  BY <1>1, <1>2 DEF StoreInv, SDTypeOK, Stored
<1>5. ASSUME NEW m \in Masters PROVE MasterInv(m)'
  <2> USE DEF MasterInv
  <2>1. NextPoint(m)' = NextPoint(m) /\ (HalfRead(m)' <=> HalfRead(m)) /\ MasterInv(m)
    BY <1>2, SameNext DEF HalfRead, ImageInv
  <2>2. /\ a \notin current[m] /\ current[m] \subseteq Points
        /\ (\E e \in gi[m].elements : e.point = a) => a \in gi[m].overtaken
        /\ HalfRead(m) /\ NextPoint(m) = a => a \in gi[m].overtaken
    BY <1>1, <1>3, <2>1 DEF WrittenIsOvertaken, StoreInv, SDTypeOK
  <2>3. \A p \in Points : Unsent(m, p)' = Unsent(m, p)
    BY <1>2 DEF Unsent, Events
  <2>4. WalkIsInOrder(m)'
    BY <1>2, <2>1 DEF WalkIsInOrder
  <2>5. ReadIsStored(m)'
    <3>1. \A e \in gi[m].elements : e.point \in Points
      BY <2>1 DEF WalkIsInOrder
    <3>2. HalfRead(m) => NextPoint(m) \in Points
      BY <1>1, <2>1, NextFact
    <3> QED BY <1>2, <1>4, <2>1, <2>2, <3>1, <3>2 DEF ReadIsStored
  <2>6. WrittenIsOvertaken(m)'
    BY <1>3 DEF WrittenIsOvertaken
  <2>7. LastQueuedIsStored(m)'
    BY <1>2, <1>4, <2>1, <2>2 DEF LastQueuedIsStored
  <2>8. OvertakenIsQueued(m)'
    BY <1>2, <2>1, <2>2, <2>3 DEF OvertakenIsQueued
  <2>9. MasterIsCurrent(m)'
    BY <1>2, <1>4, <2>1, <2>2, <2>3 DEF MasterIsCurrent
  <2> QED BY <2>4, <2>5, <2>6, <2>7, <2>8, <2>9
<1> QED BY <1>1, <1>5 DEF ImageInv

\* The ASDU is put into the queues: the last one for its point says what is
\* stored, and a point whose ASDUs are all dropped is no longer current.
LEMMA EnqueueImage ==
    ASSUME ImageInv, m_enqueueSpontDatapoint
    PROVE  ImageInv'
<1> DEFINE a == sending.reading.address
           e == Event(a, SentMember(sending.reading.typeId))
<1>1. StoreInv /\ StoreInv'
  BY EnqueueStep DEF ImageInv
<1>2. /\ sending.pc = "enqueue" /\ sending'.pc = "idle"
      /\ queue' = [m \in Masters |-> Enqueued(m, e)]
      /\ sent' = [m \in Masters |-> IF IsFull(m) /\ sent[m] > 0 THEN sent[m] - 1 ELSE sent[m]]
      /\ current' = [m \in Masters |-> (current[m] \ Dropped(m)) \union {a}]
      /\ UNCHANGED <<value, quality, gi, image>>
  BY DEF m_enqueueSpontDatapoint, Idle
<1>3. /\ e \in EventType /\ e.point = a /\ a \in Points
      /\ [v |-> e.v, q |-> e.q] = Stored(a)
  BY <1>1, <1>2, NewEventFact, TargetFact
<1> HIDE DEF e
<1>4. \A p : Stored(p)' = Stored(p)
  BY <1>2 DEF Stored
<1>5. \A p \in Points : ~IsBeingWritten(p) /\ ~IsBeingWritten(p)'
  BY <1>2 DEF IsBeingWritten
<1>6. ASSUME NEW m \in Masters PROVE MasterInv(m)'
  <2> USE DEF MasterInv
  <2>1. NextPoint(m)' = NextPoint(m) /\ (HalfRead(m)' <=> HalfRead(m)) /\ MasterInv(m)
    BY <1>2, SameNext DEF HalfRead, ImageInv
  <2>2. queue'[m] = Enqueued(m, e)
    BY <1>2
  <2>3. PICK d \in {0, 1} :
        /\ d = 1 <=> IsFull(m)
        /\ queue'[m] \in Seq(EventType)
        /\ Len(queue'[m]) = Len(queue[m]) + 1 - d
        /\ Len(queue'[m]) =< QueueSize /\ Len(queue'[m]) \in Nat \ {0}
        /\ queue'[m][Len(queue'[m])] = e
        /\ \A i \in 1 .. Len(queue'[m]) - 1 : queue'[m][i] = queue[m][i + d]
    BY <1>1, <1>3, <2>2, EnqueuedFact
  <2>4. /\ sent[m] \in Nat /\ sent[m] =< Len(queue[m]) /\ Len(queue[m]) \in Nat
        /\ current[m] \subseteq Points
    BY <1>1 DEF StoreInv, SDTypeOK
  <2>5. sent'[m] = IF d = 1 /\ sent[m] > 0 THEN sent[m] - 1 ELSE sent[m]
    BY <1>2, <2>3
  <2>6. /\ \A p \in current'[m] : p # a => p \in current[m] \ Dropped(m)
        /\ current'[m] \subseteq Points
    BY <1>2, <1>3, <2>4
  <2>7. ASSUME NEW p, p = a PROVE Len(queue'[m]) \in Unsent(m, p)'
    <3>1. Len(queue'[m]) \in 1 .. Len(queue'[m]) /\ Len(queue'[m]) > sent'[m]
      BY <2>3, <2>4, <2>5
    <3>2. queue'[m][Len(queue'[m])].point = p
      BY <1>3, <2>3, <2>7
    <3> QED BY <3>1, <3>2 DEF Unsent, Events
  <2>8. ASSUME NEW p \in current'[m], p # a, Unsent(m, p) # {}
        PROVE  Unsent(m, p)' # {}
    <3>1. PICK i \in 1 .. Len(queue[m]) : i > sent[m] /\ queue[m][i].point = p
      BY <2>8 DEF Unsent, Events
    <3>2. ASSUME NEW j \in 1 .. Len(queue[m]), j > d, j > sent[m], queue[m][j].point = p
          PROVE  j - d \in Unsent(m, p)'
      <4>1. j - d \in 1 .. Len(queue'[m]) - 1 /\ (j - d) + d = j /\ j - d > sent'[m]
        BY <2>3, <2>4, <2>5, <3>2
      <4>2. queue'[m][j - d] = queue[m][j]
        BY <2>3, <4>1
      <4>3. j - d \in 1 .. Len(queue'[m])
        BY <2>3, <2>4, <4>1
      <4> QED BY <3>2, <4>1, <4>2, <4>3 DEF Unsent, Events
    <3>3. CASE i > d
      BY <3>1, <3>2, <3>3
    <3>4. CASE i =< d
      <4>1. i = 1 /\ d = 1 /\ sent[m] = 0 /\ IsFull(m)
        BY <2>3, <2>4, <3>1, <3>4
      <4>2. Head(queue[m]).point = p
        BY <3>1, <4>1
      <4>3. Events(m, p) # {1}
        BY <2>6, <2>8, <4>1, <4>2 DEF Dropped
      <4>4. PICK j \in 1 .. Len(queue[m]) : j # 1 /\ queue[m][j].point = p
        BY <3>1, <4>1, <4>3 DEF Events
      <4> QED BY <2>4, <3>2, <4>1, <4>4
    <3> QED BY <2>3, <2>4, <3>3, <3>4
  <2>9. WalkIsInOrder(m)' /\ ReadIsStored(m)'
    BY <1>2, <1>4, <2>1 DEF WalkIsInOrder, ReadIsStored
  <2>10. WrittenIsOvertaken(m)'
    BY <1>5 DEF WrittenIsOvertaken
  <2>11. LastQueuedIsStored(m)'
    <3> SUFFICES ASSUME NEW p \in current'[m], NEW i \in 1 .. Len(queue'[m]),
                        queue'[m][i].point = p,
                        \A j \in i + 1 .. Len(queue'[m]) : queue'[m][j].point # p
                 PROVE  [v |-> queue'[m][i].v, q |-> queue'[m][i].q] = Stored(p)
      BY <1>4 DEF LastQueuedIsStored
    <3>1. CASE i = Len(queue'[m])
      BY <1>3, <2>3, <3>1
    <3>2. CASE i # Len(queue'[m])
      <4>0. i \in 1 .. Len(queue'[m]) - 1 /\ Len(queue'[m]) \in i + 1 .. Len(queue'[m])
        BY <2>3, <3>2
      <4>1. p # a
        BY <1>3, <2>3, <4>0
      <4>2. i + d \in 1 .. Len(queue[m]) /\ queue[m][i + d] = queue'[m][i]
        BY <2>3, <2>4, <4>0
      <4>3. ASSUME NEW k \in i + d + 1 .. Len(queue[m]) PROVE queue[m][k].point # p
        <5>1. /\ k - d \in i + 1 .. Len(queue'[m]) /\ k - d \in 1 .. Len(queue'[m]) - 1
              /\ (k - d) + d = k
          BY <2>3, <2>4, <4>3
        <5> QED BY <2>3, <5>1
      <4>4. p \in current[m]
        BY <2>6, <4>1
      <4> QED BY <2>1, <4>2, <4>3, <4>4 DEF LastQueuedIsStored
    <3> QED BY <3>1, <3>2
  <2>12. ASSUME NEW p \in current'[m], Unsent(m, p)' = {}
         PROVE  p \in current[m] /\ Unsent(m, p) = {}
    <3>1. p # a
      BY <2>7, <2>12
    <3> QED BY <2>6, <2>8, <2>12, <3>1
  <2>13. OvertakenIsQueued(m)'
    BY <1>2, <2>1, <2>12 DEF OvertakenIsQueued
  <2>14. MasterIsCurrent(m)'
    BY <1>2, <1>4, <2>1, <2>12 DEF MasterIsCurrent
  <2> QED BY <2>9, <2>10, <2>11, <2>13, <2>14
<1> QED BY <1>1, <1>6 DEF ImageInv

-----------------------------------------------------------------------------
(* Interrogations *)

LEMMA GiFact ==
    ASSUME StoreInv, NEW m \in Masters
    PROVE  /\ gi[m] \in InterrogationType
           /\ gi[m].rest \subseteq Points /\ gi[m].overtaken \subseteq Points
           /\ gi[m].elements \subseteq EventType
           /\ gi[m].v \in Int /\ gi[m].q \in Qualities
           /\ current[m] \subseteq Points
           /\ \A p \in Points : value[p].v \in Int /\ quality[p] \in Qualities
  BY DEF StoreInv, SDTypeOK, InterrogationType, ValueType

\* A step of the interrogation of m that sends nothing.
LEMMA WalkStep ==
    ASSUME ImageInv, NEW m \in Masters, NEW g \in InterrogationType,
           gi' = [gi EXCEPT ![m] = g],
           UNCHANGED <<running, value, quality, sending, queue, sent, open, image,
                       latest, current>>,
           WalkIsInOrder(m)', ReadIsStored(m)', WrittenIsOvertaken(m)', OvertakenIsQueued(m)'
    PROVE  ImageInv'
<1>1. gi' \in [Masters -> InterrogationType]
  BY DEF ImageInv, StoreInv, SDTypeOK
<1>2. StoreInv'
  <2>1. SDTypeOK'
    BY <1>1 DEF ImageInv, StoreInv, SDTypeOK
  <2> QED BY <2>1, OtherStep DEF ImageInv, StoreInv, MembersAgree
<1>3. \A p \in Points : IsBeingWritten(p)' <=> IsBeingWritten(p)
  BY DEF IsBeingWritten
<1>4. ASSUME NEW n \in Masters, n # m PROVE MasterInv(n)'
  <2>1. gi'[n] = gi[n]
    BY <1>4 DEF ImageInv, StoreInv, SDTypeOK
  <2> QED BY <1>3, <2>1, MasterFrame DEF ImageInv
<1>5. MasterInv(m)'
  <2>1. LastQueuedIsStored(m)'
    BY DEF ImageInv, MasterInv, LastQueuedIsStored, Stored
  <2>2. MasterIsCurrent(m)'
    BY DEF ImageInv, MasterInv, MasterIsCurrent, Stored, Unsent, Events
  <2> QED BY <2>1, <2>2 DEF MasterInv
<1> QED BY <1>2, <1>4, <1>5 DEF ImageInv

LEMMA NothingReadType == NoInterrogation \in InterrogationType
  BY DEF NoInterrogation, Interrogation, InterrogationType, Qualities

\* An interrogation begins, or has ended: nothing has been read or overtaken.
LEMMA BetweenInterrogations ==
    ASSUME ImageInv, NEW m \in Masters, Interrogate(m) \/ EndInterrogation(m)
    PROVE  ImageInv'
<1> DEFINE g == gi'[m]
<1>1. StoreInv
  BY DEF ImageInv
<1>2. UNCHANGED <<running, value, quality, sending, queue, sent, open, image, latest, current>>
  BY DEF Interrogate, EndInterrogation
<1>3. PICK h \in InterrogationType :
          /\ gi' = [gi EXCEPT ![m] = h]
          /\ h.pc \in {"idle", "walk"} /\ h.elements = {} /\ h.overtaken = {}
  <2>1. CASE Interrogate(m)
    <3>1. gi' = [gi EXCEPT ![m] = Interrogation("walk", Reported)]
      BY <2>1 DEF Interrogate
    <3>2. Interrogation("walk", Reported) \in InterrogationType
      BY PointAssumption DEF Interrogation, InterrogationType, Qualities
    <3> QED BY <3>1, <3>2 DEF Interrogation
  <2>2. CASE EndInterrogation(m)
    BY <2>2, NothingReadType DEF EndInterrogation, NoInterrogation, Interrogation
  <2> QED BY <2>1, <2>2
<1>4. g = h
  BY <1>1, <1>3 DEF StoreInv, SDTypeOK
<1>5. ~HalfRead(m)'
  BY <1>3, <1>4 DEF HalfRead
<1>6. /\ WalkIsInOrder(m)' /\ ReadIsStored(m)'
      /\ WrittenIsOvertaken(m)' /\ OvertakenIsQueued(m)'
  <2>1. /\ \A p \in Points : IsBeingWritten(p)' => IsBeingWritten(p)
        /\ \A p \in Points : IsBeingWritten(p) => p \notin current[m]
    BY <1>2 DEF IsBeingWritten, ImageInv, MasterInv, WrittenIsOvertaken
  <2>2. gi'[m].elements = {} /\ gi'[m].overtaken = {}
    BY <1>3, <1>4
  <2> QED BY <1>2, <1>5, <2>1, <2>2
          DEF WalkIsInOrder, ReadIsStored, WrittenIsOvertaken, OvertakenIsQueued
<1> QED BY <1>2, <1>3, <1>6, WalkStep

\* The first half of a point is read: whether it is overtaken is known from
\* whether it is being written.
LEMMA ReadFirstImage ==
    ASSUME ImageInv, NEW m \in Masters, ReadFirst(m)
    PROVE  ImageInv'
<1> DEFINE p == NextPoint(m)
           over == IF IsBeingWritten(p) THEN gi[m].overtaken \union {p}
                                        ELSE gi[m].overtaken \ {p}
<1>1. StoreInv /\ MasterInv(m)
  BY DEF ImageInv
<1>2. /\ gi[m].pc = "walk" /\ gi[m].rest # {}
      /\ UNCHANGED <<running, value, quality, sending, queue, sent, open, image,
                     latest, current>>
      /\ \/ gi' = [gi EXCEPT ![m] = [@ EXCEPT !.pc = "value_read", !.v = value[p].v,
                                              !.overtaken = over]]
         \/ gi' = [gi EXCEPT ![m] = [@ EXCEPT !.pc = "quality_read", !.q = quality[p],
                                              !.overtaken = over]]
  BY DEF ReadFirst
<1>3. p \in gi[m].rest /\ p \in Points
  BY <1>1, <1>2, NextFact DEF MasterInv
<1>4. over \subseteq Points
  BY <1>1, <1>3, GiFact
<1> HIDE DEF over
<1>5. PICK g \in InterrogationType :
          /\ gi' = [gi EXCEPT ![m] = g]
          /\ g.rest = gi[m].rest /\ g.elements = gi[m].elements /\ g.overtaken = over
          /\ \/ g.pc = "value_read" /\ g.v = value[p].v
             \/ g.pc = "quality_read" /\ g.q = quality[p]
  <2> DEFINE g1 == [gi[m] EXCEPT !.pc = "value_read", !.v = value[p].v, !.overtaken = over]
             g2 == [gi[m] EXCEPT !.pc = "quality_read", !.q = quality[p], !.overtaken = over]
  <2>1. value[p].v \in Int /\ quality[p] \in Qualities /\ gi[m] \in InterrogationType
    BY <1>1, <1>3, GiFact
  <2>2. /\ g1 \in InterrogationType
        /\ g1.rest = gi[m].rest /\ g1.elements = gi[m].elements /\ g1.overtaken = over
        /\ g1.pc = "value_read" /\ g1.v = value[p].v
    BY <1>4, <2>1 DEF InterrogationType
  <2>3. /\ g2 \in InterrogationType
        /\ g2.rest = gi[m].rest /\ g2.elements = gi[m].elements /\ g2.overtaken = over
        /\ g2.pc = "quality_read" /\ g2.q = quality[p]
    BY <1>4, <2>1 DEF InterrogationType
  <2>4. gi' = [gi EXCEPT ![m] = g1] \/ gi' = [gi EXCEPT ![m] = g2]
    BY <1>2
  <2> QED BY <2>2, <2>3, <2>4
<1>6. gi'[m] = g
  BY <1>1, <1>5 DEF StoreInv, SDTypeOK
<1>7. NextPoint(m)' = p /\ HalfRead(m)' /\ ~HalfRead(m)
  BY <1>2, <1>5, <1>6, SameNext DEF HalfRead
<1>8. \A x \in Points : IsBeingWritten(x)' <=> IsBeingWritten(x)
  BY <1>2 DEF IsBeingWritten
<1>9. /\ \A e \in gi[m].elements : e.point \in Points \ gi[m].rest
      /\ \A x \in Points \ {p} : x \in over <=> x \in gi[m].overtaken
      /\ p \in over <=> IsBeingWritten(p)
  BY <1>1 DEF MasterInv, WalkIsInOrder, over
<1>10. WalkIsInOrder(m)'
  BY <1>1, <1>3, <1>5, <1>6, <1>7 DEF MasterInv, WalkIsInOrder
<1>11. ReadIsStored(m)'
  BY <1>1, <1>2, <1>3, <1>5, <1>6, <1>7, <1>9 DEF MasterInv, ReadIsStored, Stored
<1>12. WrittenIsOvertaken(m)'
  BY <1>1, <1>2, <1>3, <1>5, <1>6, <1>7, <1>8, <1>9 DEF MasterInv, WrittenIsOvertaken
<1>13. OvertakenIsQueued(m)'
  <2>1. ASSUME NEW x \in current[m], x \in over PROVE Unsent(m, x) # {}
    <3>1. x \in Points /\ x # p
      BY <1>1, <1>9, <2>1, GiFact DEF MasterInv, WrittenIsOvertaken
    <3> QED BY <1>1, <1>2, <1>9, <2>1, <3>1 DEF MasterInv, OvertakenIsQueued
  <2> QED BY <1>2, <1>5, <1>6, <2>1 DEF OvertakenIsQueued, Unsent, Events
<1> QED BY <1>2, <1>5, <1>10, <1>11, <1>12, <1>13, WalkStep

\* The second half is read: what was read first still holds unless the point
\* was overtaken.
LEMMA ReadSecondImage ==
    ASSUME ImageInv, NEW m \in Masters, ReadSecond(m)
    PROVE  ImageInv'
<1> DEFINE p == NextPoint(m)
<1>1. StoreInv /\ MasterInv(m)
  BY DEF ImageInv
<1>2. /\ HalfRead(m)
      /\ UNCHANGED <<running, value, quality, sending, queue, sent, open, image,
                     latest, current>>
      /\ gi' = [gi EXCEPT ![m] = [pc |-> "walk", rest |-> @.rest \ {p},
                                  v |-> 0, q |-> "initial",
                                  elements |-> @.elements \union {ReadElement(m)},
                                  overtaken |-> @.overtaken]]
  BY DEF ReadSecond, HalfRead
<1>3. p \in gi[m].rest /\ p \in Points
  BY <1>1, <1>2, NextFact DEF MasterInv
<1>4. /\ ReadElement(m) \in EventType /\ ReadElement(m).point = p
      /\ p \notin gi[m].overtaken =>
             [v |-> ReadElement(m).v, q |-> ReadElement(m).q] = Stored(p)
  <2>1. DataType[p] \in DataTypes
    BY <1>3, PointAssumption
  <2>2. ReadElement(m) = IF gi[m].pc = "value_read" THEN Element(p, gi[m].v, quality[p])
                                                    ELSE Element(p, value[p].v, gi[m].q)
    BY DEF ReadElement
  <2>3. p \notin gi[m].overtaken =>
            IF gi[m].pc = "value_read" THEN gi[m].v = value[p].v ELSE gi[m].q = quality[p]
    BY <1>1, <1>2 DEF MasterInv, ReadIsStored
  <2>4. /\ gi[m].v \in Int /\ gi[m].q \in Qualities
        /\ value[p].v \in Int /\ quality[p] \in Qualities
    BY <1>1, <1>3, GiFact
  <2>5. p \in Points
    BY <1>3
  <2> HIDE DEF p
  <2>6. CASE gi[m].pc = "value_read"
    BY <2>1, <2>2, <2>3, <2>4, <2>5, <2>6 DEF Element, EventType, Stored
  <2>7. CASE gi[m].pc # "value_read"
    BY <2>1, <2>2, <2>3, <2>4, <2>5, <2>7 DEF Element, EventType, Stored
  <2> QED BY <2>6, <2>7
<1>5. PICK g \in InterrogationType :
          /\ gi' = [gi EXCEPT ![m] = g]
          /\ g.pc = "walk" /\ g.rest = gi[m].rest \ {p}
          /\ g.elements = gi[m].elements \union {ReadElement(m)}
          /\ g.overtaken = gi[m].overtaken
  <2> DEFINE elements == gi[m].elements \union {ReadElement(m)}
             g == [pc |-> "walk", rest |-> gi[m].rest \ {p}, v |-> 0, q |-> "initial",
                   elements |-> elements, overtaken |-> gi[m].overtaken]
  <2>1. gi' = [gi EXCEPT ![m] = g]
    BY <1>2
  <2>2. elements \subseteq EventType /\ gi[m].rest \subseteq Points
        /\ gi[m].overtaken \subseteq Points
    BY <1>1, <1>4, GiFact
  <2>3. /\ g \in InterrogationType
        /\ g.pc = "walk" /\ g.rest = gi[m].rest \ {p}
        /\ g.elements = gi[m].elements \union {ReadElement(m)}
        /\ g.overtaken = gi[m].overtaken
    BY <2>2 DEF InterrogationType, Qualities
  <2> HIDE DEF g
  <2> QED BY <2>1, <2>3
<1>6. gi'[m] = g
  BY <1>1, <1>5 DEF StoreInv, SDTypeOK
<1>7. ~HalfRead(m)' /\ \A x \in Points : IsBeingWritten(x)' <=> IsBeingWritten(x)
  BY <1>2, <1>5, <1>6 DEF HalfRead, IsBeingWritten
<1>8. gi'[m].elements = gi[m].elements \union {ReadElement(m)}
  BY <1>5, <1>6
<1>9. /\ \A e \in gi[m].elements : e.point \in Points \ gi[m].rest
      /\ \A e, f \in gi[m].elements : e.point = f.point => e = f
  BY <1>1 DEF MasterInv, WalkIsInOrder
<1>10. WalkIsInOrder(m)'
  BY <1>3, <1>4, <1>5, <1>6, <1>7, <1>8, <1>9 DEF WalkIsInOrder
<1>11. ReadIsStored(m)'
  BY <1>1, <1>2, <1>4, <1>5, <1>6, <1>7, <1>8 DEF MasterInv, ReadIsStored, Stored
<1>12. WrittenIsOvertaken(m)'
  BY <1>1, <1>2, <1>4, <1>5, <1>6, <1>7, <1>8 DEF MasterInv, WrittenIsOvertaken
<1>13. OvertakenIsQueued(m)'
  BY <1>1, <1>2, <1>5, <1>6 DEF MasterInv, OvertakenIsQueued, Unsent, Events, HalfRead
<1> QED BY <1>2, <1>5, <1>10, <1>11, <1>12, <1>13, WalkStep

\* A step of m alone that may change anything of it but what it is told by
\* the data points.
LEMMA OwnStep ==
    ASSUME ImageInv, NEW m \in Masters,
           UNCHANGED <<running, value, quality, sending, latest>>,
           open' \in [Masters -> BOOLEAN],
           gi'[m] \in InterrogationType, gi' = [gi EXCEPT ![m] = gi'[m]],
           queue'[m] \in Seq(EventType), queue' = [queue EXCEPT ![m] = queue'[m]],
           sent'[m] \in Nat, sent' = [sent EXCEPT ![m] = sent'[m]],
           image'[m] \in [Points -> ImageType], image' = [image EXCEPT ![m] = image'[m]],
           current'[m] \in SUBSET Points, current' = [current EXCEPT ![m] = current'[m]],
           Len(queue'[m]) =< QueueSize, sent'[m] =< Len(queue'[m]),
           \A k \in 1 .. Len(queue'[m]) : queue'[m][k].member = DataType[queue'[m][k].point],
           MasterInv(m)'
    PROVE  ImageInv'
<1>1. StoreInv
  BY DEF ImageInv
<1>2. /\ gi' \in [Masters -> InterrogationType] /\ queue' \in [Masters -> Seq(EventType)]
      /\ sent' \in [Masters -> Nat] /\ image' \in [Masters -> [Points -> ImageType]]
      /\ current' \in [Masters -> SUBSET Points]
  BY <1>1 DEF StoreInv, SDTypeOK
<1>3. \A n \in Masters \ {m} : /\ gi'[n] = gi[n] /\ queue'[n] = queue[n]
                               /\ sent'[n] = sent[n] /\ image'[n] = image[n]
                               /\ current'[n] = current[n]
  BY <1>1 DEF StoreInv, SDTypeOK
<1>4. \A n \in Masters : /\ Len(queue'[n]) =< QueueSize /\ sent'[n] =< Len(queue'[n])
                         /\ \A k \in 1 .. Len(queue'[n]) :
                               queue'[n][k].member = DataType[queue'[n][k].point]
  BY <1>1, <1>3 DEF StoreInv, SDTypeOK, MembersAgree
<1>5. SDTypeOK'
  BY <1>1, <1>2, <1>4 DEF StoreInv, SDTypeOK
<1>6. StoreInv'
  BY <1>1, <1>4, <1>5, OtherStep
<1>7. \A p \in Points : IsBeingWritten(p)' <=> IsBeingWritten(p)
  BY DEF IsBeingWritten
<1>8. ASSUME NEW n \in Masters, n # m PROVE MasterInv(n)'
  BY <1>3, <1>7, <1>8, MasterFrame DEF ImageInv
<1> QED BY <1>6, <1>8 DEF ImageInv

\* What OwnStep asks of what m has.
LEMMA OwnFact ==
    ASSUME StoreInv, NEW m \in Masters
    PROVE  /\ open \in [Masters -> BOOLEAN]
           /\ gi[m] \in InterrogationType /\ gi = [gi EXCEPT ![m] = gi[m]]
           /\ queue[m] \in Seq(EventType) /\ queue = [queue EXCEPT ![m] = queue[m]]
           /\ sent[m] \in Nat /\ sent = [sent EXCEPT ![m] = sent[m]]
           /\ image[m] \in [Points -> ImageType] /\ image = [image EXCEPT ![m] = image[m]]
           /\ current[m] \in SUBSET Points /\ current = [current EXCEPT ![m] = current[m]]
           /\ Len(queue[m]) =< QueueSize /\ sent[m] =< Len(queue[m]) /\ Len(queue[m]) \in Nat
           /\ \A k \in 1 .. Len(queue[m]) : queue[m][k].member = DataType[queue[m][k].point]
<1>1. /\ open \in [Masters -> BOOLEAN] /\ gi \in [Masters -> InterrogationType]
      /\ image \in [Masters -> [Points -> ImageType]] /\ current \in [Masters -> SUBSET Points]
      /\ queue \in [Masters -> Seq(EventType)] /\ sent \in [Masters -> Nat]
  BY DEF StoreInv, SDTypeOK
<1>2. /\ Len(queue[m]) =< QueueSize /\ sent[m] =< Len(queue[m])
      /\ \A k \in 1 .. Len(queue[m]) : queue[m][k].member = DataType[queue[m][k].point]
  BY DEF StoreInv, SDTypeOK, MembersAgree
<1>3. gi[m] \in InterrogationType /\ gi = [gi EXCEPT ![m] = gi[m]]
  BY <1>1
<1>4. /\ queue[m] \in Seq(EventType) /\ queue = [queue EXCEPT ![m] = queue[m]]
      /\ Len(queue[m]) \in Nat
  BY <1>1
<1>5. sent[m] \in Nat /\ sent = [sent EXCEPT ![m] = sent[m]]
  BY <1>1
<1>6. image[m] \in [Points -> ImageType] /\ image = [image EXCEPT ![m] = image[m]]
  BY <1>1
<1>7. current[m] \in SUBSET Points /\ current = [current EXCEPT ![m] = current[m]]
  BY <1>1
<1> QED BY <1>1, <1>2, <1>3, <1>4, <1>5, <1>6, <1>7

\* A part of the interrogation is sent: what was overtaken is in the queue or
\* was not current before.
LEMMA SendASDUImage ==
    ASSUME ImageInv, NEW m \in Masters, SendASDU(m)
    PROVE  ImageInv'
<1> DEFINE told == {e.point : e \in gi[m].elements}
           read(p) == CHOOSE e \in gi[m].elements : e.point = p
           i == [p \in Points |-> IF p \in told THEN [v |-> read(p).v, q |-> read(p).q]
                                                ELSE image[m][p]]
           fresh == {p \in told \ gi[m].overtaken : Events(m, p) = {}}
           g == [gi[m] EXCEPT !.elements = {}]
<1>1. StoreInv /\ MasterInv(m)
  BY DEF ImageInv
<1>2. /\ gi[m].pc = "walk"
      /\ UNCHANGED <<running, value, quality, sending, queue, sent, open, latest>>
      /\ image' = [image EXCEPT ![m] = i]
      /\ current' = [current EXCEPT ![m] = current[m] \union fresh]
      /\ gi' = [gi EXCEPT ![m] = g]
  BY DEF SendASDU
<1>3. /\ g \in InterrogationType /\ g.pc = "walk" /\ g.rest = gi[m].rest
      /\ g.elements = {} /\ g.overtaken = gi[m].overtaken
  <2>1. gi[m] \in InterrogationType
    BY <1>1, GiFact
  <2> QED BY <1>2, <2>1 DEF InterrogationType
<1>4. \A e \in gi[m].elements : e \in EventType /\ e.point \in Points
  BY <1>1, GiFact DEF EventType
<1>5. \A p \in told : read(p) \in gi[m].elements /\ read(p).point = p
  OBVIOUS
<1>6. told \subseteq Points /\ fresh \subseteq told \ gi[m].overtaken
  BY <1>4
<1>7. \A p \in told : p \notin gi[m].overtaken => [v |-> read(p).v, q |-> read(p).q] = Stored(p)
  BY <1>1, <1>5 DEF MasterInv, ReadIsStored
<1> HIDE DEF g, read
<1>8. i \in [Points -> ImageType]
  <2>1. \A p \in told : [v |-> read(p).v, q |-> read(p).q] \in ImageType
    BY <1>4, <1>5 DEF EventType, ImageType
  <2>2. image[m] \in [Points -> ImageType]
    BY <1>1, OwnFact
  <2> QED BY <2>1, <2>2
<1>9. \A p \in Points : i[p] = IF p \in told THEN [v |-> read(p).v, q |-> read(p).q]
                                             ELSE image[m][p]
  OBVIOUS
<1> HIDE DEF i
<1>10. /\ gi'[m] = g /\ image'[m] = i /\ current'[m] = current[m] \union fresh
       /\ current[m] \subseteq Points
  BY <1>1, <1>2 DEF StoreInv, SDTypeOK
<1>11. \A p \in fresh : p \notin gi[m].overtaken /\ Events(m, p) = {} /\ p \in told
  OBVIOUS
<1> HIDE DEF fresh
<1>12. MasterInv(m)'
  <2>1. /\ ~HalfRead(m)' /\ \A p : Stored(p)' = Stored(p) /\ Unsent(m, p)' = Unsent(m, p)
        /\ \A p \in Points : IsBeingWritten(p)' <=> IsBeingWritten(p)
    BY <1>2, <1>3, <1>10 DEF HalfRead, Stored, Unsent, Events, IsBeingWritten
  <2>2. WalkIsInOrder(m)' /\ ReadIsStored(m)'
    BY <1>3, <1>10, <2>1 DEF WalkIsInOrder, ReadIsStored
  <2>3. WrittenIsOvertaken(m)'
    <3> SUFFICES ASSUME NEW p \in Points, IsBeingWritten(p) PROVE p \notin current[m] \union fresh
      BY <1>3, <1>10, <2>1 DEF WrittenIsOvertaken
    <3> QED BY <1>1, <1>11 DEF MasterInv, WrittenIsOvertaken
  <2>4. LastQueuedIsStored(m)'
    <3>1. \A p \in fresh : \A k \in 1 .. Len(queue[m]) : queue[m][k].point # p
      BY <1>11 DEF Events
    <3> QED BY <1>1, <1>2, <1>10, <2>1, <3>1 DEF MasterInv, LastQueuedIsStored
  <2>5. OvertakenIsQueued(m)'
    BY <1>1, <1>2, <1>3, <1>10, <1>11, <2>1 DEF MasterInv, OvertakenIsQueued
  <2>6. MasterIsCurrent(m)'
    <3> SUFFICES ASSUME NEW p \in current[m] \union fresh, Unsent(m, p) = {}
                 PROVE  i[p] = Stored(p)
      BY <1>10, <2>1 DEF MasterIsCurrent
    <3>1. p \in Points
      BY <1>6, <1>10, <1>11
    <3>2. CASE p \in told
      <4>1. p \notin gi[m].overtaken
        BY <1>1, <1>2, <1>11 DEF MasterInv, OvertakenIsQueued
      <4> QED BY <1>7, <1>9, <3>1, <3>2, <4>1
    <3>3. CASE p \notin told
      BY <1>1, <1>9, <1>11, <3>1, <3>3 DEF MasterInv, MasterIsCurrent
    <3> QED BY <3>2, <3>3
  <2> QED BY <2>2, <2>3, <2>4, <2>5, <2>6 DEF MasterInv
<1>13. current'[m] \in SUBSET Points
  BY <1>6, <1>10, <1>11
<1>14. /\ gi' = [gi EXCEPT ![m] = gi'[m]] /\ gi'[m] \in InterrogationType
       /\ image' = [image EXCEPT ![m] = image'[m]] /\ image'[m] \in [Points -> ImageType]
       /\ current' = [current EXCEPT ![m] = current'[m]]
  BY <1>2, <1>3, <1>8, <1>10
<1>15. /\ open' \in [Masters -> BOOLEAN]
       /\ queue'[m] \in Seq(EventType) /\ queue' = [queue EXCEPT ![m] = queue'[m]]
       /\ sent'[m] \in Nat /\ sent' = [sent EXCEPT ![m] = sent'[m]]
       /\ Len(queue'[m]) =< QueueSize /\ sent'[m] =< Len(queue'[m])
       /\ \A k \in 1 .. Len(queue'[m]) : queue'[m][k].member = DataType[queue'[m][k].point]
  BY <1>1, <1>2, OwnFact
<1> QED BY <1>2, <1>12, <1>13, <1>14, <1>15, OwnStep

-----------------------------------------------------------------------------
(* lib60870 *)

\* The next ASDU of the queue is sent: if it is the last one for its point, the
\* master has what is stored.
LEMMA DeliverImage ==
    ASSUME ImageInv, NEW m \in Masters, Deliver(m)
    PROVE  ImageInv'
<1> DEFINE e == queue[m][sent[m] + 1]
           told == [v |-> e.v, q |-> e.q]
<1>1. StoreInv /\ MasterInv(m)
  BY DEF ImageInv
<1>2. /\ gi[m].pc = "idle" /\ sent[m] < Len(queue[m])
      /\ UNCHANGED <<running, value, quality, sending, queue, open, gi, latest, current>>
      /\ image' = [image EXCEPT ![m][e.point] = told]
      /\ sent' = [sent EXCEPT ![m] = sent[m] + 1]
  BY DEF Deliver
<1>3. /\ sent[m] \in Nat /\ Len(queue[m]) \in Nat /\ queue[m] \in Seq(EventType)
      /\ image[m] \in [Points -> ImageType] /\ current[m] \subseteq Points
  BY <1>1, OwnFact
<1>4. sent[m] + 1 \in 1 .. Len(queue[m]) /\ sent'[m] = sent[m] + 1
  BY <1>1, <1>2, <1>3 DEF StoreInv, SDTypeOK
<1>5. e \in EventType
  BY <1>3, <1>4
<1>6. e.point \in Points /\ told \in ImageType
  BY <1>5 DEF EventType, ImageType
<1> HIDE DEF told
<1>7. image'[m] = [image[m] EXCEPT ![e.point] = told]
  BY <1>1, <1>2 DEF StoreInv, SDTypeOK
<1>8. /\ image'[m] \in [Points -> ImageType]
      /\ \A p \in Points : image'[m][p] = IF p = e.point THEN told ELSE image[m][p]
  BY <1>3, <1>6, <1>7
<1>9. MasterInv(m)'
  <2>1. /\ NextPoint(m)' = NextPoint(m) /\ (HalfRead(m)' <=> HalfRead(m))
        /\ \A p : Stored(p)' = Stored(p)
        /\ \A p \in Points : IsBeingWritten(p)' <=> IsBeingWritten(p)
    BY <1>2, SameNext DEF HalfRead, Stored, IsBeingWritten
  <2>2. WalkIsInOrder(m)' /\ ReadIsStored(m)'
    BY <1>1, <1>2, <2>1 DEF MasterInv, WalkIsInOrder, ReadIsStored
  <2>3. WrittenIsOvertaken(m)' /\ LastQueuedIsStored(m)'
    BY <1>1, <1>2, <2>1 DEF MasterInv, WrittenIsOvertaken, LastQueuedIsStored
  <2>4. OvertakenIsQueued(m)'
    BY <1>2 DEF OvertakenIsQueued
  <2>5. MasterIsCurrent(m)'
    <3> SUFFICES ASSUME NEW p \in current[m], Unsent(m, p)' = {}
                 PROVE  image'[m][p] = Stored(p)
      BY <1>2, <2>1 DEF MasterIsCurrent
    <3>1. \A j \in 1 .. Len(queue[m]) : j > sent[m] + 1 => queue[m][j].point # p
      BY <1>2, <1>4 DEF Unsent, Events
    <3>2. CASE p = e.point
      <4>1. \A j \in sent[m] + 1 + 1 .. Len(queue[m]) : queue[m][j].point # p
        BY <1>3, <3>1
      <4>2. told = Stored(p)
        BY <1>1, <1>4, <3>2, <4>1 DEF MasterInv, LastQueuedIsStored, told
      <4> QED BY <1>3, <1>8, <3>2, <4>2
    <3>3. CASE p # e.point
      <4>1. Unsent(m, p) = {}
        BY <1>3, <3>1, <3>3 DEF Unsent, Events
      <4>2. image[m][p] = Stored(p)
        BY <1>1, <4>1 DEF MasterInv, MasterIsCurrent
      <4> QED BY <1>3, <1>8, <3>3, <4>2
    <3> QED BY <3>2, <3>3
  <2> QED BY <2>2, <2>3, <2>4, <2>5 DEF MasterInv
<1>10. /\ sent'[m] \in Nat /\ sent' = [sent EXCEPT ![m] = sent'[m]]
       /\ sent'[m] =< Len(queue[m])
  <2>1. sent' = [sent EXCEPT ![m] = sent'[m]]
    BY <1>2, <1>4
  <2>2. sent'[m] \in Nat /\ sent'[m] =< Len(queue[m])
    BY <1>3, <1>4
  <2> QED BY <2>1, <2>2
<1>11. image' = [image EXCEPT ![m] = image'[m]]
  BY <1>1, <1>2, <1>7 DEF StoreInv, SDTypeOK
<1>12. /\ open' \in [Masters -> BOOLEAN]
       /\ gi'[m] \in InterrogationType /\ gi' = [gi EXCEPT ![m] = gi'[m]]
       /\ queue'[m] \in Seq(EventType) /\ queue' = [queue EXCEPT ![m] = queue'[m]]
       /\ current'[m] \in SUBSET Points /\ current' = [current EXCEPT ![m] = current'[m]]
       /\ Len(queue'[m]) =< QueueSize
       /\ \A k \in 1 .. Len(queue'[m]) : queue'[m][k].member = DataType[queue'[m][k].point]
  BY <1>1, <1>2, OwnFact
<1> QED BY <1>2, <1>8, <1>9, <1>10, <1>11, <1>12, OwnStep

\* An ASDU is confirmed and leaves the queue: those that are left, sent or not,
\* are the same.
LEMMA ConfirmImage ==
    ASSUME ImageInv, NEW m \in Masters, Confirm(m)
    PROVE  ImageInv'
<1>1. StoreInv /\ MasterInv(m)
  BY DEF ImageInv
<1>2. /\ sent[m] > 0
      /\ UNCHANGED <<running, value, quality, sending, open, gi, image, latest, current>>
      /\ queue' = [queue EXCEPT ![m] = Tail(queue[m])]
      /\ sent' = [sent EXCEPT ![m] = sent[m] - 1]
  BY DEF Confirm
<1>3. /\ sent[m] \in Nat /\ Len(queue[m]) \in Nat /\ queue[m] \in Seq(EventType)
      /\ sent[m] =< Len(queue[m]) /\ Len(queue[m]) =< QueueSize
      /\ \A k \in 1 .. Len(queue[m]) : queue[m][k].member = DataType[queue[m][k].point]
  BY <1>1, OwnFact
<1>4. queue'[m] = Tail(queue[m]) /\ sent'[m] = sent[m] - 1
  BY <1>1, <1>2 DEF StoreInv, SDTypeOK
<1>5. /\ queue'[m] \in Seq(EventType)
      /\ Len(queue'[m]) = Len(queue[m]) - 1
      /\ \A k \in 1 .. Len(queue'[m]) : k + 1 \in 1 .. Len(queue[m]) /\ queue'[m][k] = queue[m][k + 1]
  <2>1. Len(queue[m]) >= 1
    BY <1>2, <1>3
  <2>2. /\ Tail(queue[m]) \in Seq(EventType)
        /\ Len(Tail(queue[m])) = Len(queue[m]) - 1
        /\ \A k \in 1 .. Len(queue[m]) - 1 : Tail(queue[m])[k] = queue[m][k + 1]
    BY <1>3, <2>1
  <2>3. \A k \in 1 .. Len(queue[m]) - 1 : k + 1 \in 1 .. Len(queue[m])
    BY <1>3
  <2> QED BY <1>4, <2>2, <2>3
<1>6. \A k \in 1 .. Len(queue[m]) : k > sent[m] =>
          /\ k - 1 \in 1 .. Len(queue'[m]) /\ k - 1 > sent'[m]
          /\ queue'[m][k - 1] = queue[m][k]
  <2> SUFFICES ASSUME NEW k \in 1 .. Len(queue[m]), k > sent[m]
               PROVE  /\ k - 1 \in 1 .. Len(queue'[m]) /\ k - 1 > sent'[m]
                      /\ queue'[m][k - 1] = queue[m][k]
    OBVIOUS
  <2>1. k - 1 \in 1 .. Len(queue'[m]) /\ k - 1 > sent'[m] /\ (k - 1) + 1 = k
    BY <1>2, <1>3, <1>4, <1>5
  <2> QED BY <1>5, <2>1
<1>7. ASSUME NEW p, Unsent(m, p) # {} PROVE Unsent(m, p)' # {}
  <2>1. PICK k \in 1 .. Len(queue[m]) : k > sent[m] /\ queue[m][k].point = p
    BY <1>7 DEF Unsent, Events
  <2>2. k - 1 \in Unsent(m, p)'
    BY <1>6, <2>1 DEF Unsent, Events
  <2> QED BY <2>2
<1>8. MasterInv(m)'
  <2>1. /\ NextPoint(m)' = NextPoint(m) /\ (HalfRead(m)' <=> HalfRead(m))
        /\ \A p : Stored(p)' = Stored(p)
        /\ \A p \in Points : IsBeingWritten(p)' <=> IsBeingWritten(p)
    BY <1>2, SameNext DEF HalfRead, Stored, IsBeingWritten
  <2>2. WalkIsInOrder(m)' /\ ReadIsStored(m)'
    BY <1>1, <1>2, <2>1 DEF MasterInv, WalkIsInOrder, ReadIsStored
  <2>3. WrittenIsOvertaken(m)'
    BY <1>1, <1>2, <2>1 DEF MasterInv, WrittenIsOvertaken
  <2>4. LastQueuedIsStored(m)'
    <3> SUFFICES ASSUME NEW p \in current[m], NEW k \in 1 .. Len(queue'[m]),
                        queue'[m][k].point = p,
                        \A j \in k + 1 .. Len(queue'[m]) : queue'[m][j].point # p
                 PROVE  [v |-> queue'[m][k].v, q |-> queue'[m][k].q] = Stored(p)
      BY <1>2, <2>1 DEF LastQueuedIsStored
    <3>1. k + 1 \in 1 .. Len(queue[m]) /\ queue'[m][k] = queue[m][k + 1]
      BY <1>5
    <3>2. ASSUME NEW j \in k + 1 + 1 .. Len(queue[m]) PROVE queue[m][j].point # p
      <4>1. /\ j - 1 \in k + 1 .. Len(queue'[m]) /\ j - 1 \in 1 .. Len(queue'[m])
            /\ (j - 1) + 1 = j
        BY <1>3, <1>5, <3>2
      <4> QED BY <1>5, <4>1
    <3> QED BY <1>1, <3>1, <3>2 DEF MasterInv, LastQueuedIsStored
  <2>5. OvertakenIsQueued(m)'
    BY <1>1, <1>2, <1>7, <2>1 DEF MasterInv, OvertakenIsQueued
  <2>6. MasterIsCurrent(m)'
    BY <1>1, <1>2, <1>7, <2>1 DEF MasterInv, MasterIsCurrent
  <2> QED BY <2>2, <2>3, <2>4, <2>5, <2>6 DEF MasterInv
<1>9. sent'[m] \in Nat /\ sent'[m] =< Len(queue'[m]) /\ Len(queue'[m]) =< QueueSize
  BY <1>2, <1>3, <1>4, <1>5, QueueAssumption
<1>10. /\ sent' = [sent EXCEPT ![m] = sent'[m]]
       /\ queue' = [queue EXCEPT ![m] = queue'[m]]
  BY <1>2, <1>4
<1>11. \A k \in 1 .. Len(queue'[m]) : queue'[m][k].member = DataType[queue'[m][k].point]
  BY <1>3, <1>5
<1>12. /\ open' \in [Masters -> BOOLEAN]
       /\ gi'[m] \in InterrogationType /\ gi' = [gi EXCEPT ![m] = gi'[m]]
       /\ image'[m] \in [Points -> ImageType] /\ image' = [image EXCEPT ![m] = image'[m]]
       /\ current'[m] \in SUBSET Points /\ current' = [current EXCEPT ![m] = current'[m]]
  BY <1>1, <1>2, OwnFact
<1> QED BY <1>2, <1>5, <1>8, <1>9, <1>10, <1>11, <1>12, OwnStep

\* The server starts, or a master connects.
LEMMA UpImage ==
    ASSUME ImageInv, StartServer \/ \E m \in Masters : Connect(m)
    PROVE  ImageInv'
<1>1. /\ UNCHANGED <<value, quality, sending, queue, sent, gi, image, latest, current>>
      /\ running' \in BOOLEAN /\ open' \in [Masters -> BOOLEAN]
  BY DEF StartServer, Connect, ImageInv, StoreInv, SDTypeOK
<1>2. SDTypeOK'
  BY <1>1 DEF ImageInv, StoreInv, SDTypeOK
<1>3. StoreInv'
  BY <1>1, <1>2, OtherStep DEF ImageInv, StoreInv, MembersAgree
<1>4. \A m \in Masters : MasterInv(m)'
  BY <1>1, MasterFrame DEF ImageInv, IsBeingWritten
<1> QED BY <1>3, <1>4 DEF ImageInv

\* A connection ends: an interrogation is forgotten and what was sent but not
\* confirmed is to be sent again; perhaps the queue is lost, and with it what
\* was still to be sent.
LEMMA DownMaster ==
    ASSUME ImageInv, NEW m \in Masters, UNCHANGED <<value, quality, sending>>,
           gi'[m] = NoInterrogation, sent'[m] = 0, image'[m] = image[m],
           \/ queue'[m] = queue[m] /\ current'[m] = current[m]
           \/ queue'[m] = <<>> /\ current'[m] = {p \in current[m] : Unsent(m, p) = {}}
    PROVE  MasterInv(m)'
<1>1. StoreInv /\ MasterInv(m)
  BY DEF ImageInv
<1>2. /\ gi'[m].pc = "idle" /\ gi'[m].elements = {} /\ ~HalfRead(m)'
      /\ \A p : Stored(p)' = Stored(p)
      /\ \A p \in Points : IsBeingWritten(p)' <=> IsBeingWritten(p)
  BY DEF NoInterrogation, Interrogation, HalfRead, Stored, IsBeingWritten
<1>3. /\ sent[m] \in Nat /\ Len(queue[m]) \in Nat
      /\ current'[m] \subseteq current[m] /\ current[m] \subseteq Points
  BY <1>1, OwnFact
<1>4. ASSUME NEW p \in current'[m], Unsent(m, p)' = {} PROVE Unsent(m, p) = {}
  <2>1. CASE queue'[m] = queue[m]
    BY <1>3, <1>4, <2>1 DEF Unsent, Events
  <2>2. CASE current'[m] = {x \in current[m] : Unsent(m, x) = {}}
    BY <2>2
  <2> QED BY <2>1, <2>2
<1>5. WalkIsInOrder(m)' /\ ReadIsStored(m)' /\ OvertakenIsQueued(m)'
  BY <1>2 DEF WalkIsInOrder, ReadIsStored, OvertakenIsQueued
<1>6. WrittenIsOvertaken(m)'
  BY <1>1, <1>2, <1>3 DEF MasterInv, WrittenIsOvertaken
<1>7. LastQueuedIsStored(m)'
  <2>1. CASE queue'[m] = queue[m]
    BY <1>1, <1>2, <1>3, <2>1 DEF MasterInv, LastQueuedIsStored
  <2>2. CASE queue'[m] = <<>>
    <3>1. 1 .. Len(queue'[m]) = {}
      BY <2>2
    <3> QED BY <3>1 DEF LastQueuedIsStored
  <2> QED BY <2>1, <2>2
<1>8. MasterIsCurrent(m)'
  BY <1>1, <1>2, <1>3, <1>4 DEF MasterInv, MasterIsCurrent
<1> QED BY <1>5, <1>6, <1>7, <1>8 DEF MasterInv

LEMMA DisconnectImage ==
    ASSUME ImageInv, NEW m \in Masters, Disconnect(m)
    PROVE  ImageInv'
<1>1. StoreInv
  BY DEF ImageInv
<1>2. /\ open' = [open EXCEPT ![m] = FALSE]
      /\ sent' = [sent EXCEPT ![m] = 0]
      /\ gi' = [gi EXCEPT ![m] = NoInterrogation]
      /\ UNCHANGED <<running, value, quality, sending, queue, image, latest, current>>
  BY DEF Disconnect
<1>3. gi'[m] = NoInterrogation /\ sent'[m] = 0 /\ open' \in [Masters -> BOOLEAN]
  BY <1>1, <1>2 DEF StoreInv, SDTypeOK
<1>4. MasterInv(m)'
  BY <1>2, <1>3, DownMaster
<1>5. /\ gi'[m] \in InterrogationType /\ gi' = [gi EXCEPT ![m] = gi'[m]]
      /\ sent'[m] \in Nat /\ sent' = [sent EXCEPT ![m] = sent'[m]]
  <2>1. gi'[m] \in InterrogationType /\ sent'[m] \in Nat
    BY <1>3, NothingReadType
  <2>2. gi' = [gi EXCEPT ![m] = gi'[m]]
    BY <1>2, <1>3
  <2>3. sent' = [sent EXCEPT ![m] = sent'[m]]
    BY <1>2, <1>3
  <2> QED BY <2>1, <2>2, <2>3
<1>6. /\ queue'[m] \in Seq(EventType) /\ queue' = [queue EXCEPT ![m] = queue'[m]]
      /\ image'[m] \in [Points -> ImageType] /\ image' = [image EXCEPT ![m] = image'[m]]
      /\ current'[m] \in SUBSET Points /\ current' = [current EXCEPT ![m] = current'[m]]
      /\ Len(queue'[m]) =< QueueSize /\ sent'[m] =< Len(queue'[m])
      /\ \A k \in 1 .. Len(queue'[m]) : queue'[m][k].member = DataType[queue'[m][k].point]
  BY <1>1, <1>2, <1>3, OwnFact
<1> QED BY <1>2, <1>3, <1>4, <1>5, <1>6, OwnStep

LEMMA StopImage ==
    ASSUME ImageInv, StopServer
    PROVE  ImageInv'
<1>1. StoreInv
  BY DEF ImageInv
<1>2. /\ running' = FALSE
      /\ open' = [m \in Masters |-> FALSE]
      /\ sent' = [m \in Masters |-> 0]
      /\ gi' = [m \in Masters |-> NoInterrogation]
      /\ UNCHANGED <<value, quality, sending, image, latest>>
      /\ \/ queue' = queue /\ current' = current
         \/ /\ queue' = [m \in Masters |-> <<>>]
            /\ current' = [m \in Masters |-> {p \in current[m] : Unsent(m, p) = {}}]
  BY DEF StopServer
<1>3. /\ open' \in [Masters -> BOOLEAN] /\ sent' \in [Masters -> Nat]
      /\ gi' \in [Masters -> InterrogationType]
  BY <1>2, NothingReadType
<1>4. /\ queue' \in [Masters -> Seq(EventType)] /\ current' \in [Masters -> SUBSET Points]
      /\ \A m \in Masters : /\ Len(queue'[m]) =< QueueSize /\ sent'[m] =< Len(queue'[m])
                            /\ \A k \in 1 .. Len(queue'[m]) :
                                  queue'[m][k].member = DataType[queue'[m][k].point]
  <2>1. CASE queue' = queue /\ current' = current
    BY <1>1, <1>2, <2>1 DEF StoreInv, SDTypeOK, MembersAgree
  <2>2. CASE /\ queue' = [m \in Masters |-> <<>>]
             /\ current' = [m \in Masters |-> {p \in current[m] : Unsent(m, p) = {}}]
    <3>1. <<>> \in Seq(EventType) /\ Len(<<>>) = 0 /\ 1 .. 0 = {}
      OBVIOUS
    <3>2. \A m \in Masters : queue'[m] = <<>> /\ sent'[m] = 0
      BY <1>2, <2>2
    <3>3. current' \in [Masters -> SUBSET Points]
      BY <1>1, <2>2 DEF StoreInv, SDTypeOK
    <3>4. queue' \in [Masters -> Seq(EventType)]
      BY <2>2, <3>1
    <3> QED BY <3>1, <3>2, <3>3, <3>4, QueueAssumption
  <2> QED BY <1>2, <2>1, <2>2
<1>5. SDTypeOK'
  BY <1>1, <1>2, <1>3, <1>4 DEF StoreInv, SDTypeOK
<1>6. StoreInv'
  BY <1>1, <1>2, <1>4, <1>5, OtherStep
<1>7. ASSUME NEW m \in Masters PROVE MasterInv(m)'
  <2>1. gi'[m] = NoInterrogation /\ sent'[m] = 0 /\ image'[m] = image[m]
    BY <1>2
  <2>2. \/ queue'[m] = queue[m] /\ current'[m] = current[m]
        \/ queue'[m] = <<>> /\ current'[m] = {p \in current[m] : Unsent(m, p) = {}}
    BY <1>2
  <2> QED BY <1>2, <2>1, <2>2, DownMaster
<1> QED BY <1>6, <1>7 DEF ImageInv

-----------------------------------------------------------------------------
(* The theorems *)

\* The initial state satisfies the invariant.
LEMMA ImageInit == SDInit => ImageInv
<1> SUFFICES ASSUME SDInit PROVE ImageInv
  OBVIOUS
<1>1. SDTypeOK
  BY TypesInit
<1>2. \A m \in Masters : queue[m] = <<>> /\ current[m] = {} /\ gi[m] = NoInterrogation
  BY DEF SDInit
<1>3. \A m \in Masters : 1 .. Len(queue[m]) = {}
  BY <1>2
<1>4. MembersAgree
  BY <1>3 DEF SDInit, MembersAgree
<1>5. ReadingIsTakenIn /\ ValueIsLast /\ QualityIsLast /\ \A p \in Points : ~IsBeingWritten(p)
  BY DEF SDInit, ReadingIsTakenIn, ValueIsLast, QualityIsLast, Idle, IsBeingWritten
<1>6. ASSUME NEW m \in Masters PROVE MasterInv(m)
  <2>1. ~HalfRead(m) /\ gi[m].elements = {} /\ current[m] = {}
    BY <1>2 DEF HalfRead, NoInterrogation, Interrogation
  <2> QED BY <1>5, <2>1 DEF MasterInv, WalkIsInOrder, ReadIsStored, WrittenIsOvertaken,
                            LastQueuedIsStored, OvertakenIsQueued, MasterIsCurrent
<1> QED BY <1>1, <1>4, <1>5, <1>6 DEF ImageInv, StoreInv

\* A stuttering step keeps it.
LEMMA StutterImage ==
    ASSUME ImageInv, UNCHANGED sdVars
    PROVE  ImageInv'
<1>1. UNCHANGED <<running, value, quality, sending, queue, sent, open, gi, image, latest, current>>
  BY DEF sdVars
<1>2. SDTypeOK'
  BY <1>1 DEF ImageInv, StoreInv, SDTypeOK
<1>3. StoreInv'
  BY <1>1, <1>2, OtherStep DEF ImageInv, StoreInv, MembersAgree
<1>4. \A m \in Masters : MasterInv(m)'
  BY <1>1, MasterFrame DEF ImageInv, IsBeingWritten
<1> QED BY <1>3, <1>4 DEF ImageInv

\* Every step keeps it.
LEMMA ImageStep == ImageInv /\ [SDNext]_sdVars => ImageInv'
<1> SUFFICES ASSUME ImageInv, [SDNext]_sdVars PROVE ImageInv'
  OBVIOUS
<1>1. CASE send
  <2>1. CASE (\E r \in Readings : DropReading(r) \/ TakeReading(r)) \/ CountDropped
    BY <2>1, TakeImage
  <2>2. CASE UpdateValue
    BY <2>2, UpdateValueImage
  <2>3. CASE UpdateQuality
    BY <2>3, UpdateQualityImage
  <2>4. CASE m_enqueueSpontDatapoint
    BY <2>4, EnqueueImage
  <2> QED BY <1>1, <2>1, <2>2, <2>3, <2>4 DEF send
<1>2. CASE StartServer
  BY <1>2, UpImage
<1>3. CASE StopServer
  BY <1>3, StopImage
<1>4. ASSUME NEW m \in Masters,
             \/ Interrogate(m)
             \/ sendInterrogationResponse(m)
             \/ Deliver(m)
             \/ Confirm(m)
             \/ Connect(m)
             \/ Disconnect(m)
      PROVE  ImageInv'
  <2>1. CASE Interrogate(m) \/ EndInterrogation(m)
    BY <2>1, BetweenInterrogations
  <2>2. CASE ReadFirst(m)
    BY <2>2, ReadFirstImage
  <2>3. CASE ReadSecond(m)
    BY <2>3, ReadSecondImage
  <2>4. CASE SendASDU(m)
    BY <2>4, SendASDUImage
  <2>5. CASE Deliver(m)
    BY <2>5, DeliverImage
  <2>6. CASE Confirm(m)
    BY <2>6, ConfirmImage
  <2>7. CASE Connect(m)
    BY <2>7, UpImage
  <2>8. CASE Disconnect(m)
    BY <2>8, DisconnectImage
  <2> QED BY <1>4, <2>1, <2>2, <2>3, <2>4, <2>5, <2>6, <2>7, <2>8
          DEF sendInterrogationResponse
<1>5. CASE UNCHANGED sdVars
  BY <1>5, StutterImage
<1> QED BY <1>1, <1>2, <1>3, <1>4, <1>5 DEF SDNext

LEMMA ImageAlways == SDSpec => []ImageInv
<1>1. SDInit => ImageInv
  BY ImageInit
<1>2. ImageInv /\ [SDNext]_sdVars => ImageInv'
  BY ImageStep
<1> QED BY <1>1, <1>2, PTL DEF SDSpec

\* Whatever readings come and however long the queues may get, every variable
\* keeps its type, and no queue is longer than asdu_queue_size.
THEOREM ValuesTypeCorrect == SDSpec => []SDTypeOK
<1>1. ImageInv => SDTypeOK
  BY DEF ImageInv, StoreInv
<1> QED BY <1>1, ImageAlways, PTL

\* The functions that choose a member of m_value for a type id always choose
\* that of the data point's type.
THEOREM MembersAlwaysAgree == SDSpec => []MembersAgree
<1>1. ImageInv => MembersAgree
  BY DEF ImageInv, StoreInv
<1> QED BY <1>1, ImageAlways, PTL

\* A data point holds the value and the quality of the last reading that was
\* taken in, if its type can hold that value.
THEOREM PointsHoldTheLastReading == SDSpec => []PointIsLastReading
<1>1. ImageInv => PointIsLastReading
  <2> SUFFICES ASSUME ImageInv, NEW p \in Points,
                      latest[p].v \in Ranges[DataType[p]], ~IsBeingWritten(p)
               PROVE  Stored(p) = latest[p]
    BY DEF PointIsLastReading
  <2>1. value[p].v = latest[p].v /\ quality[p] = latest[p].q
    BY DEF ImageInv, StoreInv, ValueIsLast, QualityIsLast
  <2>2. latest[p] \in [v : Int, q : Qualities]
    BY DEF ImageInv, StoreInv, SDTypeOK
  <2> QED BY <2>1, <2>2 DEF Stored
<1> QED BY <1>1, ImageAlways, PTL

\* However an interrogation and the updates of values interleave, a master for
\* which nothing is left in the queue has what is stored.
THEOREM MastersAreCurrent == SDSpec => []ImageIsCurrent
<1>1. ImageInv => ImageIsCurrent
  BY DEF ImageInv, MasterInv, MasterIsCurrent, ImageIsCurrent
<1> QED BY <1>1, ImageAlways, PTL
=============================================================================
