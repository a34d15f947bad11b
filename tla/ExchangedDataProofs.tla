------------------------- MODULE ExchangedDataProofs -------------------------
(***************************************************************************)
(* Proofs about the ways to the exchanged data, for any stations, data     *)
(* points and masters and any readings and commands of theirs: whatever    *)
(* other threads insert meanwhile, interrogations are complete and reach   *)
(* every station, and commands follow the configuration.                   *)
(***************************************************************************)
EXTENDS ExchangedData, TLAPS, FiniteSetTheorems, SequenceTheorems

Handlings == [pc : {"idle", "confirm", "walk"}, ca : Nat, ld : SUBSET IOAs, elements : Elements]

Requests == [kind : {"none", "command", "interrogation"}, ca : Nat, qoi : Nat]

ASDUs == [kind : ASDUKinds, ca : Nat, elements : Elements]

One(S) == \E x \in S : S = {x}

\* Where an ASDU without elements is in a sequence of ASDUs.
Sent(s, kind, ca) == {i \in 1 .. Len(s) : s[i] = ASDU(kind, ca)}

\* Where the elements of an ASDU name a data point.
Named(elements, d) == {k \in 1 .. Len(elements) : elements[k].ioa = d.ioa}

\* Where a sequence of ASDUs names it.
ReportsIn(s, d) ==
    {p \in (1 .. Len(s)) \X (1 .. MaxElements) :
        /\ s[p[1]].kind = "data" /\ s[p[1]].ca = d.ca
        /\ p[2] =< Len(s[p[1]].elements)
        /\ s[p[1]].elements[p[2]].ioa = d.ioa}

IsAnswer(kind) == kind \in {"con", "data", "term"}

IsBroadcast(r) == r.kind = "interrogation" /\ r.ca = BroadcastCA /\ InRange(r.qoi)

-----------------------------------------------------------------------------
(* The inductive invariant: of a connection, h is where its handler stands, *)
(* r the request that it works on and s what was sent in answer to it.      *)

\* The handler of an interrogation works on the last request.
WorksOnRequest(h, r) ==
    h.pc # "idle" => /\ r.kind = "interrogation" /\ InRange(r.qoi)
                     /\ r.ca \in {h.ca, BroadcastCA}

IsUniform(elements) ==
    /\ Len(elements) =< MaxElements
    /\ \A k \in 1 .. Len(elements) : elements[k].type = elements[1].type

UniformInv(h, s) ==
    /\ IsUniform(h.elements)
    /\ \A i \in 1 .. Len(s) : s[i].kind = "data" => s[i].elements # <<>> /\ IsUniform(s[i].elements)

\* The CAs are answered in their order, one after the other.
OrderInv(h, r, s) ==
    \A i \in 1 .. Len(s) : IsAnswer(s[i].kind) =>
        /\ r.kind = "interrogation" /\ InRange(r.qoi)
        /\ h.pc = "confirm" => s[i].ca < h.ca
        /\ h.pc = "walk" => s[i].ca < h.ca \/ (s[i].ca = h.ca /\ s[i].kind # "term")

\* A broadcast interrogation has answered every CA that it has passed.
PassedInv(h, r, s) ==
    IsBroadcast(r) => \A ca \in ConfiguredCAs :
        /\ h.pc = "idle" \/ ca < h.ca => One(Sent(s, "con", ca)) /\ One(Sent(s, "term", ca))
        /\ h.pc = "walk" /\ ca = h.ca => One(Sent(s, "con", ca))

\* A data point of the CA that is walked is still to come, in the ASDU that is
\* being filled, or sent.
IsPlaced(h, r, s, d) ==
    IF d.ioa \in h.ld \/ ~IsReported(d, r.qoi)
      THEN ReportsIn(s, d) = {} /\ Named(h.elements, d) = {}
      ELSE \/ One(ReportsIn(s, d)) /\ Named(h.elements, d) = {}
           \/ ReportsIn(s, d) = {} /\ One(Named(h.elements, d))

ReportInv(h, r, s) ==
    \A d \in DataPoints :
        /\ Sent(s, "term", d.ca) # {} =>
              IF IsReported(d, r.qoi) THEN One(ReportsIn(s, d)) ELSE ReportsIn(s, d) = {}
        /\ h.pc = "walk" /\ h.ca = d.ca => IsPlaced(h, r, s, d)

AnswerInv(h, r, s) ==
    /\ WorksOnRequest(h, r)
    /\ OrderInv(h, r, s)
    /\ PassedInv(h, r, s)

\* A CA that is being handled has its entry.
HandledIsKnown == \A c \in Conns : handling[c].pc # "idle" => IsKnown(handling[c].ca)

EDTypeInv == EDTypeOK /\ HandledIsKnown

EDInv ==
    /\ EDTypeInv
    /\ \A c \in Conns : AnswerInv(handling[c], request[c], out[c])

\* The part that needs an ASDU to have room for an information object.
EDReportInv ==
    /\ EDInv
    /\ \A c \in Conns : /\ UniformInv(handling[c], out[c])
                        /\ ReportInv(handling[c], request[c], out[c])

-----------------------------------------------------------------------------
(* Types *)

\* A set of numbers has a first one.
LEMMA LeastNumber ==
    ASSUME NEW S, S \subseteq Nat, S # {}
    PROVE  \E n \in S : \A m \in S : n =< m
<1> DEFINE Less == {p \in Nat \X Nat : p[1] < p[2]}
<1>1. IsWellFoundedOn(Less, Nat)
  BY NatLessThanWellFounded DEF OpToRel
<1>2. PICK n \in S : \A m \in S : <<m, n>> \notin Less
  <2> HIDE DEF Less
  <2> QED BY <1>1, WFMin
<1>3. \A m \in S : m \in Nat /\ n \in Nat /\ ~(m < n)
  BY <1>2
<1> QED BY <1>3

\* The IOA that is reported next is the first of those left.
LEMMA NextIOA ==
    ASSUME NEW ld, ld \subseteq IOAs, ld # {}
    PROVE  /\ (CHOOSE i \in ld : \A j \in ld : i =< j) \in ld
           /\ (CHOOSE i \in ld : \A j \in ld : i =< j) \in IOAs
  BY LeastNumber, AddressAssumption

\* The iterator moves to the first entry above, or to the end.
LEMMA NextCAFact ==
    ASSUME EDTypeOK, NEW ca \in Int
    PROVE  \/ /\ NextCA(ca) = Idle
              /\ \A a \in DOMAIN definitions : a =< ca
           \/ \E b \in DOMAIN definitions :
                 /\ NextCA(ca) = At("confirm", b, {}, <<>>)
                 /\ b \in Nat /\ b > ca
                 /\ \A a \in DOMAIN definitions : a > ca => b =< a
<1> DEFINE above == {a \in DOMAIN definitions : a > ca}
           b == CHOOSE a \in above : \A m \in above : a =< m
<1>1. \A a \in DOMAIN definitions : a \in Nat
  BY AddressAssumption DEF EDTypeOK
<1>2. CASE above = {}
  BY <1>1, <1>2 DEF NextCA
<1>3. CASE above # {}
  <2>1. b \in above /\ \A a \in above : b =< a
    BY <1>1, <1>3, LeastNumber
  <2>2. NextCA(ca) = At("confirm", b, {}, <<>>)
    BY <1>3 DEF NextCA
  <2> HIDE DEF b
  <2> QED BY <1>1, <2>1, <2>2
<1> QED BY <1>2, <1>3

\* Handlings as the actions make them.
LEMMA HandlingTypes ==
    /\ Idle \in Handlings
    /\ \A ca \in Nat, ld \in SUBSET IOAs, elements \in Elements :
          /\ At("confirm", ca, {}, <<>>) \in Handlings
          /\ At("walk", ca, ld, elements) \in Handlings
<1>1. <<>> \in Elements
  BY EmptySeq DEF Elements
<1> QED BY <1>1 DEF Idle, At, Handlings

\* ASDUs as the actions make them.
LEMMA ASDUTypes ==
    /\ \A kind \in ASDUKinds, ca \in Nat : ASDU(kind, ca) \in ASDUs
    /\ \A ca \in Nat, elements \in Elements : Data(ca, elements) \in ASDUs
<1>1. <<>> \in Elements
  BY EmptySeq DEF Elements
<1> QED BY <1>1 DEF ASDU, Data, ASDUs, ASDUKinds

LEMMA AddedType ==
    ASSUME NEW elements \in Elements, NEW d \in DataPoints
    PROVE  Added(elements, d) \in Elements
<1>1. [ioa |-> d.ioa, type |-> d.type] \in [ioa : IOAs, type : DataTypes]
  BY DataPointAssumption
<1> QED BY <1>1, AppendProperties DEF Added, Elements

\* What is sent is sent after what was sent before.
LEMMA SendFact ==
    ASSUME NEW s \in Seq(ASDUs), NEW a \in ASDUs, NEW b \in ASDUs
    PROVE  /\ s \o <<a>> = Append(s, a)
           /\ s \o <<a, b>> = Append(Append(s, a), b)
           /\ Append(<<a>>, b) = <<a, b>>
<1>1. s \o <<a>> = Append(s, a) /\ s \o <<a, b>> = Append(Append(s, a), b)
  OBVIOUS
<1>2. Append(<<a>>, b) = <<a, b>>
  <2>1. <<a>> \in Seq(ASDUs) /\ <<a, b>> \in Seq(ASDUs) /\ Append(<<a>>, b) \in Seq(ASDUs)
    OBVIOUS
  <2>2. Len(Append(<<a>>, b)) = 2 /\ Append(<<a>>, b)[1] = a /\ Append(<<a>>, b)[2] = b
    BY <2>1, AppendProperties
  <2>3. Len(<<a, b>>) = 2 /\ <<a, b>>[1] = a /\ <<a, b>>[2] = b
    OBVIOUS
  <2>4. \A i \in 1 .. 2 : i = 1 \/ i = 2
    OBVIOUS
  <2> DEFINE x == Append(<<a>>, b)
             y == <<a, b>>
  <2> HIDE DEF x, y
  <2>5. x \in Seq(ASDUs) /\ y \in Seq(ASDUs) /\ Len(x) = Len(y) /\ \A i \in 1 .. Len(x) : x[i] = y[i]
    BY <2>1, <2>2, <2>3, <2>4 DEF x, y
  <2>6. x = y
    BY <2>5, SeqEqual
  <2> QED BY <2>6 DEF x, y
<1> QED BY <1>1, <1>2

-----------------------------------------------------------------------------
(* The checks of a command *)

\* There are ten of them, and each has its answer.
LEMMA ChecksFact ==
    ASSUME NEW cmd
    PROVE  /\ Len(Checks(cmd)) = 10
           /\ \A i \in 1 .. 10 : Checks(cmd)[i].answer \in ASDUKinds \ {"con", "data", "term"}
<1>1. Len(Checks(cmd)) = 10
  BY DEF Checks
<1>2. \A i \in 1 .. 10 : i = 1 \/ i = 2 \/ i = 3 \/ i = 4 \/ i = 5
                         \/ i = 6 \/ i = 7 \/ i = 8 \/ i = 9 \/ i = 10
  OBVIOUS
<1>3. \A i \in 1 .. 10 : Checks(cmd)[i].answer \in ASDUKinds \ {"con", "data", "term"}
  BY <1>2 DEF Checks, ASDUKinds
<1> QED BY <1>1, <1>3

\* A command gets an answer exactly when it fails a check.
LEMMA AnswersFact ==
    ASSUME NEW cmd
    PROVE  /\ CommandAnswers(cmd) \subseteq ASDUKinds \ {"con", "data", "term"}
           /\ CommandAnswers(cmd) = {} <=> \A i \in 1 .. 10 : Checks(cmd)[i].ok
<1> DEFINE failed == {i \in 1 .. 10 : ~Checks(cmd)[i].ok}
<1>1. CommandAnswers(cmd) = {Checks(cmd)[i].answer : i \in {j \in failed : \A k \in failed : j =< k}}
  BY ChecksFact DEF CommandAnswers
<1>2. CommandAnswers(cmd) \subseteq ASDUKinds \ {"con", "data", "term"}
  BY <1>1, ChecksFact
<1>3. failed # {} => \E i \in failed : \A k \in failed : i =< k
  <2>1. failed \subseteq Nat
    OBVIOUS
  <2> HIDE DEF failed
  <2> QED BY <2>1, LeastNumber
<1>4. CommandAnswers(cmd) = {} <=> failed = {}
  BY <1>1, <1>3
<1> QED BY <1>2, <1>4

-----------------------------------------------------------------------------
(* EDTypeOK *)

LEMMA TypesByName ==
    ASSUME EDTypeOK
    PROVE  /\ request \in [Conns -> Requests]
           /\ handling \in [Conns -> Handlings]
           /\ out \in [Conns -> Seq(ASDUs)]
  BY DEF EDTypeOK, Requests, Handlings, ASDUs

\* What operator[] leaves of the map: everything, with one entry more.
LEMMA TouchedFact ==
    ASSUME EDTypeOK, NEW ca \in CAs, NEW ioas \in SUBSET IOAs
    PROVE  /\ DOMAIN Touched(ca, ioas) = DOMAIN definitions \union {ca}
           /\ \A a \in DOMAIN Touched(ca, ioas) : Touched(ca, ioas)[a] \subseteq IOAs
           /\ \A a \in DOMAIN definitions : definitions[a] \subseteq Touched(ca, ioas)[a]
  BY DEF EDTypeOK, Touched

\* The map of the next state is of its type when it has grown as by operator[].
LEMMA DefinitionsGrow ==
    ASSUME EDTypeOK,
           \/ UNCHANGED definitions
           \/ \E ca \in CAs, ioas \in SUBSET IOAs : definitions' = Touched(ca, ioas)
    PROVE  /\ DOMAIN definitions' \subseteq CAs
           /\ \A ca \in DOMAIN definitions' : definitions'[ca] \subseteq IOAs
           /\ DOMAIN definitions \subseteq DOMAIN definitions'
           /\ \A d \in DataPoints : d.ca \in DOMAIN definitions' /\ d.ioa \in definitions'[d.ca]
<1>1. CASE UNCHANGED definitions
  BY <1>1 DEF EDTypeOK, IsKnown
<1>2. ASSUME NEW ca \in CAs, NEW ioas \in SUBSET IOAs, definitions' = Touched(ca, ioas)
      PROVE  /\ DOMAIN definitions' \subseteq CAs
             /\ \A a \in DOMAIN definitions' : definitions'[a] \subseteq IOAs
             /\ DOMAIN definitions \subseteq DOMAIN definitions'
             /\ \A d \in DataPoints : d.ca \in DOMAIN definitions' /\ d.ioa \in definitions'[d.ca]
  <2>1. \A d \in DataPoints : d.ca \in DOMAIN definitions /\ d.ioa \in definitions[d.ca]
    BY DEF EDTypeOK, IsKnown
  <2>2. /\ DOMAIN definitions' = DOMAIN definitions \union {ca}
        /\ \A a \in DOMAIN definitions' : definitions'[a] \subseteq IOAs
        /\ \A a \in DOMAIN definitions : definitions[a] \subseteq definitions'[a]
    BY <1>2, TouchedFact
  <2>3. DOMAIN definitions \subseteq CAs
    BY DEF EDTypeOK
  <2> QED BY <2>1, <2>2, <2>3
<1> QED BY <1>1, <1>2

\* A step on one connection keeps the types if it gives that connection a
\* handling of a known CA, a request and ASDUs.
LEMMA StepTypes ==
    ASSUME EDTypeInv, NEW c \in Conns,
           \/ UNCHANGED definitions
           \/ \E ca \in CAs, ioas \in SUBSET IOAs : definitions' = Touched(ca, ioas),
           NEW r \in Requests, request' = [request EXCEPT ![c] = r],
           NEW h \in Handlings, handling' = [handling EXCEPT ![c] = h],
           h.pc # "idle" => IsKnown(h.ca),
           NEW s \in Seq(ASDUs), out' = [out EXCEPT ![c] = s]
    PROVE  EDTypeInv'
<1>1. EDTypeOK /\ HandledIsKnown
  BY DEF EDTypeInv
<1>2. /\ request' \in [Conns -> Requests]
      /\ handling' \in [Conns -> Handlings]
      /\ out' \in [Conns -> Seq(ASDUs)]
  BY <1>1, TypesByName
<1>3. EDTypeOK'
  BY <1>1, <1>2, DefinitionsGrow DEF EDTypeOK, IsKnown, Requests, Handlings, ASDUs
<1>4. HandledIsKnown'
  BY <1>1, TypesByName, DefinitionsGrow DEF HandledIsKnown, IsKnown
<1> QED BY <1>3, <1>4 DEF EDTypeInv

LEMMA ReadingKeepsTypes ==
    ASSUME EDTypeInv, NEW p \in Readings, m_getDataPoint(p[1], p[2])
    PROVE  EDTypeInv'
<1>1. EDTypeOK /\ HandledIsKnown
  BY DEF EDTypeInv
<1>2. p[1] \in CAs /\ {p[2]} \in SUBSET IOAs
  BY InputAssumption
<1>3. definitions' = Touched(p[1], {p[2]}) /\ UNCHANGED <<request, handling, out>>
  BY DEF m_getDataPoint
<1>4. EDTypeOK'
  BY <1>1, <1>2, <1>3, DefinitionsGrow DEF EDTypeOK, IsKnown
<1>5. HandledIsKnown'
  BY <1>1, <1>2, <1>3, DefinitionsGrow DEF HandledIsKnown, IsKnown
<1> QED BY <1>4, <1>5 DEF EDTypeInv

-----------------------------------------------------------------------------
(* What each action does to its connection *)

\* A command is answered at once or not at all.
LEMMA CommandEffect ==
    ASSUME EDTypeInv, NEW c \in Conns, NEW cmd \in Commands, validateCommand(c, cmd)
    PROVE  /\ handling[c].pc = "idle"
           /\ handling' = [handling EXCEPT ![c] = handling[c]]
           /\ request' = [request EXCEPT ![c] = [kind |-> "command", ca |-> cmd.ca, qoi |-> 0]]
           /\ \E s \in Seq(ASDUs) : /\ out' = [out EXCEPT ![c] = s]
                                    /\ \A i \in 1 .. Len(s) : ~IsAnswer(s[i].kind)
           /\ UNCHANGED definitions \/ definitions' = Touched(cmd.ca, {})
<1>1. EDTypeOK
  BY DEF EDTypeInv
<1>2. cmd.ca \in Nat
  BY InputAssumption, AddressAssumption
<1>3. ASSUME CommandAnswers(cmd) # {}
      PROVE  \E a \in ASDUKinds \ {"con", "data", "term"} :
                (CHOOSE x \in CommandAnswers(cmd) : TRUE) = a
  BY <1>3, AnswersFact
<1>4. \E s \in Seq(ASDUs) : /\ out' = [out EXCEPT ![c] = s]
                            /\ \A i \in 1 .. Len(s) : ~IsAnswer(s[i].kind)
  <2>1. CASE CommandAnswers(cmd) = {}
    <3>1. out' = [out EXCEPT ![c] = <<>>]
      BY <2>1 DEF validateCommand
    <3>2. <<>> \in Seq(ASDUs) /\ \A i \in 1 .. Len(<<>>) : FALSE
      OBVIOUS
    <3> WITNESS <<>> \in Seq(ASDUs)
    <3> QED BY <3>1, <3>2
  <2>2. CASE CommandAnswers(cmd) # {}
    <3>1. PICK a \in ASDUKinds \ {"con", "data", "term"} : (CHOOSE x \in CommandAnswers(cmd) : TRUE) = a
      BY <2>2, <1>3
    <3>2. out' = [out EXCEPT ![c] = <<ASDU(a, cmd.ca)>>]
      BY <2>2, <3>1 DEF validateCommand
    <3>3. ASDU(a, cmd.ca) \in ASDUs /\ ASDU(a, cmd.ca).kind = a
      BY <1>2, ASDUTypes DEF ASDU
    <3>4. <<ASDU(a, cmd.ca)>> \in Seq(ASDUs)
      BY <3>3
    <3>5. \A i \in 1 .. Len(<<ASDU(a, cmd.ca)>>) : ~IsAnswer(<<ASDU(a, cmd.ca)>>[i].kind)
      BY <3>3 DEF IsAnswer
    <3> WITNESS <<ASDU(a, cmd.ca)>> \in Seq(ASDUs)
    <3> QED BY <3>2, <3>5
  <2> QED BY <2>1, <2>2
<1>5. handling' = [handling EXCEPT ![c] = handling[c]]
  BY <1>1, TypesByName DEF validateCommand
<1> QED BY <1>4, <1>5 DEF validateCommand

\* An interrogation is refused, or starts with the CA it names or, if it is a
\* broadcast, the first there is.
LEMMA InterrogationEffect ==
    ASSUME EDTypeInv, NEW c \in Conns, NEW ca \in CAs \union {BroadcastCA}, NEW qoi \in QOIs,
           interrogationHandler(c, ca, qoi)
    PROVE  /\ ca \in Nat
           /\ request' = [request EXCEPT ![c] = [kind |-> "interrogation", ca |-> ca, qoi |-> qoi]]
           /\ UNCHANGED definitions
           /\ \/ /\ ~InRange(qoi) \/ ca # BroadcastCA
                 /\ handling' = [handling EXCEPT ![c] = Idle]
                 /\ out' = [out EXCEPT ![c] = <<ASDU("negative", ca)>>]
              \/ /\ InRange(qoi)
                 /\ out' = [out EXCEPT ![c] = <<>>]
                 /\ \/ /\ ca # BroadcastCA /\ IsKnown(ca)
                       /\ handling' = [handling EXCEPT ![c] = At("confirm", ca, {}, <<>>)]
                    \/ /\ ca = BroadcastCA
                       /\ handling' = [handling EXCEPT ![c] = NextCA(-1)]
  BY AddressAssumption DEF interrogationHandler, Go

LEMMA ConfirmEffect ==
    ASSUME EDTypeInv, NEW c \in Conns, Confirm(c)
    PROVE  /\ handling[c].pc = "confirm"
           /\ handling' = [handling EXCEPT ![c] = At("walk", handling[c].ca, definitions[handling[c].ca], <<>>)]
           /\ out' = [out EXCEPT ![c] = Append(out[c], ASDU("con", handling[c].ca))]
           /\ request' = [request EXCEPT ![c] = request[c]]
           /\ UNCHANGED <<definitions, request>>
<1>1. out[c] \in Seq(ASDUs) /\ handling[c] \in Handlings /\ request \in [Conns -> Requests]
      /\ out \in [Conns -> Seq(ASDUs)]
  BY TypesByName DEF EDTypeInv
<1>2. ASDU("con", handling[c].ca) \in ASDUs
  BY <1>1, ASDUTypes DEF Handlings, ASDUKinds
<1>3. out[c] \o <<ASDU("con", handling[c].ca)>> = Append(out[c], ASDU("con", handling[c].ca))
  BY <1>1, <1>2, SendFact
<1>4. out' = [out EXCEPT ![c] = out[c] \o <<ASDU("con", handling[c].ca)>>]
  BY DEF Confirm, Send
<1> QED BY <1>1, <1>3, <1>4 DEF Confirm, Go

\* The data point at an IOA, if there is one to report, is added to the ASDU
\* or, after the ASDU was sent, to the next.
MovesOn(h, r, s, h2, s2) ==
    \E ioa \in h.ld :
       \/ /\ \A d \in PointsAt(h.ca, ioa) : ~IsReported(d, r.qoi)
          /\ h2 = At("walk", h.ca, h.ld \ {ioa}, h.elements)
          /\ s2 = s
       \/ \E d \in PointsAt(h.ca, ioa) :
          /\ IsReported(d, r.qoi)
          /\ \/ /\ Fits(h.elements, d)
                /\ h2 = At("walk", h.ca, h.ld \ {ioa}, Added(h.elements, d))
                /\ s2 = s
             \/ /\ ~Fits(h.elements, d)
                /\ h2 = At("walk", h.ca, h.ld \ {ioa}, Added(<<>>, d))
                /\ s2 = Append(s, Data(h.ca, h.elements))

LEMMA ReportEffect ==
    ASSUME EDTypeInv, NEW c \in Conns, ReportPoint(c)
    PROVE  /\ handling[c].pc = "walk"
           /\ request' = [request EXCEPT ![c] = request[c]]
           /\ UNCHANGED <<definitions, request>>
           /\ \E h2, s2 : /\ MovesOn(handling[c], request[c], out[c], h2, s2)
                          /\ handling' = [handling EXCEPT ![c] = h2]
                          /\ out' = [out EXCEPT ![c] = s2]
<1> DEFINE h == handling[c]
           ioa == CHOOSE i \in h.ld : \A j \in h.ld : i =< j
           reported == {d \in PointsAt(h.ca, ioa) : IsReported(d, request[c].qoi)}
<1>1. /\ out[c] \in Seq(ASDUs) /\ h \in Handlings /\ request \in [Conns -> Requests]
      /\ out \in [Conns -> Seq(ASDUs)]
  BY TypesByName DEF EDTypeInv
<1>2. h.pc = "walk" /\ h.ld # {} /\ UNCHANGED <<definitions, request>>
  BY DEF ReportPoint
<1>3. ioa \in h.ld
  BY <1>1, <1>2, NextIOA DEF Handlings
<1>4. Data(h.ca, h.elements) \in ASDUs
  BY <1>1, ASDUTypes DEF Handlings
<1>5. out[c] \o <<Data(h.ca, h.elements)>> = Append(out[c], Data(h.ca, h.elements))
  BY <1>1, <1>4, SendFact
<1>6. [h EXCEPT !.ld = h.ld \ {ioa}] = At("walk", h.ca, h.ld \ {ioa}, h.elements)
  <2>1. ASSUME NEW ld \in SUBSET IOAs
        PROVE  [h EXCEPT !.ld = ld] = At("walk", h.ca, ld, h.elements)
    BY <1>1, <1>2 DEF At, Handlings
  <2> HIDE DEF ioa
  <2> QED BY <1>1, <2>1 DEF Handlings
<1>7. /\ request' = [request EXCEPT ![c] = request[c]]
      /\ UNCHANGED out => out' = [out EXCEPT ![c] = out[c]]
  BY <1>1, <1>2
<1> HIDE DEF ioa
<1>8. ASSUME reported = {}, Go(c, [h EXCEPT !.ld = h.ld \ {ioa}]), UNCHANGED out
      PROVE  \E h2, s2 : /\ MovesOn(h, request[c], out[c], h2, s2)
                         /\ handling' = [handling EXCEPT ![c] = h2]
                         /\ out' = [out EXCEPT ![c] = s2]
  <2>1. MovesOn(h, request[c], out[c], At("walk", h.ca, h.ld \ {ioa}, h.elements), out[c])
    BY <1>3, <1>8 DEF MovesOn
  <2> QED BY <1>6, <1>7, <1>8, <2>1 DEF Go
<1>9. ASSUME NEW d \in reported,
             IF Fits(h.elements, d)
               THEN Go(c, At("walk", h.ca, h.ld \ {ioa}, Added(h.elements, d))) /\ UNCHANGED out
               ELSE /\ Send(c, <<Data(h.ca, h.elements)>>)
                    /\ Go(c, At("walk", h.ca, h.ld \ {ioa}, BegunAfterFlush(d)))
      PROVE  \E h2, s2 : /\ MovesOn(h, request[c], out[c], h2, s2)
                         /\ handling' = [handling EXCEPT ![c] = h2]
                         /\ out' = [out EXCEPT ![c] = s2]
  <2>1. CASE Fits(h.elements, d)
    <3>1. MovesOn(h, request[c], out[c], At("walk", h.ca, h.ld \ {ioa}, Added(h.elements, d)), out[c])
      BY <1>3, <2>1 DEF MovesOn
    <3> QED BY <1>7, <1>9, <2>1, <3>1 DEF Go
  <2>2. CASE ~Fits(h.elements, d)
    <3>1. MovesOn(h, request[c], out[c], At("walk", h.ca, h.ld \ {ioa}, Added(<<>>, d)),
                  Append(out[c], Data(h.ca, h.elements)))
      BY <1>3, <2>2 DEF MovesOn
    <3>2. /\ handling' = [handling EXCEPT ![c] = At("walk", h.ca, h.ld \ {ioa}, Added(<<>>, d))]
          /\ out' = [out EXCEPT ![c] = Append(out[c], Data(h.ca, h.elements))]
      BY <1>5, <1>9, <2>2 DEF Go, Send, BegunAfterFlush
    <3> QED BY <3>1, <3>2
  <2> QED BY <2>1, <2>2
<1>10. \/ reported = {} /\ Go(c, [h EXCEPT !.ld = h.ld \ {ioa}]) /\ UNCHANGED out
       \/ \E d \in reported :
          IF Fits(h.elements, d)
            THEN Go(c, At("walk", h.ca, h.ld \ {ioa}, Added(h.elements, d))) /\ UNCHANGED out
            ELSE /\ Send(c, <<Data(h.ca, h.elements)>>)
                 /\ Go(c, At("walk", h.ca, h.ld \ {ioa}, BegunAfterFlush(d)))
  BY DEF ReportPoint, ioa
<1> QED BY <1>2, <1>7, <1>8, <1>9, <1>10

\* The last ASDU is sent unless it is empty, then ACT-TERM.
LEMMA TerminateEffect ==
    ASSUME EDTypeInv, NEW c \in Conns, Terminate(c)
    PROVE  LET h == handling[c]
           IN  /\ h.pc = "walk" /\ h.ld = {}
               /\ request' = [request EXCEPT ![c] = request[c]]
               /\ UNCHANGED <<definitions, request>>
               /\ handling' = [handling EXCEPT ![c] =
                                  IF request[c].ca = BroadcastCA THEN NextCA(h.ca) ELSE Idle]
               /\ \/ /\ h.elements = <<>>
                     /\ out' = [out EXCEPT ![c] = Append(out[c], ASDU("term", h.ca))]
                  \/ /\ h.elements # <<>>
                     /\ out' = [out EXCEPT ![c] =
                                   Append(Append(out[c], Data(h.ca, h.elements)), ASDU("term", h.ca))]
<1> DEFINE h == handling[c]
           term == ASDU("term", h.ca)
           data == Data(h.ca, h.elements)
<1>1. /\ out[c] \in Seq(ASDUs) /\ h \in Handlings /\ request \in [Conns -> Requests]
      /\ out \in [Conns -> Seq(ASDUs)]
  BY TypesByName DEF EDTypeInv
<1>2. term \in ASDUs /\ data \in ASDUs
  BY <1>1, ASDUTypes DEF Handlings, ASDUKinds
<1> HIDE DEF term, data
<1>3. out' = [out EXCEPT ![c] = out[c] \o Append(LastASDU(h.ca, h.elements), term)]
  BY DEF Terminate, Send, term
<1>4. CASE h.elements = <<>>
  <2>1. Append(LastASDU(h.ca, h.elements), term) = <<term>>
    BY <1>2, <1>4 DEF LastASDU
  <2>2. out' = [out EXCEPT ![c] = Append(out[c], term)]
    BY <1>1, <1>2, <1>3, <2>1, SendFact
  <2> QED BY <1>1, <1>4, <2>2 DEF Terminate, Go, term
<1>5. CASE h.elements # <<>>
  <2>1. LastASDU(h.ca, h.elements) = <<data>>
    BY <1>5 DEF LastASDU, data
  <2>2. out[c] \o Append(<<data>>, term) = Append(Append(out[c], data), term)
    <3>1. Append(<<data>>, term) = <<data, term>>
      BY <1>1, <1>2, SendFact
    <3> QED BY <1>1, <1>2, <3>1, SendFact
  <2>3. out' = [out EXCEPT ![c] = Append(Append(out[c], data), term)]
    BY <1>3, <2>1, <2>2
  <2> QED BY <1>1, <1>5, <2>3 DEF Terminate, Go, term, data
<1> QED BY <1>4, <1>5

-----------------------------------------------------------------------------
(* EDTypeOK is kept *)

LEMMA InitTypes == EDInit => EDTypeInv
<1> SUFFICES ASSUME EDInit PROVE EDTypeInv
  OBVIOUS
<1>1. /\ DOMAIN definitions = ConfiguredCAs
      /\ \A ca \in ConfiguredCAs : definitions[ca] = ConfiguredIOAs(ca)
  BY DEF EDInit
<1>2. ConfiguredCAs \subseteq CAs /\ \A ca \in ConfiguredCAs : ConfiguredIOAs(ca) \subseteq IOAs
  BY DataPointAssumption DEF ConfiguredCAs, ConfiguredIOAs
<1>3. \A d \in DataPoints : IsKnown(d.ca) /\ d.ioa \in definitions[d.ca]
  BY <1>1 DEF ConfiguredCAs, ConfiguredIOAs, IsKnown
<1>4. request \in [Conns -> Requests]
  BY DEF EDInit, Requests
<1>5. handling \in [Conns -> Handlings] /\ \A c \in Conns : handling[c].pc = "idle"
  BY HandlingTypes DEF EDInit, Idle
<1>6. out \in [Conns -> Seq(ASDUs)]
  BY EmptySeq DEF EDInit
<1>7. EDTypeOK
  BY <1>1, <1>2, <1>3, <1>4, <1>5, <1>6 DEF EDTypeOK, Requests, Handlings, ASDUs
<1>8. HandledIsKnown
  BY <1>5 DEF HandledIsKnown
<1> QED BY <1>7, <1>8 DEF EDTypeInv

\* A CA that has its entry is a CA, the IOAs in it are IOAs.
LEMMA KnownFact ==
    ASSUME EDTypeOK, NEW ca, IsKnown(ca)
    PROVE  ca \in Nat /\ ca \in CAs /\ definitions[ca] \in SUBSET IOAs
  BY AddressAssumption DEF EDTypeOK, IsKnown

LEMMA NextCAType ==
    ASSUME EDTypeOK, NEW ca \in Int
    PROVE  /\ NextCA(ca) \in Handlings
           /\ NextCA(ca).pc # "idle" => IsKnown(NextCA(ca).ca)
<1>1. CASE NextCA(ca) = Idle
  BY <1>1, HandlingTypes DEF Idle
<1>2. ASSUME NEW b \in DOMAIN definitions, b \in Nat, NextCA(ca) = At("confirm", b, {}, <<>>)
      PROVE  /\ NextCA(ca) \in Handlings
             /\ NextCA(ca).pc # "idle" => IsKnown(NextCA(ca).ca)
  <2>1. At("confirm", b, {}, <<>>) \in Handlings
    <3>1. <<>> \in Elements /\ {} \in SUBSET IOAs
      BY EmptySeq DEF Elements
    <3> QED BY <1>2, <3>1, HandlingTypes
  <2>2. At("confirm", b, {}, <<>>).ca = b
    BY DEF At
  <2> QED BY <1>2, <2>1, <2>2 DEF IsKnown
<1> QED BY <1>1, <1>2, NextCAFact

LEMMA NextTypes == EDTypeInv /\ [EDNext]_edVars => EDTypeInv'
<1> SUFFICES ASSUME EDTypeInv, [EDNext]_edVars PROVE EDTypeInv'
  OBVIOUS
<1>1. EDTypeOK /\ HandledIsKnown
  BY DEF EDTypeInv
<1>2. /\ request \in [Conns -> Requests]
      /\ handling \in [Conns -> Handlings]
      /\ out \in [Conns -> Seq(ASDUs)]
  BY <1>1, TypesByName
<1>3. <<>> \in Elements /\ <<>> \in Seq(ASDUs)
  BY EmptySeq DEF Elements
<1>4. ASSUME NEW c \in Conns, NEW cmd \in Commands, validateCommand(c, cmd)
      PROVE  EDTypeInv'
  <2>1. cmd.ca \in CAs /\ cmd.ca \in Nat /\ {} \in SUBSET IOAs
    BY InputAssumption, AddressAssumption
  <2>2. [kind |-> "command", ca |-> cmd.ca, qoi |-> 0] \in Requests
    BY <2>1 DEF Requests
  <2>3. handling[c] \in Handlings
    BY <1>2
  <2>4. handling[c].pc = "idle"
    BY <1>4, CommandEffect
  <2> QED BY <1>4, <2>1, <2>2, <2>3, <2>4, CommandEffect, StepTypes
<1>5. ASSUME NEW c \in Conns, NEW ca \in CAs \union {BroadcastCA}, NEW qoi \in QOIs,
             interrogationHandler(c, ca, qoi)
      PROVE  EDTypeInv'
  <2> DEFINE r == [kind |-> "interrogation", ca |-> ca, qoi |-> qoi]
  <2>1. ca \in Nat /\ r \in Requests
    BY <1>5, InterrogationEffect, InputAssumption DEF Requests
  <2>2. request' = [request EXCEPT ![c] = r] /\ UNCHANGED definitions
    BY <1>5, InterrogationEffect
  <2> HIDE DEF r
  <2>3. CASE /\ handling' = [handling EXCEPT ![c] = Idle]
             /\ out' = [out EXCEPT ![c] = <<ASDU("negative", ca)>>]
    <3>1. <<ASDU("negative", ca)>> \in Seq(ASDUs)
      BY <2>1, ASDUTypes DEF ASDUKinds
    <3>2. Idle \in Handlings /\ Idle.pc = "idle"
      BY HandlingTypes DEF Idle
    <3> QED BY <2>1, <2>2, <2>3, <3>1, <3>2, StepTypes
  <2>4. CASE /\ out' = [out EXCEPT ![c] = <<>>]
             /\ IsKnown(ca)
             /\ handling' = [handling EXCEPT ![c] = At("confirm", ca, {}, <<>>)]
    <3>1. At("confirm", ca, {}, <<>>) \in Handlings
      BY <1>3, <2>1, HandlingTypes
    <3>2. At("confirm", ca, {}, <<>>).ca = ca
      BY DEF At
    <3> QED BY <1>3, <2>1, <2>2, <2>4, <3>1, <3>2, StepTypes
  <2>5. CASE /\ out' = [out EXCEPT ![c] = <<>>]
             /\ handling' = [handling EXCEPT ![c] = NextCA(-1)]
    <3>1. -1 \in Int
      OBVIOUS
    <3>2. NextCA(-1) \in Handlings /\ (NextCA(-1).pc # "idle" => IsKnown(NextCA(-1).ca))
      BY <1>1, <3>1, NextCAType
    <3> QED BY <1>3, <2>1, <2>2, <2>5, <3>2, StepTypes
  <2> QED BY <1>5, <2>3, <2>4, <2>5, InterrogationEffect
<1>6. ASSUME NEW c \in Conns, Confirm(c) PROVE EDTypeInv'
  <2>1. IsKnown(handling[c].ca)
    BY <1>1, <1>6, ConfirmEffect DEF HandledIsKnown
  <2>2. handling[c].ca \in Nat /\ definitions[handling[c].ca] \in SUBSET IOAs
    BY <1>1, <2>1, KnownFact
  <2>3. At("walk", handling[c].ca, definitions[handling[c].ca], <<>>) \in Handlings
    BY <1>3, <2>2, HandlingTypes
  <2>4. Append(out[c], ASDU("con", handling[c].ca)) \in Seq(ASDUs)
    BY <1>2, <2>2, ASDUTypes, AppendProperties DEF ASDUKinds
  <2>5. At("walk", handling[c].ca, definitions[handling[c].ca], <<>>).ca = handling[c].ca
    BY DEF At
  <2>6. request[c] \in Requests
    BY <1>2
  <2> QED BY <1>6, <2>1, <2>3, <2>4, <2>5, <2>6, ConfirmEffect, StepTypes
<1>7. ASSUME NEW c \in Conns, ReportPoint(c) PROVE EDTypeInv'
  <2> DEFINE h == handling[c]
  <2>1. h.pc = "walk" /\ IsKnown(h.ca) /\ h \in Handlings /\ request[c] \in Requests
    BY <1>1, <1>2, <1>7, ReportEffect DEF HandledIsKnown
  <2>2. h.ca \in Nat /\ h.ld \in SUBSET IOAs /\ h.elements \in Elements
    BY <2>1 DEF Handlings
  <2>3. Append(out[c], Data(h.ca, h.elements)) \in Seq(ASDUs) /\ out[c] \in Seq(ASDUs)
    BY <1>2, <2>2, ASDUTypes, AppendProperties
  <2>4. PICK h2, s2 : /\ MovesOn(h, request[c], out[c], h2, s2)
                      /\ handling' = [handling EXCEPT ![c] = h2]
                      /\ out' = [out EXCEPT ![c] = s2]
    BY <1>7, ReportEffect
  <2>5. \E ld \in SUBSET IOAs, elements \in Elements : h2 = At("walk", h.ca, ld, elements)
    <3>1. \A ioa : h.ld \ {ioa} \in SUBSET IOAs
      BY <2>2
    <3>2. \A ioa : \A d \in PointsAt(h.ca, ioa) : Added(h.elements, d) \in Elements /\ Added(<<>>, d) \in Elements
      BY <1>3, <2>2, AddedType DEF PointsAt
    <3> QED BY <2>2, <2>4, <3>1, <3>2 DEF MovesOn
  <2>6. h2 \in Handlings /\ h2.ca = h.ca
    <3>1. PICK ld \in SUBSET IOAs, elements \in Elements : h2 = At("walk", h.ca, ld, elements)
      BY <2>5
    <3>2. h2 \in Handlings
      BY <2>2, <3>1, HandlingTypes
    <3>3. At("walk", h.ca, ld, elements).ca = h.ca
      BY DEF At
    <3> QED BY <3>1, <3>2, <3>3
  <2>7. s2 \in Seq(ASDUs)
    BY <2>3, <2>4 DEF MovesOn
  <2>8. UNCHANGED definitions /\ request' = [request EXCEPT ![c] = request[c]]
    BY <1>7, ReportEffect
  <2> QED BY <2>1, <2>4, <2>6, <2>7, <2>8, StepTypes
<1>8. ASSUME NEW c \in Conns, Terminate(c) PROVE EDTypeInv'
  <2> DEFINE h == handling[c]
             next == IF request[c].ca = BroadcastCA THEN NextCA(h.ca) ELSE Idle
  <2>1. h \in Handlings /\ request[c] \in Requests /\ out[c] \in Seq(ASDUs)
    BY <1>2
  <2>2. h.ca \in Nat /\ h.elements \in Elements
    BY <2>1 DEF Handlings
  <2>3. next \in Handlings /\ (next.pc # "idle" => IsKnown(next.ca))
    BY <1>1, <2>2, NextCAType, HandlingTypes DEF Idle
  <2>4. /\ Append(out[c], ASDU("term", h.ca)) \in Seq(ASDUs)
        /\ Append(Append(out[c], Data(h.ca, h.elements)), ASDU("term", h.ca)) \in Seq(ASDUs)
    BY <2>1, <2>2, ASDUTypes, AppendProperties DEF ASDUKinds
  <2>5. handling' = [handling EXCEPT ![c] = next]
    BY <1>8, TerminateEffect
  <2>6. \E s \in Seq(ASDUs) : out' = [out EXCEPT ![c] = s]
    BY <1>8, <2>4, TerminateEffect
  <2>7. UNCHANGED definitions /\ request' = [request EXCEPT ![c] = request[c]]
    BY <1>8, TerminateEffect
  <2> HIDE DEF next
  <2> QED BY <2>1, <2>3, <2>5, <2>6, <2>7, StepTypes
<1>9. CASE UNCHANGED edVars
  BY <1>1, <1>9 DEF edVars, EDTypeInv, EDTypeOK, HandledIsKnown, IsKnown
<1> QED BY <1>4, <1>5, <1>6, <1>7, <1>8, <1>9, ReadingKeepsTypes DEF EDNext

\* Every variable has its type, and what was configured is still there, for
\* any stations, data points and masters.
THEOREM DataTypeCorrect == EDSpec => []EDTypeOK
<1>1. EDTypeInv => EDTypeOK
  BY DEF EDTypeInv
<1> QED BY <1>1, InitTypes, NextTypes, PTL DEF EDSpec

-----------------------------------------------------------------------------
(* Commands follow the configuration *)

\* Less than 2^32 ms off, the cast to int only loses what is far out of time.
LEMMA CastFact ==
    ASSUME NEW age \in Int, Distance(age) < IntRange
    PROVE  checkTimestamp(age) <=> -RecvLimit =< age /\ age =< RecvLimit
<1> DEFINE m == Distance(age)
           half == IntRange \div 2
<1>1. RecvLimit \in Nat /\ 2 * RecvLimit < IntRange /\ IntRange \in Nat \ {0}
  BY TimeAssumption DEF RecvLimit
<1>2. m \in Nat /\ m % IntRange = m
  BY <1>1 DEF Distance
<1>3. half \in Nat /\ 2 * half = IntRange
  BY <1>1, TimeAssumption
<1>4. m =< RecvLimit <=> -RecvLimit =< age /\ age =< RecvLimit
  BY <1>1 DEF Distance
<1>5. ToInt(m) = IF m < half THEN m ELSE m - IntRange
  BY <1>2 DEF ToInt
<1>6. checkTimestamp(age) <=> ~(ToInt(m) > RecvLimit \/ ToInt(m) < 0)
  BY DEF checkTimestamp
<1> HIDE DEF m, half
<1> QED BY <1>1, <1>2, <1>3, <1>4, <1>5, <1>6

\* A command with a time tag is in time when checkIfCmdTimeIsValid says so.
LEMMA TimeFact ==
    ASSUME NEW cmd \in Commands, Distance(cmd.age) < IntRange, isCommandWithTimestamp(cmd.typeId)
    PROVE  checkIfCmdTimeIsValid(cmd.typeId, cmd.age) <=> IsInTime(cmd)
<1>1. cmd.age \in Int
  BY InputAssumption
<1>2. checkTimestamp(cmd.age) <=> -RecvLimit =< cmd.age /\ cmd.age =< RecvLimit
  BY <1>1, CastFact
<1> QED BY <1>2 DEF checkIfCmdTimeIsValid, isCommandWithTimestamp, IsInTime

\* The table by which an object is commanded agrees with the one by which it
\* got its type.
LEMMA TablesAgree ==
    ASSUME NEW type \in DataTypes, NEW typeId \in TypeIds
    PROVE  typeId \in ObjectCommands[type] <=> typeId \in CommandTypes /\ typeIdToDataType(typeId) = type
<1>1. CASE typeId \notin CommandTypes
  BY <1>1 DEF DataTypes, ObjectCommands, CommandTypes
<1>2. CASE typeId \in {"C_SC_NA_1", "C_SC_TA_1"}
  BY <1>2 DEF DataTypes, ObjectCommands, CommandTypes, typeIdToDataType
<1>3. CASE typeId \in {"C_DC_NA_1", "C_DC_TA_1"}
  BY <1>3 DEF DataTypes, ObjectCommands, CommandTypes, typeIdToDataType
<1>4. CASE typeId \in {"C_RC_NA_1", "C_RC_TA_1"}
  BY <1>4 DEF DataTypes, ObjectCommands, CommandTypes, typeIdToDataType
<1>5. CASE typeId \in {"C_SE_NA_1", "C_SE_TA_1"}
  BY <1>5 DEF DataTypes, ObjectCommands, CommandTypes, typeIdToDataType
<1>6. CASE typeId \in {"C_SE_NB_1", "C_SE_TB_1"}
  BY <1>6 DEF DataTypes, ObjectCommands, CommandTypes, typeIdToDataType
<1>7. CASE typeId \in {"C_SE_NC_1", "C_SE_TC_1"}
  BY <1>7 DEF DataTypes, ObjectCommands, CommandTypes, typeIdToDataType
<1> QED BY <1>1, <1>2, <1>3, <1>4, <1>5, <1>6, <1>7 DEF CommandTypes

\* What the ten checks ask of a command.
LEMMA PassedChecks ==
    ASSUME NEW cmd
    PROVE  (\A i \in 1 .. 10 : Checks(cmd)[i].ok) <=>
           /\ LooksUp(cmd)
           /\ IsKnown(cmd.ca) /\ definitions[cmd.ca] # {}
           /\ cmd.originator
           /\ PointsAt(cmd.ca, cmd.ioa) # {}
           /\ \A d \in PointsAt(cmd.ca, cmd.ioa) : isMatchingCommand(d.type, d.command, cmd.typeId)
           /\ IF isCommandWithTimestamp(cmd.typeId) THEN AllowCmdWithTime ELSE AllowCmdWithoutTime
           /\ isCommandWithTimestamp(cmd.typeId) => checkIfCmdTimeIsValid(cmd.typeId, cmd.age)
<1>1. /\ Checks(cmd)[1].ok <=> isSupportedCommandType(cmd.typeId)
      /\ Checks(cmd)[2].ok <=> cmd.south
      /\ Checks(cmd)[3].ok <=> cmd.cot = "ACTIVATION"
      /\ Checks(cmd)[4].ok <=> cmd.io
      /\ Checks(cmd)[5].ok <=> IsKnown(cmd.ca) /\ definitions[cmd.ca] # {}
      /\ Checks(cmd)[6].ok <=> cmd.originator
      /\ Checks(cmd)[7].ok <=> HasPoint(cmd.ca, cmd.ioa)
      /\ Checks(cmd)[8].ok <=> \A d \in PointsAt(cmd.ca, cmd.ioa) :
                                  isMatchingCommand(d.type, d.command, cmd.typeId)
      /\ Checks(cmd)[9].ok <=> IF isCommandWithTimestamp(cmd.typeId) THEN AllowCmdWithTime
                                                                     ELSE AllowCmdWithoutTime
      /\ Checks(cmd)[10].ok <=> (isCommandWithTimestamp(cmd.typeId)
                                    => checkIfCmdTimeIsValid(cmd.typeId, cmd.age))
  BY Zenon DEF Checks
<1>2. (\A i \in 1 .. 10 : Checks(cmd)[i].ok) <=>
          /\ Checks(cmd)[1].ok /\ Checks(cmd)[2].ok /\ Checks(cmd)[3].ok /\ Checks(cmd)[4].ok
          /\ Checks(cmd)[5].ok /\ Checks(cmd)[6].ok /\ Checks(cmd)[7].ok /\ Checks(cmd)[8].ok
          /\ Checks(cmd)[9].ok /\ Checks(cmd)[10].ok
  <2> DEFINE ok(i) == Checks(cmd)[i].ok
  <2>1. \A i \in 1 .. 10 : i = 1 \/ i = 2 \/ i = 3 \/ i = 4 \/ i = 5
                           \/ i = 6 \/ i = 7 \/ i = 8 \/ i = 9 \/ i = 10
    OBVIOUS
  <2>2. 1 \in 1 .. 10 /\ 2 \in 1 .. 10 /\ 3 \in 1 .. 10 /\ 4 \in 1 .. 10 /\ 5 \in 1 .. 10
        /\ 6 \in 1 .. 10 /\ 7 \in 1 .. 10 /\ 8 \in 1 .. 10 /\ 9 \in 1 .. 10 /\ 10 \in 1 .. 10
    OBVIOUS
  <2> QED BY ONLY <2>1, <2>2, Zenon
<1> QED BY <1>1, <1>2, Zenon DEF LooksUp, HasPoint

\* A configured station has its entry and something in it.
LEMMA ConfiguredIsKnown ==
    ASSUME EDTypeOK, NEW cmd, PointsAt(cmd.ca, cmd.ioa) # {}
    PROVE  IsKnown(cmd.ca) /\ definitions[cmd.ca] # {}
  BY DEF EDTypeOK, PointsAt

LEMMA CommandsByTypes == EDTypeOK => CommandsFollowConfiguration
<1> SUFFICES ASSUME EDTypeOK, NEW cmd \in Commands, Distance(cmd.age) < IntRange
             PROVE  CommandAnswers(cmd) = {} <=>
                    /\ LooksUp(cmd) /\ cmd.originator
                    /\ IF isCommandWithTimestamp(cmd.typeId) THEN AllowCmdWithTime /\ IsInTime(cmd)
                                                             ELSE AllowCmdWithoutTime
                    /\ \E d \in DataPoints : d.ca = cmd.ca /\ d.ioa = cmd.ioa /\ IsTypeOf(cmd.typeId, d)
  BY DEF CommandsFollowConfiguration
<1>1. cmd.typeId \in TypeIds
  BY InputAssumption
<1>2. \A d \in DataPoints : isMatchingCommand(d.type, d.command, cmd.typeId) <=> IsTypeOf(cmd.typeId, d)
  BY <1>1, DataPointAssumption, TablesAgree DEF isMatchingCommand, IsTypeOf
<1>3. (\E d \in DataPoints : d.ca = cmd.ca /\ d.ioa = cmd.ioa /\ IsTypeOf(cmd.typeId, d)) <=>
      /\ PointsAt(cmd.ca, cmd.ioa) # {}
      /\ \A d \in PointsAt(cmd.ca, cmd.ioa) : isMatchingCommand(d.type, d.command, cmd.typeId)
  BY <1>2, DataPointAssumption DEF PointsAt
<1> QED BY <1>3, AnswersFact, PassedChecks, ConfiguredIsKnown, TimeFact

\* Whatever was inserted before, a command is forwarded exactly when the
\* configuration has a command object of its type at its address and the
\* configured checks allow it: for any stations, objects and commands.
THEOREM CommandsAreForwardedAsConfigured == EDSpec => []CommandsFollowConfiguration
  BY DataTypeCorrect, CommandsByTypes, PTL

-----------------------------------------------------------------------------
(* The CAs are answered in their order *)

LEMMA AppendFact ==
    ASSUME NEW s \in Seq(ASDUs), NEW a \in ASDUs
    PROVE  /\ Append(s, a) \in Seq(ASDUs)
           /\ Len(s) \in Nat /\ Len(Append(s, a)) = Len(s) + 1
           /\ \A i \in 1 .. Len(s) : Append(s, a)[i] = s[i]
           /\ Append(s, a)[Len(s) + 1] = a
           /\ \A i : i \in 1 .. Len(Append(s, a)) <=> i \in 1 .. Len(s) \/ i = Len(s) + 1
<1>1. /\ Append(s, a) \in Seq(ASDUs)
      /\ Len(s) \in Nat /\ Len(Append(s, a)) = Len(s) + 1
      /\ \A i \in 1 .. Len(s) : Append(s, a)[i] = s[i]
      /\ Append(s, a)[Len(s) + 1] = a
  BY AppendProperties
<1> QED BY <1>1

\* The same of the ASDUs that have no elements.
LEMMA SentAppend ==
    ASSUME NEW s \in Seq(ASDUs), NEW a \in ASDUs, NEW kind, NEW ca
    PROVE  /\ a = ASDU(kind, ca) => Sent(Append(s, a), kind, ca) = Sent(s, kind, ca) \union {Len(s) + 1}
           /\ a # ASDU(kind, ca) => Sent(Append(s, a), kind, ca) = Sent(s, kind, ca)
<1> DEFINE t == Append(s, a)
<1>1. /\ \A i \in 1 .. Len(s) : t[i] = s[i]
      /\ t[Len(s) + 1] = a
      /\ \A i : i \in 1 .. Len(t) <=> i \in 1 .. Len(s) \/ i = Len(s) + 1
  BY AppendFact
<1> HIDE DEF t
<1>2. a = ASDU(kind, ca) => Sent(t, kind, ca) = Sent(s, kind, ca) \union {Len(s) + 1}
  BY <1>1 DEF Sent
<1>3. a # ASDU(kind, ca) => Sent(t, kind, ca) = Sent(s, kind, ca)
  BY <1>1 DEF Sent
<1> QED BY <1>2, <1>3 DEF t

\* ASDUs that differ.
LEMMA DistinctASDUs ==
    /\ \A k1, k2, ca1, ca2 : ASDU(k1, ca1) = ASDU(k2, ca2) <=> k1 = k2 /\ ca1 = ca2
    /\ \A k, ca1, ca2, elements : k # "data" => Data(ca1, elements) # ASDU(k, ca2)
    /\ \A k, ca : ASDU(k, ca).kind = k /\ ASDU(k, ca).ca = ca
    /\ \A ca, elements : Data(ca, elements).kind = "data" /\ Data(ca, elements).ca = ca
                         /\ Data(ca, elements).elements = elements
<1>1. \A k1, k2, ca1, ca2 : ASDU(k1, ca1) = ASDU(k2, ca2) <=> k1 = k2 /\ ca1 = ca2
  BY DEF ASDU
<1> QED BY <1>1 DEF ASDU, Data

\* What there is of an answer is about the CAs up to the one that is handled.
LEMMA NotYetSent ==
    ASSUME NEW h \in Handlings, NEW r, NEW s \in Seq(ASDUs), OrderInv(h, r, s)
    PROVE  /\ h.pc = "confirm" => \A kind : IsAnswer(kind) => Sent(s, kind, h.ca) = {}
           /\ h.pc = "walk" => Sent(s, "term", h.ca) = {}
<1>1. h.ca \in Nat
  BY DEF Handlings
<1>2. \A i, kind : i \in Sent(s, kind, h.ca) => i \in 1 .. Len(s) /\ s[i].ca = h.ca /\ s[i].kind = kind
  BY DistinctASDUs DEF Sent
<1> QED BY <1>1, <1>2 DEF OrderInv, IsAnswer

\* ACT-CON, then the walk.
LEMMA ConfirmKeeps ==
    ASSUME NEW h \in Handlings, NEW r \in Requests, NEW s \in Seq(ASDUs), AnswerInv(h, r, s),
           h.pc = "confirm", NEW ld \in SUBSET IOAs
    PROVE  AnswerInv(At("walk", h.ca, ld, <<>>), r, Append(s, ASDU("con", h.ca)))
<1> DEFINE h2 == At("walk", h.ca, ld, <<>>)
           a == ASDU("con", h.ca)
           t == Append(s, a)
<1>1. h.ca \in Nat /\ a \in ASDUs
  BY ASDUTypes DEF Handlings, ASDUKinds
<1>2. h2.pc = "walk" /\ h2.ca = h.ca /\ a.kind = "con" /\ a.ca = h.ca
  BY DistinctASDUs DEF At
<1>3. /\ Sent(t, "con", h.ca) = Sent(s, "con", h.ca) \union {Len(s) + 1}
      /\ \A kind, ca : kind # "con" \/ ca # h.ca => Sent(t, kind, ca) = Sent(s, kind, ca)
  BY <1>1, SentAppend, DistinctASDUs
<1>4. Sent(s, "con", h.ca) = {}
  BY NotYetSent DEF AnswerInv, IsAnswer
<1>5. /\ \A i \in 1 .. Len(s) : t[i] = s[i]
      /\ t[Len(s) + 1] = a
      /\ \A i : i \in 1 .. Len(t) <=> i \in 1 .. Len(s) \/ i = Len(s) + 1
  BY <1>1, AppendFact
<1> HIDE DEF h2, a, t
<1>6. WorksOnRequest(h2, r)
  BY <1>2 DEF AnswerInv, WorksOnRequest
<1>7. OrderInv(h2, r, t)
  <2>1. r.kind = "interrogation" /\ InRange(r.qoi)
    BY DEF AnswerInv, WorksOnRequest
  <2>2. \A i \in 1 .. Len(s) : IsAnswer(s[i].kind) => s[i].ca < h.ca
    BY DEF AnswerInv, OrderInv
  <2> QED BY <1>2, <1>5, <2>1, <2>2 DEF OrderInv
<1>8. PassedInv(h2, r, t)
  <2> SUFFICES ASSUME IsBroadcast(r), NEW ca \in ConfiguredCAs
               PROVE  /\ ca < h.ca => One(Sent(t, "con", ca)) /\ One(Sent(t, "term", ca))
                      /\ ca = h.ca => One(Sent(t, "con", ca))
    BY <1>2 DEF PassedInv
  <2>1. ca < h.ca => ca # h.ca
    BY <1>1
  <2>2. ca < h.ca => One(Sent(s, "con", ca)) /\ One(Sent(s, "term", ca))
    BY DEF AnswerInv, PassedInv
  <2> QED BY <1>3, <1>4, <2>1, <2>2 DEF One
<1> QED BY <1>6, <1>7, <1>8 DEF AnswerInv, h2, a, t

\* An ASDU with data, or none.
LEMMA WalkKeeps ==
    ASSUME NEW h \in Handlings, NEW r \in Requests, NEW s \in Seq(ASDUs), AnswerInv(h, r, s),
           h.pc = "walk", NEW ld, NEW elements, NEW sent \in Elements
    PROVE  /\ AnswerInv(At("walk", h.ca, ld, elements), r, s)
           /\ AnswerInv(At("walk", h.ca, ld, elements), r, Append(s, Data(h.ca, sent)))
<1> DEFINE h2 == At("walk", h.ca, ld, elements)
           a == Data(h.ca, sent)
           t == Append(s, a)
<1>1. h.ca \in Nat /\ a \in ASDUs
  BY ASDUTypes DEF Handlings
<1>2. h2.pc = "walk" /\ h2.ca = h.ca /\ a.kind = "data" /\ a.ca = h.ca
  BY DistinctASDUs DEF At
<1>3. \A ca : Sent(t, "con", ca) = Sent(s, "con", ca) /\ Sent(t, "term", ca) = Sent(s, "term", ca)
  <2>1. \A kind, ca : kind # "data" => a # ASDU(kind, ca)
    BY DistinctASDUs
  <2> HIDE DEF a
  <2> QED BY <1>1, <2>1, SentAppend
<1>4. /\ \A i \in 1 .. Len(s) : t[i] = s[i]
      /\ t[Len(s) + 1] = a
      /\ \A i : i \in 1 .. Len(t) <=> i \in 1 .. Len(s) \/ i = Len(s) + 1
  BY <1>1, AppendFact
<1> HIDE DEF h2, a, t
<1>5. AnswerInv(h2, r, s)
  BY <1>2 DEF AnswerInv, WorksOnRequest, OrderInv, PassedInv
<1>6. OrderInv(h2, r, t)
  <2>1. r.kind = "interrogation" /\ InRange(r.qoi)
    BY DEF AnswerInv, WorksOnRequest
  <2>2. \A i \in 1 .. Len(s) : IsAnswer(s[i].kind) =>
           s[i].ca < h.ca \/ (s[i].ca = h.ca /\ s[i].kind # "term")
    BY DEF AnswerInv, OrderInv
  <2> QED BY <1>2, <1>4, <2>1, <2>2 DEF OrderInv
<1>7. PassedInv(h2, r, t)
  BY <1>2, <1>3, <1>5 DEF AnswerInv, PassedInv
<1> QED BY <1>5, <1>6, <1>7 DEF AnswerInv, h2, a, t

\* The handling after ACT-TERM: a broadcast goes on to the next CA, if any.
Follows(h, r, h2) ==
    \/ /\ h2 = Idle
       /\ r.ca = BroadcastCA => \A ca \in ConfiguredCAs : ca =< h.ca
    \/ \E b \in Nat :
       /\ r.ca = BroadcastCA
       /\ h2 = At("confirm", b, {}, <<>>)
       /\ b > h.ca /\ \A ca \in ConfiguredCAs : ca > h.ca => b =< ca

\* ACT-TERM, then the next CA or the end.
LEMMA TermKeeps ==
    ASSUME NEW h \in Handlings, NEW r \in Requests, NEW s \in Seq(ASDUs), AnswerInv(h, r, s),
           h.pc = "walk", NEW h2, Follows(h, r, h2)
    PROVE  AnswerInv(h2, r, Append(s, ASDU("term", h.ca)))
<1> DEFINE a == ASDU("term", h.ca)
           t == Append(s, a)
<1>1. h.ca \in Nat /\ a \in ASDUs
  BY ASDUTypes DEF Handlings, ASDUKinds
<1>2. a.kind = "term" /\ a.ca = h.ca
  BY DistinctASDUs
<1>3. /\ Sent(t, "term", h.ca) = Sent(s, "term", h.ca) \union {Len(s) + 1}
      /\ \A kind, ca : kind # "term" \/ ca # h.ca => Sent(t, kind, ca) = Sent(s, kind, ca)
  BY <1>1, SentAppend, DistinctASDUs
<1>4. Sent(s, "term", h.ca) = {}
  BY NotYetSent DEF AnswerInv
<1>5. /\ \A i \in 1 .. Len(s) : t[i] = s[i]
      /\ t[Len(s) + 1] = a
      /\ \A i : i \in 1 .. Len(t) <=> i \in 1 .. Len(s) \/ i = Len(s) + 1
  BY <1>1, AppendFact
<1>6. r.kind = "interrogation" /\ InRange(r.qoi)
  BY DEF AnswerInv, WorksOnRequest
<1>7. \/ h2.pc = "idle" /\ (r.ca = BroadcastCA => \A ca \in ConfiguredCAs : ca =< h.ca)
      \/ /\ h2.pc = "confirm" /\ r.ca = BroadcastCA
         /\ h2.ca \in Nat /\ h2.ca > h.ca
         /\ \A ca \in ConfiguredCAs : ca > h.ca => h2.ca =< ca
  BY DEF Follows, Idle, At
<1>8. \A i \in 1 .. Len(s) : IsAnswer(s[i].kind) =>
           s[i].ca < h.ca \/ (s[i].ca = h.ca /\ s[i].kind # "term")
  BY DEF AnswerInv, OrderInv
<1>9. \A ca \in ConfiguredCAs : ca \in Nat
  BY AddressAssumption, DataPointAssumption DEF ConfiguredCAs
<1> HIDE DEF a, t
<1>10. WorksOnRequest(h2, r)
  BY <1>6, <1>7 DEF WorksOnRequest
<1>11. OrderInv(h2, r, t)
  <2>1. \A i \in 1 .. Len(s) : s[i].ca \in Nat
    <3>1. \A i \in 1 .. Len(s) : s[i] \in ASDUs
      OBVIOUS
    <3> QED BY <3>1 DEF ASDUs
  <2> QED BY <1>1, <1>2, <1>5, <1>6, <1>7, <1>8, <2>1 DEF OrderInv
<1>12. PassedInv(h2, r, t)
  <2> SUFFICES ASSUME IsBroadcast(r), NEW ca \in ConfiguredCAs, h2.pc = "idle" \/ ca < h2.ca
               PROVE  One(Sent(t, "con", ca)) /\ One(Sent(t, "term", ca))
    BY <1>7 DEF PassedInv
  <2>1. ca =< h.ca
    BY <1>1, <1>7, <1>9 DEF IsBroadcast
  <2>2. ca < h.ca => One(Sent(s, "con", ca)) /\ One(Sent(s, "term", ca))
    BY DEF AnswerInv, PassedInv
  <2>3. ca = h.ca => One(Sent(s, "con", ca))
    BY DEF AnswerInv, PassedInv
  <2>4. ca < h.ca \/ ca = h.ca
    BY <1>1, <1>9, <2>1
  <2>5. ca < h.ca => ca # h.ca
    BY <1>1
  <2> QED BY <1>3, <1>4, <2>2, <2>3, <2>4, <2>5 DEF One
<1> QED BY <1>10, <1>11, <1>12 DEF AnswerInv, a, t

-----------------------------------------------------------------------------
(* An ASDU holds elements of one type *)

LEMMA AddedFact ==
    ASSUME NEW elements \in Elements, NEW d \in DataPoints, Fits(elements, d)
    PROVE  /\ Added(elements, d) \in Elements
           /\ Len(elements) \in Nat /\ Len(Added(elements, d)) = Len(elements) + 1
           /\ \A k \in 1 .. Len(elements) : Added(elements, d)[k] = elements[k]
           /\ Added(elements, d)[Len(elements) + 1].ioa = d.ioa
           /\ Added(elements, d)[Len(elements) + 1].type = d.type
<1>1. [ioa |-> d.ioa, type |-> d.type] \in [ioa : IOAs, type : DataTypes]
  BY DataPointAssumption
<1>2. Added(elements, d) = Append(elements, [ioa |-> d.ioa, type |-> d.type])
  BY DEF Added
<1>3. Added(elements, d)[Len(elements) + 1] = [ioa |-> d.ioa, type |-> d.type]
  BY <1>1, <1>2, AppendProperties DEF Elements
<1> QED BY <1>1, <1>2, <1>3, AppendProperties DEF Elements

LEMMA EmptyUniform == <<>> \in Elements /\ IsUniform(<<>>)
<1>1. Len(<<>>) = 0 /\ \A k \in 1 .. 0 : FALSE
  OBVIOUS
<1> QED BY <1>1, EmptySeq, BoundAssumption DEF Elements, IsUniform

LEMMA AddedUniform ==
    ASSUME NEW elements \in Elements, IsUniform(elements), NEW d \in DataPoints
    PROVE  IsUniform(Added(elements, d))
<1>1. CASE ~Fits(elements, d)
  BY <1>1 DEF Added
<1>2. CASE Fits(elements, d)
  <2> DEFINE added == Added(elements, d)
  <2>1. /\ Len(elements) \in Nat /\ Len(added) = Len(elements) + 1
        /\ \A k \in 1 .. Len(elements) : added[k] = elements[k]
        /\ added[Len(elements) + 1].type = d.type
    BY <1>2, AddedFact
  <2>2. Len(elements) < MaxElements /\ (elements # <<>> => elements[1].type = d.type)
    BY <1>2 DEF Fits
  <2>3. /\ Len(elements) =< MaxElements
        /\ \A k \in 1 .. Len(elements) : elements[k].type = elements[1].type
    BY DEF IsUniform
  <2> HIDE DEF added
  <2>4. CASE elements = <<>>
    <3>1. Len(elements) = 0 /\ Len(added) = 1 /\ \A k \in 1 .. 1 : k = 1
      BY <2>1, <2>4
    <3> QED BY <2>2, <3>1, BoundAssumption DEF IsUniform, added
  <2>5. CASE elements # <<>>
    <3>1. Len(elements) > 0 /\ Len(elements) + 1 =< MaxElements
      BY <2>1, <2>2, <2>5, EmptySeq, BoundAssumption DEF Elements
    <3>2. \A k \in 1 .. Len(added) : k \in 1 .. Len(elements) \/ k = Len(elements) + 1
      BY <2>1
    <3>3. added[1] = elements[1] /\ elements[1].type = d.type
      BY <2>1, <2>2, <2>5, <3>1
    <3> QED BY <2>1, <2>3, <3>1, <3>2, <3>3 DEF IsUniform, added
  <2> QED BY <2>4, <2>5
<1> QED BY <1>1, <1>2

\* When an ASDU has room for an information object at all, the one into which
\* it does not fit is not empty.
LEMMA FullIsNotEmpty ==
    ASSUME MaxElements # 0, NEW elements, NEW d
    PROVE  ~Fits(elements, d) => elements # <<>>
<1>1. Len(<<>>) = 0
  OBVIOUS
<1> QED BY <1>1, BoundAssumption DEF Fits

LEMMA UniformAppend ==
    ASSUME NEW h, NEW s \in Seq(ASDUs), UniformInv(h, s), NEW h2, IsUniform(h2.elements)
    PROVE  /\ UniformInv(h2, s)
           /\ \A a \in ASDUs : a.kind # "data" => UniformInv(h2, Append(s, a))
           /\ \A ca \in Nat, elements \in Elements :
                 elements # <<>> /\ IsUniform(elements) => UniformInv(h2, Append(s, Data(ca, elements)))
<1>1. UniformInv(h2, s)
  BY DEF UniformInv
<1>2. ASSUME NEW a \in ASDUs, a.kind = "data" => a.elements # <<>> /\ IsUniform(a.elements)
      PROVE  UniformInv(h2, Append(s, a))
  <2> DEFINE t == Append(s, a)
  <2>1. /\ \A i \in 1 .. Len(s) : t[i] = s[i]
        /\ t[Len(s) + 1] = a
        /\ \A i : i \in 1 .. Len(t) <=> i \in 1 .. Len(s) \/ i = Len(s) + 1
    BY AppendFact
  <2> HIDE DEF t
  <2>2. \A i \in 1 .. Len(t) : t[i].kind = "data" => t[i].elements # <<>> /\ IsUniform(t[i].elements)
    BY <1>2, <2>1 DEF UniformInv
  <2> QED BY <2>2 DEF UniformInv, t
<1>3. \A ca \in Nat, elements \in Elements : Data(ca, elements) \in ASDUs
  BY ASDUTypes
<1> QED BY <1>1, <1>2, <1>3, DistinctASDUs

-----------------------------------------------------------------------------
(* A data point is reported once *)

LEMMA ReportsAppend ==
    ASSUME NEW s \in Seq(ASDUs), NEW a \in ASDUs, a.kind = "data" => Len(a.elements) =< MaxElements,
           NEW d \in DataPoints
    PROVE  /\ a.kind = "data" /\ a.ca = d.ca =>
                 ReportsIn(Append(s, a), d) =
                    ReportsIn(s, d) \union {<<Len(s) + 1, k>> : k \in Named(a.elements, d)}
           /\ a.kind # "data" \/ a.ca # d.ca => ReportsIn(Append(s, a), d) = ReportsIn(s, d)
<1> DEFINE t == Append(s, a)
           n == Len(s) + 1
           New == {<<n, k>> : k \in Named(a.elements, d)}
           Names(b, k) == b.kind = "data" /\ b.ca = d.ca /\ k =< Len(b.elements) /\ b.elements[k].ioa = d.ioa
<1>1. /\ Len(s) \in Nat
      /\ \A i \in 1 .. Len(s) : t[i] = s[i]
      /\ t[n] = a
      /\ \A i : i \in 1 .. Len(t) <=> i \in 1 .. Len(s) \/ i = n
  BY AppendFact
<1>2. n \notin 1 .. Len(s)
  BY <1>1
<1>3. Len(a.elements) \in Nat /\ MaxElements \in Nat
  BY BoundAssumption, LenProperties DEF ASDUs, Elements
<1>4. a.kind = "data" => \A k : k \in Named(a.elements, d) <=>
         k \in 1 .. MaxElements /\ k =< Len(a.elements) /\ a.elements[k].ioa = d.ioa
  BY <1>3 DEF Named
<1>5. \A i, k : <<i, k>> \in ReportsIn(t, d) <=> i \in 1 .. Len(t) /\ k \in 1 .. MaxElements /\ Names(t[i], k)
  BY DEF ReportsIn
<1>6. \A i, k : <<i, k>> \in ReportsIn(s, d) <=> i \in 1 .. Len(s) /\ k \in 1 .. MaxElements /\ Names(s[i], k)
  BY DEF ReportsIn
<1>7. \A i, k : <<i, k>> \in New <=> i = n /\ k \in Named(a.elements, d)
  OBVIOUS
<1>8. \A p : (p \in ReportsIn(t, d) \/ p \in ReportsIn(s, d) \/ p \in New) => p = <<p[1], p[2]>>
  BY DEF ReportsIn
<1> HIDE DEF t, n, New, Names
<1>9. CASE a.kind = "data" /\ a.ca = d.ca
  <2>1. \A i, k : <<i, k>> \in ReportsIn(t, d) <=> <<i, k>> \in ReportsIn(s, d) \/ <<i, k>> \in New
    <3> SUFFICES ASSUME NEW i, NEW k
                 PROVE  <<i, k>> \in ReportsIn(t, d) <=> <<i, k>> \in ReportsIn(s, d) \/ <<i, k>> \in New
      OBVIOUS
    <3>1. CASE i = n
      <4>1. <<i, k>> \in New <=> k \in 1 .. MaxElements /\ Names(a, k)
        BY <1>4, <1>7, <1>9, <3>1 DEF Names
      <4> QED BY <1>1, <1>2, <1>5, <1>6, <3>1, <4>1
    <3>2. CASE i # n
      <4>1. i \in 1 .. Len(s) => Names(t[i], k) = Names(s[i], k)
        BY <1>1
      <4> QED BY <1>1, <1>5, <1>6, <1>7, <3>2, <4>1
    <3> QED BY <3>1, <3>2
  <2>2. ReportsIn(t, d) = ReportsIn(s, d) \union New
    BY <1>8, <2>1
  <2> QED BY <1>9, <2>2 DEF t, n, New
<1>10. CASE a.kind # "data" \/ a.ca # d.ca
  <2>1. \A i, k : <<i, k>> \in ReportsIn(t, d) <=> <<i, k>> \in ReportsIn(s, d)
    <3> SUFFICES ASSUME NEW i, NEW k
                 PROVE  <<i, k>> \in ReportsIn(t, d) <=> <<i, k>> \in ReportsIn(s, d)
      OBVIOUS
    <3>1. CASE i = n
      BY <1>1, <1>2, <1>5, <1>6, <1>10, <3>1 DEF Names
    <3>2. CASE i # n
      <4>1. i \in 1 .. Len(s) => Names(t[i], k) = Names(s[i], k)
        BY <1>1
      <4> QED BY <1>1, <1>5, <1>6, <3>2, <4>1
    <3> QED BY <3>1, <3>2
  <2>2. \A p : p \in ReportsIn(t, d) <=> p \in ReportsIn(s, d)
    BY <1>8, <2>1
  <2> QED BY <1>10, <2>2 DEF t
<1> QED BY <1>9, <1>10

\* What an added data point names.
LEMMA NamedAdded ==
    ASSUME NEW elements \in Elements, NEW e \in DataPoints, Fits(elements, e), NEW d \in DataPoints
    PROVE  /\ d.ioa = e.ioa => Named(Added(elements, e), d) = Named(elements, d) \union {Len(elements) + 1}
           /\ d.ioa # e.ioa => Named(Added(elements, e), d) = Named(elements, d)
<1> DEFINE added == Added(elements, e)
<1>1. /\ Len(elements) \in Nat /\ Len(added) = Len(elements) + 1
      /\ \A k \in 1 .. Len(elements) : added[k] = elements[k]
      /\ added[Len(elements) + 1].ioa = e.ioa
  BY AddedFact
<1>2. \A k : k \in 1 .. Len(added) <=> k \in 1 .. Len(elements) \/ k = Len(elements) + 1
  BY <1>1
<1> HIDE DEF added
<1>3. d.ioa = e.ioa => Named(added, d) = Named(elements, d) \union {Len(elements) + 1}
  BY <1>1, <1>2 DEF Named
<1>4. d.ioa # e.ioa => Named(added, d) = Named(elements, d)
  BY <1>1, <1>2 DEF Named
<1> QED BY <1>3, <1>4 DEF added

LEMMA NamedEmpty == \A d : Named(<<>>, d) = {}
  BY DEF Named

LEMMA TermAppend ==
    ASSUME NEW s \in Seq(ASDUs), NEW a \in ASDUs, NEW ca
    PROVE  /\ a.kind # "term" \/ a.ca # ca => Sent(Append(s, a), "term", ca) = Sent(s, "term", ca)
           /\ Sent(s, "term", ca) # {} => Sent(Append(s, a), "term", ca) # {}
<1>1. a = ASDU("term", ca) => a.kind = "term" /\ a.ca = ca
  BY DistinctASDUs
<1> QED BY <1>1, SentAppend

\* When the walk begins, every configured data point of the CA is to come.
LEMMA ReportByConfirm ==
    ASSUME NEW h \in Handlings, NEW r, NEW s \in Seq(ASDUs), OrderInv(h, r, s), ReportInv(h, r, s),
           h.pc = "confirm", NEW ld, \A d \in DataPoints : d.ca = h.ca => d.ioa \in ld
    PROVE  ReportInv(At("walk", h.ca, ld, <<>>), r, Append(s, ASDU("con", h.ca)))
<1> DEFINE h2 == At("walk", h.ca, ld, <<>>)
           a == ASDU("con", h.ca)
           t == Append(s, a)
<1>1. h.ca \in Nat /\ a \in ASDUs /\ a.kind = "con"
  BY ASDUTypes, DistinctASDUs DEF Handlings, ASDUKinds
<1>2. h2.pc = "walk" /\ h2.ca = h.ca /\ h2.ld = ld /\ h2.elements = <<>>
  BY DEF At
<1>3. \A d \in DataPoints : ReportsIn(t, d) = ReportsIn(s, d) /\ Sent(t, "term", d.ca) = Sent(s, "term", d.ca)
  <2> HIDE DEF a
  <2> QED BY <1>1, ReportsAppend, TermAppend
<1>4. ASSUME NEW d \in DataPoints, d.ca = h.ca PROVE ReportsIn(s, d) = {}
  <2>1. \A i \in 1 .. Len(s) : IsAnswer(s[i].kind) => s[i].ca < h.ca
    BY DEF OrderInv
  <2>2. \A i \in 1 .. Len(s) : ~(s[i].kind = "data" /\ s[i].ca = d.ca)
    BY <1>1, <1>4, <2>1 DEF IsAnswer
  <2> QED BY <2>2 DEF ReportsIn
<1> HIDE DEF h2, a, t
<1>5. ReportInv(h2, r, t)
  BY <1>2, <1>3, <1>4, NamedEmpty DEF ReportInv, IsPlaced
<1> QED BY <1>5 DEF h2, a, t

\* A step of the walk takes the data point at its IOA from those that are to
\* come into the ASDU that is being filled, and those in there may be sent.
LEMMA PlacedByMove ==
    ASSUME MaxElements # 0,
           NEW h \in Handlings, NEW r, NEW s \in Seq(ASDUs), IsUniform(h.elements),
           NEW h2, NEW s2, MovesOn(h, r, s, h2, s2),
           NEW d \in DataPoints, d.ca = h.ca, IsPlaced(h, r, s, d)
    PROVE  IsPlaced(h2, r, s2, d)
<1>1. h.ca \in Nat /\ h.elements \in Elements
  BY DEF Handlings
<1>2. PICK ioa \in h.ld :
         \/ /\ \A e \in PointsAt(h.ca, ioa) : ~IsReported(e, r.qoi)
            /\ h2 = At("walk", h.ca, h.ld \ {ioa}, h.elements)
            /\ s2 = s
         \/ \E e \in PointsAt(h.ca, ioa) :
            /\ IsReported(e, r.qoi)
            /\ \/ /\ Fits(h.elements, e)
                  /\ h2 = At("walk", h.ca, h.ld \ {ioa}, Added(h.elements, e))
                  /\ s2 = s
               \/ /\ ~Fits(h.elements, e)
                  /\ h2 = At("walk", h.ca, h.ld \ {ioa}, Added(<<>>, e))
                  /\ s2 = Append(s, Data(h.ca, h.elements))
  BY DEF MovesOn
<1>3. \A ld, elements : At("walk", h.ca, ld, elements).ld = ld /\ At("walk", h.ca, ld, elements).elements = elements
  BY DEF At
<1>4. ASSUME \A e \in PointsAt(h.ca, ioa) : ~IsReported(e, r.qoi),
             h2.ld = h.ld \ {ioa}, h2.elements = h.elements, s2 = s
      PROVE  IsPlaced(h2, r, s2, d)
  <2>1. d.ioa = ioa => ~IsReported(d, r.qoi)
    BY <1>4 DEF PointsAt
  <2>2. d.ioa # ioa => (d.ioa \in h2.ld <=> d.ioa \in h.ld)
    BY <1>4
  <2> QED BY <1>4, <2>1, <2>2 DEF IsPlaced
<1>5. ASSUME NEW e \in PointsAt(h.ca, ioa), IsReported(e, r.qoi), h2.ld = h.ld \ {ioa},
             \/ Fits(h.elements, e) /\ h2.elements = Added(h.elements, e) /\ s2 = s
             \/ ~Fits(h.elements, e) /\ h2.elements = Added(<<>>, e) /\ s2 = Append(s, Data(h.ca, h.elements))
      PROVE  IsPlaced(h2, r, s2, d)
  <2>1. e \in DataPoints /\ e.ca = h.ca /\ e.ioa = ioa
    BY <1>5 DEF PointsAt
  <2>2. d.ioa = e.ioa => d = e
    BY <2>1, DataPointAssumption
  <2>3. d.ioa # e.ioa => (d.ioa \in h2.ld <=> d.ioa \in h.ld)
    BY <1>5, <2>1
  <2>4. d = e => d.ioa \in h.ld /\ d.ioa \notin h2.ld /\ IsReported(d, r.qoi)
    BY <1>5, <2>1
  <2>5. CASE Fits(h.elements, e) /\ h2.elements = Added(h.elements, e) /\ s2 = s
    <3>1. /\ d.ioa = e.ioa => Named(h2.elements, d) = Named(h.elements, d) \union {Len(h.elements) + 1}
          /\ d.ioa # e.ioa => Named(h2.elements, d) = Named(h.elements, d)
      BY <1>1, <2>1, <2>5, NamedAdded
    <3>2. CASE d = e
      <4>1. ReportsIn(s2, d) = {} /\ Named(h2.elements, d) = {Len(h.elements) + 1}
        BY <2>4, <2>5, <3>1, <3>2 DEF IsPlaced
      <4> QED BY <2>4, <3>2, <4>1 DEF IsPlaced, One
    <3>3. CASE d.ioa # e.ioa
      BY <2>3, <2>5, <3>1, <3>3 DEF IsPlaced
    <3> QED BY <2>2, <3>2, <3>3
  <2>6. CASE ~Fits(h.elements, e) /\ h2.elements = Added(<<>>, e) /\ s2 = Append(s, Data(h.ca, h.elements))
    <3> DEFINE a == Data(h.ca, h.elements)
    <3>1. a \in ASDUs /\ a.kind = "data" /\ a.ca = d.ca /\ a.elements = h.elements
      BY <1>1, ASDUTypes, DistinctASDUs
    <3>2. Len(h.elements) =< MaxElements
      BY DEF IsUniform
    <3>3. ReportsIn(s2, d) = ReportsIn(s, d) \union {<<Len(s) + 1, k>> : k \in Named(h.elements, d)}
      <4> HIDE DEF a
      <4>1. s2 = Append(s, a)
        BY <2>6 DEF a
      <4> QED BY <3>1, <3>2, <4>1, ReportsAppend
    <3>4. Fits(<<>>, e) /\ <<>> \in Elements
      <4>1. Len(<<>>) = 0
        OBVIOUS
      <4> QED BY <4>1, BoundAssumption, EmptyUniform DEF Fits
    <3>5. /\ d.ioa = e.ioa => Named(h2.elements, d) = {Len(<<>>) + 1}
          /\ d.ioa # e.ioa => Named(h2.elements, d) = {}
      BY <2>1, <2>6, <3>4, NamedAdded, NamedEmpty
    <3>6. Named(h.elements, d) = {} => ReportsIn(s2, d) = ReportsIn(s, d)
      BY <3>3
    <3>7. CASE d = e
      <4>1. ReportsIn(s2, d) = {} /\ One(Named(h2.elements, d))
        BY <2>4, <3>5, <3>6, <3>7 DEF IsPlaced, One
      <4> QED BY <4>1, <2>4, <3>7 DEF IsPlaced
    <3>8. CASE d.ioa # e.ioa
      <4>1. Named(h2.elements, d) = {} /\ (d.ioa \in h2.ld <=> d.ioa \in h.ld)
        BY <2>3, <3>5, <3>8
      <4>2. ReportsIn(s, d) = {} /\ One(Named(h.elements, d)) => One(ReportsIn(s2, d))
        <5> SUFFICES ASSUME ReportsIn(s, d) = {}, One(Named(h.elements, d)) PROVE One(ReportsIn(s2, d))
          OBVIOUS
        <5>1. PICK x : Named(h.elements, d) = {x}
          BY DEF One
        <5>2. ReportsIn(s2, d) = {<<Len(s) + 1, x>>}
          BY <3>3, <5>1
        <5> QED BY <5>2 DEF One
      <4> QED BY <3>6, <4>1, <4>2 DEF IsPlaced
    <3> QED BY <2>2, <3>7, <3>8
  <2> QED BY <1>5, <2>5, <2>6
<1> QED BY <1>2, <1>3, <1>4, <1>5

\* What a step of the walk does to the handler, and what it sends.
LEMMA MoveFact ==
    ASSUME NEW h \in Handlings, NEW r, NEW s, NEW h2, NEW s2, MovesOn(h, r, s, h2, s2)
    PROVE  /\ h2.pc = "walk" /\ h2.ca = h.ca
           /\ s2 = s \/ s2 = Append(s, Data(h.ca, h.elements))
  BY DEF MovesOn, At

LEMMA ReportByMove ==
    ASSUME MaxElements # 0,
           NEW h \in Handlings, NEW r, NEW s \in Seq(ASDUs), h.pc = "walk",
           IsUniform(h.elements), OrderInv(h, r, s), ReportInv(h, r, s),
           NEW h2, NEW s2, MovesOn(h, r, s, h2, s2)
    PROVE  ReportInv(h2, r, s2)
<1> DEFINE a == Data(h.ca, h.elements)
<1>1. a \in ASDUs /\ a.kind = "data" /\ a.ca = h.ca /\ a.elements = h.elements
  BY ASDUTypes, DistinctASDUs DEF Handlings
<1>2. Len(h.elements) =< MaxElements
  BY DEF IsUniform
<1>3. h2.pc = "walk" /\ h2.ca = h.ca /\ (s2 = s \/ s2 = Append(s, a))
  BY MoveFact
<1>4. Sent(s, "term", h.ca) = {}
  BY NotYetSent
<1> HIDE DEF a
<1>5. \A d \in DataPoints :
         /\ Sent(s2, "term", d.ca) = Sent(s, "term", d.ca)
         /\ d.ca # h.ca => ReportsIn(s2, d) = ReportsIn(s, d)
  BY <1>1, <1>2, <1>3, TermAppend, ReportsAppend
<1>6. \A d \in DataPoints : d.ca = h.ca => IsPlaced(h2, r, s2, d)
  BY PlacedByMove DEF ReportInv
<1> QED BY <1>3, <1>4, <1>5, <1>6 DEF ReportInv

LEMMA UniformByMove ==
    ASSUME MaxElements # 0,
           NEW h \in Handlings, NEW r, NEW s \in Seq(ASDUs), UniformInv(h, s),
           NEW h2, NEW s2, MovesOn(h, r, s, h2, s2)
    PROVE  UniformInv(h2, s2)
<1>1. h.ca \in Nat /\ h.elements \in Elements /\ IsUniform(h.elements)
  BY DEF Handlings, UniformInv
<1>2. \A ld, elements : At("walk", h.ca, ld, elements).elements = elements
  BY DEF At
<1>3. \A ca, ioa : \A d \in PointsAt(ca, ioa) : d \in DataPoints
  BY DEF PointsAt
<1>4. \/ h2.elements = h.elements /\ s2 = s
      \/ \E d \in DataPoints :
         \/ h2.elements = Added(h.elements, d) /\ s2 = s
         \/ /\ ~Fits(h.elements, d)
            /\ h2.elements = Added(<<>>, d) /\ s2 = Append(s, Data(h.ca, h.elements))
  BY <1>2, <1>3 DEF MovesOn
<1>5. IsUniform(h2.elements)
  BY <1>1, <1>4, AddedUniform, EmptyUniform
<1> QED BY <1>1, <1>4, <1>5, FullIsNotEmpty, UniformAppend

\* When nothing is to come any more and the last ASDU is sent, every data point
\* of the CA has been reported.
LEMMA ReportByTerm ==
    ASSUME NEW h \in Handlings, NEW r, NEW s \in Seq(ASDUs), h.pc = "walk", h.ld = {},
           IsUniform(h.elements), ReportInv(h, r, s), NEW h2, Follows(h, r, h2),
           NEW s1, \/ h.elements = <<>> /\ s1 = s
                   \/ h.elements # <<>> /\ s1 = Append(s, Data(h.ca, h.elements))
    PROVE  ReportInv(h2, r, Append(s1, ASDU("term", h.ca)))
<1> DEFINE a == Data(h.ca, h.elements)
           term == ASDU("term", h.ca)
           t == Append(s1, term)
<1>1. a \in ASDUs /\ a.kind = "data" /\ a.ca = h.ca /\ a.elements = h.elements
  BY ASDUTypes, DistinctASDUs DEF Handlings
<1>2. term \in ASDUs /\ term.kind = "term" /\ term.ca = h.ca
  BY ASDUTypes, DistinctASDUs DEF Handlings, ASDUKinds
<1>3. Len(h.elements) =< MaxElements
  BY DEF IsUniform
<1>4. h2.pc # "walk"
  BY DEF Follows, Idle, At
<1>5. s1 \in Seq(ASDUs) /\ ((h.elements = <<>> /\ s1 = s) \/ s1 = Append(s, a))
  BY <1>1, AppendFact
<1> HIDE DEF a, term, t
<1>6. \A d \in DataPoints : ReportsIn(t, d) = ReportsIn(s1, d)
  BY <1>2, <1>5, ReportsAppend DEF t
<1>7. \A d \in DataPoints : d.ca # h.ca =>
         /\ Sent(t, "term", d.ca) = Sent(s, "term", d.ca)
         /\ ReportsIn(s1, d) = ReportsIn(s, d)
  <2> SUFFICES ASSUME NEW d \in DataPoints, d.ca # h.ca
               PROVE  /\ Sent(t, "term", d.ca) = Sent(s, "term", d.ca)
                      /\ ReportsIn(s1, d) = ReportsIn(s, d)
    OBVIOUS
  <2>1. Sent(t, "term", d.ca) = Sent(s1, "term", d.ca)
    BY <1>2, <1>5, TermAppend DEF t
  <2>2. Sent(Append(s, a), "term", d.ca) = Sent(s, "term", d.ca) /\ ReportsIn(Append(s, a), d) = ReportsIn(s, d)
    BY <1>1, <1>3, TermAppend, ReportsAppend
  <2> QED BY <1>5, <2>1, <2>2
<1>8. ASSUME NEW d \in DataPoints, d.ca = h.ca
      PROVE  IF IsReported(d, r.qoi) THEN One(ReportsIn(s1, d)) ELSE ReportsIn(s1, d) = {}
  <2>1. IF IsReported(d, r.qoi)
          THEN \/ One(ReportsIn(s, d)) /\ Named(h.elements, d) = {}
               \/ ReportsIn(s, d) = {} /\ One(Named(h.elements, d))
          ELSE ReportsIn(s, d) = {} /\ Named(h.elements, d) = {}
    BY <1>8 DEF ReportInv, IsPlaced
  <2>2. CASE h.elements = <<>> /\ s1 = s
    <3>1. ~One(Named(h.elements, d))
      BY <2>2, NamedEmpty DEF One
    <3> QED BY <2>1, <2>2, <3>1
  <2>3. CASE s1 = Append(s, a)
    <3>1. ReportsIn(s1, d) = ReportsIn(s, d) \union {<<Len(s) + 1, k>> : k \in Named(h.elements, d)}
      BY <1>1, <1>3, <1>8, <2>3, ReportsAppend
    <3>2. Named(h.elements, d) = {} => ReportsIn(s1, d) = ReportsIn(s, d)
      BY <3>1
    <3>3. ReportsIn(s, d) = {} /\ One(Named(h.elements, d)) => One(ReportsIn(s1, d))
      <4> SUFFICES ASSUME ReportsIn(s, d) = {}, One(Named(h.elements, d)) PROVE One(ReportsIn(s1, d))
        OBVIOUS
      <4>1. PICK x : Named(h.elements, d) = {x}
        BY DEF One
      <4>2. ReportsIn(s1, d) = {<<Len(s) + 1, x>>}
        BY <3>1, <4>1
      <4> QED BY <4>2 DEF One
    <3> QED BY <2>1, <3>2, <3>3
  <2> QED BY <1>5, <2>2, <2>3
<1>9. ReportInv(h2, r, t)
  <2> SUFFICES ASSUME NEW d \in DataPoints, Sent(t, "term", d.ca) # {}
               PROVE  IF IsReported(d, r.qoi) THEN One(ReportsIn(t, d)) ELSE ReportsIn(t, d) = {}
    BY <1>4 DEF ReportInv
  <2>1. CASE d.ca = h.ca
    BY <1>6, <1>8, <2>1
  <2>2. CASE d.ca # h.ca
    BY <1>6, <1>7, <2>2 DEF ReportInv
  <2> QED BY <2>1, <2>2
<1> QED BY <1>9 DEF t, term

-----------------------------------------------------------------------------
(* The inductive invariants are kept *)

Answers(c) == AnswerInv(handling[c], request[c], out[c])

Completes(c) == UniformInv(handling[c], out[c]) /\ ReportInv(handling[c], request[c], out[c])

\* Before anything is answered, the CAs that the handler starts with are the
\* first, and no data point has been reported.
LEMMA FreshKeeps ==
    ASSUME NEW h \in Handlings, NEW r \in Requests, NEW s \in Seq(ASDUs), h.pc # "walk",
           WorksOnRequest(h, r), \A i \in 1 .. Len(s) : ~IsAnswer(s[i].kind),
           IsBroadcast(r) => \A ca \in ConfiguredCAs : h.pc # "idle" /\ ~(ca < h.ca)
    PROVE  /\ AnswerInv(h, r, s)
           /\ IsUniform(h.elements) => UniformInv(h, s)
           /\ ReportInv(h, r, s)
<1>1. AnswerInv(h, r, s)
  BY DEF AnswerInv, OrderInv, PassedInv
<1>2. IsUniform(h.elements) => UniformInv(h, s)
  BY DEF UniformInv, IsAnswer
<1>3. \A ca : Sent(s, "term", ca) = {}
  BY DistinctASDUs DEF Sent, IsAnswer
<1> QED BY <1>1, <1>2, <1>3 DEF ReportInv

LEMMA CommandKeepsAnswers ==
    ASSUME EDTypeInv, NEW c \in Conns, NEW cmd \in Commands, validateCommand(c, cmd)
    PROVE  /\ AnswerInv(handling'[c], request'[c], out'[c])
           /\ Completes(c) => /\ UniformInv(handling'[c], out'[c])
                              /\ ReportInv(handling'[c], request'[c], out'[c])
<1> DEFINE h == handling[c]
           r == [kind |-> "command", ca |-> cmd.ca, qoi |-> 0]
<1>1. /\ request \in [Conns -> Requests] /\ handling \in [Conns -> Handlings]
      /\ out \in [Conns -> Seq(ASDUs)]
  BY TypesByName DEF EDTypeInv
<1>2. PICK s \in Seq(ASDUs) : /\ out' = [out EXCEPT ![c] = s]
                              /\ \A i \in 1 .. Len(s) : ~IsAnswer(s[i].kind)
  BY CommandEffect
<1>3. h.pc = "idle" /\ handling' = [handling EXCEPT ![c] = h] /\ request' = [request EXCEPT ![c] = r]
  BY CommandEffect
<1>4. handling'[c] = h /\ request'[c] = r /\ out'[c] = s
  BY <1>1, <1>2, <1>3
<1>5. h \in Handlings /\ r \in Requests
  BY <1>1, InputAssumption, AddressAssumption DEF Requests
<1>6. WorksOnRequest(h, r) /\ ~IsBroadcast(r)
  BY <1>3 DEF WorksOnRequest, IsBroadcast
<1> HIDE DEF h, r
<1>7. /\ AnswerInv(h, r, s)
      /\ IsUniform(h.elements) => UniformInv(h, s)
      /\ ReportInv(h, r, s)
  BY <1>2, <1>3, <1>5, <1>6, FreshKeeps
<1>8. Completes(c) => IsUniform(h.elements)
  BY DEF Completes, UniformInv, h
<1> QED BY <1>4, <1>7, <1>8

LEMMA InterrogationKeepsAnswers ==
    ASSUME EDTypeInv, NEW c \in Conns, NEW ca \in CAs \union {BroadcastCA}, NEW qoi \in QOIs,
           interrogationHandler(c, ca, qoi)
    PROVE  /\ AnswerInv(handling'[c], request'[c], out'[c])
           /\ UniformInv(handling'[c], out'[c])
           /\ ReportInv(handling'[c], request'[c], out'[c])
<1> DEFINE r == [kind |-> "interrogation", ca |-> ca, qoi |-> qoi]
<1>1. /\ request \in [Conns -> Requests] /\ handling \in [Conns -> Handlings]
      /\ out \in [Conns -> Seq(ASDUs)]
  BY TypesByName DEF EDTypeInv
<1>2. ca \in Nat /\ request'[c] = r /\ r \in Requests
  BY <1>1, InterrogationEffect, InputAssumption DEF Requests
<1>3. IsBroadcast(r) <=> ca = BroadcastCA /\ InRange(qoi)
  BY DEF IsBroadcast
<1>4. r.kind = "interrogation" /\ r.qoi = qoi /\ r.ca = ca
  OBVIOUS
<1>5. \A a \in ConfiguredCAs : a \in Nat /\ a \in DOMAIN definitions
  BY AddressAssumption, DataPointAssumption DEF EDTypeInv, EDTypeOK, ConfiguredCAs, IsKnown
<1>6. /\ Idle \in Handlings /\ Idle.pc = "idle" /\ Idle.elements = <<>>
      /\ \A b : /\ At("confirm", b, {}, <<>>).pc = "confirm"
                /\ At("confirm", b, {}, <<>>).ca = b
                /\ At("confirm", b, {}, <<>>).elements = <<>>
      /\ \A b \in Nat : At("confirm", b, {}, <<>>) \in Handlings
  BY HandlingTypes, EmptyUniform DEF Idle, At
<1> HIDE DEF r
<1>7. CASE /\ ~InRange(qoi) \/ ca # BroadcastCA
           /\ handling' = [handling EXCEPT ![c] = Idle]
           /\ out' = [out EXCEPT ![c] = <<ASDU("negative", ca)>>]
  <2> DEFINE s == <<ASDU("negative", ca)>>
  <2>1. handling'[c] = Idle /\ out'[c] = s
    BY <1>1, <1>7
  <2>2. s \in Seq(ASDUs)
    BY <1>2, ASDUTypes DEF ASDUKinds
  <2>3. \A i \in 1 .. Len(s) : ~IsAnswer(s[i].kind)
    BY DistinctASDUs DEF IsAnswer
  <2>4. WorksOnRequest(Idle, r) /\ ~IsBroadcast(r)
    BY <1>3, <1>6, <1>7 DEF WorksOnRequest
  <2> HIDE DEF s
  <2> QED BY <1>2, <1>6, <2>1, <2>2, <2>3, <2>4, FreshKeeps, EmptyUniform
<1>8. ASSUME NEW h \in Handlings, handling' = [handling EXCEPT ![c] = h], out' = [out EXCEPT ![c] = <<>>],
             h.pc # "walk", h.elements = <<>>, WorksOnRequest(h, r),
             IsBroadcast(r) => \A a \in ConfiguredCAs : h.pc # "idle" /\ ~(a < h.ca)
      PROVE  /\ AnswerInv(handling'[c], request'[c], out'[c])
             /\ UniformInv(handling'[c], out'[c])
             /\ ReportInv(handling'[c], request'[c], out'[c])
  <2>1. handling'[c] = h /\ out'[c] = <<>>
    BY <1>1, <1>8
  <2>2. <<>> \in Seq(ASDUs) /\ \A i \in 1 .. Len(<<>>) : FALSE
    OBVIOUS
  <2> QED BY <1>2, <1>8, <2>1, <2>2, FreshKeeps, EmptyUniform
<1>9. CASE /\ InRange(qoi) /\ ca # BroadcastCA /\ out' = [out EXCEPT ![c] = <<>>]
           /\ handling' = [handling EXCEPT ![c] = At("confirm", ca, {}, <<>>)]
  <2>1. WorksOnRequest(At("confirm", ca, {}, <<>>), r) /\ ~IsBroadcast(r)
    BY <1>3, <1>4, <1>6, <1>9 DEF WorksOnRequest
  <2> QED BY <1>2, <1>6, <1>8, <1>9, <2>1
<1>10. CASE /\ InRange(qoi) /\ ca = BroadcastCA /\ out' = [out EXCEPT ![c] = <<>>]
            /\ handling' = [handling EXCEPT ![c] = NextCA(-1)]
  <2>1. -1 \in Int /\ \A a \in Nat : a > -1 /\ ~(a =< -1)
    OBVIOUS
  <2>2. CASE NextCA(-1) = Idle /\ \A a \in DOMAIN definitions : a =< -1
    <3>1. ConfiguredCAs = {}
      BY <1>5, <2>1, <2>2
    <3>2. WorksOnRequest(Idle, r)
      BY <1>6 DEF WorksOnRequest
    <3> QED BY <1>6, <1>8, <1>10, <2>2, <3>1, <3>2
  <2>3. ASSUME NEW b \in DOMAIN definitions, NextCA(-1) = At("confirm", b, {}, <<>>), b \in Nat,
               \A a \in DOMAIN definitions : a > -1 => b =< a
        PROVE  /\ AnswerInv(handling'[c], request'[c], out'[c])
               /\ UniformInv(handling'[c], out'[c])
               /\ ReportInv(handling'[c], request'[c], out'[c])
    <3>1. \A a \in ConfiguredCAs : ~(a < b)
      BY <1>5, <2>1, <2>3
    <3>2. WorksOnRequest(At("confirm", b, {}, <<>>), r)
      BY <1>4, <1>6, <1>10 DEF WorksOnRequest
    <3> QED BY <1>6, <1>8, <1>10, <2>3, <3>1, <3>2
  <2> QED BY <2>1, <2>2, <2>3, NextCAFact DEF EDTypeInv
<1> QED BY <1>7, <1>9, <1>10, InterrogationEffect

LEMMA ConfirmKeepsAnswers ==
    ASSUME EDTypeInv, NEW c \in Conns, Confirm(c), Answers(c)
    PROVE  /\ AnswerInv(handling'[c], request'[c], out'[c])
           /\ Completes(c) => /\ UniformInv(handling'[c], out'[c])
                              /\ ReportInv(handling'[c], request'[c], out'[c])
<1> DEFINE h == handling[c]
           r == request[c]
           s == out[c]
           h2 == At("walk", h.ca, definitions[h.ca], <<>>)
           a == ASDU("con", h.ca)
<1>1. /\ request \in [Conns -> Requests] /\ handling \in [Conns -> Handlings]
      /\ out \in [Conns -> Seq(ASDUs)]
  BY TypesByName DEF EDTypeInv
<1>2. h \in Handlings /\ r \in Requests /\ s \in Seq(ASDUs)
  BY <1>1
<1>3. h.pc = "confirm"
  BY ConfirmEffect
<1>4. handling'[c] = h2 /\ request'[c] = r /\ out'[c] = Append(s, a)
  BY <1>1, ConfirmEffect
<1>5. IsKnown(h.ca) /\ definitions[h.ca] \in SUBSET IOAs
  BY <1>3, KnownFact DEF EDTypeInv, HandledIsKnown
<1>6. \A d \in DataPoints : d.ca = h.ca => d.ioa \in definitions[h.ca]
  BY DEF EDTypeInv, EDTypeOK
<1>7. a \in ASDUs /\ a.kind # "data"
  BY <1>2, ASDUTypes, DistinctASDUs DEF Handlings, ASDUKinds
<1>8. h2.elements = <<>>
  BY DEF At
<1>9. AnswerInv(h2, r, Append(s, a))
  BY <1>2, <1>3, <1>5, ConfirmKeeps DEF Answers
<1>10. ASSUME Completes(c) PROVE UniformInv(h2, Append(s, a)) /\ ReportInv(h2, r, Append(s, a))
  <2>1. UniformInv(h, s) /\ ReportInv(h, r, s) /\ OrderInv(h, r, s)
    BY <1>10 DEF Completes, Answers, AnswerInv
  <2>2. ReportInv(h2, r, Append(s, a))
    BY <1>2, <1>3, <1>6, <2>1, ReportByConfirm
  <2> HIDE DEF h, s, h2, a
  <2>3. UniformInv(h2, Append(s, a))
    BY <1>2, <1>7, <1>8, <2>1, EmptyUniform, UniformAppend
  <2> QED BY <2>2, <2>3
<1> QED BY <1>4, <1>9, <1>10

LEMMA ReportKeepsAnswers ==
    ASSUME EDTypeInv, NEW c \in Conns, ReportPoint(c), Answers(c)
    PROVE  /\ AnswerInv(handling'[c], request'[c], out'[c])
           /\ MaxElements # 0 /\ Completes(c) =>
                 /\ UniformInv(handling'[c], out'[c])
                 /\ ReportInv(handling'[c], request'[c], out'[c])
<1> DEFINE h == handling[c]
           r == request[c]
           s == out[c]
<1>1. /\ request \in [Conns -> Requests] /\ handling \in [Conns -> Handlings]
      /\ out \in [Conns -> Seq(ASDUs)]
  BY TypesByName DEF EDTypeInv
<1>2. h \in Handlings /\ r \in Requests /\ s \in Seq(ASDUs) /\ h.elements \in Elements
  BY <1>1 DEF Handlings
<1>3. PICK h2, s2 : /\ MovesOn(h, r, s, h2, s2)
                    /\ handling' = [handling EXCEPT ![c] = h2]
                    /\ out' = [out EXCEPT ![c] = s2]
  BY ReportEffect
<1>4. handling'[c] = h2 /\ request'[c] = r /\ out'[c] = s2 /\ h.pc = "walk"
  BY <1>1, <1>3, ReportEffect
<1>5. AnswerInv(h, r, s)
  BY DEF Answers
<1>6. AnswerInv(h2, r, s2)
  <2>1. \E ld, elements : h2 = At("walk", h.ca, ld, elements)
    BY <1>3 DEF MovesOn
  <2>2. s2 = s \/ s2 = Append(s, Data(h.ca, h.elements))
    BY <1>2, <1>3, MoveFact
  <2> HIDE DEF h, r, s
  <2> QED BY <1>2, <1>4, <1>5, <2>1, <2>2, WalkKeeps
<1>7. ASSUME MaxElements # 0, Completes(c) PROVE UniformInv(h2, s2) /\ ReportInv(h2, r, s2)
  <2>1. UniformInv(h, s) /\ ReportInv(h, r, s) /\ OrderInv(h, r, s) /\ IsUniform(h.elements)
    BY <1>5, <1>7 DEF Completes, AnswerInv, UniformInv
  <2> HIDE DEF h, r, s
  <2> QED BY <1>2, <1>3, <1>4, <1>7, <2>1, UniformByMove, ReportByMove
<1> QED BY <1>4, <1>6, <1>7

LEMMA TerminateKeepsAnswers ==
    ASSUME EDTypeInv, NEW c \in Conns, Terminate(c), Answers(c)
    PROVE  /\ AnswerInv(handling'[c], request'[c], out'[c])
           /\ Completes(c) => /\ UniformInv(handling'[c], out'[c])
                              /\ ReportInv(handling'[c], request'[c], out'[c])
<1> DEFINE h == handling[c]
           r == request[c]
           s == out[c]
           a == ASDU("term", h.ca)
           next == IF r.ca = BroadcastCA THEN NextCA(h.ca) ELSE Idle
<1>1. /\ request \in [Conns -> Requests] /\ handling \in [Conns -> Handlings]
      /\ out \in [Conns -> Seq(ASDUs)]
  BY TypesByName DEF EDTypeInv
<1>2. h \in Handlings /\ r \in Requests /\ s \in Seq(ASDUs) /\ h.elements \in Elements /\ h.ca \in Nat
  BY <1>1 DEF Handlings
<1>3. /\ h.pc = "walk" /\ h.ld = {}
      /\ handling' = [handling EXCEPT ![c] = next]
      /\ request' = [request EXCEPT ![c] = r]
      /\ \/ h.elements = <<>> /\ out' = [out EXCEPT ![c] = Append(s, a)]
         \/ h.elements # <<>> /\ out' = [out EXCEPT ![c] = Append(Append(s, Data(h.ca, h.elements)), a)]
  BY TerminateEffect
<1>4. handling'[c] = next /\ request'[c] = r
  BY <1>1, <1>3
<1>5. PICK s1 : /\ \/ h.elements = <<>> /\ s1 = s
                   \/ h.elements # <<>> /\ s1 = Append(s, Data(h.ca, h.elements))
                /\ out'[c] = Append(s1, a)
  BY <1>1, <1>3
<1>6. Follows(h, r, next)
  <2>1. \A ca \in ConfiguredCAs : ca \in DOMAIN definitions /\ ca \in Nat
    BY AddressAssumption, DataPointAssumption DEF EDTypeInv, EDTypeOK, ConfiguredCAs, IsKnown
  <2>2. CASE r.ca # BroadcastCA
    BY <2>2 DEF Follows
  <2>3. CASE r.ca = BroadcastCA /\ NextCA(h.ca) = Idle /\ \A ca \in DOMAIN definitions : ca =< h.ca
    BY <2>1, <2>3 DEF Follows
  <2>4. ASSUME r.ca = BroadcastCA, NEW b \in DOMAIN definitions,
               NextCA(h.ca) = At("confirm", b, {}, <<>>), b \in Nat, b > h.ca,
               \A ca \in DOMAIN definitions : ca > h.ca => b =< ca
        PROVE  Follows(h, r, next)
    BY <2>1, <2>4 DEF Follows
  <2>5. h.ca \in Int
    BY <1>2
  <2> HIDE DEF next
  <2> QED BY <2>2, <2>3, <2>4, <2>5, NextCAFact DEF EDTypeInv
<1>7. AnswerInv(h, r, s)
  BY DEF Answers
<1> HIDE DEF next, r, s, h
<1>8. s1 \in Seq(ASDUs)
  BY <1>2, <1>5, ASDUTypes, AppendFact
<1>9. AnswerInv(h, r, s1)
  <2>1. \A ld, elements : AnswerInv(At("walk", h.ca, ld, elements), r, s1)
    <3> SUFFICES ASSUME NEW ld, NEW elements PROVE AnswerInv(At("walk", h.ca, ld, elements), r, s1)
      OBVIOUS
    <3>1. /\ AnswerInv(At("walk", h.ca, ld, elements), r, s)
          /\ AnswerInv(At("walk", h.ca, ld, elements), r, Append(s, Data(h.ca, h.elements)))
      BY <1>2, <1>3, <1>7, WalkKeeps
    <3> QED BY <1>5, <3>1
  <2>2. At("walk", h.ca, h.ld, h.elements) = h
    BY <1>2, <1>3 DEF At, Handlings
  <2> QED BY <2>1, <2>2
<1>10. AnswerInv(next, r, Append(s1, a))
  BY <1>2, <1>3, <1>6, <1>8, <1>9, TermKeeps
<1>11. ASSUME Completes(c) PROVE UniformInv(next, Append(s1, a)) /\ ReportInv(next, r, Append(s1, a))
  <2>1. UniformInv(h, s) /\ ReportInv(h, r, s) /\ IsUniform(h.elements)
    BY <1>11 DEF Completes, UniformInv, h, r, s
  <2>2. ReportInv(next, r, Append(s1, a))
    BY <1>2, <1>3, <1>5, <1>6, <2>1, ReportByTerm
  <2>3. next.elements = <<>>
    BY <1>6 DEF Follows, Idle, At
  <2>4. UniformInv(h, s1)
    BY <1>2, <1>5, <2>1, UniformAppend
  <2>5. a \in ASDUs /\ a.kind # "data"
    BY <1>2, ASDUTypes, DistinctASDUs DEF ASDUKinds
  <2>6. UniformInv(next, Append(s1, a))
    BY <1>8, <2>3, <2>4, <2>5, EmptyUniform, UniformAppend
  <2> QED BY <2>2, <2>6
<1> QED BY <1>4, <1>5, <1>10, <1>11

\* A step on one connection leaves the others alone.
LEMMA OtherConnections ==
    ASSUME EDTypeInv, NEW c \in Conns,
           \E r, h, s : /\ request' = [request EXCEPT ![c] = r]
                        /\ handling' = [handling EXCEPT ![c] = h]
                        /\ out' = [out EXCEPT ![c] = s]
    PROVE  \A b \in Conns \ {c} :
              request'[b] = request[b] /\ handling'[b] = handling[b] /\ out'[b] = out[b]
<1>1. /\ request \in [Conns -> Requests] /\ handling \in [Conns -> Handlings]
      /\ out \in [Conns -> Seq(ASDUs)]
  BY TypesByName DEF EDTypeInv
<1> QED BY <1>1

\* What an action on a connection does, for all of them.
LEMMA StepKeepsAnswers ==
    ASSUME EDTypeInv, NEW c \in Conns,
           \/ \E cmd \in Commands : validateCommand(c, cmd)
           \/ \E ca \in CAs \union {BroadcastCA}, qoi \in QOIs : interrogationHandler(c, ca, qoi)
           \/ Confirm(c)
           \/ ReportPoint(c)
           \/ Terminate(c)
    PROVE  /\ Answers(c) => AnswerInv(handling'[c], request'[c], out'[c])
           /\ MaxElements # 0 /\ Answers(c) /\ Completes(c) =>
                 /\ UniformInv(handling'[c], out'[c])
                 /\ ReportInv(handling'[c], request'[c], out'[c])
           /\ \A b \in Conns \ {c} :
                 request'[b] = request[b] /\ handling'[b] = handling[b] /\ out'[b] = out[b]
<1>1. ASSUME NEW cmd \in Commands, validateCommand(c, cmd)
      PROVE  \E r, h, s : /\ request' = [request EXCEPT ![c] = r]
                          /\ handling' = [handling EXCEPT ![c] = h]
                          /\ out' = [out EXCEPT ![c] = s]
  <2>1. PICK s \in Seq(ASDUs) : out' = [out EXCEPT ![c] = s]
    BY <1>1, CommandEffect
  <2>2. /\ handling' = [handling EXCEPT ![c] = handling[c]]
        /\ request' = [request EXCEPT ![c] = [kind |-> "command", ca |-> cmd.ca, qoi |-> 0]]
    BY <1>1, CommandEffect
  <2> QED BY <2>1, <2>2
<1>2. ASSUME NEW ca \in CAs \union {BroadcastCA}, NEW qoi \in QOIs, interrogationHandler(c, ca, qoi)
      PROVE  \E r, h, s : /\ request' = [request EXCEPT ![c] = r]
                          /\ handling' = [handling EXCEPT ![c] = h]
                          /\ out' = [out EXCEPT ![c] = s]
  BY <1>2, InterrogationEffect
<1>3. ASSUME Confirm(c)
      PROVE  \E r, h, s : /\ request' = [request EXCEPT ![c] = r]
                          /\ handling' = [handling EXCEPT ![c] = h]
                          /\ out' = [out EXCEPT ![c] = s]
  BY <1>3, ConfirmEffect
<1>4. ASSUME ReportPoint(c)
      PROVE  \E r, h, s : /\ request' = [request EXCEPT ![c] = r]
                          /\ handling' = [handling EXCEPT ![c] = h]
                          /\ out' = [out EXCEPT ![c] = s]
  BY <1>4, ReportEffect
<1>5. ASSUME Terminate(c)
      PROVE  \E r, h, s : /\ request' = [request EXCEPT ![c] = r]
                          /\ handling' = [handling EXCEPT ![c] = h]
                          /\ out' = [out EXCEPT ![c] = s]
  BY <1>5, TerminateEffect
<1>6. \A b \in Conns \ {c} :
         request'[b] = request[b] /\ handling'[b] = handling[b] /\ out'[b] = out[b]
  BY <1>1, <1>2, <1>3, <1>4, <1>5, OtherConnections
<1> QED BY <1>6, CommandKeepsAnswers, InterrogationKeepsAnswers, ConfirmKeepsAnswers,
           ReportKeepsAnswers, TerminateKeepsAnswers

LEMMA InitAnswers == EDInit => \A c \in Conns : Answers(c) /\ Completes(c)
<1> SUFFICES ASSUME EDInit, NEW c \in Conns PROVE Answers(c) /\ Completes(c)
  OBVIOUS
<1>1. handling[c] = Idle /\ out[c] = <<>> /\ request[c] = [kind |-> "none", ca |-> 0, qoi |-> 0]
  BY DEF EDInit
<1>2. Idle \in Handlings /\ Idle.pc = "idle" /\ Idle.elements = <<>>
  BY HandlingTypes DEF Idle
<1>3. request[c] \in Requests /\ ~IsBroadcast(request[c])
  BY <1>1 DEF Requests, IsBroadcast
<1>4. <<>> \in Seq(ASDUs) /\ \A i \in 1 .. Len(<<>>) : FALSE
  OBVIOUS
<1>5. WorksOnRequest(Idle, request[c])
  BY <1>2 DEF WorksOnRequest
<1>6. /\ AnswerInv(Idle, request[c], <<>>)
      /\ UniformInv(Idle, <<>>)
      /\ ReportInv(Idle, request[c], <<>>)
  BY <1>2, <1>3, <1>4, <1>5, FreshKeeps, EmptyUniform
<1> QED BY <1>1, <1>6 DEF Answers, Completes

LEMMA NextAnswers ==
    ASSUME EDTypeInv, [EDNext]_edVars
    PROVE  /\ (\A c \in Conns : Answers(c)) =>
                 \A c \in Conns : AnswerInv(handling'[c], request'[c], out'[c])
           /\ MaxElements # 0 /\ (\A c \in Conns : Answers(c) /\ Completes(c)) =>
                 \A c \in Conns : /\ UniformInv(handling'[c], out'[c])
                                  /\ ReportInv(handling'[c], request'[c], out'[c])
<1>1. CASE UNCHANGED <<request, handling, out>>
  BY <1>1 DEF Answers, Completes
<1>2. ASSUME NEW c \in Conns,
             \/ \E cmd \in Commands : validateCommand(c, cmd)
             \/ \E ca \in CAs \union {BroadcastCA}, qoi \in QOIs : interrogationHandler(c, ca, qoi)
             \/ Confirm(c)
             \/ ReportPoint(c)
             \/ Terminate(c)
      PROVE  /\ (\A b \in Conns : Answers(b)) =>
                   \A b \in Conns : AnswerInv(handling'[b], request'[b], out'[b])
             /\ MaxElements # 0 /\ (\A b \in Conns : Answers(b) /\ Completes(b)) =>
                   \A b \in Conns : /\ UniformInv(handling'[b], out'[b])
                                    /\ ReportInv(handling'[b], request'[b], out'[b])
  <2>1. /\ Answers(c) => AnswerInv(handling'[c], request'[c], out'[c])
        /\ MaxElements # 0 /\ Answers(c) /\ Completes(c) =>
              /\ UniformInv(handling'[c], out'[c])
              /\ ReportInv(handling'[c], request'[c], out'[c])
        /\ \A b \in Conns \ {c} :
              request'[b] = request[b] /\ handling'[b] = handling[b] /\ out'[b] = out[b]
    BY <1>2, StepKeepsAnswers
  <2>2. \A b \in Conns \ {c} :
           /\ Answers(b) => AnswerInv(handling'[b], request'[b], out'[b])
           /\ Completes(b) => /\ UniformInv(handling'[b], out'[b])
                              /\ ReportInv(handling'[b], request'[b], out'[b])
    BY <2>1 DEF Answers, Completes
  <2> QED BY <2>1, <2>2
<1>3. \A r \in Readings : m_getDataPoint(r[1], r[2]) => UNCHANGED <<request, handling, out>>
  BY DEF m_getDataPoint
<1> QED BY <1>1, <1>2, <1>3 DEF EDNext, edVars

LEMMA AnswersCorrect == EDSpec => []EDInv
<1>1. EDInit => EDInv
  BY InitTypes, InitAnswers DEF EDInv, Answers
<1>2. EDInv /\ [EDNext]_edVars => EDInv'
  <2> SUFFICES ASSUME EDInv, [EDNext]_edVars PROVE EDInv'
    OBVIOUS
  <2>1. EDTypeInv /\ \A c \in Conns : Answers(c)
    BY DEF EDInv, Answers
  <2>2. EDTypeInv'
    BY <2>1, NextTypes
  <2>3. \A c \in Conns : AnswerInv(handling'[c], request'[c], out'[c])
    BY <2>1, NextAnswers
  <2> QED BY <2>2, <2>3 DEF EDInv
<1> QED BY <1>1, <1>2, PTL DEF EDSpec

LEMMA ReportsCorrect == MaxElements # 0 => (EDSpec => []EDReportInv)
<1> SUFFICES ASSUME MaxElements # 0 PROVE EDSpec => []EDReportInv
  OBVIOUS
<1>1. EDInit => EDReportInv
  BY InitTypes, InitAnswers DEF EDReportInv, EDInv, Answers, Completes
<1>2. EDReportInv /\ [EDNext]_edVars => EDReportInv'
  <2> SUFFICES ASSUME EDReportInv, [EDNext]_edVars PROVE EDReportInv'
    OBVIOUS
  <2>1. EDTypeInv /\ \A c \in Conns : Answers(c) /\ Completes(c)
    BY DEF EDReportInv, EDInv, Answers, Completes
  <2>2. EDTypeInv'
    BY <2>1, NextTypes
  <2>3. \A c \in Conns : /\ AnswerInv(handling'[c], request'[c], out'[c])
                         /\ UniformInv(handling'[c], out'[c])
                         /\ ReportInv(handling'[c], request'[c], out'[c])
    BY <2>1, NextAnswers
  <2> QED BY <2>2, <2>3 DEF EDReportInv, EDInv
<1> QED BY <1>1, <1>2, PTL DEF EDSpec

-----------------------------------------------------------------------------
(* The properties *)

\* A broadcast interrogation that is over has confirmed and terminated every
\* configured CA, each once, however many CAs other threads insert into the
\* map while interrogationHandler iterates over it.
THEOREM BroadcastAnswersEveryStation == EDSpec => []BroadcastReachesAll
<1>1. EDInv => BroadcastReachesAll
  <2> SUFFICES ASSUME EDInv, NEW c \in Conns, NEW ca \in ConfiguredCAs,
                      handling[c].pc = "idle", IsBroadcast(request[c]),
                      NEW kind \in {"con", "term"}
               PROVE  Cardinality({i \in Positions(c) : out[c][i] = ASDU(kind, ca)}) = 1
    BY DEF BroadcastReachesAll, IsBroadcast
  <2>1. One(Sent(out[c], kind, ca))
    BY DEF EDInv, AnswerInv, PassedInv
  <2>2. Sent(out[c], kind, ca) = {i \in Positions(c) : out[c][i] = ASDU(kind, ca)}
    BY DEF Sent, Positions
  <2> QED BY <2>1, <2>2, FS_Singleton DEF One
<1> QED BY <1>1, AnswersCorrect, PTL

\* When an information object fits into an ASDU at all, no ASDU of an
\* interrogation response is empty or mixes types.
THEOREM ResponsesAreWellFormed == MaxElements # 0 => (EDSpec => []AsdusAreWellFormed)
<1> SUFFICES ASSUME MaxElements # 0 PROVE EDSpec => []AsdusAreWellFormed
  OBVIOUS
<1>1. EDReportInv => AsdusAreWellFormed
  BY DEF EDReportInv, UniformInv, IsUniform, AsdusAreWellFormed, Positions
<1> QED BY <1>1, ReportsCorrect, PTL

\* When an information object fits into an ASDU at all, an interrogation has
\* reported every data point of the group exactly once, and nothing else, when
\* sendInterrogationResponse sends ACT-TERM for its CA: for any data points,
\* any size of the ASDUs and whatever is inserted meanwhile.
THEOREM InterrogationReportsAll == MaxElements # 0 => (EDSpec => []InterrogationIsComplete)
<1> SUFFICES ASSUME MaxElements # 0 PROVE EDSpec => []InterrogationIsComplete
  OBVIOUS
<1>1. EDReportInv => InterrogationIsComplete
  <2> SUFFICES ASSUME EDReportInv, NEW c \in Conns, NEW d \in DataPoints,
                      NEW i \in Positions(c), out[c][i] = ASDU("term", d.ca)
               PROVE  Cardinality(Reports(c, d)) = IF IsReported(d, request[c].qoi) THEN 1 ELSE 0
    BY DEF InterrogationIsComplete
  <2>1. i \in Sent(out[c], "term", d.ca)
    BY DEF Sent, Positions
  <2>2. IF IsReported(d, request[c].qoi) THEN One(ReportsIn(out[c], d)) ELSE ReportsIn(out[c], d) = {}
    BY <2>1 DEF EDReportInv, ReportInv
  <2>3. Reports(c, d) = ReportsIn(out[c], d)
    BY DEF Reports, ReportsIn, Positions
  <2> QED BY <2>2, <2>3, FS_Singleton, FS_EmptySet DEF One
<1> QED BY <1>1, ReportsCorrect, PTL
=============================================================================
