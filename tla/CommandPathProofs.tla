-------------------------- MODULE CommandPathProofs --------------------------
(***************************************************************************)
(* Proofs about the way of a command, for any number of connections, keys  *)
(* and commands: feedback reaches the command it is about whenever keys    *)
(* are commanded while idle, and the path keeps the dialogue it promises a *)
(* client, that is, CommandPath implements CommandDialogue.                *)
(***************************************************************************)
EXTENDS CommandPath, OutstandingCommandsProofs

\* Connection c has put a command for the key into the list and is about to
\* hand it to the south side.
Adding(c, key) == handler[c].pc = "added" /\ issued[handler[c].seq].key = key

\* The commands for the key that the plugin or the south side still knows.
Refs(key) ==
    {e.seq : e \in {f \in outstanding : f.key = key}}
    \union {x.seq : x \in {y \in south : y.key = key}}
    \union {handler[c].seq : c \in {d \in Conns : Adding(d, key)}}

\* A handler and the south side only know commands that were issued, the
\* south side knows each once and none that is still about to be handed over.
SouthKnowsIssued ==
    /\ \A x \in south : x.seq \in 1 .. nextSeq - 1 /\ issued[x.seq].key = x.key
    /\ \A x, y \in south : x.seq = y.seq => x = y
    /\ \A c \in Conns : handler[c].pc = "added" =>
          /\ handler[c].seq \in 1 .. nextSeq - 1
          /\ issued[handler[c].seq].conn = c
          /\ \A x \in south : x.seq # handler[c].seq

\* One command at most is known for a key that was idle when last commanded.
CleanKeysAreSingle ==
    \A key \in Keys : clean[key] => \A m, n \in Refs(key) : m = n

\* For such a key the state of the entry is that of the south side.
CleanKeysAreInStep ==
    \A e \in outstanding : clean[e.key] =>
        /\ (\E c \in Conns : Adding(c, e.key))
              => e.state = 1 /\ answers[e.seq] = <<>>
        /\ \A x \in south : x.key = e.key =>
              /\ x.next = "con" => e.state = 1 /\ answers[e.seq] = <<>>
              /\ x.next = "term" => e.state = 2 /\ answers[e.seq] = <<"con">>

\* The types the argument needs.
CPTypes ==
    /\ handler \in [Conns -> [pc : HandlerPcs, seq : 0 .. MaxCmds]]
    /\ south \subseteq [seq : Commands, key : Keys, next : {"con", "term"}]
    /\ clean \in [Keys -> BOOLEAN]

\* The inductive invariant.
CPInv ==
    /\ OCInv
    /\ CPTypes
    /\ SouthKnowsIssued
    /\ CleanKeysAreSingle
    /\ CleanKeysAreInStep

-----------------------------------------------------------------------------

\* The initial state satisfies the invariant.
LEMMA CPInitInv == Init => CPInv
<1> SUFFICES ASSUME Init PROVE CPInv
  OBVIOUS
<1>1. OCInv /\ outstanding = {}
  BY OCInitInv DEF Init, OCInit
<1>2. /\ south = {} /\ clean = [k \in Keys |-> TRUE]
      /\ handler = [c \in Conns |-> [pc |-> "idle", seq |-> 0]]
  BY DEF Init
<1>3. CPTypes
  BY <1>2, MaxCmdsAssumption DEF CPTypes, HandlerPcs, Commands
<1>4. SouthKnowsIssued
  BY <1>2 DEF SouthKnowsIssued
<1>5. \A key \in Keys : Refs(key) = {}
  BY <1>1, <1>2 DEF Refs, Adding
<1> QED BY <1>1, <1>2, <1>3, <1>4, <1>5
        DEF CPInv, CleanKeysAreSingle, CleanKeysAreInStep

\* A step that only forgets commands keeps clean keys single.
LEMMA SingleKept ==
    ASSUME CleanKeysAreSingle, clean' = clean,
           \A key \in Keys : Refs(key)' \subseteq Refs(key)
    PROVE  CleanKeysAreSingle'
  BY DEF CleanKeysAreSingle

\* A step that leaves the handlers and the south side alone and only erases
\* entries keeps the invariant.
LEMMA EraseCPInv ==
    ASSUME CPInv, outstanding' \subseteq outstanding,
           UNCHANGED <<nextSeq, issued, answers, handler, south, clean>>
    PROVE  CPInv'
<1>1. OCInv'
  BY EraseInv DEF CPInv
<1>2. CPTypes' /\ SouthKnowsIssued'
  BY DEF CPInv, CPTypes, SouthKnowsIssued
<1>3. \A key \in Keys : Refs(key)' \subseteq Refs(key)
  BY DEF Refs, Adding
<1>4. CleanKeysAreSingle'
  BY <1>3, SingleKept DEF CPInv
<1>5. CleanKeysAreInStep'
  BY DEF CPInv, CleanKeysAreInStep, Adding
<1> QED BY <1>1, <1>2, <1>4, <1>5 DEF CPInv

\* A handler that enters or leaves any other place than "added" keeps it.
LEMMA HandlerCPInv ==
    ASSUME CPInv, NEW c \in Conns, NEW pc \in HandlerPcs, NEW n \in 0 .. MaxCmds,
           pc # "added", AtPc(c, pc, n),
           UNCHANGED <<ocVars, south, clean>>
    PROVE  CPInv'
<1>0. UNCHANGED <<outstanding, nextSeq, issued, answers, south, clean>>
  BY DEF ocVars
<1>1. OCInv'
  BY <1>0, EraseInv DEF CPInv
<1>2. /\ handler' \in [Conns -> [pc : HandlerPcs, seq : 0 .. MaxCmds]]
      /\ \A d \in Conns : handler'[d].pc = "added" => handler'[d] = handler[d]
  BY DEF CPInv, CPTypes, AtPc
<1>3. CPTypes' /\ SouthKnowsIssued'
  BY <1>0, <1>2 DEF CPInv, CPTypes, SouthKnowsIssued
<1>4. \A d \in Conns, key \in Keys : Adding(d, key)' => Adding(d, key) /\ handler'[d] = handler[d]
  BY <1>0, <1>2 DEF Adding
<1>5. \A key \in Keys : Refs(key)' \subseteq Refs(key)
  BY <1>0, <1>4 DEF Refs
<1>6. CleanKeysAreSingle'
  BY <1>0, <1>5, SingleKept DEF CPInv
<1>7. \A e \in outstanding : e.key \in Keys
  BY DEF CPInv, OCInv, OCTypeOK, Entries
<1>8. CleanKeysAreInStep'
  BY <1>0, <1>4, <1>7 DEF CPInv, CleanKeysAreInStep
<1> QED BY <1>1, <1>3, <1>6, <1>8 DEF CPInv

\* What the invariant says of the numbers in use.
LEMMA CPFacts ==
    ASSUME CPInv
    PROVE  /\ nextSeq \in Nat
           /\ issued \in Seq(Requests)
           /\ Len(issued) = nextSeq - 1
           /\ \A e \in outstanding :
                 /\ e \in Entries /\ e.key \in Keys
                 /\ e.seq \in 1 .. nextSeq - 1
                 /\ issued[e.seq].key = e.key /\ issued[e.seq].select = e.select
                 /\ \A f \in outstanding : f.seq = e.seq => f = e
           /\ \A key \in Keys : \A n \in Refs(key) :
                 n \in 1 .. nextSeq - 1 /\ issued[n].key = key
<1>1. /\ nextSeq \in Nat /\ issued \in Seq(Requests) /\ Len(issued) = nextSeq - 1
  BY MaxCmdsAssumption DEF CPInv, OCInv, OCTypeOK
<1>2. ASSUME NEW e \in outstanding
      PROVE  /\ e \in Entries /\ e.key \in Keys
             /\ e.seq \in 1 .. nextSeq - 1
             /\ issued[e.seq].key = e.key /\ issued[e.seq].select = e.select
             /\ \A f \in outstanding : f.seq = e.seq => f = e
  <2>1. e \in Entries /\ e.seq \in 1 .. nextSeq - 1
    BY EntryFacts DEF CPInv
  <2>2. e.key \in Keys
    BY <2>1 DEF Entries
  <2>3. /\ issued[e.seq] = [key |-> e.key, conn |-> e.conn, select |-> e.select]
        /\ \A f \in outstanding : f.seq = e.seq => f = e
    BY DEF CPInv, OCInv, EntryKeepsItsRequest
  <2>4. issued[e.seq].key = e.key /\ issued[e.seq].select = e.select
    BY <2>3
  <2> QED BY <2>1, <2>2, <2>3, <2>4
<1>3. ASSUME NEW key \in Keys, NEW n \in Refs(key)
      PROVE  n \in 1 .. nextSeq - 1 /\ issued[n].key = key
  BY <1>2 DEF Refs, Adding, CPInv, SouthKnowsIssued
<1> QED BY <1>1, <1>2, <1>3

\* An idle key is known to nobody.
LEMMA IdleMeansUnknown ==
    ASSUME NEW key \in Keys, KeyIdle(key)
    PROVE  Refs(key) = {}
  BY DEF KeyIdle, Refs, Adding

\* ForwardAdd: the new command is the only one known for its key if the key
\* was idle, and marks the key as not clean otherwise.
LEMMA ForwardAddInv ==
    ASSUME CPInv, NEW c \in Conns, ForwardAdd(c)
    PROVE  CPInv'
<1>1. PICK key \in Keys, select \in BOOLEAN :
         /\ addToOutstandingCommands(key, c, select)
         /\ clean' = [clean EXCEPT ![key] = KeyIdle(key)]
  BY DEF ForwardAdd
<1> DEFINE e == OutstandingCommand(nextSeq, key, c, select)
           r == [key |-> key, conn |-> c, select |-> select]
<1>2. /\ handler[c].pc = "accepted"
      /\ handler' = [handler EXCEPT ![c] = [pc |-> "added", seq |-> nextSeq]]
      /\ south' = south
  BY DEF ForwardAdd, AtPc
<1>3. /\ nextSeq \in Commands
      /\ outstanding' = outstanding \union {e}
      /\ issued' = Append(issued, r)
      /\ nextSeq' = nextSeq + 1
      /\ answers' = answers
  BY <1>1 DEF addToOutstandingCommands
<1>4. /\ e.seq = nextSeq /\ e.key = key /\ e.state = 1
      /\ r \in Requests /\ r.key = key /\ r.conn = c
  BY DEF OutstandingCommand, Requests
<1>5. /\ nextSeq \in Nat /\ issued \in Seq(Requests) /\ Len(issued) = nextSeq - 1
  BY CPFacts
<1>6. /\ \A n \in 1 .. nextSeq - 1 : issued'[n] = issued[n]
      /\ issued'[nextSeq] = r
  BY <1>3, <1>4, <1>5
<1> HIDE DEF e, r
<1>7. OCInv'
  BY <1>1, AddInv DEF CPInv
<1>8. CPTypes'
  <2>1. nextSeq \in 0 .. MaxCmds
    BY <1>3, MaxCmdsAssumption DEF Commands
  <2>2. clean' \in [Keys -> BOOLEAN]
    <3>1. KeyIdle(key) \in BOOLEAN
      BY DEF KeyIdle
    <3> QED BY <1>1, <3>1 DEF CPInv, CPTypes
  <2> QED BY <1>2, <2>1, <2>2 DEF CPInv, CPTypes, HandlerPcs
<1>9. \A d \in Conns : d # c => handler'[d] = handler[d]
  BY <1>2 DEF CPInv, CPTypes
<1>10. handler'[c] = [pc |-> "added", seq |-> nextSeq]
  BY <1>2 DEF CPInv, CPTypes
<1>11. \A d \in Conns, k \in Keys : Adding(d, k)' <=>
            (d # c /\ Adding(d, k)) \/ (d = c /\ k = key)
  <2> TAKE d \in Conns, k \in Keys
  <2>1. CASE d = c
    BY <2>1, <1>10, <1>6, <1>4 DEF Adding
  <2>2. CASE d # c
    BY <2>2, <1>9, <1>6 DEF Adding, CPInv, SouthKnowsIssued
  <2> QED BY <2>1, <2>2
<1>12. ~\E k \in Keys : Adding(c, k)
  BY <1>2 DEF Adding
<1>13. SouthKnowsIssued'
  <2>1. \A x \in south' : x.seq \in 1 .. nextSeq' - 1 /\ issued'[x.seq].key = x.key
    BY <1>2, <1>3, <1>5, <1>6 DEF CPInv, SouthKnowsIssued
  <2>2. ASSUME NEW d \in Conns, handler'[d].pc = "added"
        PROVE  /\ handler'[d].seq \in 1 .. nextSeq' - 1
               /\ issued'[handler'[d].seq].conn = d
               /\ \A x \in south' : x.seq # handler'[d].seq
    <3>1. CASE d = c
      BY <3>1, <1>10, <1>2, <1>3, <1>4, <1>5, <1>6 DEF CPInv, SouthKnowsIssued
    <3>2. CASE d # c
      BY <3>2, <2>2, <1>9, <1>2, <1>3, <1>5, <1>6 DEF CPInv, SouthKnowsIssued
    <3> QED BY <3>1, <3>2
  <2> QED BY <1>2, <2>1, <2>2 DEF CPInv, SouthKnowsIssued
<1>14. \A k \in Keys : Refs(k)' \subseteq Refs(k) \union (IF k = key THEN {nextSeq} ELSE {})
  <2> SUFFICES ASSUME NEW k \in Keys, NEW n \in Refs(k)'
               PROVE  n \in Refs(k) \/ (k = key /\ n = nextSeq)
    OBVIOUS
  <2>1. CASE \E f \in outstanding' : f.key = k /\ n = f.seq
    BY <2>1, <1>3, <1>4 DEF Refs
  <2>2. CASE \E x \in south' : x.key = k /\ n = x.seq
    BY <2>2, <1>2 DEF Refs
  <2>3. CASE \E d \in Conns : Adding(d, k)' /\ n = handler'[d].seq
    BY <2>3, <1>9, <1>10, <1>11 DEF Refs
  <2> QED BY <2>1, <2>2, <2>3 DEF Refs
<1>15. \A k \in Keys : clean'[k] => (k # key /\ clean[k]) \/ (k = key /\ Refs(key) = {})
  BY <1>1, IdleMeansUnknown DEF CPInv, CPTypes
<1>16. CleanKeysAreSingle'
  BY <1>14, <1>15 DEF CPInv, CleanKeysAreSingle
<1>17. CleanKeysAreInStep'
  <2> SUFFICES ASSUME NEW f \in outstanding', clean'[f.key]
               PROVE  /\ (\E d \in Conns : Adding(d, f.key)')
                            => f.state = 1 /\ answers[f.seq] = <<>>
                      /\ \A x \in south : x.key = f.key =>
                            /\ x.next = "con" => f.state = 1 /\ answers[f.seq] = <<>>
                            /\ x.next = "term" => f.state = 2 /\ answers[f.seq] = <<"con">>
    BY <1>2, <1>3 DEF CleanKeysAreInStep
  <2>0. f.key \in Keys
    BY <1>7 DEF OCInv, OCTypeOK, Entries
  <2>1. CASE f.key = key
    <3>1. Refs(key) = {}
      BY <2>1, <1>15
    <3>2. f = e
      BY <3>1, <2>1, <1>3 DEF Refs
    <3>3. answers[nextSeq] = <<>>
      BY <1>3, <1>5 DEF CPInv, OCInv, AnswersSoFar
    <3>4. \A x \in south : x.key # key
      BY <3>1 DEF Refs
    <3> QED BY <2>1, <3>2, <3>3, <3>4, <1>4
  <2>2. CASE f.key # key
    <3>1. f \in outstanding /\ clean[f.key]
      BY <2>0, <2>2, <1>3, <1>4, <1>15
    <3> QED BY <2>0, <2>2, <3>1, <1>11 DEF CPInv, CleanKeysAreInStep
  <2> QED BY <2>1, <2>2
<1> QED BY <1>7, <1>8, <1>13, <1>16, <1>17 DEF CPInv

\* OperationAccepted hands the reference over from the handler to the south
\* side.
LEMMA AcceptedInv ==
    ASSUME CPInv, NEW c \in Conns, OperationAccepted(c)
    PROVE  CPInv'
<1> DEFINE n == handler[c].seq
           x0 == [seq |-> n, key |-> issued[n].key, next |-> "con"]
<1>1. /\ handler[c].pc = "added"
      /\ south' = south \union {x0}
      /\ handler' = [handler EXCEPT ![c] = [pc |-> "idle", seq |-> 0]]
      /\ UNCHANGED <<outstanding, nextSeq, issued, answers, clean>>
  BY DEF OperationAccepted, AtPc, ocVars
<1>2. /\ n \in 1 .. nextSeq - 1 /\ issued[n].conn = c
      /\ \A x \in south : x.seq # n
  BY <1>1 DEF CPInv, SouthKnowsIssued
<1>3. /\ issued[n].key \in Keys /\ n \in Commands
  <2>1. /\ issued \in Seq(Requests) /\ Len(issued) = nextSeq - 1 /\ nextSeq \in Nat
    BY CPFacts
  <2>2. nextSeq \in 1 .. MaxCmds + 1
    BY DEF CPInv, OCInv, OCTypeOK
  <2>3. issued[n] \in Requests
    BY <2>1, <1>2
  <2>4. issued[n].key \in Keys
    BY <2>3 DEF Requests
  <2>5. n \in Commands
    BY <2>2, <1>2, MaxCmdsAssumption DEF Commands
  <2> QED BY <2>4, <2>5
<1>4. x0.seq = n /\ x0.key = issued[n].key /\ x0.next = "con"
  OBVIOUS
<1>5. Adding(c, x0.key)
  BY <1>1 DEF Adding
<1> HIDE DEF x0, n
<1>6. OCInv'
  BY <1>1, EraseInv DEF CPInv
<1>7. CPTypes'
  <2>1. x0 \in [seq : Commands, key : Keys, next : {"con", "term"}]
    BY <1>3 DEF x0
  <2> QED BY <1>1, <2>1, MaxCmdsAssumption DEF CPInv, CPTypes, HandlerPcs
<1>8. /\ \A d \in Conns : d # c => handler'[d] = handler[d]
      /\ handler'[c].pc = "idle"
  BY <1>1 DEF CPInv, CPTypes
<1>9. SouthKnowsIssued'
  <2>1. ASSUME NEW d \in Conns, handler'[d].pc = "added"
        PROVE  /\ handler'[d].seq \in 1 .. nextSeq' - 1
               /\ issued'[handler'[d].seq].conn = d
               /\ \A x \in south' : x.seq # handler'[d].seq
    BY <2>1, <1>1, <1>2, <1>4, <1>8 DEF CPInv, SouthKnowsIssued
  <2> QED BY <1>1, <1>2, <1>4, <2>1 DEF CPInv, SouthKnowsIssued
<1>10. \A d \in Conns, k \in Keys : Adding(d, k)' <=> d # c /\ Adding(d, k)
  BY <1>1, <1>8 DEF Adding
<1>11. \A k \in Keys : Refs(k)' \subseteq Refs(k)
  <2> SUFFICES ASSUME NEW k \in Keys, NEW m \in Refs(k)' PROVE m \in Refs(k)
    OBVIOUS
  <2>1. CASE \E f \in outstanding' : f.key = k /\ m = f.seq
    BY <2>1, <1>1 DEF Refs
  <2>2. CASE \E x \in south' : x.key = k /\ m = x.seq
    BY <2>2, <1>1, <1>4, <1>5 DEF Refs, n
  <2>3. CASE \E d \in Conns : Adding(d, k)' /\ m = handler'[d].seq
    BY <2>3, <1>8, <1>10 DEF Refs
  <2> QED BY <2>1, <2>2, <2>3 DEF Refs
<1>12. CleanKeysAreSingle'
  BY <1>1, <1>11, SingleKept DEF CPInv
<1>13. CleanKeysAreInStep'
  <2>1. \A e \in outstanding : e.key \in Keys
    BY CPFacts
  <2> QED BY <2>1, <1>1, <1>4, <1>5, <1>10 DEF CPInv, CleanKeysAreInStep
<1> QED BY <1>6, <1>7, <1>9, <1>12, <1>13 DEF CPInv

\* The first match of the feedback for a clean key is the command the feedback
\* is about, and it is in the state the south side takes it to be in.
LEMMA MatchIsIt ==
    ASSUME CPInv, NEW x \in south, NEW e \in outstanding,
           IsFirstMatch(e, x.key), clean[x.key]
    PROVE  /\ e.seq = x.seq
           /\ x.next = "con" => e.state = 1 /\ answers[e.seq] = <<>>
           /\ x.next = "term" => e.state = 2 /\ answers[e.seq] = <<"con">>
<1>1. e.key = x.key /\ e.key \in Keys
  BY CPFacts DEF IsFirstMatch, isMatching
<1>2. e.seq \in Refs(e.key) /\ x.seq \in Refs(e.key)
  BY <1>1 DEF Refs
<1> QED BY <1>1, <1>2 DEF CPInv, CleanKeysAreSingle, CleanKeysAreInStep

\* The south side drops a command, whatever else happens to the entries with
\* its number.
LEMMA SouthForgets ==
    ASSUME CPInv, NEW x \in south, NEW y,
           y \in [seq : Commands, key : Keys, next : {"con", "term"}],
           y.seq = x.seq, y.key = x.key,
           south' = (south \ {x}) \/ south' = (south \ {x}) \union {y},
           \A f \in outstanding' : \E g \in outstanding : g.seq = f.seq /\ g.key = f.key,
           UNCHANGED <<nextSeq, issued, handler, clean>>
    PROVE  /\ CPTypes' /\ SouthKnowsIssued' /\ CleanKeysAreSingle'
           /\ \A c \in Conns, k \in Keys : Adding(c, k)' <=> Adding(c, k)
<1>1. \A z \in south' : (z \in south /\ z # x) \/ z = y
  OBVIOUS
<1>2. CPTypes'
  BY DEF CPInv, CPTypes
<1>3. SouthKnowsIssued'
  BY <1>1 DEF CPInv, SouthKnowsIssued
<1>4. \A c \in Conns, k \in Keys : Adding(c, k)' <=> Adding(c, k)
  BY DEF Adding
<1>5. \A k \in Keys : Refs(k)' \subseteq Refs(k)
  <2> SUFFICES ASSUME NEW k \in Keys, NEW m \in Refs(k)' PROVE m \in Refs(k)
    OBVIOUS
  <2>1. CASE \E f \in outstanding' : f.key = k /\ m = f.seq
    BY <2>1 DEF Refs
  <2>2. CASE \E z \in south' : z.key = k /\ m = z.seq
    BY <2>2, <1>1 DEF Refs
  <2>3. CASE \E d \in Conns : Adding(d, k)' /\ m = handler'[d].seq
    BY <2>3, <1>4 DEF Refs
  <2> QED BY <2>1, <2>2, <2>3 DEF Refs
<1>6. CleanKeysAreSingle'
  BY <1>5, SingleKept DEF CPInv
<1> QED BY <1>2, <1>3, <1>4, <1>6

\* Nobody else knows the command the south side has just given feedback for.
LEMMA OnlySouthKnows ==
    ASSUME CPInv, NEW x \in south, NEW key \in Keys, x.key = key, clean[key]
    PROVE  /\ \A c \in Conns : ~Adding(c, key)
           /\ \A z \in south : z.key = key => z = x
<1>1. x.seq \in Refs(key)
  BY DEF Refs
<1>2. ASSUME NEW c \in Conns, Adding(c, key) PROVE FALSE
  <2>1. handler[c].seq \in Refs(key)
    BY <1>2 DEF Refs
  <2>2. handler[c].seq = x.seq
    BY <1>1, <2>1 DEF CPInv, CleanKeysAreSingle
  <2> QED BY <1>2, <2>2 DEF Adding, CPInv, SouthKnowsIssued
<1>3. ASSUME NEW z \in south, z.key = key PROVE z = x
  <2>1. z.seq \in Refs(key)
    BY <1>3 DEF Refs
  <2>2. z.seq = x.seq
    BY <1>1, <2>1 DEF CPInv, CleanKeysAreSingle
  <2> QED BY <2>2 DEF CPInv, SouthKnowsIssued
<1> QED BY <1>2, <1>3

\* ACT-CON: entry and south side advance together.
LEMMA FeedbackActConInv ==
    ASSUME CPInv, NEW x \in south, NEW negative \in BOOLEAN,
           FeedbackActCon(x, negative)
    PROVE  CPInv'
<1> DEFINE y == [x EXCEPT !.next = "term"]
<1>1. /\ x.next = "con" /\ handleActCon(x.key, negative)
      /\ south' = (south \ {x}) \union
                     (IF negative \/ issued[x.seq].select THEN {} ELSE {y})
      /\ UNCHANGED <<handler, clean>>
  BY DEF FeedbackActCon
<1>2. /\ x \in [seq : Commands, key : Keys, next : {"con", "term"}]
      /\ x.key \in Keys
  BY DEF CPInv, CPTypes
<1>3. /\ y \in [seq : Commands, key : Keys, next : {"con", "term"}]
      /\ y.seq = x.seq /\ y.key = x.key /\ y.next = "term"
  BY <1>2
<1>4. OCInv'
  BY <1>1, <1>2, ActConInv DEF CPInv
<1>5. UNCHANGED <<nextSeq, issued>>
  BY <1>1 DEF handleActCon, AnswerActCon, ocVars
<1> HIDE DEF y
<1>6. CASE NoMatch(x.key) /\ UNCHANGED ocVars
  <2>1. UNCHANGED <<outstanding, answers>> /\ \A e \in outstanding : e.key # x.key
    BY <1>6 DEF ocVars, NoMatch, isMatching
  <2>2. /\ CPTypes' /\ SouthKnowsIssued' /\ CleanKeysAreSingle'
        /\ \A c \in Conns, k \in Keys : Adding(c, k)' <=> Adding(c, k)
    BY <1>1, <1>3, <1>5, <2>1, SouthForgets
  <2>3. CleanKeysAreInStep'
    <3>1. \A e \in outstanding : e.key \in Keys
      BY CPFacts
    <3> QED BY <1>1, <1>3, <2>1, <2>2, <3>1 DEF CPInv, CleanKeysAreInStep
  <2> QED BY <1>4, <2>2, <2>3 DEF CPInv
<1>7. CASE \E e \in outstanding : IsFirstMatch(e, x.key) /\ AnswerActCon(e, negative)
  <2>1. PICK e \in outstanding : IsFirstMatch(e, x.key) /\ AnswerActCon(e, negative)
    BY <1>7
  <2> DEFINE f == sendActCon(e, negative)
  <2>2. /\ outstanding' = (outstanding \ {e}) \union (IF e.select THEN {} ELSE {f})
        /\ answers' = [answers EXCEPT ![e.seq] = Append(@, "con")]
    BY <2>1 DEF AnswerActCon, Answer
  <2>3. /\ e \in Entries /\ e.key = x.key /\ e.seq \in Commands
        /\ issued[e.seq].select = e.select
        /\ \A g \in outstanding : g.seq = e.seq => g = e
    BY <2>1, CPFacts DEF IsFirstMatch, isMatching, Entries
  <2>4. f \in Entries /\ f.seq = e.seq /\ f.key = e.key
    BY <2>3, SendActConKeepsIdentity
  <2>5. ~negative /\ ~e.select => f.state = 2
    BY <2>3 DEF sendActCon, Entries
  <2> HIDE DEF f
  <2>6. \A h \in outstanding' : (h \in outstanding /\ h # e) \/ (h = f /\ ~e.select)
    BY <2>2
  <2>7. /\ CPTypes' /\ SouthKnowsIssued' /\ CleanKeysAreSingle'
        /\ \A c \in Conns, k \in Keys : Adding(c, k)' <=> Adding(c, k)
    <3>1. \A h \in outstanding' : \E g \in outstanding : g.seq = h.seq /\ g.key = h.key
      BY <2>4, <2>6
    <3> QED BY <1>1, <1>3, <1>5, <3>1, SouthForgets
  <2>8. answers \in [Commands -> Seq(Answers)]
    BY DEF CPInv, OCInv, OCTypeOK
  <2>9. CleanKeysAreInStep'
    <3> SUFFICES ASSUME NEW h \in outstanding', clean[h.key]
                 PROVE  /\ (\E c \in Conns : Adding(c, h.key))
                              => h.state = 1 /\ answers'[h.seq] = <<>>
                        /\ \A z \in south' : z.key = h.key =>
                              /\ z.next = "con" => h.state = 1 /\ answers'[h.seq] = <<>>
                              /\ z.next = "term" => h.state = 2 /\ answers'[h.seq] = <<"con">>
      <4>1. \A h \in outstanding' : h.key \in Keys
        BY <1>4 DEF OCInv, OCTypeOK, Entries
      <4> QED BY <4>1, <1>1, <2>7 DEF CleanKeysAreInStep
    <3>1. CASE h.key # x.key
      <4>1. h \in outstanding /\ h # e /\ h.seq # e.seq /\ h.seq \in Commands
        BY <3>1, <2>3, <2>4, <2>6, CPFacts DEF Entries
      <4>2. answers'[h.seq] = answers[h.seq]
        BY <4>1, <2>2, <2>8
      <4> QED BY <3>1, <4>1, <4>2, <1>1, <1>3 DEF CPInv, CleanKeysAreInStep
    <3>2. CASE h.key = x.key
      <4>1. e.seq = x.seq /\ answers[e.seq] = <<>>
        BY <1>1, <2>1, <3>2, MatchIsIt
      <4>2. /\ \A c \in Conns : ~Adding(c, h.key)
            /\ \A z \in south : z.key = h.key => z = x
        BY <3>2, <1>2, OnlySouthKnows
      <4>3. h = f /\ ~e.select
        <5>1. ASSUME h \in outstanding PROVE h.seq = x.seq
          <6>1. h.seq \in Refs(x.key) /\ x.seq \in Refs(x.key)
            BY <5>1, <3>2 DEF Refs
          <6> QED BY <6>1, <3>2, <1>2 DEF CPInv, CleanKeysAreSingle
        <5> QED BY <5>1, <4>1, <2>3, <2>6
      <4>4. answers'[h.seq] = <<"con">>
        BY <4>1, <4>3, <2>2, <2>3, <2>4, <2>8
      <4>5. \A z \in south' : z.key = h.key => z = y /\ ~negative
        BY <4>2, <1>1
      <4> QED BY <4>2, <4>3, <4>4, <4>5, <1>3, <2>5
    <3> QED BY <3>1, <3>2
  <2> QED BY <1>4, <2>7, <2>9 DEF CPInv
<1> QED BY <1>1, <1>6, <1>7 DEF handleActCon

\* ACT-TERM: entry and south side forget the command together.
LEMMA FeedbackActTermInv ==
    ASSUME CPInv, NEW x \in south, FeedbackActTerm(x)
    PROVE  CPInv'
<1>1. /\ handleActTerm(x.key) /\ south' = south \ {x} /\ UNCHANGED <<handler, clean>>
  BY DEF FeedbackActTerm
<1>2. /\ x \in [seq : Commands, key : Keys, next : {"con", "term"}]
      /\ x.key \in Keys
  BY DEF CPInv, CPTypes
<1>3. OCInv'
  BY <1>1, <1>2, ActTermInv DEF CPInv
<1>4. /\ UNCHANGED <<nextSeq, issued>> /\ outstanding' \subseteq outstanding
      /\ \A e \in outstanding' : answers'[e.seq] = answers[e.seq]
  <2>1. CASE UNCHANGED ocVars
    BY <2>1 DEF ocVars
  <2>2. CASE \E e \in outstanding : AnswerActTerm(e)
    <3>1. PICK e \in outstanding : AnswerActTerm(e)
      BY <2>2
    <3>2. \A g \in outstanding : g.seq \in Commands /\ (g.seq = e.seq => g = e)
      BY CPFacts DEF Entries
    <3>3. answers \in [Commands -> Seq(Answers)]
      BY DEF CPInv, OCInv, OCTypeOK
    <3> QED BY <3>1, <3>2, <3>3 DEF AnswerActTerm, Answer
  <2> QED BY <1>1, <2>1, <2>2 DEF handleActTerm
<1>5. /\ CPTypes' /\ SouthKnowsIssued' /\ CleanKeysAreSingle'
      /\ \A c \in Conns, k \in Keys : Adding(c, k)' <=> Adding(c, k)
  BY <1>1, <1>2, <1>4, SouthForgets
<1>6. CleanKeysAreInStep'
  <2>1. \A e \in outstanding : e.key \in Keys
    BY CPFacts
  <2> QED BY <2>1, <1>1, <1>4, <1>5 DEF CPInv, CleanKeysAreInStep
<1> QED BY <1>3, <1>5, <1>6 DEF CPInv

\* Feedback that never comes.
LEMMA FeedbackLostInv ==
    ASSUME CPInv, NEW x \in south, FeedbackLost(x)
    PROVE  CPInv'
<1>1. /\ south' = south \ {x}
      /\ UNCHANGED <<outstanding, nextSeq, issued, answers, handler, clean>>
  BY DEF FeedbackLost, ocVars
<1>2. x \in [seq : Commands, key : Keys, next : {"con", "term"}]
  BY DEF CPInv, CPTypes
<1>3. OCInv'
  BY <1>1, EraseInv DEF CPInv
<1>4. /\ CPTypes' /\ SouthKnowsIssued' /\ CleanKeysAreSingle'
      /\ \A c \in Conns, k \in Keys : Adding(c, k)' <=> Adding(c, k)
  BY <1>1, <1>2, SouthForgets
<1>5. CleanKeysAreInStep'
  <2>1. \A e \in outstanding : e.key \in Keys
    BY CPFacts
  <2> QED BY <2>1, <1>1, <1>4 DEF CPInv, CleanKeysAreInStep
<1> QED BY <1>3, <1>4, <1>5 DEF CPInv

\* The clock changes nothing the argument looks at.
LEMMA ClockTickInv ==
    ASSUME CPInv, ClockTick
    PROVE  CPInv'
<1> DEFINE T(e) == [e EXCEPT !.left = IF @ >= 0 THEN @ - 1 ELSE -1]
<1>1. /\ outstanding' = {T(e) : e \in outstanding}
      /\ UNCHANGED <<nextSeq, issued, answers, handler, south, clean>>
  BY DEF ClockTick, Tick, cpVars
<1>2. OCInv'
  BY TickInv DEF CPInv, ClockTick
<1>3. \A e \in outstanding : T(e).seq = e.seq /\ T(e).key = e.key /\ T(e).state = e.state
  BY DEF CPInv, OCInv, OCTypeOK, Entries
<1> HIDE DEF T
<1>4. CPTypes' /\ SouthKnowsIssued'
  BY <1>1 DEF CPInv, CPTypes, SouthKnowsIssued
<1>5. \A key \in Keys : Refs(key)' \subseteq Refs(key)
  BY <1>1, <1>3 DEF Refs, Adding
<1>6. CleanKeysAreSingle'
  BY <1>1, <1>5, SingleKept DEF CPInv
<1>7. CleanKeysAreInStep'
  BY <1>1, <1>3 DEF CPInv, CleanKeysAreInStep, Adding
<1> QED BY <1>2, <1>4, <1>6, <1>7 DEF CPInv

\* A connection event erases the commands of one connection or none.
LEMMA DropCommandsInv ==
    ASSUME CPInv, NEW c \in Conns, DropCommands(c), UNCHANGED <<handler, south, clean>>
    PROVE  CPInv'
  BY EraseCPInv DEF DropCommands, removeOutstandingCommands, Erase, ocVars

-----------------------------------------------------------------------------

\* Every step keeps the invariant.
LEMMA CPNextInv == CPInv /\ [Next]_vars => CPInv'
<1> SUFFICES ASSUME CPInv, [Next]_vars PROVE CPInv'
  OBVIOUS
<1>1. CASE UNCHANGED <<ocVars, handler, south, clean>>
  BY <1>1, EraseCPInv DEF ocVars
<1>2. CASE Start
  BY <1>1, <1>2 DEF Start, cpVars
<1>3. ASSUME NEW c \in Conns, AsduHandler(c) PROVE CPInv'
  <2>1. CASE validateCommand(c)
    BY <2>1, HandlerCPInv, MaxCmdsAssumption DEF validateCommand, HandlerPcs
  <2>2. CASE ForwardAdd(c)
    BY <2>2, ForwardAddInv
  <2>3. CASE OperationAccepted(c)
    BY <2>3, AcceptedInv
  <2>4. handler[c].seq \in 0 .. MaxCmds
    BY DEF CPInv, CPTypes
  <2>5. CASE OperationFailed(c)
    BY <2>4, <2>5, HandlerCPInv DEF OperationFailed, HandlerPcs
  <2>6. CASE SendNegativeResponse(c)
    BY <2>6, HandlerCPInv, MaxCmdsAssumption DEF SendNegativeResponse, HandlerPcs
  <2> QED BY <1>3, <2>1, <2>2, <2>3, <2>5, <2>6 DEF AsduHandler
<1>4. ASSUME NEW c \in Conns, ConnectionEvent(c) PROVE CPInv'
  <2>1. CASE Open(c)
    BY <2>1, <1>1 DEF Open, cpVars
  <2>2. CASE Close(c)
    BY <2>2, DropCommandsInv DEF Close, cpVars
  <2>3. CASE RequestStart(c)
    BY <2>3, <1>1 DEF RequestStart, cpVars
  <2>4. CASE Activate(c)
    BY <2>4, <1>1 DEF Activate, cpVars
  <2>5. CASE RequestStop(c)
    BY <2>5, DropCommandsInv DEF RequestStop, cpVars
  <2>6. CASE \E d \in Conns : TakeOver(c, d)
    BY <2>6, DropCommandsInv DEF TakeOver, cpVars
  <2> QED BY <1>4, <2>1, <2>2, <2>3, <2>4, <2>5, <2>6 DEF ConnectionEvent
<1>5. CASE Feedback
  BY <1>5, FeedbackActConInv, FeedbackActTermInv, FeedbackLostInv DEF Feedback
<1>6. CASE Monitor
  BY <1>6, EraseCPInv DEF Monitor, removeTimedOutCommands, Erase, cpVars
<1>7. CASE ClockTick
  BY <1>7, ClockTickInv
<1>8. CASE UNCHANGED vars
  BY <1>8, <1>1 DEF vars, cpVars
<1> QED BY <1>2, <1>3, <1>4, <1>5, <1>6, <1>7, <1>8 DEF Next

\* Only feedback answers a command: the south side's command x leaves the state
\* it was in and the first match of its key is answered.
LEMMA OnlyFeedbackAnswers ==
    ASSUME CPInv, [Next]_vars, NEW n \in Commands, answers'[n] # answers[n]
    PROVE  \E x \in south, e \in outstanding :
              /\ IsFirstMatch(e, x.key) /\ e.seq = n
              /\ \A z \in south \ south' : z = x
              /\ \/ x.next = "con" /\ answers'[n] = Append(answers[n], "con")
                 \/ x.next = "term" /\ answers'[n] = Append(answers[n], "term")
<1>1. answers' # answers
  OBVIOUS
<1>2. CASE \E x \in south, negative \in BOOLEAN : FeedbackActCon(x, negative)
  <2>1. PICK x \in south, negative \in BOOLEAN : FeedbackActCon(x, negative)
    BY <1>2
  <2>2. PICK e \in outstanding : IsFirstMatch(e, x.key) /\ AnswerActCon(e, negative)
    BY <1>1, <2>1 DEF FeedbackActCon, handleActCon, ocVars
  <2>3. answers \in [Commands -> Seq(Answers)] /\ e.seq \in Commands
    BY CPFacts DEF CPInv, OCInv, OCTypeOK, Entries
  <2>4. e.seq = n /\ answers'[n] = Append(answers[n], "con")
    BY <2>2, <2>3 DEF AnswerActCon, Answer
  <2> QED BY <2>1, <2>2, <2>4 DEF FeedbackActCon
<1>3. CASE \E x \in south : FeedbackActTerm(x)
  <2>1. PICK x \in south : FeedbackActTerm(x)
    BY <1>3
  <2>2. PICK e \in outstanding : IsFirstMatch(e, x.key) /\ AnswerActTerm(e)
    BY <1>1, <2>1 DEF FeedbackActTerm, handleActTerm, ocVars
  <2>3. answers \in [Commands -> Seq(Answers)] /\ e.seq \in Commands
    BY CPFacts DEF CPInv, OCInv, OCTypeOK, Entries
  <2>4. e.seq = n /\ answers'[n] = Append(answers[n], "term")
    BY <2>2, <2>3 DEF AnswerActTerm, Answer
  <2> QED BY <2>1, <2>2, <2>4 DEF FeedbackActTerm
<1>4. CASE \E x \in south : FeedbackLost(x)
  BY <1>1, <1>4 DEF FeedbackLost, ocVars
<1>5. CASE \E c \in Conns : AsduHandler(c)
  BY <1>1, <1>5 DEF AsduHandler, validateCommand, ForwardAdd, addToOutstandingCommands,
                    OperationAccepted, OperationFailed, SendNegativeResponse, ocVars
<1>6. CASE \E c \in Conns : ConnectionEvent(c)
  BY <1>1, <1>6 DEF ConnectionEvent, Open, Close, RequestStart, Activate, RequestStop,
                    TakeOver, DropCommands, removeOutstandingCommands, Erase, ocVars
<1>7. CASE Start \/ Monitor \/ ClockTick \/ UNCHANGED vars
  BY <1>1, <1>7 DEF Start, Monitor, ClockTick, removeTimedOutCommands, Erase, Tick, vars, ocVars
<1> QED BY <1>2, <1>3, <1>4, <1>5, <1>6, <1>7 DEF Next, Feedback

\* What the two action properties say of one step.
RoutedRight ==
    \A x \in south \ south', n \in Commands :
        clean[x.key] /\ answers'[n] # answers[n] => n = x.seq

InOrder ==
    \A e \in outstanding :
        clean[e.key] /\ answers'[e.seq] = Append(answers[e.seq], "term")
            => e.state = 2 /\ answers[e.seq] = <<"con">>

LEMMA RoutesRight == ASSUME CPInv, [Next]_vars PROVE RoutedRight
<1> SUFFICES ASSUME NEW x \in south \ south', NEW n \in Commands,
                    clean[x.key], answers'[n] # answers[n]
             PROVE  n = x.seq
  BY DEF RoutedRight
<1>1. PICK y \in south, e \in outstanding :
         IsFirstMatch(e, y.key) /\ e.seq = n /\ y = x
  BY OnlyFeedbackAnswers
<1> QED BY <1>1, MatchIsIt

LEMMA KeepsOrder == ASSUME CPInv, [Next]_vars PROVE InOrder
<1> SUFFICES ASSUME NEW e \in outstanding, clean[e.key],
                    answers'[e.seq] = Append(answers[e.seq], "term")
             PROVE  e.state = 2 /\ answers[e.seq] = <<"con">>
  BY DEF InOrder
<1>1. /\ e.seq \in Commands /\ answers[e.seq] \in Seq(Answers)
      /\ \A f \in outstanding : f.seq = e.seq => f = e
  <2>1. OCInv /\ e \in outstanding
    BY DEF CPInv
  <2>2. e.seq \in Commands /\ answers[e.seq] \in Seq(Answers)
    BY <2>1, EntryFacts
  <2>3. \A f \in outstanding : f.seq = e.seq => f = e
    BY <2>1 DEF OCInv, EntryKeepsItsRequest
  <2> QED BY <2>2, <2>3
<1>2. answers'[e.seq] # answers[e.seq]
  BY <1>1 DEF Answers
<1>3. PICK x \in south, f \in outstanding :
         /\ IsFirstMatch(f, x.key) /\ f.seq = e.seq
         /\ \/ x.next = "con" /\ answers'[e.seq] = Append(answers[e.seq], "con")
            \/ x.next = "term" /\ answers'[e.seq] = Append(answers[e.seq], "term")
  BY <1>1, <1>2, OnlyFeedbackAnswers
<1>4. f = e /\ x.key = e.key
  BY <1>1, <1>3 DEF IsFirstMatch, isMatching
<1>5. x.next = "term"
  <2>1. Append(answers[e.seq], "con") # Append(answers[e.seq], "term")
    <3>1. /\ Append(answers[e.seq], "con")[Len(answers[e.seq]) + 1] = "con"
          /\ Append(answers[e.seq], "term")[Len(answers[e.seq]) + 1] = "term"
      BY <1>1 DEF Answers
    <3> QED BY <3>1
  <2> QED BY <1>3, <2>1
<1> QED BY <1>3, <1>4, <1>5, MatchIsIt

\* Feedback reaches the command it is about, for any number of clients and
\* commands, whenever the key was idle when it was last commanded.
THEOREM FeedbackIsRoutedRight == Spec => FeedbackReachesItsCommand
<1>1. CPInv /\ [Next]_vars => [RoutedRight]_vars
  BY RoutesRight
<1> QED BY <1>1, CPInitInv, CPNextInv, PTL DEF Spec, FeedbackReachesItsCommand, RoutedRight

\* A client that commands idle keys is never sent an ACT-TERM out of order.
THEOREM AnswersComeInOrder == Spec => ActTermFollowsActCon
<1>1. CPInv /\ [Next]_vars => [InOrder]_vars
  BY KeepsOrder
<1> QED BY <1>1, CPInitInv, CPNextInv, PTL DEF Spec, ActTermFollowsActCon, InOrder

\* With the threads of the plugin around it, too, the list sends nothing for a
\* command after its ACT-TERM.
THEOREM ActTermIsFinalInPath == Spec => []ActTermIsFinal
<1>1. CPInv => ActTermIsFinal
  BY DEF CPInv, OCInv
<1> QED BY <1>1, CPInitInv, CPNextInv, PTL DEF Spec

-----------------------------------------------------------------------------
(* The refinement of CommandDialogue *)

\* The handler on connection c still holds command n.
Holding(c, n) == handler[c].pc \in {"added", "failed"} /\ handler[c].seq = n

\* A command that a handler holds is its own, it was not refused yet, and
\* neither it nor a refused command is known to the south side.
RefusedStayUnknown ==
    /\ refused \subseteq 1 .. nextSeq - 1
    /\ \A x \in south : x.seq \notin refused
    /\ \A c \in Conns, n \in Nat : Holding(c, n) =>
          /\ n \in 1 .. nextSeq - 1 /\ n \notin refused
          /\ issued[n].conn = c
          /\ \A x \in south : x.seq # n

\* Feedback does not touch the entry of such a command on a clean key.
RefusedStayUnanswered ==
    \A e \in outstanding :
        /\ clean[e.key]
        /\ e.seq \in refused \/ \E c \in Conns : Holding(c, e.seq)
        => e.state = 1

\* The inductive invariant.
DialogueInv == CPInv /\ RefusedStayUnknown /\ RefusedStayUnanswered

-----------------------------------------------------------------------------

\* A step that leaves the handlers alone, adds nothing to the list or to the
\* south side, and changes the state of an entry only for a busy key or for a
\* command the south side knew, keeps the invariant.
LEMMA ForgetfulStep ==
    ASSUME DialogueInv, CPInv',
           UNCHANGED <<handler, refused, issued, nextSeq, clean>>,
           \A x \in south' : \E y \in south : y.seq = x.seq,
           \A h \in outstanding' : \E g \in outstanding :
               /\ g.seq = h.seq /\ g.key = h.key
               /\ \/ g.state = h.state
                  \/ ~clean[h.key]
                  \/ \E x \in south : x.seq = g.seq
    PROVE  DialogueInv'
<1>1. \A c \in Conns, n \in Nat : Holding(c, n)' <=> Holding(c, n)
  BY DEF Holding
<1>2. RefusedStayUnknown'
  BY <1>1 DEF DialogueInv, RefusedStayUnknown
<1>3. \A g \in outstanding : g.seq \in Nat
  BY CPFacts DEF DialogueInv
<1>4. RefusedStayUnanswered'
  <2> SUFFICES ASSUME NEW h \in outstanding', clean[h.key],
                      h.seq \in refused \/ \E c \in Conns : Holding(c, h.seq)'
               PROVE  h.state = 1
    BY DEF RefusedStayUnanswered
  <2>1. PICK g \in outstanding :
            /\ g.seq = h.seq /\ g.key = h.key
            /\ g.state = h.state \/ ~clean[h.key] \/ \E x \in south : x.seq = g.seq
    OBVIOUS
  <2>2. g.seq \in refused \/ \E c \in Conns : Holding(c, g.seq)
    BY <1>1, <1>3, <2>1
  <2>3. ~\E x \in south : x.seq = g.seq
    BY <1>3, <2>2 DEF DialogueInv, RefusedStayUnknown
  <2> QED BY <2>1, <2>2, <2>3 DEF DialogueInv, RefusedStayUnanswered
<1> QED BY <1>2, <1>4 DEF DialogueInv

\* asduHandler before forwardCommand: nothing is held.
LEMMA ValidateDialogueInv ==
    ASSUME DialogueInv, CPInv', NEW c \in Conns, validateCommand(c)
    PROVE  DialogueInv'
<1>1. /\ handler[c].pc = "idle" /\ handler' = [handler EXCEPT ![c] = [pc |-> "accepted", seq |-> 0]]
      /\ UNCHANGED <<outstanding, nextSeq, issued, south, refused, clean>>
  BY DEF validateCommand, AtPc, ocVars
<1>2. \A d \in Conns, n \in Nat : Holding(d, n)' <=> Holding(d, n)
  BY <1>1 DEF Holding, DialogueInv, CPInv, CPTypes
<1>3. \A e \in outstanding : e.seq \in Nat
  BY CPFacts DEF DialogueInv
<1>4. RefusedStayUnknown'
  BY <1>1, <1>2 DEF DialogueInv, RefusedStayUnknown
<1>5. RefusedStayUnanswered'
  BY <1>1, <1>2, <1>3 DEF DialogueInv, RefusedStayUnanswered
<1> QED BY <1>4, <1>5 DEF DialogueInv

\* The new command has a number that was neither refused nor given to anyone.
LEMMA AddDialogueInv ==
    ASSUME DialogueInv, CPInv', NEW c \in Conns, ForwardAdd(c)
    PROVE  DialogueInv'
<1>1. PICK key \in Keys, select \in BOOLEAN :
         /\ addToOutstandingCommands(key, c, select)
         /\ clean' = [clean EXCEPT ![key] = KeyIdle(key)]
  BY DEF ForwardAdd
<1> DEFINE e == OutstandingCommand(nextSeq, key, c, select)
           r == [key |-> key, conn |-> c, select |-> select]
<1>2. /\ nextSeq \in Commands /\ nextSeq' = nextSeq + 1
      /\ outstanding' = outstanding \union {e} /\ issued' = Append(issued, r)
      /\ handler' = [handler EXCEPT ![c] = [pc |-> "added", seq |-> nextSeq]]
      /\ handler[c].pc = "accepted"
      /\ UNCHANGED <<south, refused>>
  BY <1>1 DEF ForwardAdd, AtPc, addToOutstandingCommands
<1>3. e.seq = nextSeq /\ e.key = key /\ e.state = 1 /\ r.conn = c
  BY DEF OutstandingCommand
<1>4. /\ nextSeq \in Nat /\ issued \in Seq(Requests) /\ Len(issued) = nextSeq - 1
      /\ \A f \in outstanding : f.seq \in 1 .. nextSeq - 1 /\ f.key \in Keys
  BY CPFacts DEF DialogueInv
<1>5. r \in Requests
  BY DEF Requests
<1>6. (\A n \in 1 .. nextSeq - 1 : issued'[n] = issued[n]) /\ issued'[nextSeq].conn = c
  BY <1>2, <1>3, <1>4, <1>5
<1> HIDE DEF e, r
<1>7. \A d \in Conns, n \in Nat :
         Holding(d, n)' <=> (d # c /\ Holding(d, n)) \/ (d = c /\ n = nextSeq)
  BY <1>2 DEF Holding, DialogueInv, CPInv, CPTypes
<1>8. RefusedStayUnknown'
  <2>1. \A x \in south : x.seq \in 1 .. nextSeq - 1
    BY DEF DialogueInv, CPInv, SouthKnowsIssued
  <2>2. refused \subseteq 1 .. nextSeq - 1 /\ \A x \in south : x.seq \notin refused
    BY DEF DialogueInv, RefusedStayUnknown
  <2>3. ASSUME NEW d \in Conns, NEW n \in Nat, Holding(d, n)'
        PROVE  /\ n \in 1 .. nextSeq /\ n \notin refused
               /\ issued'[n].conn = d
               /\ \A x \in south : x.seq # n
    <3>1. CASE d = c
      BY <3>1, <2>1, <2>2, <2>3, <1>4, <1>6, <1>7
    <3>2. CASE d # c
      <4>1. Holding(d, n)
        BY <3>2, <2>3, <1>7
      <4>2. /\ n \in 1 .. nextSeq - 1 /\ n \notin refused /\ issued[n].conn = d
            /\ \A x \in south : x.seq # n
        BY <4>1 DEF DialogueInv, RefusedStayUnknown
      <4> QED BY <4>2, <1>4, <1>6
    <3> QED BY <3>1, <3>2
  <2> QED BY <2>2, <2>3, <1>2, <1>4 DEF RefusedStayUnknown
<1>9. RefusedStayUnanswered'
  <2> SUFFICES ASSUME NEW f \in outstanding', clean'[f.key],
                      f.seq \in refused \/ \E d \in Conns : Holding(d, f.seq)'
               PROVE  f.state = 1
    BY <1>2 DEF RefusedStayUnanswered
  <2>1. CASE f = e
    BY <2>1, <1>3
  <2>2. CASE f # e
    <3>1. f \in outstanding /\ f.seq # nextSeq /\ f.seq \in Nat /\ f.key \in Keys
      BY <2>2, <1>2, <1>4
    <3>2. clean[f.key]
      BY <3>1, <1>1 DEF KeyIdle, DialogueInv, CPInv, CPTypes
    <3>3. f.seq \in refused \/ \E d \in Conns : Holding(d, f.seq)
      BY <3>1, <1>7
    <3> QED BY <3>1, <3>2, <3>3 DEF DialogueInv, RefusedStayUnanswered
  <2> QED BY <2>1, <2>2
<1> QED BY <1>8, <1>9 DEF DialogueInv

\* The handler hands its command over and holds it no longer.
LEMMA AcceptedDialogueInv ==
    ASSUME DialogueInv, CPInv', NEW c \in Conns, OperationAccepted(c)
    PROVE  DialogueInv'
<1> DEFINE n == handler[c].seq
           x0 == [seq |-> n, key |-> issued[n].key, next |-> "con"]
<1>1. /\ handler[c].pc = "added" /\ south' = south \union {x0}
      /\ handler' = [handler EXCEPT ![c] = [pc |-> "idle", seq |-> 0]]
      /\ UNCHANGED <<outstanding, nextSeq, issued, refused, clean>>
  BY DEF OperationAccepted, AtPc, ocVars
<1>2. x0.seq = n /\ n \in Nat /\ Holding(c, n)
  BY <1>1, MaxCmdsAssumption DEF Holding, DialogueInv, CPInv, CPTypes
<1> HIDE DEF x0, n
<1>3. \A d \in Conns, m \in Nat : Holding(d, m)' <=> d # c /\ Holding(d, m)
  BY <1>1 DEF Holding, DialogueInv, CPInv, CPTypes
<1>4. RefusedStayUnknown'
  BY <1>1, <1>2, <1>3 DEF DialogueInv, RefusedStayUnknown
<1>5. \A e \in outstanding : e.seq \in Nat
  BY CPFacts DEF DialogueInv
<1>6. RefusedStayUnanswered'
  BY <1>1, <1>3, <1>5 DEF DialogueInv, RefusedStayUnanswered
<1> QED BY <1>4, <1>6 DEF DialogueInv

\* The operation failed: the handler goes on holding its command.
LEMMA FailedDialogueInv ==
    ASSUME DialogueInv, CPInv', NEW c \in Conns, OperationFailed(c)
    PROVE  DialogueInv'
<1>1. /\ handler[c].pc = "added"
      /\ handler' = [handler EXCEPT ![c] = [pc |-> "failed", seq |-> handler[c].seq]]
      /\ UNCHANGED <<outstanding, nextSeq, issued, south, refused, clean>>
  BY DEF OperationFailed, AtPc, ocVars
<1>2. \A d \in Conns, n \in Nat : Holding(d, n)' <=> Holding(d, n)
  BY <1>1 DEF Holding, DialogueInv, CPInv, CPTypes
<1>3. \A e \in outstanding : e.seq \in Nat
  BY CPFacts DEF DialogueInv
<1>4. RefusedStayUnknown'
  BY <1>1, <1>2 DEF DialogueInv, RefusedStayUnknown
<1>5. RefusedStayUnanswered'
  BY <1>1, <1>2, <1>3 DEF DialogueInv, RefusedStayUnanswered
<1> QED BY <1>4, <1>5 DEF DialogueInv

\* The refused command was held by this handler alone.
LEMMA RefusedDialogueInv ==
    ASSUME DialogueInv, CPInv', NEW c \in Conns, SendNegativeResponse(c)
    PROVE  DialogueInv'
<1> DEFINE n == handler[c].seq
<1>1. /\ handler[c].pc = "failed" /\ refused' = refused \union {n}
      /\ handler' = [handler EXCEPT ![c] = [pc |-> "idle", seq |-> 0]]
      /\ UNCHANGED <<outstanding, nextSeq, issued, south, clean>>
  BY DEF SendNegativeResponse, AtPc, ocVars
<1>2. n \in Nat /\ Holding(c, n)
  BY <1>1, MaxCmdsAssumption DEF Holding, DialogueInv, CPInv, CPTypes
<1> HIDE DEF n
<1>3. \A d \in Conns, m \in Nat : Holding(d, m)' <=> d # c /\ Holding(d, m)
  BY <1>1 DEF Holding, DialogueInv, CPInv, CPTypes
<1>4. RefusedStayUnknown'
  BY <1>1, <1>2, <1>3 DEF DialogueInv, RefusedStayUnknown
<1>5. \A e \in outstanding : e.seq \in Nat
  BY CPFacts DEF DialogueInv
<1>6. RefusedStayUnanswered'
  BY <1>1, <1>2, <1>3, <1>5 DEF DialogueInv, RefusedStayUnanswered
<1> QED BY <1>4, <1>6 DEF DialogueInv


\* Feedback changes at most the entry of a command the south side knew, or
\* one for a busy key.
LEMMA FeedbackDialogueInv ==
    ASSUME DialogueInv, CPInv', Feedback
    PROVE  DialogueInv'
<1>1. CPInv
  BY DEF DialogueInv
<1>2. ASSUME NEW x \in south, NEW negative \in BOOLEAN, FeedbackActCon(x, negative)
      PROVE  DialogueInv'
  <2>1. /\ handleActCon(x.key, negative)
        /\ UNCHANGED <<handler, refused, clean>>
        /\ \A z \in south' : \E y \in south : y.seq = z.seq
    <3>1. [x EXCEPT !.next = "term"].seq = x.seq
      BY <1>1 DEF CPInv, CPTypes
    <3> QED BY <1>2, <3>1 DEF FeedbackActCon
  <2>2. CASE UNCHANGED ocVars
    BY <2>1, <2>2, ForgetfulStep DEF ocVars
  <2>3. CASE \E e \in outstanding : IsFirstMatch(e, x.key) /\ AnswerActCon(e, negative)
    <3>1. PICK e \in outstanding : IsFirstMatch(e, x.key) /\ AnswerActCon(e, negative)
      BY <2>3
    <3>2. e \in Entries /\ e.key = x.key
      BY <1>1, <3>1, CPFacts DEF IsFirstMatch, isMatching
    <3>3. sendActCon(e, negative).seq = e.seq /\ sendActCon(e, negative).key = e.key
      BY <3>2, SendActConKeepsIdentity
    <3>4. ~clean[e.key] \/ x.seq = e.seq
      BY <1>1, <3>1, <3>2, MatchIsIt
    <3>5. /\ UNCHANGED <<nextSeq, issued>>
          /\ \A h \in outstanding' : h \in outstanding \/ h = sendActCon(e, negative)
      BY <3>1 DEF AnswerActCon
    <3> QED BY <2>1, <3>3, <3>4, <3>5, ForgetfulStep
  <2> QED BY <2>1, <2>2, <2>3 DEF handleActCon
<1>3. ASSUME NEW x \in south, FeedbackActTerm(x) PROVE DialogueInv'
  <2>1. /\ UNCHANGED <<handler, refused, clean, nextSeq, issued>>
        /\ outstanding' \subseteq outstanding /\ south' \subseteq south
    BY <1>3 DEF FeedbackActTerm, handleActTerm, AnswerActTerm, ocVars
  <2> QED BY <2>1, ForgetfulStep
<1>4. ASSUME NEW x \in south, FeedbackLost(x) PROVE DialogueInv'
  BY <1>4, ForgetfulStep DEF FeedbackLost, ocVars
<1> QED BY <1>2, <1>3, <1>4 DEF Feedback

\* Connection events and the monitoring thread erase entries or leave them.
LEMMA EraseDialogueInv ==
    ASSUME DialogueInv, CPInv', outstanding' \subseteq outstanding,
           UNCHANGED <<handler, refused, issued, nextSeq, clean, south>>
    PROVE  DialogueInv'
  BY ForgetfulStep

\* The steps of the connections, the monitoring thread and the environment that
\* erase entries silently, or leave list and answers as they are.
LEMMA SilentSteps ==
    ASSUME \/ Start \/ Monitor \/ UNCHANGED vars
           \/ \E c \in Conns : ConnectionEvent(c)
    PROVE  /\ outstanding' \subseteq outstanding
           /\ UNCHANGED <<handler, refused, issued, nextSeq, clean, south, answers>>
<1>1. CASE Start \/ Monitor \/ UNCHANGED vars
  BY <1>1 DEF Start, Monitor, removeTimedOutCommands, Erase, vars, ocVars, cpVars
<1>2. ASSUME NEW c \in Conns, ConnectionEvent(c)
      PROVE  /\ outstanding' \subseteq outstanding
             /\ UNCHANGED <<handler, refused, issued, nextSeq, clean, south, answers>>
  <2>1. \A d \in Conns : DropCommands(d) =>
           outstanding' \subseteq outstanding /\ UNCHANGED <<issued, nextSeq, answers>>
    BY DEF DropCommands, removeOutstandingCommands, Erase, ocVars
  <2> QED BY <1>2, <2>1 DEF ConnectionEvent, Open, Close, RequestStart, TakeOver,
                            Activate, RequestStop, ocVars, cpVars
<1> QED BY <1>1, <1>2

\* Every step keeps the invariant.
LEMMA DialogueNextInv == DialogueInv /\ [Next]_vars => DialogueInv'
<1> SUFFICES ASSUME DialogueInv, [Next]_vars PROVE DialogueInv'
  OBVIOUS
<1>1. CPInv'
  BY CPNextInv DEF DialogueInv
<1>2. CASE Start \/ Monitor \/ UNCHANGED vars \/ \E c \in Conns : ConnectionEvent(c)
  BY <1>1, <1>2, SilentSteps, EraseDialogueInv
<1>3. ASSUME NEW c \in Conns, AsduHandler(c) PROVE DialogueInv'
  BY <1>1, <1>3, ValidateDialogueInv, AddDialogueInv, AcceptedDialogueInv,
     FailedDialogueInv, RefusedDialogueInv DEF AsduHandler
<1>4. CASE Feedback
  BY <1>1, <1>4, FeedbackDialogueInv
<1>5. CASE ClockTick
  <2> DEFINE T(e) == [e EXCEPT !.left = IF @ >= 0 THEN @ - 1 ELSE -1]
  <2>1. /\ outstanding' = {T(e) : e \in outstanding}
        /\ UNCHANGED <<nextSeq, issued, handler, south, clean, refused>>
    BY <1>5 DEF ClockTick, Tick, cpVars
  <2>2. \A e \in outstanding : T(e).seq = e.seq /\ T(e).key = e.key /\ T(e).state = e.state
    BY CPFacts DEF DialogueInv, Entries
  <2> HIDE DEF T
  <2> QED BY <1>1, <2>1, <2>2, ForgetfulStep
<1> QED BY <1>2, <1>3, <1>4, <1>5 DEF Next

\* The initial state satisfies the invariant.
LEMMA DialogueInitInv == Init => DialogueInv
  BY CPInitInv, MaxCmdsAssumption
  DEF Init, OCInit, DialogueInv, RefusedStayUnknown, RefusedStayUnanswered, Holding

-----------------------------------------------------------------------------

\* The phase of a command is that of its entry while it has one.
PhasesFollowEntries ==
    /\ \A e \in outstanding : PhaseOf(e.seq) = PhaseOfEntry(e)
    /\ \A n \in 1 .. nextSeq - 1 : (\A e \in outstanding : e.seq # n) => PhaseOf(n) = "ended"
    /\ \A n \in Commands : n >= nextSeq => PhaseOf(n) = "unsent"

LEMMA PhaseFacts == CPInv => PhasesFollowEntries
<1> SUFFICES ASSUME CPInv PROVE PhasesFollowEntries
  OBVIOUS
<1>1. ASSUME NEW e \in outstanding PROVE PhaseOf(e.seq) = PhaseOfEntry(e)
  <2>1. nextSeq \in Nat /\ e.seq \in 1 .. nextSeq - 1 /\ \A f \in outstanding : f.seq = e.seq => f = e
    BY CPFacts
  <2>2. (CHOOSE f \in outstanding : f.seq = e.seq) = e
    BY <2>1
  <2>3. ~(e.seq >= nextSeq)
    BY <2>1
  <2> QED BY <2>2, <2>3 DEF PhaseOf
<1>2. nextSeq \in Nat
  BY CPFacts
<1> QED BY <1>1, <1>2 DEF PhasesFollowEntries, PhaseOf

LEMMA PhaseFactsNext == CPInv' => PhasesFollowEntries'
  BY PhaseFacts, PTL

\* No other phase changes when the entry of one command does.
LEMMA OtherPhases ==
    ASSUME CPInv, CPInv', NEW n \in 1 .. nextSeq - 1,
           UNCHANGED <<nextSeq, clean, refused>>,
           \A h : h.seq # n => (h \in outstanding <=> h \in outstanding')
    PROVE  \A m \in Commands : m # n => PhaseOf(m)' = PhaseOf(m)
<1> SUFFICES ASSUME NEW m \in Commands, m # n PROVE PhaseOf(m)' = PhaseOf(m)
  OBVIOUS
<1>1. PhasesFollowEntries /\ PhasesFollowEntries' /\ nextSeq \in Nat
  BY PhaseFacts, PhaseFactsNext, CPFacts
<1>2. CASE m >= nextSeq
  BY <1>1, <1>2 DEF PhasesFollowEntries
<1>3. CASE m < nextSeq /\ \E e \in outstanding : e.seq = m
  <2>1. PICK e \in outstanding : e.seq = m
    BY <1>3
  <2>2. PhaseOfEntry(e)' = PhaseOfEntry(e) /\ e \in outstanding'
    BY <2>1 DEF PhaseOfEntry
  <2> QED BY <1>1, <2>1, <2>2 DEF PhasesFollowEntries
<1>4. CASE m < nextSeq /\ ~\E e \in outstanding : e.seq = m
  <2>1. m \in 1 .. nextSeq - 1
    BY <1>1, <1>4, MaxCmdsAssumption DEF Commands
  <2> QED BY <1>1, <1>4, <2>1 DEF PhasesFollowEntries
<1> QED BY <1>1, <1>2, <1>3, <1>4, MaxCmdsAssumption DEF Commands

\* A step that changes no answer and no entry but erases some forgets them.
LEMMA ForgetIsSimulated ==
    ASSUME CPInv, CPInv', UNCHANGED <<nextSeq, issued, answers, refused, clean>>,
           \A h \in outstanding' : \E g \in outstanding :
               g.seq = h.seq /\ g.key = h.key /\ g.state = h.state
    PROVE  Dialogue!Next
<1> DEFINE forgotten == {n \in 1 .. nextSeq - 1 : \A e \in outstanding' : e.seq # n}
<1>1. PhasesFollowEntries /\ PhasesFollowEntries'
  BY PhaseFacts, PhaseFactsNext
<1>2. nextSeq \in Nat /\ Len(issued) = nextSeq - 1 /\ forgotten \in SUBSET (1 .. Len(issued))
  BY CPFacts
<1>3. ASSUME NEW n \in Commands
      PROVE  PhaseOf(n)' = IF n \in forgotten THEN "ended" ELSE PhaseOf(n)
  <2>1. CASE n >= nextSeq
    BY <2>1, <1>1, <1>2 DEF PhasesFollowEntries
  <2>2. CASE n \in forgotten
    BY <2>2, <1>1 DEF PhasesFollowEntries
  <2>3. CASE n < nextSeq /\ n \notin forgotten
    <3>1. PICK h \in outstanding' : h.seq = n
      BY <2>3, <1>2, MaxCmdsAssumption DEF Commands
    <3>2. PICK g \in outstanding : g.seq = h.seq /\ g.key = h.key /\ g.state = h.state
      OBVIOUS
    <3>3. PhaseOfEntry(h)' = PhaseOfEntry(g)
      BY <3>2 DEF PhaseOfEntry
    <3> QED BY <2>3, <3>1, <3>2, <3>3, <1>1 DEF PhasesFollowEntries
  <2> QED BY <2>1, <2>2, <2>3, <1>2, MaxCmdsAssumption DEF Commands
<1> HIDE DEF forgotten
<1>4. Dialogue!Forget(forgotten)
  BY <1>3 DEF Dialogue!Forget, Dialogue!Commands, Commands
<1> QED BY <1>2, <1>4 DEF Dialogue!Next


\* ForwardAdd sends a command: to an idle key, where no dialogue is open, or to
\* a busy one, whose open dialogues are muddled.
LEMMA AddIsSimulated ==
    ASSUME DialogueInv, CPInv', NEW c \in Conns, ForwardAdd(c)
    PROVE  Dialogue!Next
<1>1. PICK key \in Keys, select \in BOOLEAN :
         /\ addToOutstandingCommands(key, c, select)
         /\ clean' = [clean EXCEPT ![key] = KeyIdle(key)]
  BY DEF ForwardAdd
<1>2. PICK n, e : n = nextSeq /\ e = OutstandingCommand(nextSeq, key, c, select)
  OBVIOUS
<1>3. e.seq = n /\ e.key = key /\ e.state = 1
  BY <1>2 DEF OutstandingCommand
<1>4. /\ n \in Commands /\ nextSeq' = n + 1
      /\ outstanding' = outstanding \union {e}
      /\ issued' = Append(issued, [key |-> key, conn |-> c, select |-> select])
      /\ UNCHANGED <<answers, refused>>
  BY <1>1, <1>2 DEF ForwardAdd, addToOutstandingCommands
<1>5. /\ n \in Nat /\ Len(issued) = n - 1
      /\ \A f \in outstanding : /\ f.seq \in 1 .. n - 1 /\ f.key \in Keys
                                /\ issued[f.seq].key = f.key
      /\ n \notin refused
  BY <1>2, CPFacts DEF DialogueInv, RefusedStayUnknown
<1>6. PhasesFollowEntries /\ PhasesFollowEntries'
  BY PhaseFacts, PhaseFactsNext DEF DialogueInv
<1>7. /\ clean'[key] = KeyIdle(key)
      /\ \A k \in Keys : k # key => clean'[k] = clean[k]
  BY <1>1 DEF DialogueInv, CPInv, CPTypes
<1>8. PhaseOf(n)' = IF KeyIdle(key) THEN "pending" ELSE "muddled"
  <2>1. PhaseOf(n)' = PhaseOfEntry(e)'
    <3>1. e \in outstanding'
      BY <1>4
    <3> QED BY <3>1, <1>3, <1>6 DEF PhasesFollowEntries
  <2> QED BY <2>1, <1>3, <1>4, <1>5, <1>7 DEF PhaseOfEntry
<1> DEFINE open == {m \in 1 .. n - 1 : PhaseOf(m) # "ended" /\ issued[m].key = key}
<1>9. \A m \in open : \E f \in outstanding : f.seq = m /\ f.key = key
  BY <1>2, <1>5, <1>6 DEF PhasesFollowEntries
<1>10. KeyIdle(key) => open = {}
  BY <1>9 DEF KeyIdle
<1>11. ASSUME NEW m \in Commands, m # n
       PROVE  PhaseOf(m)' = IF m \in open /\ ~KeyIdle(key) THEN "muddled" ELSE PhaseOf(m)
  <2>1. CASE m >= n
    BY <2>1, <1>2, <1>4, <1>5, <1>6, <1>11, MaxCmdsAssumption DEF PhasesFollowEntries, Commands
  <2>2. CASE m < n /\ \E f \in outstanding : f.seq = m
    <3>1. PICK f \in outstanding : f.seq = m
      BY <2>2
    <3>2. f \in outstanding' /\ f.key \in Keys
      BY <1>4, <1>5
    <3>3. PhaseOf(m) = PhaseOfEntry(f) /\ PhaseOf(m)' = PhaseOfEntry(f)'
      BY <3>1, <3>2, <1>6 DEF PhasesFollowEntries
    <3>4. CASE f.key # key
      <4>1. PhaseOfEntry(f)' = PhaseOfEntry(f)
        BY <3>2, <3>4, <1>4, <1>7 DEF PhaseOfEntry
      <4> QED BY <4>1, <3>1, <3>3, <3>4, <1>5
    <3>5. CASE f.key = key
      <4>1. ~KeyIdle(key)
        BY <3>1, <3>5 DEF KeyIdle
      <4>2. PhaseOfEntry(f)' = "muddled"
        BY <4>1, <3>5, <1>7 DEF PhaseOfEntry
      <4>3. PhaseOfEntry(f) # "ended"
        <5>1. f.state \in 0 .. 2
          BY CPFacts DEF DialogueInv, Entries
        <5> QED BY <5>1, <3>2, <3>5 DEF PhaseOfEntry, DialogueInv, CPInv, CPTypes
      <4>4. m \in open
        BY <4>3, <3>1, <3>3, <3>5, <1>5
      <4> QED BY <4>1, <4>2, <4>4, <3>3
    <3> QED BY <3>4, <3>5
  <2>3. CASE m < n /\ ~\E f \in outstanding : f.seq = m
    <3>1. m \in 1 .. n - 1 /\ m \in 1 .. nextSeq' - 1
      BY <2>3, <1>4, <1>5, MaxCmdsAssumption DEF Commands
    <3>2. \A f \in outstanding' : f.seq # m
      BY <2>3, <1>3, <1>4, <1>11
    <3> QED BY <2>3, <3>1, <3>2, <1>2, <1>6 DEF PhasesFollowEntries
  <2> QED BY <2>1, <2>2, <2>3, <1>5, MaxCmdsAssumption DEF Commands
<1>12. Dialogue!Open(key) = open
  BY <1>4, <1>5, MaxCmdsAssumption DEF Dialogue!Open, Commands
<1>13. Dialogue!Command(key, c, select) /\ Len(issued) < MaxCmds /\ Len(issued) + 1 = n
  BY <1>4, <1>5, MaxCmdsAssumption DEF Dialogue!Command, Commands
<1> HIDE DEF open
<1>14. CASE KeyIdle(key)
  <2>1. Dialogue!Enter(n, "pending")
    BY <1>14, <1>8, <1>10, <1>11, <1>4 DEF Dialogue!Enter
  <2> QED BY <2>1, <1>10, <1>12, <1>13, <1>14 DEF Dialogue!Next, Dialogue!SendToIdle
<1>15. CASE ~KeyIdle(key)
  <2>1. ASSUME NEW m \in Commands
        PROVE  PhaseOf(m)' = IF m \in open \union {n} THEN "muddled" ELSE PhaseOf(m)
    BY <1>8, <1>11, <1>15
  <2>2. Dialogue!SendToBusy(key, c, select)
    BY <2>1, <1>12, <1>13 DEF Dialogue!SendToBusy, Dialogue!Commands, Commands
  <2> QED BY <2>2 DEF Dialogue!Next
<1> QED BY <1>14, <1>15

\* A negative response is a refusal.
LEMMA RefuseIsSimulated ==
    ASSUME DialogueInv, CPInv', NEW c \in Conns, SendNegativeResponse(c)
    PROVE  Dialogue!Next
<1>1. PICK n : n = handler[c].seq
  OBVIOUS
<1>2. /\ handler[c].pc = "failed" /\ refused' = refused \union {n}
      /\ UNCHANGED <<outstanding, nextSeq, issued, answers, clean>>
  BY <1>1 DEF SendNegativeResponse, AtPc, ocVars
<1>3. n \in Nat /\ Holding(c, n)
  BY <1>1, <1>2, MaxCmdsAssumption DEF Holding, DialogueInv, CPInv, CPTypes
<1>4. n \in 1 .. nextSeq - 1 /\ n \notin refused
  BY <1>3 DEF DialogueInv, RefusedStayUnknown
<1>5. nextSeq \in Nat /\ Len(issued) = nextSeq - 1 /\ n \in 1 .. Len(issued) /\ n \in Commands
  BY <1>4, CPFacts, MaxCmdsAssumption DEF DialogueInv, CPInv, OCInv, OCTypeOK, Commands
<1>6. PhasesFollowEntries /\ PhasesFollowEntries'
  BY PhaseFacts, PhaseFactsNext DEF DialogueInv
<1>7. ASSUME NEW m \in Commands, m # n PROVE PhaseOf(m)' = PhaseOf(m)
  <2>1. CASE m >= nextSeq
    BY <2>1, <1>2, <1>6 DEF PhasesFollowEntries
  <2>2. CASE \E f \in outstanding : f.seq = m
    <3>1. PICK f \in outstanding : f.seq = m
      BY <2>2
    <3>2. PhaseOfEntry(f)' = PhaseOfEntry(f)
      BY <3>1, <1>2, <1>7 DEF PhaseOfEntry
    <3> QED BY <3>1, <3>2, <1>2, <1>6 DEF PhasesFollowEntries
  <2>3. CASE m < nextSeq /\ ~\E f \in outstanding : f.seq = m
    <3>1. m \in 1 .. nextSeq - 1
      BY <2>3, <1>5, MaxCmdsAssumption DEF Commands
    <3> QED BY <2>3, <3>1, <1>2, <1>6 DEF PhasesFollowEntries
  <2> QED BY <2>1, <2>2, <2>3, <1>5, MaxCmdsAssumption DEF Commands
<1>8. \/ PhaseOf(n) = "pending" /\ PhaseOf(n)' = "rejected"
      \/ PhaseOf(n) \in {"muddled", "ended"} /\ PhaseOf(n)' = PhaseOf(n)
  <2>1. CASE \E f \in outstanding : f.seq = n
    <3>1. PICK f \in outstanding : f.seq = n
      BY <2>1
    <3>2. PhaseOf(n) = PhaseOfEntry(f) /\ PhaseOf(n)' = PhaseOfEntry(f)'
      BY <3>1, <1>2, <1>6 DEF PhasesFollowEntries
    <3>3. clean[f.key] \in BOOLEAN
      BY CPFacts DEF DialogueInv, CPInv, CPTypes
    <3>4. CASE ~clean[f.key]
      BY <3>2, <3>4, <1>2 DEF PhaseOfEntry
    <3>5. CASE clean[f.key]
      <4>1. f.state = 1
        BY <3>1, <3>5, <1>3 DEF DialogueInv, RefusedStayUnanswered
      <4>2. PhaseOfEntry(f) = "pending"
        BY <4>1, <3>1, <3>5, <1>4 DEF PhaseOfEntry
      <4>3. PhaseOfEntry(f)' = "rejected"
        BY <4>1, <3>1, <3>5, <1>2 DEF PhaseOfEntry
      <4> QED BY <4>2, <4>3, <3>2
    <3> QED BY <3>3, <3>4, <3>5
  <2>2. CASE ~\E f \in outstanding : f.seq = n
    BY <2>2, <1>2, <1>4, <1>6 DEF PhasesFollowEntries
  <2> QED BY <2>1, <2>2
<1>9. Dialogue!Refuse(n)
  <2>1. CASE PhaseOf(n) = "pending"
    <3>1. Dialogue!Enter(n, "rejected")
      BY <2>1, <1>7, <1>8 DEF Dialogue!Enter
    <3> QED BY <2>1, <3>1, <1>2, <1>5 DEF Dialogue!Refuse
  <2>2. CASE PhaseOf(n) # "pending"
    <3>1. \A m \in Commands : PhaseOf(m)' = PhaseOf(m)
      BY <2>2, <1>7, <1>8
    <3> QED BY <2>2, <3>1, <1>2, <1>5, <1>8 DEF Dialogue!Refuse
  <2> QED BY <2>1, <2>2
<1> QED BY <1>5, <1>9 DEF Dialogue!Next


\* The phase of the command whose entry is the first match of some feedback.
LEMMA MatchedPhase ==
    ASSUME DialogueInv, NEW x \in south, NEW e \in outstanding, IsFirstMatch(e, x.key)
    PROVE  /\ ~clean[e.key] => PhaseOf(e.seq) = "muddled"
           /\ clean[e.key] /\ x.next = "con" => PhaseOf(e.seq) = "pending"
           /\ clean[e.key] /\ x.next = "term" => PhaseOf(e.seq) = "confirmed"
<1>1. CPInv /\ PhaseOf(e.seq) = PhaseOfEntry(e)
  BY PhaseFacts DEF PhasesFollowEntries, DialogueInv
<1>2. e.key = x.key
  BY DEF IsFirstMatch, isMatching
<1>3. x.seq \notin refused
  BY DEF DialogueInv, RefusedStayUnknown
<1>4. CASE ~clean[e.key]
  BY <1>1, <1>4 DEF PhaseOfEntry
<1>5. CASE clean[e.key]
  <2>1. /\ e.seq = x.seq
        /\ x.next = "con" => e.state = 1
        /\ x.next = "term" => e.state = 2
    BY <1>1, <1>2, <1>5, MatchIsIt
  <2>2. x.next = "con" => PhaseOfEntry(e) = "pending"
    BY <2>1, <1>3, <1>5 DEF PhaseOfEntry
  <2>3. x.next = "term" => PhaseOfEntry(e) = "confirmed"
    BY <2>1, <1>3, <1>5 DEF PhaseOfEntry
  <2> QED BY <2>2, <2>3, <1>1, <1>5
<1> QED BY <1>4, <1>5

\* An ACT-CON confirms the command it is about, answers a muddled one or
\* is not noticed.
LEMMA ActConIsSimulated ==
    ASSUME DialogueInv, CPInv', NEW x \in south, NEW negative \in BOOLEAN,
           FeedbackActCon(x, negative)
    PROVE  Dialogue!Next
<1>1. /\ x.next = "con" /\ handleActCon(x.key, negative)
      /\ UNCHANGED <<refused, clean>>
  BY DEF FeedbackActCon
<1>2. CASE UNCHANGED ocVars
  BY <1>1, <1>2, ForgetIsSimulated DEF DialogueInv, ocVars
<1>3. CASE \E e \in outstanding : IsFirstMatch(e, x.key) /\ AnswerActCon(e, negative)
  <2>1. PICK e \in outstanding : IsFirstMatch(e, x.key) /\ AnswerActCon(e, negative)
    BY <1>3
  <2>2. PICK n, f : n = e.seq /\ f = sendActCon(e, negative)
    OBVIOUS
  <2>3. /\ outstanding' = (outstanding \ {e}) \union (IF e.select THEN {} ELSE {f})
        /\ answers' = [answers EXCEPT ![n] = Append(@, "con")]
        /\ UNCHANGED <<nextSeq, issued>>
    BY <2>1, <2>2 DEF AnswerActCon, Answer
  <2>4. /\ e \in Entries /\ e.key \in Keys
        /\ n \in 1 .. nextSeq - 1 /\ issued[n].select = e.select
        /\ \A g \in outstanding : g.seq = n => g = e
        /\ nextSeq \in Nat /\ Len(issued) = nextSeq - 1
    BY <2>2, CPFacts DEF DialogueInv
  <2>5. n \in Commands /\ n \in 1 .. Len(issued)
    BY <2>2, <2>4 DEF Entries
  <2>6. f.seq = n /\ f.key = e.key /\ f.state \in {0, 2}
    <3>1. f.seq = n /\ f.key = e.key
      BY <2>2, <2>4, SendActConKeepsIdentity
    <3>2. f.state \in {0, 2}
      BY <2>2, <2>4 DEF sendActCon, Completed, Entries
    <3> QED BY <3>1, <3>2
  <2>7. \A m \in Commands : m # n => PhaseOf(m)' = PhaseOf(m)
    <3>1. \A h : h.seq # n => (h \in outstanding <=> h \in outstanding')
      BY <2>2, <2>3, <2>6
    <3> QED BY <3>1, <2>3, <2>4, <1>1, OtherPhases DEF DialogueInv
  <2>8. PhasesFollowEntries'
    BY PhaseFactsNext
  <2>9. e.select => PhaseOf(n)' = "ended"
    <3>1. e.select => \A h \in outstanding' : h.seq # n
      BY <2>3, <2>4
    <3> QED BY <3>1, <2>3, <2>4, <2>8 DEF PhasesFollowEntries
  <2>10. ~e.select => f \in outstanding' /\ PhaseOf(n)' = PhaseOfEntry(f)'
    BY <2>3, <2>6, <2>8 DEF PhasesFollowEntries
  <2>11. /\ ~clean[e.key] => PhaseOf(n) = "muddled"
         /\ clean[e.key] => PhaseOf(n) = "pending"
    BY <1>1, <2>1, <2>2, MatchedPhase
  <2>12. CASE ~clean[e.key]
    <3>1. ~e.select => PhaseOf(n)' = "muddled"
      BY <2>6, <2>10, <2>12, <1>1 DEF PhaseOfEntry
    <3>2. e.select => Dialogue!Enter(n, "ended")
      BY <2>7, <2>9 DEF Dialogue!Enter
    <3>3. ~e.select => \A m \in Commands : PhaseOf(m)' = PhaseOf(m)
      BY <3>1, <2>7, <2>11, <2>12
    <3>4. Dialogue!AnswerMuddled(n)
      BY <3>2, <3>3, <2>3, <2>4, <2>5, <2>11, <2>12, <1>1
         DEF Dialogue!AnswerMuddled, Dialogue!Answer
    <3> QED BY <3>4, <2>5 DEF Dialogue!Next
  <2>13. CASE clean[e.key]
    <3>1. ~e.select => PhaseOf(n)' \in {"confirmed", "rejected"}
      <4>1. clean'[f.key] /\ n \notin refused'
        <5>1. x.seq = n
          BY <2>1, <2>2, <2>13, MatchIsIt DEF DialogueInv, IsFirstMatch, isMatching
        <5>2. n \notin refused
          BY <5>1 DEF DialogueInv, RefusedStayUnknown
        <5> QED BY <5>2, <2>6, <2>13, <1>1
      <4>2. f.state = 0 => PhaseOfEntry(f)' = "rejected"
        BY <4>1, <2>6 DEF PhaseOfEntry
      <4>3. f.state = 2 => PhaseOfEntry(f)' = "confirmed"
        BY <4>1, <2>6 DEF PhaseOfEntry
      <4> QED BY <4>2, <4>3, <2>6, <2>10
    <3>2. e.select => Dialogue!Enter(n, "ended")
      BY <2>7, <2>9 DEF Dialogue!Enter
    <3>3. ~e.select => Dialogue!Enter(n, "confirmed") \/ Dialogue!Enter(n, "rejected")
      BY <3>1, <2>7 DEF Dialogue!Enter
    <3>4. Dialogue!Confirm(n)
      BY <3>2, <3>3, <2>3, <2>4, <2>5, <2>11, <2>13, <1>1
         DEF Dialogue!Confirm, Dialogue!Answer
    <3> QED BY <3>4, <2>5 DEF Dialogue!Next
  <2> QED BY <2>12, <2>13
<1> QED BY <1>1, <1>2, <1>3 DEF handleActCon

\* An ACT-TERM terminates the command it is about, answers a muddled one
\* or is not noticed.
LEMMA ActTermIsSimulated ==
    ASSUME DialogueInv, CPInv', NEW x \in south, FeedbackActTerm(x)
    PROVE  Dialogue!Next
<1>1. /\ x.next = "term" /\ handleActTerm(x.key) /\ UNCHANGED <<refused, clean>>
  BY DEF FeedbackActTerm
<1>2. CASE UNCHANGED ocVars
  BY <1>1, <1>2, ForgetIsSimulated DEF DialogueInv, ocVars
<1>3. CASE \E e \in outstanding : IsFirstMatch(e, x.key) /\ AnswerActTerm(e)
  <2>1. PICK e \in outstanding : IsFirstMatch(e, x.key) /\ AnswerActTerm(e)
    BY <1>3
  <2>2. PICK n : n = e.seq
    OBVIOUS
  <2>3. /\ outstanding' = outstanding \ {e}
        /\ answers' = [answers EXCEPT ![n] = Append(@, "term")]
        /\ UNCHANGED <<nextSeq, issued>>
    BY <2>1, <2>2 DEF AnswerActTerm, Answer
  <2>4. /\ e \in Entries /\ n \in 1 .. nextSeq - 1
        /\ \A g \in outstanding : g.seq = n => g = e
        /\ nextSeq \in Nat /\ Len(issued) = nextSeq - 1
    BY <2>2, CPFacts DEF DialogueInv
  <2>5. n \in Commands /\ n \in 1 .. Len(issued)
    BY <2>2, <2>4 DEF Entries
  <2>6. \A m \in Commands : m # n => PhaseOf(m)' = PhaseOf(m)
    <3>1. \A h : h.seq # n => (h \in outstanding <=> h \in outstanding')
      BY <2>2, <2>3
    <3> QED BY <3>1, <2>3, <2>4, <1>1, OtherPhases DEF DialogueInv
  <2>7. PhaseOf(n)' = "ended"
    <3>1. \A h \in outstanding' : h.seq # n
      BY <2>3, <2>4
    <3> QED BY <3>1, <2>3, <2>4, PhaseFactsNext DEF PhasesFollowEntries
  <2>8. Dialogue!Enter(n, "ended")
    BY <2>6, <2>7 DEF Dialogue!Enter
  <2>9. PhaseOf(n) \in {"muddled", "confirmed"}
    BY <1>1, <2>1, <2>2, MatchedPhase
  <2>10. Dialogue!AnswerMuddled(n) \/ Dialogue!Terminate(n)
    BY <2>3, <2>5, <2>8, <2>9, <1>1
       DEF Dialogue!AnswerMuddled, Dialogue!Terminate, Dialogue!Answer
  <2> QED BY <2>10, <2>5 DEF Dialogue!Next
<1> QED BY <1>1, <1>2, <1>3 DEF handleActTerm

-----------------------------------------------------------------------------

\* The command path starts with a fresh dialogue about every command.
LEMMA InitIsSimulated == Init => Dialogue!Init
<1> SUFFICES ASSUME Init PROVE Dialogue!Init
  OBVIOUS
<1>1. nextSeq = 1 /\ issued = <<>> /\ answers = [n \in Commands |-> <<>>] /\ refused = {}
  BY DEF Init, OCInit
<1>2. \A n \in Commands : PhaseOf(n) = "unsent"
  BY <1>1, MaxCmdsAssumption DEF PhaseOf, Commands
<1> QED BY <1>1, <1>2 DEF Dialogue!Init, Dialogue!Commands, Commands

\* Every step of the command path is a step of the dialogue; the ones that
\* change nothing a client can see forget no command.
LEMMA NextIsSimulated ==
    DialogueInv /\ DialogueInv' /\ [Next]_vars => Dialogue!Next
<1> SUFFICES ASSUME DialogueInv, DialogueInv', [Next]_vars PROVE Dialogue!Next
  OBVIOUS
<1>1. CPInv /\ CPInv'
  BY DEF DialogueInv
<1>2. CASE Start \/ Monitor \/ UNCHANGED vars \/ \E c \in Conns : ConnectionEvent(c)
  BY <1>1, <1>2, SilentSteps, ForgetIsSimulated
<1>3. ASSUME NEW c \in Conns, AsduHandler(c) PROVE Dialogue!Next
  <2>1. CASE ForwardAdd(c)
    BY <2>1, <1>1, AddIsSimulated
  <2>2. CASE SendNegativeResponse(c)
    BY <2>2, <1>1, RefuseIsSimulated
  <2>3. CASE validateCommand(c) \/ OperationAccepted(c) \/ OperationFailed(c)
    <3>1. UNCHANGED <<outstanding, nextSeq, issued, answers, refused, clean>>
      BY <2>3 DEF validateCommand, OperationAccepted, OperationFailed, ocVars
    <3> QED BY <3>1, <1>1, ForgetIsSimulated
  <2> QED BY <1>3, <2>1, <2>2, <2>3 DEF AsduHandler
<1>4. CASE Feedback
  <2>1. ASSUME NEW x \in south, FeedbackLost(x) PROVE Dialogue!Next
    BY <2>1, <1>1, ForgetIsSimulated DEF FeedbackLost, ocVars
  <2> QED BY <1>1, <1>4, <2>1, ActConIsSimulated, ActTermIsSimulated DEF Feedback
<1>5. CASE ClockTick
  <2> DEFINE T(e) == [e EXCEPT !.left = IF @ >= 0 THEN @ - 1 ELSE -1]
  <2>1. /\ outstanding' = {T(e) : e \in outstanding}
        /\ UNCHANGED <<nextSeq, issued, answers, clean, refused>>
    BY <1>5 DEF ClockTick, Tick, cpVars
  <2>2. \A e \in outstanding : T(e).seq = e.seq /\ T(e).key = e.key /\ T(e).state = e.state
    BY <1>1, CPFacts DEF Entries
  <2> HIDE DEF T
  <2> QED BY <1>1, <2>1, <2>2, ForgetIsSimulated
<1> QED BY <1>2, <1>3, <1>4, <1>5 DEF Next

\* The command path keeps the dialogue it promises, for any number of clients,
\* keys and commands: it implements CommandDialogue.
THEOREM PathKeepsDialogue == Spec => KeepsDialogue
<1>1. DialogueInv /\ DialogueInv' /\ [Next]_vars => [Dialogue!Next]_(Dialogue!dialogueVars)
  BY NextIsSimulated
<1> QED BY <1>1, InitIsSimulated, DialogueInitInv, DialogueNextInv, PTL
        DEF Spec, KeepsDialogue, Dialogue!Spec
=============================================================================
