---------------------- MODULE OutstandingCommandsProofs ----------------------
(***************************************************************************)
(* Proofs about the list of outstanding commands, for any set of           *)
(* connections and keys, any timeout and any bounds.                       *)
(***************************************************************************)
EXTENDS OutstandingCommands, TLAPS

\* A command that is not issued has no answer, and one that is still in the
\* list has had no ACT-TERM, and no answer at all if it is a select.
AnswersSoFar ==
    /\ \A n \in Commands : n >= nextSeq => answers[n] = <<>>
    /\ \A e \in outstanding :
          /\ \A i \in 1 .. Len(answers[e.seq]) : answers[e.seq][i] # "term"
          /\ e.select => answers[e.seq] = <<>>

\* The inductive invariant.
OCInv ==
    /\ OCTypeOK
    /\ EntryKeepsItsRequest
    /\ AnswersSoFar
    /\ ActTermIsFinal
    /\ SelectAnsweredOnce

-----------------------------------------------------------------------------

\* sendActCon keeps everything that identifies an entry.
LEMMA SendActConKeepsIdentity ==
    ASSUME NEW e \in Entries, NEW negative \in BOOLEAN
    PROVE  /\ sendActCon(e, negative) \in Entries
           /\ sendActCon(e, negative).seq = e.seq
           /\ sendActCon(e, negative).key = e.key
           /\ sendActCon(e, negative).conn = e.conn
           /\ sendActCon(e, negative).select = e.select
<1> DEFINE done == [e EXCEPT !.state = 0, !.left = -1]
           wait == [e EXCEPT !.state = 2]
<1>1. /\ done \in Entries
      /\ done.seq = e.seq /\ done.key = e.key
      /\ done.conn = e.conn /\ done.select = e.select
  <2>1. -1 \in -1 .. CmdExecTimeout /\ 0 \in 0 .. 2
    BY CmdExecTimeoutAssumption
  <2>2. [e EXCEPT !.state = 0] \in Entries
    BY <2>1 DEF Entries
  <2>3. done = [[e EXCEPT !.state = 0] EXCEPT !.left = -1]
    BY DEF Entries
  <2> QED BY <2>1, <2>2, <2>3 DEF Entries
<1>2. /\ wait \in Entries
      /\ wait.seq = e.seq /\ wait.key = e.key
      /\ wait.conn = e.conn /\ wait.select = e.select
  BY DEF Entries
<1>3. sendActCon(e, negative) = wait \/ sendActCon(e, negative) = done
  BY DEF sendActCon, Completed
<1> QED BY <1>1, <1>2, <1>3

\* The initial state satisfies the invariant.
LEMMA OCInitInv == OCInit => OCInv
  BY MaxCmdsAssumption
  DEF OCInit, OCInv, OCTypeOK, EntryKeepsItsRequest, AnswersSoFar, ActTermIsFinal,
      SelectAnsweredOnce, Commands, Requests, Answers

\* Erasing entries, whichever they are, keeps the invariant.
LEMMA EraseInv ==
    ASSUME OCInv, outstanding' \subseteq outstanding,
           UNCHANGED <<nextSeq, issued, answers>>
    PROVE  OCInv'
  BY DEF OCInv, OCTypeOK, EntryKeepsItsRequest, AnswersSoFar, ActTermIsFinal,
         SelectAnsweredOnce

\* A new entry carries a fresh number and the request it was issued with.
LEMMA AddInv ==
    ASSUME OCInv, NEW key \in Keys, NEW conn \in Conns, NEW select \in BOOLEAN,
           addToOutstandingCommands(key, conn, select)
    PROVE  OCInv'
<1> DEFINE e == OutstandingCommand(nextSeq, key, conn, select)
           r == [key |-> key, conn |-> conn, select |-> select]
<1>1. /\ nextSeq \in Commands
      /\ outstanding' = outstanding \union {e}
      /\ issued' = Append(issued, r)
      /\ nextSeq' = nextSeq + 1
      /\ answers' = answers
  BY DEF addToOutstandingCommands
<1>2. e \in Entries /\ r \in Requests
  BY <1>1, CmdExecTimeoutAssumption DEF OutstandingCommand, Entries, Requests
<1>3. /\ issued \in Seq(Requests)
      /\ Len(issued) = nextSeq - 1
      /\ nextSeq \in Nat
  BY <1>1, MaxCmdsAssumption DEF OCInv, OCTypeOK, Commands
<1>4. /\ issued' \in Seq(Requests)
      /\ Len(issued') = nextSeq' - 1
      /\ \A n \in 1 .. nextSeq - 1 : issued'[n] = issued[n]
      /\ issued'[nextSeq] = r
  BY <1>1, <1>2, <1>3
<1>5. OCTypeOK'
  BY <1>1, <1>2, <1>4, MaxCmdsAssumption DEF OCInv, OCTypeOK, Commands
<1>6. EntryKeepsItsRequest'
  <2> SUFFICES ASSUME NEW f \in outstanding'
               PROVE  /\ f.seq < nextSeq'
                      /\ issued'[f.seq] = [key |-> f.key, conn |-> f.conn,
                                           select |-> f.select]
                      /\ \A h \in outstanding' : h.seq = f.seq => h = f
    BY DEF EntryKeepsItsRequest
  <2>1. e.seq = nextSeq /\ e.key = key /\ e.conn = conn /\ e.select = select
    BY DEF OutstandingCommand
  <2>2. \A h \in outstanding : h \in Entries /\ h.seq \in 1 .. nextSeq - 1
    <3> TAKE h \in outstanding
    <3>1. h \in Entries BY DEF OCInv, OCTypeOK
    <3>2. h.seq \in 1 .. MaxCmds BY <3>1 DEF Entries, Commands
    <3>3. h.seq < nextSeq BY DEF OCInv, EntryKeepsItsRequest
    <3> QED BY <3>1, <3>2, <3>3, <1>3, MaxCmdsAssumption
  <2>3. CASE f = e
    BY <2>1, <2>2, <2>3, <1>1, <1>3, <1>4
  <2>4. CASE f \in outstanding
    BY <2>1, <2>2, <2>4, <1>1, <1>3, <1>4 DEF OCInv, EntryKeepsItsRequest
  <2> QED BY <2>3, <2>4, <1>1
<1>7. AnswersSoFar'
  <2>1. e.seq = nextSeq /\ answers[nextSeq] = <<>>
    BY <1>1, <1>3 DEF OCInv, AnswersSoFar, OutstandingCommand
  <2> QED BY <2>1, <1>1, <1>3 DEF OCInv, AnswersSoFar, Commands
<1>8. ActTermIsFinal'
  BY <1>1 DEF OCInv, ActTermIsFinal
<1>9. SelectAnsweredOnce'
  <2>1. answers[nextSeq] = <<>>
    BY <1>1, <1>3 DEF OCInv, AnswersSoFar
  <2> QED BY <2>1, <1>1, <1>3, <1>4 DEF OCInv, SelectAnsweredOnce
<1> QED BY <1>5, <1>6, <1>7, <1>8, <1>9 DEF OCInv

\* What every walk of the list needs to know of the entry it stops at.
LEMMA EntryFacts ==
    ASSUME OCInv, NEW e \in outstanding
    PROVE  /\ e \in Entries
           /\ e.seq \in Commands
           /\ e.seq \in 1 .. nextSeq - 1
           /\ nextSeq \in Nat
           /\ issued[e.seq].select = e.select
           /\ answers[e.seq] \in Seq(Answers)
<1>1. e \in Entries /\ answers \in [Commands -> Seq(Answers)] /\ nextSeq \in Nat
  BY MaxCmdsAssumption DEF OCInv, OCTypeOK
<1>2. e.seq \in Commands
  BY <1>1 DEF Entries
<1>3. /\ e.seq < nextSeq
      /\ issued[e.seq] = [key |-> e.key, conn |-> e.conn, select |-> e.select]
  BY DEF OCInv, EntryKeepsItsRequest
<1> QED BY <1>1, <1>2, <1>3, MaxCmdsAssumption DEF Commands

\* Appending an answer for an entry that has had no ACT-TERM leaves ACT-TERM
\* last, and is the first answer if the entry is a select.
LEMMA AnswerInv ==
    ASSUME OCInv, NEW e \in outstanding, NEW kind \in Answers,
           Answer(e.seq, kind), UNCHANGED <<nextSeq, issued>>
    PROVE  /\ answers' \in [Commands -> Seq(Answers)]
           /\ \A n \in Commands : n # e.seq => answers'[n] = answers[n]
           /\ answers'[e.seq] = Append(answers[e.seq], kind)
           /\ \A n \in Commands : n >= nextSeq' => answers'[n] = <<>>
           /\ ActTermIsFinal'
           /\ SelectAnsweredOnce'
<1>1. /\ e.seq \in Commands /\ e.seq \in 1 .. nextSeq - 1 /\ nextSeq \in Nat
      /\ issued[e.seq].select = e.select /\ answers[e.seq] \in Seq(Answers)
  BY EntryFacts
<1>2. /\ answers' \in [Commands -> Seq(Answers)]
      /\ \A n \in Commands : n # e.seq => answers'[n] = answers[n]
      /\ answers'[e.seq] = Append(answers[e.seq], kind)
  BY <1>1 DEF Answer, OCInv, OCTypeOK
<1>3. \A n \in Commands : n >= nextSeq' => answers'[n] = <<>>
  BY <1>1, <1>2 DEF OCInv, AnswersSoFar, Commands
<1>4. ActTermIsFinal'
  <2> SUFFICES ASSUME NEW n \in Commands, NEW i \in 1 .. Len(answers'[n]),
                      answers'[n][i] = "term"
               PROVE  i = Len(answers'[n])
    BY DEF ActTermIsFinal
  <2>1. CASE n # e.seq
    BY <2>1, <1>2 DEF OCInv, ActTermIsFinal
  <2>2. CASE n = e.seq
    <3>1. \A j \in 1 .. Len(answers[n]) : answers[n][j] # "term"
      BY <2>2 DEF OCInv, AnswersSoFar
    <3>2. /\ Len(answers'[n]) = Len(answers[n]) + 1
          /\ \A j \in 1 .. Len(answers[n]) : answers'[n][j] = answers[n][j]
          /\ Len(answers[n]) \in Nat
      BY <2>2, <1>1, <1>2
    <3> QED BY <3>1, <3>2
  <2> QED BY <2>1, <2>2
<1>5. SelectAnsweredOnce'
  <2> SUFFICES ASSUME NEW n \in 1 .. nextSeq - 1, issued[n].select
               PROVE  Len(answers'[n]) =< 1
    BY DEF SelectAnsweredOnce
  <2>1. n \in Commands
    BY MaxCmdsAssumption DEF OCInv, OCTypeOK, Commands
  <2>2. CASE n # e.seq
    BY <2>1, <2>2, <1>2 DEF OCInv, SelectAnsweredOnce
  <2>3. CASE n = e.seq
    <3>1. answers[n] = <<>>
      BY <2>3, <1>1 DEF OCInv, AnswersSoFar
    <3> QED BY <3>1, <2>3, <1>2
  <2> QED BY <2>2, <2>3
<1> QED BY <1>2, <1>3, <1>4, <1>5

\* handleActCon keeps the invariant.
LEMMA ActConInv ==
    ASSUME OCInv, NEW key \in Keys, NEW negative \in BOOLEAN,
           handleActCon(key, negative)
    PROVE  OCInv'
<1>1. CASE NoMatch(key) /\ UNCHANGED ocVars
  BY <1>1, EraseInv DEF ocVars
<1>2. CASE \E e \in outstanding : IsFirstMatch(e, key) /\ AnswerActCon(e, negative)
  <2>1. PICK e \in outstanding : AnswerActCon(e, negative)
    BY <1>2
  <2> DEFINE f == sendActCon(e, negative)
  <2>2. /\ outstanding' = (outstanding \ {e}) \union (IF e.select THEN {} ELSE {f})
        /\ Answer(e.seq, "con")
        /\ UNCHANGED <<nextSeq, issued>>
    BY <2>1 DEF AnswerActCon
  <2>3. /\ e \in Entries /\ e.seq \in Commands /\ e.seq \in 1 .. nextSeq - 1
        /\ nextSeq \in Nat /\ answers[e.seq] \in Seq(Answers)
    BY EntryFacts
  <2>4. /\ f \in Entries /\ f.seq = e.seq /\ f.key = e.key
        /\ f.conn = e.conn /\ f.select = e.select
    BY <2>3, SendActConKeepsIdentity
  <2>5. /\ answers' \in [Commands -> Seq(Answers)]
        /\ \A n \in Commands : n # e.seq => answers'[n] = answers[n]
        /\ answers'[e.seq] = Append(answers[e.seq], "con")
        /\ \A n \in Commands : n >= nextSeq' => answers'[n] = <<>>
        /\ ActTermIsFinal' /\ SelectAnsweredOnce'
    <3>1. "con" \in Answers BY DEF Answers
    <3> QED BY <3>1, <2>2, AnswerInv
  <2> HIDE DEF f
  <2>6. \A h \in outstanding' : (h \in outstanding /\ h # e) \/ (h = f /\ ~e.select)
    BY <2>2
  <2>7. OCTypeOK'
    BY <2>2, <2>4, <2>5 DEF OCInv, OCTypeOK
  <2>8. EntryKeepsItsRequest'
    <3> SUFFICES ASSUME NEW h \in outstanding'
                 PROVE  /\ h.seq < nextSeq'
                        /\ issued'[h.seq] = [key |-> h.key, conn |-> h.conn,
                                             select |-> h.select]
                        /\ \A g \in outstanding' : g.seq = h.seq => g = h
      BY DEF EntryKeepsItsRequest
    <3>1. PICK h0 \in outstanding : /\ h.seq = h0.seq /\ h.key = h0.key
                                    /\ h.conn = h0.conn /\ h.select = h0.select
                                    /\ (h = h0 /\ h # e) \/ (h = f /\ h0 = e)
      <4>1. CASE h \in outstanding /\ h # e
        BY <4>1
      <4>2. CASE h = f
        BY <4>2, <2>4
      <4> QED BY <4>1, <4>2, <2>6
    <3>2. /\ h0.seq < nextSeq
          /\ issued[h0.seq] = [key |-> h0.key, conn |-> h0.conn, select |-> h0.select]
          /\ \A g \in outstanding : g.seq = h0.seq => g = h0
      BY DEF OCInv, EntryKeepsItsRequest
    <3>3. ASSUME NEW g \in outstanding', g.seq = h.seq PROVE g = h
      BY <3>1, <3>2, <3>3, <2>4, <2>6
    <3> QED BY <3>1, <3>2, <3>3, <2>2
  <2>9. \A h \in outstanding' :
           /\ \A i \in 1 .. Len(answers'[h.seq]) : answers'[h.seq][i] # "term"
           /\ h.select => answers'[h.seq] = <<>>
    <3> TAKE h \in outstanding'
    <3>1. CASE h \in outstanding /\ h # e
      <4>1. h.seq # e.seq
        BY <3>1 DEF OCInv, EntryKeepsItsRequest
      <4>2. h.seq \in Commands
        BY <3>1, EntryFacts
      <4> QED BY <3>1, <4>1, <4>2, <2>5 DEF OCInv, AnswersSoFar
    <3>2. CASE h = f /\ ~e.select
      <4>1. \A i \in 1 .. Len(answers[e.seq]) : answers[e.seq][i] # "term"
        BY DEF OCInv, AnswersSoFar
      <4> QED BY <3>2, <4>1, <2>3, <2>4, <2>5
    <3> QED BY <3>1, <3>2, <2>6
  <2>10. AnswersSoFar'
    BY <2>5, <2>9 DEF AnswersSoFar
  <2> QED BY <2>5, <2>7, <2>8, <2>10 DEF OCInv
<1> QED BY <1>1, <1>2 DEF handleActCon

\* handleActTerm keeps the invariant.
LEMMA ActTermInv ==
    ASSUME OCInv, NEW key \in Keys, handleActTerm(key)
    PROVE  OCInv'
<1>1. CASE NoMatch(key) /\ UNCHANGED ocVars
  BY <1>1, EraseInv DEF ocVars
<1>2. CASE \E e \in outstanding : IsFirstMatch(e, key) /\ AnswerActTerm(e)
  <2>1. PICK e \in outstanding : AnswerActTerm(e)
    BY <1>2
  <2>2. /\ outstanding' = outstanding \ {e}
        /\ Answer(e.seq, "term")
        /\ UNCHANGED <<nextSeq, issued>>
    BY <2>1 DEF AnswerActTerm
  <2>3. /\ answers' \in [Commands -> Seq(Answers)]
        /\ \A n \in Commands : n # e.seq => answers'[n] = answers[n]
        /\ \A n \in Commands : n >= nextSeq' => answers'[n] = <<>>
        /\ ActTermIsFinal' /\ SelectAnsweredOnce'
    <3>1. "term" \in Answers BY DEF Answers
    <3> QED BY <3>1, <2>2, AnswerInv
  <2>4. OCTypeOK' /\ EntryKeepsItsRequest'
    BY <2>2, <2>3 DEF OCInv, OCTypeOK, EntryKeepsItsRequest
  <2>5. \A h \in outstanding' : answers'[h.seq] = answers[h.seq]
    BY <2>2, <2>3, EntryFacts DEF OCInv, EntryKeepsItsRequest
  <2>6. AnswersSoFar'
    BY <2>2, <2>3, <2>5 DEF OCInv, AnswersSoFar
  <2> QED BY <2>3, <2>4, <2>6 DEF OCInv
<1> QED BY <1>1, <1>2 DEF handleActTerm

\* The clock only moves deadlines.
LEMMA TickInv ==
    ASSUME OCInv, Tick
    PROVE  OCInv'
<1> DEFINE T(e) == [e EXCEPT !.left = IF @ >= 0 THEN @ - 1 ELSE -1]
<1>1. outstanding' = {T(e) : e \in outstanding} /\ UNCHANGED <<nextSeq, issued, answers>>
  BY DEF Tick
<1>2. \A e \in outstanding :
         /\ T(e) \in Entries
         /\ T(e).seq = e.seq /\ T(e).key = e.key
         /\ T(e).conn = e.conn /\ T(e).select = e.select
  <2> TAKE e \in outstanding
  <2>1. e \in Entries
    BY DEF OCInv, OCTypeOK
  <2>2. (IF e.left >= 0 THEN e.left - 1 ELSE -1) \in -1 .. CmdExecTimeout
    BY <2>1, CmdExecTimeoutAssumption DEF Entries
  <2> QED BY <2>1, <2>2 DEF Entries
<1> HIDE DEF T
<1>3. OCTypeOK'
  BY <1>1, <1>2 DEF OCInv, OCTypeOK
<1>4. EntryKeepsItsRequest' /\ AnswersSoFar' /\ ActTermIsFinal' /\ SelectAnsweredOnce'
  BY <1>1, <1>2 DEF OCInv, EntryKeepsItsRequest, AnswersSoFar, ActTermIsFinal,
                    SelectAnsweredOnce
<1> QED BY <1>3, <1>4 DEF OCInv

-----------------------------------------------------------------------------

\* Every step of the list keeps the invariant.
LEMMA OCNextInv == OCInv /\ [OCNext]_ocVars => OCInv'
<1> SUFFICES ASSUME OCInv, [OCNext]_ocVars PROVE OCInv'
  OBVIOUS
<1>1. CASE Add
  BY <1>1, AddInv DEF Add
<1>2. CASE ActCon
  BY <1>2, ActConInv DEF ActCon
<1>3. CASE ActTerm
  BY <1>3, ActTermInv DEF ActTerm
<1>4. CASE Purge
  BY <1>4, EraseInv DEF Purge, removeOutstandingCommands, Erase
<1>5. CASE removeAllOutstandingCommands
  BY <1>5, EraseInv DEF removeAllOutstandingCommands, Erase
<1>6. CASE removeTimedOutCommands
  BY <1>6, EraseInv DEF removeTimedOutCommands, Erase
<1>7. CASE Tick
  BY <1>7, TickInv
<1>8. CASE UNCHANGED ocVars
  BY <1>8, EraseInv DEF ocVars
<1> QED BY <1>1, <1>2, <1>3, <1>4, <1>5, <1>6, <1>7, <1>8 DEF OCNext

\* The list is always of its type: in particular no command number is ever
\* used beyond those given out.
THEOREM OCTypeCorrect == OCSpec => []OCTypeOK
<1>1. OCInv => OCTypeOK
  BY DEF OCInv
<1> QED BY <1>1, OCInitInv, OCNextInv, PTL DEF OCSpec

\* Nothing is sent for a command after its ACT-TERM, for any number of
\* connections, keys and commands and for any feedback.
THEOREM ActTermIsAlwaysFinal == OCSpec => []ActTermIsFinal
<1>1. OCInv => ActTermIsFinal
  BY DEF OCInv
<1> QED BY <1>1, OCInitInv, OCNextInv, PTL DEF OCSpec

\* A select is never answered twice.
THEOREM SelectIsAnsweredOnce == OCSpec => []SelectAnsweredOnce
<1>1. OCInv => SelectAnsweredOnce
  BY DEF OCInv
<1> QED BY <1>1, OCInitInv, OCNextInv, PTL DEF OCSpec
=============================================================================
