------------------------- MODULE OutstandingCommands -------------------------
(***************************************************************************)
(* The list of commands that were handed to the south side and wait for    *)
(* its feedback: m_outstandingCommands of IEC104Server, its entries        *)
(* (IEC104OutstandingCommand) and the functions that walk it.  Every one   *)
(* of them holds m_outstandingCommandsLock from its first to its last      *)
(* statement, so each is one action.                                       *)
(*                                                                         *)
(* The vector is a set of entries numbered in the order of push_back: an   *)
(* erase keeps the order of the others, so the first match of a walk is    *)
(* the match with the smallest number.  A (type, CA, IOA) triple is a      *)
(* member of Keys.  m_nextTimeout is kept relative to the clock: `left' is *)
(* the number of clock units until the deadline, -1 once the clock is past *)
(* it; "m_nextTimeout = 0" makes it -1 at once.                            *)
(***************************************************************************)
EXTENDS MasterConnections, Integers, Sequences

CONSTANTS
    Keys,             \* (type id, CA, IOA) triples
    CmdExecTimeout,   \* cmd_exec_timeout, in clock units
    MaxCmds,          \* bound: commands accepted in one behaviour
    MaxAnswers        \* bound: answers to one command in one behaviour

ASSUME CmdExecTimeoutAssumption == CmdExecTimeout \in Nat
ASSUME MaxCmdsAssumption == MaxCmds \in Nat
ASSUME MaxAnswersAssumption == MaxAnswers \in Nat

VARIABLES
    outstanding,      \* m_outstandingCommands
    nextSeq,          \* number of the next command (history)
    issued,           \* what command n asked for (history)
    answers           \* answers handed to lib60870 for command n (history)

ocVars == <<outstanding, nextSeq, issued, answers>>

Commands == 1 .. MaxCmds

Requests == [key : Keys, conn : Conns, select : BOOLEAN]

Answers == {"con", "term"}

\* m_state: 0 complete, 1 waiting for ACT-CON, 2 waiting for ACT-TERM
Entries == [seq : Commands, key : Keys, conn : Conns, select : BOOLEAN,
            state : 0 .. 2, left : -1 .. CmdExecTimeout]

OCInit ==
    /\ outstanding = {}
    /\ nextSeq = 1
    /\ issued = <<>>
    /\ answers = [n \in Commands |-> <<>>]

-----------------------------------------------------------------------------
(* One entry *)

OutstandingCommand(n, key, conn, select) ==
    [seq |-> n, key |-> key, conn |-> conn, select |-> select,
     state |-> 1, left |-> CmdExecTimeout]

isSentFromConnection(e, conn) == e.conn = conn

\* Mistake: any outstanding command takes the feedback.
isMatchingAny(e, key) == TRUE

isMatching(e, key) == e.key = key

\* Mistake: only a command that waits for its ACT-CON times out.
hasTimedOutBeforeActCon(e) == e.left < 0 /\ e.state = 1

hasTimedOut(e) == e.left < 0

Completed(e) == [e EXCEPT !.state = 0, !.left = -1]

\* Mistake: the state is counted up instead of set.
sendActConCounts(e, negative) ==
    IF ~negative /\ ~e.select THEN [e EXCEPT !.state = @ + 1] ELSE Completed(e)

\* Mistake: the entry goes on waiting for its ACT-CON.
sendActConForgetsState(e, negative) ==
    IF ~negative /\ ~e.select THEN e ELSE Completed(e)

\* The entry after IEC104OutstandingCommand::sendActCon.
sendActCon(e, negative) ==
    IF ~negative /\ ~e.select THEN [e EXCEPT !.state = 2] ELSE Completed(e)

IsFirstMatch(e, key) ==
    /\ e \in outstanding
    /\ isMatching(e, key)
    /\ \A f \in outstanding : isMatching(f, key) => e.seq =< f.seq

NoMatch(key) == \A e \in outstanding : ~isMatching(e, key)

Answer(n, kind) == answers' = [answers EXCEPT ![n] = Append(@, kind)]

-----------------------------------------------------------------------------
(* The operations on the list *)

addToOutstandingCommands(key, conn, select) ==
    /\ nextSeq \in Commands
    /\ outstanding' = outstanding
                        \union {OutstandingCommand(nextSeq, key, conn, select)}
    /\ issued' = Append(issued, [key |-> key, conn |-> conn, select |-> select])
    /\ nextSeq' = nextSeq + 1
    /\ UNCHANGED answers

\* Erase some entries without a word to the master.
Erase(dropped) ==
    /\ outstanding' = outstanding \ dropped
    /\ UNCHANGED <<nextSeq, issued, answers>>

removeOutstandingCommands(conn) ==
    Erase({e \in outstanding : isSentFromConnection(e, conn)})

removeAllOutstandingCommands == Erase(outstanding)

\* The walk at the end of each round of _monitoringThread.
removeTimedOutCommands ==
    Erase({e \in outstanding : hasTimedOut(e)})

\* Mistake: a confirmed select keeps its place like any other command.
AnswerActConKeepsSelect(e, negative) ==
    /\ outstanding' = (outstanding \ {e}) \union {sendActCon(e, negative)}
    /\ Answer(e.seq, "con")
    /\ UNCHANGED <<nextSeq, issued>>

\* handleActCon for the matching entry e: a select is erased once confirmed,
\* any other command keeps its place.
AnswerActCon(e, negative) ==
    /\ outstanding' = (outstanding \ {e})
                        \union (IF e.select THEN {} ELSE {sendActCon(e, negative)})
    /\ Answer(e.seq, "con")
    /\ UNCHANGED <<nextSeq, issued>>

\* Mistake: the entry is not erased.
AnswerActTermKeepsEntry(e) ==
    /\ Answer(e.seq, "term")
    /\ UNCHANGED <<outstanding, nextSeq, issued>>

\* handleActTerm for the matching entry e; the sign only goes into the message.
AnswerActTerm(e) ==
    /\ outstanding' = outstanding \ {e}
    /\ Answer(e.seq, "term")
    /\ UNCHANGED <<nextSeq, issued>>

handleActCon(key, negative) ==
    \/ \E e \in outstanding : IsFirstMatch(e, key) /\ AnswerActCon(e, negative)
    \/ NoMatch(key) /\ UNCHANGED ocVars

handleActTerm(key) ==
    \/ \E e \in outstanding : IsFirstMatch(e, key) /\ AnswerActTerm(e)
    \/ NoMatch(key) /\ UNCHANGED ocVars

\* One clock unit passes.
Tick ==
    /\ \E e \in outstanding : e.left >= 0
    /\ outstanding' = {[e EXCEPT !.left = IF @ >= 0 THEN @ - 1 ELSE -1] :
                          e \in outstanding}
    /\ UNCHANGED <<nextSeq, issued, answers>>

-----------------------------------------------------------------------------
(***************************************************************************)
(* The list used in any way at all: any connection adds a command, any     *)
(* feedback arrives for any key at any time, repeated and out of order,    *)
(* connections are dropped whenever they like.                             *)
(***************************************************************************)

BelowMaxAnswers(key) ==
    \A e \in outstanding : isMatching(e, key) => Len(answers[e.seq]) < MaxAnswers

Add ==
    \E key \in Keys, conn \in Conns, select \in BOOLEAN :
        addToOutstandingCommands(key, conn, select)

ActCon ==
    \E key \in Keys, negative \in BOOLEAN :
        BelowMaxAnswers(key) /\ handleActCon(key, negative)

ActTerm ==
    \E key \in Keys : BelowMaxAnswers(key) /\ handleActTerm(key)

Purge == \E conn \in Conns : removeOutstandingCommands(conn)

OCNext ==
    \/ Add
    \/ ActCon
    \/ ActTerm
    \/ Purge
    \/ removeAllOutstandingCommands
    \/ removeTimedOutCommands
    \/ Tick

OCSpec == OCInit /\ [][OCNext]_ocVars

\* The clock advances and the monitoring thread, which loops every 100 ms,
\* keeps walking the list.
OCFairness == WF_ocVars(Tick) /\ WF_ocVars(removeTimedOutCommands)

OCFairSpec == OCSpec /\ OCFairness

-----------------------------------------------------------------------------
(* Properties *)

\* Every variable has its type; a command number is used at most once in the
\* list and only after it was given out.
OCTypeOK ==
    /\ outstanding \subseteq Entries
    /\ nextSeq \in 1 .. MaxCmds + 1
    /\ issued \in Seq(Requests)
    /\ Len(issued) = nextSeq - 1
    /\ answers \in [Commands -> Seq(Answers)]

\* ACT-TERM ends a command: whatever feedback the south side repeats or
\* reorders, handleActCon and handleActTerm hand lib60870 nothing more for a
\* command once its ACT-TERM is out.
ActTermIsFinal ==
    \A n \in Commands :
        \A i \in 1 .. Len(answers[n]) :
            answers[n][i] = "term" => i = Len(answers[n])

\* A select is answered at most once, even when the feedback for it is
\* delivered twice: handleActCon erases it with its first confirmation.
SelectAnsweredOnce ==
    \A n \in 1 .. nextSeq - 1 : issued[n].select => Len(answers[n]) =< 1

\* An answer is sent on the connection the command came from: the entry that
\* carries command n still names the connection, key and S/E bit it was
\* issued with, however many entries for the same key come and go around it.
EntryKeepsItsRequest ==
    \A e \in outstanding :
        /\ e.seq < nextSeq
        /\ issued[e.seq] = [key |-> e.key, conn |-> e.conn, select |-> e.select]
        /\ \A f \in outstanding : f.seq = e.seq => f = e

\* The list drains: no command waits for ever, whether or not the south side
\* ever answers, because the monitoring thread erases it after its deadline.
ListDrains ==
    \A n \in Commands :
        (\E e \in outstanding : e.seq = n) ~> (\A e \in outstanding : e.seq # n)
=============================================================================
