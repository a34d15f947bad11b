--------------------------- MODULE CommandDialogue ---------------------------
(***************************************************************************)
(* What a client may rely on when it sends commands: the dialogue about    *)
(* one command, with no list, no threads, no clock and no connection       *)
(* events.  CommandPath implements it.                                     *)
(*                                                                         *)
(* A command on an idle key gets a confirmation or a refusal, never both.  *)
(* A confirmed execute gets at most one termination after that.  Silence   *)
(* is always possible: the plugin forgets a command without a word when    *)
(* its timeout passes or its connection ends.  Commands for one key that   *)
(* overlap are muddled: nothing is promised about their order, but they    *)
(* never affect the commands for another key.                              *)
(***************************************************************************)
EXTENDS Integers, Sequences

CONSTANTS
    Keys,       \* (type id, CA, IOA) triples
    Conns,      \* connections
    MaxCmds     \* bound: commands in one behaviour

VARIABLES
    issued,     \* what command n asked for
    phase,      \* where the dialogue about command n stands
    answers,    \* confirmations and terminations the client was sent
    refused     \* commands the plugin itself refused

dialogueVars == <<issued, phase, answers, refused>>

Commands == 1 .. MaxCmds

\* rejected: answered negatively, and not yet forgotten.
Phases == {"unsent", "pending", "confirmed", "rejected", "muddled", "ended"}

Init ==
    /\ issued = <<>>
    /\ phase = [n \in Commands |-> "unsent"]
    /\ answers = [n \in Commands |-> <<>>]
    /\ refused = {}

\* The dialogues about a key that have not ended.
Open(key) ==
    {n \in 1 .. Len(issued) : phase[n] # "ended" /\ issued[n].key = key}

Enter(n, p) == phase' = [phase EXCEPT ![n] = p]

Answer(n, kind) == answers' = [answers EXCEPT ![n] = Append(@, kind)]

Command(key, conn, select) ==
    /\ issued' = Append(issued, [key |-> key, conn |-> conn, select |-> select])
    /\ UNCHANGED <<answers, refused>>

SendToIdle(key, conn, select) ==
    /\ Len(issued) < MaxCmds
    /\ Open(key) = {}
    /\ Command(key, conn, select)
    /\ Enter(Len(issued) + 1, "pending")

\* The key may be busy although no dialogue about it is open: the south side
\* can still be working on a command the plugin has forgotten.
SendToBusy(key, conn, select) ==
    /\ Len(issued) < MaxCmds
    /\ Command(key, conn, select)
    /\ phase' = [n \in Commands |->
                    IF n \in Open(key) \union {Len(issued) + 1}
                      THEN "muddled" ELSE phase[n]]

Confirm(n) ==
    /\ UNCHANGED <<issued, refused>>
    /\ phase[n] = "pending"
    /\ Answer(n, "con")
    /\ IF issued[n].select
         THEN Enter(n, "ended")
         ELSE Enter(n, "confirmed") \/ Enter(n, "rejected")

Terminate(n) ==
    /\ UNCHANGED <<issued, refused>>
    /\ phase[n] = "confirmed"
    /\ Answer(n, "term")
    /\ Enter(n, "ended")

\* A refusal may come after the command was forgotten, never after a
\* confirmation was sent.
Refuse(n) ==
    /\ UNCHANGED <<issued, answers>>
    /\ phase[n] \in {"pending", "muddled", "ended"}
    /\ refused' = refused \union {n}
    /\ IF phase[n] = "pending" THEN Enter(n, "rejected") ELSE UNCHANGED phase

\* Overlapping commands take each other's answers.  A termination ends the
\* dialogue it reaches, and so does a confirmation that reaches a select.
AnswerMuddled(n) ==
    /\ UNCHANGED <<issued, refused>>
    /\ phase[n] = "muddled"
    /\ \E kind \in {"con", "term"} :
          /\ Answer(n, kind)
          /\ IF kind = "term" \/ issued[n].select
               THEN Enter(n, "ended") ELSE UNCHANGED phase

Forget(forgotten) ==
    /\ UNCHANGED <<issued, answers, refused>>
    /\ phase' = [n \in Commands |-> IF n \in forgotten THEN "ended" ELSE phase[n]]

Next ==
    \/ \E key \in Keys, conn \in Conns, select \in BOOLEAN :
          SendToIdle(key, conn, select) \/ SendToBusy(key, conn, select)
    \/ \E n \in 1 .. Len(issued) :
          Confirm(n) \/ Terminate(n) \/ Refuse(n) \/ AnswerMuddled(n)
    \/ \E forgotten \in SUBSET (1 .. Len(issued)) : Forget(forgotten)

Spec == Init /\ [][Next]_dialogueVars
=============================================================================
