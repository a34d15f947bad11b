----------------------------- MODULE CommandPath -----------------------------
(***************************************************************************)
(* The way of a command through the plugin, with everything that runs at   *)
(* the same time: a thread of lib60870 per connection (asduHandler,        *)
(* validateCommand, forwardCommand, and the connection events), the thread *)
(* that calls plugin_send with the feedback of the south side, and the     *)
(* monitoring thread.  It composes RedundancyGroups (what an event does to *)
(* the RedGroupCons) and OutstandingCommands (what happens to the list).   *)
(*                                                                         *)
(* The south side is a set of commands it has been given, each with the    *)
(* feedback it gives next: ACT-CON and then, for a confirmed execute, an   *)
(* ACT-TERM.  It may also never answer.                                    *)
(***************************************************************************)
EXTENDS OutstandingCommands, RedundancyGroups

CONSTANTS
    OperationMayFail  \* environment: may the operation callback return <= 0?

ASSUME OperationAssumption == OperationMayFail \in BOOLEAN

VARIABLES
    handler,        \* where asduHandler stands on each connection's thread
    south,          \* commands the south side works on
    orphans,        \* commands whose connection was closed since (history)
    refused,        \* commands answered negatively by asduHandler (history)
    clean           \* was the key idle when it was last commanded? (history)

cpVars == <<handler, south, orphans, refused, clean>>
vars == <<ocVars, rgVars, cpVars>>

-----------------------------------------------------------------------------
(* asduHandler *)

HandlerPcs == {"idle", "accepted", "added", "failed"}

AtPc(c, pc, n) == handler' = [handler EXCEPT ![c] = [pc |-> pc, seq |-> n]]

\* Nothing in the plugin or at the south side refers to the key any more.
KeyIdle(key) ==
    /\ \A e \in outstanding : e.key # key
    /\ \A x \in south : x.key # key
    /\ \A c \in Conns : handler[c].pc = "added" => issued[handler[c].seq].key # key

\* The bound MaxCmds leaves a number for every accepted command.
BelowMaxCmds ==
    nextSeq + Cardinality({c \in Conns : handler[c].pc = "accepted"}) =< MaxCmds

\* A command arrives on a started connection and validateCommand lets it pass.
\* (A command it rejects, because no south plugin is started or for any other
\* reason, is answered at once and changes nothing here.)
validateCommand(c) ==
    /\ handler[c].pc = "idle"
    /\ conn[c].state = "started"
    /\ BelowMaxCmds
    /\ AtPc(c, "accepted", 0)
    /\ UNCHANGED <<ocVars, rgVars, south, orphans, refused, clean>>

\* forwardCommand, first half: the command enters the list ...
ForwardAdd(c) ==
    /\ handler[c].pc = "accepted"
    /\ \E key \in Keys, select \in BOOLEAN :
          /\ addToOutstandingCommands(key, c, select)
          /\ clean' = [clean EXCEPT ![key] = KeyIdle(key)]
    /\ AtPc(c, "added", nextSeq)
    /\ UNCHANGED <<rgVars, south, orphans, refused>>

\* ... second half: the operation callback takes it and asduHandler returns
\* without a response ...
OperationAccepted(c) ==
    /\ handler[c].pc = "added"
    /\ LET n == handler[c].seq
       IN  south' = south \union {[seq |-> n, key |-> issued[n].key, next |-> "con"]}
    /\ AtPc(c, "idle", 0)
    /\ UNCHANGED <<ocVars, rgVars, orphans, refused, clean>>

\* ... or it fails and a negative ACT-CON follows.
OperationFailed(c) ==
    /\ OperationMayFail
    /\ handler[c].pc = "added"
    /\ AtPc(c, "failed", handler[c].seq)
    /\ UNCHANGED <<ocVars, rgVars, south, orphans, refused, clean>>

\* Mistake: the command number is read after it was cleared.
SendNegativeResponseTooLate(c) ==
    /\ handler[c].pc = "failed"
    /\ AtPc(c, "idle", 0)
    /\ refused' = refused \union {handler'[c].seq}
    /\ UNCHANGED <<ocVars, rgVars, south, orphans, clean>>

SendNegativeResponse(c) ==
    /\ handler[c].pc = "failed"
    /\ refused' = refused \union {handler[c].seq}
    /\ AtPc(c, "idle", 0)
    /\ UNCHANGED <<ocVars, rgVars, south, orphans, clean>>

-----------------------------------------------------------------------------
(* send: readings of the south side *)

FeedbackActCon(x, negative) ==
    /\ x.next = "con"
    /\ handleActCon(x.key, negative)
    /\ south' = (south \ {x}) \union
                  (IF negative \/ issued[x.seq].select
                     THEN {} ELSE {[x EXCEPT !.next = "term"]})
    /\ UNCHANGED <<rgVars, handler, orphans, refused, clean>>

FeedbackActTerm(x) ==
    /\ x.next = "term"
    /\ handleActTerm(x.key)
    /\ south' = south \ {x}
    /\ UNCHANGED <<rgVars, handler, orphans, refused, clean>>

\* The south side gives up, or send drops the reading because the server is
\* not running.
FeedbackLost(x) ==
    /\ south' = south \ {x}
    /\ UNCHANGED <<ocVars, rgVars, handler, orphans, refused, clean>>

-----------------------------------------------------------------------------
(* Connection events: the part of connectionEventHandler behind its early  *)
(* returns drops the commands of a connection that closes or is stopped.   *)
(* lib60870 raises an event in the thread of the connection it is about,   *)
(* between two calls of asduHandler, except that a connection is stopped   *)
(* by the thread of the one that takes over.                               *)

DropCommands(c) ==
    IF HasCurrentConnection(conn[c].ip, conn[c].port)
      THEN removeOutstandingCommands(c)
      ELSE UNCHANGED ocVars

IssuedOn(c) == {n \in 1 .. nextSeq - 1 : issued[n].conn = c}

InOwnThread(c) == handler[c].pc = "idle"

Start == startSlave /\ UNCHANGED <<ocVars, cpVars>>

Open(c) ==
    /\ \E ip \in IPs, port \in Ports : Opened(c, ip, port)
    /\ UNCHANGED <<ocVars, cpVars>>

\* Mistake: the commands of the connection stay in the list.
CloseKeepsCommands(c) ==
    /\ InOwnThread(c)
    /\ Closed(c)
    /\ orphans' = orphans \union IssuedOn(c)
    /\ UNCHANGED <<ocVars, handler, south, refused, clean>>

Close(c) ==
    /\ InOwnThread(c)
    /\ Closed(c)
    /\ DropCommands(c)
    /\ orphans' = orphans \union IssuedOn(c)
    /\ UNCHANGED <<handler, south, refused, clean>>

RequestStart(c) == InOwnThread(c) /\ StartDT(c) /\ UNCHANGED <<ocVars, cpVars>>

TakeOver(c, d) == Supersede(c, d) /\ DropCommands(d) /\ UNCHANGED cpVars

Activate(c) == Activated(c) /\ UNCHANGED <<ocVars, cpVars>>

RequestStop(c) == InOwnThread(c) /\ StopDT(c) /\ DropCommands(c) /\ UNCHANGED cpVars

-----------------------------------------------------------------------------
(* The monitoring thread and the clock *)

Monitor == removeTimedOutCommands /\ UNCHANGED <<rgVars, cpVars>>

ClockTick == Tick /\ UNCHANGED <<rgVars, cpVars>>

-----------------------------------------------------------------------------

Init ==
    /\ OCInit
    /\ RGInit
    /\ handler = [c \in Conns |-> [pc |-> "idle", seq |-> 0]]
    /\ south = {}
    /\ orphans = {}
    /\ refused = {}
    /\ clean = [k \in Keys |-> TRUE]

AsduHandler(c) ==
    \/ validateCommand(c)
    \/ ForwardAdd(c)
    \/ OperationAccepted(c)
    \/ OperationFailed(c)
    \/ SendNegativeResponse(c)

Feedback ==
    \E x \in south :
        \/ \E negative \in BOOLEAN : FeedbackActCon(x, negative)
        \/ FeedbackActTerm(x)
        \/ FeedbackLost(x)

ConnectionEvent(c) ==
    \/ Open(c)
    \/ Close(c)
    \/ RequestStart(c)
    \/ Activate(c)
    \/ RequestStop(c)
    \/ \E d \in Conns : TakeOver(c, d)

Next ==
    \/ Start
    \/ \E c \in Conns : AsduHandler(c) \/ ConnectionEvent(c)
    \/ Feedback
    \/ Monitor
    \/ ClockTick

Spec == Init /\ [][Next]_vars

-----------------------------------------------------------------------------
(* What a client sees of it: the dialogue about each command. *)

PhaseOfEntry(e) ==
    CASE ~clean[e.key]                                     -> "muddled"
      [] clean[e.key] /\ (e.state = 0 \/ e.seq \in refused) -> "rejected"
      [] clean[e.key] /\ e.state = 1 /\ e.seq \notin refused -> "pending"
      [] clean[e.key] /\ e.state = 2 /\ e.seq \notin refused -> "confirmed"

PhaseOf(n) ==
    IF n >= nextSeq THEN "unsent"
    ELSE IF \E e \in outstanding : e.seq = n
      THEN PhaseOfEntry(CHOOSE e \in outstanding : e.seq = n)
      ELSE "ended"

Dialogue == INSTANCE CommandDialogue WITH phase <- [n \in Commands |-> PhaseOf(n)]

-----------------------------------------------------------------------------
(* Properties *)

\* The command path keeps the dialogue it promises a client: with the list, the
\* threads, timeouts, take-overs and lost feedback, every step is a step of
\* CommandDialogue or invisible in it.  Commands on idle keys are confirmed or
\* refused once, terminated only when confirmed, and never disturbed by commands
\* that overlap on another key.
KeepsDialogue == Dialogue!Spec

\* Every variable of this module has its type.
CPTypeOK ==
    /\ handler \in [Conns -> [pc : HandlerPcs, seq : 0 .. MaxCmds]]
    /\ south \subseteq [seq : Commands, key : Keys, next : {"con", "term"}]
    /\ orphans \subseteq Commands
    /\ refused \subseteq Commands
    /\ clean \in [Keys -> BOOLEAN]

\* Feedback reaches the command it is about, as long as a key was idle (no
\* entry, nothing at the south side, no operation about to be made) when it
\* was last commanded: first-match on (type, CA, IOA) is then unambiguous,
\* whatever the threads, timeouts, take-overs and lost feedback do.
FeedbackReachesItsCommand ==
    [][\A x \in south \ south', n \in Commands :
          clean[x.key] /\ answers'[n] # answers[n] => n = x.seq]_vars

\* A client that commands idle keys sees its answers in order: ACT-TERM is only
\* sent for a command that has had its positive ACT-CON, although handleActTerm
\* never looks at m_state.
ActTermFollowsActCon ==
    [][\A e \in outstanding :
          clean[e.key] /\ answers'[e.seq] = Append(answers[e.seq], "term")
              => e.state = 2 /\ answers[e.seq] = <<"con">>]_vars

\* Every client that may connect has a RedGroupCon: there is no group for all
\* others, whose connection events are ignored.
EveryClientIsListed == \A ip \in IPs : Accepts(ip) => SlotsOf(ip) # {}

\* An outstanding command never outlives the connection it came on: whenever
\* the list holds a command, its connection object is open and still serves
\* the client that sent it, although the library reuses the object and a
\* take-over can purge the list while asduHandler is about to add to it.  (A
\* client that is not listed, or that has more connections than entries, would
\* have a connection without RedGroupCon, whose events are ignored.)
CommandsOnLiveConnections ==
    kept /\ EveryClientIsListed =>
        \A e \in outstanding : IsOpen(e.conn) /\ e.seq \notin orphans

\* The client is answered by asduHandler or by feedback, never by both:
\* "send ACT-CON later when south side feedback is received" is the branch of
\* a command that was forwarded.
RefusedIsNotAnswered ==
    [][\A n \in refused : answers'[n] = answers[n]]_vars
=============================================================================
