----------------------------- MODULE CommandTime -----------------------------
(***************************************************************************)
(* The check of the time of a command: checkIfCmdTimeIsValid and           *)
(* checkTimestamp.  The age of a command is the server's clock minus its   *)
(* time tag, in milliseconds, negative for a time tag in the future.       *)
(***************************************************************************)
EXTENDS Integers

CONSTANTS
    CmdRecvTimeout,  \* cmd_recv_timeout, in seconds
    MsPerSecond,     \* 1000
    IntRange         \* the number of values of an int, 2^32

\* The code multiplies cmd_recv_timeout as an int: more than 2147483 seconds
\* are not meant to be configured, though nothing refuses them.
ASSUME TimeAssumption ==
    /\ CmdRecvTimeout \in Nat
    /\ MsPerSecond \in Nat
    /\ IntRange \in Nat \ {0} /\ IntRange % 2 = 0
    /\ 2 * (CmdRecvTimeout * MsPerSecond) < IntRange

RecvLimit == CmdRecvTimeout * MsPerSecond

\* A 64 bit difference of times, cast to int.
ToInt(x) == IF x % IntRange < IntRange \div 2 THEN x % IntRange
                                              ELSE (x % IntRange) - IntRange

Distance(age) == IF age < 0 THEN -age ELSE age

\* Mistake: what a cast made negative passes.
checkTimestampOneSided(age) == ToInt(Distance(age)) =< RecvLimit

checkTimestamp(age) ==
    LET timeDiff == ToInt(Distance(age))
    IN  ~(timeDiff > RecvLimit \/ timeDiff < 0)

\* No timeout accepts every time; a type without time has none that is valid.
checkIfCmdTimeIsValid(typeId, age) ==
    \/ CmdRecvTimeout = 0
    \/ /\ typeId \in {"C_SC_TA_1", "C_DC_TA_1", "C_RC_TA_1",
                      "C_SE_TA_1", "C_SE_TB_1", "C_SE_TC_1"}
       /\ checkTimestamp(age)
=============================================================================
