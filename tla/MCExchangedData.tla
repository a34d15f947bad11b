--------------------------- MODULE MCExchangedData ---------------------------
(* Instances of ExchangedData for TLC. *)
EXTENDS ExchangedData

Point(ca, ioa, type, groups) ==
    [ca |-> ca, ioa |-> ioa, type |-> type, command |-> FALSE, groups |-> groups]

Command(ca, ioa, type) ==
    [ca |-> ca, ioa |-> ioa, type |-> type, command |-> TRUE, groups |-> {}]

\* Two stations with an unknown CA between them.  The first has three points of
\* one type, which do not fit into one ASDU, one of another type between them,
\* one outside the station's group, and two command objects.
TwoStations ==
    {Point(1, 1, "SP", {20}), Point(1, 2, "SP", {20}), Point(1, 3, "DP", {20, 21}),
     Point(1, 4, "SP", {20}), Point(1, 5, "SP", {20}), Point(1, 6, "SP", {20}),
     Point(1, 7, "SP", {21}), Command(1, 8, "SP"), Command(1, 9, "SCALED"),
     Point(3, 1, "SHORT", {20, 21})}

\* Within the timeout of 10 ms, at its limits, beyond, where an int of 64 values
\* becomes negative, and close to where it is 0 again.
Ages == {-63, -33, -11, -10, 0, 10, 11, 31, 32, 63}

CommandsTo(ioas, typeIds, ages) ==
    [south : BOOLEAN, cot : {"ACTIVATION", "other"}, io : BOOLEAN, ca : CAs,
     originator : BOOLEAN, ioa : ioas, typeId : typeIds, age : ages]

Defects(cmd) ==
    {i \in 1 .. 4 : ~<<cmd.south, cmd.cot = "ACTIVATION", cmd.io, cmd.originator>>[i]}

\* Every command to a monitored point, a command object or no object, of either
\* station or of the unknown CA, with at most one thing wrong with it besides
\* its address and type; to a command object every type, and every age.
AllCommands ==
    {cmd \in CommandsTo({1, 9, 10}, {"C_SE_NB_1", "C_SE_TB_1", "C_SC_NA_1", "M_SP_NA_1"}, {0}) :
        Cardinality(Defects(cmd)) =< 1}
      \union
    {cmd \in CommandsTo({9}, CommandTypes, {0}) \union CommandsTo({9}, {"C_SE_TB_1"}, Ages) :
        Defects(cmd) = {} /\ cmd.ca = 1}

\* Commands that have nothing wrong with them but, perhaps, their address.
GoodCommands ==
    {cmd \in CommandsTo(IOAs, {"C_SC_NA_1"}, {0}) : Defects(cmd) = {}}

Unknown == {<<2, 1>>}

UnknownAndMissing == {<<2, 1>>, <<2, 8>>, <<1, 10>>}
=============================================================================
