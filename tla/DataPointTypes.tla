--------------------------- MODULE DataPointTypes ---------------------------
(***************************************************************************)
(* The tables of ASDU types in iec104_datapoint.cpp.  Each switch of the   *)
(* code is a table of its own here, so that it can be checked whether they *)
(* agree.  A type id is named as in mapAsduTypeId, a data type by its      *)
(* member of m_value: IEC60870_TYPE_SP is "SP".                            *)
(***************************************************************************)

DataTypes == {"SP", "DP", "STEP_POS", "NORMALIZED", "SCALED", "SHORT"}

CommandTypes ==
    {"C_SC_NA_1", "C_SC_TA_1", "C_DC_NA_1", "C_DC_TA_1", "C_RC_NA_1", "C_RC_TA_1",
     "C_SE_NA_1", "C_SE_TA_1", "C_SE_NB_1", "C_SE_TB_1", "C_SE_NC_1", "C_SE_TC_1"}

MonitoringTypes ==
    {"M_SP_NA_1", "M_SP_TA_1", "M_SP_TB_1", "M_DP_NA_1", "M_DP_TA_1", "M_DP_TB_1",
     "M_ST_NA_1", "M_ST_TA_1", "M_ST_TB_1", "M_ME_NA_1", "M_ME_TA_1", "M_ME_TD_1",
     "M_ME_NB_1", "M_ME_TB_1", "M_ME_TE_1", "M_ME_NC_1", "M_ME_TC_1", "M_ME_TF_1"}

\* The type ids the plugin names but has no use for.
OtherTypes == {"M_BO_NA_1", "C_IC_NA_1", "unknown"}

TypeIds == CommandTypes \union MonitoringTypes \union OtherTypes

isSupportedCommandType(typeId) == typeId \in CommandTypes

isSupportedMonitoringType(typeId) == typeId \in MonitoringTypes

isCommandWithTimestamp(typeId) ==
    typeId \in {"C_SC_TA_1", "C_DC_TA_1", "C_RC_TA_1", "C_SE_TA_1", "C_SE_TB_1", "C_SE_TC_1"}

typeIdToDataType(typeId) ==
    CASE typeId \in {"M_SP_NA_1", "M_SP_TA_1", "M_SP_TB_1", "C_SC_NA_1", "C_SC_TA_1"} -> "SP"
      [] typeId \in {"M_DP_NA_1", "M_DP_TA_1", "M_DP_TB_1", "C_DC_NA_1", "C_DC_TA_1"} -> "DP"
      [] typeId \in {"M_ST_NA_1", "M_ST_TA_1", "M_ST_TB_1", "C_RC_NA_1", "C_RC_TA_1"} -> "STEP_POS"
      [] typeId \in {"M_ME_NA_1", "M_ME_TA_1", "M_ME_TD_1", "C_SE_NA_1", "C_SE_TA_1"} -> "NORMALIZED"
      [] typeId \in {"M_ME_NB_1", "M_ME_TB_1", "M_ME_TE_1", "C_SE_NB_1", "C_SE_TB_1"} -> "SCALED"
      [] typeId \in {"M_ME_NC_1", "M_ME_TC_1", "M_ME_TF_1", "C_SE_NC_1", "C_SE_TC_1"} -> "SHORT"
      [] OTHER -> "none"

\* The types of readings that isMessageTypeMatching takes for a data type: not
\* the ones with a CP24Time2a, and a command object counts as well.
ReadingTypes ==
    [SP         |-> {"M_SP_NA_1", "M_SP_TB_1"},
     DP         |-> {"M_DP_NA_1", "M_DP_TB_1"},
     NORMALIZED |-> {"M_ME_NA_1", "M_ME_TD_1"},
     SCALED     |-> {"M_ME_NB_1", "M_ME_TE_1"},
     SHORT      |-> {"M_ME_NC_1", "M_ME_TF_1"},
     STEP_POS   |-> {"M_ST_NA_1", "M_ST_TB_1"}]

\* Mistake: scaled and normalized values are confused.
isMessageTypeMatchingConfused(type, typeId) ==
    typeId \in ReadingTypes[IF type = "SCALED" THEN "NORMALIZED"
                            ELSE IF type = "NORMALIZED" THEN "SCALED" ELSE type]

isMessageTypeMatching(type, typeId) == typeId \in ReadingTypes[type]

\* The commands that isMatchingCommand takes for a command object.
ObjectCommands ==
    [SP         |-> {"C_SC_NA_1", "C_SC_TA_1"},
     DP         |-> {"C_DC_NA_1", "C_DC_TA_1"},
     STEP_POS   |-> {"C_RC_NA_1", "C_RC_TA_1"},
     NORMALIZED |-> {"C_SE_NA_1", "C_SE_TA_1"},
     SCALED     |-> {"C_SE_NB_1", "C_SE_TB_1"},
     SHORT      |-> {"C_SE_NC_1", "C_SE_TC_1"}]

isMatchingCommand(type, isCommand, typeId) == isCommand /\ typeId \in ObjectCommands[type]
=============================================================================
