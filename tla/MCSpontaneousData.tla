-------------------------- MODULE MCSpontaneousData --------------------------
(* Instances of SpontaneousData for TLC. *)
EXTENDS SpontaneousData

Reading(address, typeId, kind, v, q, cot) ==
    [address |-> address, typeId |-> typeId, kind |-> kind, v |-> v,
     quality |-> q, cot |-> cot]

\* A scaled value and a command object of type single point.
ScaledAndCommand == [p \in {1, 2} |-> IF p = 1 THEN "SCALED" ELSE "SP"]

\* For the scaled value a good value, a bad one that does not fit (with a time),
\* a quality alone and that not to be reported, one of another type; for the
\* command object one value; one for an address without data point.
MixedReadings ==
    {Reading(1, "M_ME_NB_1", "integer", 5, "good", "SPONTANEOUS"),
     Reading(1, "M_ME_TE_1", "integer", 65531, "bad", "PERIODIC"),
     Reading(1, "M_ME_NB_1", "none", 0, "bad", "INTERROGATED_BY_STATION"),
     Reading(1, "M_ME_NA_1", "float", 5, "good", "SPONTANEOUS"),
     Reading(2, "M_SP_NA_1", "integer", 1, "good", "RETURN_INFO_REMOTE"),
     Reading(3, "M_SP_NA_1", "integer", 1, "good", "SPONTANEOUS")}
=============================================================================
