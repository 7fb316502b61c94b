--------------------------- MODULE MCRecordsSwitch ---------------------------
(***************************************************************************)
(* Larger instances, for TLC, of the two services that have most to        *)
(* interleave, one in each behaviour: the sheriff with two deputies that   *)
(* close cases in one precinct, while it is deleted, restored, edited and  *)
(* purged; and a case whose deputy switches its model, with three models   *)
(* to ask for, within a service or across services.                        *)
(***************************************************************************)
EXTENDS Sheriff, MCModelSwitch

VARIABLE part

partVars == <<part, lawVars, swVars>>

-----------------------------------------------------------------------------
(* The constants.                                                          *)

RequestTo(op, force) ==
    [op |-> op, p |-> "p", case |-> "c", force |-> force, authorized |-> TRUE]
RecordRequests == <<RequestTo("precinct_delete", TRUE), RequestTo("precinct_restore", TRUE),
                    RequestTo("log_remove", TRUE)>>
TwoCases == [c |-> "p", d |-> "p"]

-----------------------------------------------------------------------------
(* The specification.                                                      *)

Init ==
    /\ part \in {"sheriff", "switch"}
    /\ LawInit
    /\ SwInit /\ (part = "switch" \/ lanes.split = CHOOSE s \in Splits : TRUE)

Next ==
    \/ part = "sheriff" /\ LawNext /\ UNCHANGED <<part, swVars>>
    \/ part = "switch"  /\ SwNext  /\ UNCHANGED <<part, lawVars>>

Spec == Init /\ [][Next]_partVars

=============================================================================
