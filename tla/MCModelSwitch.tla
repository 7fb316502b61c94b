---------------------------- MODULE MCModelSwitch ----------------------------
(***************************************************************************)
(* Instances of ModelSwitch for TLC: a case within a service and one       *)
(* across services, with three models to ask for; and one case whose       *)
(* report is written by the other service.                                 *)
(***************************************************************************)
EXTENDS ModelSwitch

Runs(s, m) == [service |-> s, model |-> m]

EitherWay      == {[work   |-> Runs("claude", "opus"),
                    report |-> Runs("claude", "fable")],
                   [work   |-> Runs("chatgpt", "sol"),
                    report |-> Runs("claude", "opus")]}
AcrossServices == {[work   |-> Runs("claude", "opus"),
                    report |-> Runs("chatgpt", "sol")]}

=============================================================================
