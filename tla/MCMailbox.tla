------------------------------ MODULE MCMailbox ------------------------------
(* Instances of Mailbox for TLC: mail from a user, an interrupt by jobmgr or *)
(* another agent, a relay that does not interrupt.                          *)
EXTENDS Mailbox, TLC

CONSTANTS m1, m2, m3, b1, b2, b3, b4

Mixed == m1 :> "user" @@ m2 :> "interrupt" @@ m3 :> "relay"
=============================================================================
