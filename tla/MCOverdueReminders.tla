------------------------- MODULE MCOverdueReminders -------------------------
(***************************************************************************)
(* OverdueReminders for TLC: the thresholds 0, 7 and 30 scaled down, in    *)
(* the same order; two guardians, so that two runs can insert in different *)
(* orders.                                                                 *)
(***************************************************************************)
EXTENDS OverdueReminders, TLC

CONSTANTS g1, g2
HalfConnected == (g1 :> {"account", "phone", "email"}) @@ (g2 :> {"phone", "email"})
Scaled == [s \in REMINDER_STAGES |-> s - 1]
=============================================================================
