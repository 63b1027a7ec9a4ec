----------------------------- MODULE MCAlerting -----------------------------
(* A small instance of Alerting: two workers see incidents of one burst    *)
(* while two admins save the settings.                                     *)
EXTENDS Alerting, TLC

Setting(enabled, cooldown, email) ==
    [enabled |-> enabled, cooldown |-> cooldown, email |-> email]
MCEnv == Setting("true", 2, "soc")
\* Alerts off, and an empty address, for which the environment's is used;
\* either with a cooldown that is raised to 1.
MCForms == {Setting("false", 0, "soc"), Setting("true", 0, "")}

Symmetry == Permutations(Workers) \union Permutations(IPs) \union Permutations(Admins)
=============================================================================
