------------------------- MODULE MCDiagnosticsCache -------------------------
(* DiagnosticsCache with one rule.  "plain" has no override; "scoped" has   *)
(* one that enables the rule for the target, which the profile does not.   *)
EXTENDS DiagnosticsCache

Plain  == [profile |-> {"r"}, override |-> FALSE, on |-> {}, off |-> {}]
Scoped == [profile |-> {}, override |-> TRUE, on |-> {"r"}, off |-> {}]

AllConfigs == {Plain, Scoped}
AllFlags   == {NoFlags, [on |-> {}, off |-> {"r"}]}
=============================================================================
