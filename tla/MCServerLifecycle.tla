------------------------- MODULE MCServerLifecycle --------------------------
(***************************************************************************)
(* Configurations for the TLC runs of ServerLifecycle.                     *)
(***************************************************************************)
EXTENDS ServerLifecycleProperties

CONSTANTS t1, t2, n1, n2

Config(t, n, static, safe) == [template |-> t, subnet |-> n, static |-> static, safe |-> safe]

(* Changes of template, subnet and kind of address.                        *)
Changes ==
    { Config(t1, n1, FALSE, FALSE), Config(t1, n2, TRUE, FALSE), Config(t2, n1, FALSE, TRUE) }

OneConfig == {Config(t1, n1, FALSE, FALSE)}

=============================================================================
