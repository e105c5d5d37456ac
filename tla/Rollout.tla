------------------------------ MODULE Rollout ------------------------------
(***************************************************************************)
(* What synchronized_updates promises of a rolling update, without saying  *)
(* how: the nodes are taken out of service one after the other, by turns;  *)
(* a turn that leaves its node out of service ends the rollout.            *)
(***************************************************************************)
CONSTANTS Node, NoNode

VARIABLES
    turn,       \* the node whose turn it is, or NoNode
    halted,     \* the rollout takes no further turns
    out         \* the nodes that are out of service

vars == <<turn, halted, out>>

Init ==
    /\ turn = NoNode
    /\ halted = FALSE
    /\ out = {}

(* A turn starts only while every node is in service.                      *)
Begin(n) ==
    /\ turn = NoNode /\ ~halted /\ out = {}
    /\ turn' = n
    /\ UNCHANGED <<halted, out>>

Work(n) ==
    /\ turn = n
    /\ out' \in {{}, {n}}
    /\ UNCHANGED <<turn, halted>>

End(n) ==
    /\ turn = n
    /\ turn' = NoNode
    /\ out' \in {{}, {n}}
    /\ halted' \in {halted, TRUE}
    /\ out' # {} => halted'

(* An error outside of any turn, or before it, stops the rollout too.      *)
Halt ==
    /\ halted' = TRUE
    /\ UNCHANGED <<turn, out>>

(* A node that was left out of service may come back late.                 *)
Recover ==
    /\ out' = {}
    /\ UNCHANGED <<turn, halted>>

Next ==
    \/ \E n \in Node : Begin(n) \/ Work(n) \/ End(n)
    \/ Halt
    \/ Recover

Spec == Init /\ [][Next]_vars

-----------------------------------------------------------------------------
TypeOK ==
    /\ turn \in Node \cup {NoNode}
    /\ halted \in BOOLEAN
    /\ out \subseteq Node

(* Never two nodes out of service, not even after failures.                *)
AtMostOneOut == \A m, n \in out : m = n

(* The inductive invariant: whoever is out either has the turn or has      *)
(* ended the rollout.                                                      *)
Inv ==
    /\ TypeOK
    /\ AtMostOneOut
    /\ turn \in Node => out \subseteq {turn}
    /\ turn = NoNode /\ out # {} => halted

=============================================================================
