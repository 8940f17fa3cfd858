------------------------------ MODULE ChainMap ------------------------------
(***************************************************************************)
(* What the software chain cache promises the dispatcher: a switch, and a  *)
(* partial map from a block to the one successor it is chained to.  A      *)
(* chain appears only by installation while the switch is on, and goes     *)
(* only by being replaced, severed with one of its ends, or switched off.  *)
(* The abstract counterpart of ChainCache.                                 *)
(***************************************************************************)

CONSTANTS Pc,    \* guest entry addresses
          NoPc   \* "not chained"

VARIABLES on,      \* chaining is enabled
          chain    \* chain[s]: the successor s is chained to, or NoPc

vars == <<on, chain>>

Init == /\ on = TRUE
        /\ chain = [s \in Pc |-> NoPc]

Install(s, t) == /\ on
                 /\ chain[s] # t
                 /\ chain' = [chain EXCEPT ![s] = t]
                 /\ UNCHANGED on

Sever(pc) == /\ chain' = [s \in Pc |-> IF s = pc \/ chain[s] = pc
                                         THEN NoPc ELSE chain[s]]
             /\ UNCHANGED on

SwitchOff == /\ on' = FALSE
             /\ chain' = [s \in Pc |-> NoPc]

SwitchOn == /\ on' = TRUE
            /\ UNCHANGED chain

Next == \/ \E s, t \in Pc : Install(s, t)
        \/ \E pc \in Pc : Sever(pc)
        \/ SwitchOff
        \/ SwitchOn

Spec == Init /\ [][Next]_vars
=============================================================================
