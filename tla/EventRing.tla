------------------------------ MODULE EventRing ------------------------------
(***************************************************************************)
(* One of the two event rings of crates/nx86-vmm/src/smc_signal.rs: a      *)
(* fixed array with a head and a tail index, pushed to by the signal       *)
(* handler and drained by the dispatch loop.  One slot always stays free,  *)
(* so that equal indices mean an empty ring.                               *)
(***************************************************************************)
EXTENDS Naturals, Sequences

CONSTANTS Item,
          Slots     \* MAX_SMC_EVENTS

VARIABLES slots, head, tail

ring == <<slots, head, tail>>

Index == 0..(Slots - 1)

TypeOK == /\ slots \in [Index -> Item]
          /\ head \in Index
          /\ tail \in Index

(* The array starts out zeroed; nothing looks at a slot before it is filled. *)
Init == /\ slots = [i \in Index |-> CHOOSE v \in Item : TRUE]
        /\ head = 0
        /\ tail = 0

After(i) == (i + 1) % Slots

Full == After(tail) = head

(* Mutant: the slot after the free one is filled. *)
SecondFreeSlot == After(tail)

FreeSlot == tail

Push(v) == /\ ~Full
           /\ slots' = [slots EXCEPT ![FreeSlot] = v]
           /\ tail' = After(tail)
           /\ UNCHANGED head

Count == IF tail >= head THEN tail - head ELSE Slots - (head - tail)

(* The values a drain collects, oldest first. *)
Contents == [i \in 1..Count |-> slots[(head + i - 1) % Slots]]

Drain == /\ head' = tail
         /\ UNCHANGED <<slots, tail>>
=============================================================================
