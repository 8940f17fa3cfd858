----------------------------- MODULE ChainCache -----------------------------
(***************************************************************************)
(* The dispatcher's software chain cache, ChainCache of                    *)
(* crates/nx86-backend/src/chain.rs: it counts how often an edge between   *)
(* two blocks is taken and, once an edge is hot, chains the source to that *)
(* target.  direct_chains and its reverse index incoming are two separate  *)
(* hash maps kept in step by hand.                                         *)
(*                                                                         *)
(* A map entry that is absent is NoPc (direct_chains), the empty set       *)
(* (incoming, whose code removes a set that becomes empty) or 0            *)
(* (hot_edges, whose code never stores 0).  The diagnostic counters of     *)
(* ChainStats are left out.                                                *)
(***************************************************************************)
EXTENDS Naturals

CONSTANTS Pc,         \* guest entry addresses of blocks
          NoPc,       \* absent entry of direct_chains
          Threshold,  \* the threshold argument of ChainCache::new
          CountMax    \* u32::MAX, where an edge count saturates

ASSUME NoPcAssumption == NoPc \notin Pc
ASSUME CountAssumption == /\ Threshold \in Nat
                          /\ CountMax \in Nat \ {0}
                          /\ Threshold <= CountMax

VARIABLES enabled, hot_edges, direct_chains, incoming

vars == <<enabled, hot_edges, direct_chains, incoming>>

threshold == IF Threshold = 0 THEN 1 ELSE Threshold

NoEdges == [e \in Pc \X Pc |-> 0]
NoChains == [s \in Pc |-> NoPc]
NoSources == [t \in Pc |-> {}]

TypeOK == /\ enabled \in BOOLEAN
          /\ hot_edges \in [Pc \X Pc -> 0..CountMax]
          /\ direct_chains \in [Pc -> Pc \cup {NoPc}]
          /\ incoming \in [Pc -> SUBSET Pc]

Init == /\ enabled = TRUE
        /\ hot_edges = NoEdges
        /\ direct_chains = NoChains
        /\ incoming = NoSources

-----------------------------------------------------------------------------
(* remove_outgoing(source): the chain map and the reverse index without    *)
(* the chain leaving source.                                               *)
ChainsWithout(source) == [direct_chains EXCEPT ![source] = NoPc]

(* Mutant: remove_outgoing forgets the reverse index. *)
IncomingUntouched(source) == incoming

IncomingWithout(source) ==
    [t \in Pc |-> IF t = direct_chains[source] THEN incoming[t] \ {source}
                                               ELSE incoming[t]]

(* count.saturating_add(1) *)
CountAfter(source, target) ==
    IF hot_edges[<<source, target>>] = CountMax
      THEN CountMax ELSE hot_edges[<<source, target>>] + 1

Chained(source, target) == direct_chains[source] = target

(* hit() answers whether the cached chain agrees with the successor taken. *)
Hit(source, target) == enabled /\ Chained(source, target)

(* What observe() returns. *)
Installs(source, target) == /\ enabled
                            /\ ~Chained(source, target)
                            /\ CountAfter(source, target) >= threshold

(* Mutant: a hot edge is observed and chained while the switch is off. *)
ObserveUnguarded(source, target) ==
    /\ ~Chained(source, target)
    /\ hot_edges' = [hot_edges EXCEPT ![<<source, target>>] =
                                          CountAfter(source, target)]
    /\ direct_chains' = IF hot_edges'[<<source, target>>] >= threshold
                           THEN [direct_chains EXCEPT ![source] = target]
                           ELSE direct_chains
    /\ UNCHANGED <<enabled, incoming>>

Observe(source, target) ==
    \/ /\ ~enabled \/ Chained(source, target)
       /\ UNCHANGED vars
    \/ /\ enabled
       /\ ~Chained(source, target)
       /\ hot_edges' = [hot_edges EXCEPT ![<<source, target>>] =
                                             CountAfter(source, target)]
       /\ UNCHANGED enabled
       /\ IF Installs(source, target)
            THEN /\ direct_chains' = [ChainsWithout(source) EXCEPT
                                          ![source] = target]
                 /\ incoming' = [IncomingWithout(source) EXCEPT
                                     ![target] = @ \cup {source}]
            ELSE UNCHANGED <<direct_chains, incoming>>

(* Mutant: the counts of pc are dropped but its incoming chains stay. *)
InvalidateOutgoingOnly(pc) ==
    /\ direct_chains' = ChainsWithout(pc)
    /\ incoming' = IncomingWithout(pc)
    /\ hot_edges' = [e \in Pc \X Pc |-> IF e[1] = pc \/ e[2] = pc
                                          THEN 0 ELSE hot_edges[e]]
    /\ UNCHANGED enabled

(* invalidate(pc): the outgoing chain goes first, then every chain the     *)
(* reverse index still lists for pc.                                       *)
Invalidate(pc) ==
    LET sources == IncomingWithout(pc)[pc]
    IN  /\ direct_chains' = [s \in Pc |-> IF s \in sources THEN NoPc
                                          ELSE ChainsWithout(pc)[s]]
        /\ incoming' = [IncomingWithout(pc) EXCEPT ![pc] = {}]
        /\ hot_edges' = [e \in Pc \X Pc |-> IF e[1] = pc \/ e[2] = pc
                                              THEN 0 ELSE hot_edges[e]]
        /\ UNCHANGED enabled

SetEnabled(value) ==
    /\ enabled' = value
    /\ IF value
         THEN UNCHANGED <<hot_edges, direct_chains, incoming>>
         ELSE /\ hot_edges' = NoEdges
              /\ direct_chains' = NoChains
              /\ incoming' = NoSources

Next == \/ \E source, target \in Pc : Observe(source, target)
        \/ \E pc \in Pc : Invalidate(pc)
        \/ \E value \in BOOLEAN : SetEnabled(value)

Spec == Init /\ [][Next]_vars

-----------------------------------------------------------------------------
(* The reverse index is exact: source is listed under target precisely     *)
(* when source is chained to target.  invalidate() finds the chains it     *)
(* must cut through this index alone, so a missing entry would leave a     *)
(* chain into a removed block and an extra one would cut a good chain.     *)
IncomingExact ==
    \A source, target \in Pc :
        (direct_chains[source] = target) <=> (source \in incoming[target])

(* A chain is only ever backed by a hot edge: dropping the counts of an    *)
(* invalidated block must not leave a chain the counts no longer justify.  *)
ChainIsHot ==
    \A source, target \in Pc :
        direct_chains[source] = target => hot_edges[<<source, target>>] >= threshold

(* The cache implements the abstract partial map of chains. *)
Abstract == INSTANCE ChainMap WITH on <- enabled, chain <- direct_chains
ImplementsChainMap == Abstract!Spec
=============================================================================
