-------------------------- MODULE ChainCacheProofs --------------------------
(***************************************************************************)
(* Proofs about ChainCache, for every set of blocks, threshold and count   *)
(* bound: the type invariant, the exactness of the reverse index, the      *)
(* hotness of every chain, and the refinement of ChainMap.                 *)
(***************************************************************************)
EXTENDS ChainCache, TLAPS

(* Incrementing an edge count keeps it a u32. *)
LEMMA CountBounded ==
    ASSUME TypeOK, NEW source \in Pc, NEW target \in Pc
    PROVE  CountAfter(source, target) \in 0..CountMax
<1> DEFINE c == hot_edges[<<source, target>>]
<1>1. c \in 0..CountMax
  BY DEF TypeOK
<1> HIDE DEF c
<1>2. (IF c = CountMax THEN CountMax ELSE c + 1) \in 0..CountMax
  BY <1>1, CountAssumption
<1> QED
  BY <1>2 DEF CountAfter, c

LEMMA StepTyped == TypeOK /\ [Next]_vars => TypeOK'
<1> SUFFICES ASSUME TypeOK, [Next]_vars
             PROVE  TypeOK'
  OBVIOUS
<1>1. CASE \E source, target \in Pc : Observe(source, target)
  <2> PICK source \in Pc, target \in Pc : Observe(source, target)
    BY <1>1
  <2>1. CountAfter(source, target) \in 0..CountMax
    BY CountBounded
  <2>2. CASE ~enabled \/ Chained(source, target)
    BY <2>2 DEF Observe, TypeOK, vars
  <2>3. CASE enabled /\ ~Chained(source, target)
    <3>1. hot_edges' \in [Pc \X Pc -> 0..CountMax]
      BY <2>1, <2>3, Zenon DEF Observe, TypeOK
    <3>2. CASE Installs(source, target)
      <4>1. direct_chains' \in [Pc -> Pc \cup {NoPc}]
        BY <2>3, <3>2 DEF Observe, TypeOK, ChainsWithout
      <4>2. IncomingWithout(source) \in [Pc -> SUBSET Pc]
        BY DEF IncomingWithout, TypeOK
      <4>3. incoming' = [IncomingWithout(source) EXCEPT
                           ![target] = IncomingWithout(source)[target]
                                         \cup {source}]
        BY <2>3, <3>2 DEF Observe
      <4>4. IncomingWithout(source)[target] \cup {source} \in SUBSET Pc
        BY <4>2
      <4>5. incoming' \in [Pc -> SUBSET Pc]
        BY <4>2, <4>3, <4>4, Zenon
      <4> QED
        BY <2>3, <3>1, <4>1, <4>5 DEF Observe, TypeOK
    <3>3. CASE ~Installs(source, target)
      BY <2>3, <3>1, <3>3 DEF Observe, TypeOK
    <3> QED
      BY <3>2, <3>3
  <2> QED
    BY <2>2, <2>3
<1>2. CASE \E pc \in Pc : Invalidate(pc)
  <2> PICK pc \in Pc : Invalidate(pc)
    BY <1>2
  <2>1. hot_edges' \in [Pc \X Pc -> 0..CountMax]
    BY CountAssumption DEF Invalidate, TypeOK
  <2>2. direct_chains' \in [Pc -> Pc \cup {NoPc}]
    BY DEF Invalidate, TypeOK, ChainsWithout
  <2>3. incoming' \in [Pc -> SUBSET Pc]
    BY DEF Invalidate, TypeOK, IncomingWithout
  <2> QED
    BY <2>1, <2>2, <2>3 DEF Invalidate, TypeOK
<1>3. CASE \E value \in BOOLEAN : SetEnabled(value)
  BY <1>3, CountAssumption
  DEF SetEnabled, TypeOK, NoEdges, NoChains, NoSources
<1>4. CASE UNCHANGED vars
  BY <1>4 DEF vars, TypeOK
<1> QED
  BY <1>1, <1>2, <1>3, <1>4 DEF Next

(* The variables stay in their types: the counts saturate instead of       *)
(* passing u32::MAX, and both maps only mention known blocks.              *)
THEOREM TypeCorrect == Spec => []TypeOK
<1>1. Init => TypeOK
  BY CountAssumption DEF Init, TypeOK, NoEdges, NoChains, NoSources
<1> QED
  BY <1>1, StepTyped, PTL DEF Spec

-----------------------------------------------------------------------------
(* What Observe and Invalidate do to each single entry of the two maps.    *)
LEMMA ObserveInstalled ==
    ASSUME TypeOK, NEW source \in Pc, NEW target \in Pc,
           Observe(source, target), Installs(source, target)
    PROVE  /\ ~Chained(source, target)
           /\ hot_edges'[<<source, target>>] >= threshold
           /\ \A e \in Pc \X Pc :
                 e # <<source, target>> => hot_edges'[e] = hot_edges[e]
           /\ \A s \in Pc : direct_chains'[s] =
                 IF s = source THEN target ELSE direct_chains[s]
           /\ \A s, t \in Pc : s \in incoming'[t] <=>
                 \/ s = source /\ t = target
                 \/ /\ s \in incoming[t]
                    /\ ~(s = source /\ t = direct_chains[source])
<1>1. ~Chained(source, target) /\ enabled
  BY DEF Installs
<1>2. hot_edges' = [hot_edges EXCEPT ![<<source, target>>] =
                                         CountAfter(source, target)]
  BY <1>1 DEF Observe
<1>3. direct_chains' = [ChainsWithout(source) EXCEPT ![source] = target]
  BY <1>1 DEF Observe
<1>4. incoming' = [IncomingWithout(source) EXCEPT ![target] =
                     IncomingWithout(source)[target] \cup {source}]
  BY <1>1 DEF Observe
<1>5. hot_edges \in [Pc \X Pc -> 0..CountMax]
  BY DEF TypeOK
<1>6. hot_edges'[<<source, target>>] = CountAfter(source, target)
  BY <1>2, <1>5, Zenon
<1>7. hot_edges'[<<source, target>>] >= threshold
  BY <1>6 DEF Installs
<1>8. \A e \in Pc \X Pc :
         e # <<source, target>> => hot_edges'[e] = hot_edges[e]
  BY <1>2, <1>5, Zenon
<1>9. \A s \in Pc : direct_chains'[s] =
          IF s = source THEN target ELSE direct_chains[s]
  BY <1>3 DEF TypeOK, ChainsWithout
<1>10. \A t \in Pc : incoming'[t] =
          IF t = target THEN IncomingWithout(source)[target] \cup {source}
                        ELSE IncomingWithout(source)[t]
  BY <1>4 DEF IncomingWithout
<1>11. \A s, t \in Pc : s \in incoming'[t] <=>
                 \/ s = source /\ t = target
                 \/ /\ s \in incoming[t]
                    /\ ~(s = source /\ t = direct_chains[source])
  BY <1>1, <1>10 DEF IncomingWithout, Chained
<1> QED
  BY <1>1, <1>7, <1>8, <1>9, <1>11

LEMMA InvalidateEffect ==
    ASSUME TypeOK, IncomingExact, NEW pc \in Pc, Invalidate(pc)
    PROVE  /\ \A s \in Pc : direct_chains'[s] =
                 IF s = pc \/ direct_chains[s] = pc
                   THEN NoPc ELSE direct_chains[s]
           /\ \A s, t \in Pc : s \in incoming'[t] <=>
                 s \in incoming[t] /\ s # pc /\ t # pc
           /\ \A s, t \in Pc : s # pc /\ t # pc =>
                 hot_edges'[<<s, t>>] = hot_edges[<<s, t>>]
<1>1. \A s \in Pc : s \in IncomingWithout(pc)[pc] <=>
          s # pc /\ direct_chains[s] = pc
  BY DEF IncomingWithout, IncomingExact, TypeOK
<1>2. \A s \in Pc : direct_chains'[s] =
          IF s = pc \/ direct_chains[s] = pc THEN NoPc ELSE direct_chains[s]
  <2>1. \A s \in Pc : direct_chains'[s] =
            IF s \in IncomingWithout(pc)[pc]
              THEN NoPc ELSE ChainsWithout(pc)[s]
    BY DEF Invalidate
  <2> QED
    BY <1>1, <2>1 DEF ChainsWithout, TypeOK
<1>3. \A s, t \in Pc : s \in incoming'[t] <=>
          s \in incoming[t] /\ s # pc /\ t # pc
  <2>1. \A t \in Pc : incoming'[t] =
            IF t = pc THEN {} ELSE IncomingWithout(pc)[t]
    BY DEF Invalidate, IncomingWithout
  <2>2. \A s, t \in Pc : s \in IncomingWithout(pc)[t] <=>
            s \in incoming[t] /\ ~(s = pc /\ t = direct_chains[pc])
    BY DEF IncomingWithout
  <2>3. \A t \in Pc : pc \in incoming[t] <=> t = direct_chains[pc]
    BY DEF IncomingExact
  <2>4. \A s, t \in Pc : t # pc /\ s \in IncomingWithout(pc)[t] <=>
            s \in incoming[t] /\ s # pc /\ t # pc
    BY <2>2, <2>3
  <2> QED
    BY <2>1, <2>4
<1>4. \A s, t \in Pc : s # pc /\ t # pc =>
          hot_edges'[<<s, t>>] = hot_edges[<<s, t>>]
  BY DEF Invalidate
<1> QED
  BY <1>2, <1>3, <1>4

(* The inductive invariant: type, exact index and hot chains together.     *)
(* The index alone is inductive once types are known; hotness needs it,    *)
(* because Invalidate drops the counts of every edge that touches pc but   *)
(* finds the chains into pc only through the index.                        *)
Inv == TypeOK /\ IncomingExact /\ ChainIsHot

(* Every step other than an observation or an invalidation. *)
LEMMA SwitchKeepsInv ==
    ASSUME Inv, NEW value \in BOOLEAN, SetEnabled(value)
    PROVE  IncomingExact' /\ ChainIsHot'
<1>1. CASE value
  BY <1>1 DEF SetEnabled, Inv, IncomingExact, ChainIsHot
<1>2. CASE ~value
  <2>1. \A s \in Pc : direct_chains'[s] = NoPc /\ incoming'[s] = {}
    BY <1>2 DEF SetEnabled, NoChains, NoSources
  <2> QED
    BY <2>1, NoPcAssumption DEF IncomingExact, ChainIsHot
<1> QED
  BY <1>1, <1>2

LEMMA StepKeepsInv == Inv /\ [Next]_vars => IncomingExact' /\ ChainIsHot'
<1> SUFFICES ASSUME Inv, [Next]_vars
             PROVE  IncomingExact' /\ ChainIsHot'
  OBVIOUS
<1> USE DEF Inv
<1>1. CASE \E source, target \in Pc : Observe(source, target)
  <2> PICK source \in Pc, target \in Pc : Observe(source, target)
    BY <1>1
  <2>1. CASE Installs(source, target)
    <3>1. IncomingExact'
      <4>1. \A s \in Pc : direct_chains'[s] =
                IF s = source THEN target ELSE direct_chains[s]
        BY <2>1, ObserveInstalled
      <4>2. \A s, t \in Pc : s \in incoming'[t] <=>
                \/ s = source /\ t = target
                \/ /\ s \in incoming[t]
                   /\ ~(s = source /\ t = direct_chains[source])
        BY <2>1, ObserveInstalled
      <4>3. \A t \in Pc : source \in incoming'[t] <=> t = target
        BY <4>2 DEF IncomingExact
      <4> QED
        BY <4>1, <4>2, <4>3 DEF IncomingExact
    <3>2. ChainIsHot'
      <4> SUFFICES ASSUME NEW s \in Pc, NEW t \in Pc, direct_chains'[s] = t
                   PROVE  hot_edges'[<<s, t>>] >= threshold
        BY DEF ChainIsHot, threshold
      <4>1. CASE s = source
        BY <2>1, <4>1, ObserveInstalled
      <4>2. CASE s # source
        <5>1. direct_chains[s] = t
          BY <2>1, <4>2, ObserveInstalled
        <5>2. hot_edges[<<s, t>>] >= threshold
          BY <5>1 DEF ChainIsHot
        <5>3. hot_edges'[<<s, t>>] = hot_edges[<<s, t>>]
          BY <2>1, <4>2, ObserveInstalled
        <5> QED
          BY <5>2, <5>3
      <4> QED
        BY <4>1, <4>2
    <3> QED
      BY <3>1, <3>2
  <2>2. CASE ~Installs(source, target)
    <3>1. UNCHANGED <<direct_chains, incoming>>
      BY <2>2 DEF Observe, vars
    <3>2. \A e \in Pc \X Pc : \/ hot_edges'[e] = hot_edges[e]
                              \/ e = <<source, target>> /\ ~Chained(e[1], e[2])
      <4>1. CASE ~enabled \/ Chained(source, target)
        BY <4>1 DEF Observe, vars
      <4>2. CASE enabled /\ ~Chained(source, target)
        <5>1. hot_edges' = [hot_edges EXCEPT ![<<source, target>>] =
                                               CountAfter(source, target)]
          BY <4>2 DEF Observe
        <5>2. \A e \in Pc \X Pc : e # <<source, target>> =>
                  hot_edges'[e] = hot_edges[e]
          BY <5>1, Zenon DEF TypeOK
        <5> QED
          BY <4>2, <5>2
      <4> QED
        BY <4>1, <4>2
    <3>3. ChainIsHot'
      <4> SUFFICES ASSUME NEW s \in Pc, NEW t \in Pc, direct_chains[s] = t
                   PROVE  hot_edges'[<<s, t>>] >= threshold
        BY <3>1 DEF ChainIsHot, threshold
      <4>1. hot_edges'[<<s, t>>] = hot_edges[<<s, t>>]
        BY <3>2 DEF Chained
      <4> QED
        BY <4>1 DEF ChainIsHot
    <3> QED
      BY <3>1, <3>3 DEF IncomingExact
  <2> QED
    BY <2>1, <2>2
<1>2. CASE \E pc \in Pc : Invalidate(pc)
  <2> PICK pc \in Pc : Invalidate(pc)
    BY <1>2
  <2>1. IncomingExact'
    BY InvalidateEffect, NoPcAssumption DEF IncomingExact
  <2>2. ChainIsHot'
    <3> SUFFICES ASSUME NEW s \in Pc, NEW t \in Pc, direct_chains'[s] = t
                 PROVE  hot_edges'[<<s, t>>] >= threshold
      BY DEF ChainIsHot, threshold
    <3>1. s # pc /\ t # pc /\ direct_chains[s] = t
      BY InvalidateEffect, NoPcAssumption
    <3>2. hot_edges[<<s, t>>] >= threshold
      BY <3>1 DEF ChainIsHot
    <3>3. hot_edges'[<<s, t>>] = hot_edges[<<s, t>>]
      BY <3>1, InvalidateEffect
    <3> QED
      BY <3>2, <3>3
  <2> QED
    BY <2>1, <2>2
<1>3. CASE \E value \in BOOLEAN : SetEnabled(value)
  BY <1>3, SwitchKeepsInv
<1>4. CASE UNCHANGED vars
  BY <1>4 DEF vars, IncomingExact, ChainIsHot, threshold
<1> QED
  BY <1>1, <1>2, <1>3, <1>4 DEF Next

LEMMA InitEstablishesInv == Init => IncomingExact /\ ChainIsHot
BY NoPcAssumption
DEF Init, IncomingExact, ChainIsHot, NoChains, NoSources

(* The reverse index always lists exactly the chains into a block, so      *)
(* invalidate() leaves no chain into a removed block.                      *)
THEOREM IncomingAlwaysExact == Spec => []IncomingExact
<1>1. Init /\ TypeOK => Inv
  BY InitEstablishesInv DEF Inv
<1>2. Inv /\ TypeOK' /\ [Next]_vars => Inv'
  BY StepKeepsInv DEF Inv
<1>3. Inv => IncomingExact
  BY DEF Inv
<1> QED
  BY <1>1, <1>2, <1>3, TypeCorrect, PTL DEF Spec

(* No chain survives without the count that justified it. *)
THEOREM ChainsAlwaysHot == Spec => []ChainIsHot
<1>1. Init /\ TypeOK => Inv
  BY InitEstablishesInv DEF Inv
<1>2. Inv /\ TypeOK' /\ [Next]_vars => Inv'
  BY StepKeepsInv DEF Inv
<1>3. Inv => ChainIsHot
  BY DEF Inv
<1> QED
  BY <1>1, <1>2, <1>3, TypeCorrect, PTL DEF Spec

-----------------------------------------------------------------------------
(* Every step of the cache is a step of the abstract map or leaves it as   *)
(* it is.                                                                  *)
LEMMA StepRefines ==
    Inv /\ TypeOK' /\ [Next]_vars => [Abstract!Next]_(Abstract!vars)
<1> SUFFICES ASSUME Inv, TypeOK', [Next]_vars
             PROVE  Abstract!Next \/ UNCHANGED Abstract!vars
  OBVIOUS
<1> USE DEF Inv
<1>1. CASE \E source, target \in Pc : Observe(source, target)
  <2> PICK source \in Pc, target \in Pc : Observe(source, target)
    BY <1>1
  <2>1. CASE Installs(source, target)
    <3>1. enabled /\ UNCHANGED enabled /\ direct_chains[source] # target
      BY <2>1 DEF Observe, Installs, Chained
    <3>2. direct_chains' = [direct_chains EXCEPT ![source] = target]
      <4>1. \A s \in Pc : direct_chains'[s] =
                IF s = source THEN target ELSE direct_chains[s]
        BY <2>1, ObserveInstalled
      <4> QED
        BY <4>1 DEF TypeOK
    <3>3. Abstract!Install(source, target)
      BY <3>1, <3>2 DEF Abstract!Install
    <3> QED
      BY <3>3 DEF Abstract!Next
  <2>2. CASE ~Installs(source, target)
    BY <2>2 DEF Observe, vars, Abstract!vars
  <2> QED
    BY <2>1, <2>2
<1>2. CASE \E pc \in Pc : Invalidate(pc)
  <2> PICK pc \in Pc : Invalidate(pc)
    BY <1>2
  <2>1. direct_chains' = [s \in Pc |-> IF s = pc \/ direct_chains[s] = pc
                                         THEN NoPc ELSE direct_chains[s]]
    BY InvalidateEffect DEF TypeOK
  <2>2. Abstract!Sever(pc)
    BY <2>1 DEF Abstract!Sever, Invalidate
  <2> QED
    BY <2>2 DEF Abstract!Next
<1>3. CASE \E value \in BOOLEAN : SetEnabled(value)
  BY <1>3 DEF SetEnabled, NoChains, Abstract!Next, Abstract!SwitchOn,
              Abstract!SwitchOff
<1>4. CASE UNCHANGED vars
  BY <1>4 DEF vars, Abstract!vars
<1> QED
  BY <1>1, <1>2, <1>3, <1>4 DEF Next

(* The two hash maps and the counters implement a partial map of chains:   *)
(* the dispatcher may think of the cache as that map.                      *)
THEOREM RefinesChainMap == Spec => ImplementsChainMap
<1>1. Init => Abstract!Init
  BY DEF Init, NoChains, Abstract!Init
<1>2. Init /\ TypeOK => Inv
  BY InitEstablishesInv DEF Inv
<1>3. Inv /\ TypeOK' /\ [Next]_vars => Inv'
  BY StepKeepsInv DEF Inv
<1> QED
  BY <1>1, <1>2, <1>3, StepRefines, TypeCorrect, PTL
  DEF Spec, ImplementsChainMap, Abstract!Spec
=============================================================================
