-------------------------- MODULE AlgorithmProofs --------------------------
(***************************************************************************)
(* Proofs about the translator's pure algorithms.  Recover, for every      *)
(* program, every list of entries and every size of the address space:     *)
(* exploration meets explored code at leaders only, explores exactly what  *)
(* the entries reach, and its blocks and functions are those of the graph. *)
(* FrontEnd, for every program at every place: the blocks begin where the  *)
(* lifter begins its own, and every instruction that can be encoded is     *)
(* decoded to itself.  Flags, for every width of a word: what each         *)
(* condition code decides after a comparison.  NxIR, for every cpu, memory *)
(* and set of pages: the ops an instruction is lifted to do to the         *)
(* evaluator what the instruction does to the interpreter.                 *)
(***************************************************************************)
EXTENDS FrontEnd, X64Lower, FiniteSetTheorems, SequenceTheorems, WellFoundedInduction, TLAPS

-----------------------------------------------------------------------------
(* The worklist as a set.                                                  *)

LEMMA SetOfConcat ==
    ASSUME NEW s \in Seq(Int), NEW t \in Seq(Int)
    PROVE  s \o t \in Seq(Int) /\ SetOf(s \o t) = SetOf(s) \cup SetOf(t)
<1>1. s \o t \in Seq(Int)
  OBVIOUS
<1>2. SetOf(s \o t) \subseteq SetOf(s) \cup SetOf(t)
  <2> SUFFICES ASSUME NEW i \in DOMAIN (s \o t)
               PROVE  (s \o t)[i] \in SetOf(s) \cup SetOf(t)
    BY DEF SetOf
  <2>1. CASE i <= Len(s)
    BY <2>1 DEF SetOf
  <2>2. CASE i > Len(s)
    <3>1. i - Len(s) \in DOMAIN t /\ (s \o t)[i] = t[i - Len(s)]
      BY <2>2
    <3> QED
      BY <3>1 DEF SetOf
  <2> QED
    BY <2>1, <2>2
<1>3. SetOf(s) \subseteq SetOf(s \o t)
  <2> SUFFICES ASSUME NEW i \in DOMAIN s
               PROVE  s[i] \in SetOf(s \o t)
    BY DEF SetOf
  <2>1. i \in DOMAIN (s \o t) /\ (s \o t)[i] = s[i]
    OBVIOUS
  <2> QED
    BY <2>1 DEF SetOf
<1>4. SetOf(t) \subseteq SetOf(s \o t)
  <2> SUFFICES ASSUME NEW i \in DOMAIN t
               PROVE  t[i] \in SetOf(s \o t)
    BY DEF SetOf
  <2>1. Len(s) + i \in DOMAIN (s \o t) /\ (s \o t)[Len(s) + i] = t[i]
    OBVIOUS
  <2> QED
    BY <2>1 DEF SetOf
<1> QED
  BY <1>1, <1>2, <1>3, <1>4

LEMMA SetOfFront ==
    ASSUME NEW s \in Seq(Int), s # <<>>
    PROVE  /\ SubSeq(s, 1, Len(s) - 1) \in Seq(Int)
           /\ s[Len(s)] \in Int
           /\ SetOf(s) = SetOf(SubSeq(s, 1, Len(s) - 1)) \cup {s[Len(s)]}
<1> DEFINE front == SubSeq(s, 1, Len(s) - 1)
<1>1. /\ Len(s) \in Nat \ {0} /\ Len(s) \in DOMAIN s /\ s[Len(s)] \in Int
      /\ DOMAIN s = 1 .. Len(s)
  OBVIOUS
<1>2. front \in Seq(Int) /\ DOMAIN front = 1 .. Len(s) - 1
  BY <1>1
<1>3. \A i \in DOMAIN front : i \in DOMAIN s /\ front[i] = s[i]
  BY <1>1, <1>2
<1>4. SetOf(front) \cup {s[Len(s)]} \subseteq SetOf(s)
  BY <1>1, <1>3 DEF SetOf
<1>5. SetOf(s) \subseteq SetOf(front) \cup {s[Len(s)]}
  <2> SUFFICES ASSUME NEW i \in DOMAIN s, i # Len(s)
               PROVE  s[i] \in SetOf(front)
    BY DEF SetOf
  <2>1. i \in DOMAIN front
    BY <1>1, <1>2
  <2> QED
    BY <1>3, <2>1 DEF SetOf
<1> QED
  BY <1>1, <1>2, <1>4, <1>5

-----------------------------------------------------------------------------
(* Types.  TypeOK is inductive once the code is one of the programs.       *)

Typed == TypeOK /\ code \in Programs

LEMMA TargetsTyped ==
    ASSUME Typed, NEW a \in Int, Decodable(a)
    PROVE  Targets(a) \in Seq(Int)
<1>1. code[a].k \in {"Branch", "CondBranch"} => code[a].target \in Int
  BY ProgramsAssumption DEF Typed, Decodable
<1>2. CASE code[a].k = "Branch"
  BY <1>1, <1>2 DEF Targets
<1>3. CASE code[a].k = "CondBranch"
  BY <1>1, <1>3 DEF Targets
<1>4. CASE code[a].k \notin {"Branch", "CondBranch"}
  <2>1. Targets(a) = <<>>
    BY <1>4 DEF Targets
  <2> QED
    BY <2>1
<1> QED
  BY <1>2, <1>3, <1>4

LEMMA SetOfTyped ==
    ASSUME NEW s \in Seq(Int)
    PROVE  SetOf(s) \subseteq Int
  BY DEF SetOf

LEMMA InitTyped == Init => Typed
  BY DEF Init, Typed, TypeOK

LEMMA StepTyped ==
    ASSUME Typed, [Next]_vars
    PROVE  Typed'
<1> USE DEF Typed, TypeOK
<1>1. CASE CheckEntries
  <2>1. entries \in Seq(Int)
    BY EntriesAssumption
  <2>2. SetOf(entries) \subseteq Int
    BY <2>1, SetOfTyped
  <2> QED
    BY <1>1, <2>1, <2>2 DEF CheckEntries
<1>2. CASE Pop
  BY <1>2, SetOfFront DEF Pop
<1>3. CASE StopScan
  BY <1>3 DEF StopScan
<1>4. CASE ScanEnd
  <2>1. Decodable(addr)
    BY <1>4 DEF ScanEnd, ScanStops
  <2>2. Targets(addr) \in Seq(Int)
    BY <2>1, TargetsTyped
  <2>3. SetOf(Targets(addr)) \subseteq Int /\ work \o Targets(addr) \in Seq(Int)
    BY <2>2, SetOfTyped, SetOfConcat
  <2> QED
    BY <1>4, <2>1, <2>3 DEF ScanEnd, Decodable
<1>5. CASE ScanOn
  BY <1>5 DEF ScanOn, ScanStops, Decodable
<1>6. CASE BuildBlocks
  BY <1>6 DEF BuildBlocks
<1>7. CASE UNCHANGED vars
  BY <1>7 DEF vars
<1> QED
  BY <1>1, <1>2, <1>3, <1>4, <1>5, <1>6, <1>7 DEF Next

(* The state of a recovery is well typed: only what decodes is ever        *)
(* recorded as decoded (recover_cfg, explore).                             *)
THEOREM TypeCorrect == Spec => []Typed
  BY InitTyped, StepTyped, PTL DEF Spec

-----------------------------------------------------------------------------
(* What is decoded but no leader was reached from the instruction before,  *)
(* and so was decoded after it.                                            *)

FromBefore(a) == a - 1 \in decoded /\ Falls(a - 1)
LeaderInv ==
    /\ Typed
    /\ phase \in {"pop", "scan"} => SetOf(work) \subseteq leaders
    /\ \A a \in decoded : a \in leaders \/ FromBefore(a)
    /\ phase = "scan" => addr \in leaders \/ FromBefore(addr)
    /\ ReentryIsLeader
    /\ phase = "check" => decoded = {}

LEMMA StepKeepsLeaders ==
    ASSUME LeaderInv, [Next]_vars
    PROVE  LeaderInv'
<1>1. Typed /\ Typed'
  BY StepTyped DEF LeaderInv
<1> USE DEF LeaderInv, ReentryIsLeader, FromBefore, Falls, Decodable
<1>2. CASE CheckEntries
  BY <1>1, <1>2 DEF CheckEntries
<1>3. CASE Pop
  <2>1. work \in Seq(Int) /\ work # <<>>
    BY <1>1, <1>3 DEF Typed, TypeOK, Pop
  <2>2. SetOf(work) = SetOf(work') \cup {addr'}
    BY <1>3, <2>1, SetOfFront DEF Pop
  <2> QED
    BY <1>1, <1>3, <2>2 DEF Pop
<1>4. CASE StopScan
  BY <1>1, <1>4 DEF StopScan
<1>5. CASE ScanEnd
  <2>1. Decodable(addr) /\ addr \notin decoded
    BY <1>5 DEF ScanEnd, ScanStops
  <2>2. Targets(addr) \in Seq(Int) /\ work \in Seq(Int)
    BY <1>1, <2>1, TargetsTyped DEF Typed, TypeOK
  <2>3. SetOf(work') = SetOf(work) \cup SetOf(Targets(addr))
    BY <1>5, <2>2, SetOfConcat DEF ScanEnd
  <2>4. SetOf(work') \subseteq leaders'
    BY <1>5, <2>3 DEF ScanEnd
  <2>5. \A a \in decoded' : a \in leaders' \/ FromBefore(a)'
    BY <1>5 DEF ScanEnd
  <2> QED
    BY <1>1, <1>5, <2>4, <2>5 DEF ScanEnd
<1>6. CASE ScanOn
  <2>1. Falls(addr) /\ addr \notin decoded /\ addr \in Int
    BY <1>1, <1>6 DEF ScanOn, ScanStops, Typed, TypeOK
  <2>2. \A a \in decoded' : a \in leaders' \/ FromBefore(a)'
    BY <1>6 DEF ScanOn
  <2>3. phase' = "scan" => addr' = addr + 1 /\ FromBefore(addr)'
    <3> SUFFICES ASSUME phase' = "scan"
                 PROVE  addr' = addr + 1 /\ FromBefore(addr)'
      OBVIOUS
    <3>1. addr' = addr + 1
      BY <1>6 DEF ScanOn
    <3>2. addr' - 1 = addr
      BY <2>1, <3>1
    <3>3. addr \in decoded' /\ code' = code
      BY <1>6 DEF ScanOn
    <3> QED
      BY <2>1, <3>1, <3>2, <3>3
  <2>4. ReentryIsLeader'
    <3> SUFFICES ASSUME phase' = "scan", addr' \in decoded'
                 PROVE  addr' \in leaders'
      OBVIOUS
    <3>1. addr' = addr + 1 /\ addr' - 1 = addr
      BY <2>1, <2>3
    <3>2. addr' \in decoded
      BY <1>6, <2>1, <3>1 DEF ScanOn
    <3>3. addr' \in leaders
      BY <2>1, <3>1, <3>2
    <3> QED
      BY <1>6, <3>3 DEF ScanOn
  <2> QED
    BY <1>1, <1>6, <2>2, <2>3, <2>4 DEF ScanOn
<1>7. CASE BuildBlocks
  BY <1>1, <1>7 DEF BuildBlocks
<1>8. CASE UNCHANGED vars
  BY <1>1, <1>8 DEF vars
<1> QED
  BY <1>2, <1>3, <1>4, <1>5, <1>6, <1>7, <1>8 DEF Next

(* Exploration that runs into explored code has run into a leader, so      *)
(* build_blocks begins a block there and both edges resolve (explore: the  *)
(* comment says so without an argument).                                   *)
THEOREM ReentryAlwaysLeader == Spec => []ReentryIsLeader
<1>1. Init => LeaderInv
  BY InitTyped DEF Init, LeaderInv, ReentryIsLeader
<1>2. LeaderInv => ReentryIsLeader
  BY DEF LeaderInv
<1> QED
  BY <1>1, <1>2, StepKeepsLeaders, PTL DEF Spec

-----------------------------------------------------------------------------
(* The worklist and the address being scanned are what exploration still   *)
(* owes: with them the decoded instructions are closed, and every closed   *)
(* set holds them all, as far as they decode.                              *)

Owed == SetOf(work) \cup (IF phase = "scan" THEN {addr} ELSE {})
Follows(a, b) == b \in LeadsTo(a) /\ Decodable(b) /\ (Falls(a) => a < LastAddress)

ReachInv ==
    /\ Typed
    /\ phase = "check" => decoded = {} /\ work = <<>>
    /\ phase \in {"pop", "scan", "done"} =>
           \A i \in DOMAIN entries : Decodable(entries[i]) /\ entries[i] \in decoded \cup Owed
    /\ \A a \in decoded : \A b : Follows(a, b) => b \in decoded \cup Owed
    /\ phase # "error" =>
           \A S \in SUBSET DOMAIN code : ClosedUnder(S) =>
              decoded \subseteq S /\ \A b \in Owed : Decodable(b) => b \in S
    /\ phase = "done" => work = <<>>

LEMMA ClosedFollows ==
    ASSUME NEW S, ClosedUnder(S), NEW a \in S, Decodable(a), NEW b, Follows(a, b)
    PROVE  b \in S
  BY DEF ClosedUnder, Follows

LEMMA NoneOwed == SetOf(<<>>) = {}
  BY DEF SetOf

LEMMA StepKeepsReach ==
    ASSUME ReachInv, [Next]_vars
    PROVE  ReachInv'
<1>1. Typed /\ Typed'
  BY StepTyped DEF ReachInv
<1>2. CASE CheckEntries
  <2>1. CASE phase' = "error"
    BY <1>1, <1>2, <2>1 DEF CheckEntries, ReachInv
  <2>2. CASE phase' # "error"
    <3>1. /\ work' = entries /\ decoded' = {} /\ phase' = "pop" /\ code' = code
          /\ entries' = entries /\ \A i \in DOMAIN entries : Decodable(entries[i])
      BY <1>2, <2>2 DEF CheckEntries, ReachInv
    <3>2. Owed' = SetOf(entries)
      BY <3>1 DEF Owed, SetOf
    <3>3. \A S : ClosedUnder(S)' => SetOf(entries) \subseteq S
      BY <3>1 DEF ClosedUnder, SetOf
    <3>4. \A i \in DOMAIN entries : entries[i] \in SetOf(entries)
      BY DEF SetOf
    <3> QED
      BY <1>1, <3>1, <3>2, <3>3, <3>4 DEF ReachInv, Decodable
  <2> QED
    BY <2>1, <2>2
<1> SUFFICES ASSUME ~CheckEntries, ~BuildBlocks
             PROVE  ReachInv'
  <2>1. CASE BuildBlocks
    <3>1. Owed' = Owed /\ code' = code /\ decoded' = decoded /\ entries' = entries /\ phase = "pop" /\ phase' = "done" /\ work' = work /\ work = <<>>
      BY <2>1 DEF BuildBlocks, Owed, SetOf
    <3>2. \A a, b : Follows(a, b)' = Follows(a, b)
      BY <3>1 DEF Follows, LeadsTo, Decodable, Falls, Targets
    <3>3. \A S : ClosedUnder(S)' = ClosedUnder(S)
      BY <3>1 DEF ClosedUnder, LeadsTo, Decodable, Falls, Targets
    <3> QED
      BY <1>1, <3>1, <3>2, <3>3 DEF ReachInv, Decodable
  <2> QED
    BY <1>2, <2>1
<1>3. code' = code /\ entries' = entries
  BY DEF Next, Pop, StopScan, ScanEnd, ScanOn, vars
<1>4. /\ \A a, b : Follows(a, b)' = Follows(a, b)
      /\ \A S : ClosedUnder(S)' = ClosedUnder(S)
      /\ \A a : Decodable(a)' = Decodable(a)
  BY <1>3 DEF ClosedUnder, Follows, LeadsTo, Decodable, Falls, Targets
<1>5. CASE Pop
  <2>1. work \in Seq(Int) /\ work # <<>>
    BY <1>1, <1>5 DEF Typed, TypeOK, Pop
  <2>2. SetOf(work) = SetOf(work') \cup {addr'}
    BY <1>5, <2>1, SetOfFront DEF Pop
  <2>3. Owed' = Owed /\ decoded' = decoded /\ phase = "pop" /\ phase' = "scan"
    BY <1>5, <2>2 DEF Pop, Owed
  <2> QED
    BY <1>1, <1>3, <1>4, <2>3 DEF ReachInv
<1>6. CASE StopScan
  <2>1. /\ Owed \subseteq Owed' \cup {addr} /\ Owed' \subseteq Owed /\ decoded' = decoded
        /\ addr \in decoded \/ ~Decodable(addr)
        /\ phase = "scan" /\ phase' = "pop"
    BY <1>6 DEF StopScan, ScanStops, Owed
  <2>2. \A b \in Owed : Decodable(b) => b \in decoded' \cup Owed'
    BY <2>1
  <2>3. \A i \in DOMAIN entries : entries[i] \in decoded' \cup Owed'
    BY <2>1, <2>2 DEF ReachInv
  <2>4. \A a \in decoded : \A b : Follows(a, b) => b \in decoded' \cup Owed'
    BY <2>1, <2>2 DEF ReachInv, Follows
  <2> QED
    BY <1>1, <1>3, <1>4, <2>1, <2>3, <2>4 DEF ReachInv
<1>7. CASE ScanEnd
  <2>1. Decodable(addr) /\ phase = "scan" /\ phase' = "pop" /\ decoded' = decoded \cup {addr}
    BY <1>7 DEF ScanEnd, ScanStops
  <2>2. Targets(addr) \in Seq(Int) /\ work \in Seq(Int)
    BY <1>1, <2>1, TargetsTyped DEF Typed, TypeOK
  <2>3. SetOf(work') = SetOf(work) \cup SetOf(Targets(addr))
    BY <1>7, <2>2, SetOfConcat DEF ScanEnd
  <2>4. ~Falls(addr) /\ LeadsTo(addr) = SetOf(Targets(addr))
    BY <1>7 DEF ScanEnd, Falls, LeadsTo
  <2>5. Owed' = SetOf(work) \cup LeadsTo(addr) /\ Owed = SetOf(work) \cup {addr}
    BY <2>1, <2>3, <2>4 DEF Owed
  <2>6. decoded \cup Owed \subseteq decoded' \cup Owed'
    BY <2>1, <2>5
  <2>7. \A b : Follows(addr, b) => b \in Owed'
    BY <2>5 DEF Follows
  <2>8. \A a \in decoded' : \A b : Follows(a, b) => b \in decoded' \cup Owed'
    BY <2>1, <2>6, <2>7 DEF ReachInv
  <2>9. ASSUME NEW S \in SUBSET DOMAIN code, ClosedUnder(S)
        PROVE  decoded' \subseteq S /\ \A b \in Owed' : Decodable(b) => b \in S
    <3>1. decoded \subseteq S /\ \A b \in Owed : Decodable(b) => b \in S
      BY <2>1, <2>9 DEF ReachInv
    <3>2. addr \in S
      BY <2>1, <2>5, <3>1
    <3>3. \A b \in LeadsTo(addr) : Decodable(b) => b \in S
      BY <2>1, <2>4, <2>9, <3>2, ClosedFollows DEF Follows
    <3> QED
      BY <2>1, <2>5, <3>1, <3>2, <3>3
  <2> QED
    BY <1>1, <1>3, <1>4, <2>1, <2>6, <2>8, <2>9 DEF ReachInv
<1>8. CASE ScanOn
  <2>1. /\ Decodable(addr) /\ Falls(addr) /\ phase = "scan" /\ decoded' = decoded \cup {addr}
        /\ work' = work /\ LeadsTo(addr) = {After(addr)}
    BY <1>8 DEF ScanOn, ScanStops, Falls, LeadsTo, Decodable
  <2>2. Owed = SetOf(work) \cup {addr}
    BY <2>1 DEF Owed
  <2>3. CASE addr < LastAddress
    <3>1. phase' = "scan" /\ addr' = After(addr)
      BY <1>8, <2>1, <2>3 DEF ScanOn, After
    <3>2. Owed' = SetOf(work) \cup {After(addr)}
      BY <2>1, <3>1 DEF Owed, SetOf
    <3>3. decoded \cup Owed \subseteq decoded' \cup Owed'
      BY <2>1, <2>2, <3>2
    <3>4. \A b : Follows(addr, b) => b \in Owed'
      BY <2>1, <3>2 DEF Follows
    <3>5. \A a \in decoded' : \A b : Follows(a, b) => b \in decoded' \cup Owed'
      BY <2>1, <3>3, <3>4 DEF ReachInv
    <3>6. ASSUME NEW S \in SUBSET DOMAIN code, ClosedUnder(S)
          PROVE  decoded' \subseteq S /\ \A b \in Owed' : Decodable(b) => b \in S
      <4>1. decoded \subseteq S /\ \A b \in Owed : Decodable(b) => b \in S
        BY <2>1, <3>6 DEF ReachInv
      <4>2. addr \in S
        BY <2>1, <2>2, <4>1
      <4>3. Decodable(After(addr)) => After(addr) \in S
        BY <2>1, <2>3, <3>6, <4>2, ClosedFollows DEF Follows
      <4> QED
        BY <2>1, <2>2, <3>2, <4>1, <4>2, <4>3
    <3> QED
      BY <1>1, <1>3, <1>4, <2>1, <3>1, <3>3, <3>5, <3>6 DEF ReachInv
  <2>4. CASE ~(addr < LastAddress)
    <3>1. phase' = "pop" /\ Owed' = SetOf(work)
      BY <1>8, <2>1, <2>4 DEF ScanOn, Owed, SetOf
    <3>2. decoded \cup Owed \subseteq decoded' \cup Owed'
      BY <2>1, <2>2, <3>1
    <3>3. \A a \in decoded' : \A b : Follows(a, b) => b \in decoded' \cup Owed'
      BY <2>1, <2>4, <3>2 DEF ReachInv, Follows
    <3>4. ASSUME NEW S \in SUBSET DOMAIN code, ClosedUnder(S)
          PROVE  decoded' \subseteq S /\ \A b \in Owed' : Decodable(b) => b \in S
      BY <2>1, <2>2, <3>1, <3>4 DEF ReachInv
    <3> QED
      BY <1>1, <1>3, <1>4, <2>1, <3>1, <3>2, <3>3, <3>4 DEF ReachInv
  <2> QED
    BY <2>3, <2>4
<1>9. CASE UNCHANGED vars
  <2>1. Owed' = Owed /\ decoded' = decoded /\ phase' = phase /\ work' = work
    BY <1>9 DEF vars, Owed, SetOf
  <2> QED
    BY <1>1, <1>3, <1>4, <2>1 DEF ReachInv
<1> QED
  BY <1>5, <1>6, <1>7, <1>8, <1>9 DEF Next

LEMMA ReachStarts == Init => ReachInv
<1> SUFFICES ASSUME Init
             PROVE  ReachInv
  OBVIOUS
<1>1. Typed /\ work = <<>> /\ decoded = {} /\ phase = "check"
  BY InitTyped DEF Init
<1>2. Owed = {}
  BY <1>1, NoneOwed DEF Owed
<1> QED
  BY <1>1, <1>2 DEF ReachInv

LEMMA ReachDone == ReachInv => ExploredIsReachable
<1> SUFFICES ASSUME ReachInv, phase = "done"
             PROVE  ClosedUnder(decoded) /\ \A S \in SUBSET DOMAIN code : ClosedUnder(S) => decoded \subseteq S
  BY DEF ExploredIsReachable
<1>1. Owed = {}
  BY NoneOwed DEF ReachInv, Owed
<1>2. ClosedUnder(decoded)
  BY <1>1 DEF ReachInv, ClosedUnder, Follows
<1> QED
  BY <1>1, <1>2 DEF ReachInv

(* What recovery explored is the least set that holds the entries and      *)
(* every decodable instruction one of its own leads to: nothing reachable  *)
(* is missed and nothing else is in, whatever the program (explore).       *)
THEOREM ExploredAlwaysReachable == Spec => []ExploredIsReachable
  BY ReachStarts, ReachDone, StepKeepsReach, PTL DEF Spec

-----------------------------------------------------------------------------
(* Blocks and functions.                                                   *)

\* A set of naturals has a least element.
LEMMA Least ==
    ASSUME NEW T \in SUBSET Nat, T # {}
    PROVE  \E x \in T : \A y \in T : x <= y
<1> DEFINE Smaller == {p \in Nat \X Nat : p[1] < p[2]}
<1>1. IsWellFoundedOn(Smaller, Nat)
  BY NatLessThanWellFounded DEF OpToRel
<1> HIDE DEF Smaller
<1>2. PICK x \in T : \A y \in T : ~(<<y, x>> \in Smaller)
  BY <1>1, WFMin
<1>3. \A y \in T : ~(y < x)
  BY <1>2 DEF Smaller
<1> QED
  BY <1>3

-----------------------------------------------------------------------------
(* What build_blocks is given.                                             *)

Explored ==
    /\ Typed
    /\ \A a \in decoded : a \in leaders \/ FromBefore(a)
    /\ \A a \in decoded : code[a].k \in Ends => SetOf(Targets(a)) \subseteq leaders
    /\ SetOf(entries) \subseteq leaders

\* Explored addresses are within the address space, not at both its ends, and
\* what falls through falls to the next.
LEMMA ExploredAddress ==
    ASSUME Typed, NEW a \in decoded
    PROVE  /\ a \in Nat /\ a <= LastAddress /\ Decodable(a)
           /\ After(a) \in decoded => a < LastAddress /\ After(a) = a + 1
<1>1. a \in DOMAIN code /\ code[a].k # "Undecoded" /\ code \in Programs /\ LastAddress \in Nat
      /\ decoded \subseteq DOMAIN code
  BY TopAssumption DEF Typed, TypeOK
<1>2. DOMAIN code \subseteq 0 .. LastAddress /\ (0 \notin DOMAIN code \/ LastAddress \notin DOMAIN code)
  BY <1>1, ProgramsAssumption
<1>3. a \in Nat /\ a <= LastAddress /\ Decodable(a)
  BY <1>1, <1>2 DEF Decodable
<1>4. After(a) \in decoded => a < LastAddress
  BY <1>1, <1>2, <1>3 DEF After
<1> QED
  BY <1>3, <1>4 DEF After

\* Where a block does not stop, the next address is explored and no leader.
LEMMA RunsOn ==
    ASSUME Typed, NEW a \in Nat, ~StopsAt(a)
    PROVE  a \in DOMAIN code /\ code[a].k # "Undecoded" /\ Falls(a) /\ (a < LastAddress => a + 1 \in decoded /\ a + 1 \notin leaders)
           /\ a < LastAddress
<1>1. Falls(a) /\ After(a) \notin leaders /\ After(a) \in decoded
  BY DEF StopsAt
<1>2. a \in DOMAIN code /\ code[a].k # "Undecoded" /\ code \in Programs /\ LastAddress \in Nat
      /\ decoded \subseteq DOMAIN code
  BY <1>1, TopAssumption DEF Falls, Decodable, Typed, TypeOK
<1>3. DOMAIN code \subseteq 0 .. LastAddress /\ (0 \notin DOMAIN code \/ LastAddress \notin DOMAIN code)
  BY <1>2, ProgramsAssumption
<1>4. a < LastAddress
  BY <1>1, <1>2, <1>3 DEF After
<1> QED
  BY <1>1, <1>2, <1>4 DEF After

\* From every start the scan finds where the block ends; all of it is explored.
Extends(s, a) == s <= a /\ \A b \in s .. a - 1 : ~StopsAt(b)
LEMMA LastFound ==
    ASSUME Typed, NEW s \in Starts
    PROVE  /\ s \in Nat /\ s \in decoded
           /\ LastOf(s) \in decoded /\ LastOf(s) \in Nat /\ StopsAt(LastOf(s)) /\ Extends(s, LastOf(s))
<1>1. s \in Nat /\ s <= LastAddress /\ s \in decoded /\ LastAddress \in Nat
  BY ExploredAddress, TopAssumption DEF Starts
<1> DEFINE stops == {a \in Nat : s <= a /\ StopsAt(a)}
<1>2. LastAddress \in stops
  <2>1. ASSUME ~StopsAt(LastAddress) PROVE FALSE
    BY <1>1, <2>1, RunsOn
  <2> QED
    BY <1>1, <2>1
<1>3. PICK a \in stops : \A b \in stops : a <= b
  BY <1>2, Least
<1>4. a \in Nat /\ s <= a /\ StopsAt(a) /\ \A b \in s .. a - 1 : ~StopsAt(b)
  BY <1>1, <1>3
<1>5. a \in decoded
  <2>1. CASE a = s
    BY <1>1, <2>1
  <2>2. CASE a # s
    <3>1. a - 1 \in s .. a - 1 /\ a - 1 \in Nat /\ (a - 1) + 1 = a
      BY <1>1, <1>4, <2>2
    <3>2. ~StopsAt(a - 1)
      BY <1>4, <3>1
    <3> QED
      BY <3>1, <3>2, RunsOn
  <2> QED
    BY <2>1, <2>2
<1>6. \E x \in decoded : x >= s /\ StopsAt(x) /\ \A b \in s .. x - 1 : ~StopsAt(b)
  BY <1>1, <1>4, <1>5
<1>7. LastOf(s) \in decoded /\ LastOf(s) >= s /\ StopsAt(LastOf(s)) /\ \A b \in s .. LastOf(s) - 1 : ~StopsAt(b)
  BY <1>6 DEF LastOf
<1>8. LastOf(s) \in Nat
  BY <1>7, ExploredAddress
<1> QED
  BY <1>1, <1>7, <1>8 DEF Extends

\* What lies in a run is explored, and a leader only at its beginning.
LEMMA RunIsExplored ==
    ASSUME Typed, NEW s \in decoded, NEW a \in Nat, Extends(s, a), NEW b \in s .. a
    PROVE  b \in decoded /\ (b # s => b \notin leaders)
<1>1. s \in Nat
  BY ExploredAddress
<1>2. CASE b = s
  BY <1>2
<1>3. CASE b # s
  <2>1. b - 1 \in s .. a - 1 /\ b - 1 \in Nat /\ (b - 1) + 1 = b
    BY <1>1, <1>3
  <2>2. ~StopsAt(b - 1)
    BY <2>1 DEF Extends
  <2> QED
    BY <2>1, <2>2, RunsOn
<1> QED
  BY <1>2, <1>3

\* Going back from an explored address one comes to a start.
LEMMA StartFound ==
    ASSUME Explored, NEW a \in decoded
    PROVE  \E s \in Starts : Extends(s, a)
<1> DEFINE back == {s \in Nat : s \in decoded /\ Extends(s, a)}
<1>1. Typed /\ a \in Nat
  BY ExploredAddress DEF Explored
<1>2. a \in back
  BY <1>1 DEF Extends
<1>3. PICK s \in back : \A b \in back : s <= b
  BY <1>2, Least
<1>4. s \in Nat /\ s \in decoded /\ s <= a /\ \A b \in s .. a - 1 : ~StopsAt(b)
  BY <1>3 DEF Extends
<1>5. s \in leaders
  <2> SUFFICES ASSUME s \notin leaders PROVE FALSE
    OBVIOUS
  <2>1. s - 1 \in decoded /\ Falls(s - 1)
    BY <1>4 DEF Explored, FromBefore
  <2>2. s - 1 \in Nat /\ s - 1 <= LastAddress
    BY <1>1, <2>1, ExploredAddress
  <2>3. After(s - 1) = s
    <3>1. s <= LastAddress /\ (s - 1) + 1 = s /\ LastAddress \in Nat
      BY <1>1, <1>4, ExploredAddress, TopAssumption
    <3> QED
      BY <1>4, <2>2, <3>1 DEF After
  <2>4. ~StopsAt(s - 1)
    BY <1>4, <2>1, <2>3 DEF StopsAt
  <2>5. \A b \in s - 1 .. a - 1 : ~StopsAt(b)
    <3>1. ASSUME NEW b \in s - 1 .. a - 1 PROVE b = s - 1 \/ b \in s .. a - 1
      BY <1>4
    <3> QED
      BY <1>4, <2>4, <3>1
  <2>6. s - 1 \in back
    BY <1>1, <1>4, <2>1, <2>2, <2>5 DEF Extends
  <2>7. s <= s - 1
    BY <1>3, <2>6
  <2> QED
    BY <1>4, <2>7
<1> QED
  BY <1>4, <1>5 DEF Starts, Extends

-----------------------------------------------------------------------------
(* The blocks.                                                             *)

\* An explored address is in the block of s, whose extent runs to its last.
LEMMA InBlock ==
    ASSUME Typed, NEW s \in Starts, NEW a \in decoded
    PROVE  a \in s .. LastOf(s) <=> Extends(s, a)
<1>1. /\ s \in Nat /\ LastOf(s) \in Nat /\ StopsAt(LastOf(s)) /\ s <= LastOf(s)
      /\ \A b \in s .. LastOf(s) - 1 : ~StopsAt(b)
  BY LastFound DEF Extends
<1>2. a \in Nat
  BY ExploredAddress
<1>3. ASSUME a \in s .. LastOf(s) PROVE Extends(s, a)
  BY <1>1, <1>2, <1>3 DEF Extends
<1>4. ASSUME Extends(s, a) PROVE a \in s .. LastOf(s)
  <2> SUFFICES ASSUME LastOf(s) < a PROVE FALSE
    BY <1>1, <1>2, <1>4 DEF Extends
  <2>1. LastOf(s) \in s .. a - 1
    BY <1>1, <1>2
  <2> QED
    BY <1>1, <1>4, <2>1 DEF Extends
<1> QED
  BY <1>3, <1>4

\* Two blocks that share an instruction are one.
LEMMA OneBlock ==
    ASSUME Typed, NEW s \in Starts, NEW t \in Starts, NEW a \in decoded, Extends(s, a), Extends(t, a)
    PROVE  s = t
<1>1. s \in Nat /\ t \in Nat /\ a \in Nat /\ s \in decoded /\ t \in decoded /\ s \in leaders /\ t \in leaders
  BY LastFound, ExploredAddress DEF Starts
<1>2. s <= a /\ t <= a
  BY DEF Extends
<1>3. CASE s < t
  BY <1>1, <1>2, <1>3, RunIsExplored
<1>4. CASE t < s
  BY <1>1, <1>2, <1>4, RunIsExplored
<1> QED
  BY <1>1, <1>3, <1>4

\* What a block leads to, if it was explored, begins a block.
LEMMA SuccessorsStart ==
    ASSUME Explored, NEW s \in Starts
    PROVE  LeadsTo(LastOf(s)) \cap decoded \subseteq Starts
<1> DEFINE a == LastOf(s)
<1>1. Typed /\ a \in decoded /\ StopsAt(a)
  BY LastFound DEF Explored
<1> HIDE DEF a
<1>2. CASE Falls(a)
  BY <1>1, <1>2 DEF LeadsTo, StopsAt, Starts
<1>3. CASE ~Falls(a)
  <2>1. code[a].k \in Ends
    BY <1>1, <1>3 DEF Falls, Decodable, Typed, TypeOK
  <2>2. LeadsTo(a) = SetOf(Targets(a)) /\ SetOf(Targets(a)) \subseteq leaders
    BY <1>1, <1>3, <2>1 DEF LeadsTo, Explored
  <2> QED
    BY <2>2 DEF Starts
<1> QED
  BY <1>2, <1>3 DEF a

Table == [s \in Starts |-> Block(s)]
LEMMA Partitioned ==
    ASSUME Explored
    PROVE  /\ DOMAIN Table = Starts
           /\ \A a \in decoded : Cardinality({s \in DOMAIN Table : a \in s .. Table[s].last}) = 1
           /\ \A s \in DOMAIN Table :
                 /\ s .. Table[s].last \subseteq decoded
                 /\ Table[s].last = LastOf(s)
                 /\ Table[s].successors = LeadsTo(LastOf(s)) \cap decoded
                 /\ Table[s].successors \subseteq DOMAIN Table
<1>1. Typed
  BY DEF Explored
<1>2. DOMAIN Table = Starts /\ \A s \in Starts : /\ Table[s].last = LastOf(s)
                                                 /\ Table[s].successors = LeadsTo(LastOf(s)) \cap decoded
  BY DEF Table, Block
<1>3. ASSUME NEW a \in decoded PROVE Cardinality({s \in Starts : a \in s .. Table[s].last}) = 1
  <2>1. PICK s \in Starts : Extends(s, a)
    BY StartFound
  <2>2. \A t \in Starts : a \in t .. Table[t].last <=> t = s
    BY <1>1, <1>2, <2>1, InBlock, OneBlock
  <2>3. {t \in Starts : a \in t .. Table[t].last} = {s}
    BY <2>2
  <2> QED
    BY <2>3, FS_Singleton
<1>4. ASSUME NEW s \in Starts PROVE s .. Table[s].last \subseteq decoded
  <2>1. s \in decoded /\ LastOf(s) \in Nat /\ Extends(s, LastOf(s))
    BY <1>1, LastFound
  <2> QED
    BY <1>1, <1>2, <2>1, RunIsExplored
<1> QED
  BY <1>2, <1>3, <1>4, SuccessorsStart

-----------------------------------------------------------------------------
(* The functions.                                                          *)

Grown(table, S) == S \cup UNION {table[s].successors : s \in S \cap DOMAIN table}
IsReach(table, e, n, g) == g = [k \in 0 .. n |-> IF k = 0 THEN {e} \cap DOMAIN table ELSE Grown(table, g[k - 1])]

\* The sets of discover_functions exist, step by step.
LEMMA ReachExists ==
    ASSUME NEW table, NEW e, NEW n \in Nat
    PROVE  \E g : IsReach(table, e, n, g)
<1> DEFINE failing == {k \in Nat : ~\E g : IsReach(table, e, k, g)}
<1> SUFFICES ASSUME n \in failing PROVE FALSE
  OBVIOUS
<1>1. PICK k \in failing : \A l \in failing : k <= l
  BY Least
<1>2. CASE k = 0
  <2> DEFINE g == [l \in 0 .. 0 |-> {e} \cap DOMAIN table]
  <2>1. g = [l \in 0 .. 0 |-> IF l = 0 THEN {e} \cap DOMAIN table ELSE Grown(table, g[l - 1])]
    OBVIOUS
  <2>2. IsReach(table, e, 0, g)
    BY <2>1 DEF IsReach
  <2> QED
    BY <1>1, <1>2, <2>2
<1>3. CASE k # 0
  <2>1. k - 1 \in Nat /\ ~(k <= k - 1) /\ k \in Nat
    BY <1>1, <1>3
  <2>2. PICK g : IsReach(table, e, k - 1, g)
    BY <1>1, <2>1
  <2> DEFINE h == [l \in 0 .. k |-> IF l = k THEN Grown(table, g[k - 1]) ELSE g[l]]
  <2>3. ASSUME NEW l \in 0 .. k PROVE h[l] = IF l = 0 THEN {e} \cap DOMAIN table ELSE Grown(table, h[l - 1])
    <3>1. CASE l = k
      <4>1. h[l] = Grown(table, g[k - 1]) /\ h[k - 1] = g[k - 1]
        BY <2>1, <3>1
      <4> QED
        BY <1>3, <3>1, <4>1
    <3>2. CASE l # k
      <4>1. l \in 0 .. k - 1 /\ h[l] = g[l]
        BY <2>1, <3>2
      <4>2. g[l] = IF l = 0 THEN {e} \cap DOMAIN table ELSE Grown(table, g[l - 1])
        BY <2>2, <4>1 DEF IsReach
      <4>3. l # 0 => l - 1 \in 0 .. k /\ l - 1 # k
        BY <2>1, <4>1
      <4> QED
        BY <4>1, <4>2, <4>3
    <3> QED
      BY <3>1, <3>2
  <2>4. IsReach(table, e, k, h)
    <3>1. h = [l \in 0 .. k |-> h[l]]
      OBVIOUS
    <3> HIDE DEF h
    <3> QED
      BY <2>3, <3>1 DEF IsReach
  <2> QED
    BY <1>1, <2>4
<1> QED
  BY <1>2, <1>3

LEMMA ReachIs ==
    ASSUME NEW table, NEW e, Cardinality(DOMAIN table) \in Nat
    PROVE  \E g : IsReach(table, e, Cardinality(DOMAIN table), g)
                  /\ Reachable(table, e) = g[Cardinality(DOMAIN table)] \cap DOMAIN table
<1> DEFINE n == Cardinality(DOMAIN table)
           reach == CHOOSE g : g = [k \in 0 .. n |-> IF k = 0 THEN {e} \cap DOMAIN table
                                                    ELSE g[k - 1] \cup UNION {table[s].successors : s \in g[k - 1] \cap DOMAIN table}]
<1>1. \E g : IsReach(table, e, n, g)
  BY ReachExists
<1>2. \E g : g = [k \in 0 .. n |-> IF k = 0 THEN {e} \cap DOMAIN table
                            ELSE g[k - 1] \cup UNION {table[s].successors : s \in g[k - 1] \cap DOMAIN table}]
  BY <1>1, Zenon DEF IsReach, Grown
<1>3. IsReach(table, e, n, reach)
  BY <1>2, Zenon DEF IsReach, Grown
<1>4. Reachable(table, e) = reach[n] \cap DOMAIN table
  BY Zenon DEF Reachable
<1> QED
  BY <1>3, <1>4

\* The last of them holds the entry and is closed: n steps without an end
\* would need more than the n blocks there are.
LEMMA ReachCloses ==
    ASSUME NEW table, IsFiniteSet(DOMAIN table),
           \A s \in DOMAIN table : table[s].successors \subseteq DOMAIN table,
           NEW e \in DOMAIN table
    PROVE  /\ e \in Reachable(table, e) /\ Reachable(table, e) \subseteq DOMAIN table
           /\ \A s \in Reachable(table, e) : table[s].successors \subseteq Reachable(table, e)
<1> DEFINE D == DOMAIN table
           N == Cardinality(D)
<1>1. N \in Nat
  BY FS_CardinalityType
<1>2. PICK g : IsReach(table, e, N, g) /\ Reachable(table, e) = g[N] \cap D
  BY <1>1, ReachIs
<1>3. /\ g[0] = {e}
      /\ \A k \in 1 .. N : g[k] = Grown(table, g[k - 1])
  <2>1. \A k \in 0 .. N : g[k] = IF k = 0 THEN {e} \cap D ELSE Grown(table, g[k - 1])
    BY <1>2 DEF IsReach
  <2>2. 0 \in 0 .. N /\ {e} \cap D = {e} /\ \A k \in 1 .. N : k \in 0 .. N /\ k # 0
    BY <1>1
  <2> QED
    BY <2>1, <2>2
<1> HIDE DEF N
<1>4. ASSUME NEW S \in SUBSET D PROVE Grown(table, S) \subseteq D /\ S \subseteq Grown(table, S)
  BY DEF Grown
<1>5. \A k \in 0 .. N : g[k] \subseteq D /\ e \in g[k]
  <2> DEFINE bad == {k \in 0 .. N : ~(g[k] \subseteq D /\ e \in g[k])}
  <2> SUFFICES ASSUME bad # {} PROVE FALSE
    OBVIOUS
  <2>1. bad \in SUBSET Nat
    OBVIOUS
  <2>2. PICK k \in bad : \A l \in bad : k <= l
    BY <2>1, Least
  <2>3. k # 0 /\ k \in 1 .. N /\ k - 1 \in 0 .. N /\ ~(k <= k - 1)
    BY <1>1, <1>3, <2>2
  <2>4. g[k - 1] \subseteq D /\ e \in g[k - 1]
    BY <2>2, <2>3
  <2> QED
    BY <1>3, <1>4, <2>2, <2>3, <2>4
<1>6. Grown(table, g[N]) = g[N]
  <2> SUFFICES ASSUME Grown(table, g[N]) # g[N] PROVE FALSE
    OBVIOUS
  <2>1. \A k \in 0 .. N : Grown(table, g[k]) # g[k]
    <3> SUFFICES ASSUME NEW k \in 0 .. N, Grown(table, g[k]) = g[k] PROVE FALSE
      OBVIOUS
    <3> DEFINE off == {l \in k .. N : g[l] # g[k]}
    <3>1. N \in off /\ off \in SUBSET Nat
      BY <1>1
    <3>2. PICK l \in off : \A m \in off : l <= m
      BY <3>1, Least
    <3>3. l \in 1 .. N /\ l - 1 \in k .. N /\ ~(l <= l - 1) /\ g[l] # g[k]
      <4>1. l # k /\ l \in k .. N
        BY <3>2
      <4> QED
        BY <1>1, <3>2, <4>1
    <3>4. g[l - 1] = g[k]
      BY <3>2, <3>3
    <3> QED
      BY <1>3, <3>3, <3>4
  <2>2. \A k \in 0 .. N : IsFiniteSet(g[k]) /\ Cardinality(g[k]) \in Nat
    BY <1>5, FS_Subset, FS_CardinalityType
  <2> DEFINE small == {k \in 0 .. N : Cardinality(g[k]) <= k}
  <2>3. N \in small /\ small \in SUBSET Nat
    <3>1. Cardinality(g[N]) <= N
      BY <1>1, <1>5, FS_Subset DEF N
    <3> QED
      BY <1>1, <3>1
  <2>4. PICK k \in small : \A l \in small : k <= l
    BY <2>3, Least
  <2>5. k # 0
    <3>1. Cardinality(g[0]) = 1
      BY <1>3, FS_Singleton
    <3> QED
      BY <2>4, <3>1
  <2>6. k \in 1 .. N /\ k - 1 \in 0 .. N /\ ~(k <= k - 1) /\ Cardinality(g[k]) <= k
    BY <1>1, <2>4, <2>5
  <2>7. ~(Cardinality(g[k - 1]) <= k - 1)
    BY <2>4, <2>6
  <2>8. g[k] = Grown(table, g[k - 1]) /\ g[k - 1] \subseteq g[k] /\ g[k] # g[k - 1]
    BY <1>3, <1>4, <1>5, <2>1, <2>6
  <2>9. Cardinality(g[k - 1]) <= Cardinality(g[k]) /\ Cardinality(g[k - 1]) # Cardinality(g[k])
    BY <2>2, <2>6, <2>8, FS_Subset
  <2> QED
    BY <2>2, <2>6, <2>7, <2>9
<1>7. g[N] \subseteq D /\ e \in g[N] /\ Reachable(table, e) = g[N]
  BY <1>1, <1>2, <1>5 DEF N
<1>8. \A s \in g[N] : table[s].successors \subseteq g[N]
  BY <1>6, <1>7 DEF Grown
<1> QED
  BY <1>7, <1>8

-----------------------------------------------------------------------------
(* The whole graph.                                                        *)

Functions(table) == [e \in SetOf(entries) |-> Reachable(table, e)]
GraphInv ==
    /\ LeaderInv /\ ReachInv
    /\ \A a \in decoded : code[a].k \in Ends => SetOf(Targets(a)) \subseteq leaders
    /\ phase \in {"pop", "scan", "done"} => SetOf(entries) \subseteq leaders
    /\ phase = "done" => blocks = Table /\ functions = Functions(Table)

\* Both hold at first and after every step; what remains is that leaders and
\* explored addresses do not change any more once the blocks are built.
LEMMA GraphInit == Init => GraphInv
<1> SUFFICES ASSUME Init PROVE GraphInv
  OBVIOUS
<1>1. LeaderInv
  BY InitTyped DEF Init, LeaderInv, ReentryIsLeader
<1>2. ReachInv
  BY ReachStarts
<1> QED
  BY <1>1, <1>2 DEF Init, GraphInv

\* The table is a matter of what was explored and of the leaders.
LEMMA TableStays ==
    ASSUME UNCHANGED <<code, decoded, leaders>>
    PROVE  Table' = Table
<1>1. code' = code /\ decoded' = decoded /\ leaders' = leaders
  OBVIOUS
<1>2. Starts' = Starts
  BY <1>1 DEF Starts
<1>3. ASSUME NEW a PROVE Falls(a)' = Falls(a) /\ Targets(a)' = Targets(a)
  BY <1>1 DEF Falls, Decodable, Targets
<1>4. ASSUME NEW a PROVE StopsAt(a)' <=> StopsAt(a)
  BY <1>1, <1>3 DEF StopsAt
<1>5. ASSUME NEW s PROVE LastOf(s)' = LastOf(s)
  BY <1>1, <1>4 DEF LastOf
<1>6. ASSUME NEW a PROVE LeadsTo(a)' = LeadsTo(a)
  BY <1>1, <1>3 DEF LeadsTo
<1>7. ASSUME NEW a PROVE Terminator(a)' = Terminator(a)
  BY <1>1, <1>2, <1>3 DEF Terminator
<1>8. ASSUME NEW s PROVE Block(s)' = Block(s)
  BY <1>1, <1>5, <1>6, <1>7 DEF Block
<1> QED
  BY <1>2, <1>8 DEF Table

LEMMA GraphStep == GraphInv /\ [Next]_vars => GraphInv'
<1> SUFFICES ASSUME GraphInv, [Next]_vars PROVE GraphInv'
  OBVIOUS
<1>1. LeaderInv' /\ ReachInv'
  BY StepKeepsLeaders, StepKeepsReach DEF GraphInv
<1>2. /\ \A a \in decoded : code[a].k \in Ends => SetOf(Targets(a)) \subseteq leaders
      /\ phase \in {"pop", "scan", "done"} => SetOf(entries) \subseteq leaders
      /\ phase = "done" => blocks = Table /\ functions = Functions(Table)
      /\ phase = "check" => decoded = {}
  BY DEF GraphInv, LeaderInv
<1>3. CASE CheckEntries
  BY <1>1, <1>2, <1>3 DEF CheckEntries, GraphInv
<1>4. CASE Pop \/ StopScan \/ ScanOn
  <2>1. /\ code' = code /\ entries' = entries /\ leaders' = leaders /\ phase \in {"pop", "scan"} /\ phase' \in {"pop", "scan"}
        /\ \A a \in decoded' : a \in decoded \/ code[a].k \notin Ends
    BY <1>4 DEF Pop, StopScan, ScanOn
  <2>2. \A a : Targets(a)' = Targets(a)
    BY <2>1 DEF Targets
  <2> QED
    BY <1>1, <1>2, <2>1, <2>2 DEF GraphInv
<1>5. CASE ScanEnd
  <2>1. /\ code' = code /\ entries' = entries /\ leaders' = leaders \cup SetOf(Targets(addr)) /\ phase = "scan"
        /\ phase' = "pop" /\ decoded' = decoded \cup {addr}
    BY <1>5 DEF ScanEnd
  <2>2. \A a : Targets(a)' = Targets(a)
    BY <2>1 DEF Targets
  <2> QED
    BY <1>1, <1>2, <2>1, <2>2 DEF GraphInv
<1>6. CASE BuildBlocks
  <2>1. /\ UNCHANGED <<code, entries, work, addr, decoded, leaders>> /\ phase = "pop" /\ phase' = "done"
        /\ blocks' = Table /\ functions' = Functions(Table)
    BY <1>6 DEF BuildBlocks, Table, Functions
  <2>2. \A a : Targets(a)' = Targets(a)
    BY <2>1 DEF Targets
  <2>3. Table' = Table
    BY <2>1, TableStays
  <2>4. Functions(Table)' = Functions(Table)
    BY <2>1, <2>3 DEF Functions
  <2> QED
    BY <1>1, <1>2, <2>1, <2>2, <2>3, <2>4 DEF GraphInv
<1>7. CASE UNCHANGED vars
  <2>1. UNCHANGED <<code, entries, decoded, leaders, phase, blocks, functions>>
    BY <1>7 DEF vars
  <2>2. \A a : Targets(a)' = Targets(a)
    BY <2>1 DEF Targets
  <2>3. Table' = Table
    BY <2>1, TableStays
  <2>4. Functions(Table)' = Functions(Table)
    BY <2>1, <2>3 DEF Functions
  <2> QED
    BY <1>1, <1>2, <2>1, <2>2, <2>3, <2>4 DEF GraphInv
<1> QED
  BY <1>3, <1>4, <1>5, <1>6, <1>7 DEF Next

LEMMA GraphIsExplored ==
    ASSUME GraphInv, phase = "done"
    PROVE  /\ Explored /\ ExploredIsReachable /\ IsFiniteSet(Starts)
           /\ \A i \in DOMAIN entries : entries[i] \in Starts
<1>1. Explored
  BY DEF GraphInv, LeaderInv, Explored
<1>2. ExploredIsReachable
  BY ReachDone DEF GraphInv
<1>3. IsFiniteSet(Starts)
  <2>1. Starts \subseteq DOMAIN code /\ IsFiniteSet(DOMAIN code)
    BY ProgramsAssumption DEF GraphInv, LeaderInv, Typed, TypeOK, Starts
  <2> QED
    BY <2>1, FS_Subset
<1>4. \A i \in DOMAIN entries : entries[i] \in decoded
  BY <1>2 DEF ExploredIsReachable, ClosedUnder
<1>5. \A i \in DOMAIN entries : entries[i] \in leaders
  BY DEF GraphInv, SetOf
<1> QED
  BY <1>1, <1>2, <1>3, <1>4, <1>5 DEF Starts

LEMMA GraphPartition == GraphInv => BlocksPartition
<1> SUFFICES ASSUME GraphInv, phase = "done" PROVE BlocksPartition
  BY DEF BlocksPartition
<1>1. blocks = Table
  BY DEF GraphInv
<1>2. /\ \A a \in decoded : Cardinality({s \in DOMAIN Table : a \in s .. Table[s].last}) = 1
      /\ \A s \in DOMAIN Table : s .. Table[s].last \subseteq decoded /\ Table[s].successors \subseteq DOMAIN Table
  BY GraphIsExplored, Partitioned
<1> HIDE DEF Table
<1> QED
  BY <1>1, <1>2 DEF BlocksPartition

\* The explored addresses in blocks of some function hold the entries and what
\* they lead to, so they are all of the explored addresses.
LEMMA GraphFunctions == GraphInv => FunctionsClosed
<1> SUFFICES ASSUME GraphInv, phase = "done" PROVE FunctionsClosed
  BY DEF FunctionsClosed
<1>1. blocks = Table /\ functions = Functions(Table)
  BY DEF GraphInv
<1>2. /\ Explored /\ ExploredIsReachable /\ IsFiniteSet(Starts) /\ Typed
      /\ \A i \in DOMAIN entries : entries[i] \in Starts
  BY GraphIsExplored DEF Explored
<1>3. /\ DOMAIN Table = Starts
      /\ \A s \in Starts : Table[s].successors = LeadsTo(LastOf(s)) \cap decoded /\ Table[s].successors \subseteq Starts
  BY <1>2, Partitioned
<1>4. DOMAIN functions = SetOf(entries) /\ \A e \in SetOf(entries) : functions[e] = Reachable(Table, e) /\ e \in Starts
  BY <1>1, <1>2 DEF Functions, SetOf
<1> HIDE DEF Table, Functions
<1>5. ASSUME NEW e \in DOMAIN functions
      PROVE  /\ e \in functions[e] /\ functions[e] \subseteq Starts
             /\ \A s \in functions[e] : Table[s].successors \subseteq functions[e]
  <2>1. e \in DOMAIN Table /\ IsFiniteSet(DOMAIN Table) /\ functions[e] = Reachable(Table, e)
    BY <1>2, <1>3, <1>4
  <2>2. \A s \in DOMAIN Table : Table[s].successors \subseteq DOMAIN Table
    BY <1>3
  <2>3. /\ e \in Reachable(Table, e) /\ Reachable(Table, e) \subseteq DOMAIN Table
        /\ \A s \in Reachable(Table, e) : Table[s].successors \subseteq Reachable(Table, e)
    BY <2>1, <2>2, ReachCloses
  <2> QED
    BY <1>3, <2>1, <2>3
<1> DEFINE held == UNION {functions[e] : e \in DOMAIN functions}
           within == {a \in decoded : \E s \in held : Extends(s, a)}
<1>6. held \subseteq Starts /\ \A s \in held : Table[s].successors \subseteq held
  BY <1>5
<1>7. \A s \in held : s \in within
  <2>1. ASSUME NEW s \in held PROVE s \in decoded /\ Extends(s, s)
    BY <1>2, <1>6, LastFound DEF Extends
  <2> QED
    BY <2>1
<1>8. ClosedUnder(within)
  <2>1. ASSUME NEW i \in DOMAIN entries PROVE entries[i] \in within
    <3>1. entries[i] \in DOMAIN functions
      BY <1>4 DEF SetOf
    <3>2. entries[i] \in held
      BY <1>5, <3>1
    <3> QED
      BY <1>7, <3>2
  <2>2. ASSUME NEW a \in within, Decodable(a), NEW b \in LeadsTo(a), Decodable(b), Falls(a) => a < LastAddress
        PROVE  b \in within
    <3>1. PICK s \in held : Extends(s, a)
      OBVIOUS
    <3>2. s \in Starts /\ a \in decoded /\ a \in Nat /\ s \in Nat /\ LastOf(s) \in Nat /\ a \in s .. LastOf(s)
      BY <1>2, <1>6, <3>1, InBlock, LastFound, ExploredAddress
    <3>3. b \in decoded
      BY <1>2, <2>2, <3>2 DEF ExploredIsReachable, ClosedUnder
    <3>4. CASE a = LastOf(s)
      <4>1. b \in Table[s].successors
        BY <1>3, <2>2, <3>2, <3>3, <3>4
      <4>2. b \in held
        BY <1>6, <3>1, <4>1
      <4> QED
        BY <1>7, <4>2
    <3>5. CASE a # LastOf(s)
      <4>1. Extends(s, LastOf(s)) /\ a \in s .. LastOf(s) - 1
        BY <1>2, <3>2, <3>5, LastFound
      <4>2. ~StopsAt(a)
        BY <4>1 DEF Extends
      <4>3. Falls(a) /\ a < LastAddress
        BY <1>2, <3>2, <4>2, RunsOn
      <4>4. b = a + 1
        BY <2>2, <4>3 DEF LeadsTo, After
      <4>5. b \in s .. LastOf(s)
        BY <3>2, <3>5, <4>4
      <4>6. Extends(s, b)
        BY <1>2, <3>2, <3>3, <4>5, InBlock
      <4> QED
        BY <3>1, <3>3, <4>6
    <3> QED
      BY <3>4, <3>5
  <2> HIDE DEF within
  <2> QED
    BY <2>1, <2>2 DEF ClosedUnder
<1>9. decoded \subseteq within
  <2>1. within \in SUBSET DOMAIN code
    BY <1>2 DEF Typed, TypeOK
  <2> HIDE DEF within
  <2> QED
    BY <1>2, <1>8, <2>1 DEF ExploredIsReachable
<1>10. Starts \subseteq held
  <2> SUFFICES ASSUME NEW s \in Starts PROVE s \in held
    OBVIOUS
  <2>1. s \in decoded /\ s \in Nat
    BY <1>2, LastFound
  <2>2. PICK t \in held : Extends(t, s)
    BY <1>9, <2>1
  <2>3. Extends(s, s)
    BY <2>1 DEF Extends
  <2>4. t = s
    BY <1>2, <1>6, <2>1, <2>2, <2>3, OneBlock
  <2> QED
    BY <2>2, <2>4
<1> QED
  BY <1>1, <1>3, <1>5, <1>10 DEF FunctionsClosed

-----------------------------------------------------------------------------
(* The lifter's blocks.                                                    *)

\* Every leader is an entry or what a decoded branch leads to.
LifterInv ==
    /\ source \in Sources /\ code \in Programs /\ DOMAIN code = Window(source)
    /\ decoded \subseteq DOMAIN code
    /\ \A s \in leaders :
          \/ s \in SetOf(entries)
          \/ \E a \in decoded : code[a].k \in {"Branch", "CondBranch"} /\ s \in SetOf(Targets(a))

LEMMA LifterInit == RecoverWords => LifterInv
<1> SUFFICES ASSUME RecoverWords
             PROVE  LifterInv
  OBVIOUS
<1>1. source \in Sources /\ code = DecodeWindow(source) /\ decoded = {} /\ leaders = {}
  BY DEF RecoverWords
<1>2. DOMAIN code = Window(source)
  BY <1>1 DEF DecodeWindow
<1>3. code \in Programs
  BY <1>1, SourcesAssumption
<1> QED
  BY <1>1, <1>2, <1>3 DEF LifterInv

\* Only a branch leads anywhere when it ends a block.
LEMMA OnlyBranchesLead ==
    ASSUME NEW a, NEW s \in SetOf(Targets(a))
    PROVE  code[a].k \in {"Branch", "CondBranch"}
  BY DEF Targets, SetOf

LEMMA LifterStep == LifterInv /\ [FrontNext]_frontVars => LifterInv'
<1> SUFFICES ASSUME LifterInv, [FrontNext]_frontVars
             PROVE  LifterInv'
  OBVIOUS
<1>1. source' = source /\ code' = code /\ entries' = entries
  BY DEF FrontNext, frontVars, vars, Next, CheckEntries, Pop, StopScan, ScanEnd, ScanOn, BuildBlocks
<1>2. \A a : Targets(a)' = Targets(a) /\ (SetOf(Targets(a)))' = SetOf(Targets(a))
  BY <1>1 DEF Targets, SetOf
<1>3. SetOf(entries)' = SetOf(entries) /\ Window(source)' = Window(source)
  BY <1>1 DEF SetOf, Window
<1>4. CASE leaders' = leaders /\ decoded' = decoded
  BY <1>1, <1>2, <1>3, <1>4 DEF LifterInv
<1>5. CASE leaders' = SetOf(entries) /\ decoded' = decoded
  BY <1>1, <1>2, <1>3, <1>5 DEF LifterInv
<1>6. CASE ScanEnd
  <2>1. /\ leaders' = leaders \cup SetOf(Targets(addr)) /\ decoded' = decoded \cup {addr}
        /\ addr \in DOMAIN code
    BY <1>6 DEF ScanEnd, ScanStops, Decodable
  <2>2. \A s \in SetOf(Targets(addr)) : code[addr].k \in {"Branch", "CondBranch"}
    BY OnlyBranchesLead
  <2>3. \A s \in leaders' :
          \/ s \in SetOf(entries)
          \/ \E a \in decoded' : code[a].k \in {"Branch", "CondBranch"} /\ s \in SetOf(Targets(a))
    BY <2>1, <2>2 DEF LifterInv
  <2> QED
    BY <1>1, <1>2, <1>3, <2>1, <2>3 DEF LifterInv
<1>7. CASE ScanOn
  <2>1. leaders' = leaders /\ decoded' = decoded \cup {addr} /\ addr \in DOMAIN code
    BY <1>7 DEF ScanOn, ScanStops, Decodable
  <2> QED
    BY <1>1, <1>2, <1>3, <2>1 DEF LifterInv
<1> QED
  BY <1>4, <1>5, <1>6, <1>7
  DEF FrontNext, frontVars, vars, Next, CheckEntries, Pop, StopScan, BuildBlocks

\* The lifter numbers the instructions of a program from 1: what stands at an
\* address of the window, and which number a branch target has.
LEMMA LifterIndex ==
    ASSUME LifterInv, NEW a \in DOMAIN code
    PROVE  /\ LET n == a - source.base + 1 IN
              /\ n \in DOMAIN LifterProgram /\ source.base + n - 1 = a /\ n \in Nat
              /\ LifterProgram[n].k = code[a].k
              /\ code[a].k \in {"Branch", "CondBranch"} => LifterProgram[n].target = 4 * code[a].target
           /\ Lifter!IndexOf(LifterProgram, 4 * source.base, 4 * a) = a - source.base + 1
<1> DEFINE base == source.base
           len == Len(source.insts)
           n == a - base + 1
           address == 4 * a
<1>1. base \in Nat /\ len \in Nat /\ DOMAIN source.insts = 1 .. len /\ DOMAIN code = base .. base + len - 1
  BY SourcesAssumption DEF LifterInv, Window
<1>2. a \in Nat /\ n \in 1 .. len /\ base + n - 1 = a
  BY <1>1
<1>3. DOMAIN LifterProgram = 1 .. len
  BY <1>1 DEF LifterProgram
<1>4. LifterProgram[n] = IF code[a].k \in {"Branch", "CondBranch"}
                         THEN [k |-> code[a].k, target |-> 4 * code[a].target] ELSE [k |-> code[a].k]
  BY <1>1, <1>2 DEF LifterProgram
<1>5. Len(LifterProgram) = len
  <2>1. LifterProgram \in Seq({LifterProgram[i] : i \in 1 .. len})
    BY <1>1, <1>3 DEF LifterProgram
  <2> QED
    BY <1>1, <1>3, <2>1
<1>6. Lifter!IndexOf(LifterProgram, 4 * base, address) = n
  <2>1. a - base \in Nat /\ a - base < len
    <3>1. a >= base /\ a <= base + len - 1
      BY <1>1
    <3> HIDE DEF base, len, n
    <3> QED
      BY <1>1, <1>2, <3>1
  <2>3. address - 4 * base = 4 * (a - base)
    <3> HIDE DEF base
    <3> QED
      BY <1>1, <1>2
  <2>2. \A m \in Nat : (4 * m) % 4 = 0 /\ (4 * m) \div 4 = m
    OBVIOUS
  <2> QED
    BY <1>5, <2>1, <2>2, <2>3 DEF Lifter!IndexOf
<1> QED
  BY <1>2, <1>3, <1>4, <1>6

LEMMA LifterFinds == LifterInv => MatchesLifter
<1> SUFFICES ASSUME LifterInv, entries = <<source.base>>, NEW s \in Starts
             PROVE  \E n \in Lifter!BlockStarts(LifterProgram, 4 * source.base) : s = source.base + n - 1
  BY DEF MatchesLifter
<1> DEFINE base == source.base
           prog == LifterProgram
           n == s - base + 1
           ends == {i \in DOMAIN prog : prog[i].k \in Lifter!Jumps \cup {"Svc"}}
           targets == {Lifter!IndexOf(prog, 4 * base, prog[i].target) : i \in {j \in ends : prog[j].k \in Lifter!Jumps}}
<1>1. s \in DOMAIN code /\ s \in leaders
  BY DEF LifterInv, Starts
<1>2. n \in DOMAIN prog /\ base + n - 1 = s /\ n \in Nat /\ base \in Nat
  BY <1>1, LifterIndex, SourcesAssumption DEF LifterInv
<1>3. n \in {1} \cup targets \cup {i + 1 : i \in ends}
  <2>1. CASE s \in SetOf(entries)
    BY <1>2, <2>1 DEF SetOf
  <2>2. ASSUME NEW a \in decoded, code[a].k \in {"Branch", "CondBranch"}, s \in SetOf(Targets(a))
        PROVE  n \in targets \cup {i + 1 : i \in ends}
    <3> DEFINE m == a - base + 1
    <3>1. /\ a \in DOMAIN code /\ m \in DOMAIN prog /\ m \in Nat /\ base + m - 1 = a
          /\ prog[m].k = code[a].k /\ prog[m].target = 4 * code[a].target
      BY <2>2, LifterIndex DEF LifterInv
    <3>2. m \in ends /\ prog[m].k \in Lifter!Jumps
      BY <2>2, <3>1 DEF Lifter!Jumps
    <3>3. s = code[a].target \/ s = a + 1
      BY <2>2 DEF Targets, SetOf
    <3>4. CASE s = code[a].target
      <4>1. Lifter!IndexOf(prog, 4 * base, prog[m].target) = n
        BY <1>1, <3>1, <3>4, LifterIndex
      <4> HIDE DEF n, prog, base, m
      <4> QED
        BY <3>2, <4>1
    <3>5. CASE s = a + 1
      <4>1. n = m + 1
        BY <1>2, <3>1, <3>5
      <4> HIDE DEF n, prog, base, m
      <4> QED
        BY <3>2, <4>1
    <3> QED
      BY <3>3, <3>4, <3>5
  <2> QED
    BY <1>1, <2>1, <2>2 DEF LifterInv
<1>4. n \in Lifter!BlockStarts(prog, 4 * base)
  BY <1>2, <1>3 DEF Lifter!BlockStarts
<1> QED
  BY <1>2, <1>4

\* Recovery of decoded words is recovery.
LEMMA FrontRecovers == FrontSpec => Spec
<1>1. RecoverWords => Init
  <2> SUFFICES ASSUME RecoverWords
               PROVE  Init
    OBVIOUS
  <2>1. code \in Programs
    BY SourcesAssumption DEF RecoverWords
  <2> QED
    BY <2>1 DEF RecoverWords, Init
<1>2. [FrontNext]_frontVars => [Next]_vars
  BY DEF FrontNext, frontVars
<1> QED
  BY <1>1, <1>2, PTL DEF FrontSpec, Spec

\* The graph recovered from any program, from any entries and in an address
\* space of any size: it holds exactly what the entries reach, every decoded
\* instruction is in one block and blocks are entered at their starts only,
\* a function holds all that its entry reaches and no block is in none, and
\* the lifter starts a block wherever the graph does (recover_cfg,
\* build_blocks, discover_functions, compute_block_starts).
THEOREM GraphAlwaysExact == FrontSpec => []GraphExact
<1>1. GraphInv => ExploredIsReachable
  BY GraphIsExplored DEF ExploredIsReachable
<1>2. GraphInv /\ LifterInv => GraphExact
  BY <1>1, GraphPartition, GraphFunctions, LifterFinds DEF GraphExact
<1>3. Spec => []GraphInv
  BY GraphInit, GraphStep, PTL DEF Spec
<1>4. FrontSpec => []LifterInv
  BY LifterInit, LifterStep, PTL DEF FrontSpec
<1> QED
  BY <1>2, <1>3, <1>4, FrontRecovers, PTL

-----------------------------------------------------------------------------
(* The decoder's patterns, one after another: what each asks of the two    *)
(* halves of a word, and which word the encoder starts from.               *)

Word == Halves \X Halves

LEMMA HalvesAre ==
    ASSUME NEW h \in Halves PROVE h \in Int /\ 0 <= h /\ h <= 65535
  BY SMT DEF Halves

LEMMA HalvesHold ==
    ASSUME NEW h \in Int, 0 <= h, h <= 65535 PROVE h \in Halves
  BY SMT DEF Halves

LEMMA WordsHalves ==
    ASSUME NEW w \in Word PROVE /\ w[1] \in Int /\ 0 <= w[1] /\ w[1] <= 65535 /\ w[2] \in Int /\ 0 <= w[2] /\ w[2] <= 65535
                                /\ w[1] \in Halves /\ w[2] \in Halves
<1>1. w[1] \in Halves /\ w[2] \in Halves
  BY SMT DEF Word
<1> QED
  BY <1>1, HalvesAre, SMT

FormSet == {"MovZ", "AddImmediate", "SubImmediate", "AddsImmediate", "SubsImmediate", "Branch", "CondBranch",
            "Svc", "Dsb", "Dmb", "Isb", "FpMove",
            "FpAdd", "FpSub", "FpMul", "FpDiv", "FpCompare", "AddI64", "AddF64", "And", "Or", "Xor", "StoreWord",
                "StoreDouble", "LoadWord", "LoadDouble", "Exclusive"}

LEMMA FormsAre == ToSet(Forms) = FormSet /\ DOMAIN Forms \in SUBSET Nat
  BY DEF ToSet, Forms, FormSet

\* Fields...: what the tests of a form ask.  Opcode...: the word with its
\* fixed fields, where the encoder starts.
LEMMA FieldsMovZ ==
    ASSUME NEW w \in Word
    PROVE  Match("MovZ", w) <=> (w[1] \div 128) % 512 = \h1A5
<1>1. Pattern["MovZ"] = <<<<23, 9, \h1A5>>>>
  BY FormsAre DEF Pattern, FormSet
<1>2. BitsOf(w, 23, 9) = (w[1] \div 128) % 512
  BY SMT DEF BitsOf
<1> QED
  BY <1>1, <1>2 DEF Match

LEMMA OpcodeMovZ == Opcode["MovZ"] = <<53888, 0>>
  BY SMT DEF Opcode

LEMMA FieldsAddImmediate ==
    ASSUME NEW w \in Word
    PROVE  Match("AddImmediate", w) <=> (w[1] \div 256) % 256 = \h91
<1>1. Pattern["AddImmediate"] = <<<<24, 8, \h91>>>>
  BY FormsAre DEF Pattern, FormSet
<1>2. BitsOf(w, 24, 8) = (w[1] \div 256) % 256
  BY SMT DEF BitsOf
<1> QED
  BY <1>1, <1>2 DEF Match

LEMMA OpcodeAddImmediate == Opcode["AddImmediate"] = <<37120, 0>>
  BY SMT DEF Opcode

LEMMA FieldsSubImmediate ==
    ASSUME NEW w \in Word
    PROVE  Match("SubImmediate", w) <=> (w[1] \div 256) % 256 = \hD1
<1>1. Pattern["SubImmediate"] = <<<<24, 8, \hD1>>>>
  BY FormsAre DEF Pattern, FormSet
<1>2. BitsOf(w, 24, 8) = (w[1] \div 256) % 256
  BY SMT DEF BitsOf
<1> QED
  BY <1>1, <1>2 DEF Match

LEMMA OpcodeSubImmediate == Opcode["SubImmediate"] = <<53504, 0>>
  BY SMT DEF Opcode

LEMMA FieldsAddsImmediate ==
    ASSUME NEW w \in Word
    PROVE  Match("AddsImmediate", w) <=> (w[1] \div 256) % 256 = \hB1
<1>1. Pattern["AddsImmediate"] = <<<<24, 8, \hB1>>>>
  BY FormsAre DEF Pattern, FormSet
<1>2. BitsOf(w, 24, 8) = (w[1] \div 256) % 256
  BY SMT DEF BitsOf
<1> QED
  BY <1>1, <1>2 DEF Match

LEMMA OpcodeAddsImmediate == Opcode["AddsImmediate"] = <<45312, 0>>
  BY SMT DEF Opcode

LEMMA FieldsSubsImmediate ==
    ASSUME NEW w \in Word
    PROVE  Match("SubsImmediate", w) <=> (w[1] \div 256) % 256 = \hF1
<1>1. Pattern["SubsImmediate"] = <<<<24, 8, \hF1>>>>
  BY FormsAre DEF Pattern, FormSet
<1>2. BitsOf(w, 24, 8) = (w[1] \div 256) % 256
  BY SMT DEF BitsOf
<1> QED
  BY <1>1, <1>2 DEF Match

LEMMA OpcodeSubsImmediate == Opcode["SubsImmediate"] = <<61696, 0>>
  BY SMT DEF Opcode

LEMMA FieldsBranch ==
    ASSUME NEW w \in Word
    PROVE  Match("Branch", w) <=> (w[1] \div 1024) % 64 = \h5
<1>1. Pattern["Branch"] = <<<<26, 6, \h5>>>>
  BY FormsAre DEF Pattern, FormSet
<1>2. BitsOf(w, 26, 6) = (w[1] \div 1024) % 64
  BY SMT DEF BitsOf
<1> QED
  BY <1>1, <1>2 DEF Match

LEMMA OpcodeBranch == Opcode["Branch"] = <<5120, 0>>
  BY SMT DEF Opcode

LEMMA FieldsCondBranch ==
    ASSUME NEW w \in Word
    PROVE  Match("CondBranch", w) <=> (w[1] \div 256) % 256 = \h54 /\ (w[2] \div 16) % 2 = \h0
<1>1. Pattern["CondBranch"] = <<<<24, 8, \h54>>, <<4, 1, \h0>>>>
  BY FormsAre DEF Pattern, FormSet
<1>2. BitsOf(w, 24, 8) = (w[1] \div 256) % 256
  BY SMT DEF BitsOf
<1>3. BitsOf(w, 4, 1) = (w[2] \div 16) % 2
  BY SMT DEF BitsOf
<1> QED
  BY <1>1, <1>2, <1>3 DEF Match

LEMMA OpcodeCondBranch == Opcode["CondBranch"] = <<21504, 0>>
  BY SMT DEF Opcode

LEMMA FieldsSvc ==
    ASSUME NEW w \in Word
    PROVE  Match("Svc", w) <=> (w[1] \div 32) % 2048 = \h6A0 /\ (w[2] \div 1) % 32 = \h1
<1>1. Pattern["Svc"] = <<<<21, 11, \h6A0>>, <<0, 5, \h1>>>>
  BY FormsAre DEF Pattern, FormSet
<1>2. BitsOf(w, 21, 11) = (w[1] \div 32) % 2048
  BY SMT DEF BitsOf
<1>3. BitsOf(w, 0, 5) = (w[2] \div 1) % 32
  BY SMT DEF BitsOf
<1> QED
  BY <1>1, <1>2, <1>3 DEF Match

LEMMA OpcodeSvc == Opcode["Svc"] = <<54272, 1>>
  BY SMT DEF Opcode

LEMMA FieldsDsb ==
    ASSUME NEW w \in Word
    PROVE  Match("Dsb", w) <=> (w[2] \div 4096) + (w[1] % 65536) * 16 = \hD5033 /\ (w[2] \div 1) % 256 = \h9F
<1>1. Pattern["Dsb"] = <<<<12, 20, \hD5033>>, <<0, 8, \h9F>>>>
  BY FormsAre DEF Pattern, FormSet
<1>2. BitsOf(w, 12, 20) = (w[2] \div 4096) + (w[1] % 65536) * 16
  BY SMT DEF BitsOf
<1>3. BitsOf(w, 0, 8) = (w[2] \div 1) % 256
  BY SMT DEF BitsOf
<1> QED
  BY <1>1, <1>2, <1>3 DEF Match

LEMMA OpcodeDsb == Opcode["Dsb"] = <<54531, 12447>>
  BY SMT DEF Opcode

LEMMA FieldsDmb ==
    ASSUME NEW w \in Word
    PROVE  Match("Dmb", w) <=> (w[2] \div 4096) + (w[1] % 65536) * 16 = \hD5033 /\ (w[2] \div 1) % 256 = \hBF
<1>1. Pattern["Dmb"] = <<<<12, 20, \hD5033>>, <<0, 8, \hBF>>>>
  BY FormsAre DEF Pattern, FormSet
<1>2. BitsOf(w, 12, 20) = (w[2] \div 4096) + (w[1] % 65536) * 16
  BY SMT DEF BitsOf
<1>3. BitsOf(w, 0, 8) = (w[2] \div 1) % 256
  BY SMT DEF BitsOf
<1> QED
  BY <1>1, <1>2, <1>3 DEF Match

LEMMA OpcodeDmb == Opcode["Dmb"] = <<54531, 12479>>
  BY SMT DEF Opcode

LEMMA FieldsIsb ==
    ASSUME NEW w \in Word
    PROVE  Match("Isb", w) <=> (w[2] \div 4096) + (w[1] % 65536) * 16 = \hD5033 /\ (w[2] \div 1) % 256 = \hDF
<1>1. Pattern["Isb"] = <<<<12, 20, \hD5033>>, <<0, 8, \hDF>>>>
  BY FormsAre DEF Pattern, FormSet
<1>2. BitsOf(w, 12, 20) = (w[2] \div 4096) + (w[1] % 65536) * 16
  BY SMT DEF BitsOf
<1>3. BitsOf(w, 0, 8) = (w[2] \div 1) % 256
  BY SMT DEF BitsOf
<1> QED
  BY <1>1, <1>2, <1>3 DEF Match

LEMMA OpcodeIsb == Opcode["Isb"] = <<54531, 12511>>
  BY SMT DEF Opcode

LEMMA FieldsFpMove ==
    ASSUME NEW w \in Word
    PROVE  Match("FpMove", w) <=> (w[1] \div 32) % 2048 = \hF3 /\ (w[2] \div 1024) % 64 = \h4
<1>1. Pattern["FpMove"] = <<<<21, 11, \hF3>>, <<10, 6, \h4>>>>
  BY FormsAre DEF Pattern, FormSet
<1>2. BitsOf(w, 21, 11) = (w[1] \div 32) % 2048
  BY SMT DEF BitsOf
<1>3. BitsOf(w, 10, 6) = (w[2] \div 1024) % 64
  BY SMT DEF BitsOf
<1> QED
  BY <1>1, <1>2, <1>3 DEF Match

LEMMA OpcodeFpMove == Opcode["FpMove"] = <<7776, 4096>>
  BY SMT DEF Opcode

LEMMA FieldsFpAdd ==
    ASSUME NEW w \in Word
    PROVE  Match("FpAdd", w) <=> (w[1] \div 32) % 2048 = \hF3 /\ (w[2] \div 1024) % 64 = \hA
<1>1. Pattern["FpAdd"] = <<<<21, 11, \hF3>>, <<10, 6, \hA>>>>
  BY FormsAre DEF Pattern, FormSet
<1>2. BitsOf(w, 21, 11) = (w[1] \div 32) % 2048
  BY SMT DEF BitsOf
<1>3. BitsOf(w, 10, 6) = (w[2] \div 1024) % 64
  BY SMT DEF BitsOf
<1> QED
  BY <1>1, <1>2, <1>3 DEF Match

LEMMA OpcodeFpAdd == Opcode["FpAdd"] = <<7776, 10240>>
  BY SMT DEF Opcode

LEMMA FieldsFpSub ==
    ASSUME NEW w \in Word
    PROVE  Match("FpSub", w) <=> (w[1] \div 32) % 2048 = \hF3 /\ (w[2] \div 1024) % 64 = \hE
<1>1. Pattern["FpSub"] = <<<<21, 11, \hF3>>, <<10, 6, \hE>>>>
  BY FormsAre DEF Pattern, FormSet
<1>2. BitsOf(w, 21, 11) = (w[1] \div 32) % 2048
  BY SMT DEF BitsOf
<1>3. BitsOf(w, 10, 6) = (w[2] \div 1024) % 64
  BY SMT DEF BitsOf
<1> QED
  BY <1>1, <1>2, <1>3 DEF Match

LEMMA OpcodeFpSub == Opcode["FpSub"] = <<7776, 14336>>
  BY SMT DEF Opcode

LEMMA FieldsFpMul ==
    ASSUME NEW w \in Word
    PROVE  Match("FpMul", w) <=> (w[1] \div 32) % 2048 = \hF3 /\ (w[2] \div 1024) % 64 = \h2
<1>1. Pattern["FpMul"] = <<<<21, 11, \hF3>>, <<10, 6, \h2>>>>
  BY FormsAre DEF Pattern, FormSet
<1>2. BitsOf(w, 21, 11) = (w[1] \div 32) % 2048
  BY SMT DEF BitsOf
<1>3. BitsOf(w, 10, 6) = (w[2] \div 1024) % 64
  BY SMT DEF BitsOf
<1> QED
  BY <1>1, <1>2, <1>3 DEF Match

LEMMA OpcodeFpMul == Opcode["FpMul"] = <<7776, 2048>>
  BY SMT DEF Opcode

LEMMA FieldsFpDiv ==
    ASSUME NEW w \in Word
    PROVE  Match("FpDiv", w) <=> (w[1] \div 32) % 2048 = \hF3 /\ (w[2] \div 1024) % 64 = \h6
<1>1. Pattern["FpDiv"] = <<<<21, 11, \hF3>>, <<10, 6, \h6>>>>
  BY FormsAre DEF Pattern, FormSet
<1>2. BitsOf(w, 21, 11) = (w[1] \div 32) % 2048
  BY SMT DEF BitsOf
<1>3. BitsOf(w, 10, 6) = (w[2] \div 1024) % 64
  BY SMT DEF BitsOf
<1> QED
  BY <1>1, <1>2, <1>3 DEF Match

LEMMA OpcodeFpDiv == Opcode["FpDiv"] = <<7776, 6144>>
  BY SMT DEF Opcode

LEMMA FieldsFpCompare ==
    ASSUME NEW w \in Word
    PROVE  Match("FpCompare", w) <=> (w[1] \div 32) % 2048 = \hF3 /\ (w[2] \div 1024) % 64 = \h8 /\ (w[2] \div 1) % 32 = \h0
<1>1. Pattern["FpCompare"] = <<<<21, 11, \hF3>>, <<10, 6, \h8>>, <<0, 5, \h0>>>>
  BY FormsAre DEF Pattern, FormSet
<1>2. BitsOf(w, 21, 11) = (w[1] \div 32) % 2048
  BY SMT DEF BitsOf
<1>3. BitsOf(w, 10, 6) = (w[2] \div 1024) % 64
  BY SMT DEF BitsOf
<1>4. BitsOf(w, 0, 5) = (w[2] \div 1) % 32
  BY SMT DEF BitsOf
<1> QED
  BY <1>1, <1>2, <1>3, <1>4 DEF Match

LEMMA OpcodeFpCompare == Opcode["FpCompare"] = <<7776, 8192>>
  BY SMT DEF Opcode

LEMMA FieldsAddI64 ==
    ASSUME NEW w \in Word
    PROVE  Match("AddI64", w) <=> (w[1] \div 32) % 2048 = \h277 /\ (w[2] \div 1024) % 64 = \h21
<1>1. Pattern["AddI64"] = <<<<21, 11, \h277>>, <<10, 6, \h21>>>>
  BY FormsAre DEF Pattern, FormSet
<1>2. BitsOf(w, 21, 11) = (w[1] \div 32) % 2048
  BY SMT DEF BitsOf
<1>3. BitsOf(w, 10, 6) = (w[2] \div 1024) % 64
  BY SMT DEF BitsOf
<1> QED
  BY <1>1, <1>2, <1>3 DEF Match

LEMMA OpcodeAddI64 == Opcode["AddI64"] = <<20192, 33792>>
  BY SMT DEF Opcode

LEMMA FieldsAddF64 ==
    ASSUME NEW w \in Word
    PROVE  Match("AddF64", w) <=> (w[1] \div 32) % 2048 = \h273 /\ (w[2] \div 1024) % 64 = \h35
<1>1. Pattern["AddF64"] = <<<<21, 11, \h273>>, <<10, 6, \h35>>>>
  BY FormsAre DEF Pattern, FormSet
<1>2. BitsOf(w, 21, 11) = (w[1] \div 32) % 2048
  BY SMT DEF BitsOf
<1>3. BitsOf(w, 10, 6) = (w[2] \div 1024) % 64
  BY SMT DEF BitsOf
<1> QED
  BY <1>1, <1>2, <1>3 DEF Match

LEMMA OpcodeAddF64 == Opcode["AddF64"] = <<20064, 54272>>
  BY SMT DEF Opcode

LEMMA FieldsAnd ==
    ASSUME NEW w \in Word
    PROVE  Match("And", w) <=> (w[1] \div 32) % 2048 = \h450 /\ (w[2] \div 1024) % 64 = \h0
<1>1. Pattern["And"] = <<<<21, 11, \h450>>, <<10, 6, \h0>>>>
  BY FormsAre DEF Pattern, FormSet
<1>2. BitsOf(w, 21, 11) = (w[1] \div 32) % 2048
  BY SMT DEF BitsOf
<1>3. BitsOf(w, 10, 6) = (w[2] \div 1024) % 64
  BY SMT DEF BitsOf
<1> QED
  BY <1>1, <1>2, <1>3 DEF Match

LEMMA OpcodeAnd == Opcode["And"] = <<35328, 0>>
  BY SMT DEF Opcode

LEMMA FieldsOr ==
    ASSUME NEW w \in Word
    PROVE  Match("Or", w) <=> (w[1] \div 32) % 2048 = \h550 /\ (w[2] \div 1024) % 64 = \h0
<1>1. Pattern["Or"] = <<<<21, 11, \h550>>, <<10, 6, \h0>>>>
  BY FormsAre DEF Pattern, FormSet
<1>2. BitsOf(w, 21, 11) = (w[1] \div 32) % 2048
  BY SMT DEF BitsOf
<1>3. BitsOf(w, 10, 6) = (w[2] \div 1024) % 64
  BY SMT DEF BitsOf
<1> QED
  BY <1>1, <1>2, <1>3 DEF Match

LEMMA OpcodeOr == Opcode["Or"] = <<43520, 0>>
  BY SMT DEF Opcode

LEMMA FieldsXor ==
    ASSUME NEW w \in Word
    PROVE  Match("Xor", w) <=> (w[1] \div 32) % 2048 = \h650 /\ (w[2] \div 1024) % 64 = \h0
<1>1. Pattern["Xor"] = <<<<21, 11, \h650>>, <<10, 6, \h0>>>>
  BY FormsAre DEF Pattern, FormSet
<1>2. BitsOf(w, 21, 11) = (w[1] \div 32) % 2048
  BY SMT DEF BitsOf
<1>3. BitsOf(w, 10, 6) = (w[2] \div 1024) % 64
  BY SMT DEF BitsOf
<1> QED
  BY <1>1, <1>2, <1>3 DEF Match

LEMMA OpcodeXor == Opcode["Xor"] = <<51712, 0>>
  BY SMT DEF Opcode

LEMMA FieldsStoreWord ==
    ASSUME NEW w \in Word
    PROVE  Match("StoreWord", w) <=> (w[1] \div 64) % 1024 = \h2E4
<1>1. Pattern["StoreWord"] = <<<<22, 10, \h2E4>>>>
  BY FormsAre DEF Pattern, FormSet
<1>2. BitsOf(w, 22, 10) = (w[1] \div 64) % 1024
  BY SMT DEF BitsOf
<1> QED
  BY <1>1, <1>2 DEF Match

LEMMA OpcodeStoreWord == Opcode["StoreWord"] = <<47360, 0>>
  BY SMT DEF Opcode

LEMMA FieldsStoreDouble ==
    ASSUME NEW w \in Word
    PROVE  Match("StoreDouble", w) <=> (w[1] \div 64) % 1024 = \h3E4
<1>1. Pattern["StoreDouble"] = <<<<22, 10, \h3E4>>>>
  BY FormsAre DEF Pattern, FormSet
<1>2. BitsOf(w, 22, 10) = (w[1] \div 64) % 1024
  BY SMT DEF BitsOf
<1> QED
  BY <1>1, <1>2 DEF Match

LEMMA OpcodeStoreDouble == Opcode["StoreDouble"] = <<63744, 0>>
  BY SMT DEF Opcode

LEMMA FieldsLoadWord ==
    ASSUME NEW w \in Word
    PROVE  Match("LoadWord", w) <=> (w[1] \div 64) % 1024 = \h2E5
<1>1. Pattern["LoadWord"] = <<<<22, 10, \h2E5>>>>
  BY FormsAre DEF Pattern, FormSet
<1>2. BitsOf(w, 22, 10) = (w[1] \div 64) % 1024
  BY SMT DEF BitsOf
<1> QED
  BY <1>1, <1>2 DEF Match

LEMMA OpcodeLoadWord == Opcode["LoadWord"] = <<47424, 0>>
  BY SMT DEF Opcode

LEMMA FieldsLoadDouble ==
    ASSUME NEW w \in Word
    PROVE  Match("LoadDouble", w) <=> (w[1] \div 64) % 1024 = \h3E5
<1>1. Pattern["LoadDouble"] = <<<<22, 10, \h3E5>>>>
  BY FormsAre DEF Pattern, FormSet
<1>2. BitsOf(w, 22, 10) = (w[1] \div 64) % 1024
  BY SMT DEF BitsOf
<1> QED
  BY <1>1, <1>2 DEF Match

LEMMA OpcodeLoadDouble == Opcode["LoadDouble"] = <<63808, 0>>
  BY SMT DEF Opcode

LEMMA FieldsExclusive ==
    ASSUME NEW w \in Word
    PROVE  Match("Exclusive", w) <=> (w[1] \div 256) % 64 = \h8
<1>1. Pattern["Exclusive"] = <<<<24, 6, \h8>>>>
  BY FormsAre DEF Pattern, FormSet
<1>2. BitsOf(w, 24, 6) = (w[1] \div 256) % 64
  BY SMT DEF BitsOf
<1> QED
  BY <1>1, <1>2 DEF Match

LEMMA OpcodeExclusive == Opcode["Exclusive"] = <<2048, 31744>>
  BY SMT DEF Opcode

-----------------------------------------------------------------------------
(* The patterns exclude each other, near the encodings too.                *)

\* What tells the forms apart: the top byte, and what else is fixed there.
Marks(form, t, low, l, a, c) ==
    /\ form = "MovZ" => t = \hD2
    /\ form = "AddImmediate" => t = \h91
    /\ form = "SubImmediate" => t = \hD1
    /\ form = "AddsImmediate" => t = \hB1
    /\ form = "SubsImmediate" => t = \hF1
    /\ form = "Branch" => t \in 20 .. 23
    /\ form = "CondBranch" => t = \h54
    /\ form = "Svc" => t = \hD4
    /\ form = "Dsb" => t = \hD5 /\ low = \h9F
    /\ form = "Dmb" => t = \hD5 /\ low = \hBF
    /\ form = "Isb" => t = \hD5 /\ low = \hDF
    /\ form = "FpMove" => t = \h1E /\ l = 4
    /\ form = "FpAdd" => t = \h1E /\ l = 10
    /\ form = "FpSub" => t = \h1E /\ l = 14
    /\ form = "FpMul" => t = \h1E /\ l = 2
    /\ form = "FpDiv" => t = \h1E /\ l = 6
    /\ form = "FpCompare" => t = \h1E /\ l = 8
    /\ form = "AddI64" => t = \h4E /\ a = 7
    /\ form = "AddF64" => t = \h4E /\ a = 3
    /\ form = "And" => t = \h8A
    /\ form = "Or" => t = \hAA
    /\ form = "Xor" => t = \hCA
    /\ form = "StoreWord" => t = \hB9 /\ c = 0
    /\ form = "StoreDouble" => t = \hF9 /\ c = 0
    /\ form = "LoadWord" => t = \hB9 /\ c = 1
    /\ form = "LoadDouble" => t = \hF9 /\ c = 1
    /\ form = "Exclusive" => t \in {8, 72, 136, 200}

LEMMA MarksDiffer ==
    ASSUME NEW f \in FormSet, NEW g \in FormSet, NEW t \in Nat, NEW low \in Nat, NEW l \in Nat, NEW a \in Nat, NEW c \in Nat,
           Marks(f, t, low, l, a, c), Marks(g, t, low, l, a, c)
    PROVE  f = g
  BY DEF Marks, FormSet

MarksOf(form, w) == Marks(form, w[1] \div 256, w[2] % 256, w[2] \div 1024, (w[1] \div 32) % 8, (w[1] \div 64) % 4)

LEMMA FormMarked ==
    ASSUME NEW w \in Word, NEW form \in FormSet, Match(form, w)
    PROVE  MarksOf(form, w)
<1> DEFINE t == w[1] \div 256
           low == w[2] % 256
           l == w[2] \div 1024
           a == (w[1] \div 32) % 8
           c == (w[1] \div 64) % 4
<1>0. w[1] \in Int /\ 0 <= w[1] /\ w[1] <= 65535 /\ w[2] \in Int /\ 0 <= w[2] /\ w[2] <= 65535
  BY WordsHalves, SMT
<1>1. ASSUME form = "MovZ" PROVE Marks(form, t, low, l, a, c)
  <2>1. (w[1] \div 128) % 512 = \h1A5
    BY <1>1, FieldsMovZ
  <2>2. t = \hD2
    BY <1>0, <2>1, SMT
  <2> HIDE DEF t, low, l, a, c
  <2> QED
    BY <1>1, <2>2 DEF Marks
<1>2. ASSUME form = "AddImmediate" PROVE Marks(form, t, low, l, a, c)
  <2>1. (w[1] \div 256) % 256 = \h91
    BY <1>2, FieldsAddImmediate
  <2>2. t = \h91
    BY <1>0, <2>1, SMT
  <2> HIDE DEF t, low, l, a, c
  <2> QED
    BY <1>2, <2>2 DEF Marks
<1>3. ASSUME form = "SubImmediate" PROVE Marks(form, t, low, l, a, c)
  <2>1. (w[1] \div 256) % 256 = \hD1
    BY <1>3, FieldsSubImmediate
  <2>2. t = \hD1
    BY <1>0, <2>1, SMT
  <2> HIDE DEF t, low, l, a, c
  <2> QED
    BY <1>3, <2>2 DEF Marks
<1>4. ASSUME form = "AddsImmediate" PROVE Marks(form, t, low, l, a, c)
  <2>1. (w[1] \div 256) % 256 = \hB1
    BY <1>4, FieldsAddsImmediate
  <2>2. t = \hB1
    BY <1>0, <2>1, SMT
  <2> HIDE DEF t, low, l, a, c
  <2> QED
    BY <1>4, <2>2 DEF Marks
<1>5. ASSUME form = "SubsImmediate" PROVE Marks(form, t, low, l, a, c)
  <2>1. (w[1] \div 256) % 256 = \hF1
    BY <1>5, FieldsSubsImmediate
  <2>2. t = \hF1
    BY <1>0, <2>1, SMT
  <2> HIDE DEF t, low, l, a, c
  <2> QED
    BY <1>5, <2>2 DEF Marks
<1>6. ASSUME form = "Branch" PROVE Marks(form, t, low, l, a, c)
  <2>1. (w[1] \div 1024) % 64 = \h5
    BY <1>6, FieldsBranch
  <2>2. t \in 20 .. 23
    BY <1>0, <2>1, SMT
  <2> HIDE DEF t, low, l, a, c
  <2> QED
    BY <1>6, <2>2 DEF Marks
<1>7. ASSUME form = "CondBranch" PROVE Marks(form, t, low, l, a, c)
  <2>1. (w[1] \div 256) % 256 = \h54 /\ (w[2] \div 16) % 2 = \h0
    BY <1>7, FieldsCondBranch
  <2>2. t = \h54
    BY <1>0, <2>1, SMT
  <2> HIDE DEF t, low, l, a, c
  <2> QED
    BY <1>7, <2>2 DEF Marks
<1>8. ASSUME form = "Svc" PROVE Marks(form, t, low, l, a, c)
  <2>1. (w[1] \div 32) % 2048 = \h6A0 /\ (w[2] \div 1) % 32 = \h1
    BY <1>8, FieldsSvc
  <2>2. t = \hD4
    BY <1>0, <2>1, SMT
  <2> HIDE DEF t, low, l, a, c
  <2> QED
    BY <1>8, <2>2 DEF Marks
<1>9. ASSUME form = "Dsb" PROVE Marks(form, t, low, l, a, c)
  <2>1. (w[2] \div 4096) + (w[1] % 65536) * 16 = \hD5033 /\ (w[2] \div 1) % 256 = \h9F
    BY <1>9, FieldsDsb
  <2>2. t = \hD5 /\ low = \h9F
    BY <1>0, <2>1, SMT
  <2> HIDE DEF t, low, l, a, c
  <2> QED
    BY <1>9, <2>2 DEF Marks
<1>10. ASSUME form = "Dmb" PROVE Marks(form, t, low, l, a, c)
  <2>1. (w[2] \div 4096) + (w[1] % 65536) * 16 = \hD5033 /\ (w[2] \div 1) % 256 = \hBF
    BY <1>10, FieldsDmb
  <2>2. t = \hD5 /\ low = \hBF
    BY <1>0, <2>1, SMT
  <2> HIDE DEF t, low, l, a, c
  <2> QED
    BY <1>10, <2>2 DEF Marks
<1>11. ASSUME form = "Isb" PROVE Marks(form, t, low, l, a, c)
  <2>1. (w[2] \div 4096) + (w[1] % 65536) * 16 = \hD5033 /\ (w[2] \div 1) % 256 = \hDF
    BY <1>11, FieldsIsb
  <2>2. t = \hD5 /\ low = \hDF
    BY <1>0, <2>1, SMT
  <2> HIDE DEF t, low, l, a, c
  <2> QED
    BY <1>11, <2>2 DEF Marks
<1>12. ASSUME form = "FpMove" PROVE Marks(form, t, low, l, a, c)
  <2>1. (w[1] \div 32) % 2048 = \hF3 /\ (w[2] \div 1024) % 64 = \h4
    BY <1>12, FieldsFpMove
  <2>2. t = \h1E /\ l = 4
    BY <1>0, <2>1, SMT
  <2> HIDE DEF t, low, l, a, c
  <2> QED
    BY <1>12, <2>2 DEF Marks
<1>13. ASSUME form = "FpAdd" PROVE Marks(form, t, low, l, a, c)
  <2>1. (w[1] \div 32) % 2048 = \hF3 /\ (w[2] \div 1024) % 64 = \hA
    BY <1>13, FieldsFpAdd
  <2>2. t = \h1E /\ l = 10
    BY <1>0, <2>1, SMT
  <2> HIDE DEF t, low, l, a, c
  <2> QED
    BY <1>13, <2>2 DEF Marks
<1>14. ASSUME form = "FpSub" PROVE Marks(form, t, low, l, a, c)
  <2>1. (w[1] \div 32) % 2048 = \hF3 /\ (w[2] \div 1024) % 64 = \hE
    BY <1>14, FieldsFpSub
  <2>2. t = \h1E /\ l = 14
    BY <1>0, <2>1, SMT
  <2> HIDE DEF t, low, l, a, c
  <2> QED
    BY <1>14, <2>2 DEF Marks
<1>15. ASSUME form = "FpMul" PROVE Marks(form, t, low, l, a, c)
  <2>1. (w[1] \div 32) % 2048 = \hF3 /\ (w[2] \div 1024) % 64 = \h2
    BY <1>15, FieldsFpMul
  <2>2. t = \h1E /\ l = 2
    BY <1>0, <2>1, SMT
  <2> HIDE DEF t, low, l, a, c
  <2> QED
    BY <1>15, <2>2 DEF Marks
<1>16. ASSUME form = "FpDiv" PROVE Marks(form, t, low, l, a, c)
  <2>1. (w[1] \div 32) % 2048 = \hF3 /\ (w[2] \div 1024) % 64 = \h6
    BY <1>16, FieldsFpDiv
  <2>2. t = \h1E /\ l = 6
    BY <1>0, <2>1, SMT
  <2> HIDE DEF t, low, l, a, c
  <2> QED
    BY <1>16, <2>2 DEF Marks
<1>17. ASSUME form = "FpCompare" PROVE Marks(form, t, low, l, a, c)
  <2>1. (w[1] \div 32) % 2048 = \hF3 /\ (w[2] \div 1024) % 64 = \h8 /\ (w[2] \div 1) % 32 = \h0
    BY <1>17, FieldsFpCompare
  <2>2. t = \h1E /\ l = 8
    BY <1>0, <2>1, SMT
  <2> HIDE DEF t, low, l, a, c
  <2> QED
    BY <1>17, <2>2 DEF Marks
<1>18. ASSUME form = "AddI64" PROVE Marks(form, t, low, l, a, c)
  <2>1. (w[1] \div 32) % 2048 = \h277 /\ (w[2] \div 1024) % 64 = \h21
    BY <1>18, FieldsAddI64
  <2>2. t = \h4E /\ a = 7
    BY <1>0, <2>1, SMT
  <2> HIDE DEF t, low, l, a, c
  <2> QED
    BY <1>18, <2>2 DEF Marks
<1>19. ASSUME form = "AddF64" PROVE Marks(form, t, low, l, a, c)
  <2>1. (w[1] \div 32) % 2048 = \h273 /\ (w[2] \div 1024) % 64 = \h35
    BY <1>19, FieldsAddF64
  <2>2. t = \h4E /\ a = 3
    BY <1>0, <2>1, SMT
  <2> HIDE DEF t, low, l, a, c
  <2> QED
    BY <1>19, <2>2 DEF Marks
<1>20. ASSUME form = "And" PROVE Marks(form, t, low, l, a, c)
  <2>1. (w[1] \div 32) % 2048 = \h450 /\ (w[2] \div 1024) % 64 = \h0
    BY <1>20, FieldsAnd
  <2>2. t = \h8A
    BY <1>0, <2>1, SMT
  <2> HIDE DEF t, low, l, a, c
  <2> QED
    BY <1>20, <2>2 DEF Marks
<1>21. ASSUME form = "Or" PROVE Marks(form, t, low, l, a, c)
  <2>1. (w[1] \div 32) % 2048 = \h550 /\ (w[2] \div 1024) % 64 = \h0
    BY <1>21, FieldsOr
  <2>2. t = \hAA
    BY <1>0, <2>1, SMT
  <2> HIDE DEF t, low, l, a, c
  <2> QED
    BY <1>21, <2>2 DEF Marks
<1>22. ASSUME form = "Xor" PROVE Marks(form, t, low, l, a, c)
  <2>1. (w[1] \div 32) % 2048 = \h650 /\ (w[2] \div 1024) % 64 = \h0
    BY <1>22, FieldsXor
  <2>2. t = \hCA
    BY <1>0, <2>1, SMT
  <2> HIDE DEF t, low, l, a, c
  <2> QED
    BY <1>22, <2>2 DEF Marks
<1>23. ASSUME form = "StoreWord" PROVE Marks(form, t, low, l, a, c)
  <2>1. (w[1] \div 64) % 1024 = \h2E4
    BY <1>23, FieldsStoreWord
  <2>2. t = \hB9 /\ c = 0
    BY <1>0, <2>1, SMT
  <2> HIDE DEF t, low, l, a, c
  <2> QED
    BY <1>23, <2>2 DEF Marks
<1>24. ASSUME form = "StoreDouble" PROVE Marks(form, t, low, l, a, c)
  <2>1. (w[1] \div 64) % 1024 = \h3E4
    BY <1>24, FieldsStoreDouble
  <2>2. t = \hF9 /\ c = 0
    BY <1>0, <2>1, SMT
  <2> HIDE DEF t, low, l, a, c
  <2> QED
    BY <1>24, <2>2 DEF Marks
<1>25. ASSUME form = "LoadWord" PROVE Marks(form, t, low, l, a, c)
  <2>1. (w[1] \div 64) % 1024 = \h2E5
    BY <1>25, FieldsLoadWord
  <2>2. t = \hB9 /\ c = 1
    BY <1>0, <2>1, SMT
  <2> HIDE DEF t, low, l, a, c
  <2> QED
    BY <1>25, <2>2 DEF Marks
<1>26. ASSUME form = "LoadDouble" PROVE Marks(form, t, low, l, a, c)
  <2>1. (w[1] \div 64) % 1024 = \h3E5
    BY <1>26, FieldsLoadDouble
  <2>2. t = \hF9 /\ c = 1
    BY <1>0, <2>1, SMT
  <2> HIDE DEF t, low, l, a, c
  <2> QED
    BY <1>26, <2>2 DEF Marks
<1>27. ASSUME form = "Exclusive" PROVE Marks(form, t, low, l, a, c)
  <2>1. (w[1] \div 256) % 64 = \h8
    BY <1>27, FieldsExclusive
  <2>2. t \in {8, 72, 136, 200}
    BY <1>0, <2>1, SMT
  <2> HIDE DEF t, low, l, a, c
  <2> QED
    BY <1>27, <2>2 DEF Marks
<1>28. Marks(form, t, low, l, a, c)
  <2> HIDE DEF t, low, l, a, c
  <2> QED
    BY <1>1, <1>2, <1>3, <1>4, <1>5, <1>6, <1>7, <1>8,
        <1>9, <1>10, <1>11, <1>12, <1>13, <1>14, <1>15, <1>16, <1>17, <1>18, <1>19, <1>20, <1>21, <1>22, <1>23, <1>24, <1>25, <1>26, <1>27 DEF FormSet
<1> QED
  BY <1>28 DEF MarksOf

\* No word matches two patterns.
LEMMA SoleForm ==
    ASSUME NEW w \in Word, NEW f \in FormSet, NEW g \in FormSet, Match(f, w), Match(g, w)
    PROVE  f = g
<1> DEFINE t == w[1] \div 256
           low == w[2] % 256
           l == w[2] \div 1024
           a == (w[1] \div 32) % 8
           c == (w[1] \div 64) % 4
<1>0. w[1] \in Int /\ 0 <= w[1] /\ w[1] <= 65535 /\ w[2] \in Int /\ 0 <= w[2] /\ w[2] <= 65535
  BY WordsHalves, SMT
<1>1. t \in Nat /\ low \in Nat /\ l \in Nat /\ a \in Nat /\ c \in Nat
  BY <1>0, SMT
<1>2. Marks(f, t, low, l, a, c) /\ Marks(g, t, low, l, a, c)
  <2>1. MarksOf(f, w) /\ MarksOf(g, w)
    BY FormMarked, Zenon
  <2> QED
    BY <2>1, SMT DEF MarksOf
<1> HIDE DEF t, low, l, a, c
<1> QED
  BY <1>1, <1>2, MarksDiffer, Zenon

\* The order of the tests does not matter.
LEMMA DecodesAs ==
    ASSUME NEW w \in Word, NEW at, NEW form \in FormSet, Match(form, w), Meaning(form, w, at) # Undecoded
    PROVE  DecodeKind(w, at) = Meaning(form, w, at)
<1> DEFINE hits == {n \in DOMAIN Forms : Match(Forms[n], w) /\ Meaning(Forms[n], w, at) # Undecoded}
<1>1. PICK n \in DOMAIN Forms : Forms[n] = form
  BY FormsAre, Zenon DEF ToSet
<1>2. n \in hits /\ hits \in SUBSET Nat /\ \A m \in hits : Forms[m] \in FormSet /\ Match(Forms[m], w)
  BY <1>1, FormsAre, Zenon DEF ToSet
<1>3. DecodeKind(w, at) = Meaning(Forms[Min(hits)], w, at)
  BY <1>2, Zenon DEF DecodeKind
<1> HIDE DEF hits
<1>4. Min(hits) \in hits
  BY <1>2, Least DEF Min
<1>5. Forms[Min(hits)] = form
  BY <1>2, <1>4, SoleForm, Zenon
<1> QED
  BY <1>3, <1>5, Zenon

LEMMA ZeroWord == <<0, 0>> \in Word /\ \A at : DecodeKind(<<0, 0>>, at) = Undecoded
<1> DEFINE w == <<0, 0>>
<1>1. 0 \in Halves
  BY SMT DEF Halves
<1>2. w \in Word
  BY <1>1, SMT DEF Word
<1>3. w[1] \div 256 = 0 /\ w[2] % 256 = 0 /\ w[2] \div 1024 = 0 /\ (w[1] \div 32) % 8 = 0 /\ (w[1] \div 64) % 4 = 0
  BY SMT
<1>4. ASSUME NEW form \in FormSet PROVE ~Match(form, w)
  <2>1. Match(form, w) => MarksOf(form, w)
    BY <1>2, FormMarked, Zenon
  <2>3. MarksOf(form, w) <=> Marks(form, 0, 0, 0, 0, 0)
    BY <1>3, SMT DEF MarksOf
  <2>2. ~Marks(form, 0, 0, 0, 0, 0)
    BY SMT DEF Marks, FormSet
  <2> HIDE DEF w
  <2> QED
    BY <2>1, <2>2, <2>3, Zenon
<1>5. ASSUME NEW at PROVE DecodeKind(w, at) = Undecoded
  <2>1. {n \in DOMAIN Forms : Match(Forms[n], w) /\ Meaning(Forms[n], w, at) # Undecoded} = {}
    BY <1>4, FormsAre, Zenon DEF ToSet
  <2> QED
    BY <2>1, Zenon DEF DecodeKind
<1> QED
  BY <1>2, <1>5, Zenon

\* A half with one bit turned.
LEMMA BitTurned ==
    ASSUME NEW h \in Halves, NEW k \in 0 .. 15
    PROVE  /\ (h \div 2 ^ k) % 2 = 1 => h - 2 ^ k \in Halves
           /\ (h \div 2 ^ k) % 2 # 1 => h + 2 ^ k \in Halves
<1>0. h \in Int /\ 0 <= h /\ h <= 65535 /\ \A x \in Int : 0 <= x /\ x <= 65535 => x \in Halves
  BY HalvesAre, HalvesHold, SMT
<1>1. CASE k = 0
  <2>1. 2 ^ k = 1
    BY <1>1, SMT
  <2>2. /\ (h \div 1) % 2 = 1 => 0 <= h - 1 /\ h - 1 <= 65535
        /\ (h \div 1) % 2 # 1 => 0 <= h + 1 /\ h + 1 <= 65535
    BY <1>0, SMT
  <2> QED
    BY <1>0, <2>1, <2>2, SMT
<1>2. CASE k = 1
  <2>1. 2 ^ k = 2
    BY <1>2, SMT
  <2>2. /\ (h \div 2) % 2 = 1 => 0 <= h - 2 /\ h - 2 <= 65535
        /\ (h \div 2) % 2 # 1 => 0 <= h + 2 /\ h + 2 <= 65535
    BY <1>0, SMT
  <2> QED
    BY <1>0, <2>1, <2>2, SMT
<1>3. CASE k = 2
  <2>1. 2 ^ k = 4
    BY <1>3, SMT
  <2>2. /\ (h \div 4) % 2 = 1 => 0 <= h - 4 /\ h - 4 <= 65535
        /\ (h \div 4) % 2 # 1 => 0 <= h + 4 /\ h + 4 <= 65535
    BY <1>0, SMT
  <2> QED
    BY <1>0, <2>1, <2>2, SMT
<1>4. CASE k = 3
  <2>1. 2 ^ k = 8
    BY <1>4, SMT
  <2>2. /\ (h \div 8) % 2 = 1 => 0 <= h - 8 /\ h - 8 <= 65535
        /\ (h \div 8) % 2 # 1 => 0 <= h + 8 /\ h + 8 <= 65535
    BY <1>0, SMT
  <2> QED
    BY <1>0, <2>1, <2>2, SMT
<1>5. CASE k = 4
  <2>1. 2 ^ k = 16
    BY <1>5, SMT
  <2>2. /\ (h \div 16) % 2 = 1 => 0 <= h - 16 /\ h - 16 <= 65535
        /\ (h \div 16) % 2 # 1 => 0 <= h + 16 /\ h + 16 <= 65535
    BY <1>0, SMT
  <2> QED
    BY <1>0, <2>1, <2>2, SMT
<1>6. CASE k = 5
  <2>1. 2 ^ k = 32
    BY <1>6, SMT
  <2>2. /\ (h \div 32) % 2 = 1 => 0 <= h - 32 /\ h - 32 <= 65535
        /\ (h \div 32) % 2 # 1 => 0 <= h + 32 /\ h + 32 <= 65535
    BY <1>0, SMT
  <2> QED
    BY <1>0, <2>1, <2>2, SMT
<1>7. CASE k = 6
  <2>1. 2 ^ k = 64
    BY <1>7, SMT
  <2>2. /\ (h \div 64) % 2 = 1 => 0 <= h - 64 /\ h - 64 <= 65535
        /\ (h \div 64) % 2 # 1 => 0 <= h + 64 /\ h + 64 <= 65535
    BY <1>0, SMT
  <2> QED
    BY <1>0, <2>1, <2>2, SMT
<1>8. CASE k = 7
  <2>1. 2 ^ k = 128
    BY <1>8, SMT
  <2>2. /\ (h \div 128) % 2 = 1 => 0 <= h - 128 /\ h - 128 <= 65535
        /\ (h \div 128) % 2 # 1 => 0 <= h + 128 /\ h + 128 <= 65535
    BY <1>0, SMT
  <2> QED
    BY <1>0, <2>1, <2>2, SMT
<1>9. CASE k = 8
  <2>1. 2 ^ k = 256
    BY <1>9, SMT
  <2>2. /\ (h \div 256) % 2 = 1 => 0 <= h - 256 /\ h - 256 <= 65535
        /\ (h \div 256) % 2 # 1 => 0 <= h + 256 /\ h + 256 <= 65535
    BY <1>0, SMT
  <2> QED
    BY <1>0, <2>1, <2>2, SMT
<1>10. CASE k = 9
  <2>1. 2 ^ k = 512
    BY <1>10, SMT
  <2>2. /\ (h \div 512) % 2 = 1 => 0 <= h - 512 /\ h - 512 <= 65535
        /\ (h \div 512) % 2 # 1 => 0 <= h + 512 /\ h + 512 <= 65535
    BY <1>0, SMT
  <2> QED
    BY <1>0, <2>1, <2>2, SMT
<1>11. CASE k = 10
  <2>1. 2 ^ k = 1024
    BY <1>11, SMT
  <2>2. /\ (h \div 1024) % 2 = 1 => 0 <= h - 1024 /\ h - 1024 <= 65535
        /\ (h \div 1024) % 2 # 1 => 0 <= h + 1024 /\ h + 1024 <= 65535
    BY <1>0, SMT
  <2> QED
    BY <1>0, <2>1, <2>2, SMT
<1>12. CASE k = 11
  <2>1. 2 ^ k = 2048
    BY <1>12, SMT
  <2>2. /\ (h \div 2048) % 2 = 1 => 0 <= h - 2048 /\ h - 2048 <= 65535
        /\ (h \div 2048) % 2 # 1 => 0 <= h + 2048 /\ h + 2048 <= 65535
    BY <1>0, SMT
  <2> QED
    BY <1>0, <2>1, <2>2, SMT
<1>13. CASE k = 12
  <2>1. 2 ^ k = 4096
    BY <1>13, SMT
  <2>2. /\ (h \div 4096) % 2 = 1 => 0 <= h - 4096 /\ h - 4096 <= 65535
        /\ (h \div 4096) % 2 # 1 => 0 <= h + 4096 /\ h + 4096 <= 65535
    BY <1>0, SMT
  <2> QED
    BY <1>0, <2>1, <2>2, SMT
<1>14. CASE k = 13
  <2>1. 2 ^ k = 8192
    BY <1>14, SMT
  <2>2. /\ (h \div 8192) % 2 = 1 => 0 <= h - 8192 /\ h - 8192 <= 65535
        /\ (h \div 8192) % 2 # 1 => 0 <= h + 8192 /\ h + 8192 <= 65535
    BY <1>0, SMT
  <2> QED
    BY <1>0, <2>1, <2>2, SMT
<1>15. CASE k = 14
  <2>1. 2 ^ k = 16384
    BY <1>15, SMT
  <2>2. /\ (h \div 16384) % 2 = 1 => 0 <= h - 16384 /\ h - 16384 <= 65535
        /\ (h \div 16384) % 2 # 1 => 0 <= h + 16384 /\ h + 16384 <= 65535
    BY <1>0, SMT
  <2> QED
    BY <1>0, <2>1, <2>2, SMT
<1>16. CASE k = 15
  <2>1. 2 ^ k = 32768
    BY <1>16, SMT
  <2>2. /\ (h \div 32768) % 2 = 1 => 0 <= h - 32768 /\ h - 32768 <= 65535
        /\ (h \div 32768) % 2 # 1 => 0 <= h + 32768 /\ h + 32768 <= 65535
    BY <1>0, SMT
  <2> QED
    BY <1>0, <2>1, <2>2, SMT
<1> QED
  BY <1>1, <1>2, <1>3, <1>4, <1>5, <1>6, <1>7, <1>8, <1>9, <1>10, <1>11, <1>12, <1>13, <1>14, <1>15, <1>16, SMT

\* One bit of a word.
LEMMA Powers ==
    ASSUME NEW k \in 1 .. 16 PROVE 2 ^ k \in Int /\ 2 <= 2 ^ k /\ 1 \div 2 ^ k = 0 /\ 1 % 2 ^ k = 1
<1>1. CASE k = 1
  <2>1. 2 ^ k = 2
    BY <1>1, SMT
  <2>2. 1 \div 2 = 0 /\ 1 % 2 = 1
    BY SMT
  <2> QED
    BY <2>1, <2>2, SMT
<1>2. CASE k = 2
  <2>1. 2 ^ k = 4
    BY <1>2, SMT
  <2>2. 1 \div 4 = 0 /\ 1 % 4 = 1
    BY SMT
  <2> QED
    BY <2>1, <2>2, SMT
<1>3. CASE k = 3
  <2>1. 2 ^ k = 8
    BY <1>3, SMT
  <2>2. 1 \div 8 = 0 /\ 1 % 8 = 1
    BY SMT
  <2> QED
    BY <2>1, <2>2, SMT
<1>4. CASE k = 4
  <2>1. 2 ^ k = 16
    BY <1>4, SMT
  <2>2. 1 \div 16 = 0 /\ 1 % 16 = 1
    BY SMT
  <2> QED
    BY <2>1, <2>2, SMT
<1>5. CASE k = 5
  <2>1. 2 ^ k = 32
    BY <1>5, SMT
  <2>2. 1 \div 32 = 0 /\ 1 % 32 = 1
    BY SMT
  <2> QED
    BY <2>1, <2>2, SMT
<1>6. CASE k = 6
  <2>1. 2 ^ k = 64
    BY <1>6, SMT
  <2>2. 1 \div 64 = 0 /\ 1 % 64 = 1
    BY SMT
  <2> QED
    BY <2>1, <2>2, SMT
<1>7. CASE k = 7
  <2>1. 2 ^ k = 128
    BY <1>7, SMT
  <2>2. 1 \div 128 = 0 /\ 1 % 128 = 1
    BY SMT
  <2> QED
    BY <2>1, <2>2, SMT
<1>8. CASE k = 8
  <2>1. 2 ^ k = 256
    BY <1>8, SMT
  <2>2. 1 \div 256 = 0 /\ 1 % 256 = 1
    BY SMT
  <2> QED
    BY <2>1, <2>2, SMT
<1>9. CASE k = 9
  <2>1. 2 ^ k = 512
    BY <1>9, SMT
  <2>2. 1 \div 512 = 0 /\ 1 % 512 = 1
    BY SMT
  <2> QED
    BY <2>1, <2>2, SMT
<1>10. CASE k = 10
  <2>1. 2 ^ k = 1024
    BY <1>10, SMT
  <2>2. 1 \div 1024 = 0 /\ 1 % 1024 = 1
    BY SMT
  <2> QED
    BY <2>1, <2>2, SMT
<1>11. CASE k = 11
  <2>1. 2 ^ k = 2048
    BY <1>11, SMT
  <2>2. 1 \div 2048 = 0 /\ 1 % 2048 = 1
    BY SMT
  <2> QED
    BY <2>1, <2>2, SMT
<1>12. CASE k = 12
  <2>1. 2 ^ k = 4096
    BY <1>12, SMT
  <2>2. 1 \div 4096 = 0 /\ 1 % 4096 = 1
    BY SMT
  <2> QED
    BY <2>1, <2>2, SMT
<1>13. CASE k = 13
  <2>1. 2 ^ k = 8192
    BY <1>13, SMT
  <2>2. 1 \div 8192 = 0 /\ 1 % 8192 = 1
    BY SMT
  <2> QED
    BY <2>1, <2>2, SMT
<1>14. CASE k = 14
  <2>1. 2 ^ k = 16384
    BY <1>14, SMT
  <2>2. 1 \div 16384 = 0 /\ 1 % 16384 = 1
    BY SMT
  <2> QED
    BY <2>1, <2>2, SMT
<1>15. CASE k = 15
  <2>1. 2 ^ k = 32768
    BY <1>15, SMT
  <2>2. 1 \div 32768 = 0 /\ 1 % 32768 = 1
    BY SMT
  <2> QED
    BY <2>1, <2>2, SMT
<1>16. CASE k = 16
  <2>1. 2 ^ k = 65536
    BY <1>16, SMT
  <2>2. 1 \div 65536 = 0 /\ 1 % 65536 = 1
    BY SMT
  <2> QED
    BY <2>1, <2>2, SMT
<1> QED
  BY <1>1, <1>2, <1>3, <1>4, <1>5, <1>6, <1>7, <1>8, <1>9, <1>10, <1>11, <1>12, <1>13, <1>14, <1>15, <1>16, SMT

LEMMA OneLow ==
    ASSUME NEW n, ~(n >= 16), 1 \div 2 ^ (16 - n) = 0, 1 % 2 ^ (16 - n) = 1, 2 ^ n \in Int
    PROVE  At(1, n) = <<0, 2 ^ n>>
<1>1. At(1, n) = <<(1 \div 2 ^ (16 - n)) % 65536, (1 % 2 ^ (16 - n)) * 2 ^ n>>
  BY SMT DEF At
<1>2. At(1, n) = <<0 % 65536, 1 * 2 ^ n>>
  BY <1>1, SMT
<1> QED
  BY <1>2, SMT

LEMMA OneBit ==
    ASSUME NEW n \in 0 .. 31
    PROVE  At(1, n) = IF n >= 16 THEN <<2 ^ (n - 16), 0>> ELSE <<0, 2 ^ n>>
<1>1. CASE n >= 16
  <2>1. 2 ^ (n - 16) \in Int
    BY <1>1, SMT
  <2> QED
    BY <1>1, <2>1, SMT DEF At
<1>2. CASE ~(n >= 16)
  <2> DEFINE k == 16 - n
             p == 2 ^ k
  <2>1. k \in 1 .. 16
    BY <1>2, SMT
  <2>2. 1 \div p = 0 /\ 1 % p = 1
    <3> HIDE DEF k
    <3> QED
      BY <2>1, Powers, Zenon
  <2>3. 2 ^ n \in Int
    BY <1>2, SMT
  <2> QED
    BY <1>2, <2>2, <2>3, OneLow, Zenon
<1> QED
  BY <1>1, <1>2, Zenon

\* A word with one bit turned is a word.
LEMMA FlipsAreWords ==
    ASSUME NEW w \in Word, NEW n \in 0 .. 31
    PROVE  Flip(w, n) \in Word
<1>0. /\ w[1] \in Int /\ w[2] \in Int /\ w[1] \in Halves /\ w[2] \in Halves /\ 0 \in Halves
      /\ \A x \in Halves, y \in Halves : <<x, y>> \in Word
  <2>1. w[1] \in Int /\ w[2] \in Int /\ w[1] \in Halves /\ w[2] \in Halves
    BY WordsHalves, SMT
  <2>2. 0 \in Halves
    BY HalvesHold, SMT
  <2>3. \A x \in Halves, y \in Halves : <<x, y>> \in Word
    BY SMT DEF Word
  <2> QED
    BY <2>1, <2>2, <2>3
<1>1. CASE n >= 16
  <2> DEFINE k == n - 16
             p == 2 ^ k
  <2>1. k \in 0 .. 15 /\ p \in Int
    BY <1>1, SMT
  <2>2. At(1, n)[1] = p /\ At(1, n)[2] = 0
    <3>1. At(1, n) = <<p, 0>>
      BY <1>1, OneBit, Zenon
    <3> HIDE DEF p
    <3> QED
      BY <3>1, SMT
  <2>3. BitsOf(w, n, 1) = (w[1] \div p) % 2
    BY <1>1, SMT DEF BitsOf
  <2>4. /\ (w[1] \div p) % 2 = 1 => w[1] - p \in Halves
        /\ (w[1] \div p) % 2 # 1 => w[1] + p \in Halves
    <3> HIDE DEF k
    <3> QED
      BY <1>0, <2>1, BitTurned, Zenon
  <2> HIDE DEF p
  <2>5. Flip(w, n) = IF (w[1] \div p) % 2 = 1 THEN <<w[1] - p, w[2]>> ELSE <<w[1] + p, w[2]>>
    BY <1>0, <2>1, <2>2, <2>3, SMT DEF Flip
  <2> QED
    BY <1>0, <2>4, <2>5, Zenon
<1>2. CASE ~(n >= 16)
  <2> DEFINE p == 2 ^ n
  <2>1. n \in 0 .. 15 /\ p \in Int
    BY <1>2, SMT
  <2>2. At(1, n)[1] = 0 /\ At(1, n)[2] = p
    <3>1. At(1, n) = <<0, p>>
      BY <1>2, OneBit, Zenon
    <3> HIDE DEF p
    <3> QED
      BY <3>1, SMT
  <2>3. BitsOf(w, n, 1) = (w[2] \div p) % 2
    BY <1>2, SMT DEF BitsOf
  <2>4. /\ (w[2] \div p) % 2 = 1 => w[2] - p \in Halves
        /\ (w[2] \div p) % 2 # 1 => w[2] + p \in Halves
    BY <1>0, <2>1, BitTurned, Zenon
  <2> HIDE DEF p
  <2>5. Flip(w, n) = IF (w[2] \div p) % 2 = 1 THEN <<w[1], w[2] - p>> ELSE <<w[1], w[2] + p>>
    BY <1>0, <2>1, <2>2, <2>3, SMT DEF Flip
  <2> QED
    BY <1>0, <2>4, <2>5, Zenon
<1> QED
  BY <1>1, <1>2, Zenon

\* At most one pattern matches.
LEMMA FewMatch ==
    ASSUME NEW w \in Word
    PROVE  Cardinality({form \in ToSet(Forms) : Match(form, w)}) <= 1
<1> DEFINE S == {form \in ToSet(Forms) : Match(form, w)}
<1>0. S \in SUBSET FormSet /\ \A form \in S : Match(form, w)
  BY FormsAre
<1>1. ASSUME NEW f \in S, NEW g \in S PROVE f = g
  <2> HIDE DEF S
  <2>1. f \in FormSet /\ g \in FormSet /\ Match(f, w) /\ Match(g, w)
    BY <1>0, Zenon
  <2> QED
    BY <2>1, SoleForm, Zenon
<1> HIDE DEF S
<1> HIDE DEF S
<1>2. Cardinality(S) \in {0, 1}
  <2>1. CASE S = {}
    BY <2>1, FS_EmptySet, Zenon
  <2>2. ASSUME NEW f \in S PROVE Cardinality(S) = 1
    <3>1. S = {f}
      BY <1>1, <2>2
    <3> QED
      BY <3>1, FS_Singleton, Zenon
  <2> QED
    BY <2>1, <2>2, Zenon
<1>3. Cardinality(S) <= 1
  BY <1>2, SMT
<1> QED
  BY <1>3 DEF S

-----------------------------------------------------------------------------
(* Values in their places: where the encoder puts a value that fits.       *)

LEMMA WordsAre ==
    ASSUME NEW h \in Int, 0 <= h, h <= 65535, NEW l \in Int, 0 <= l, l <= 65535
    PROVE  <<h, l>> \in Word
<1>1. h \in Halves /\ l \in Halves
  BY HalvesHold, SMT
<1> QED
  BY <1>1, SMT DEF Word

LEMMA Low5 ==
    ASSUME NEW v \in Int, 0 <= v, v <= 31
    PROVE  At(v, 0) = <<0, v>> /\ At(v, 5) = <<0, v * 32>> /\ At(v, 16) = <<v, 0>>
<1>1. (v \div 2 ^ (16 - 0)) % 65536 = 0 /\ (v % 2 ^ (16 - 0)) * 2 ^ 0 = v
  BY SMT
<1>2. (v \div 2 ^ (16 - 5)) % 65536 = 0 /\ (v % 2 ^ (16 - 5)) * 2 ^ 5 = v * 32
  BY SMT
<1>3. v * 2 ^ (16 - 16) = v
  BY SMT
<1> QED
  BY <1>1, <1>2, <1>3, SMT DEF At

LEMMA High21 ==
    ASSUME NEW v \in Int PROVE At(v, 21) = <<v * 32, 0>> /\ At(v, 22) = <<v * 64, 0>> /\ At(v, 30) = <<v * 16384, 0>>
  BY SMT DEF At

\* A value that does not fit in one half is cut in two: q goes above, r below.
Cut(v, offset, unit, limit, scale) ==
    \E q, r \in Int : At(v, offset) = <<q, r * scale>> /\ v = q * unit + r /\ 0 <= r /\ r < unit /\ 0 <= q /\ q < limit
LEMMA Low12 ==
    ASSUME NEW v \in Int, 0 <= v, v < 4096
    PROVE  Cut(v, 10, 64, 64, 1024)
<1> DEFINE q == v \div 64
           r == v % 64
<1>1. q \in Int /\ r \in Int /\ 0 <= r /\ r < 64 /\ v = q * 64 + r
  BY SMT
<1>2. 2 ^ (16 - 10) = 64 /\ 2 ^ 10 = 1024
  BY SMT
<1>3. At(v, 10) = <<q % 65536, r * 1024>>
  BY <1>2, SMT DEF At
<1> HIDE DEF q, r
<1>4. 0 <= q /\ q < 64
  BY <1>1, SMT
<1>5. q % 65536 = q
  BY <1>1, <1>4, SMT
<1> QED
  BY <1>1, <1>3, <1>4, <1>5, SMT DEF Cut

LEMMA Low16 ==
    ASSUME NEW v \in Int, 0 <= v, v < 65536
    PROVE  Cut(v, 5, 2048, 32, 32)
<1> DEFINE q == v \div 2048
           r == v % 2048
<1>1. q \in Int /\ r \in Int /\ 0 <= r /\ r < 2048 /\ v = q * 2048 + r
  BY SMT
<1>2. 2 ^ (16 - 5) = 2048 /\ 2 ^ 5 = 32
  BY SMT
<1>3. At(v, 5) = <<q % 65536, r * 32>>
  BY <1>2, SMT DEF At
<1> HIDE DEF q, r
<1>4. 0 <= q /\ q < 32
  BY <1>1, SMT
<1>5. q % 65536 = q
  BY <1>1, <1>4, SMT
<1> QED
  BY <1>1, <1>3, <1>4, <1>5, SMT DEF Cut

LEMMA Low19 ==
    ASSUME NEW v \in Int, 0 <= v, v < 524288
    PROVE  Cut(v, 5, 2048, 256, 32)
<1> DEFINE q == v \div 2048
           r == v % 2048
<1>1. q \in Int /\ r \in Int /\ 0 <= r /\ r < 2048 /\ v = q * 2048 + r
  BY SMT
<1>2. 2 ^ (16 - 5) = 2048 /\ 2 ^ 5 = 32
  BY SMT
<1>3. At(v, 5) = <<q % 65536, r * 32>>
  BY <1>2, SMT DEF At
<1> HIDE DEF q, r
<1>4. 0 <= q /\ q < 256
  BY <1>1, SMT
<1>5. q % 65536 = q
  BY <1>1, <1>4, SMT
<1> QED
  BY <1>1, <1>3, <1>4, <1>5, SMT DEF Cut

LEMMA Low26 ==
    ASSUME NEW v \in Int, 0 <= v, v < 67108864
    PROVE  Cut(v, 0, 65536, 1024, 1)
<1> DEFINE q == v \div 65536
           r == v % 65536
<1>1. q \in Int /\ r \in Int /\ 0 <= r /\ r < 65536 /\ v = q * 65536 + r
  BY SMT
<1>2. 2 ^ (16 - 0) = 65536 /\ 2 ^ 0 = 1
  BY SMT
<1>3. At(v, 0) = <<q % 65536, r * 1>>
  BY <1>2, SMT DEF At
<1> HIDE DEF q, r
<1>4. 0 <= q /\ q < 1024
  BY <1>1, SMT
<1>5. q % 65536 = q
  BY <1>1, <1>4, SMT
<1> QED
  BY <1>1, <1>3, <1>4, <1>5, SMT DEF Cut

LEMMA Low4 ==
    ASSUME NEW v \in Int, 0 <= v, v <= 15
    PROVE  At(v, 8) = <<0, v * 256>>
<1>1. (v \div 2 ^ (16 - 8)) % 65536 = 0 /\ (v % 2 ^ (16 - 8)) * 2 ^ 8 = v * 256
  BY SMT
<1> QED
  BY <1>1, SMT DEF At

-----------------------------------------------------------------------------
(* What the encoder writes is read back, layout by layout.                 *)

LEMMA RegistersAre ==
    ASSUME NEW d \in Register PROVE d \in Int /\ 0 <= d /\ d <= 31
  BY SMT DEF Register

\* Three registers around what is fixed, x above and y below.
Around(x, y, d, n, m) == <<x * 32 + m, y * 1024 + n * 32 + d>>
\* What is read from it.
Shows(w, x, y, d, n, m) ==
    /\ w \in Word
    /\ (w[1] \div 32) % 2048 = x /\ (w[2] \div 1024) % 64 = y /\ (w[2] \div 1) % 32 = d
    /\ Rd(w) = d /\ Rn(w) = n /\ Rm(w) = m
    /\ BitsOf(w, 13, 8) = y \div 8 + m * 8

LEMMA AroundRead ==
    ASSUME NEW x \in Int, 0 <= x, x < 2048, NEW y \in Int, 0 <= y, y < 64,
           NEW d \in Int, 0 <= d, d <= 31, NEW n \in Int, 0 <= n, n <= 31, NEW m \in Int, 0 <= m, m <= 31
    PROVE  Shows(Around(x, y, d, n, m), x, y, d, n, m)
<1> DEFINE h == x * 32 + m
           l == y * 1024 + n * 32 + d
           w == <<h, l>>
<1>1. h \in Int /\ 0 <= h /\ h <= 65535
  BY SMT
<1>2. l \in Int /\ 0 <= l /\ l <= 65535
  BY SMT
<1>3. (h \div 32) % 2048 = x /\ h % 32 = m
  BY SMT
<1>4. (l \div 1024) % 64 = y /\ l % 32 = d
  BY SMT
<1>5. (l \div 32) % 32 = n
  BY SMT
<1>6. l \div 8192 = y \div 8
  BY SMT
<1>7. w = Around(x, y, d, n, m)
  BY SMT DEF Around
<1> HIDE DEF h, l
<1>8. w \in Word
  BY <1>1, <1>2, WordsAre, SMT
<1>9. /\ (w[1] \div 32) % 2048 = x /\ (w[2] \div 1024) % 64 = y /\ (w[2] \div 1) % 32 = d
  BY <1>1, <1>2, <1>3, <1>4, SMT
<1>10. Rd(w) = d /\ Rn(w) = n
  BY <1>2, <1>4, <1>5, SMT DEF Rd, Rn, BitsOf
<1>11. Rm(w) = m
  BY <1>1, <1>3, SMT DEF Rm, BitsOf
<1>12. BitsOf(w, 13, 8) = y \div 8 + m * 8
  BY <1>1, <1>2, <1>3, <1>6, SMT DEF BitsOf
<1> HIDE DEF w
<1>13. Shows(w, x, y, d, n, m)
  BY <1>8, <1>9, <1>10, <1>11, <1>12, SMT DEF Shows
<1> QED
  BY <1>7, <1>13, SMT

\* The parts put together.
LEMMA AroundPut ==
    ASSUME NEW x \in Int, NEW y \in Int, NEW d \in Int, NEW n \in Int, NEW m \in Int
    PROVE  <<x * 32, y * 1024>> ++ <<0, d>> ++ <<0, n * 32>> ++ <<m, 0>> = Around(x, y, d, n, m)
  BY SMT DEF ++, Around

\* A form with three registers: what is fixed, above and below them.
Fixes(form, x, y) ==
    /\ x \in Int /\ 0 <= x /\ x < 2048 /\ y \in Int /\ 0 <= y /\ y < 64
    /\ Opcode[form] = <<x * 32, y * 1024>>
    /\ \A w \in Word : Match(form, w) <=> (w[1] \div 32) % 2048 = x /\ (w[2] \div 1024) % 64 = y
ThreeForms == {"FpAdd", "FpSub", "FpMul", "FpDiv", "AddI64", "AddF64", "And", "Or", "Xor"}

LEMMA FormsFix ==
    ASSUME NEW form \in ThreeForms PROVE form \in FormSet /\ \E x, y : Fixes(form, x, y)
<1>1. Fixes("FpAdd", 243, 10)
  BY FieldsFpAdd, OpcodeFpAdd, SMT DEF Fixes
<1>2. Fixes("FpSub", 243, 14)
  BY FieldsFpSub, OpcodeFpSub, SMT DEF Fixes
<1>3. Fixes("FpMul", 243, 2)
  BY FieldsFpMul, OpcodeFpMul, SMT DEF Fixes
<1>4. Fixes("FpDiv", 243, 6)
  BY FieldsFpDiv, OpcodeFpDiv, SMT DEF Fixes
<1>5. Fixes("AddI64", 631, 33)
  BY FieldsAddI64, OpcodeAddI64, SMT DEF Fixes
<1>6. Fixes("AddF64", 627, 53)
  BY FieldsAddF64, OpcodeAddF64, SMT DEF Fixes
<1>7. Fixes("And", 1104, 0)
  BY FieldsAnd, OpcodeAnd, SMT DEF Fixes
<1>8. Fixes("Or", 1360, 0)
  BY FieldsOr, OpcodeOr, SMT DEF Fixes
<1>9. Fixes("Xor", 1616, 0)
  BY FieldsXor, OpcodeXor, SMT DEF Fixes
<1> QED
  BY <1>1, <1>2, <1>3, <1>4, <1>5, <1>6, <1>7, <1>8, <1>9, SMT DEF ThreeForms, FormSet

Three(form, d, n, m) == Opcode[form] ++ At(d, 0) ++ At(n, 5) ++ At(m, 16)
LEMMA ThreeRead ==
    ASSUME NEW form \in ThreeForms, NEW d \in Register, NEW n \in Register, NEW m \in Register
    PROVE  LET w == Three(form, d, n, m)
           IN  w \in Word /\ Match(form, w) /\ Rd(w) = d /\ Rn(w) = n /\ Rm(w) = m
<1>1. PICK x, y : Fixes(form, x, y)
  BY FormsFix, Zenon
<1>2. /\ x \in Int /\ 0 <= x /\ x < 2048 /\ y \in Int /\ 0 <= y /\ y < 64
      /\ Opcode[form] = <<x * 32, y * 1024>>
      /\ \A w \in Word : Match(form, w) <=> (w[1] \div 32) % 2048 = x /\ (w[2] \div 1024) % 64 = y
  BY <1>1, SMT DEF Fixes
<1>3. /\ d \in Int /\ 0 <= d /\ d <= 31 /\ n \in Int /\ 0 <= n /\ n <= 31 /\ m \in Int /\ 0 <= m /\ m <= 31
  BY RegistersAre, Zenon
<1>4. At(d, 0) = <<0, d>> /\ At(n, 5) = <<0, n * 32>> /\ At(m, 16) = <<m, 0>>
  BY <1>3, Low5, Zenon
<1>5. Three(form, d, n, m) = Around(x, y, d, n, m)
  BY <1>2, <1>3, <1>4, AroundPut, SMT DEF Three
<1> DEFINE w == Around(x, y, d, n, m)
<1>6. Shows(w, x, y, d, n, m)
  BY <1>2, <1>3, AroundRead, SMT
<1> HIDE DEF w
<1>7. Match(form, w) /\ w \in Word /\ Rd(w) = d /\ Rn(w) = n /\ Rm(w) = m
  BY <1>2, <1>6, SMT DEF Shows
<1> QED
  BY <1>5, <1>6, <1>7, SMT DEF w

\* A word stands for i at address at.
ReadsAs(w, at, i) == w \in Word /\ DecodeKind(w, at) = i

LEMMA ReadsForm ==
    ASSUME NEW form \in FormSet, NEW w \in Word, NEW at, NEW i, Match(form, w), Meaning(form, w, at) = i, i # Undecoded
    PROVE  ReadsAs(w, at, i)
  BY DecodesAs, Zenon DEF ReadsAs

LEMMA ReadsRegisters ==
    ASSUME NEW at,
           NEW i \in [k : {"FpScalarBinary"}, op : {"FpAdd", "FpSub", "FpMul", "FpDiv"},
                      rd : Register, rn : Register, rm : Register]
                \cup [k : {"VectorBinary"}, op : {"AddI64", "AddF64"}, rd : Register, rn : Register, rm : Register]
                \cup [k : {"LogicalReg"}, op : {"And", "Or", "Xor"}, rd : Register, rn : Register, rm : Register]
    PROVE  ReadsAs(Encode(i), at, i)
<1> DEFINE form == i.op
           w == Three(form, i.rd, i.rn, i.rm)
<1>1. form \in ThreeForms /\ i.rd \in Register /\ i.rn \in Register /\ i.rm \in Register
  BY SMT DEF ThreeForms
<1>2. Encode(i) = w
  BY SMT DEF Encode, Three
<1>3. i = [k |-> i.k, op |-> form, rd |-> i.rd, rn |-> i.rn, rm |-> i.rm]
  BY SMT
<1>4. \A v : Meaning(form, v, at) = Registers3(i.k, form, v)
  BY SMT DEF Meaning
<1>5. i # Undecoded
  BY SMT DEF Undecoded
<1> HIDE DEF w, form
<1>6. w \in Word /\ Match(form, w) /\ Rd(w) = i.rd /\ Rn(w) = i.rn /\ Rm(w) = i.rm
  BY <1>1, ThreeRead, SMT DEF w
<1>7. Meaning(form, w, at) = i
  BY <1>3, <1>4, <1>6, Zenon DEF Registers3
<1>8. form \in FormSet
  BY <1>1, FormsFix, Zenon
<1> QED
  BY <1>2, <1>5, <1>6, <1>7, <1>8, ReadsForm, Zenon

LEMMA ReadsFpCompare ==
    ASSUME NEW at, NEW i \in [k : {"FpCompare"}, rn : Register, rm : Register]
    PROVE  ReadsAs(Encode(i), at, i)
<1> DEFINE n == i.rn
           m == i.rm
           w == Around(243, 8, 0, n, m)
<1>1. i = [k |-> "FpCompare", rn |-> n, rm |-> m] /\ i # Undecoded /\ n \in Register /\ m \in Register
  BY SMT DEF Undecoded
<1>2. Encode(i) = Opcode["FpCompare"] ++ At(n, 5) ++ At(m, 16)
  BY SMT DEF Encode
<1>3. \A v : Meaning("FpCompare", v, at) = [k |-> "FpCompare", rn |-> Rn(v), rm |-> Rm(v)]
  BY SMT DEF Meaning
<1> HIDE DEF n, m
<1>4. n \in Int /\ 0 <= n /\ n <= 31 /\ m \in Int /\ 0 <= m /\ m <= 31
  BY <1>1, RegistersAre, Zenon
<1>5. At(n, 5) = <<0, n * 32>> /\ At(m, 16) = <<m, 0>>
  BY <1>4, Low5, Zenon
<1>6. <<7776, 8192>> ++ <<0, n * 32>> ++ <<m, 0>> = w
  BY <1>4, SMT DEF ++, Around
<1>7. Shows(w, 243, 8, 0, n, m)
  BY <1>4, AroundRead, SMT
<1> HIDE DEF w
<1>8. w \in Word /\ Rn(w) = n /\ Rm(w) = m /\ Match("FpCompare", w)
  <2>1. w \in Word /\ Rn(w) = n /\ Rm(w) = m
    BY <1>7, SMT DEF Shows
  <2>2. (w[1] \div 32) % 2048 = 243 /\ (w[2] \div 1024) % 64 = 8 /\ (w[2] \div 1) % 32 = 0
    BY <1>7, SMT DEF Shows
  <2>3. w[1] \in Int /\ w[2] \in Int
    BY <2>1, WordsHalves, SMT
  <2> QED
    BY <2>1, <2>2, <2>3, FieldsFpCompare, SMT
<1>9. "FpCompare" \in FormSet /\ Meaning("FpCompare", w, at) = i
  <2>1. "FpCompare" \in FormSet
    BY SMT DEF FormSet
  <2>2. Meaning("FpCompare", w, at) = [k |-> "FpCompare", rn |-> n, rm |-> m]
    BY <1>3, <1>8, Zenon
  <2> QED
    BY <1>1, <2>1, <2>2, Zenon
<1>10. Encode(i) = w
  BY <1>2, <1>5, <1>6, OpcodeFpCompare, SMT
<1> QED
  BY <1>1, <1>8, <1>9, <1>10, ReadsForm, SMT

LEMMA ReadsFpMove ==
    ASSUME NEW at, NEW i \in [k : {"FpMoveImmediate"}, rd : Register, value : {1, 2}]
    PROVE  ReadsAs(Encode(i), at, i)
<1> DEFINE d == i.rd
           v == i.value
           m == IF v = 2 THEN 0 ELSE 14
           w == Around(243, 4, d, 0, m)
<1>1. i = [k |-> "FpMoveImmediate", rd |-> d, value |-> v] /\ i # Undecoded /\ d \in Register /\ v \in {1, 2}
  BY SMT DEF Undecoded
<1>2. Encode(i) = Opcode["FpMove"] ++ At(d, 0) ++ At(IF v = 2 THEN 0 ELSE 112, 13)
  BY SMT DEF Encode
<1>3. \A u : Meaning("FpMove", u, at) = FpImmediate(u)
  BY SMT DEF Meaning
<1> HIDE DEF d, v
<1>4. d \in Int /\ 0 <= d /\ d <= 31 /\ m \in Int /\ 0 <= m /\ m <= 31
  BY <1>1, RegistersAre, SMT
<1>5. At(d, 0) = <<0, d>>
  BY <1>4, Low5, Zenon
<1>6. At(0, 13) = <<0, 0>> /\ At(112, 13) = <<14, 0>>
  BY SMT DEF At
<1>7. At(IF v = 2 THEN 0 ELSE 112, 13) = <<m, 0>>
  BY <1>6, Zenon
<1>8. m = IF v = 2 THEN 0 ELSE 14
  OBVIOUS
<1> HIDE DEF m
<1>9. <<7776, 4096>> ++ <<0, d>> ++ <<m, 0>> = w
  BY <1>4, SMT DEF ++, Around
<1>10. Shows(w, 243, 4, d, 0, m)
  BY <1>4, AroundRead, SMT
<1> HIDE DEF w
<1>11. w \in Word /\ Rd(w) = d /\ BitsOf(w, 13, 8) = m * 8 /\ Match("FpMove", w)
  BY <1>4, <1>10, FieldsFpMove, SMT DEF Shows
<1>12. FpImmediate(w) = i
  BY <1>1, <1>8, <1>11, SMT DEF FpImmediate
<1>13. "FpMove" \in FormSet /\ Meaning("FpMove", w, at) = i
  BY <1>3, <1>12, SMT DEF FormSet
<1>14. Encode(i) = w
  BY <1>2, <1>5, <1>7, <1>9, OpcodeFpMove, SMT
<1> QED
  BY <1>1, <1>11, <1>13, <1>14, ReadsForm, SMT

\* Two registers and twelve bits between them and what is fixed.
Carries12(w, x, q, r, d, n) ==
    /\ w \in Word
    /\ (w[1] \div 64) % 1024 = x /\ (w[1] \div 256) % 256 = x \div 4
    /\ BitsOf(w, 22, 1) = x % 2 /\ BitsOf(w, 10, 12) = r + q * 64 /\ Rd(w) = d /\ Rn(w) = n

LEMMA TwelveRead ==
    ASSUME NEW x \in Int, 0 <= x, x < 1024, NEW q \in Int, 0 <= q, q < 64, NEW r \in Int, 0 <= r, r < 64,
           NEW d \in Int, 0 <= d, d <= 31, NEW n \in Int, 0 <= n, n <= 31
    PROVE  Carries12(<<x * 64 + q, r * 1024 + n * 32 + d>>, x, q, r, d, n)
<1> DEFINE h == x * 64 + q
           l == r * 1024 + n * 32 + d
           w == <<h, l>>
<1>1. h \in Int /\ 0 <= h /\ h <= 65535
  BY SMT
<1>2. l \in Int /\ 0 <= l /\ l <= 65535
  BY SMT
<1>3. (h \div 64) % 1024 = x /\ h % 64 = q
  BY SMT
<1>4. (h \div 256) % 256 = x \div 4
  BY SMT
<1>5. (h \div 64) % 2 = x % 2
  BY SMT
<1>6. l \div 1024 = r /\ l % 32 = d
  BY SMT
<1>7. (l \div 32) % 32 = n
  BY SMT
<1>8. w = <<x * 64 + q, r * 1024 + n * 32 + d>>
  BY SMT
<1> HIDE DEF h, l
<1>9. w \in Word
  BY <1>1, <1>2, WordsAre, SMT
<1>10. (w[1] \div 64) % 1024 = x /\ (w[1] \div 256) % 256 = x \div 4
  BY <1>1, <1>3, <1>4, SMT
<1>11. BitsOf(w, 22, 1) = x % 2
  BY <1>1, <1>5, SMT DEF BitsOf
<1>12. BitsOf(w, 10, 12) = r + q * 64
  BY <1>1, <1>2, <1>3, <1>6, SMT DEF BitsOf
<1>13. Rd(w) = d /\ Rn(w) = n
  BY <1>2, <1>6, <1>7, SMT DEF Rd, Rn, BitsOf
<1> HIDE DEF w
<1>14. Carries12(w, x, q, r, d, n)
  BY <1>9, <1>10, <1>11, <1>12, <1>13, SMT DEF Carries12
<1> QED
  BY <1>8, <1>14, SMT

\* A value in its twelve bits.
Twelve(form, d, n, v, t) == Opcode[form] ++ At(d, 0) ++ At(n, 5) ++ At(v, 10) ++ At(t, 22)
Opens(form, x) == Opcode[form] = <<x * 64, 0>>
CarriesBits(w, z, v, d, n) == \E q, r \in Int : v = r + q * 64 /\ Carries12(w, z, q, r, d, n)
LEMMA TwelvePut ==
    ASSUME NEW form, NEW x \in Int, Opens(form, x), NEW t \in Int, 0 <= x + t, x + t < 1024,
           NEW d \in Int, 0 <= d, d <= 31, NEW n \in Int, 0 <= n, n <= 31, NEW v \in Int, 0 <= v, v < 4096
    PROVE  CarriesBits(Twelve(form, d, n, v, t), x + t, v, d, n)
<1> DEFINE z == x + t
<1>0. z \in Int /\ 0 <= z /\ z < 1024 /\ z * 64 = x * 64 + t * 64
  BY SMT
<1> HIDE DEF z
<1>1. At(d, 0) = <<0, d>> /\ At(n, 5) = <<0, n * 32>>
  BY Low5, SMT
<1>2. At(t, 22) = <<t * 64, 0>>
  BY SMT DEF At
<1>3. PICK q \in Int, r \in Int : /\ At(v, 10) = <<q, r * 1024>> /\ v = q * 64 + r
                                  /\ 0 <= r /\ r < 64 /\ 0 <= q /\ q < 64
  <2>1. Cut(v, 10, 64, 64, 1024)
    BY Low12, SMT
  <2> QED
    BY <2>1, SMT DEF Cut
<1>4. Carries12(<<z * 64 + q, r * 1024 + n * 32 + d>>, z, q, r, d, n)
  BY <1>0, <1>3, TwelveRead, SMT
<1>5. <<x * 64, 0>> ++ <<0, d>> ++ <<0, n * 32>> ++ <<q, r * 1024>> ++ <<t * 64, 0>>
        = <<z * 64 + q, r * 1024 + n * 32 + d>>
  BY <1>0, <1>3, SMT DEF ++
<1>6. Twelve(form, d, n, v, t) = <<z * 64 + q, r * 1024 + n * 32 + d>>
  BY <1>1, <1>2, <1>3, <1>5, SMT DEF Twelve, Opens
<1>7. v = r + q * 64
  BY <1>3, SMT
<1>8. CarriesBits(Twelve(form, d, n, v, t), z, v, d, n)
  BY <1>3, <1>4, <1>6, <1>7, SMT DEF CarriesBits
<1> QED
  BY <1>8, SMT DEF z

ImmediateForms == {"AddImmediate", "SubImmediate", "AddsImmediate", "SubsImmediate"}
\* What the form is told by, among those with twelve bits.
Told(form, x, y) ==
    /\ form \in FormSet /\ x \in Int /\ y \in Int /\ 0 <= x /\ x + y < 1024 /\ Opcode[form] = <<x * 64, 0>> /\ y \in {0, 1}
    /\ \A w, t, q, r, d, n : t \in {0, y} /\ Carries12(w, x + t, q, r, d, n)
        => Match(form, w) /\ (y = 1 => BitsOf(w, 22, 1) = t)

LEMMA ImmediatesTold ==
    ASSUME NEW form \in ImmediateForms PROVE \E x : Told(form, x, 1)
<1>1. Told("AddImmediate", 580, 1)
  BY FieldsAddImmediate, OpcodeAddImmediate, SMT DEF Told, Carries12, FormSet
<1>2. Told("SubImmediate", 836, 1)
  BY FieldsSubImmediate, OpcodeSubImmediate, SMT DEF Told, Carries12, FormSet
<1>3. Told("AddsImmediate", 708, 1)
  BY FieldsAddsImmediate, OpcodeAddsImmediate, SMT DEF Told, Carries12, FormSet
<1>4. Told("SubsImmediate", 964, 1)
  BY FieldsSubsImmediate, OpcodeSubsImmediate, SMT DEF Told, Carries12, FormSet
<1> QED
  BY <1>1, <1>2, <1>3, <1>4, SMT DEF ImmediateForms

LEMMA AccessesTold ==
    ASSUME NEW form \in {"StoreWord", "StoreDouble", "LoadWord", "LoadDouble"} PROVE \E x : Told(form, x, 0)
<1>1. Told("StoreWord", 740, 0)
  BY FieldsStoreWord, OpcodeStoreWord, SMT DEF Told, Carries12, FormSet
<1>2. Told("StoreDouble", 996, 0)
  BY FieldsStoreDouble, OpcodeStoreDouble, SMT DEF Told, Carries12, FormSet
<1>3. Told("LoadWord", 741, 0)
  BY FieldsLoadWord, OpcodeLoadWord, SMT DEF Told, Carries12, FormSet
<1>4. Told("LoadDouble", 997, 0)
  BY FieldsLoadDouble, OpcodeLoadDouble, SMT DEF Told, Carries12, FormSet
<1> QED
  BY <1>1, <1>2, <1>3, <1>4, SMT

\* A form with twelve bits is read back.
ReadBack(w, form, y, v, t, d, n) ==
    /\ w \in Word /\ form \in FormSet /\ Match(form, w) /\ BitsOf(w, 10, 12) = v /\ Rd(w) = d /\ Rn(w) = n
    /\ y = 1 => BitsOf(w, 22, 1) = t
LEMMA TwelveReadBack ==
    ASSUME NEW form, NEW x, NEW y, Told(form, x, y), NEW t \in {0, y},
           NEW d \in Register, NEW n \in Register, NEW v \in Int, 0 <= v, v < 4096
    PROVE  ReadBack(Twelve(form, d, n, v, t), form, y, v, t, d, n)
<1>2. /\ form \in FormSet /\ x \in Int /\ 0 <= x /\ x + y < 1024 /\ Opens(form, x) /\ y \in {0, 1}
      /\ \A w, u, q, r, c, b : u \in {0, y} /\ Carries12(w, x + u, q, r, c, b)
          => Match(form, w) /\ (y = 1 => BitsOf(w, 22, 1) = u)
  BY SMT DEF Told, Opens
<1>3. d \in Int /\ 0 <= d /\ d <= 31 /\ n \in Int /\ 0 <= n /\ n <= 31
  BY RegistersAre, SMT
<1>4. t \in Int /\ 0 <= x + t /\ x + t < 1024
  BY <1>2, SMT
<1> DEFINE w == Twelve(form, d, n, v, t)
<1> HIDE DEF w
<1>5. CarriesBits(w, x + t, v, d, n)
  BY <1>2, <1>3, <1>4, TwelvePut, SMT DEF w
<1>6. PICK q \in Int, r \in Int : v = r + q * 64 /\ Carries12(w, x + t, q, r, d, n)
  BY <1>5, SMT DEF CarriesBits
<1>7. Match(form, w) /\ (y = 1 => BitsOf(w, 22, 1) = t)
  BY <1>2, <1>6, SMT
<1>8. w \in Word /\ BitsOf(w, 10, 12) = v /\ Rd(w) = d /\ Rn(w) = n
  BY <1>6, SMT DEF Carries12
<1> QED
  BY <1>2, <1>7, <1>8, SMT DEF w, ReadBack

\* The instructions, one form after another.
LEMMA ReadsImmediate ==
    ASSUME NEW at,
           NEW i \in [k : {"AddImmediate", "SubImmediate", "AddsImmediate", "SubsImmediate"},
                      rd : Register, rn : Register, imm : Nat],
           i.imm <= 4095 \/ (i.imm % 4096 = 0 /\ i.imm \div 4096 <= 4095)
    PROVE  ReadsAs(Encode(i), at, i)
<1> DEFINE form == i.k
           d == i.rd
           n == i.rn
           imm == i.imm
           shifted == imm > 4095
           v == IF shifted THEN imm \div 4096 ELSE imm
           t == IF shifted THEN 1 ELSE 0
           w == Twelve(form, d, n, v, t)
<1>1. /\ form \in ImmediateForms /\ d \in Register /\ n \in Register /\ imm \in Nat
      /\ i = [k |-> form, rd |-> d, rn |-> n, imm |-> imm] /\ i # Undecoded
  BY SMT DEF ImmediateForms, Undecoded
<1>2. Encode(i) = w
  BY SMT DEF Encode, EncodeImmediate, Twelve
<1>3. \A u : Meaning(form, u, at) = WithImmediate(form, u)
  BY SMT DEF Meaning
<1>4. imm <= 4095 \/ (imm % 4096 = 0 /\ imm \div 4096 <= 4095)
  OBVIOUS
<1> HIDE DEF form, d, n, imm
<1>5. v \in Int /\ 0 <= v /\ v < 4096
  BY <1>1, <1>4, SMT
<1>6. t \in {0, 1} /\ v * (IF t = 1 THEN 4096 ELSE 1) = imm
  <2>1. CASE imm <= 4095
    BY <1>1, <2>1, SMT
  <2>2. CASE imm > 4095 /\ imm % 4096 = 0
    <3>1. (imm \div 4096) * 4096 = imm
      BY <1>1, <2>2, SMT
    <3> QED
      BY <2>2, <3>1, SMT
  <2> QED
    BY <1>1, <1>4, <2>1, <2>2, SMT
<1> HIDE DEF v, t
<1>7. PICK x : Told(form, x, 1)
  BY <1>1, ImmediatesTold, SMT
<1>8. ReadBack(w, form, 1, v, t, d, n)
  BY <1>1, <1>5, <1>6, <1>7, TwelveReadBack, SMT
<1> HIDE DEF w
<1>9. /\ w \in Word /\ form \in FormSet /\ Match(form, w)
      /\ BitsOf(w, 10, 12) = v /\ Rd(w) = d /\ Rn(w) = n /\ BitsOf(w, 22, 1) = t
  BY <1>8, SMT DEF ReadBack
<1>10. Immediate12(w) = imm
  BY <1>6, <1>9, SMT DEF Immediate12
<1>11. Meaning(form, w, at) = i
  BY <1>1, <1>3, <1>9, <1>10, SMT DEF WithImmediate
<1> QED
  BY <1>1, <1>2, <1>9, <1>11, ReadsForm, SMT

LEMMA Exact ==
    ASSUME NEW o \in Nat
    PROVE  /\ o % 4 = 0 => o \div 4 \in Int /\ 0 <= o \div 4 /\ (o \div 4) * 4 = o
           /\ o % 8 = 0 => o \div 8 \in Int /\ 0 <= o \div 8 /\ (o \div 8) * 8 = o
  BY SMT

LEMMA AccessEncoded ==
    ASSUME NEW i, i.k \in {"Load", "Store"}
    PROVE  Encode(i) = Opcode[AccessForm(i.k, i.size)] ++ At(i.rt, 0) ++ At(i.rn, 5)
                           ++ At(i.offset \div Scale(i.size), 10)
<1>1. Encode(i) = EncodeAccess(i)
  BY SMT DEF Encode
<1> QED
  BY <1>1 DEF EncodeAccess

LEMMA ReadsAccess ==
    ASSUME NEW at,
           NEW i \in [k : {"Load", "Store"}, rt : Register, rn : Register, offset : Nat, size : {"Word", "Double"}],
           i.offset % Scale(i.size) = 0, i.offset \div Scale(i.size) <= 4095
    PROVE  ReadsAs(Encode(i), at, i)
<1> DEFINE k == i.k
           size == i.size
           form == AccessForm(k, size)
           d == i.rt
           n == i.rn
           offset == i.offset
           v == offset \div Scale(size)
           w == Twelve(form, d, n, v, 0)
<1>1. /\ d \in Register /\ n \in Register /\ offset \in Nat /\ k \in {"Load", "Store"} /\ size \in {"Word", "Double"}
      /\ i = [k |-> k, rt |-> d, rn |-> n, offset |-> offset, size |-> size] /\ i # Undecoded
  BY SMT DEF Undecoded
<1>2. Encode(i) = Opcode[form] ++ At(d, 0) ++ At(n, 5) ++ At(v, 10)
  <2>1. i.k \in {"Load", "Store"}
    BY SMT
  <2> QED
    BY <2>1, AccessEncoded, SMT
<1>3. offset % Scale(size) = 0 /\ offset \div Scale(size) <= 4095
  OBVIOUS
<1> HIDE DEF k, size, d, n, offset
<1>4. Scale(size) \in {4, 8}
  BY <1>1, SMT DEF Scale
<1>5. v \in Int /\ 0 <= v /\ v < 4096 /\ v * Scale(size) = offset
  <2>1. CASE Scale(size) = 4
    <3>1. v = offset \div 4 /\ offset % 4 = 0 /\ v <= 4095
      BY <1>3, <2>1, SMT
    <3> HIDE DEF v
    <3>2. v \in Int /\ 0 <= v /\ v * 4 = offset
      BY <1>1, <3>1, Exact, SMT
    <3> QED
      BY <2>1, <3>1, <3>2, SMT
  <2>2. CASE Scale(size) = 8
    <3>1. v = offset \div 8 /\ offset % 8 = 0 /\ v <= 4095
      BY <1>3, <2>2, SMT
    <3> HIDE DEF v
    <3>2. v \in Int /\ 0 <= v /\ v * 8 = offset
      BY <1>1, <3>1, Exact, SMT
    <3> QED
      BY <2>2, <3>1, <3>2, SMT
  <2> QED
    BY <1>4, <2>1, <2>2, SMT
<1>6. form \in {"StoreWord", "StoreDouble", "LoadWord", "LoadDouble"} /\ \A u : Meaning(form, u, at) = Access(k, size, u)
  <2>1. form = IF k = "Load" THEN IF size = "Word" THEN "LoadWord" ELSE "LoadDouble"
               ELSE IF size = "Word" THEN "StoreWord" ELSE "StoreDouble"
    BY DEF AccessForm
  <2> HIDE DEF form, v
  <2> QED
    BY <1>1, <2>1, SMT DEF Meaning
<1> HIDE DEF form, v
<1>7. PICK x : Told(form, x, 0)
  BY <1>6, AccessesTold, SMT
<1>8. ReadBack(w, form, 0, v, 0, d, n)
  BY <1>1, <1>5, <1>7, TwelveReadBack, SMT
<1> HIDE DEF w
<1>9. w \in Word /\ form \in FormSet /\ Match(form, w) /\ BitsOf(w, 10, 12) = v /\ Rd(w) = d /\ Rn(w) = n
  BY <1>8, SMT DEF ReadBack
<1>10. Meaning(form, w, at) = i
  BY <1>1, <1>5, <1>6, <1>9, SMT DEF Access
<1>11. Encode(i) = w
  <2>1. At(0, 22) = <<0, 0>>
    BY SMT DEF At
  <2>2. PICK p, q : Opcode[form] ++ At(d, 0) ++ At(n, 5) ++ At(v, 10) = <<p, q>> /\ p \in Int /\ q \in Int
    <3>1. At(d, 0) \in Int \X Int /\ At(n, 5) \in Int \X Int
      BY <1>1, RegistersAre, Low5, SMT
    <3>2. At(v, 10) \in Int \X Int
      <4>1. Cut(v, 10, 64, 64, 1024)
        BY <1>5, Low12, SMT
      <4> QED
        BY <4>1, SMT DEF Cut
    <3>3. Opcode[form] \in Int \X Int
      BY <1>7, SMT DEF Told
    <3>4. \A a, b \in Int \X Int : a ++ b \in Int \X Int
      BY SMT DEF ++
    <3>5. Opcode[form] ++ At(d, 0) ++ At(n, 5) ++ At(v, 10) \in Int \X Int
      BY <3>1, <3>2, <3>3, <3>4, SMT
    <3> QED
      BY <3>5, SMT
  <2>3. <<p, q>> ++ <<0, 0>> = <<p, q>>
    BY <2>2, SMT DEF ++
  <2> QED
    BY <1>2, <2>1, <2>2, <2>3, SMT DEF w, Twelve
<1> QED
  BY <1>1, <1>9, <1>10, <1>11, ReadsForm, SMT

\* Sixteen bits, two above them and a register below.
Carries16(w, x, s, a, b, d) ==
    /\ w \in Word
    /\ (w[1] \div 128) % 512 = x /\ (w[1] \div 32) % 2048 = x * 4 + s /\ (w[2] \div 1) % 32 = d
    /\ BitsOf(w, 21, 2) = s /\ BitsOf(w, 5, 16) = b + a * 2048 /\ Rd(w) = d

LEMMA SixteenRead ==
    ASSUME NEW x \in Int, 0 <= x, x < 512, NEW s \in Int, 0 <= s, s <= 3, NEW a \in Int, 0 <= a, a < 32,
           NEW b \in Int, 0 <= b, b < 2048, NEW d \in Int, 0 <= d, d <= 31
    PROVE  Carries16(<<x * 128 + s * 32 + a, b * 32 + d>>, x, s, a, b, d)
<1> DEFINE h == x * 128 + s * 32 + a
           l == b * 32 + d
           w == <<h, l>>
<1>1. h \in Int /\ 0 <= h /\ h <= 65535 /\ l \in Int /\ 0 <= l /\ l <= 65535
  BY SMT
<1>2. (h \div 128) % 512 = x
  BY SMT
<1>3. (h \div 32) % 2048 = x * 4 + s /\ h % 32 = a
  BY SMT
<1>4. (h \div 32) % 4 = s
  BY SMT
<1>5. l \div 32 = b /\ l % 32 = d
  BY SMT
<1>6. w = <<x * 128 + s * 32 + a, b * 32 + d>>
  BY SMT
<1> HIDE DEF h, l
<1>7. w \in Word
  BY <1>1, WordsAre, SMT
<1>8. (w[1] \div 128) % 512 = x /\ (w[1] \div 32) % 2048 = x * 4 + s /\ (w[2] \div 1) % 32 = d
  BY <1>1, <1>2, <1>3, <1>5, SMT
<1>9. BitsOf(w, 21, 2) = s
  BY <1>1, <1>4, SMT DEF BitsOf
<1>10. BitsOf(w, 5, 16) = b + a * 2048
  BY <1>1, <1>3, <1>5, SMT DEF BitsOf
<1>11. Rd(w) = d
  BY <1>1, <1>5, SMT DEF Rd, BitsOf
<1> HIDE DEF w
<1>12. Carries16(w, x, s, a, b, d)
  BY <1>7, <1>8, <1>9, <1>10, <1>11, SMT DEF Carries16
<1> QED
  BY <1>6, <1>12, SMT

LEMMA ReadsMovZ ==
    ASSUME NEW at, NEW i \in [k : {"MovZ"}, rd : Register, imm16 : Halves, shift : {0, 16, 32, 48}]
    PROVE  ReadsAs(Encode(i), at, i)
<1> DEFINE d == i.rd
           m == i.imm16
           s == i.shift \div 16
<1>1. /\ i = [k |-> "MovZ", rd |-> d, imm16 |-> m, shift |-> s * 16] /\ i # Undecoded
      /\ d \in Register /\ m \in Halves /\ s \in Int /\ 0 <= s /\ s <= 3
  BY SMT DEF Undecoded
<1>2. Encode(i) = Opcode["MovZ"] ++ At(d, 0) ++ At(m, 5) ++ At(s, 21)
  BY SMT DEF Encode
<1>3. \A u : Meaning("MovZ", u, at) = [k |-> "MovZ", rd |-> Rd(u), imm16 |-> BitsOf(u, 5, 16),
    shift |-> BitsOf(u, 21, 2) * 16]
  BY SMT DEF Meaning
<1> HIDE DEF d, m, s
<1>4. d \in Int /\ 0 <= d /\ d <= 31 /\ m \in Int /\ 0 <= m /\ m < 65536
  BY <1>1, RegistersAre, HalvesAre, SMT
<1>5. Cut(m, 5, 2048, 32, 32)
  BY <1>4, Low16, SMT
<1>6. PICK a \in Int, b \in Int : At(m, 5) = <<a, b * 32>> /\ m = a * 2048 + b /\ 0 <= b /\ b < 2048 /\ 0 <= a /\ a < 32
  BY <1>5, SMT DEF Cut
<1> DEFINE x == 421
           w == <<x * 128 + s * 32 + a, b * 32 + d>>
<1>7. <<53888, 0>> ++ <<0, d>> ++ <<a, b * 32>> ++ <<s * 32, 0>> = w
  BY <1>1, <1>4, <1>6, SMT DEF ++
<1>8. Carries16(w, 421, s, a, b, d)
  <2>1. x \in Int /\ 0 <= x /\ x < 512
    BY SMT
  <2>2. x = 421
    OBVIOUS
  <2> HIDE DEF x
  <2>3. Carries16(w, x, s, a, b, d)
    BY <1>1, <1>4, <1>6, <2>1, SixteenRead, SMT
  <2> QED
    BY <2>2, <2>3, SMT
<1> HIDE DEF x, w
<1>9. At(d, 0) = <<0, d>>
  BY <1>4, Low5, SMT
<1>10. At(s, 21) = <<s * 32, 0>>
  BY <1>1, SMT DEF At
<1>11. Encode(i) = w
  BY <1>2, <1>6, <1>7, <1>9, <1>10, OpcodeMovZ, SMT
<1>12. w \in Word /\ Rd(w) = d /\ BitsOf(w, 5, 16) = m /\ BitsOf(w, 21, 2) = s
  BY <1>6, <1>8, SMT DEF Carries16
<1>13. Match("MovZ", w)
  BY <1>8, FieldsMovZ, SMT DEF Carries16
<1>14. "MovZ" \in FormSet /\ Meaning("MovZ", w, at) = i
  <2>1. "MovZ" \in FormSet
    BY SMT DEF FormSet
  <2> QED
    BY <1>1, <1>3, <1>12, <2>1, SMT
<1> QED
  BY <1>1, <1>11, <1>12, <1>13, <1>14, ReadsForm, SMT

LEMMA ReadsSvc ==
    ASSUME NEW at, NEW i \in [k : {"Svc"}, imm : Halves]
    PROVE  ReadsAs(Encode(i), at, i)
<1> DEFINE m == i.imm
<1>1. i = [k |-> "Svc", imm |-> m] /\ i # Undecoded /\ m \in Halves
  BY SMT DEF Undecoded
<1>2. Encode(i) = Opcode["Svc"] ++ At(m, 5)
  BY SMT DEF Encode
<1>3. \A u : Meaning("Svc", u, at) = [k |-> "Svc", imm |-> BitsOf(u, 5, 16)]
  BY SMT DEF Meaning
<1> HIDE DEF m
<1>4. m \in Int /\ 0 <= m /\ m < 65536
  BY <1>1, HalvesAre, SMT
<1>5. Cut(m, 5, 2048, 32, 32)
  BY <1>4, Low16, SMT
<1>6. PICK a \in Int, b \in Int : At(m, 5) = <<a, b * 32>> /\ m = a * 2048 + b /\ 0 <= b /\ b < 2048 /\ 0 <= a /\ a < 32
  BY <1>5, SMT DEF Cut
<1> DEFINE w == <<424 * 128 + 0 * 32 + a, b * 32 + 1>>
<1>7. <<54272, 1>> ++ <<a, b * 32>> = w
  BY <1>6, SMT DEF ++
<1>8. Carries16(w, 424, 0, a, b, 1)
  BY <1>6, SixteenRead, SMT
<1> HIDE DEF w
<1>9. Encode(i) = w
  BY <1>2, <1>6, <1>7, OpcodeSvc, SMT
<1>10. w \in Word /\ BitsOf(w, 5, 16) = m
  BY <1>6, <1>8, SMT DEF Carries16
<1>11. Match("Svc", w)
  BY <1>8, FieldsSvc, SMT DEF Carries16
<1>12. "Svc" \in FormSet /\ Meaning("Svc", w, at) = i
  <2>1. "Svc" \in FormSet
    BY SMT DEF FormSet
  <2> QED
    BY <1>1, <1>3, <1>10, <2>1, SMT
<1> QED
  BY <1>1, <1>9, <1>10, <1>11, <1>12, ReadsForm, SMT

\* Four bits between the fixed parts of a barrier.
Carries4(w, o, e) ==
    /\ w \in Word /\ (w[2] \div 4096) + (w[1] % 65536) * 16 = \hD5033 /\ (w[2] \div 1) % 256 = e
    /\ BitsOf(w, 8, 4) = o
LEMMA BarrierRead ==
    ASSUME NEW o \in Int, 0 <= o, o <= 15, NEW e \in Int, 0 <= e, e <= 255
    PROVE  Carries4(<<54531, 12288 + o * 256 + e>>, o, e)
<1> DEFINE h == 54531
           l == 12288 + o * 256 + e
           w == <<h, l>>
<1>1. h \in Int /\ 0 <= h /\ h <= 65535 /\ l \in Int /\ 0 <= l /\ l <= 65535
  BY SMT
<1>2. l \div 4096 = 3 /\ l % 256 = e
  BY SMT
<1>3. (l \div 256) % 16 = o
  BY SMT
<1>4. (h % 65536) * 16 = 872496 /\ \hD5033 = 872499
  BY SMT
<1> HIDE DEF h, l
<1>5. w \in Word
  BY <1>1, WordsAre, SMT
<1>6. (w[2] \div 4096) + (w[1] % 65536) * 16 = \hD5033 /\ (w[2] \div 1) % 256 = e
  BY <1>1, <1>2, <1>4, SMT
<1>7. BitsOf(w, 8, 4) = o
  BY <1>1, <1>3, SMT DEF BitsOf
<1>8. Carries4(w, o, e)
  BY <1>5, <1>6, <1>7, SMT DEF Carries4
<1> QED
  BY <1>8, SMT DEF h, l

LEMMA ReadsBarrier ==
    ASSUME NEW at, NEW i \in [k : {"Barrier"}, kind : {"Dsb", "Dmb", "Isb"}, option : 0 .. 15]
    PROVE  ReadsAs(Encode(i), at, i)
<1> DEFINE form == i.kind
           o == i.option
           e == IF form = "Dsb" THEN 159 ELSE IF form = "Dmb" THEN 191 ELSE 223
           w == <<54531, 12288 + o * 256 + e>>
<1>1. i = [k |-> "Barrier", kind |-> form, option |-> o] /\ i # Undecoded
  BY SMT DEF Undecoded
<1>2. o \in Int /\ 0 <= o /\ o <= 15 /\ form \in {"Dsb", "Dmb", "Isb"}
  BY SMT
<1>3. Encode(i) = Opcode[form] ++ At(o, 8)
  BY SMT DEF Encode
<1> HIDE DEF form, o
<1>4. \A u : Meaning(form, u, at) = [k |-> "Barrier", kind |-> form, option |-> BitsOf(u, 8, 4)]
  BY <1>2, SMT DEF Meaning
<1>5. e \in Int /\ 0 <= e /\ e <= 255
  BY SMT
<1>6. Opcode[form] = <<54531, 12288 + e>>
  BY <1>2, OpcodeDsb, OpcodeDmb, OpcodeIsb, SMT
<1>7. \A u \in Word : Match(form, u) <=> (u[2] \div 4096) + (u[1] % 65536) * 16 = \hD5033 /\ (u[2] \div 1) % 256 = e
  <2>1. CASE form = "Dsb"
    BY <2>1, FieldsDsb, SMT
  <2>2. CASE form = "Dmb"
    BY <2>2, FieldsDmb, SMT
  <2>3. CASE form = "Isb"
    BY <2>3, FieldsIsb, SMT
  <2> QED
    BY <1>2, <2>1, <2>2, <2>3, SMT
<1> HIDE DEF e
<1>8. <<54531, 12288 + e>> ++ <<0, o * 256>> = w
  BY <1>2, <1>5, SMT DEF ++
<1>9. At(o, 8) = <<0, o * 256>>
  BY <1>2, Low4, SMT
<1>10. Encode(i) = w
  BY <1>3, <1>6, <1>8, <1>9, SMT
<1>11. /\ w \in Word /\ (w[2] \div 4096) + (w[1] % 65536) * 16 = \hD5033 /\ (w[2] \div 1) % 256 = e
       /\ BitsOf(w, 8, 4) = o
  <2>1. Carries4(w, o, e)
    BY <1>2, <1>5, BarrierRead, SMT
  <2> HIDE DEF w
  <2> QED
    BY <2>1, SMT DEF Carries4
<1> HIDE DEF w
<1>12. Match(form, w)
  BY <1>7, <1>11, SMT
<1>13. Meaning(form, w, at) = i
  BY <1>1, <1>4, <1>11, SMT
<1>14. form \in FormSet
  BY <1>2, SMT DEF FormSet
<1> QED
  BY <1>1, <1>10, <1>11, <1>12, <1>13, <1>14, ReadsForm, SMT

\* A branch offset, signed, in the room it has.
Carries26(w, q, r) == w \in Word /\ (w[1] \div 1024) % 64 = 5 /\ BitsOf(w, 0, 26) = r + q * 65536
LEMMA BranchRead ==
    ASSUME NEW q \in Int, 0 <= q, q < 1024, NEW r \in Int, 0 <= r, r < 65536
    PROVE  Carries26(<<5120 + q, r>>, q, r)
<1> DEFINE h == 5120 + q
           w == <<h, r>>
<1>1. h \in Int /\ 0 <= h /\ h <= 65535 /\ r <= 65535
  BY SMT
<1>2. (h \div 1024) % 64 = 5 /\ h % 1024 = q
  BY SMT
<1> HIDE DEF h
<1>3. w \in Word
  BY <1>1, WordsAre, SMT
<1>4. (w[1] \div 1024) % 64 = 5
  BY <1>1, <1>2, SMT
<1>5. BitsOf(w, 0, 26) = r + q * 65536
  BY <1>1, <1>2, SMT DEF BitsOf
<1>6. Carries26(w, q, r)
  BY <1>3, <1>4, <1>5, SMT DEF Carries26
<1> QED
  BY <1>6, SMT DEF h

LEMMA Signs ==
    ASSUME NEW o \in Int, o % 4 = 0
    PROVE  /\ o \div 4 \in -(2 ^ 25) .. 2 ^ 25 - 1 =>
              /\ Modulo(o \div 4, 2 ^ 26) \in Int /\ 0 <= Modulo(o \div 4, 2 ^ 26) /\ Modulo(o \div 4, 2 ^ 26) < 67108864
              /\ SignExtend(Modulo(o \div 4, 2 ^ 26) * 4, 28) = o
           /\ o \div 4 \in -(2 ^ 18) .. 2 ^ 18 - 1 =>
              /\ Modulo(o \div 4, 2 ^ 19) \in Int /\ 0 <= Modulo(o \div 4, 2 ^ 19) /\ Modulo(o \div 4, 2 ^ 19) < 524288
              /\ SignExtend(Modulo(o \div 4, 2 ^ 19) * 4, 21) = o
<1> DEFINE j == o \div 4
<1>1. j \in Int /\ j * 4 = o
  BY SMT
<1> HIDE DEF j
<1>2. j \in -(2 ^ 25) .. 2 ^ 25 - 1 =>
              /\ Modulo(j, 2 ^ 26) \in Int /\ 0 <= Modulo(j, 2 ^ 26) /\ Modulo(j, 2 ^ 26) < 67108864
              /\ SignExtend(Modulo(j, 2 ^ 26) * 4, 28) = o
  BY <1>1, SMT DEF Modulo, SignExtend
<1>3. j \in -(2 ^ 18) .. 2 ^ 18 - 1 =>
              /\ Modulo(j, 2 ^ 19) \in Int /\ 0 <= Modulo(j, 2 ^ 19) /\ Modulo(j, 2 ^ 19) < 524288
              /\ SignExtend(Modulo(j, 2 ^ 19) * 4, 21) = o
  BY <1>1, SMT DEF Modulo, SignExtend
<1> QED
  BY <1>2, <1>3, SMT DEF j

LEMMA ReadsBranch ==
    ASSUME NEW at \in Int, NEW i \in [k : {"Branch"}, offset : Int],
           i.offset % 4 = 0, i.offset \div 4 \in -(2 ^ 25) .. 2 ^ 25 - 1
    PROVE  ReadsAs(Encode(i), at, [k |-> "Branch", offset |-> i.offset, target |-> at + i.offset])
<1> DEFINE o == i.offset
           v == Modulo(o \div 4, 2 ^ 26)
           j == [k |-> "Branch", offset |-> o, target |-> at + o]
<1>1. o \in Int /\ o % 4 = 0 /\ o \div 4 \in -(2 ^ 25) .. 2 ^ 25 - 1
  OBVIOUS
<1>2. Encode(i) = Opcode["Branch"] ++ At(v, 0)
  BY SMT DEF Encode
<1>3. \A u : Meaning("Branch", u, at) = BranchTo(u, at)
  BY SMT DEF Meaning
<1>4. j # Undecoded
  BY SMT DEF Undecoded
<1> HIDE DEF o
<1>5. v \in Int /\ 0 <= v /\ v < 67108864 /\ SignExtend(v * 4, 28) = o
  BY <1>1, Signs, SMT
<1> HIDE DEF v
<1>6. Cut(v, 0, 65536, 1024, 1)
  BY <1>5, Low26, SMT
<1>7. PICK q \in Int, r \in Int : At(v, 0) = <<q, r * 1>> /\ v = q * 65536 + r /\ 0 <= r /\ r < 65536 /\ 0 <= q /\ q < 1024
  BY <1>6, SMT DEF Cut
<1> DEFINE w == <<5120 + q, r>>
<1>8. <<5120, 0>> ++ <<q, r * 1>> = w
  BY <1>7, SMT DEF ++
<1>9. Carries26(w, q, r)
  BY <1>7, BranchRead, SMT
<1> HIDE DEF w
<1>10. Encode(i) = w
  BY <1>2, <1>7, <1>8, OpcodeBranch, SMT
<1>11. w \in Word /\ BitsOf(w, 0, 26) = v
  BY <1>7, <1>9, SMT DEF Carries26
<1>12. Match("Branch", w)
  BY <1>9, FieldsBranch, SMT DEF Carries26
<1>13. Meaning("Branch", w, at) = j
  BY <1>3, <1>5, <1>11, SMT DEF BranchTo
<1>14. "Branch" \in FormSet
  BY SMT DEF FormSet
<1> HIDE DEF j
<1>15. ReadsAs(Encode(i), at, j)
  BY <1>4, <1>10, <1>11, <1>12, <1>13, <1>14, ReadsForm, SMT
<1> QED
  BY <1>15, SMT DEF j, o

\* A condition has a number, and the number means the condition.
LEMMA ConditionsNumbered ==
    ASSUME NEW c \in ToSet(Conditions)
    PROVE  LET n == ConditionNumber(c) IN n \in Int /\ 0 <= n /\ n <= 15 /\ Conditions[n + 1] = c
<1> DEFINE P(n) == n \in DOMAIN Conditions /\ Conditions[n] = c
           m == CHOOSE n \in DOMAIN Conditions : Conditions[n] = c
<1>1. \E n : P(n)
  BY Zenon DEF ToSet
<1>2. m \in DOMAIN Conditions /\ Conditions[m] = c
  BY <1>1, Zenon
<1>3. DOMAIN Conditions = 1 .. 16
  BY DEF Conditions
<1> HIDE DEF m
<1>4. m \in Int /\ 1 <= m /\ m <= 16 /\ (m - 1) + 1 = m
  BY <1>2, <1>3, SMT
<1>5. ConditionNumber(c) = m - 1
  BY Zenon DEF ConditionNumber, m
<1> QED
  BY <1>2, <1>4, <1>5, SMT

\* Nineteen bits of offset and four of condition.
Carries19(w, q, r, c) ==
    /\ w \in Word /\ (w[1] \div 256) % 256 = \h54 /\ (w[2] \div 16) % 2 = \h0
    /\ BitsOf(w, 5, 19) = r + q * 2048 /\ BitsOf(w, 0, 4) = c
LEMMA CondBranchRead ==
    ASSUME NEW q \in Int, 0 <= q, q < 256, NEW r \in Int, 0 <= r, r < 2048, NEW c \in Int, 0 <= c, c <= 15
    PROVE  Carries19(<<21504 + q, r * 32 + c>>, q, r, c)
<1> DEFINE h == 21504 + q
           l == r * 32 + c
           w == <<h, l>>
<1>1. h \in Int /\ 0 <= h /\ h <= 65535 /\ l \in Int /\ 0 <= l /\ l <= 65535
  BY SMT
<1>2. (h \div 256) % 256 = 84 /\ h % 256 = q
  BY SMT
<1>3. (l \div 16) % 2 = 0 /\ l % 16 = c
  BY SMT
<1>4. l \div 32 = r
  BY SMT
<1> HIDE DEF h, l
<1>5. w \in Word
  BY <1>1, WordsAre, SMT
<1>6. (w[1] \div 256) % 256 = \h54 /\ (w[2] \div 16) % 2 = \h0
  BY <1>1, <1>2, <1>3, SMT
<1>7. BitsOf(w, 5, 19) = r + q * 2048
  BY <1>1, <1>2, <1>4, SMT DEF BitsOf
<1>8. BitsOf(w, 0, 4) = c
  BY <1>1, <1>3, SMT DEF BitsOf
<1>9. Carries19(w, q, r, c)
  BY <1>5, <1>6, <1>7, <1>8, SMT DEF Carries19
<1> QED
  BY <1>9, SMT DEF h, l

LEMMA ReadsCondBranch ==
    ASSUME NEW at \in Int, NEW i \in [k : {"CondBranch"}, cond : ToSet(Conditions), offset : Int],
           i.offset % 4 = 0, i.offset \div 4 \in -(2 ^ 18) .. 2 ^ 18 - 1
    PROVE  ReadsAs(Encode(i), at, [k |-> "CondBranch", cond |-> i.cond, offset |-> i.offset, target |-> at + i.offset])
<1> DEFINE o == i.offset
           cond == i.cond
           v == Modulo(o \div 4, 2 ^ 19)
           c == ConditionNumber(cond)
           j == [k |-> "CondBranch", cond |-> cond, offset |-> o, target |-> at + o]
<1>1. o \in Int /\ o % 4 = 0 /\ o \div 4 \in -(2 ^ 18) .. 2 ^ 18 - 1
  OBVIOUS
<1>2. Encode(i) = Opcode["CondBranch"] ++ At(v, 5) ++ At(c, 0)
  BY SMT DEF Encode
<1>3. \A u : Meaning("CondBranch", u, at) = CondBranchTo(u, at)
  BY SMT DEF Meaning
<1>4. j # Undecoded
  BY SMT DEF Undecoded
<1>5. c \in Int /\ 0 <= c /\ c <= 15 /\ Conditions[c + 1] = cond
  BY ConditionsNumbered, SMT
<1> HIDE DEF o, cond, c
<1>6. v \in Int /\ 0 <= v /\ v < 524288 /\ SignExtend(v * 4, 21) = o
  BY <1>1, Signs, SMT
<1> HIDE DEF v
<1>7. Cut(v, 5, 2048, 256, 32)
  BY <1>6, Low19, SMT
<1>8. PICK q \in Int, r \in Int : At(v, 5) = <<q, r * 32>> /\ v = q * 2048 + r /\ 0 <= r /\ r < 2048 /\ 0 <= q /\ q < 256
  BY <1>7, SMT DEF Cut
<1> DEFINE w == <<21504 + q, r * 32 + c>>
<1>9. <<21504, 0>> ++ <<q, r * 32>> ++ <<0, c>> = w
  BY <1>5, <1>8, SMT DEF ++
<1>10. Carries19(w, q, r, c)
  BY <1>5, <1>8, CondBranchRead, SMT
<1> HIDE DEF w
<1>11. At(c, 0) = <<0, c>>
  BY <1>5, Low5, SMT
<1>12. Encode(i) = w
  BY <1>2, <1>8, <1>9, <1>11, OpcodeCondBranch, SMT
<1>13. w \in Word /\ BitsOf(w, 5, 19) = v /\ BitsOf(w, 0, 4) = c
  BY <1>8, <1>10, SMT DEF Carries19
<1>14. Match("CondBranch", w)
  BY <1>10, FieldsCondBranch, SMT DEF Carries19
<1>15. Meaning("CondBranch", w, at) = j
  BY <1>3, <1>5, <1>6, <1>13, SMT DEF CondBranchTo
<1>16. "CondBranch" \in FormSet
  BY SMT DEF FormSet
<1> HIDE DEF j
<1>17. ReadsAs(Encode(i), at, j)
  BY <1>4, <1>12, <1>13, <1>14, <1>15, <1>16, ReadsForm, SMT
<1> QED
  BY <1>17, SMT DEF j, o, cond

\* The exclusive group: size, two flags and three registers.
CarriesAccess(w, z, f, g, m, n, d) ==
    /\ w \in Word /\ (w[1] \div 256) % 64 = \h8
    /\ BitsOf(w, 30, 2) = z /\ BitsOf(w, 22, 1) = f /\ BitsOf(w, 21, 1) = g /\ Rm(w) = m /\ Rn(w) = n /\ Rd(w) = d
LEMMA ExclusiveRead ==
    ASSUME NEW z \in Int, 0 <= z, z <= 3, NEW f \in Int, 0 <= f, f <= 1, NEW g \in Int, 0 <= g, g <= 1,
           NEW m \in Int, 0 <= m, m <= 31, NEW n \in Int, 0 <= n, n <= 31, NEW d \in Int, 0 <= d, d <= 31
    PROVE  CarriesAccess(<<2048 + z * 16384 + f * 64 + g * 32 + m, 31744 + n * 32 + d>>, z, f, g, m, n, d)
<1> DEFINE h == 2048 + z * 16384 + f * 64 + g * 32 + m
           l == 31744 + n * 32 + d
           w == <<h, l>>
<1>1. h \in Int /\ 0 <= h /\ h <= 65535 /\ l \in Int /\ 0 <= l /\ l <= 65535
  BY SMT
<1>2. h \div 16384 = z
  BY SMT
<1>3. (h \div 256) % 64 = 8
  BY SMT
<1>4. (h \div 64) % 2 = f
  BY SMT
<1>5. (h \div 32) % 2 = g
  BY SMT
<1>6. h % 32 = m
  BY SMT
<1>7. l % 32 = d /\ (l \div 32) % 32 = n
  BY SMT
<1> HIDE DEF h, l
<1>8. w \in Word /\ (w[1] \div 256) % 64 = \h8
  BY <1>1, <1>3, WordsAre, SMT
<1>9. z % 4 = z
  BY SMT
<1>10. BitsOf(w, 30, 2) = z
  BY <1>1, <1>2, <1>9, SMT DEF BitsOf
<1>11. BitsOf(w, 22, 1) = f /\ BitsOf(w, 21, 1) = g
  BY <1>1, <1>4, <1>5, SMT DEF BitsOf
<1>12. Rm(w) = m
  BY <1>1, <1>6, SMT DEF Rm, BitsOf
<1>13. Rn(w) = n /\ Rd(w) = d
  BY <1>1, <1>7, SMT DEF Rn, Rd, BitsOf
<1>14. CarriesAccess(w, z, f, g, m, n, d)
  BY <1>8, <1>10, <1>11, <1>12, <1>13, SMT DEF CarriesAccess
<1> QED
  BY <1>14, SMT DEF h, l

\* What the encoder puts together for an access k to a register d.
ExclusiveWord(k, size, m, n, d) ==
    Opcode["Exclusive"] ++ At(IF size = "Word" THEN 2 ELSE 3, 30)
        ++ At(IF k \in {"LoadExclusive", "LoadAcquire"} THEN 1 ELSE 0, 22)
        ++ At(IF k \in {"LoadAcquire", "StoreRelease"} THEN 1 ELSE 0, 21)
        ++ At(m, 16) ++ At(n, 5) ++ At(d, 0)
ReadsExclusive(w, k, size, m, n, d) ==
    /\ w \in Word /\ Match("Exclusive", w) /\ Rm(w) = m /\ Rn(w) = n /\ Rd(w) = d
    /\ ExclusiveKind(w) = k /\ (BitsOf(w, 30, 2) = 2 <=> size = "Word")
LEMMA ExclusiveReadBack ==
    ASSUME NEW k \in {"LoadExclusive", "LoadAcquire", "StoreRelease",
               "StoreExclusive"}, NEW size \in {"Word", "Double"},
           NEW m \in Register, k = "StoreExclusive" \/ m = 31, NEW n \in Register, NEW d \in Register
    PROVE  ReadsExclusive(ExclusiveWord(k, size, m, n, d), k, size, m, n, d)
<1> DEFINE z == IF size = "Word" THEN 2 ELSE 3
           f == IF k \in {"LoadExclusive", "LoadAcquire"} THEN 1 ELSE 0
           g == IF k \in {"LoadAcquire", "StoreRelease"} THEN 1 ELSE 0
           w == <<2048 + z * 16384 + f * 64 + g * 32 + m, 31744 + n * 32 + d>>
<1>1. z \in Int /\ 0 <= z /\ z <= 3 /\ f \in Int /\ 0 <= f /\ f <= 1 /\ g \in Int /\ 0 <= g /\ g <= 1
  BY SMT
<1>2. (z = 2 <=> size = "Word") /\ (f = 1 <=> k \in {"LoadExclusive", "LoadAcquire"})
      /\ (g = 1 <=> k \in {"LoadAcquire", "StoreRelease"})
  BY SMT
<1>3. ExclusiveWord(k, size, m, n, d)
        = Opcode["Exclusive"] ++ At(z, 30) ++ At(f, 22) ++ At(g, 21) ++ At(m, 16) ++ At(n, 5) ++ At(d, 0)
  BY DEF ExclusiveWord
<1> HIDE DEF z, f, g
<1>4. /\ m \in Int /\ 0 <= m /\ m <= 31 /\ n \in Int /\ 0 <= n /\ n <= 31 /\ d \in Int /\ 0 <= d /\ d <= 31
  BY RegistersAre, SMT
<1>5. At(m, 16) = <<m, 0>> /\ At(n, 5) = <<0, n * 32>> /\ At(d, 0) = <<0, d>>
  BY <1>4, Low5, SMT
<1>6. At(z, 30) = <<z * 16384, 0>> /\ At(f, 22) = <<f * 64, 0>> /\ At(g, 21) = <<g * 32, 0>>
  BY <1>1, SMT DEF At
<1>7. <<2048, 31744>> ++ <<z * 16384, 0>> ++ <<f * 64, 0>> ++ <<g * 32, 0>> ++ <<m, 0>> ++ <<0, n * 32>> ++ <<0, d>> = w
  BY <1>1, <1>4, SMT DEF ++
<1>8. CarriesAccess(w, z, f, g, m, n, d)
  BY <1>1, <1>4, ExclusiveRead, SMT
<1> HIDE DEF w
<1>9. ExclusiveWord(k, size, m, n, d) = w
  BY <1>3, <1>5, <1>6, <1>7, OpcodeExclusive, SMT
<1>10. Match("Exclusive", w)
  BY <1>8, FieldsExclusive, SMT DEF CarriesAccess
<1>11. /\ w \in Word /\ BitsOf(w, 30, 2) = z /\ BitsOf(w, 22, 1) = f /\ BitsOf(w, 21, 1) = g
       /\ Rm(w) = m /\ Rn(w) = n /\ Rd(w) = d
  BY <1>8, SMT DEF CarriesAccess
<1>12. ExclusiveKind(w) = k
  BY <1>2, <1>11, SMT DEF ExclusiveKind
<1> QED
  BY <1>2, <1>9, <1>10, <1>11, <1>12, SMT DEF ReadsExclusive

LEMMA ReadsAccesses ==
    ASSUME NEW at,
           NEW i \in [k : {"LoadExclusive", "LoadAcquire", "StoreRelease"},
                      rt : Register, rn : Register, size : {"Word", "Double"}]
                \cup [k : {"StoreExclusive"}, rs : Register, rt : Register, rn : Register, size : {"Word", "Double"}]
    PROVE  ReadsAs(Encode(i), at, i)
<1> DEFINE k == i.k
           size == i.size
           m == IF k = "StoreExclusive" THEN i.rs ELSE 31
           n == i.rn
           d == i.rt
           w == ExclusiveWord(k, size, m, n, d)
<1>1. /\ k \in {"LoadExclusive", "LoadAcquire", "StoreRelease", "StoreExclusive"} /\ size \in {"Word", "Double"}
      /\ (k = "StoreExclusive" \/ m = 31) /\ n \in Register /\ d \in Register
  BY SMT
<1>2. m \in Register
  BY SMT DEF Register
<1>3. Encode(i) = w
  BY SMT DEF Encode, EncodeExclusive, ExclusiveWord
<1>4. i # Undecoded
  BY SMT DEF Undecoded
<1>5. i = IF k = "StoreExclusive" THEN [k |-> k, rs |-> m, rt |-> d, rn |-> n, size |-> size]
          ELSE [k |-> k, rt |-> d, rn |-> n, size |-> size]
  BY SMT
<1> HIDE DEF k, size, m, n, d
<1>6. ReadsExclusive(w, k, size, m, n, d)
  BY <1>1, <1>2, ExclusiveReadBack, SMT
<1> HIDE DEF w
<1>7. w \in Word /\ Match("Exclusive", w) /\ Rm(w) = m /\ Rn(w) = n /\ Rd(w) = d
  BY <1>6, SMT DEF ReadsExclusive
<1>8. ExclusiveKind(w) = k /\ size = IF BitsOf(w, 30, 2) = 2 THEN "Word" ELSE "Double"
  BY <1>1, <1>6, SMT DEF ReadsExclusive
<1>9. Exclusive(w) = i
  BY <1>1, <1>5, <1>7, <1>8, SMT DEF Exclusive
<1>10. "Exclusive" \in FormSet
  BY SMT DEF FormSet
<1>11. Meaning("Exclusive", w, at) = i
  BY <1>9, SMT DEF Meaning
<1> QED
  BY <1>3, <1>4, <1>7, <1>10, <1>11, ReadsForm, SMT

\* A word is the encoding of i, and what is read from it at the instruction
\* address a is i, with its target.
IsRead(w, i, a) ==
    w \in Word /\ Counted(DecodeKind(w, 4 * a)) = IF i.k \in {"Branch", "CondBranch"} THEN Aimed(i, a) ELSE i

LEMMA PlainRead ==
    ASSUME NEW w, NEW i, NEW a, ReadsAs(w, 4 * a, i), i.k \notin {"Branch", "CondBranch"}
    PROVE  IsRead(w, i, a)
  BY SMT DEF ReadsAs, IsRead, Counted

LEMMA TargetCounted ==
    ASSUME NEW a \in Int, NEW o \in Int, o % 4 = 0
    PROVE  (4 * a + o) \div 4 = a + o \div 4
  BY SMT

LEMMA BranchAimed ==
    ASSUME NEW a \in Int, NEW i \in [k : {"Branch"}, offset : Int],
           i.offset % 4 = 0, i.offset \div 4 \in -(2 ^ 25) .. 2 ^ 25 - 1
    PROVE  IsRead(Encode(i), i, a)
<1> DEFINE o == i.offset
           j == [k |-> "Branch", offset |-> o, target |-> 4 * a + o]
           t == [k |-> "Branch", offset |-> o, target |-> a + o \div 4]
<1>1. o \in Int /\ o % 4 = 0 /\ i = [k |-> "Branch", offset |-> o] /\ 4 * a \in Int
  BY SMT
<1>2. ReadsAs(Encode(i), 4 * a, j)
  BY <1>1, ReadsBranch, SMT
<1> HIDE DEF o
<1>3. Counted(j) = t
  <2>1. (4 * a + o) \div 4 = a + o \div 4
    BY <1>1, TargetCounted, SMT
  <2>2. Counted(j) = [j EXCEPT !.target = @ \div 4]
    BY SMT DEF Counted
  <2> QED
    BY <2>1, <2>2, SMT
<1>4. Aimed(i, a) = t
  <2>1. DOMAIN i = {"k", "offset"} /\ i["k"] = "Branch" /\ i["offset"] = o
    BY <1>1, SMT
  <2>2. DOMAIN t = {"k", "offset", "target"} /\ t["k"] = "Branch" /\ t["offset"] = o /\ t["target"] = a + i.offset \div 4
        /\ t = [x \in DOMAIN t |-> t[x]]
    BY <2>1, SMT
  <2> HIDE DEF t
  <2> QED
    BY <2>1, <2>2, SMT DEF Aimed
<1>5. i.k = "Branch"
  BY SMT
<1> HIDE DEF j, t
<1> QED
  BY <1>2, <1>3, <1>4, <1>5, SMT DEF ReadsAs, IsRead

LEMMA CondBranchAimed ==
    ASSUME NEW a \in Int, NEW i \in [k : {"CondBranch"}, cond : ToSet(Conditions), offset : Int],
           i.offset % 4 = 0, i.offset \div 4 \in -(2 ^ 18) .. 2 ^ 18 - 1
    PROVE  IsRead(Encode(i), i, a)
<1> DEFINE o == i.offset
           c == i.cond
           j == [k |-> "CondBranch", cond |-> c, offset |-> o, target |-> 4 * a + o]
           t == [k |-> "CondBranch", cond |-> c, offset |-> o, target |-> a + o \div 4]
<1>1. o \in Int /\ o % 4 = 0 /\ i = [k |-> "CondBranch", cond |-> c, offset |-> o] /\ 4 * a \in Int
  BY SMT
<1>2. ReadsAs(Encode(i), 4 * a, j)
  BY <1>1, ReadsCondBranch, SMT
<1> HIDE DEF o, c
<1>3. Counted(j) = t
  <2>1. (4 * a + o) \div 4 = a + o \div 4
    BY <1>1, TargetCounted, SMT
  <2>2. Counted(j) = [j EXCEPT !.target = @ \div 4]
    BY SMT DEF Counted
  <2> QED
    BY <2>1, <2>2, SMT
<1>4. Aimed(i, a) = t
  <2>1. DOMAIN i = {"k", "cond", "offset"} /\ i["k"] = "CondBranch" /\ i["cond"] = c /\ i["offset"] = o
    BY <1>1, SMT
  <2>2. /\ DOMAIN t = {"k", "cond", "offset", "target"} /\ t["k"] = "CondBranch" /\ t["cond"] = c
        /\ t["offset"] = o /\ t["target"] = a + i.offset \div 4 /\ t = [x \in DOMAIN t |-> t[x]]
    BY <2>1, SMT
  <2> HIDE DEF t
  <2> QED
    BY <2>1, <2>2, SMT DEF Aimed
<1>5. i.k = "CondBranch"
  BY SMT
<1> HIDE DEF j, t
<1> QED
  BY <1>2, <1>3, <1>4, <1>5, SMT DEF ReadsAs, IsRead

\* Whatever can be encoded is read back.
LEMMA EverythingRead ==
    ASSUME NEW i, Encodable(i), NEW a \in Int
    PROVE  IsRead(Encode(i), i, a)
<1> DEFINE WithSvc == i \in {Undecoded} \cup [k : {"Svc"}, imm : Halves]
           AsBarrier == i \in [k : {"Barrier"}, kind : {"Dsb", "Dmb", "Isb"}, option : 0 .. 15]
           AsMovZ == i \in [k : {"MovZ"}, rd : Register, imm16 : Halves, shift : {0, 16, 32, 48}]
           AsImmediate == /\ i \in [k : {"AddImmediate", "SubImmediate", "AddsImmediate", "SubsImmediate"},
                                   rd : Register, rn : Register, imm : Nat]
                          /\ i.imm <= 4095 \/ (i.imm % 4096 = 0 /\ i.imm \div 4096 <= 4095)
           AsBranch == i \in [k : {"Branch"}, offset : Int] /\ i.offset % 4 = 0 /\ i.offset \div 4 \in -(2 ^ 25) .. 2 ^ 25 - 1
           AsCondBranch == /\ i \in [k : {"CondBranch"}, cond : ToSet(Conditions), offset : Int]
                           /\ i.offset % 4 = 0 /\ i.offset \div 4 \in -(2 ^ 18) .. 2 ^ 18 - 1
           AsFp == i \in [k : {"FpMoveImmediate"}, rd : Register, value : {1, 2}]
                         \cup [k : {"FpCompare"}, rn : Register, rm : Register]
           AsScalar == i \in [k : {"FpScalarBinary"}, op : {"FpAdd", "FpSub", "FpMul", "FpDiv"},
                               rd : Register, rn : Register, rm : Register]
           AsVector == i \in [k : {"VectorBinary"}, op : {"AddI64", "AddF64"}, rd : Register, rn : Register, rm : Register]
           AsLogical == i \in [k : {"LogicalReg"}, op : {"And", "Or", "Xor"}, rd : Register, rn : Register, rm : Register]
           AsAccess == /\ i \in [k : {"Load", "Store"}, rt : Register, rn : Register, offset : Nat, size : {"Word", "Double"}]
                       /\ i.offset % Scale(i.size) = 0 /\ i.offset \div Scale(i.size) <= 4095
           AsExclusive == i \in [k : {"LoadExclusive", "LoadAcquire", "StoreRelease"},
                                  rt : Register, rn : Register, size : {"Word", "Double"}]
           AsStore == i \in [k : {"StoreExclusive"}, rs : Register, rt : Register, rn : Register, size : {"Word", "Double"}]
<1>1. CASE WithSvc
  <2>1. CASE i = Undecoded
    <3>1. Encode(i) = <<0, 0>> /\ i.k = "Undecoded"
      BY <2>1, SMT DEF Encode, Undecoded
    <3>2. ReadsAs(Encode(i), 4 * a, i)
      BY <2>1, <3>1, ZeroWord, SMT DEF ReadsAs
    <3> QED
      BY <3>1, <3>2, PlainRead, SMT
  <2>2. CASE i \in [k : {"Svc"}, imm : Halves]
    <3>1. i.k = "Svc"
      BY <2>2, SMT
    <3> QED
      BY <2>2, <3>1, ReadsSvc, PlainRead, SMT
  <2> QED
    BY <1>1, <2>1, <2>2, Zenon
<1>2. CASE AsBarrier
  <2>1. i.k = "Barrier"
    BY <1>2, SMT
  <2> QED
    BY <1>2, <2>1, ReadsBarrier, PlainRead, SMT
<1>3. CASE AsMovZ
  <2>1. i.k = "MovZ"
    BY <1>3, SMT
  <2> QED
    BY <1>3, <2>1, ReadsMovZ, PlainRead, SMT
<1>4. CASE AsImmediate
  <2>1. i.k \in {"AddImmediate", "SubImmediate", "AddsImmediate", "SubsImmediate"}
    BY <1>4, SMT
  <2>2. ReadsAs(Encode(i), 4 * a, i)
    BY <1>4, ReadsImmediate, SMT
  <2> QED
    BY <2>1, <2>2, PlainRead, SMT
<1>5. CASE AsBranch
  BY <1>5, BranchAimed, SMT
<1>6. CASE AsCondBranch
  BY <1>6, CondBranchAimed, SMT
<1>7. CASE AsFp
  <2>1. CASE i \in [k : {"FpMoveImmediate"}, rd : Register, value : {1, 2}]
    <3>1. i.k = "FpMoveImmediate"
      BY <2>1, SMT
    <3> QED
      BY <2>1, <3>1, ReadsFpMove, PlainRead, SMT
  <2>2. CASE i \in [k : {"FpCompare"}, rn : Register, rm : Register]
    <3>1. i.k = "FpCompare"
      BY <2>2, SMT
    <3> QED
      BY <2>2, <3>1, ReadsFpCompare, PlainRead, SMT
  <2> QED
    BY <1>7, <2>1, <2>2, Zenon
<1>8. CASE AsScalar \/ AsVector \/ AsLogical
  <2>1. i.k \in {"FpScalarBinary", "VectorBinary", "LogicalReg"}
    BY <1>8, SMT
  <2>2. ReadsAs(Encode(i), 4 * a, i)
    BY <1>8, ReadsRegisters, SMT
  <2> QED
    BY <2>1, <2>2, PlainRead, SMT
<1>9. CASE AsAccess
  <2>1. i.k \in {"Load", "Store"}
    BY <1>9, SMT
  <2>2. ReadsAs(Encode(i), 4 * a, i)
    BY <1>9, ReadsAccess, SMT
  <2> QED
    BY <2>1, <2>2, PlainRead, SMT
<1>10. CASE AsExclusive \/ AsStore
  <2>1. i.k \in {"LoadExclusive", "LoadAcquire", "StoreRelease", "StoreExclusive"}
    BY <1>10, SMT
  <2>2. ReadsAs(Encode(i), 4 * a, i)
    BY <1>10, ReadsAccesses, SMT
  <2> QED
    BY <2>1, <2>2, PlainRead, SMT
<1>11. WithSvc \/ AsBarrier \/ AsMovZ \/ AsImmediate \/ AsBranch \/ AsCondBranch \/ AsFp
       \/ AsScalar \/ AsVector \/ AsLogical \/ AsAccess \/ AsExclusive \/ AsStore
  BY DEF Encodable
<1> HIDE DEF WithSvc, AsBarrier, AsMovZ, AsImmediate, AsBranch, AsCondBranch, AsFp, AsScalar, AsVector, AsLogical, AsAccess, AsExclusive, AsStore
<1> QED
  BY <1>1, <1>2, <1>3, <1>4, <1>5, <1>6, <1>7, <1>8, <1>9, <1>10, <1>11

-----------------------------------------------------------------------------
(* The words of a source, decoded.                                         *)

DecodedInv == source \in Sources /\ code = DecodeWindow(source)

LEMMA SourceDecoded ==
    ASSUME NEW s \in Sources, NEW a \in Window(s)
    PROVE  /\ a \in Int /\ a - s.base + 1 \in DOMAIN s.insts
           /\ IsRead(WordsOf(s)[a], s.insts[a - s.base + 1], a)
           /\ DecodeWindow(s)[a] = Counted(DecodeKind(WordsOf(s)[a], 4 * a))
<1> DEFINE n == a - s.base + 1
<1>1. /\ s.base \in Nat /\ Len(s.insts) \in Nat /\ DOMAIN s.insts = 1 .. Len(s.insts)
      /\ \A m \in DOMAIN s.insts : Encodable(s.insts[m])
  BY SourcesAssumption, Zenon
<1>2. a \in Int /\ n \in DOMAIN s.insts
  BY <1>1, SMT DEF Window
<1>3. WordsOf(s)[a] = Encode(s.insts[n])
  BY Zenon DEF WordsOf
<1>4. DecodeWindow(s)[a] = Counted(DecodeKind(WordsOf(s)[a], 4 * a))
  BY Zenon DEF DecodeWindow
<1> HIDE DEF n
<1>5. IsRead(Encode(s.insts[n]), s.insts[n], a)
  BY <1>1, <1>2, EverythingRead, Zenon
<1> QED
  BY <1>2, <1>3, <1>4, <1>5, Zenon DEF n

\* Every instruction that the reference encoder can write, in the A64 encoding
\* but for ordered accesses, which it writes as the decoder's tests do, is read
\* back as it was meant, wherever it stands; and no such word, nor any word one
\* bit away from one, matches two of the decoder's patterns
\* (decode_instruction, decode_kind).
THEOREM DecoderAlwaysFaithful == FrontSpec => []DecoderFaithful
<1>1. RecoverWords => DecodedInv
  BY Zenon DEF RecoverWords, DecodedInv
<1>2. DecodedInv /\ [FrontNext]_frontVars => DecodedInv'
  <2> SUFFICES ASSUME DecodedInv, [FrontNext]_frontVars
               PROVE  DecodedInv'
    OBVIOUS
  <2>1. source' = source /\ code' = code
    BY DEF FrontNext, frontVars, vars, Next, CheckEntries, Pop, StopScan, ScanEnd, ScanOn, BuildBlocks
  <2>2. DecodeWindow(source)' = DecodeWindow(source)
    BY <2>1 DEF DecodeWindow, WordsOf, Window
  <2> QED
    BY <2>1, <2>2 DEF DecodedInv
<1>3. DecodedInv => DecodesBack
  <2> SUFFICES ASSUME DecodedInv, NEW a \in DOMAIN code
               PROVE  LET i == source.insts[a - source.base + 1]
                      IN  code[a] = IF i.k \in {"Branch", "CondBranch"} THEN Aimed(i, a) ELSE i
    BY Zenon DEF DecodesBack
  <2>1. source \in Sources /\ code = DecodeWindow(source) /\ a \in Window(source)
    BY DEF DecodedInv, DecodeWindow
  <2>2. /\ IsRead(WordsOf(source)[a], source.insts[a - source.base + 1], a)
        /\ code[a] = Counted(DecodeKind(WordsOf(source)[a], 4 * a))
    BY <2>1, SourceDecoded, Zenon
  <2> QED
    BY <2>2, Zenon DEF IsRead
<1>4. DecodedInv => FormsDisjoint
  <2> SUFFICES ASSUME DecodedInv, NEW a \in DOMAIN code, NEW n \in 0 .. 31
               PROVE  Cardinality({form \in ToSet(Forms) : Match(form, Flip(WordsOf(source)[a], n))}) <= 1
    BY Zenon DEF FormsDisjoint
  <2>1. source \in Sources /\ a \in Window(source)
    BY DEF DecodedInv, DecodeWindow
  <2>2. WordsOf(source)[a] \in Word
    BY <2>1, SourceDecoded, Zenon DEF IsRead
  <2>3. Flip(WordsOf(source)[a], n) \in Word
    BY <2>2, FlipsAreWords, Zenon
  <2> QED
    BY <2>3, FewMatch, Zenon
<1>5. DecodedInv => DecoderFaithful
  BY <1>3, <1>4, Zenon DEF DecoderFaithful
<1> QED
  BY <1>1, <1>2, <1>5, PTL DEF FrontSpec

-----------------------------------------------------------------------------
(* What the condition codes mean after SUBS, at every word size.           *)

\* The negative flag of a subtraction differs from its overflow flag exactly
\* when the left operand is the smaller one as a signed number.
LEMMA SignedLess ==
    ASSUME NEW l \in Words, NEW r \in Words
    PROVE  (FromSub(l, r).negative # FromSub(l, r).overflow) <=> Signed(l) < Signed(r)
<1> DEFINE d == WrapSub(l, r)
<1>1. /\ FromSub(l, r).negative = Top(d)
      /\ FromSub(l, r).overflow = (Top(l) # Top(r) /\ Top(l) # Top(d))
  BY DEF FromSub
<1>2. CASE l >= Half /\ r >= Half
  <2>1. d >= Half <=> l < r
    BY <1>2, HalfAssumption DEF Words, WrapSub
  <2>2. Signed(l) < Signed(r) <=> l < r
    BY <1>2, HalfAssumption DEF Words, Signed, Top
  <2> QED BY <1>1, <1>2, <2>1, <2>2 DEF Top
<1>3. CASE l >= Half /\ ~(r >= Half)
  <2>1. Signed(l) < Signed(r)
    BY <1>3, HalfAssumption DEF Words, Signed, Top
  <2> QED BY <1>1, <1>3, <2>1 DEF Top
<1>4. CASE ~(l >= Half) /\ r >= Half
  <2>1. ~(Signed(l) < Signed(r))
    BY <1>4, HalfAssumption DEF Words, Signed, Top
  <2> QED BY <1>1, <1>4, <2>1 DEF Top
<1>5. CASE ~(l >= Half) /\ ~(r >= Half)
  <2>1. d >= Half <=> l < r
    BY <1>5, HalfAssumption DEF Words, WrapSub
  <2>2. Signed(l) < Signed(r) <=> l < r
    BY <1>5, HalfAssumption DEF Words, Signed, Top
  <2> QED BY <1>1, <1>5, <2>1, <2>2 DEF Top
<1> QED BY <1>2, <1>3, <1>4, <1>5

\* A subtraction sets the zero flag exactly when its operands are equal.
LEMMA ZeroIsEqual ==
    ASSUME NEW l \in Words, NEW r \in Words
    PROVE  FromSub(l, r).zero <=> l = r
<1>1. FromSub(l, r).zero = (WrapSub(l, r) = 0)
  BY DEF FromSub
<1>2. WrapSub(l, r) = 0 <=> l = r
  BY HalfAssumption DEF Words, WrapSub
<1> QED BY <1>1, <1>2

\* The two's complement reading is one to one.
LEMMA SignedInjective ==
    ASSUME NEW l \in Words, NEW r \in Words
    PROVE  (Signed(l) = Signed(r) <=> l = r) /\ Signed(l) \in Int
BY HalfAssumption DEF Words, Signed, Top

LEMMA SubFlagsTyped ==
    ASSUME NEW l \in Words, NEW r \in Words
    PROVE  FromSub(l, r) \in NZCV
BY HalfAssumption DEF Words, FromSub, NZCV, Top

\* After SUBS (CMP) each signed and unsigned condition code holds exactly when
\* the comparison it is named for holds of the operands (Nzcv::from_sub and
\* Nzcv::satisfies), at every word size.
THEOREM CompareDecidesOrder ==
    ASSUME NEW l \in Words, NEW r \in Words
    PROVE  /\ Satisfies(FromSub(l, r), "Eq") <=> l = r
           /\ Satisfies(FromSub(l, r), "Cs") <=> l >= r
           /\ Satisfies(FromSub(l, r), "Hi") <=> l > r
           /\ Satisfies(FromSub(l, r), "Ls") <=> l <= r
           /\ Satisfies(FromSub(l, r), "Ge") <=> Signed(l) >= Signed(r)
           /\ Satisfies(FromSub(l, r), "Lt") <=> Signed(l) < Signed(r)
           /\ Satisfies(FromSub(l, r), "Gt") <=> Signed(l) > Signed(r)
           /\ Satisfies(FromSub(l, r), "Le") <=> Signed(l) <= Signed(r)
<1> DEFINE f == FromSub(l, r)
<1>0. f.carry = (l >= r)
  BY DEF FromSub
<1>1. f \in NZCV
  BY SubFlagsTyped
<1>2. f.zero <=> l = r
  BY ZeroIsEqual
<1>3. f.carry <=> l >= r
  BY <1>0
<1>4. (f.negative # f.overflow) <=> Signed(l) < Signed(r)
  BY SignedLess
<1>5. /\ (Signed(l) = Signed(r) <=> l = r)
      /\ Signed(l) \in Int /\ Signed(r) \in Int /\ l \in Int /\ r \in Int
  BY SignedInjective, HalfAssumption DEF Words
<1>6. /\ Satisfies(f, "Eq") = f.zero
      /\ Satisfies(f, "Cs") = f.carry
      /\ Satisfies(f, "Hi") = (f.carry /\ ~f.zero)
      /\ Satisfies(f, "Ls") = (~f.carry \/ f.zero)
      /\ Satisfies(f, "Ge") = (f.negative = f.overflow)
      /\ Satisfies(f, "Lt") = (f.negative # f.overflow)
      /\ Satisfies(f, "Gt") = (~f.zero /\ f.negative = f.overflow)
      /\ Satisfies(f, "Le") = (f.zero \/ f.negative # f.overflow)
  <2>1. Satisfies(f, "Eq") = f.zero BY DEF Satisfies
  <2>2. Satisfies(f, "Cs") = f.carry BY DEF Satisfies
  <2>3. Satisfies(f, "Hi") = (f.carry /\ ~f.zero) BY DEF Satisfies
  <2>4. Satisfies(f, "Ls") = (~f.carry \/ f.zero) BY DEF Satisfies
  <2>5. Satisfies(f, "Ge") = (f.negative = f.overflow) BY DEF Satisfies
  <2>6. Satisfies(f, "Lt") = (f.negative # f.overflow) BY DEF Satisfies
  <2>7. Satisfies(f, "Gt") = (~f.zero /\ f.negative = f.overflow) BY DEF Satisfies
  <2>8. Satisfies(f, "Le") = (f.zero \/ f.negative # f.overflow) BY DEF Satisfies
  <2> QED BY <2>1, <2>2, <2>3, <2>4, <2>5, <2>6, <2>7, <2>8
<1>7. /\ (l > r <=> l >= r /\ l # r)
      /\ (l <= r <=> ~(l >= r) \/ l = r)
      /\ (Signed(l) >= Signed(r) <=> ~(Signed(l) < Signed(r)))
      /\ (Signed(l) > Signed(r) <=> ~(Signed(l) < Signed(r)) /\ Signed(l) # Signed(r))
      /\ (Signed(l) <= Signed(r) <=> Signed(l) < Signed(r) \/ Signed(l) = Signed(r))
  BY <1>5
<1>8. /\ Satisfies(f, "Eq") <=> l = r
      /\ Satisfies(f, "Cs") <=> l >= r
      /\ Satisfies(f, "Hi") <=> l > r
      /\ Satisfies(f, "Ls") <=> l <= r
      /\ Satisfies(f, "Ge") <=> Signed(l) >= Signed(r)
      /\ Satisfies(f, "Lt") <=> Signed(l) < Signed(r)
      /\ Satisfies(f, "Gt") <=> Signed(l) > Signed(r)
      /\ Satisfies(f, "Le") <=> Signed(l) <= Signed(r)
  <2> HIDE DEF f
  <2> QED BY <1>2, <1>3, <1>4, <1>5, <1>6, <1>7
<1> QED BY <1>8 DEF f

-----------------------------------------------------------------------------
(* The evaluator runs a list of ops: its states, one after another.        *)

\* g holds the states between the ops, one after another.
StatesOf(insts, e, pages, n, g) ==
    g = [k \in 0 .. n |-> IF k = 0 THEN e ELSE ExecuteOp(insts[k], g[k - 1], pages)]

LEMMA StatesExist ==
    ASSUME NEW insts, NEW e, NEW pages, NEW n \in Nat
    PROVE  \E g : StatesOf(insts, e, pages, n, g)
<1> DEFINE failing == {k \in Nat : ~\E g : StatesOf(insts, e, pages, k, g)}
<1> SUFFICES ASSUME n \in failing PROVE FALSE
  OBVIOUS
<1>1. PICK k \in failing : \A l \in failing : k <= l
  BY Least
<1>2. CASE k = 0
  <2> DEFINE g == [l \in 0 .. 0 |-> e]
  <2>1. g = [l \in 0 .. 0 |-> IF l = 0 THEN e ELSE ExecuteOp(insts[l], g[l - 1], pages)]
    OBVIOUS
  <2>2. StatesOf(insts, e, pages, 0, g)
    BY <2>1 DEF StatesOf
  <2> QED
    BY <1>1, <1>2, <2>2
<1>3. CASE k # 0
  <2>1. k - 1 \in Nat /\ ~(k <= k - 1) /\ k \in Nat
    BY <1>1, <1>3
  <2>2. PICK g : StatesOf(insts, e, pages, k - 1, g)
    BY <1>1, <2>1
  <2> DEFINE h == [l \in 0 .. k |-> IF l = k THEN ExecuteOp(insts[k], g[k - 1], pages) ELSE g[l]]
  <2>3. ASSUME NEW l \in 0 .. k PROVE h[l] = IF l = 0 THEN e ELSE ExecuteOp(insts[l], h[l - 1], pages)
    <3>1. CASE l = k
      <4>1. h[l] = ExecuteOp(insts[k], g[k - 1], pages) /\ h[k - 1] = g[k - 1]
        BY <2>1, <3>1
      <4> QED
        BY <1>3, <3>1, <4>1
    <3>2. CASE l # k
      <4>1. l \in 0 .. k - 1 /\ h[l] = g[l]
        BY <2>1, <3>2
      <4>2. g[l] = IF l = 0 THEN e ELSE ExecuteOp(insts[l], g[l - 1], pages)
        BY <2>2, <4>1 DEF StatesOf
      <4>3. l # 0 => l - 1 \in 0 .. k /\ l - 1 # k
        BY <2>1, <4>1
      <4> QED
        BY <4>1, <4>2, <4>3
    <3> QED
      BY <3>1, <3>2
  <2>4. StatesOf(insts, e, pages, k, h)
    <3>1. h = [l \in 0 .. k |-> h[l]]
      OBVIOUS
    <3> HIDE DEF h
    <3> QED
      BY <2>3, <3>1 DEF StatesOf
  <2> QED
    BY <1>1, <2>4
<1> QED
  BY <1>2, <1>3

\* Running ops is running them one by one.
RunOf(insts, e, pages) ==
    CHOOSE g : g = [k \in 0 .. Len(insts) |-> IF k = 0 THEN e ELSE ExecuteOp(insts[k], g[k - 1], pages)]
LEMMA OpsRun ==
    ASSUME NEW insts, NEW e, NEW pages, Len(insts) \in Nat
    PROVE  /\ RunOf(insts, e, pages)[0] = e /\ ExecuteOps(insts, e, pages) = RunOf(insts, e, pages)[Len(insts)]
           /\ \A k \in 1 .. Len(insts) :
                 RunOf(insts, e, pages)[k] = ExecuteOp(insts[k], RunOf(insts, e, pages)[k - 1], pages)
<1> DEFINE after == RunOf(insts, e, pages)
<1>0. \E g : StatesOf(insts, e, pages, Len(insts), g)
  BY StatesExist
<1>1. \E g : g = [k \in 0 .. Len(insts) |-> IF k = 0 THEN e ELSE ExecuteOp(insts[k], g[k - 1], pages)]
  BY <1>0, Zenon DEF StatesOf
<1>2. after = [k \in 0 .. Len(insts) |-> IF k = 0 THEN e ELSE ExecuteOp(insts[k], after[k - 1], pages)]
  BY <1>1, Zenon DEF RunOf
<1>3. ExecuteOps(insts, e, pages) = after[Len(insts)]
  BY Zenon DEF ExecuteOps, RunOf
<1> HIDE DEF after
<1>4. after[0] = e /\ \A k \in 1 .. Len(insts) : after[k] = ExecuteOp(insts[k], after[k - 1], pages)
  BY <1>2
<1> QED
  BY <1>3, <1>4 DEF after

LEMMA RunSteps ==
    ASSUME NEW ops, NEW start, NEW map, Len(ops) \in Nat
    PROVE  /\ RunOf(ops, start, map)[0] = start /\ ExecuteOps(ops, start, map) = RunOf(ops, start, map)[Len(ops)]
           /\ \A k \in 1 .. Len(ops) : RunOf(ops, start, map)[k] = ExecuteOp(ops[k], RunOf(ops, start, map)[k - 1], map)
BY OpsRun

\* Whatever passes through the states of a run ends where the run ends.
LEMMA RunIs ==
    ASSUME NEW insts, NEW e, NEW pages, Len(insts) \in Nat, NEW f, f[0] = e,
           \A k \in 1 .. Len(insts) : f[k] = ExecuteOp(insts[k], f[k - 1], pages)
    PROVE  ExecuteOps(insts, e, pages) = f[Len(insts)]
<1> DEFINE g == RunOf(insts, e, pages)
<1>1. /\ g[0] = e /\ ExecuteOps(insts, e, pages) = g[Len(insts)]
      /\ \A k \in 1 .. Len(insts) : g[k] = ExecuteOp(insts[k], g[k - 1], pages)
  BY RunSteps
<1> HIDE DEF g
<1> DEFINE apart == {k \in 0 .. Len(insts) : f[k] # g[k]}
<1>2. ASSUME apart # {} PROVE FALSE
  <2>1. apart \in SUBSET Nat
    OBVIOUS
  <2>2. PICK k \in apart : \A l \in apart : k <= l
    BY <1>2, <2>1, Least
  <2>3. k # 0 /\ k \in 1 .. Len(insts) /\ k - 1 \in 0 .. Len(insts) /\ ~(k <= k - 1)
    BY <1>1, <2>2
  <2>4. f[k - 1] = g[k - 1]
    BY <2>2, <2>3
  <2>5. f[k] = g[k]
    BY <1>1, <2>3, <2>4
  <2> QED
    BY <2>2, <2>5
<1>3. Len(insts) \in 0 .. Len(insts)
  OBVIOUS
<1> QED
  BY <1>1, <1>2, <1>3

LEMMA OpsConcat ==
    ASSUME NEW T, NEW a \in Seq(T), NEW b \in Seq(T), NEW e, NEW pages
    PROVE  ExecuteOps(a \o b, e, pages) = ExecuteOps(b, ExecuteOps(a, e, pages), pages)
<1> DEFINE middle == ExecuteOps(a, e, pages)
           g == RunOf(a, e, pages)
           h == RunOf(b, middle, pages)
<1>1. /\ g[0] = e /\ middle = g[Len(a)]
      /\ \A k \in 1 .. Len(a) : g[k] = ExecuteOp(a[k], g[k - 1], pages)
  BY OpsRun
<1>2. /\ h[0] = middle /\ ExecuteOps(b, middle, pages) = h[Len(b)]
      /\ \A k \in 1 .. Len(b) : h[k] = ExecuteOp(b[k], h[k - 1], pages)
  <2> HIDE DEF middle
  <2> QED
    BY OpsRun
<1> HIDE DEF g, h
<1> DEFINE f == [k \in 0 .. Len(a) + Len(b) |-> IF k <= Len(a) THEN g[k] ELSE h[k - Len(a)]]
<1>3. a \o b \in Seq(T) /\ Len(a \o b) = Len(a) + Len(b) /\ Len(a) \in Nat /\ Len(b) \in Nat
  OBVIOUS
<1>4. f[0] = e /\ f[Len(a) + Len(b)] = h[Len(b)]
  BY <1>1, <1>2, <1>3
<1>5. ASSUME NEW k \in 1 .. Len(a \o b) PROVE f[k] = ExecuteOp((a \o b)[k], f[k - 1], pages)
  <2>1. CASE k <= Len(a)
    <3>1. k \in 1 .. Len(a) /\ (a \o b)[k] = a[k] /\ f[k] = g[k] /\ f[k - 1] = g[k - 1]
      BY <1>3, <2>1
    <3> QED
      BY <1>1, <3>1
  <2>2. CASE ~(k <= Len(a))
    <3>1. /\ k - Len(a) \in 1 .. Len(b) /\ (a \o b)[k] = b[k - Len(a)] /\ f[k] = h[k - Len(a)]
          /\ k - 1 \in 0 .. Len(a) + Len(b) /\ (k - 1) - Len(a) = (k - Len(a)) - 1
      BY <1>3, <2>2
    <3>2. f[k - 1] = h[(k - Len(a)) - 1]
      <4>1. CASE k = Len(a) + 1
        <5>1. k - 1 = Len(a) /\ (k - Len(a)) - 1 = 0 /\ k - 1 <= Len(a)
          BY <1>3, <4>1
        <5> QED
          BY <1>1, <1>2, <3>1, <5>1
      <4>2. CASE k # Len(a) + 1
        <5>1. ~(k - 1 <= Len(a))
          BY <1>3, <2>2, <4>2
        <5> QED
          BY <3>1, <5>1
      <4> QED
        BY <4>1, <4>2
    <3> QED
      BY <1>2, <3>1, <3>2
  <2> QED
    BY <2>1, <2>2
<1> HIDE DEF f, middle
<1>6. ExecuteOps(a \o b, e, pages) = f[Len(a \o b)]
  <2> DEFINE ab == a \o b
  <2>1. Len(ab) \in Nat /\ \A k \in 1 .. Len(ab) : f[k] = ExecuteOp(ab[k], f[k - 1], pages)
    BY <1>3, <1>5
  <2> HIDE DEF ab
  <2>2. ExecuteOps(ab, e, pages) = f[Len(ab)]
    BY <1>4, <2>1, RunIs
  <2> QED
    BY <2>2 DEF ab
<1> QED
  BY <1>2, <1>3, <1>4, <1>6 DEF middle

\* Runs of no and of a few ops.
LEMMA NoOps == ASSUME NEW e, NEW pages PROVE ExecuteOps(<<>>, e, pages) = e
<1>1. Len(<<>>) = 0 /\ Len(<<>>) \in Nat
  OBVIOUS
<1> QED
  BY <1>1, OpsRun

LEMMA OneOp ==
    ASSUME NEW a, NEW e, NEW pages
    PROVE  ExecuteOps(<<a>>, e, pages) = ExecuteOp(a, e, pages)
<1> DEFINE l == <<a>>
           g == RunOf(l, e, pages)
<1>1. Len(l) = 1 /\ l[1] = a
  OBVIOUS
<1> HIDE DEF l
<1>2. Len(l) \in Nat
  BY <1>1
<1>3. /\ g[0] = e /\ ExecuteOps(l, e, pages) = g[Len(l)]
      /\ \A k \in 1 .. Len(l) : g[k] = ExecuteOp(l[k], g[k - 1], pages)
  BY <1>2, RunSteps
<1> HIDE DEF g
<1>4. /\ ExecuteOps(l, e, pages) = g[1]
      /\ g[1] = ExecuteOp(a, g[0], pages)
  BY <1>1, <1>3
<1> QED
  BY <1>3, <1>4 DEF l

LEMMA TwoOps ==
    ASSUME NEW a, NEW b, NEW e, NEW pages
    PROVE  ExecuteOps(<<a, b>>, e, pages) = ExecuteOp(b, ExecuteOp(a, e, pages), pages)
<1> DEFINE l == <<a, b>>
           g == RunOf(l, e, pages)
<1>1. Len(l) = 2 /\ l[1] = a /\ l[2] = b
  OBVIOUS
<1> HIDE DEF l
<1>2. Len(l) \in Nat
  BY <1>1
<1>3. /\ g[0] = e /\ ExecuteOps(l, e, pages) = g[Len(l)]
      /\ \A k \in 1 .. Len(l) : g[k] = ExecuteOp(l[k], g[k - 1], pages)
  BY <1>2, RunSteps
<1> HIDE DEF g
<1>4. /\ ExecuteOps(l, e, pages) = g[2]
      /\ g[1] = ExecuteOp(a, g[0], pages)
      /\ g[2] = ExecuteOp(b, g[1], pages)
  BY <1>1, <1>3
<1> QED
  BY <1>3, <1>4 DEF l

LEMMA ThreeOps ==
    ASSUME NEW a, NEW b, NEW c, NEW e, NEW pages
    PROVE  ExecuteOps(<<a, b, c>>, e, pages) = ExecuteOp(c, ExecuteOp(b, ExecuteOp(a, e, pages), pages), pages)
<1> DEFINE l == <<a, b, c>>
           g == RunOf(l, e, pages)
<1>1. Len(l) = 3 /\ l[1] = a /\ l[2] = b /\ l[3] = c
  OBVIOUS
<1> HIDE DEF l
<1>2. Len(l) \in Nat
  BY <1>1
<1>3. /\ g[0] = e /\ ExecuteOps(l, e, pages) = g[Len(l)]
      /\ \A k \in 1 .. Len(l) : g[k] = ExecuteOp(l[k], g[k - 1], pages)
  BY <1>2, RunSteps
<1> HIDE DEF g
<1>4. /\ ExecuteOps(l, e, pages) = g[3]
      /\ g[1] = ExecuteOp(a, g[0], pages)
      /\ g[2] = ExecuteOp(b, g[1], pages)
      /\ g[3] = ExecuteOp(c, g[2], pages)
  BY <1>1, <1>3
<1> QED
  BY <1>3, <1>4 DEF l

LEMMA FourOps ==
    ASSUME NEW a, NEW b, NEW c, NEW d, NEW e, NEW pages
    PROVE  ExecuteOps(<<a, b, c, d>>, e, pages) = ExecuteOp(d, ExecuteOp(c, ExecuteOp(b, ExecuteOp(a, e, pages), pages), pages), pages)
<1> DEFINE l == <<a, b, c, d>>
           g == RunOf(l, e, pages)
<1>1. Len(l) = 4 /\ l[1] = a /\ l[2] = b /\ l[3] = c /\ l[4] = d
  OBVIOUS
<1> HIDE DEF l
<1>2. Len(l) \in Nat
  BY <1>1
<1>3. /\ g[0] = e /\ ExecuteOps(l, e, pages) = g[Len(l)]
      /\ \A k \in 1 .. Len(l) : g[k] = ExecuteOp(l[k], g[k - 1], pages)
  BY <1>2, RunSteps
<1> HIDE DEF g
<1>4. /\ ExecuteOps(l, e, pages) = g[4]
      /\ g[1] = ExecuteOp(a, g[0], pages)
      /\ g[2] = ExecuteOp(b, g[1], pages)
      /\ g[3] = ExecuteOp(c, g[2], pages)
      /\ g[4] = ExecuteOp(d, g[3], pages)
  BY <1>1, <1>3
<1> QED
  BY <1>3, <1>4 DEF l

LEMMA FiveOps ==
    ASSUME NEW a, NEW b, NEW c, NEW d, NEW x, NEW e, NEW pages
    PROVE  ExecuteOps(<<a, b, c, d, x>>, e, pages) = ExecuteOp(x, ExecuteOp(d, ExecuteOp(c, ExecuteOp(b, ExecuteOp(a, e, pages), pages), pages), pages), pages)
<1> DEFINE l == <<a, b, c, d, x>>
           g == RunOf(l, e, pages)
<1>1. Len(l) = 5 /\ l[1] = a /\ l[2] = b /\ l[3] = c /\ l[4] = d /\ l[5] = x
  OBVIOUS
<1> HIDE DEF l
<1>2. Len(l) \in Nat
  BY <1>1
<1>3. /\ g[0] = e /\ ExecuteOps(l, e, pages) = g[Len(l)]
      /\ \A k \in 1 .. Len(l) : g[k] = ExecuteOp(l[k], g[k - 1], pages)
  BY <1>2, RunSteps
<1> HIDE DEF g
<1>4. /\ ExecuteOps(l, e, pages) = g[5]
      /\ g[1] = ExecuteOp(a, g[0], pages)
      /\ g[2] = ExecuteOp(b, g[1], pages)
      /\ g[3] = ExecuteOp(c, g[2], pages)
      /\ g[4] = ExecuteOp(d, g[3], pages)
      /\ g[5] = ExecuteOp(x, g[4], pages)
  BY <1>1, <1>3
<1> QED
  BY <1>3, <1>4 DEF l

-----------------------------------------------------------------------------
(* States of the evaluator, and what one op does to them.                  *)

\* The state of an evaluation in block b, and the same after a fault.
EvalState(b, u, status, c, m, p, vals, d) ==
    [cpu |-> c, mem |-> m, values |-> vals, pending |-> p, block |-> b, status |-> status,
     defined |-> d, readUndefined |-> u]
Run(b, u, c, m, p, vals, d) == EvalState(b, u, "running", c, m, p, vals, d)
Faulted(b, u, c, m, p, vals, d) == EvalState(b, u, "fault", c, m, p, vals, d)

LEMMA StateFields ==
    ASSUME NEW b, NEW u, NEW status, NEW c, NEW m, NEW p, NEW vals, NEW d
    PROVE  /\ EvalState(b, u, status, c, m, p, vals, d).cpu = c
           /\ EvalState(b, u, status, c, m, p, vals, d).mem = m
           /\ EvalState(b, u, status, c, m, p, vals, d).values = vals
           /\ EvalState(b, u, status, c, m, p, vals, d).pending = p
           /\ EvalState(b, u, status, c, m, p, vals, d).block = b
           /\ EvalState(b, u, status, c, m, p, vals, d).status = status
           /\ EvalState(b, u, status, c, m, p, vals, d).defined = d
           /\ EvalState(b, u, status, c, m, p, vals, d).readUndefined = u
  BY DEF EvalState

Fields == {"cpu", "mem", "values", "pending", "block", "status", "defined", "readUndefined"}
LEMMA StateDefines ==
    ASSUME NEW b, NEW u, NEW status, NEW c, NEW m, NEW p, NEW vals, NEW d, NEW n, NEW w
    PROVE  Defining(EvalState(b, u, status, c, m, p, vals, d), n, w)
           = EvalState(b, u, status, c, m, p, [vals EXCEPT ![n] = w], d \cup {n})
<1> DEFINE s == EvalState(b, u, status, c, m, p, vals, d)
           g == [s EXCEPT !.values[n] = w, !.defined = @ \cup {n}]
           h == EvalState(b, u, status, c, m, p, [vals EXCEPT ![n] = w], d \cup {n})
<1>1. s = [f \in Fields |-> s[f]] /\ h = [f \in Fields |-> h[f]]
  BY DEF EvalState, Fields
<1>2. s.values = vals /\ s.defined = d /\ h.values = [vals EXCEPT ![n] = w] /\ h.defined = d \cup {n}
  BY DEF EvalState
<1>3. \A f \in Fields \ {"values", "defined"} : s[f] = h[f]
  BY DEF EvalState, Fields
<1> HIDE DEF s, h
<1>4. g = [f \in Fields |-> g[f]]
  BY <1>1
<1>5. \A f \in Fields : g[f] = h[f]
  BY <1>1, <1>2, <1>3 DEF Fields
<1> HIDE DEF g
<1>6. g = h
  BY <1>1, <1>4, <1>5
<1> QED
  BY <1>6 DEF g, h, s, Defining

Compared(s, x, y) == [s EXCEPT !.cpu = x, !.pending = y]
Stored(s, x, y) == [s EXCEPT !.mem = y, !.cpu = x]
LEMMA TwoUpdates ==
    ASSUME NEW b, NEW u, NEW status, NEW c, NEW m, NEW p, NEW vals, NEW d, NEW x, NEW y
    PROVE  /\ Compared(EvalState(b, u, status, c, m, p, vals, d), x, y) = EvalState(b, u, status, x, m, y, vals, d)
           /\ Stored(EvalState(b, u, status, c, m, p, vals, d), x, y) = EvalState(b, u, status, x, y, p, vals, d)
<1> DEFINE s == EvalState(b, u, status, c, m, p, vals, d)
<1>1. [s EXCEPT !.cpu = x, !.pending = y] = EvalState(b, u, status, x, m, y, vals, d)
  <2> DEFINE g == [s EXCEPT !.cpu = x, !.pending = y]
             h == EvalState(b, u, status, x, m, y, vals, d)
  <2>1. s = [f \in Fields |-> s[f]] /\ h = [f \in Fields |-> h[f]]
    BY DEF EvalState, Fields
  <2>2. h.cpu = x /\ h.pending = y
    BY DEF EvalState
  <2>3. \A f \in Fields \ {"cpu", "pending"} : s[f] = h[f]
    BY DEF EvalState, Fields
  <2> HIDE DEF s, h
  <2>4. g = [f \in Fields |-> g[f]]
    BY <2>1
  <2>5. \A f \in Fields : g[f] = h[f]
    BY <2>1, <2>2, <2>3 DEF Fields
  <2> HIDE DEF g
  <2>6. g = h
    BY <2>1, <2>4, <2>5
  <2> QED
    BY <2>6 DEF g, h
<1>2. [s EXCEPT !.mem = y, !.cpu = x] = EvalState(b, u, status, x, y, p, vals, d)
  <2> DEFINE g == [s EXCEPT !.mem = y, !.cpu = x]
             h == EvalState(b, u, status, x, y, p, vals, d)
  <2>1. s = [f \in Fields |-> s[f]] /\ h = [f \in Fields |-> h[f]]
    BY DEF EvalState, Fields
  <2>2. h.cpu = x /\ h.mem = y
    BY DEF EvalState
  <2>3. \A f \in Fields \ {"cpu", "mem"} : s[f] = h[f]
    BY DEF EvalState, Fields
  <2> HIDE DEF s, h
  <2>4. g = [f \in Fields |-> g[f]]
    BY <2>1
  <2>5. \A f \in Fields : g[f] = h[f]
    BY <2>1, <2>2, <2>3 DEF Fields
  <2> HIDE DEF g
  <2>6. g = h
    BY <2>1, <2>4, <2>5
  <2> QED
    BY <2>6 DEF g, h
<1> QED
  BY <1>1, <1>2 DEF Compared, Stored

\* What an op does when it reads defined values and does not fault, and when it does.
LEMMA OpRuns ==
    ASSUME NEW b, NEW u \in BOOLEAN, NEW c, NEW m, NEW p, NEW vals, NEW d, NEW pages, NEW inst,
           \A use \in Operands(inst.op) : use[1] \in d
    PROVE  LET s == Run(b, u, c, m, p, vals, d)
           IN  ExecuteOp(inst, s, pages) =
                  IF Faults(s, inst.op, pages) THEN Faulted(b, u, c, m, p, vals, d)
                  ELSE IF inst.result = NoValue THEN Effects(s, inst.op)
                  ELSE Defining(Effects(s, inst.op), inst.result, Computed(s, inst.op))
<1> DEFINE s == Run(b, u, c, m, p, vals, d)
<1>1. s.status = "running" /\ s.readUndefined = u /\ s.defined = d
  BY DEF Run, EvalState
<1>2. [s EXCEPT !.readUndefined = u] = s
  BY DEF Run, EvalState
<1>3. Faulting(s) = Faulted(b, u, c, m, p, vals, d)
  BY DEF Run, Faulted, EvalState, Faulting
<1> HIDE DEF s
<1>4. Reading(s, inst.op) = s
  <2>1. (s.readUndefined \/ \E use \in Operands(inst.op) : use[1] \notin s.defined) = u
    BY <1>1
  <2> QED
    BY <1>2, <2>1 DEF Reading
<1>5. ExecuteOp(inst, s, pages) =
         IF Faults(s, inst.op, pages) THEN Faulting(Reading(s, inst.op))
         ELSE IF inst.result = NoValue THEN Effects(Reading(s, inst.op), inst.op)
         ELSE Defining(Effects(Reading(s, inst.op), inst.op), inst.result, Computed(s, inst.op))
  BY <1>1 DEF ExecuteOp
<1> QED
  BY <1>3, <1>4, <1>5 DEF s

LEMMA OpAfterFault ==
    ASSUME NEW b, NEW u, NEW c, NEW m, NEW p, NEW vals, NEW d, NEW pages, NEW inst
    PROVE  ExecuteOp(inst, Faulted(b, u, c, m, p, vals, d), pages) = Faulted(b, u, c, m, p, vals, d)
<1> DEFINE s == Faulted(b, u, c, m, p, vals, d)
<1>1. s.status # "running"
  BY DEF Faulted, EvalState
<1> HIDE DEF s
<1>2. ExecuteOp(inst, s, pages) = s
  BY <1>1 DEF ExecuteOp
<1> QED
  BY <1>2 DEF s

\* An op that touches neither memory nor the state defines its value.
LEMMA PureOp ==
    ASSUME NEW b, NEW u \in BOOLEAN, NEW c, NEW m, NEW p, NEW vals, NEW d, NEW pages,
           NEW op, op.k \in {"Const", "GetReg", "Binary", "Trunc", "ZeroExtend"},
           \A use \in Operands(op) : use[1] \in d, NEW n, n # NoValue
    PROVE  ExecuteOp(Def(n, op), Run(b, u, c, m, p, vals, d), pages) =
           Run(b, u, c, m, p, [vals EXCEPT ![n] = Computed(Run(b, u, c, m, p, vals, d), op)], d \cup {n})
<1> DEFINE s == Run(b, u, c, m, p, vals, d)
           w == Computed(s, op)
<1>1. Def(n, op).op = op /\ Def(n, op).result = n
  BY DEF Def
<1>2. ~Faults(s, op, pages)
  BY DEF Faults, LoadOps, StoreOps
<1>3. Effects(s, op) = s
  BY DEF Effects, StoreOps
<1>4. ExecuteOp(Def(n, op), s, pages) = Defining(Effects(s, op), n, w)
  <2> DEFINE inst == Def(n, op)
  <2>1. \A use \in Operands(inst.op) : use[1] \in d
    BY <1>1
  <2> HIDE DEF inst, s
  <2>2. ExecuteOp(inst, s, pages) = IF Faults(s, inst.op, pages) THEN Faulted(b, u, c, m, p, vals, d)
                  ELSE IF inst.result = NoValue THEN Effects(s, inst.op)
                  ELSE Defining(Effects(s, inst.op), inst.result, Computed(s, inst.op))
    BY <2>1, OpRuns DEF s
  <2> QED
    BY <1>1, <1>2, <2>2 DEF inst
<1> HIDE DEF w
<1>5. Defining(s, n, w) = Run(b, u, c, m, p, [vals EXCEPT ![n] = w], d \cup {n})
  BY StateDefines DEF Run
<1> QED
  BY <1>3, <1>4, <1>5 DEF w

\* The operations of binary on 64-bit words.
WordOp(op, l, r) ==
    CASE op = "Add" -> WrapAdd(l, r) [] op = "Sub" -> WrapSub(l, r) [] OTHER -> Logical(op, l, r)
LowOf(w) == w % Low
LowKinds == {"Trunc", "ZeroExtend"}

LEMMA ConstDefines ==
    ASSUME NEW b, NEW u \in BOOLEAN, NEW c, NEW m, NEW p, NEW vals, NEW d, NEW pages, NEW n, n # NoValue, NEW w
    PROVE  ExecuteOp(Def(n, ConstOp(w)), Run(b, u, c, m, p, vals, d), pages) =
           Run(b, u, c, m, p, [vals EXCEPT ![n] = w], d \cup {n})
<1> DEFINE op == ConstOp(w)
           s == Run(b, u, c, m, p, vals, d)
<1>1. op.k = "Const" /\ Operands(op) = {}
  BY DEF ConstOp, Operands
<1>2. Computed(s, op) = w
  BY DEF Computed, LoadOps, ConstOp, MaskTo
<1> HIDE DEF op
<1>3. ExecuteOp(Def(n, op), s, pages) = Run(b, u, c, m, p, [vals EXCEPT ![n] = Computed(s, op)], d \cup {n})
  BY <1>1, PureOp
<1> QED
  BY <1>2, <1>3 DEF op

LEMMA RegDefines ==
    ASSUME NEW b, NEW u \in BOOLEAN, NEW c, NEW m, NEW p, NEW vals, NEW d, NEW pages, NEW n, n # NoValue, NEW r
    PROVE  ExecuteOp(Def(n, GetReg(r)), Run(b, u, c, m, p, vals, d), pages) =
           Run(b, u, c, m, p, [vals EXCEPT ![n] = ReadReg(c, r)], d \cup {n})
<1> DEFINE op == GetReg(r)
           s == Run(b, u, c, m, p, vals, d)
<1>1. op.k = "GetReg" /\ Operands(op) = {}
  BY DEF GetReg, Operands
<1>2. s.cpu = c
  BY DEF Run, EvalState
<1>3. Computed(s, op) = ReadReg(c, r)
  BY <1>2 DEF Computed, LoadOps, GetReg
<1> HIDE DEF op
<1>4. ExecuteOp(Def(n, op), s, pages) = Run(b, u, c, m, p, [vals EXCEPT ![n] = Computed(s, op)], d \cup {n})
  BY <1>1, PureOp
<1> QED
  BY <1>3, <1>4 DEF op

LEMMA BinaryDefines ==
    ASSUME NEW b, NEW u \in BOOLEAN, NEW c, NEW m, NEW p, NEW vals, NEW d, NEW pages, NEW n, n # NoValue,
           NEW o, NEW l \in d, NEW r \in d, NEW w, w = WordOp(o, vals[l], vals[r])
    PROVE  ExecuteOp(Def(n, BinaryI64(o, l, r)), Run(b, u, c, m, p, vals, d), pages) =
           Run(b, u, c, m, p, [vals EXCEPT ![n] = w], d \cup {n})
<1> DEFINE op == BinaryI64(o, l, r)
           s == Run(b, u, c, m, p, vals, d)
<1>1. op.k = "Binary" /\ \A use \in Operands(op) : use[1] \in d
  BY DEF BinaryI64, Operands
<1>2. s.values = vals
  BY DEF Run, EvalState
<1> HIDE DEF s
<1>3. Computed(s, op) = BinaryOp(o, "I64", vals[l], vals[r])
  BY <1>2 DEF Computed, LoadOps, BinaryI64
<1>4. \A z : MaskTo("I64", z) = z
  BY DEF MaskTo
<1>5. Computed(s, op) = w
  BY <1>3, <1>4 DEF BinaryOp, WordOp
<1> HIDE DEF op
<1>6. ExecuteOp(Def(n, op), s, pages) = Run(b, u, c, m, p, [vals EXCEPT ![n] = Computed(s, op)], d \cup {n})
  BY <1>1, PureOp DEF s
<1> QED
  BY <1>5, <1>6 DEF op, s

LEMMA LowDefines ==
    ASSUME NEW b, NEW u \in BOOLEAN, NEW c, NEW m, NEW p, NEW vals, NEW d, NEW pages, NEW n, n # NoValue,
           NEW k, k \in LowKinds, NEW v \in d, NEW w, w = LowOf(vals[v])
    PROVE  ExecuteOp(Def(n, LowHalf(k, v)), Run(b, u, c, m, p, vals, d), pages) =
           Run(b, u, c, m, p, [vals EXCEPT ![n] = w], d \cup {n})
<1> DEFINE op == LowHalf(k, v)
           s == Run(b, u, c, m, p, vals, d)
<1>1. op.k \in {"Trunc", "ZeroExtend"} /\ \A use \in Operands(op) : use[1] \in d
  BY DEF LowHalf, Operands, LowKinds
<1>2. s.values = vals
  BY DEF Run, EvalState
<1> HIDE DEF s
<1>3. Computed(s, op) = w
  BY <1>1, <1>2 DEF Computed, LoadOps, LowHalf, LowOf
<1> HIDE DEF op
<1>4. ExecuteOp(Def(n, op), s, pages) = Run(b, u, c, m, p, [vals EXCEPT ![n] = Computed(s, op)], d \cup {n})
  BY <1>1, PureOp DEF s
<1> QED
  BY <1>3, <1>4 DEF op, s

\* An op without a result that cannot fault has its effect and no other.
LEMMA EffectOp ==
    ASSUME NEW b, NEW u \in BOOLEAN, NEW c, NEW m, NEW p, NEW vals, NEW d, NEW pages,
           NEW op, \A use \in Operands(op) : use[1] \in d, ~Faults(Run(b, u, c, m, p, vals, d), op, pages)
    PROVE  ExecuteOp(Effect(op), Run(b, u, c, m, p, vals, d), pages) = Effects(Run(b, u, c, m, p, vals, d), op)
<1> DEFINE s == Run(b, u, c, m, p, vals, d)
           inst == Effect(op)
<1>1. inst.op = op /\ inst.result = NoValue
  BY DEF Effect
<1> HIDE DEF s, inst
<1>2. ExecuteOp(inst, s, pages) =
                  IF Faults(s, inst.op, pages) THEN Faulted(b, u, c, m, p, vals, d)
                  ELSE IF inst.result = NoValue THEN Effects(s, inst.op)
                  ELSE Defining(Effects(s, inst.op), inst.result, Computed(s, inst.op))
  BY <1>1, OpRuns DEF s
<1> QED
  BY <1>1, <1>2 DEF s, inst

LEMMA SetRegOp ==
    ASSUME NEW b, NEW u \in BOOLEAN, NEW c, NEW m, NEW p, NEW vals, NEW d, NEW pages, NEW r, NEW v \in d
    PROVE  ExecuteOp(Effect(SetReg(r, v)), Run(b, u, c, m, p, vals, d), pages) =
           Run(b, u, WriteReg(c, r, vals[v]), m, p, vals, d)
<1> DEFINE op == SetReg(r, v)
           s == Run(b, u, c, m, p, vals, d)
           c2 == WriteReg(c, r, vals[v])
<1>1. \A use \in Operands(op) : use[1] \in d
  BY DEF Operands, SetReg
<1>2. ~Faults(s, op, pages)
  BY DEF Faults, LoadOps, StoreOps, SetReg
<1>3. s.cpu = c /\ s.values = vals
  BY DEF Run, EvalState
<1> HIDE DEF s
<1>4. Effects(s, op) = [s EXCEPT !.cpu = c2]
  BY <1>3 DEF Effects, StoreOps, SetReg
<1> HIDE DEF c2
<1>5. [s EXCEPT !.cpu = c2] = Run(b, u, c2, m, p, vals, d)
  BY DEF s, Run, EvalState
<1> HIDE DEF op
<1>6. ExecuteOp(Effect(op), s, pages) = Effects(s, op)
  BY <1>1, <1>2, EffectOp DEF s
<1> QED
  BY <1>4, <1>5, <1>6 DEF op, s, c2

LEMMA SetFlagsOp ==
    ASSUME NEW b, NEW u \in BOOLEAN, NEW c, NEW m, NEW p, NEW vals, NEW d, NEW pages, NEW o, NEW l \in d, NEW r \in d
    PROVE  ExecuteOp(Effect(SetFlags(o, l, r)), Run(b, u, c, m, p, vals, d), pages) =
           Run(b, u, c, m, [op |-> o, lhs |-> vals[l], rhs |-> vals[r]], vals, d)
<1> DEFINE op == SetFlags(o, l, r)
           s == Run(b, u, c, m, p, vals, d)
           p2 == [op |-> o, lhs |-> vals[l], rhs |-> vals[r]]
<1>1. \A use \in Operands(op) : use[1] \in d
  BY DEF Operands, SetFlags
<1>2. ~Faults(s, op, pages)
  BY DEF Faults, LoadOps, StoreOps, SetFlags
<1>3. s.values = vals
  BY DEF Run, EvalState
<1> HIDE DEF s
<1>4. Effects(s, op) = [s EXCEPT !.pending = p2]
  BY <1>3 DEF Effects, StoreOps, SetFlags
<1> HIDE DEF p2
<1>5. [s EXCEPT !.pending = p2] = Run(b, u, c, m, p2, vals, d)
  BY DEF s, Run, EvalState
<1> HIDE DEF op
<1>6. ExecuteOp(Effect(op), s, pages) = Effects(s, op)
  BY <1>1, <1>2, EffectOp DEF s
<1> QED
  BY <1>4, <1>5, <1>6 DEF op, s, p2

\* The floating-point and vector instructions are ops themselves.
LEMMA DataOp ==
    ASSUME NEW b, NEW u \in BOOLEAN, NEW c, NEW m, NEW p, NEW vals, NEW d, NEW pages, NEW op, op.k \in DataKinds
    PROVE  ExecuteOp(Effect(op), Run(b, u, c, m, p, vals, d), pages) =
           Run(b, u, ExecuteData(op, c), m, IF op.k = "FpCompare" THEN NoFlagSource ELSE p, vals, d)
<1> DEFINE s == Run(b, u, c, m, p, vals, d)
           c2 == ExecuteData(op, c)
<1>1. \A use \in Operands(op) : use[1] \in d
  BY DEF Operands, DataKinds
<1>2. ~Faults(s, op, pages)
  BY DEF Faults, LoadOps, StoreOps, DataKinds
<1>3. ExecuteOp(Effect(op), s, pages) = Effects(s, op)
  BY <1>1, <1>2, EffectOp
<1>4. s.cpu = c
  BY DEF Run, EvalState
<1>5. \A c3 : [s EXCEPT !.cpu = c3] = Run(b, u, c3, m, p, vals, d)
  BY DEF Run, EvalState
<1> HIDE DEF s
<1>7. CASE op.k = "Barrier"
  <2>1. Effects(s, op) = s /\ ExecuteData(op, c) = c
    BY <1>7 DEF Effects, StoreOps, ExecuteData
  <2> QED
    BY <1>3, <1>7, <2>1 DEF s
<1>8. CASE op.k \in {"FpMoveImmediate", "FpScalarBinary"}
  <2>1. Effects(s, op) = [s EXCEPT !.cpu = c2]
    BY <1>4, <1>8 DEF Effects, StoreOps
  <2> QED
    BY <1>3, <1>5, <1>8, <2>1 DEF s
<1>9. CASE op.k = "FpCompare"
  <2>1. Effects(s, op) = Compared(s, c2, NoFlagSource)
    BY <1>4, <1>9 DEF Compared, Effects, StoreOps
  <2> HIDE DEF c2
  <2>2. Compared(s, c2, NoFlagSource) = Run(b, u, c2, m, NoFlagSource, vals, d)
    BY TwoUpdates DEF s, Run
  <2> QED
    BY <1>3, <1>9, <2>1, <2>2 DEF s, c2
<1>10. CASE op.k = "VectorBinary"
  <2>1. Effects(s, op) = [s EXCEPT !.cpu = VectorEffect(c, op)]
    BY <1>4, <1>10 DEF Effects, StoreOps
  <2>2. VectorEffect(c, op) = ExecuteData(op, c)
    BY <1>10 DEF VectorEffect, ExecuteData
  <2> QED
    BY <1>3, <1>5, <1>10, <2>1, <2>2 DEF s
<1> QED
  BY <1>7, <1>8, <1>9, <1>10 DEF DataKinds

\* An exclusive load sets the monitor; an exclusive store clears it.
Marked(k, c, address, cells) ==
    IF k = "LoadExclusive" THEN [c EXCEPT !.monitor = [address |-> address, size |-> cells]] ELSE c
Holds(c, address, cells) == c.monitor = [address |-> address, size |-> cells]
Released(c) == [c EXCEPT !.monitor = NoMonitor]

\* A memory op that may not proceed faults.
LEMMA OpFaults ==
    ASSUME NEW b, NEW u \in BOOLEAN, NEW c, NEW m, NEW p, NEW vals, NEW d, NEW pages, NEW inst,
           \A use \in Operands(inst.op) : use[1] \in d, Faults(Run(b, u, c, m, p, vals, d), inst.op, pages)
    PROVE  ExecuteOp(inst, Run(b, u, c, m, p, vals, d), pages) = Faulted(b, u, c, m, p, vals, d)
<1> DEFINE s == Run(b, u, c, m, p, vals, d)
<1> HIDE DEF s
<1>1. ExecuteOp(inst, s, pages) =
                  IF Faults(s, inst.op, pages) THEN Faulted(b, u, c, m, p, vals, d)
                  ELSE IF inst.result = NoValue THEN Effects(s, inst.op)
                  ELSE Defining(Effects(s, inst.op), inst.result, Computed(s, inst.op))
  BY OpRuns DEF s
<1> QED
  BY <1>1 DEF s

LEMMA OpDefines ==
    ASSUME NEW b, NEW u \in BOOLEAN, NEW c, NEW m, NEW p, NEW vals, NEW d, NEW pages, NEW op, NEW n, n # NoValue,
           \A use \in Operands(op) : use[1] \in d, ~Faults(Run(b, u, c, m, p, vals, d), op, pages),
           NEW c2, NEW m2, Effects(Run(b, u, c, m, p, vals, d), op) = Run(b, u, c2, m2, p, vals, d)
    PROVE  ExecuteOp(Def(n, op), Run(b, u, c, m, p, vals, d), pages)
           = Run(b, u, c2, m2, p, [vals EXCEPT ![n] = Computed(Run(b, u, c, m, p, vals, d), op)], d \cup {n})
<1> DEFINE s == Run(b, u, c, m, p, vals, d)
           inst == Def(n, op)
           w == Computed(s, op)
<1>1. inst.op = op /\ inst.result = n
  BY DEF Def
<1> HIDE DEF s, inst
<1>2. ExecuteOp(inst, s, pages) =
                  IF Faults(s, inst.op, pages) THEN Faulted(b, u, c, m, p, vals, d)
                  ELSE IF inst.result = NoValue THEN Effects(s, inst.op)
                  ELSE Defining(Effects(s, inst.op), inst.result, Computed(s, inst.op))
  BY <1>1, OpRuns DEF s
<1>3. ExecuteOp(inst, s, pages) = Defining(Run(b, u, c2, m2, p, vals, d), n, w)
  BY <1>1, <1>2 DEF s
<1> HIDE DEF w
<1>4. Defining(Run(b, u, c2, m2, p, vals, d), n, w) = Run(b, u, c2, m2, p, [vals EXCEPT ![n] = w], d \cup {n})
  BY StateDefines DEF Run
<1> QED
  BY <1>3, <1>4 DEF s, inst, w

\* A load that may proceed.
Loaded(b, u, c, m, p, vals, d, n, k, ty, a) ==
    Run(b, u, Marked(k, c, vals[a], TypeCells(ty)), m, p,
        [vals EXCEPT ![n] = ReadMem(m, vals[a], TypeCells(ty))], d \cup {n})
LEMMA LoadRuns ==
    ASSUME NEW b, NEW u \in BOOLEAN, NEW c, NEW m, NEW p, NEW vals, NEW d, NEW pages, NEW n, n # NoValue,
           NEW k, k \in LoadOps, NEW ty, NEW a, a \in d, CanRead(pages, vals[a], TypeCells(ty))
    PROVE  ExecuteOp(Def(n, LoadFrom(k, ty, a)), Run(b, u, c, m, p, vals, d), pages)
           = Loaded(b, u, c, m, p, vals, d, n, k, ty, a)
<1> DEFINE address == vals[a]
           cells == TypeCells(ty)
           c2 == Marked(k, c, address, cells)
           w == ReadMem(m, address, cells)
           op == LoadFrom(k, ty, a)
           s == Run(b, u, c, m, p, vals, d)
<1>0. op.k = k /\ op.ty = ty /\ op.address = a
  BY DEF LoadFrom
<1>1. \A use \in Operands(op) : use[1] \in d
  BY DEF LoadFrom, Operands, LoadOps
<1>2. s.values = vals /\ s.mem = m /\ s.cpu = c
  BY DEF Run, EvalState
<1> HIDE DEF s, op, address, cells
<1>3. ~Faults(s, op, pages)
  BY <1>0, <1>2 DEF Faults, LoadOps, StoreOps, address, cells
<1>4. Computed(s, op) = w
  BY <1>0, <1>2 DEF Computed, LoadOps, address, cells
<1>5. Effects(s, op) = Run(b, u, c2, m, p, vals, d)
  <2>1. CASE k = "LoadExclusive"
    <3>1. Effects(s, op) = [s EXCEPT !.cpu = c2]
      BY <1>0, <1>2, <2>1 DEF Effects, StoreOps, Marked, address, cells
    <3>2. [s EXCEPT !.cpu = c2] = Run(b, u, c2, m, p, vals, d)
      BY DEF s, Run, EvalState
    <3> QED
      BY <3>1, <3>2
  <2>2. CASE k # "LoadExclusive"
    <3>1. Effects(s, op) = s
      BY <1>0, <2>2 DEF Effects, StoreOps, LoadOps
    <3> QED
      BY <2>2, <3>1 DEF Marked, s
  <2> QED
    BY <2>1, <2>2
<1> HIDE DEF c2, w
<1>6. ExecuteOp(Def(n, op), s, pages) = Run(b, u, c2, m, p, [vals EXCEPT ![n] = Computed(s, op)], d \cup {n})
  BY <1>1, <1>3, <1>5, OpDefines DEF s
<1> QED
  BY <1>4, <1>6 DEF s, op, c2, w, address, cells, Loaded

LEMMA LoadFaults ==
    ASSUME NEW b, NEW u \in BOOLEAN, NEW c, NEW m, NEW p, NEW vals, NEW d, NEW pages, NEW n,
           NEW k, k \in LoadOps, NEW ty, NEW a \in d, NEW address, vals[a] = address, NEW cells, TypeCells(ty) = cells,
           ~CanRead(pages, address, cells)
    PROVE  ExecuteOp(Def(n, LoadFrom(k, ty, a)), Run(b, u, c, m, p, vals, d), pages) = Faulted(b, u, c, m, p, vals, d)
<1> DEFINE op == LoadFrom(k, ty, a)
           s == Run(b, u, c, m, p, vals, d)
           inst == Def(n, op)
<1>0. op.k = k /\ op.ty = ty /\ op.address = a
  BY DEF LoadFrom
<1>1. \A use \in Operands(op) : use[1] \in d
  BY DEF LoadFrom, Operands, LoadOps
<1>2. s.values = vals
  BY DEF Run, EvalState
<1> HIDE DEF s, op
<1>3. Faults(s, op, pages)
  BY <1>0, <1>2 DEF Faults
<1>4. inst.op = op
  BY DEF Def
<1> HIDE DEF inst
<1>5. ExecuteOp(inst, s, pages) = Faulted(b, u, c, m, p, vals, d)
  BY <1>1, <1>3, <1>4, OpFaults DEF s
<1> QED
  BY <1>5 DEF s, op, inst

\* A store that may proceed.
StoredTo(b, u, c, m, p, vals, d, ty, a, v) == Run(b, u, c, WriteMem(m, vals[a], TypeCells(ty), vals[v]), p, vals, d)
LEMMA StoreRuns ==
    ASSUME NEW b, NEW u \in BOOLEAN, NEW c, NEW m, NEW p, NEW vals, NEW d, NEW pages,
           NEW k, k \in StoreOps, NEW ty, NEW a, a \in d, NEW v, v \in d, CanWrite(pages, vals[a], TypeCells(ty))
    PROVE  ExecuteOp(Effect(StoreAt(k, ty, a, v)), Run(b, u, c, m, p, vals, d), pages)
           = StoredTo(b, u, c, m, p, vals, d, ty, a, v)
<1> DEFINE address == vals[a]
           cells == TypeCells(ty)
           w == vals[v]
           op == StoreAt(k, ty, a, v)
           s == Run(b, u, c, m, p, vals, d)
           m2 == WriteMem(m, address, cells, w)
<1>0. op.k = k /\ op.ty = ty /\ op.address = a /\ op.value = v
  BY DEF StoreAt
<1>1. \A use \in Operands(op) : use[1] \in d
  BY DEF StoreAt, Operands, StoreOps
<1>2. s.values = vals /\ s.mem = m
  BY DEF Run, EvalState
<1> HIDE DEF s, op, address, cells, w
<1>3. ~Faults(s, op, pages)
  BY <1>0, <1>2 DEF Faults, LoadOps, StoreOps, address, cells
<1>4. Effects(s, op) = [s EXCEPT !.mem = m2]
  BY <1>0, <1>2 DEF Effects, StoreTo, StoreOps, address, cells, w
<1> HIDE DEF m2
<1>5. [s EXCEPT !.mem = m2] = Run(b, u, c, m2, p, vals, d)
  BY DEF s, Run, EvalState
<1>6. ExecuteOp(Effect(op), s, pages) = Effects(s, op)
  BY <1>1, <1>3, EffectOp DEF s
<1> QED
  BY <1>4, <1>5, <1>6 DEF s, op, m2, address, cells, w, StoredTo

LEMMA StoreFaults ==
    ASSUME NEW b, NEW u \in BOOLEAN, NEW c, NEW m, NEW p, NEW vals, NEW d, NEW pages,
           NEW k, k \in StoreOps, NEW ty, NEW a \in d, NEW address, vals[a] = address, NEW cells, TypeCells(ty) = cells,
           NEW v \in d, ~CanWrite(pages, address, cells)
    PROVE  ExecuteOp(Effect(StoreAt(k, ty, a, v)), Run(b, u, c, m, p, vals, d), pages) = Faulted(b, u, c, m, p, vals, d)
<1> DEFINE op == StoreAt(k, ty, a, v)
           s == Run(b, u, c, m, p, vals, d)
           inst == Effect(op)
<1>0. op.k = k /\ op.ty = ty /\ op.address = a
  BY DEF StoreAt
<1>1. \A use \in Operands(op) : use[1] \in d
  BY DEF StoreAt, Operands, StoreOps
<1>2. s.values = vals
  BY DEF Run, EvalState
<1> HIDE DEF s, op
<1>3. Faults(s, op, pages)
  BY <1>0, <1>2 DEF Faults
<1>4. inst.op = op
  BY DEF Effect
<1> HIDE DEF inst
<1>5. ExecuteOp(inst, s, pages) = Faulted(b, u, c, m, p, vals, d)
  BY <1>1, <1>3, <1>4, OpFaults DEF s
<1> QED
  BY <1>5 DEF s, op, inst

\* An exclusive store fails unless the monitor holds its address.
ExclusiveAt(ty, a, v) == StoreAt("StoreExclusive", ty, a, v)
Tried(b, u, c, m, p, vals, d, n, ty, a, v) ==
    Run(b, u, Released(c),
        IF Holds(c, vals[a], TypeCells(ty)) THEN WriteMem(m, vals[a], TypeCells(ty), vals[v]) ELSE m, p,
        [vals EXCEPT ![n] = IF Holds(c, vals[a], TypeCells(ty)) THEN 0 ELSE 1], d \cup {n})
LEMMA ExclusiveRuns ==
    ASSUME NEW b, NEW u \in BOOLEAN, NEW c, NEW m, NEW p, NEW vals, NEW d, NEW pages, NEW n, n # NoValue,
           NEW ty, NEW a, a \in d, NEW v, v \in d,
           Holds(c, vals[a], TypeCells(ty)) => CanWrite(pages, vals[a], TypeCells(ty))
    PROVE  ExecuteOp(Def(n, ExclusiveAt(ty, a, v)), Run(b, u, c, m, p, vals, d), pages)
           = Tried(b, u, c, m, p, vals, d, n, ty, a, v)
<1> DEFINE address == vals[a]
           cells == TypeCells(ty)
           w == vals[v]
           held == Holds(c, address, cells)
           op == ExclusiveAt(ty, a, v)
           s == Run(b, u, c, m, p, vals, d)
           c2 == Released(c)
           m2 == IF held THEN WriteMem(m, address, cells, w) ELSE m
           failed == IF held THEN 0 ELSE 1
<1>0. op.k = "StoreExclusive" /\ op.ty = ty /\ op.address = a /\ op.value = v
  BY DEF StoreAt, ExclusiveAt
<1>1. \A use \in Operands(op) : use[1] \in d
  BY DEF StoreAt, ExclusiveAt, Operands, LoadOps
<1>2. s.values = vals /\ s.mem = m /\ s.cpu = c
  BY DEF Run, EvalState
<1> HIDE DEF s, op, address, cells, w
<1>3. Held(s, op) <=> held
  BY <1>0, <1>2 DEF Held, Holds, address, cells
<1>4. ~Faults(s, op, pages)
  BY <1>0, <1>2, <1>3 DEF Faults, LoadOps, StoreOps, address, cells
<1>5. Computed(s, op) = failed
  BY <1>0, <1>3 DEF Computed, LoadOps
<1>6. Effects(s, op) = Stored(s, c2, m2)
  <2>1. StoreTo(s, op) = WriteMem(m, address, cells, w)
    BY <1>0, <1>2 DEF StoreTo, address, cells, w
  <2> QED
    BY <1>0, <1>2, <1>3, <2>1 DEF Effects, LoadOps, StoreOps, Stored, Released
<1> HIDE DEF c2, m2, failed
<1>7. Stored(s, c2, m2) = Run(b, u, c2, m2, p, vals, d)
  BY TwoUpdates DEF s, Run
<1>8. ExecuteOp(Def(n, op), s, pages) = Run(b, u, c2, m2, p, [vals EXCEPT ![n] = Computed(s, op)], d \cup {n})
  BY <1>1, <1>4, <1>6, <1>7, OpDefines DEF s
<1> QED
  BY <1>5, <1>8 DEF s, op, c2, m2, failed, address, cells, w, Tried

LEMMA ExclusiveFaults ==
    ASSUME NEW b, NEW u \in BOOLEAN, NEW c, NEW m, NEW p, NEW vals, NEW d, NEW pages, NEW n,
           NEW ty, NEW a \in d, NEW address, vals[a] = address, NEW cells, TypeCells(ty) = cells,
           NEW v \in d, Holds(c, address, cells), ~CanWrite(pages, address, cells)
    PROVE  ExecuteOp(Def(n, ExclusiveAt(ty, a, v)), Run(b, u, c, m, p, vals, d), pages) = Faulted(b, u, c, m, p, vals, d)
<1> DEFINE op == ExclusiveAt(ty, a, v)
           s == Run(b, u, c, m, p, vals, d)
           inst == Def(n, op)
<1>0. op.k = "StoreExclusive" /\ op.ty = ty /\ op.address = a
  BY DEF StoreAt, ExclusiveAt
<1>1. \A use \in Operands(op) : use[1] \in d
  BY DEF StoreAt, ExclusiveAt, Operands, LoadOps
<1>2. s.values = vals /\ s.cpu = c
  BY DEF Run, EvalState
<1> HIDE DEF s, op
<1>3. Faults(s, op, pages)
  BY <1>0, <1>2 DEF Faults, Held, Holds
<1>4. inst.op = op
  BY DEF Def
<1> HIDE DEF inst
<1>5. ExecuteOp(inst, s, pages) = Faulted(b, u, c, m, p, vals, d)
  BY <1>1, <1>3, <1>4, OpFaults DEF s
<1> QED
  BY <1>5 DEF s, op, inst

-----------------------------------------------------------------------------
(* Cpus: the interpreter's, and the evaluator's with its lazy flags.       *)

\* A cpu of words, and one like it but for the flags and the pc.
CpuFields == {"x", "sp", "pc", "nzcv", "v", "monitor", "halted"}
CpuOk(cpu) ==
    /\ cpu = [f \in CpuFields |-> cpu[f]]
    /\ cpu.x \in [DOMAIN cpu.x -> Words] /\ DOMAIN cpu.x \subseteq 0 .. 30 /\ cpu.sp \in Words
    /\ cpu.pc \in Nat
With(cpu, f, at) == [cpu EXCEPT !.nzcv = f, !.pc = at]

\* With changes nothing else.
LEMMA WithFields ==
    ASSUME NEW cpu, CpuOk(cpu), NEW f, NEW at
    PROVE  /\ With(cpu, f, at) = [y \in CpuFields |-> With(cpu, f, at)[y]]
           /\ With(cpu, f, at).nzcv = f /\ With(cpu, f, at).pc = at
           /\ With(cpu, f, at).x = cpu.x /\ With(cpu, f, at).sp = cpu.sp /\ With(cpu, f, at).v = cpu.v
           /\ With(cpu, f, at).monitor = cpu.monitor /\ With(cpu, f, at).halted = cpu.halted
  BY DEF CpuOk, With, CpuFields

LEMMA WithReads ==
    ASSUME NEW cpu, CpuOk(cpu), NEW f, NEW at, NEW r \in GuestReg
    PROVE  /\ ReadReg(With(cpu, f, at), SpReg(r)) = GpOrSp(cpu, r)
           /\ ReadReg(With(cpu, f, at), r) = X(cpu, r)
           /\ GpOrSp(cpu, r) \in Words /\ X(cpu, r) \in Words
<1> DEFINE c == With(cpu, f, at)
<1>1. c.x = cpu.x /\ c.sp = cpu.sp
  BY WithFields
<1>2. DOMAIN cpu.x \subseteq 0 .. 30 /\ cpu.sp \in Words
  BY DEF CpuOk
<1>3. \A y \in DOMAIN cpu.x : cpu.x[y] \in Words
  BY DEF CpuOk
<1>4. 0 \in Words
  BY HalfAssumption DEF Words
<1> HIDE DEF c
<1> QED
  BY <1>1, <1>2, <1>3, <1>4 DEF GuestReg, ReadReg, SpReg, SpRegister, GpOrSp, X, c

\* cpu2 is cpu with other registers, vectors or monitor.
Moved(cpu, cpu2) ==
    CpuOk(cpu2) /\ cpu2.nzcv = cpu.nzcv /\ cpu2.pc = cpu.pc /\ cpu2.halted = cpu.halted

\* The updates of a cpu, on a cpu with other flags.
LEMMA WithX ==
    ASSUME NEW cpu, CpuOk(cpu), NEW f, NEW at, NEW r \in GuestReg, NEW w \in Words
    PROVE  /\ WriteReg(With(cpu, f, at), r, w) = With(SetX(cpu, r, w), f, at)
           /\ Moved(cpu, SetX(cpu, r, w))
<1> DEFINE c == With(cpu, f, at)
           x2 == [cpu.x EXCEPT ![r] = w]
<1>1. c = [y \in CpuFields |-> c[y]] /\ c.x = cpu.x /\ c.nzcv = f /\ c.pc = at /\ c.sp = cpu.sp /\ c.v = cpu.v
      /\ c.monitor = cpu.monitor /\ c.halted = cpu.halted
  BY WithFields
<1>2. cpu = [y \in CpuFields |-> cpu[y]] /\ DOMAIN cpu.x \subseteq 0 .. 30
  BY DEF CpuOk
<1>3. r # SpRegister
  BY DEF GuestReg, SpRegister
<1>4. CASE r \notin DOMAIN cpu.x
  <2>1. WriteReg(c, r, w) = c /\ SetX(cpu, r, w) = cpu
    <3> HIDE DEF c
    <3> QED
      BY <1>1, <1>3, <1>4 DEF WriteReg, SetX
  <2> QED
    BY <2>1 DEF Moved
<1>5. CASE r \in DOMAIN cpu.x
  <2> DEFINE c2 == [c EXCEPT !.x = x2]
             cpu2 == [cpu EXCEPT !.x = x2]
  <2>1. WriteReg(c, r, w) = c2 /\ SetX(cpu, r, w) = cpu2
    <3> HIDE DEF c
    <3> QED
      BY <1>1, <1>3, <1>5 DEF WriteReg, SetX
  <2>2. x2 \in [DOMAIN cpu.x -> Words] /\ DOMAIN x2 = DOMAIN cpu.x
    BY DEF CpuOk
  <2> HIDE DEF x2
  <2>3. cpu2 = [y \in CpuFields |-> cpu2[y]] /\ cpu2.x = x2 /\ \A y \in CpuFields \ {"x"} : cpu2[y] = cpu[y]
    BY <1>2 DEF CpuFields
  <2>4. Moved(cpu, cpu2)
    <3> HIDE DEF cpu2
    <3> QED
      BY <2>2, <2>3 DEF Moved, CpuOk, CpuFields
  <2>5. With(cpu2, f, at) = c2
    <3> DEFINE c3 == With(cpu2, f, at)
    <3>1. c3 = [y \in CpuFields |-> c3[y]] /\ c3.nzcv = f /\ c3.pc = at /\ c3.x = cpu2.x /\ c3.sp = cpu2.sp
          /\ c3.v = cpu2.v /\ c3.monitor = cpu2.monitor /\ c3.halted = cpu2.halted
      <4> HIDE DEF cpu2
      <4> QED
        BY <2>4, WithFields DEF Moved
    <3> HIDE DEF c
    <3>2. c2 = [y \in CpuFields |-> c2[y]] /\ c2.x = x2 /\ \A y \in CpuFields \ {"x"} : c2[y] = c[y]
      BY <1>1 DEF CpuFields
    <3> HIDE DEF c2, c3, cpu2
    <3>3. \A y \in CpuFields : c2[y] = c3[y]
      BY <1>1, <2>3, <3>1, <3>2 DEF CpuFields
    <3> QED
      BY <3>1, <3>2, <3>3 DEF c3
  <2> QED
    BY <2>1, <2>4, <2>5
<1> QED
  BY <1>4, <1>5

\* An update of a field other than the flags and the pc, on a cpu with other flags.
MovedFields == {"sp", "v", "monitor"}
Updated(cpu, field, z) == [cpu EXCEPT ![field] = z]
LEMMA WithUpdate ==
    ASSUME NEW cpu, CpuOk(cpu), NEW f, NEW at, NEW z, NEW field, field \in MovedFields, field = "sp" => z \in Words
    PROVE  /\ Updated(With(cpu, f, at), field, z) = With(Updated(cpu, field, z), f, at)
           /\ Moved(cpu, Updated(cpu, field, z))
<1> DEFINE c == With(cpu, f, at)
           c2 == [c EXCEPT ![field] = z]
           cpu2 == [cpu EXCEPT ![field] = z]
           c3 == With(cpu2, f, at)
<1>1. c = [y \in CpuFields |-> c[y]] /\ c.x = cpu.x /\ c.nzcv = f /\ c.pc = at /\ c.sp = cpu.sp /\ c.v = cpu.v
      /\ c.monitor = cpu.monitor /\ c.halted = cpu.halted
  BY WithFields
<1>2. cpu2 = [y \in CpuFields |-> cpu2[y]] /\ cpu2[field] = z /\ \A y \in CpuFields \ {field} : cpu2[y] = cpu[y]
  BY DEF CpuFields, CpuOk, MovedFields
<1>3. Moved(cpu, cpu2)
  <2> HIDE DEF cpu2
  <2> QED
    BY <1>2 DEF Moved, CpuOk, CpuFields, MovedFields
<1>4. c3 = [y \in CpuFields |-> c3[y]] /\ c3.nzcv = f /\ c3.pc = at /\ c3.x = cpu2.x /\ c3.sp = cpu2.sp
          /\ c3.v = cpu2.v /\ c3.monitor = cpu2.monitor /\ c3.halted = cpu2.halted
  <2> HIDE DEF cpu2
  <2> QED
    BY <1>3, WithFields DEF Moved
<1> HIDE DEF c
<1>5. c2 = [y \in CpuFields |-> c2[y]] /\ c2[field] = z /\ \A y \in CpuFields \ {field} : c2[y] = c[y]
  BY <1>1 DEF CpuFields, MovedFields
<1> HIDE DEF c2, c3, cpu2
<1>6. ASSUME NEW y \in CpuFields PROVE c2[y] = c3[y]
  <2>1. y \in {"x", "sp", "v", "monitor", "halted"} => c3[y] = cpu2[y] /\ c[y] = cpu[y]
    BY <1>1, <1>4
  <2>2. y \in {"nzcv", "pc"} => c3[y] = c[y] /\ y # field
    BY <1>1, <1>4 DEF MovedFields
  <2> QED
    BY <1>2, <1>5, <2>1, <2>2 DEF CpuFields
<1>7. c2 = c3
  BY <1>4, <1>5, <1>6
<1> QED
  BY <1>3, <1>7 DEF c, c2, c3, cpu2, Updated

LEMMA WithGpOrSp ==
    ASSUME NEW cpu, CpuOk(cpu), NEW f, NEW at, NEW r \in GuestReg, NEW w \in Words
    PROVE  /\ WriteReg(With(cpu, f, at), SpReg(r), w) = With(SetGpOrSp(cpu, r, w), f, at)
           /\ Moved(cpu, SetGpOrSp(cpu, r, w))
<1>1. CASE r = 31
  <2>1. /\ Updated(With(cpu, f, at), "sp", w) = With(Updated(cpu, "sp", w), f, at)
        /\ Moved(cpu, Updated(cpu, "sp", w))
    BY WithUpdate DEF MovedFields
  <2> QED
    BY <1>1, <2>1 DEF Updated, SpReg, SpRegister, WriteReg, SetGpOrSp
<1>2. CASE r # 31
  BY <1>2, WithX DEF SpReg, SetGpOrSp
<1> QED
  BY <1>1, <1>2

LEMMA WithMonitor ==
    ASSUME NEW cpu, CpuOk(cpu), NEW f, NEW at, NEW k, NEW address, NEW cells
    PROVE  /\ Marked(k, With(cpu, f, at), address, cells) = With(Marked(k, cpu, address, cells), f, at)
           /\ Moved(cpu, Marked(k, cpu, address, cells))
           /\ Released(With(cpu, f, at)) = With(Released(cpu), f, at)
           /\ Moved(cpu, Released(cpu))
           /\ Holds(With(cpu, f, at), address, cells) = Holds(cpu, address, cells)
<1>1. \A z : [With(cpu, f, at) EXCEPT !.monitor = z] = With([cpu EXCEPT !.monitor = z], f, at)
  <2> TAKE z
  <2>1. Updated(With(cpu, f, at), "monitor", z) = With(Updated(cpu, "monitor", z), f, at)
    BY WithUpdate DEF MovedFields
  <2> QED
    BY <2>1 DEF Updated
<1>2. \A z : Moved(cpu, [cpu EXCEPT !.monitor = z])
  <2> TAKE z
  <2>1. Moved(cpu, Updated(cpu, "monitor", z))
    BY WithUpdate DEF MovedFields
  <2> QED
    BY <2>1 DEF Updated
<1>3. With(cpu, f, at).monitor = cpu.monitor
  BY WithFields
<1>4. Moved(cpu, cpu)
  BY DEF Moved
<1> QED
  BY <1>1, <1>2, <1>3, <1>4 DEF Marked, Released, Holds

\* The vector instructions.
LEMMA WithVector ==
    ASSUME NEW cpu, CpuOk(cpu), NEW f, NEW at,
           NEW i, i.k \in {"FpMoveImmediate", "FpScalarBinary", "VectorBinary"}
    PROVE  /\ ExecuteData(i, With(cpu, f, at)) = With(ExecuteData(i, cpu), f, at)
           /\ Moved(cpu, ExecuteData(i, cpu))
<1> DEFINE c == With(cpu, f, at)
           z == CASE i.k = "FpMoveImmediate" -> <<i.imm, 0>>
                  [] i.k = "FpScalarBinary" -> <<FpOp(i.op, cpu.v[i.rn][1], cpu.v[i.rm][1]), 0>>
                  [] i.k = "VectorBinary" -> [n \in 1 .. 2 |-> VectorOp(i.op, cpu.v[i.rn][n], cpu.v[i.rm][n])]
           v2 == [cpu.v EXCEPT ![i.rd] = z]
<1>1. c.v = cpu.v
  BY WithFields
<1>2. ExecuteData(i, cpu) = [cpu EXCEPT !.v = v2]
  BY DEF ExecuteData, SetVector, ScalarF64
<1>3. ExecuteData(i, c) = [c EXCEPT !.v = v2]
  <2> HIDE DEF c
  <2> QED
    BY <1>1 DEF ExecuteData, SetVector, ScalarF64
<1> HIDE DEF v2
<1>4. Updated(c, "v", v2) = With(Updated(cpu, "v", v2), f, at) /\ Moved(cpu, Updated(cpu, "v", v2))
  BY WithUpdate DEF MovedFields
<1> QED
  BY <1>2, <1>3, <1>4 DEF Updated

-----------------------------------------------------------------------------
(* What a short list of ops does: addresses, loads and stores.             *)

\* s is a state with these registers, memory and flag source, and values for ids.
EndsIn(s, b, u, status, c, m, p, ids) ==
    \E vals, d : DOMAIN vals = ids /\ s = EvalState(b, u, status, c, m, p, vals, d)

LEMMA WordResults ==
    ASSUME NEW l \in Words, NEW r \in Words
    PROVE  WrapAdd(l, r) \in Words /\ WrapSub(l, r) \in Words
  BY HalfAssumption DEF Words, WrapAdd, WrapSub

LEMMA MovZRuns ==
    ASSUME NEW b, NEW u \in BOOLEAN, NEW cpu, CpuOk(cpu), NEW f, NEW at, NEW m, NEW p, NEW vals, NEW d, NEW pages,
           NEW i, i.k = "MovZ", i.rd \in GuestReg, i.imm \in Words, NEW n \in Nat, n \in DOMAIN vals
    PROVE  /\ EndsIn(ExecuteOps(LiftData(i, n), Run(b, u, With(cpu, f, at), m, p, vals, d), pages),
                   b, u, "running", With(ExecuteData(i, cpu), f, at), m, p, DOMAIN vals)
           /\ Moved(cpu, ExecuteData(i, cpu))
<1> DEFINE c == With(cpu, f, at)
           s == Run(b, u, c, m, p, vals, d)
           w == i.imm
           r == i.rd
           v1 == [vals EXCEPT ![n] = w]
           d1 == d \cup {n}
           o1 == Def(n, ConstOp(w))
           o2 == Effect(SetReg(r, n))
<1>1. LiftData(i, n) = <<o1, o2>>
  BY DEF LiftData, Loads, Jumps
<1>2. ExecuteData(i, cpu) = SetX(cpu, r, w)
  BY DEF ExecuteData
<1>3. n # NoValue /\ n \in d1 /\ v1[n] = w /\ DOMAIN v1 = DOMAIN vals
  BY DEF NoValue
<1>4. r \in GuestReg /\ w \in Words
  OBVIOUS
<1> HIDE DEF w, r
<1>5. WriteReg(c, r, w) = With(SetX(cpu, r, w), f, at) /\ Moved(cpu, SetX(cpu, r, w))
  BY <1>4, WithX
<1> HIDE DEF c
<1>6. ExecuteOp(o1, s, pages) = Run(b, u, c, m, p, v1, d1)
  BY <1>3, ConstDefines
<1> HIDE DEF v1, d1
<1>7. ExecuteOp(o2, Run(b, u, c, m, p, v1, d1), pages) = Run(b, u, WriteReg(c, r, v1[n]), m, p, v1, d1)
  BY <1>3, SetRegOp
<1> HIDE DEF o1, o2, s
<1>8. ExecuteOps(<<o1, o2>>, s, pages) = Run(b, u, WriteReg(c, r, w), m, p, v1, d1)
  BY <1>3, <1>6, <1>7, TwoOps
<1>9. EndsIn(ExecuteOps(<<o1, o2>>, s, pages), b, u, "running", With(SetX(cpu, r, w), f, at), m, p, DOMAIN vals)
  BY <1>3, <1>5, <1>8 DEF EndsIn, Run
<1> QED
  BY <1>1, <1>2, <1>5, <1>9 DEF s, c

LEMMA AddSubRuns ==
    ASSUME NEW b, NEW u \in BOOLEAN, NEW cpu, CpuOk(cpu), NEW f, NEW at, NEW m, NEW p, NEW vals, NEW d, NEW pages,
           NEW i, i.k \in {"AddImmediate", "SubImmediate"}, i.rd \in GuestReg, i.rn \in GuestReg, i.imm \in Words,
           NEW n \in Nat, {n, n + 1, n + 2} \subseteq DOMAIN vals
    PROVE  /\ EndsIn(ExecuteOps(LiftData(i, n), Run(b, u, With(cpu, f, at), m, p, vals, d), pages),
                   b, u, "running", With(ExecuteData(i, cpu), f, at), m, p, DOMAIN vals)
           /\ Moved(cpu, ExecuteData(i, cpu))
<1> DEFINE c == With(cpu, f, at)
           s == Run(b, u, c, m, p, vals, d)
           x == n + 1
           y == n + 2
           r == i.rd
           op == AddSub[i.k]
           lhs == GpOrSp(cpu, i.rn)
           imm == i.imm
           w == WordOp(op, lhs, imm)
           v1 == [vals EXCEPT ![n] = ReadReg(c, SpReg(i.rn))]
           v2 == [v1 EXCEPT ![x] = imm]
           v3 == [v2 EXCEPT ![y] = w]
           d1 == d \cup {n}
           d2 == d1 \cup {x}
           d3 == d2 \cup {y}
           o1 == Def(n, GetReg(SpReg(i.rn)))
           o2 == Def(x, ConstOp(imm))
           o3 == Def(y, BinaryI64(op, n, x))
           o4 == Effect(SetReg(SpReg(r), y))
<1>1. LiftData(i, n) = <<o1, o2, o3, o4>>
  BY DEF LiftData, LiftAddSub, Loads, Jumps
<1>2. op = IF i.k = "AddImmediate" THEN "Add" ELSE "Sub"
  BY DEF AddSub
<1>3. ReadReg(c, SpReg(i.rn)) = lhs /\ lhs \in Words
  BY WithReads
<1>4. w \in Words
  BY <1>2, <1>3, WordResults DEF WordOp
<1>5. ExecuteData(i, cpu) = SetGpOrSp(cpu, r, w)
  BY <1>2 DEF ExecuteData, WordOp
<1>6. /\ n # NoValue /\ x # NoValue /\ y # NoValue /\ n \in d2 /\ x \in d2 /\ y \in d3
      /\ v3[y] = w /\ DOMAIN v3 = DOMAIN vals /\ w = WordOp(op, v2[n], v2[x])
  BY <1>3 DEF NoValue
<1> HIDE DEF w, op, lhs, imm, x, y, v1, v2, v3, d1, d2, d3
<1>7. WriteReg(c, SpReg(r), w) = With(SetGpOrSp(cpu, r, w), f, at) /\ Moved(cpu, SetGpOrSp(cpu, r, w))
  BY <1>4, WithGpOrSp
<1> HIDE DEF c, r
<1>8. ExecuteOp(o1, s, pages) = Run(b, u, c, m, p, v1, d1)
  BY <1>6, RegDefines DEF v1, d1
<1>9. ExecuteOp(o2, Run(b, u, c, m, p, v1, d1), pages) = Run(b, u, c, m, p, v2, d2)
  BY <1>6, ConstDefines DEF v2, d2
<1>10. ExecuteOp(o3, Run(b, u, c, m, p, v2, d2), pages) = Run(b, u, c, m, p, v3, d3)
  <2>1. ExecuteOp(o3, Run(b, u, c, m, p, v2, d2), pages)
        = Run(b, u, c, m, p, [v2 EXCEPT ![y] = w], d2 \cup {y})
    BY <1>6, BinaryDefines
  <2> QED
    BY <2>1 DEF v3, d3
<1>11. ExecuteOp(o4, Run(b, u, c, m, p, v3, d3), pages) = Run(b, u, WriteReg(c, SpReg(r), v3[y]), m, p, v3, d3)
  BY <1>6, SetRegOp
<1> HIDE DEF o1, o2, o3, o4, s
<1>12. ExecuteOps(<<o1, o2, o3, o4>>, s, pages) = Run(b, u, WriteReg(c, SpReg(r), w), m, p, v3, d3)
  BY <1>6, <1>8, <1>9, <1>10, <1>11, FourOps
<1>13. EndsIn(ExecuteOps(<<o1, o2, o3, o4>>, s, pages), b, u, "running", With(SetGpOrSp(cpu, r, w), f, at), m, p, DOMAIN vals)
  BY <1>6, <1>7, <1>12 DEF EndsIn, Run
<1> QED
  BY <1>1, <1>5, <1>7, <1>13 DEF s, c

LEMMA LogicalRuns ==
    ASSUME NEW b, NEW u \in BOOLEAN, NEW cpu, CpuOk(cpu), NEW f, NEW at, NEW m, NEW p, NEW vals, NEW d, NEW pages,
           NEW i, i.k = "LogicalReg", i.op \notin {"Add", "Sub"},
           i.rd \in GuestReg, i.rn \in GuestReg, i.rm \in GuestReg,
           Logical(i.op, X(cpu, i.rn), X(cpu, i.rm)) \in Words,
           NEW n \in Nat, {n, n + 1, n + 2} \subseteq DOMAIN vals
    PROVE  /\ EndsIn(ExecuteOps(LiftData(i, n), Run(b, u, With(cpu, f, at), m, p, vals, d), pages),
                   b, u, "running", With(ExecuteData(i, cpu), f, at), m, p, DOMAIN vals)
           /\ Moved(cpu, ExecuteData(i, cpu))
<1> DEFINE c == With(cpu, f, at)
           s == Run(b, u, c, m, p, vals, d)
           x == n + 1
           y == n + 2
           r == i.rd
           op == i.op
           w == Logical(op, X(cpu, i.rn), X(cpu, i.rm))
           v1 == [vals EXCEPT ![n] = ReadReg(c, i.rn)]
           v2 == [v1 EXCEPT ![x] = ReadReg(c, i.rm)]
           v3 == [v2 EXCEPT ![y] = w]
           d1 == d \cup {n}
           d2 == d1 \cup {x}
           d3 == d2 \cup {y}
           o1 == Def(n, GetReg(i.rn))
           o2 == Def(x, GetReg(i.rm))
           o3 == Def(y, BinaryI64(op, n, x))
           o4 == Effect(SetReg(r, y))
<1>1. LiftData(i, n) = <<o1, o2, o3, o4>>
  BY DEF LiftData, Loads, Jumps
<1>2. ReadReg(c, i.rn) = X(cpu, i.rn) /\ ReadReg(c, i.rm) = X(cpu, i.rm)
  BY WithReads
<1>3. ExecuteData(i, cpu) = SetX(cpu, r, w)
  BY DEF ExecuteData
<1>4. WordOp(op, X(cpu, i.rn), X(cpu, i.rm)) = w /\ w \in Words
  BY DEF WordOp
<1>5. /\ n # NoValue /\ x # NoValue /\ y # NoValue /\ n \in d2 /\ x \in d2 /\ y \in d3
      /\ v3[y] = w /\ DOMAIN v3 = DOMAIN vals /\ w = WordOp(op, v2[n], v2[x])
  <2> HIDE DEF op, w, c
  <2> QED
    BY <1>2, <1>4 DEF NoValue
<1> HIDE DEF w, op, x, y, v1, v2, v3, d1, d2, d3
<1>6. WriteReg(c, r, w) = With(SetX(cpu, r, w), f, at) /\ Moved(cpu, SetX(cpu, r, w))
  BY <1>4, WithX
<1> HIDE DEF c, r
<1>7. ExecuteOp(o1, s, pages) = Run(b, u, c, m, p, v1, d1)
  BY <1>5, RegDefines DEF v1, d1
<1>8. ExecuteOp(o2, Run(b, u, c, m, p, v1, d1), pages) = Run(b, u, c, m, p, v2, d2)
  BY <1>5, RegDefines DEF v2, d2
<1>9. ExecuteOp(o3, Run(b, u, c, m, p, v2, d2), pages) = Run(b, u, c, m, p, v3, d3)
  <2>1. ExecuteOp(o3, Run(b, u, c, m, p, v2, d2), pages)
        = Run(b, u, c, m, p, [v2 EXCEPT ![y] = w], d2 \cup {y})
    BY <1>5, BinaryDefines
  <2> QED
    BY <2>1 DEF v3, d3
<1>10. ExecuteOp(o4, Run(b, u, c, m, p, v3, d3), pages) = Run(b, u, WriteReg(c, r, v3[y]), m, p, v3, d3)
  BY <1>5, SetRegOp
<1> HIDE DEF o1, o2, o3, o4, s
<1>11. ExecuteOps(<<o1, o2, o3, o4>>, s, pages) = Run(b, u, WriteReg(c, r, w), m, p, v3, d3)
  BY <1>5, <1>7, <1>8, <1>9, <1>10, FourOps
<1>12. EndsIn(ExecuteOps(<<o1, o2, o3, o4>>, s, pages), b, u, "running", With(SetX(cpu, r, w), f, at), m, p, DOMAIN vals)
  BY <1>5, <1>6, <1>11 DEF EndsIn, Run
<1> QED
  BY <1>1, <1>3, <1>6, <1>12 DEF s, c

\* The flags stay owed: the source is what they are made of.
LEMMA FlagSettingRuns ==
    ASSUME NEW b, NEW u \in BOOLEAN, NEW cpu, CpuOk(cpu), NEW f, NEW at, NEW m, NEW p, NEW vals, NEW d, NEW pages,
           NEW i, i.k \in {"AddsImmediate", "SubsImmediate"}, i.rd \in GuestReg, i.rn \in GuestReg, i.imm \in Words,
           NEW n \in Nat, {n, n + 1, n + 2} \subseteq DOMAIN vals
    PROVE  /\ EndsIn(ExecuteOps(LiftData(i, n), Run(b, u, With(cpu, f, at), m, p, vals, d), pages), b, u, "running",
                   With(SetX(cpu, i.rd, WordOp(AddSub[i.k], GpOrSp(cpu, i.rn), i.imm)), f, at), m,
                   [op |-> AddSub[i.k], lhs |-> GpOrSp(cpu, i.rn), rhs |-> i.imm], DOMAIN vals)
           /\ WordOp(AddSub[i.k], GpOrSp(cpu, i.rn), i.imm) \in Words
<1> DEFINE c == With(cpu, f, at)
           s == Run(b, u, c, m, p, vals, d)
           x == n + 1
           y == n + 2
           r == i.rd
           op == AddSub[i.k]
           lhs == GpOrSp(cpu, i.rn)
           imm == i.imm
           w == WordOp(op, lhs, imm)
           p2 == [op |-> op, lhs |-> lhs, rhs |-> imm]
           v1 == [vals EXCEPT ![n] = ReadReg(c, SpReg(i.rn))]
           v2 == [v1 EXCEPT ![x] = imm]
           v3 == [v2 EXCEPT ![y] = w]
           d1 == d \cup {n}
           d2 == d1 \cup {x}
           d3 == d2 \cup {y}
           o1 == Def(n, GetReg(SpReg(i.rn)))
           o2 == Def(x, ConstOp(imm))
           o3 == Effect(SetFlags(op, n, x))
           o4 == Def(y, BinaryI64(op, n, x))
           o5 == Effect(SetReg(r, y))
<1>1. LiftData(i, n) = <<o1, o2, o3, o4, o5>>
  BY DEF LiftData, LiftFlagSetting, Loads, Jumps
<1>2. op \in {"Add", "Sub"}
  BY DEF AddSub
<1>3. ReadReg(c, SpReg(i.rn)) = lhs /\ lhs \in Words /\ imm \in Words /\ r \in GuestReg
  BY WithReads
<1>4. w \in Words
  BY <1>2, <1>3, WordResults DEF WordOp
<1>5. /\ n # NoValue /\ x # NoValue /\ y # NoValue /\ n \in d2 /\ x \in d2 /\ y \in d3
      /\ v3[y] = w /\ DOMAIN v3 = DOMAIN vals /\ v2[n] = lhs /\ v2[x] = imm
      /\ w = WordOp(op, v2[n], v2[x])
  BY <1>3 DEF NoValue
<1> HIDE DEF w, op, lhs, imm, x, y, v1, v2, v3, d1, d2, d3, r
<1>6. WriteReg(c, r, w) = With(SetX(cpu, r, w), f, at)
  BY <1>3, <1>4, WithX
<1> HIDE DEF c
<1>7. ExecuteOp(o1, s, pages) = Run(b, u, c, m, p, v1, d1)
  BY <1>5, RegDefines DEF v1, d1
<1>8. ExecuteOp(o2, Run(b, u, c, m, p, v1, d1), pages) = Run(b, u, c, m, p, v2, d2)
  BY <1>5, ConstDefines DEF v2, d2
<1>9. ExecuteOp(o3, Run(b, u, c, m, p, v2, d2), pages) = Run(b, u, c, m, p2, v2, d2)
  <2>1. ExecuteOp(o3, Run(b, u, c, m, p, v2, d2), pages)
        = Run(b, u, c, m, [op |-> op, lhs |-> v2[n], rhs |-> v2[x]], v2, d2)
    BY <1>5, SetFlagsOp
  <2> QED
    BY <1>5, <2>1
<1> HIDE DEF p2
<1>10. ExecuteOp(o4, Run(b, u, c, m, p2, v2, d2), pages) = Run(b, u, c, m, p2, v3, d3)
  <2>1. ExecuteOp(o4, Run(b, u, c, m, p2, v2, d2), pages)
        = Run(b, u, c, m, p2, [v2 EXCEPT ![y] = w], d2 \cup {y})
    BY <1>5, BinaryDefines
  <2> QED
    BY <2>1 DEF v3, d3
<1>11. ExecuteOp(o5, Run(b, u, c, m, p2, v3, d3), pages) = Run(b, u, WriteReg(c, r, v3[y]), m, p2, v3, d3)
  BY <1>5, SetRegOp
<1> HIDE DEF o1, o2, o3, o4, o5, s
<1>12. ExecuteOps(<<o1, o2, o3, o4, o5>>, s, pages) = Run(b, u, WriteReg(c, r, w), m, p2, v3, d3)
  BY <1>5, <1>7, <1>8, <1>9, <1>10, <1>11, FiveOps
<1>13. EndsIn(ExecuteOps(<<o1, o2, o3, o4, o5>>, s, pages), b, u, "running", With(SetX(cpu, r, w), f, at), m, p2, DOMAIN vals)
  BY <1>5, <1>6, <1>12 DEF EndsIn, Run
<1> QED
  BY <1>1, <1>4, <1>13 DEF s, c, p2, w, op, lhs, imm, r

LEMMA DataRuns ==
    ASSUME NEW b, NEW u \in BOOLEAN, NEW c, NEW m, NEW p, NEW vals, NEW d, NEW pages,
           NEW i, i.k \in DataKinds, NEW n
    PROVE  EndsIn(ExecuteOps(LiftData(i, n), Run(b, u, c, m, p, vals, d), pages), b, u, "running",
                ExecuteData(i, c), m, IF i.k = "FpCompare" THEN NoFlagSource ELSE p, DOMAIN vals)
<1> DEFINE s == Run(b, u, c, m, p, vals, d)
           o1 == Effect(i)
<1>1. LiftData(i, n) = <<o1>>
  BY DEF LiftData, Loads, Jumps, DataKinds
<1>2. ExecuteOp(o1, s, pages) = Run(b, u, ExecuteData(i, c), m, IF i.k = "FpCompare" THEN NoFlagSource ELSE p, vals, d)
  BY DataOp
<1> HIDE DEF s, o1
<1>3. ExecuteOps(<<o1>>, s, pages) = ExecuteOp(o1, s, pages)
  BY OneOp
<1> QED
  BY <1>1, <1>2, <1>3 DEF EndsIn, Run, s

\* s is a state whose value a is the address.
Addressed(s, b, u, c, m, p, ids, a, address) ==
    \E vals, d : DOMAIN vals = ids /\ a \in d /\ vals[a] = address /\ s = Run(b, u, c, m, p, vals, d)

LEMMA BaseHead ==
    ASSUME NEW b, NEW u \in BOOLEAN, NEW cpu, CpuOk(cpu), NEW f, NEW at, NEW m, NEW p, NEW vals, NEW d, NEW pages,
           NEW rn \in GuestReg, NEW n \in Nat, n \in DOMAIN vals
    PROVE  Addressed(ExecuteOps(<<Def(n, GetReg(SpReg(rn)))>>, Run(b, u, With(cpu, f, at), m, p, vals, d), pages),
                     b, u, With(cpu, f, at), m, p, DOMAIN vals, n, GpOrSp(cpu, rn))
<1> DEFINE c == With(cpu, f, at)
           s == Run(b, u, c, m, p, vals, d)
           v1 == [vals EXCEPT ![n] = ReadReg(c, SpReg(rn))]
           d1 == d \cup {n}
           o1 == Def(n, GetReg(SpReg(rn)))
<1>1. ReadReg(c, SpReg(rn)) = GpOrSp(cpu, rn)
  BY WithReads
<1> HIDE DEF c
<1>2. n # NoValue /\ v1[n] = GpOrSp(cpu, rn) /\ DOMAIN v1 = DOMAIN vals /\ n \in d1
  BY <1>1 DEF NoValue
<1>3. ExecuteOp(o1, s, pages) = Run(b, u, c, m, p, v1, d1)
  BY <1>2, RegDefines
<1> HIDE DEF v1, d1, o1, s
<1>4. ExecuteOps(<<o1>>, s, pages) = Run(b, u, c, m, p, v1, d1)
  BY <1>3, OneOp
<1> QED
  BY <1>2, <1>4 DEF Addressed, o1, s, c

LEMMA OffsetHead ==
    ASSUME NEW b, NEW u \in BOOLEAN, NEW cpu, CpuOk(cpu), NEW f, NEW at, NEW m, NEW p, NEW vals, NEW d, NEW pages,
           NEW rn \in GuestReg, NEW offset, NEW n \in Nat, {n, n + 1, n + 2} \subseteq DOMAIN vals
    PROVE  Addressed(ExecuteOps(<<Def(n, GetReg(SpReg(rn))), Def(n + 1, ConstOp(offset)),
                                  Def(n + 2, BinaryI64("Add", n, n + 1))>>,
                                Run(b, u, With(cpu, f, at), m, p, vals, d), pages),
                     b, u, With(cpu, f, at), m, p, DOMAIN vals, n + 2, WrapAdd(GpOrSp(cpu, rn), offset))
<1> DEFINE c == With(cpu, f, at)
           s == Run(b, u, c, m, p, vals, d)
           x == n + 1
           y == n + 2
           op == "Add"
           base == GpOrSp(cpu, rn)
           w == WrapAdd(base, offset)
           v1 == [vals EXCEPT ![n] = ReadReg(c, SpReg(rn))]
           v2 == [v1 EXCEPT ![x] = offset]
           v3 == [v2 EXCEPT ![y] = w]
           d1 == d \cup {n}
           d2 == d1 \cup {x}
           d3 == d2 \cup {y}
           o1 == Def(n, GetReg(SpReg(rn)))
           o2 == Def(x, ConstOp(offset))
           o3 == Def(y, BinaryI64(op, n, x))
<1>1. ReadReg(c, SpReg(rn)) = base
  BY WithReads
<1>2. /\ n # NoValue /\ x # NoValue /\ y # NoValue /\ n \in d2 /\ x \in d2 /\ y \in d3
      /\ v3[y] = w /\ DOMAIN v3 = DOMAIN vals /\ v2[n] = base /\ v2[x] = offset
  <2> HIDE DEF c, base, w
  <2> QED
    BY <1>1 DEF NoValue
<1>3. w = WordOp(op, v2[n], v2[x])
  <2> HIDE DEF v2, base
  <2> QED
    BY <1>2 DEF WordOp
<1> HIDE DEF w, op, base, x, y, v1, v2, v3, d1, d2, d3, c
<1>4. ExecuteOp(o1, s, pages) = Run(b, u, c, m, p, v1, d1)
  BY <1>2, RegDefines DEF v1, d1
<1>5. ExecuteOp(o2, Run(b, u, c, m, p, v1, d1), pages) = Run(b, u, c, m, p, v2, d2)
  BY <1>2, ConstDefines DEF v2, d2
<1>6. ExecuteOp(o3, Run(b, u, c, m, p, v2, d2), pages) = Run(b, u, c, m, p, v3, d3)
  <2>1. ExecuteOp(o3, Run(b, u, c, m, p, v2, d2), pages) = Run(b, u, c, m, p, [v2 EXCEPT ![y] = w], d2 \cup {y})
    BY <1>2, <1>3, BinaryDefines
  <2> QED
    BY <2>1 DEF v3, d3
<1> HIDE DEF o1, o2, o3, s
<1>7. ExecuteOps(<<o1, o2, o3>>, s, pages) = Run(b, u, c, m, p, v3, d3)
  BY <1>4, <1>5, <1>6, ThreeOps
<1>8. Addressed(ExecuteOps(<<o1, o2, o3>>, s, pages), b, u, c, m, p, DOMAIN vals, y, w)
  BY <1>2, <1>7 DEF Addressed
<1> QED
  BY <1>8 DEF o1, o2, o3, s, c, x, y, w, base, op

\* A memory of halves, and one cell of it.
MemOk(m) == m \in [Cell -> 0 .. Low - 1]

LEMMA LowAgain ==
    ASSUME NEW w \in Words
    PROVE  LowOf(w) \in 0 .. Low - 1 /\ LowOf(LowOf(w)) = LowOf(w) /\ LowOf(w) \in Words
<1>1. Low \in Nat /\ Low > 0 /\ Low * Low = 2 * Half
  <2>1. Low # 0
    BY WidthAssumption, HalfAssumption
  <2> QED
    BY <2>1, WidthAssumption
<1>2. LowOf(w) \in 0 .. Low - 1
  BY <1>1 DEF LowOf, Words
<1>3. \A x \in 0 .. Low - 1 : x % Low = x
  BY <1>1
<1>4. Low <= Low * Low
  BY <1>1
<1>5. 0 .. Low - 1 \subseteq Words
  BY <1>1, <1>4, HalfAssumption DEF Words
<1> QED
  BY <1>2, <1>3, <1>5 DEF LowOf

LEMMA ReadCells ==
    ASSUME NEW pages, NEW a \in Words, NEW m, MemOk(m)
    PROVE  /\ CanRead(pages, a, 1) => ReadMem(m, a, 1) \in 0 .. Low - 1
           /\ CanRead(pages, a, 2) => ReadMem(m, a, 2) \in Words
<1>1. a \in Nat /\ Low \in Nat /\ Low * Low = 2 * Half /\ Half \in Nat
  BY WidthAssumption, HalfAssumption DEF Words
<1>2. CanRead(pages, a, 1) => a \in Cell
  BY <1>1 DEF CanRead, PageKind
<1>3. CanRead(pages, a, 2) => a \in Cell /\ a + 1 \in Cell
  BY <1>1 DEF CanRead, PageKind
<1>4. \A x, y \in 0 .. Low - 1 : x + Low * y \in Words
  <2> SUFFICES ASSUME NEW x \in 0 .. Low - 1, NEW y \in 0 .. Low - 1 PROVE x + Low * y \in Words
    OBVIOUS
  <2>1. Low * y <= Low * (Low - 1) /\ Low * y \in Nat
    BY <1>1
  <2>2. Low * (Low - 1) = Low * Low - Low
    BY <1>1
  <2> QED
    BY <1>1, <2>1, <2>2 DEF Words
<1> QED
  BY <1>2, <1>3, <1>4 DEF MemOk, ReadMem

LEMMA WriteCells ==
    ASSUME NEW pages, NEW a \in Words, NEW m, MemOk(m), NEW w \in Words, NEW cells \in {1, 2}
    PROVE  MemOk(WriteMem(m, a, cells, w)) /\ WriteMem(m, a, 1, LowOf(w)) = WriteMem(m, a, 1, w)
<1>1. Low \in Nat /\ Low > 0 /\ Low * Low = 2 * Half /\ w \in Nat /\ w < Low * Low
  <2>1. Low # 0
    BY WidthAssumption, HalfAssumption
  <2> QED
    BY <2>1, WidthAssumption, HalfAssumption DEF Words
<1>2. w % Low \in 0 .. Low - 1
  BY <1>1
<1>3. w \div Low \in 0 .. Low - 1
  <2> DEFINE q == w \div Low
  <2>1. q \in Int /\ w % Low \in Int /\ w = Low * q + (w % Low) /\ w % Low >= 0 /\ w % Low < Low
    BY <1>1
  <2>2. q >= 0
    BY <1>1
  <2>3. q < Low
    <3> HIDE DEF q
    <3>1. q >= Low => Low * q >= Low * Low
      BY <1>1, <2>1
    <3> QED
      BY <1>1, <2>1, <3>1
  <2> QED
    BY <1>1, <2>1, <2>2, <2>3
<1>4. (w % Low) % Low = w % Low
  BY LowAgain DEF LowOf
<1> QED
  BY <1>2, <1>3, <1>4 DEF MemOk, WriteMem, LowOf

\* What follows the address: a load.
LEMMA WordLoadTail ==
    ASSUME NEW b, NEW u \in BOOLEAN, NEW cpu, CpuOk(cpu), NEW f, NEW at, NEW m, MemOk(m), NEW p, NEW ids, NEW s, NEW pages,
           NEW a, NEW address \in Words, Addressed(s, b, u, With(cpu, f, at), m, p, ids, a, address),
           NEW k, k \in LoadOps, NEW ty, TypeCells(ty) = 1, NEW low, low \in LowKinds, NEW r \in GuestReg,
           NEW x, NEW y, x # NoValue, y # NoValue, x \in ids, y \in ids
    PROVE  LET s2 == ExecuteOps(<<Def(x, LoadFrom(k, ty, a)), Def(y, LowHalf(low, x)), Effect(SetReg(r, y))>>, s, pages)
               cpu2 == SetX(Marked(k, cpu, address, 1), r, ReadMem(m, address, 1))
           IN  /\ CanRead(pages, address, 1) =>
                     EndsIn(s2, b, u, "running", With(cpu2, f, at), m, p, ids) /\ Moved(Marked(k, cpu, address, 1), cpu2)
               /\ ~CanRead(pages, address, 1) => EndsIn(s2, b, u, "fault", With(cpu, f, at), m, p, ids)
<1> DEFINE c == With(cpu, f, at)
           cells == 1
           marked == Marked(k, cpu, address, cells)
           c1 == Marked(k, c, address, cells)
           w == ReadMem(m, address, cells)
           o1 == Def(x, LoadFrom(k, ty, a))
           o2 == Def(y, LowHalf(low, x))
           o3 == Effect(SetReg(r, y))
           cpu2 == SetX(marked, r, w)
<1>1. PICK vals, d : DOMAIN vals = ids /\ a \in d /\ vals[a] = address /\ s = Run(b, u, c, m, p, vals, d)
  BY DEF Addressed
<1>2. TypeCells(ty) = cells
  OBVIOUS
<1> DEFINE v1 == [vals EXCEPT ![x] = w]
           v2 == [v1 EXCEPT ![y] = w]
           d1 == d \cup {x}
           d2 == d1 \cup {y}
           t == Run(b, u, c, m, p, vals, d)
<1>3. CASE CanRead(pages, address, cells)
  <2>1. w \in Words /\ w = LowOf(w)
    <3>1. w \in 0 .. Low - 1
      BY <1>3, ReadCells
    <3>2. Low \in Nat /\ 2 * Half = Low * Low /\ Half \in Nat
      BY WidthAssumption, HalfAssumption
    <3> HIDE DEF w
    <3>3. w % Low = w
      BY <3>1, <3>2
    <3>4. Low <= Low * Low
      BY <3>2
    <3> QED
      BY <3>1, <3>2, <3>3, <3>4 DEF LowOf, Words
  <2>2. c1 = With(marked, f, at) /\ CpuOk(marked)
    BY WithMonitor DEF Moved
  <2> HIDE DEF w, marked, cells
  <2>3. WriteReg(With(marked, f, at), r, w) = With(cpu2, f, at) /\ Moved(marked, cpu2)
    BY <2>1, <2>2, WithX
  <2>4. x \in d1 /\ y \in d2 /\ v1[x] = w /\ v2[y] = w /\ DOMAIN v2 = ids /\ w = LowOf(v1[x])
    BY <1>1, <2>1
  <2> HIDE DEF v1, v2, d1, d2, c
  <2>5. ExecuteOp(o1, t, pages) = Run(b, u, c1, m, p, v1, d1)
    <3>1. CanRead(pages, vals[a], TypeCells(ty))
      BY <1>1, <1>2, <1>3
    <3>2. ExecuteOp(o1, t, pages) = Loaded(b, u, c, m, p, vals, d, x, k, ty, a)
      BY <1>1, <3>1, LoadRuns
    <3>3. Loaded(b, u, c, m, p, vals, d, x, k, ty, a) = Run(b, u, c1, m, p, v1, d1)
      BY <1>1, <1>2 DEF Loaded, v1, d1, w
    <3> QED
      BY <3>2, <3>3
  <2> HIDE DEF c1, cpu2
  <2>6. ExecuteOp(o2, Run(b, u, c1, m, p, v1, d1), pages) = Run(b, u, c1, m, p, v2, d2)
    <3>1. ExecuteOp(o2, Run(b, u, c1, m, p, v1, d1), pages) = Run(b, u, c1, m, p, [v1 EXCEPT ![y] = w], d1 \cup {y})
      BY <2>4, LowDefines
    <3> QED
      BY <3>1 DEF v2, d2
  <2>7. ExecuteOp(o3, Run(b, u, c1, m, p, v2, d2), pages) = Run(b, u, WriteReg(c1, r, v2[y]), m, p, v2, d2)
    BY <2>4, SetRegOp
  <2> HIDE DEF o1, o2, o3, t
  <2>8. ExecuteOps(<<o1, o2, o3>>, t, pages) = Run(b, u, WriteReg(c1, r, w), m, p, v2, d2)
    BY <2>4, <2>5, <2>6, <2>7, ThreeOps
  <2>9. EndsIn(ExecuteOps(<<o1, o2, o3>>, t, pages), b, u, "running", With(cpu2, f, at), m, p, ids)
    BY <2>2, <2>3, <2>4, <2>8 DEF EndsIn, Run
  <2> QED
    BY <1>1, <1>3, <2>3, <2>9 DEF o1, o2, o3, t, c, cells, w, marked, cpu2
<1>4. CASE ~CanRead(pages, address, cells)
  <2> HIDE DEF cells, c
  <2>1. ExecuteOp(o1, t, pages) = Faulted(b, u, c, m, p, vals, d)
    BY <1>1, <1>2, <1>4, LoadFaults
  <2>2. /\ ExecuteOp(o2, Faulted(b, u, c, m, p, vals, d), pages) = Faulted(b, u, c, m, p, vals, d)
        /\ ExecuteOp(o3, Faulted(b, u, c, m, p, vals, d), pages) = Faulted(b, u, c, m, p, vals, d)
    BY OpAfterFault
  <2> HIDE DEF o1, o2, o3, t
  <2>3. ExecuteOps(<<o1, o2, o3>>, t, pages) = Faulted(b, u, c, m, p, vals, d)
    BY <2>1, <2>2, ThreeOps
  <2>4. EndsIn(ExecuteOps(<<o1, o2, o3>>, t, pages), b, u, "fault", c, m, p, ids)
    BY <1>1, <2>3 DEF EndsIn, Faulted
  <2> QED
    BY <1>1, <1>4, <2>4 DEF o1, o2, o3, t, c, cells
<1> QED
  BY <1>3, <1>4

LEMMA DoubleLoadTail ==
    ASSUME NEW b, NEW u \in BOOLEAN, NEW cpu, CpuOk(cpu), NEW f, NEW at, NEW m, MemOk(m), NEW p, NEW ids, NEW s, NEW pages,
           NEW a, NEW address \in Words, Addressed(s, b, u, With(cpu, f, at), m, p, ids, a, address),
           NEW k, k \in LoadOps, NEW ty, TypeCells(ty) = 2, NEW r \in GuestReg,
           NEW x, x # NoValue, x \in ids
    PROVE  LET s2 == ExecuteOps(<<Def(x, LoadFrom(k, ty, a)), Effect(SetReg(r, x))>>, s, pages)
               cpu2 == SetX(Marked(k, cpu, address, 2), r, ReadMem(m, address, 2))
           IN  /\ CanRead(pages, address, 2) =>
                     EndsIn(s2, b, u, "running", With(cpu2, f, at), m, p, ids) /\ Moved(Marked(k, cpu, address, 2), cpu2)
               /\ ~CanRead(pages, address, 2) => EndsIn(s2, b, u, "fault", With(cpu, f, at), m, p, ids)
<1> DEFINE c == With(cpu, f, at)
           cells == 2
           marked == Marked(k, cpu, address, cells)
           c1 == Marked(k, c, address, cells)
           w == ReadMem(m, address, cells)
           o1 == Def(x, LoadFrom(k, ty, a))
           o2 == Effect(SetReg(r, x))
           cpu2 == SetX(marked, r, w)
<1>1. PICK vals, d : DOMAIN vals = ids /\ a \in d /\ vals[a] = address /\ s = Run(b, u, c, m, p, vals, d)
  BY DEF Addressed
<1>2. TypeCells(ty) = cells
  OBVIOUS
<1> DEFINE v1 == [vals EXCEPT ![x] = w]
           d1 == d \cup {x}
           t == Run(b, u, c, m, p, vals, d)
<1>3. CASE CanRead(pages, address, cells)
  <2>1. w \in Words
    BY <1>3, ReadCells
  <2>2. c1 = With(marked, f, at) /\ CpuOk(marked)
    BY WithMonitor DEF Moved
  <2> HIDE DEF w, marked, cells
  <2>3. WriteReg(With(marked, f, at), r, w) = With(cpu2, f, at) /\ Moved(marked, cpu2)
    BY <2>1, <2>2, WithX
  <2>4. x \in d1 /\ v1[x] = w /\ DOMAIN v1 = ids
    BY <1>1
  <2> HIDE DEF v1, d1, c
  <2>5. ExecuteOp(o1, t, pages) = Run(b, u, c1, m, p, v1, d1)
    <3>1. CanRead(pages, vals[a], TypeCells(ty))
      BY <1>1, <1>2, <1>3
    <3>2. ExecuteOp(o1, t, pages) = Loaded(b, u, c, m, p, vals, d, x, k, ty, a)
      BY <1>1, <3>1, LoadRuns
    <3>3. Loaded(b, u, c, m, p, vals, d, x, k, ty, a) = Run(b, u, c1, m, p, v1, d1)
      BY <1>1, <1>2 DEF Loaded, v1, d1, w
    <3> QED
      BY <3>2, <3>3
  <2> HIDE DEF c1, cpu2
  <2>6. ExecuteOp(o2, Run(b, u, c1, m, p, v1, d1), pages) = Run(b, u, WriteReg(c1, r, v1[x]), m, p, v1, d1)
    BY <2>4, SetRegOp
  <2> HIDE DEF o1, o2, t
  <2>7. ExecuteOps(<<o1, o2>>, t, pages) = Run(b, u, WriteReg(c1, r, w), m, p, v1, d1)
    BY <2>4, <2>5, <2>6, TwoOps
  <2>8. EndsIn(ExecuteOps(<<o1, o2>>, t, pages), b, u, "running", With(cpu2, f, at), m, p, ids)
    BY <2>2, <2>3, <2>4, <2>7 DEF EndsIn, Run
  <2> QED
    BY <1>1, <1>3, <2>3, <2>8 DEF o1, o2, t, c, cells, w, marked, cpu2
<1>4. CASE ~CanRead(pages, address, cells)
  <2> HIDE DEF cells, c
  <2>1. ExecuteOp(o1, t, pages) = Faulted(b, u, c, m, p, vals, d)
    BY <1>1, <1>2, <1>4, LoadFaults
  <2>2. ExecuteOp(o2, Faulted(b, u, c, m, p, vals, d), pages) = Faulted(b, u, c, m, p, vals, d)
    BY OpAfterFault
  <2> HIDE DEF o1, o2, t
  <2>3. ExecuteOps(<<o1, o2>>, t, pages) = Faulted(b, u, c, m, p, vals, d)
    BY <2>1, <2>2, TwoOps
  <2>4. EndsIn(ExecuteOps(<<o1, o2>>, t, pages), b, u, "fault", c, m, p, ids)
    BY <1>1, <2>3 DEF EndsIn, Faulted
  <2> QED
    BY <1>1, <1>4, <2>4 DEF o1, o2, t, c, cells
<1> QED
  BY <1>3, <1>4

\* s is a state whose value a is the address and whose value v is the word to store.
Prepared(s, b, u, c, m, p, ids, a, address, v, w) ==
    \E vals, d : /\ DOMAIN vals = ids /\ a \in d /\ v \in d /\ vals[a] = address /\ vals[v] = w
                 /\ s = Run(b, u, c, m, p, vals, d)

LEMMA DoubleData ==
    ASSUME NEW b, NEW u \in BOOLEAN, NEW cpu, CpuOk(cpu), NEW f, NEW at, NEW m, NEW p, NEW ids, NEW s, NEW pages,
           NEW a, NEW address, Addressed(s, b, u, With(cpu, f, at), m, p, ids, a, address),
           NEW r \in GuestReg, NEW x, x # NoValue, x # a, x \in ids
    PROVE  Prepared(ExecuteOps(<<Def(x, GetReg(r))>>, s, pages), b, u, With(cpu, f, at), m, p, ids, a, address,
                    x, X(cpu, r))
<1> DEFINE c == With(cpu, f, at)
           w == X(cpu, r)
           o1 == Def(x, GetReg(r))
<1>1. PICK vals, d : DOMAIN vals = ids /\ a \in d /\ vals[a] = address /\ s = Run(b, u, c, m, p, vals, d)
  BY DEF Addressed
<1> DEFINE v1 == [vals EXCEPT ![x] = ReadReg(c, r)]
           d1 == d \cup {x}
           t == Run(b, u, c, m, p, vals, d)
<1>2. ReadReg(c, r) = w
  BY WithReads
<1> HIDE DEF c, w
<1>3. v1[x] = w /\ v1[a] = address /\ DOMAIN v1 = ids /\ x \in d1 /\ a \in d1
  BY <1>1, <1>2
<1>4. ExecuteOp(o1, t, pages) = Run(b, u, c, m, p, v1, d1)
  BY RegDefines
<1> HIDE DEF v1, d1, o1, t
<1>5. ExecuteOps(<<o1>>, t, pages) = Run(b, u, c, m, p, v1, d1)
  BY <1>4, OneOp
<1>6. Prepared(ExecuteOps(<<o1>>, t, pages), b, u, c, m, p, ids, a, address, x, w)
  BY <1>3, <1>5 DEF Prepared
<1> QED
  BY <1>1, <1>6 DEF o1, t, c, w

LEMMA WordData ==
    ASSUME NEW b, NEW u \in BOOLEAN, NEW cpu, CpuOk(cpu), NEW f, NEW at, NEW m, NEW p, NEW ids, NEW s, NEW pages,
           NEW a, NEW address, Addressed(s, b, u, With(cpu, f, at), m, p, ids, a, address), NEW low, low \in LowKinds,
           NEW r \in GuestReg, NEW x, x # NoValue, x # a, NEW y, y # NoValue, y # a, x \in ids, y \in ids
    PROVE  Prepared(ExecuteOps(<<Def(x, GetReg(r)), Def(y, LowHalf(low, x))>>, s, pages),
                    b, u, With(cpu, f, at), m, p, ids, a, address, y, LowOf(X(cpu, r)))
<1> DEFINE c == With(cpu, f, at)
           w == X(cpu, r)
           o1 == Def(x, GetReg(r))
           o2 == Def(y, LowHalf(low, x))
           w2 == LowOf(w)
<1>1. PICK vals, d : DOMAIN vals = ids /\ a \in d /\ vals[a] = address /\ s = Run(b, u, c, m, p, vals, d)
  BY DEF Addressed
<1> DEFINE v1 == [vals EXCEPT ![x] = ReadReg(c, r)]
           v2 == [v1 EXCEPT ![y] = w2]
           d1 == d \cup {x}
           d2 == d1 \cup {y}
           t == Run(b, u, c, m, p, vals, d)
<1>2. ReadReg(c, r) = w
  BY WithReads
<1> HIDE DEF c, w
<1>0. v1[x] = w /\ v1[a] = address /\ DOMAIN v1 = ids
  BY <1>1, <1>2
<1> HIDE DEF w2, v1
<1>3. v1[x] = w /\ v2[y] = w2 /\ v2[a] = address /\ DOMAIN v2 = ids /\ y \in d2 /\ a \in d2 /\ x \in d1 /\ w2 = LowOf(v1[x])
  BY <1>1, <1>0 DEF w2
<1>4. ExecuteOp(o1, t, pages) = Run(b, u, c, m, p, v1, d1)
  BY RegDefines DEF v1
<1> HIDE DEF d1, o1, t, v2, d2, c
<1>5. ExecuteOp(o2, Run(b, u, c, m, p, v1, d1), pages) = Run(b, u, c, m, p, v2, d2)
  <2>1. ExecuteOp(o2, Run(b, u, c, m, p, v1, d1), pages) = Run(b, u, c, m, p, [v1 EXCEPT ![y] = w2], d1 \cup {y})
    BY <1>3, LowDefines
  <2> QED
    BY <2>1 DEF v2, d2
<1> HIDE DEF o2
<1>6. ExecuteOps(<<o1, o2>>, t, pages) = Run(b, u, c, m, p, v2, d2)
  BY <1>4, <1>5, TwoOps
<1>7. Prepared(ExecuteOps(<<o1, o2>>, t, pages), b, u, c, m, p, ids, a, address, y, w2)
  BY <1>3, <1>6 DEF Prepared
<1> QED
  BY <1>1, <1>7 DEF o1, o2, t, c, w, w2

\* What follows the data: a store.
LEMMA StoreTail ==
    ASSUME NEW b, NEW u \in BOOLEAN, NEW c, NEW m, NEW p, NEW ids, NEW s, NEW pages,
           NEW a, NEW address, NEW v, NEW w, Prepared(s, b, u, c, m, p, ids, a, address, v, w),
           NEW k, k \in StoreOps, NEW ty, NEW cells, TypeCells(ty) = cells
    PROVE  /\ CanWrite(pages, address, cells) =>
                  EndsIn(ExecuteOps(<<Effect(StoreAt(k, ty, a, v))>>, s, pages), b, u, "running", c,
                       WriteMem(m, address, cells, w), p, ids)
           /\ ~CanWrite(pages, address, cells) =>
                  EndsIn(ExecuteOps(<<Effect(StoreAt(k, ty, a, v))>>, s, pages), b, u, "fault", c, m, p, ids)
<1> DEFINE o1 == Effect(StoreAt(k, ty, a, v))
           m2 == WriteMem(m, address, cells, w)
<1>1. PICK vals, d : /\ DOMAIN vals = ids /\ a \in d /\ v \in d /\ vals[a] = address /\ vals[v] = w
                     /\ s = Run(b, u, c, m, p, vals, d)
  BY DEF Prepared
<1> DEFINE t == Run(b, u, c, m, p, vals, d)
<1>2. CASE CanWrite(pages, address, cells)
  <2>1. CanWrite(pages, vals[a], TypeCells(ty))
    BY <1>1, <1>2
  <2>2. ExecuteOp(o1, t, pages) = StoredTo(b, u, c, m, p, vals, d, ty, a, v)
    BY <1>1, <2>1, StoreRuns
  <2>3. StoredTo(b, u, c, m, p, vals, d, ty, a, v) = Run(b, u, c, m2, p, vals, d)
    BY <1>1 DEF StoredTo
  <2> HIDE DEF o1, m2, t
  <2>4. ExecuteOps(<<o1>>, t, pages) = Run(b, u, c, m2, p, vals, d)
    BY <2>2, <2>3, OneOp
  <2>5. EndsIn(ExecuteOps(<<o1>>, t, pages), b, u, "running", c, m2, p, ids)
    BY <1>1, <2>4 DEF EndsIn, Run
  <2> QED
    BY <1>1, <1>2, <2>5 DEF o1, t, m2
<1>3. CASE ~CanWrite(pages, address, cells)
  <2>1. ExecuteOp(o1, t, pages) = Faulted(b, u, c, m, p, vals, d)
    BY <1>1, <1>3, StoreFaults
  <2> HIDE DEF o1, t
  <2>2. ExecuteOps(<<o1>>, t, pages) = Faulted(b, u, c, m, p, vals, d)
    BY <2>1, OneOp
  <2>3. EndsIn(ExecuteOps(<<o1>>, t, pages), b, u, "fault", c, m, p, ids)
    BY <1>1, <2>2 DEF EndsIn, Faulted
  <2> QED
    BY <1>1, <1>3, <2>3 DEF o1, t
<1> QED
  BY <1>2, <1>3

\* The status word of an exclusive store is a word and its own low half.
LEMMA StatusWords ==
    ASSUME NEW w \in {0, 1}
    PROVE  w \in Words /\ LowOf(w) = w
<1>1. Low \in Nat /\ Half \in Nat \ {0} /\ 2 * Half = Low * Low
  BY WidthAssumption, HalfAssumption
<1>2. Low # 0 /\ Low # 1
  BY <1>1
<1>3. w % Low = w
  BY <1>1, <1>2
<1> QED
  BY <1>1, <1>3 DEF Words, LowOf

\* An exclusive store, whether it holds the monitor or not.
ExclusiveEnds(s2, b, u, cpu, f, at, m, p, ids, pages, address, cells, r, w0) ==
    LET held == Holds(cpu, address, cells)
        cpu2 == SetX(Released(cpu), r, IF held THEN 0 ELSE 1)
    IN  /\ (held => CanWrite(pages, address, cells)) =>
              /\ EndsIn(s2, b, u, "running", With(cpu2, f, at),
                      IF held THEN WriteMem(m, address, cells, w0) ELSE m, p, ids)
              /\ Moved(cpu, cpu2)
        /\ ~(held => CanWrite(pages, address, cells)) => EndsIn(s2, b, u, "fault", With(cpu, f, at), m, p, ids)
LEMMA ExclusiveTail ==
    ASSUME NEW b, NEW u \in BOOLEAN, NEW cpu, CpuOk(cpu), NEW f, NEW at, NEW m, NEW p, NEW ids, NEW s, NEW pages,
           NEW a, NEW address, NEW v, NEW w0, Prepared(s, b, u, With(cpu, f, at), m, p, ids, a, address, v, w0),
           NEW ty, NEW cells, TypeCells(ty) = cells, NEW low, low \in LowKinds, NEW r \in GuestReg,
           NEW x, x # NoValue, NEW y, y # NoValue, x \in ids, y \in ids
    PROVE  ExclusiveEnds(ExecuteOps(<<Def(x, ExclusiveAt(ty, a, v)), Def(y, LowHalf(low, x)), Effect(SetReg(r, y))>>, s, pages),
                         b, u, cpu, f, at, m, p, ids, pages, address, cells, r, w0)
<1> DEFINE c == With(cpu, f, at)
           held == Holds(cpu, address, cells)
           rel == Released(cpu)
           c1 == Released(c)
           m2 == IF held THEN WriteMem(m, address, cells, w0) ELSE m
           w == IF held THEN 0 ELSE 1
           o1 == Def(x, ExclusiveAt(ty, a, v))
           o2 == Def(y, LowHalf(low, x))
           o3 == Effect(SetReg(r, y))
           cpu2 == SetX(rel, r, w)
<1>1. PICK vals, d : /\ DOMAIN vals = ids /\ a \in d /\ v \in d /\ vals[a] = address /\ vals[v] = w0
                     /\ s = Run(b, u, c, m, p, vals, d)
  BY DEF Prepared
<1> DEFINE v1 == [vals EXCEPT ![x] = w]
           v2 == [v1 EXCEPT ![y] = w]
           d1 == d \cup {x}
           d2 == d1 \cup {y}
           t == Run(b, u, c, m, p, vals, d)
<1>2. c1 = With(rel, f, at) /\ CpuOk(rel) /\ Moved(cpu, rel) /\ held = Holds(c, address, cells)
  BY WithMonitor DEF Moved
<1> HIDE DEF held, rel
<1>3. w \in Words /\ LowOf(w) = w
  BY StatusWords
<1> HIDE DEF w
<1>4. WriteReg(With(rel, f, at), r, w) = With(cpu2, f, at) /\ Moved(rel, cpu2)
  BY <1>2, <1>3, WithX
<1>5. Moved(cpu, cpu2)
  <2> HIDE DEF cpu2
  <2> QED
    BY <1>2, <1>4 DEF Moved
<1> HIDE DEF c1, cpu2, c
<1>6. CASE held => CanWrite(pages, address, cells)
  <2>0. v1[x] = w /\ DOMAIN v1 = ids
    BY <1>1
  <2> HIDE DEF v1
  <2>1. x \in d1 /\ y \in d2 /\ v2[y] = w /\ DOMAIN v2 = ids /\ w = LowOf(v1[x])
    BY <1>1, <1>3, <2>0
  <2>2. Holds(c, vals[a], TypeCells(ty)) = held /\ (held => CanWrite(pages, vals[a], TypeCells(ty)))
    BY <1>1, <1>2, <1>6
  <2>3. ExecuteOp(o1, t, pages) = Tried(b, u, c, m, p, vals, d, x, ty, a, v)
    BY <1>1, <2>2, ExclusiveRuns
  <2>4. Tried(b, u, c, m, p, vals, d, x, ty, a, v) = Run(b, u, c1, m2, p, v1, d1)
    <3>1. (IF Holds(c, vals[a], TypeCells(ty)) THEN 0 ELSE 1) = w
      BY <2>2 DEF w
    <3>2. (IF Holds(c, vals[a], TypeCells(ty)) THEN WriteMem(m, vals[a], TypeCells(ty), vals[v]) ELSE m) = m2
      BY <1>1, <2>2
    <3> QED
      BY <3>1, <3>2 DEF Tried, v1, d1, c1
  <2> HIDE DEF d1, m2, t, o1, v2, d2
  <2>5. ExecuteOp(o2, Run(b, u, c1, m2, p, v1, d1), pages) = Run(b, u, c1, m2, p, v2, d2)
    <3>1. ExecuteOp(o2, Run(b, u, c1, m2, p, v1, d1), pages) = Run(b, u, c1, m2, p, [v1 EXCEPT ![y] = w], d1 \cup {y})
      BY <2>1, LowDefines
    <3> QED
      BY <3>1 DEF v2, d2
  <2>6. ExecuteOp(o3, Run(b, u, c1, m2, p, v2, d2), pages) = Run(b, u, WriteReg(c1, r, v2[y]), m2, p, v2, d2)
    BY <2>1, SetRegOp
  <2> HIDE DEF o2, o3
  <2>7. ExecuteOps(<<o1, o2, o3>>, t, pages) = Run(b, u, WriteReg(c1, r, w), m2, p, v2, d2)
    BY <2>1, <2>3, <2>4, <2>5, <2>6, ThreeOps
  <2>8. EndsIn(ExecuteOps(<<o1, o2, o3>>, t, pages), b, u, "running", With(cpu2, f, at), m2, p, ids)
    BY <1>2, <1>4, <2>1, <2>7 DEF EndsIn, Run
  <2> QED
    BY <1>1, <1>6, <1>5, <2>8 DEF o1, o2, o3, t, m2, w, cpu2, held, rel, ExclusiveEnds
<1>7. CASE ~(held => CanWrite(pages, address, cells))
  <2>0. Holds(c, address, cells)
    BY <1>2, <1>7
  <2>1. ExecuteOp(o1, t, pages) = Faulted(b, u, c, m, p, vals, d)
    BY <1>1, <1>7, <2>0, ExclusiveFaults
  <2>2. /\ ExecuteOp(o2, Faulted(b, u, c, m, p, vals, d), pages) = Faulted(b, u, c, m, p, vals, d)
        /\ ExecuteOp(o3, Faulted(b, u, c, m, p, vals, d), pages) = Faulted(b, u, c, m, p, vals, d)
    BY OpAfterFault
  <2> HIDE DEF o1, o2, o3, t
  <2>3. ExecuteOps(<<o1, o2, o3>>, t, pages) = Faulted(b, u, c, m, p, vals, d)
    BY <2>1, <2>2, ThreeOps
  <2>4. EndsIn(ExecuteOps(<<o1, o2, o3>>, t, pages), b, u, "fault", c, m, p, ids)
    BY <1>1, <2>3 DEF EndsIn, Faulted
  <2> QED
    BY <1>1, <1>7, <2>4 DEF o1, o2, o3, t, c, held, ExclusiveEnds
<1> QED
  BY <1>6, <1>7

IsSeq(a) == \E T : a \in Seq(T)
LEMMA OpsJoined ==
    ASSUME NEW a, IsSeq(a), NEW t, IsSeq(t), NEW s, NEW pages
    PROVE  ExecuteOps(a \o t, s, pages) = ExecuteOps(t, ExecuteOps(a, s, pages), pages) /\ IsSeq(a \o t)
<1>1. PICK S, T : a \in Seq(S) /\ t \in Seq(T)
  BY DEF IsSeq
<1> DEFINE U == S \cup T
<1>2. a \in Seq(U) /\ t \in Seq(U)
  BY <1>1
<1> HIDE DEF U
<1>3. a \o t \in Seq(U)
  BY <1>2
<1> QED
  BY <1>2, <1>3, OpsConcat DEF IsSeq

AddressOf(i, cpu) ==
    IF i.k \in {"Load", "Store"} THEN WrapAdd(GpOrSp(cpu, i.rn), i.offset) ELSE GpOrSp(cpu, i.rn)
AddressId(i, n) == IF i.k \in {"Load", "Store"} THEN n + 2 ELSE n

LEMMA AddressRuns ==
    ASSUME NEW b, NEW u \in BOOLEAN, NEW cpu, CpuOk(cpu), NEW f, NEW at, NEW m, NEW p, NEW vals, NEW d, NEW pages,
           NEW i, i.k \in Accesses, i.rn \in GuestReg, i.k \in {"Load", "Store"} => i.offset \in Words, NEW n \in Nat,
           n .. AddressId(i, n) \subseteq DOMAIN vals
    PROVE  /\ Addressed(ExecuteOps(LiftAddress(i, n), Run(b, u, With(cpu, f, at), m, p, vals, d), pages),
                        b, u, With(cpu, f, at), m, p, DOMAIN vals, AddressId(i, n), AddressOf(i, cpu))
           /\ AddressOf(i, cpu) \in Words
           /\ Len(LiftAddress(i, n)) = AddressId(i, n) - n + 1 /\ IsSeq(LiftAddress(i, n)) /\ AddressId(i, n) \in Nat
<1>0. GpOrSp(cpu, i.rn) \in Words
  BY WithReads
<1>1. CASE i.k \in {"Load", "Store"}
  <2> DEFINE op == "Add"
             o1 == Def(n, GetReg(SpReg(i.rn)))
             o2 == Def(n + 1, ConstOp(i.offset))
             o3 == Def(n + 2, BinaryI64("Add", n, n + 1))
  <2>1. {n, n + 1, n + 2} \subseteq DOMAIN vals
    BY <1>1 DEF AddressId
  <2>2. Addressed(ExecuteOps(<<o1, o2, o3>>, Run(b, u, With(cpu, f, at), m, p, vals, d), pages),
                     b, u, With(cpu, f, at), m, p, DOMAIN vals, n + 2, WrapAdd(GpOrSp(cpu, i.rn), i.offset))
    BY <2>1, OffsetHead
  <2>3. WrapAdd(GpOrSp(cpu, i.rn), i.offset) \in Words
    BY <1>0, <1>1, WordResults
  <2>4. LiftAddress(i, n) = <<o1, o2, o3>>
    BY <1>1 DEF LiftAddress
  <2> HIDE DEF o1, o2, o3
  <2>5. <<o1, o2, o3>> \in Seq({o1, o2, o3})
    OBVIOUS
  <2>6. Len(<<o1, o2, o3>>) = 3 /\ AddressId(i, n) = n + 2
    BY <1>1 DEF AddressId
  <2>7. AddressOf(i, cpu) = WrapAdd(GpOrSp(cpu, i.rn), i.offset)
    BY <1>1 DEF AddressOf
  <2>8. IsSeq(<<o1, o2, o3>>)
    BY <2>5 DEF IsSeq
  <2> QED
    BY <2>2, <2>3, <2>4, <2>6, <2>7, <2>8
<1>2. CASE i.k \notin {"Load", "Store"}
  <2> DEFINE o1 == Def(n, GetReg(SpReg(i.rn)))
  <2>1. n \in DOMAIN vals
    BY <1>2 DEF AddressId
  <2>2. Addressed(ExecuteOps(<<o1>>, Run(b, u, With(cpu, f, at), m, p, vals, d), pages),
                     b, u, With(cpu, f, at), m, p, DOMAIN vals, n, GpOrSp(cpu, i.rn))
    BY <2>1, BaseHead
  <2>4. LiftAddress(i, n) = <<o1>>
    BY <1>2 DEF LiftAddress
  <2> HIDE DEF o1
  <2>5. <<o1>> \in Seq({o1})
    OBVIOUS
  <2>6. Len(<<o1>>) = 1 /\ AddressId(i, n) = n
    BY <1>2 DEF AddressId
  <2>7. AddressOf(i, cpu) = GpOrSp(cpu, i.rn)
    BY <1>2 DEF AddressOf
  <2>8. IsSeq(<<o1>>)
    BY <2>5 DEF IsSeq
  <2> QED
    BY <1>0, <2>2, <2>4, <2>6, <2>7, <2>8
<1> QED
  BY <1>1, <1>2

\* The values an instruction lifted at n defines after its address.
LoadIds(i, n) == LET a == AddressId(i, n) IN IF i.size = "Word" THEN {a + 1, a + 2} ELSE {a + 1}
LEMMA SizeTypes ==
    ASSUME NEW size \in Sizes
    PROVE  TypeCells(TypeOf(size)) = SizeCells(size) /\ SizeCells(size) \in {1, 2} /\ (SizeCells(size) = 1 <=> size = "Word")
  BY DEF Sizes, TypeCells, TypeOf, SizeCells

LEMMA LoadInst ==
    ASSUME NEW b, NEW u \in BOOLEAN, NEW cpu, CpuOk(cpu), NEW f, NEW at, NEW m, MemOk(m), NEW p, NEW vals, NEW d, NEW pages,
           NEW i, i.k \in Loads, i.rn \in GuestReg, i.rt \in GuestReg, i.size \in Sizes,
           i.k = "Load" => i.offset \in Words, NEW n \in Nat,
           n .. AddressId(i, n) \subseteq DOMAIN vals, LoadIds(i, n) \subseteq DOMAIN vals
    PROVE  LET s2 == ExecuteOps(LiftData(i, n), Run(b, u, With(cpu, f, at), m, p, vals, d), pages)
               cells == SizeCells(i.size)
               address == AddressOf(i, cpu)
               cpu2 == SetX(Marked(i.k, cpu, address, cells), i.rt, ReadMem(m, address, cells))
           IN  /\ CanRead(pages, address, cells) =>
                     EndsIn(s2, b, u, "running", With(cpu2, f, at), m, p, DOMAIN vals) /\ Moved(cpu, cpu2)
               /\ ~CanRead(pages, address, cells) => EndsIn(s2, b, u, "fault", With(cpu, f, at), m, p, DOMAIN vals)
<1> DEFINE c == With(cpu, f, at)
           s == Run(b, u, c, m, p, vals, d)
           a == AddressId(i, n)
           address == AddressOf(i, cpu)
           head == LiftAddress(i, n)
           s1 == ExecuteOps(head, s, pages)
           k == i.k
           ty == TypeOf(i.size)
           r == i.rt
           ids == DOMAIN vals
           cells == SizeCells(i.size)
           cpu2 == SetX(Marked(i.k, cpu, address, cells), i.rt, ReadMem(m, address, cells))
<1>0. k \in Accesses /\ k \in LoadOps /\ (k = "Store" => FALSE)
  BY DEF Accesses, LoadOps, Loads
<1>1. /\ Addressed(s1, b, u, c, m, p, ids, a, address)
      /\ address \in Words /\ IsSeq(head) /\ Len(head) = a - n + 1 /\ a \in Nat
  BY <1>0, AddressRuns
<1>2. TypeCells(ty) = cells /\ cells \in {1, 2} /\ (cells = 1 <=> i.size = "Word")
  BY SizeTypes
<1>3. LiftData(i, n) = LiftLoad(i, n)
  BY DEF LiftData, Loads, Jumps
<1>4. n + Len(head) - 1 = a
  <2> HIDE DEF head, a
  <2> QED
    BY <1>1
<1>5. a + 1 # NoValue /\ a + 2 # NoValue
  <2> HIDE DEF a
  <2> QED
    BY <1>1 DEF NoValue
<1>6. Moved(cpu, Marked(k, cpu, address, cells))
  BY WithMonitor
<1>7. CASE i.size = "Word"
  <2> DEFINE low == "ZeroExtend"
             x == a + 1
             y == a + 2
             o1 == Def(x, LoadFrom(k, ty, a))
             o2 == Def(y, LowHalf(low, x))
             o3 == Effect(SetReg(r, y))
             tail == <<o1, o2, o3>>
             cpu3 == SetX(Marked(k, cpu, address, 1), r, ReadMem(m, address, 1))
  <2>1. LiftLoad(i, n) = head \o tail
    <3> HIDE DEF a, head
    <3> QED
      BY <1>4, <1>7 DEF LiftLoad, head
  <2>2. x # NoValue /\ y # NoValue /\ x \in ids /\ y \in ids /\ low \in LowKinds /\ TypeCells(ty) = 1 /\ cells = 1
    BY <1>2, <1>5, <1>7 DEF LoadIds, LowKinds
  <2> HIDE DEF x, y, a, ty, low, address, ids, head, s1
  <2>3. /\ CanRead(pages, address, 1) =>
              /\ EndsIn(ExecuteOps(tail, s1, pages), b, u, "running", With(cpu3, f, at), m, p, ids)
              /\ Moved(Marked(k, cpu, address, 1), cpu3)
        /\ ~CanRead(pages, address, 1) => EndsIn(ExecuteOps(tail, s1, pages), b, u, "fault", c, m, p, ids)
    <3> HIDE DEF s1
    <3> QED
      BY <1>0, <1>1, <2>2, WordLoadTail
  <2> HIDE DEF o1, o2, o3
  <2>4. IsSeq(tail)
    <3>1. tail \in Seq({o1, o2, o3})
      OBVIOUS
    <3> QED
      BY <3>1 DEF IsSeq
  <2> HIDE DEF tail, s
  <2>5. ExecuteOps(head \o tail, s, pages) = ExecuteOps(tail, s1, pages)
    BY <1>1, <2>4, OpsJoined DEF s1
  <2>6. cpu3 = cpu2
    BY <2>2
  <2> HIDE DEF cpu3, c, cpu2, cells
  <2>7. CanRead(pages, address, 1) => Moved(cpu, cpu3)
    BY <1>6, <2>2, <2>3 DEF Moved
  <2>8. /\ CanRead(pages, address, cells) =>
              EndsIn(ExecuteOps(LiftData(i, n), s, pages), b, u, "running", With(cpu2, f, at), m, p, ids) /\ Moved(cpu, cpu2)
        /\ ~CanRead(pages, address, cells) => EndsIn(ExecuteOps(LiftData(i, n), s, pages), b, u, "fault", c, m, p, ids)
    BY <1>3, <2>1, <2>2, <2>3, <2>5, <2>6, <2>7
  <2> QED
    BY <2>8 DEF s, c, cells, cpu2, address, ids
<1>8. CASE i.size # "Word"
  <2> DEFINE x == a + 1
             o1 == Def(x, LoadFrom(k, ty, a))
             o2 == Effect(SetReg(r, x))
             tail == <<o1, o2>>
             cpu3 == SetX(Marked(k, cpu, address, 2), r, ReadMem(m, address, 2))
  <2>1. LiftLoad(i, n) = head \o tail
    <3> HIDE DEF a, head
    <3> QED
      BY <1>4, <1>8 DEF LiftLoad, head
  <2>2. x # NoValue /\ x \in ids /\ TypeCells(ty) = 2 /\ cells = 2
    BY <1>2, <1>5, <1>8 DEF LoadIds, Sizes
  <2> HIDE DEF x, a, ty, address, ids, head, s1
  <2>3. /\ CanRead(pages, address, 2) =>
              /\ EndsIn(ExecuteOps(tail, s1, pages), b, u, "running", With(cpu3, f, at), m, p, ids)
              /\ Moved(Marked(k, cpu, address, 2), cpu3)
        /\ ~CanRead(pages, address, 2) => EndsIn(ExecuteOps(tail, s1, pages), b, u, "fault", c, m, p, ids)
    BY <1>0, <1>1, <2>2, DoubleLoadTail
  <2> HIDE DEF o1, o2
  <2>4. IsSeq(tail)
    <3>1. tail \in Seq({o1, o2})
      OBVIOUS
    <3> QED
      BY <3>1 DEF IsSeq
  <2> HIDE DEF tail, s
  <2>5. ExecuteOps(head \o tail, s, pages) = ExecuteOps(tail, s1, pages)
    BY <1>1, <2>4, OpsJoined DEF s1
  <2>6. cpu3 = cpu2
    BY <2>2
  <2> HIDE DEF cpu3, c, cpu2, cells
  <2>7. CanRead(pages, address, 2) => Moved(cpu, cpu3)
    BY <1>6, <2>2, <2>3 DEF Moved
  <2>8. /\ CanRead(pages, address, cells) =>
              EndsIn(ExecuteOps(LiftData(i, n), s, pages), b, u, "running", With(cpu2, f, at), m, p, ids) /\ Moved(cpu, cpu2)
        /\ ~CanRead(pages, address, cells) => EndsIn(ExecuteOps(LiftData(i, n), s, pages), b, u, "fault", c, m, p, ids)
    BY <1>3, <2>1, <2>2, <2>3, <2>5, <2>6, <2>7
  <2> QED
    BY <2>8 DEF s, c, cells, cpu2, address, ids
<1> QED
  BY <1>7, <1>8

\* The part of a lifted store that fetches the data, the value that holds it, and the word.
StoreData(i, a) ==
    IF i.size = "Word" THEN <<Def(a + 1, GetReg(i.rt)), Def(a + 2, LowHalf("Trunc", a + 1))>>
    ELSE <<Def(a + 1, GetReg(i.rt))>>
DataId(i, a) == IF i.size = "Word" THEN a + 2 ELSE a + 1
StoredWord(i, cpu) == IF i.size = "Word" THEN LowOf(X(cpu, i.rt)) ELSE X(cpu, i.rt)

LEMMA StoreDataRuns ==
    ASSUME NEW b, NEW u \in BOOLEAN, NEW cpu, CpuOk(cpu), NEW f, NEW at, NEW m, NEW p, NEW ids, NEW s, NEW pages,
           NEW a \in Nat, NEW address, Addressed(s, b, u, With(cpu, f, at), m, p, ids, a, address),
           NEW i, i.rt \in GuestReg, a + 1 \in ids, DataId(i, a) \in ids
    PROVE  /\ Prepared(ExecuteOps(StoreData(i, a), s, pages), b, u, With(cpu, f, at), m, p, ids, a, address,
                       DataId(i, a), StoredWord(i, cpu))
           /\ Len(StoreData(i, a)) = DataId(i, a) - a /\ IsSeq(StoreData(i, a)) /\ DataId(i, a) \in Nat
<1> DEFINE x == a + 1
           y == a + 2
           r == i.rt
           low == "Trunc"
           o1 == Def(x, GetReg(r))
           o2 == Def(y, LowHalf(low, x))
<1>1. x # NoValue /\ y # NoValue /\ x # a /\ y # a /\ low \in LowKinds
  BY DEF NoValue, LowKinds
<1>2. CASE i.size = "Word"
  <2>1. StoreData(i, a) = <<o1, o2>> /\ DataId(i, a) = y /\ StoredWord(i, cpu) = LowOf(X(cpu, r))
    BY <1>2 DEF StoreData, DataId, StoredWord
  <2>2. x \in ids /\ y \in ids
    BY <2>1
  <2> HIDE DEF x, y, low
  <2>3. Prepared(ExecuteOps(<<o1, o2>>, s, pages), b, u, With(cpu, f, at), m, p, ids, a, address, y, LowOf(X(cpu, r)))
    BY <1>1, <2>2, WordData
  <2> HIDE DEF o1, o2
  <2>4. <<o1, o2>> \in Seq({o1, o2}) /\ Len(<<o1, o2>>) = 2
    OBVIOUS
  <2>5. IsSeq(<<o1, o2>>)
    BY <2>4 DEF IsSeq
  <2>6. y \in Nat /\ y - a = 2
    BY DEF y
  <2> QED
    BY <2>1, <2>3, <2>4, <2>5, <2>6
<1>3. CASE i.size # "Word"
  <2>1. StoreData(i, a) = <<o1>> /\ DataId(i, a) = x /\ StoredWord(i, cpu) = X(cpu, r)
    BY <1>3 DEF StoreData, DataId, StoredWord
  <2>2. x \in ids
    BY <2>1
  <2> HIDE DEF x, y, low
  <2>3. Prepared(ExecuteOps(<<o1>>, s, pages), b, u, With(cpu, f, at), m, p, ids, a, address, x, X(cpu, r))
    BY <1>1, <2>2, DoubleData
  <2> HIDE DEF o1, o2
  <2>4. <<o1>> \in Seq({o1}) /\ Len(<<o1>>) = 1
    OBVIOUS
  <2>5. IsSeq(<<o1>>)
    BY <2>4 DEF IsSeq
  <2>6. x \in Nat /\ x - a = 1
    BY DEF x
  <2> QED
    BY <2>1, <2>3, <2>4, <2>5, <2>6
<1> QED
  BY <1>2, <1>3

\* What is stored does not depend on whether the word was truncated first.
LEMMA KeptStores ==
    ASSUME NEW pages, NEW address \in Words, NEW m, MemOk(m), NEW cpu, CpuOk(cpu),
           NEW i, i.rt \in GuestReg, i.size \in Sizes
    PROVE  /\ WriteMem(m, address, SizeCells(i.size), StoredWord(i, cpu)) = WriteMem(m, address, SizeCells(i.size), X(cpu, i.rt))
           /\ MemOk(WriteMem(m, address, SizeCells(i.size), X(cpu, i.rt)))
<1>1. X(cpu, i.rt) \in Words
  BY WithReads
<1> DEFINE w == X(cpu, i.rt)
<1> HIDE DEF w
<1>2. /\ MemOk(WriteMem(m, address, 1, w)) /\ WriteMem(m, address, 1, LowOf(w)) = WriteMem(m, address, 1, w)
      /\ MemOk(WriteMem(m, address, 2, w))
  BY <1>1, WriteCells DEF w
<1> QED
  BY <1>2 DEF StoredWord, SizeCells, Sizes, w

\* The values an instruction lifted at n defines after its address.
StoreIds(i, n) ==
    LET a == AddressId(i, n)
        v == DataId(i, a)
    IN  {a + 1, v} \cup IF i.k = "StoreExclusive" THEN {v + 1, v + 2} ELSE {}

LEMMA StoreInst ==
    ASSUME NEW b, NEW u \in BOOLEAN, NEW cpu, CpuOk(cpu), NEW f, NEW at, NEW m, MemOk(m), NEW p, NEW vals, NEW d, NEW pages,
           NEW i, i.k \in StoreOps, i.rn \in GuestReg, i.rt \in GuestReg, i.size \in Sizes,
           i.k = "Store" => i.offset \in Words, NEW n \in Nat,
           n .. AddressId(i, n) \subseteq DOMAIN vals, StoreIds(i, n) \subseteq DOMAIN vals
    PROVE  LET s2 == ExecuteOps(LiftData(i, n), Run(b, u, With(cpu, f, at), m, p, vals, d), pages)
               cells == SizeCells(i.size)
               address == AddressOf(i, cpu)
               m2 == WriteMem(m, address, cells, X(cpu, i.rt))
           IN  /\ MemOk(m2)
               /\ CanWrite(pages, address, cells) => EndsIn(s2, b, u, "running", With(cpu, f, at), m2, p, DOMAIN vals)
               /\ ~CanWrite(pages, address, cells) => EndsIn(s2, b, u, "fault", With(cpu, f, at), m, p, DOMAIN vals)
<1> DEFINE c == With(cpu, f, at)
           s == Run(b, u, c, m, p, vals, d)
           a == AddressId(i, n)
           address == AddressOf(i, cpu)
           head == LiftAddress(i, n)
           s1 == ExecuteOps(head, s, pages)
           data == StoreData(i, a)
           s3 == ExecuteOps(data, s1, pages)
           k == i.k
           ty == TypeOf(i.size)
           v == DataId(i, a)
           w == StoredWord(i, cpu)
           ids == DOMAIN vals
           cells == SizeCells(i.size)
           m2 == WriteMem(m, address, cells, X(cpu, i.rt))
           tail == <<Effect(StoreAt(k, ty, a, v))>>
<1>0. k \in Accesses /\ (k = "Load" => FALSE) /\ k # "StoreExclusive"
  BY DEF Accesses, StoreOps
<1>1. /\ Addressed(s1, b, u, c, m, p, ids, a, address)
      /\ address \in Words /\ IsSeq(head) /\ Len(head) = a - n + 1 /\ a \in Nat
  BY <1>0, AddressRuns
<1>2. TypeCells(ty) = cells /\ cells \in {1, 2}
  BY SizeTypes
<1>3. LiftData(i, n) = LiftStore(i, n)
  BY DEF LiftData, Loads, Jumps, StoreOps
<1>4. n + Len(head) - 1 = a
  <2> HIDE DEF head, a
  <2> QED
    BY <1>1
<1>5. a + 1 \in ids /\ v \in ids
  BY DEF StoreIds
<1>6. Prepared(s3, b, u, c, m, p, ids, a, address, v, w) /\ Len(data) = v - a /\ IsSeq(data) /\ v \in Nat
  <2> HIDE DEF c, s1, address, ids, a
  <2> QED
    BY <1>1, <1>5, StoreDataRuns DEF c
<1>7. a + Len(data) = v
  <2> HIDE DEF data, v, a
  <2> QED
    BY <1>1, <1>6
<1>8. LiftStore(i, n) = head \o data \o tail
  <2> HIDE DEF head, a, v
  <2>1. data = IF i.size = "Word"
                THEN <<Def(a + 1, GetReg(i.rt)), Def(a + 2, LowHalf("Trunc", a + 1))>>
                ELSE <<Def(a + 1, GetReg(i.rt))>>
    BY DEF StoreData
  <2> HIDE DEF data
  <2> QED
    BY <1>0, <1>4, <1>7, <2>1 DEF LiftStore, head
<1>9. WriteMem(m, address, cells, w) = m2 /\ MemOk(m2)
  <2> HIDE DEF address
  <2> QED
    BY <1>1, KeptStores
<1>10. IsSeq(tail)
  <2> DEFINE o1 == Effect(StoreAt(k, ty, a, v))
  <2> HIDE DEF o1
  <2>1. <<o1>> \in Seq({o1})
    OBVIOUS
  <2> QED
    BY <2>1 DEF IsSeq, o1
<1> HIDE DEF a, address, ids, cells, c, w, v, m2, head, data
<1>11. /\ CanWrite(pages, address, cells) =>
             EndsIn(ExecuteOps(tail, s3, pages), b, u, "running", c, m2, p, ids)
       /\ ~CanWrite(pages, address, cells) => EndsIn(ExecuteOps(tail, s3, pages), b, u, "fault", c, m, p, ids)
  <2> HIDE DEF s3
  <2> QED
    BY <1>2, <1>6, <1>9, StoreTail
<1> HIDE DEF tail, s
<1>12. ExecuteOps(head \o data, s, pages) = s3 /\ IsSeq(head \o data)
  BY <1>1, <1>6, OpsJoined
<1>13. ExecuteOps(head \o data \o tail, s, pages) = ExecuteOps(tail, s3, pages)
  BY <1>10, <1>12, OpsJoined
<1>14. /\ MemOk(m2)
       /\ CanWrite(pages, address, cells) =>
             EndsIn(ExecuteOps(LiftData(i, n), s, pages), b, u, "running", c, m2, p, ids)
       /\ ~CanWrite(pages, address, cells) => EndsIn(ExecuteOps(LiftData(i, n), s, pages), b, u, "fault", c, m, p, ids)
  BY <1>3, <1>8, <1>9, <1>11, <1>13
<1> QED
  BY <1>14 DEF s, c, cells, address, ids, m2

LEMMA ExclusiveInst ==
    ASSUME NEW b, NEW u \in BOOLEAN, NEW cpu, CpuOk(cpu), NEW f, NEW at, NEW m, MemOk(m), NEW p, NEW vals, NEW d, NEW pages,
           NEW i, i.k = "StoreExclusive", i.rn \in GuestReg, i.rt \in GuestReg, i.rs \in GuestReg, i.size \in Sizes,
           NEW n \in Nat, n .. AddressId(i, n) \subseteq DOMAIN vals, StoreIds(i, n) \subseteq DOMAIN vals
    PROVE  LET s2 == ExecuteOps(LiftData(i, n), Run(b, u, With(cpu, f, at), m, p, vals, d), pages)
               cells == SizeCells(i.size)
               address == AddressOf(i, cpu)
               m2 == WriteMem(m, address, cells, X(cpu, i.rt))
               held == Holds(cpu, address, cells)
               cpu2 == SetX(Released(cpu), i.rs, IF held THEN 0 ELSE 1)
           IN  /\ MemOk(m2)
               /\ (held => CanWrite(pages, address, cells)) =>
                     /\ EndsIn(s2, b, u, "running", With(cpu2, f, at), IF held THEN m2 ELSE m, p, DOMAIN vals)
                     /\ Moved(cpu, cpu2)
               /\ ~(held => CanWrite(pages, address, cells)) => EndsIn(s2, b, u, "fault", With(cpu, f, at), m, p, DOMAIN vals)
<1> DEFINE c == With(cpu, f, at)
           s == Run(b, u, c, m, p, vals, d)
           a == AddressId(i, n)
           address == AddressOf(i, cpu)
           head == LiftAddress(i, n)
           s1 == ExecuteOps(head, s, pages)
           data == StoreData(i, a)
           s3 == ExecuteOps(data, s1, pages)
           ty == TypeOf(i.size)
           v == DataId(i, a)
           w == StoredWord(i, cpu)
           ids == DOMAIN vals
           cells == SizeCells(i.size)
           m2 == WriteMem(m, address, cells, X(cpu, i.rt))
           held == Holds(cpu, address, cells)
           r == i.rs
           cpu2 == SetX(Released(cpu), r, IF held THEN 0 ELSE 1)
           low == "ZeroExtend"
           x == v + 1
           y == v + 2
           o1 == Def(x, ExclusiveAt(ty, a, v))
           o2 == Def(y, LowHalf(low, x))
           o3 == Effect(SetReg(r, y))
           tail == <<o1, o2, o3>>
<1>0. i.k \in Accesses /\ ~(i.k \in {"Load", "Store"})
  BY DEF Accesses
<1>1. /\ Addressed(s1, b, u, c, m, p, ids, a, address)
      /\ address \in Words /\ IsSeq(head) /\ Len(head) = a - n + 1 /\ a \in Nat
  BY <1>0, AddressRuns
<1>2. TypeCells(ty) = cells /\ cells \in {1, 2}
  BY SizeTypes
<1>3. LiftData(i, n) = LiftStore(i, n)
  BY DEF LiftData, Loads, Jumps
<1>4. n + Len(head) - 1 = a
  <2> HIDE DEF head, a
  <2> QED
    BY <1>1
<1>5. a + 1 \in ids /\ v \in ids /\ x \in ids /\ y \in ids
  BY DEF StoreIds
<1>6. Prepared(s3, b, u, c, m, p, ids, a, address, v, w) /\ Len(data) = v - a /\ IsSeq(data) /\ v \in Nat
  <2> HIDE DEF c, s1, address, ids, a
  <2> QED
    BY <1>1, <1>5, StoreDataRuns DEF c
<1>7. a + Len(data) = v /\ x # NoValue /\ y # NoValue /\ low \in LowKinds
  <2> HIDE DEF data, v, a
  <2> QED
    BY <1>1, <1>6 DEF NoValue, LowKinds
<1>8. LiftStore(i, n) = head \o data \o tail
  <2> HIDE DEF head, a, v
  <2>1. data = IF i.size = "Word"
                THEN <<Def(a + 1, GetReg(i.rt)), Def(a + 2, LowHalf("Trunc", a + 1))>>
                ELSE <<Def(a + 1, GetReg(i.rt))>>
    BY DEF StoreData
  <2> HIDE DEF data
  <2> QED
    BY <1>0, <1>4, <1>7, <2>1 DEF LiftStore, head, ExclusiveAt
<1>9. WriteMem(m, address, cells, w) = m2 /\ MemOk(m2)
  <2> HIDE DEF address
  <2> QED
    BY <1>1, KeptStores
<1> HIDE DEF low, x, y, a, ty, address, ids, cells, c, w, v, m2, head, data
<1>10. IsSeq(tail)
  <2> HIDE DEF o1, o2, o3
  <2>1. tail \in Seq({o1, o2, o3})
    OBVIOUS
  <2> QED
    BY <2>1 DEF IsSeq
<1>11. /\ (held => CanWrite(pages, address, cells)) =>
             /\ EndsIn(ExecuteOps(tail, s3, pages), b, u, "running", With(cpu2, f, at), IF held THEN m2 ELSE m, p, ids)
             /\ Moved(cpu, cpu2)
       /\ ~(held => CanWrite(pages, address, cells)) => EndsIn(ExecuteOps(tail, s3, pages), b, u, "fault", c, m, p, ids)
  <2> HIDE DEF s3
  <2>1. Prepared(s3, b, u, With(cpu, f, at), m, p, ids, a, address, v, w)
    BY <1>6 DEF c
  <2>2. r \in GuestReg
    OBVIOUS
  <2> HIDE DEF r
  <2>3. /\ (held => CanWrite(pages, address, cells)) =>
              /\ EndsIn(ExecuteOps(tail, s3, pages), b, u, "running", With(cpu2, f, at),
                      IF held THEN WriteMem(m, address, cells, w) ELSE m, p, ids)
              /\ Moved(cpu, cpu2)
        /\ ~(held => CanWrite(pages, address, cells)) =>
              EndsIn(ExecuteOps(tail, s3, pages), b, u, "fault", With(cpu, f, at), m, p, ids)
    <3>1. ExclusiveEnds(ExecuteOps(tail, s3, pages), b, u, cpu, f, at, m, p, ids, pages, address, cells, r, w)
      BY <1>2, <1>5, <1>7, <2>1, <2>2, ExclusiveTail
    <3> QED
      BY <3>1 DEF ExclusiveEnds
  <2> QED
    BY <1>9, <2>3 DEF c
<1> HIDE DEF tail, s
<1>12. ExecuteOps(head \o data, s, pages) = s3 /\ IsSeq(head \o data)
  BY <1>1, <1>6, OpsJoined
<1>13. ExecuteOps(head \o data \o tail, s, pages) = ExecuteOps(tail, s3, pages)
  BY <1>10, <1>12, OpsJoined
<1> HIDE DEF held, cpu2
<1>14. /\ MemOk(m2)
       /\ (held => CanWrite(pages, address, cells)) =>
             /\ EndsIn(ExecuteOps(LiftData(i, n), s, pages), b, u, "running", With(cpu2, f, at), IF held THEN m2 ELSE m, p, ids)
             /\ Moved(cpu, cpu2)
       /\ ~(held => CanWrite(pages, address, cells)) =>
             EndsIn(ExecuteOps(LiftData(i, n), s, pages), b, u, "fault", c, m, p, ids)
  BY <1>3, <1>8, <1>9, <1>11, <1>13
<1> QED
  BY <1>14 DEF s, c, cells, address, ids, m2, held, cpu2, r

-----------------------------------------------------------------------------
(* One instruction: the interpreter's step and its lifted ops.             *)

\* The flags a lazily recorded source and stored flags stand for, and an
\* evaluator's cpu that is an interpreter's cpu but for these and the pc.
FlagsOwed(f, p) == IF p = NoFlagSource THEN f ELSE Materialize(p)
Sees(c, p, cpu) == \E f, at : c = With(cpu, f, at) /\ FlagsOwed(f, p) = cpu.nzcv

\* s2, where the evaluator ends what the interpreter does in the step r from cpu and m.
Lifts(s2, b, u, ids, cpu, m, r) ==
    /\ r.err = "none" =>
          /\ \E c, p : Sees(c, p, r.cpu) /\ EndsIn(s2, b, u, "running", c, r.mem, p, ids)
          /\ CpuOk(r.cpu) /\ MemOk(r.mem) /\ r.cpu.pc = cpu.pc + 4 /\ r.cpu.halted = cpu.halted
    /\ r.err # "none" =>
          /\ r.err = "memory" /\ r.cpu = cpu /\ r.mem = m
          /\ \E c, p : EndsIn(s2, b, u, "fault", c, m, p, ids)

LEMMA WithAgain ==
    ASSUME NEW cpu, CpuOk(cpu), NEW f, NEW at, NEW g, NEW h
    PROVE  With(With(cpu, g, h), f, at) = With(cpu, f, at)
<1> DEFINE c == With(cpu, g, h)
           l == With(c, f, at)
           r == With(cpu, f, at)
<1>1. c = [y \in CpuFields |-> c[y]] /\ \A y \in CpuFields \ {"nzcv", "pc"} : c[y] = cpu[y]
  BY DEF CpuOk, With, CpuFields
<1>2. r = [y \in CpuFields |-> r[y]] /\ r.nzcv = f /\ r.pc = at /\ \A y \in CpuFields \ {"nzcv", "pc"} : r[y] = cpu[y]
  BY DEF CpuOk, With, CpuFields
<1> HIDE DEF c
<1>3. l = [y \in CpuFields |-> l[y]] /\ l.nzcv = f /\ l.pc = at /\ \A y \in CpuFields \ {"nzcv", "pc"} : l[y] = c[y]
  BY <1>1 DEF With, CpuFields
<1> HIDE DEF l, r
<1>4. \A y \in CpuFields : l[y] = r[y]
  BY <1>1, <1>2, <1>3
<1> QED
  BY <1>2, <1>3, <1>4 DEF l, r, c

LEMMA NextOk ==
    ASSUME NEW cpu, CpuOk(cpu), NEW f, NEW at
    PROVE  /\ With(NextPc(cpu), f, at) = With(cpu, f, at)
           /\ CpuOk(NextPc(cpu)) /\ NextPc(cpu).nzcv = cpu.nzcv /\ NextPc(cpu).pc = cpu.pc + 4
           /\ NextPc(cpu).halted = cpu.halted
<1> DEFINE g == cpu.nzcv
           h == cpu.pc + 4
           c == With(cpu, g, h)
<1>1. NextPc(cpu) = c
  <2> DEFINE l == [cpu EXCEPT !.pc = h]
  <2>1. NextPc(cpu) = l
    BY DEF NextPc
  <2>2. l = [y \in CpuFields |-> l[y]] /\ \A y \in CpuFields : l[y] = IF y = "pc" THEN h ELSE cpu[y]
    BY DEF CpuOk, CpuFields
  <2>3. c = [y \in CpuFields |-> c[y]] /\ \A y \in CpuFields : c[y] = IF y = "pc" THEN h ELSE cpu[y]
    BY DEF CpuOk, CpuFields, With
  <2> HIDE DEF l, c
  <2>4. l = c
    BY <2>2, <2>3
  <2> QED
    BY <2>1, <2>4
<1>2. With(c, f, at) = With(cpu, f, at)
  BY WithAgain
<1>3. /\ c = [y \in CpuFields |-> c[y]]
      /\ c.nzcv = g /\ c.pc = h /\ c.x = cpu.x /\ c.sp = cpu.sp /\ c.halted = cpu.halted
  BY WithFields
<1> HIDE DEF c
<1>4. CpuOk(c)
  BY <1>3 DEF CpuOk
<1> QED
  BY <1>1, <1>2, <1>3, <1>4

LEMMA StepLifts ==
    ASSUME NEW s2, NEW b, NEW u, NEW ids, NEW cpu, NEW m, NEW cpu3, CpuOk(cpu3), cpu3.pc = cpu.pc, cpu3.halted = cpu.halted,
           NEW f, NEW at, NEW p, FlagsOwed(f, p) = cpu3.nzcv, NEW m2, MemOk(m2),
           EndsIn(s2, b, u, "running", With(cpu3, f, at), m2, p, ids)
    PROVE  Lifts(s2, b, u, ids, cpu, m, Step(NextPc(cpu3), m2))
<1> DEFINE r == Step(NextPc(cpu3), m2)
           cpu4 == NextPc(cpu3)
<1>1. With(cpu4, f, at) = With(cpu3, f, at) /\ CpuOk(cpu4) /\ cpu4.nzcv = cpu3.nzcv /\ cpu4.pc = cpu.pc + 4
      /\ cpu4.halted = cpu.halted
  BY NextOk
<1> HIDE DEF cpu4
<1>2. Sees(With(cpu3, f, at), p, cpu4)
  BY <1>1 DEF Sees
<1>3. Step(cpu4, m2).cpu = cpu4 /\ Step(cpu4, m2).mem = m2 /\ Step(cpu4, m2).err = "none"
  BY DEF Step
<1> HIDE DEF r
<1>4. r.cpu = cpu4 /\ r.mem = m2 /\ r.err = "none"
  BY <1>3 DEF r, cpu4
<1> QED
  BY <1>1, <1>2, <1>4 DEF Lifts, r

LEMMA FailLifts ==
    ASSUME NEW s2, NEW b, NEW u, NEW ids, NEW cpu, NEW m, NEW c, NEW p, EndsIn(s2, b, u, "fault", c, m, p, ids)
    PROVE  Lifts(s2, b, u, ids, cpu, m, Fail(cpu, m, "memory"))
<1> DEFINE r == Fail(cpu, m, "memory")
<1>1. r.cpu = cpu /\ r.mem = m /\ r.err = "memory"
  BY DEF Fail
<1> HIDE DEF r
<1>2. Lifts(s2, b, u, ids, cpu, m, r)
  BY <1>1 DEF Lifts
<1> QED
  BY <1>2 DEF r

\* Every value that the ops define is one of ids.
Fits(data, ids) == \A j \in DOMAIN data : data[j].result # NoValue => data[j].result \in ids

LEMMA FitsParts ==
    ASSUME NEW a, IsSeq(a), NEW t, IsSeq(t), NEW ids, Fits(a \o t, ids)
    PROVE  Fits(a, ids) /\ Fits(t, ids)
<1>1. PICK S, T : a \in Seq(S) /\ t \in Seq(T)
  BY DEF IsSeq
<1> DEFINE U == S \cup T
<1>2. a \in Seq(U) /\ t \in Seq(U)
  BY <1>1
<1> HIDE DEF U
<1>3. ASSUME NEW j \in DOMAIN a PROVE j \in DOMAIN (a \o t) /\ (a \o t)[j] = a[j]
  BY <1>2
<1>4. ASSUME NEW j \in DOMAIN t PROVE Len(a) + j \in DOMAIN (a \o t) /\ (a \o t)[Len(a) + j] = t[j]
  BY <1>2
<1> QED
  BY <1>3, <1>4 DEF Fits

LEMMA FitsOne ==
    ASSUME NEW v \in Nat, NEW op, NEW ids, NEW data, Fits(data, ids), NEW j \in DOMAIN data, data[j] = Def(v, op)
    PROVE  v \in ids
<1>1. data[j].result = v /\ v # NoValue
  BY DEF Def, NoValue
<1> QED
  BY <1>1 DEF Fits

LEMMA FitsAddress ==
    ASSUME NEW i, NEW n \in Nat, NEW ids, Fits(LiftAddress(i, n), ids)
    PROVE  n .. AddressId(i, n) \subseteq ids /\ AddressId(i, n) \in Nat
<1> DEFINE data == LiftAddress(i, n)
<1>1. CASE i.k \in {"Load", "Store"}
  <2> DEFINE p1 == GetReg(SpReg(i.rn))
             p2 == ConstOp(i.offset)
             p3 == BinaryI64("Add", n, n + 1)
             x == n + 1
             y == n + 2
  <2>1. data = <<Def(n, p1), Def(x, p2), Def(y, p3)>>
    BY <1>1 DEF LiftAddress
  <2>2. x \in Nat /\ y \in Nat
    OBVIOUS
  <2> HIDE DEF data, p1, p2, p3, x, y
  <2>3. n \in ids
    <3>1. 1 \in DOMAIN data /\ data[1] = Def(n, p1)
      BY <2>1
    <3> QED
      BY <3>1, FitsOne DEF data
  <2>4. x \in ids
    <3>1. 2 \in DOMAIN data /\ data[2] = Def(x, p2)
      BY <2>1
    <3> QED
      BY <2>2, <3>1, FitsOne DEF data
  <2>5. y \in ids
    <3>1. 3 \in DOMAIN data /\ data[3] = Def(y, p3)
      BY <2>1
    <3> QED
      BY <2>2, <3>1, FitsOne DEF data
  <2> QED
    BY <1>1, <2>3, <2>4, <2>5 DEF AddressId, x, y
<1>2. CASE i.k \notin {"Load", "Store"}
  <2> DEFINE p1 == GetReg(SpReg(i.rn))
  <2>1. data = <<Def(n, p1)>>
    BY <1>2 DEF LiftAddress
  <2> HIDE DEF data, p1
  <2>3. n \in ids
    <3>1. 1 \in DOMAIN data /\ data[1] = Def(n, p1)
      BY <2>1
    <3> QED
      BY <3>1, FitsOne DEF data
  <2> QED
    BY <1>2, <2>3 DEF AddressId
<1> QED
  BY <1>1, <1>2

LEMMA FitsThree ==
    ASSUME NEW n \in Nat, NEW ids, NEW data, Fits(data, ids), NEW p1, NEW p2, NEW p3, NEW j \in 3 .. 4,
           NEW x, x = n + 1, NEW y, y = n + 2,
           1 \in DOMAIN data, 2 \in DOMAIN data, j \in DOMAIN data,
           data[1] = Def(n, p1), data[2] = Def(x, p2), data[j] = Def(y, p3)
    PROVE  {n, n + 1, n + 2} \subseteq ids
<1>1. n \in ids
  BY FitsOne
<1>2. x \in ids
  BY FitsOne
<1>3. y \in ids
  BY FitsOne
<1> QED
  BY <1>1, <1>2, <1>3

LEMMA AddressLen ==
    ASSUME NEW i, NEW n \in Nat
    PROVE  IsSeq(LiftAddress(i, n)) /\ n + Len(LiftAddress(i, n)) - 1 = AddressId(i, n)
<1>1. CASE i.k \in {"Load", "Store"}
  <2> DEFINE o1 == Def(n, GetReg(SpReg(i.rn)))
             o2 == Def(n + 1, ConstOp(i.offset))
             o3 == Def(n + 2, BinaryI64("Add", n, n + 1))
  <2>1. LiftAddress(i, n) = <<o1, o2, o3>>
    BY <1>1 DEF LiftAddress
  <2> HIDE DEF o1, o2, o3
  <2>2. <<o1, o2, o3>> \in Seq({o1, o2, o3}) /\ Len(<<o1, o2, o3>>) = 3
    OBVIOUS
  <2>3. n + 3 - 1 = AddressId(i, n)
    BY <1>1 DEF AddressId
  <2> QED
    BY <2>1, <2>2, <2>3 DEF IsSeq
<1>2. CASE i.k \notin {"Load", "Store"}
  <2> DEFINE o1 == Def(n, GetReg(SpReg(i.rn)))
  <2>1. LiftAddress(i, n) = <<o1>>
    BY <1>2 DEF LiftAddress
  <2> HIDE DEF o1
  <2>2. <<o1>> \in Seq({o1}) /\ Len(<<o1>>) = 1
    OBVIOUS
  <2>3. n + 1 - 1 = AddressId(i, n)
    BY <1>2 DEF AddressId
  <2> QED
    BY <2>1, <2>2, <2>3 DEF IsSeq
<1> QED
  BY <1>1, <1>2

LEMMA FitsLoad ==
    ASSUME NEW i, i.k \in Loads, NEW n \in Nat, NEW ids, Fits(LiftData(i, n), ids)
    PROVE  n .. AddressId(i, n) \subseteq ids /\ LoadIds(i, n) \subseteq ids
<1> DEFINE head == LiftAddress(i, n)
           a == AddressId(i, n)
           x == a + 1
           y == a + 2
           o1 == Def(x, LoadFrom(i.k, TypeOf(i.size), a))
           o2 == Def(y, LowHalf("ZeroExtend", x))
           o3 == Effect(SetReg(i.rt, y))
           o4 == Effect(SetReg(i.rt, x))
           tail == IF i.size = "Word" THEN <<o1, o2, o3>> ELSE <<o1, o4>>
<1>1. IsSeq(head) /\ n + Len(head) - 1 = a
  BY AddressLen
<1>2. LiftData(i, n) = head \o tail
  <2>1. LiftData(i, n) = LiftLoad(i, n)
    BY DEF LiftData, Loads, Jumps
  <2> HIDE DEF head, a
  <2> QED
    BY <1>1, <2>1 DEF LiftLoad, head
<1>3. IsSeq(tail)
  <2> HIDE DEF o1, o2, o3, o4
  <2>1. <<o1, o2, o3>> \in Seq({o1, o2, o3}) /\ <<o1, o4>> \in Seq({o1, o4})
    OBVIOUS
  <2> QED
    BY <2>1 DEF IsSeq
<1>4. Fits(head, ids) /\ Fits(tail, ids)
  <2> HIDE DEF head, tail
  <2> QED
    BY <1>1, <1>2, <1>3, FitsParts
<1>5. n .. a \subseteq ids /\ a \in Nat
  BY <1>4, FitsAddress
<1>6. x \in Nat /\ y \in Nat
  <2> HIDE DEF a
  <2> QED
    BY <1>5
<1> DEFINE p1 == LoadFrom(i.k, TypeOf(i.size), a)
           p2 == LowHalf("ZeroExtend", x)
<1> HIDE DEF p1, p2, x, y
<1>7. 1 \in DOMAIN tail /\ tail[1] = Def(x, p1)
  BY DEF p1
<1>8. x \in ids
  <2> HIDE DEF tail
  <2> QED
    BY <1>4, <1>6, <1>7, FitsOne
<1>9. CASE i.size = "Word"
  <2>1. 2 \in DOMAIN tail /\ tail[2] = Def(y, p2)
    BY <1>9 DEF p2
  <2>2. y \in ids
    <3> HIDE DEF tail
    <3> QED
      BY <1>4, <1>6, <2>1, FitsOne
  <2> QED
    BY <1>5, <1>8, <1>9, <2>2 DEF LoadIds, x, y
<1>10. CASE i.size # "Word"
  BY <1>5, <1>8, <1>10 DEF LoadIds, x
<1> QED
  BY <1>9, <1>10

LEMMA FitsStore ==
    ASSUME NEW i, i.k \in StoreOps \cup {"StoreExclusive"}, NEW n \in Nat, NEW ids, Fits(LiftData(i, n), ids)
    PROVE  n .. AddressId(i, n) \subseteq ids /\ StoreIds(i, n) \subseteq ids
<1> DEFINE head == LiftAddress(i, n)
           a == AddressId(i, n)
           x == a + 1
           v == DataId(i, a)
           data == StoreData(i, a)
           store == StoreAt(i.k, TypeOf(i.size), a, v)
           o1 == Def(v + 1, store)
           o2 == Def(v + 2, LowHalf("ZeroExtend", v + 1))
           o3 == Effect(SetReg(i.rs, v + 2))
           o4 == Effect(store)
           tail == IF i.k = "StoreExclusive" THEN <<o1, o2, o3>> ELSE <<o4>>
<1>1. IsSeq(head) /\ n + Len(head) - 1 = a
  BY AddressLen
<1>2. a \in Nat
  BY DEF AddressId
<1>3. a + Len(data) = v /\ IsSeq(data) /\ v \in Nat
  <2> DEFINE d1 == Def(a + 1, GetReg(i.rt))
             d2 == Def(a + 2, LowHalf("Trunc", a + 1))
  <2> HIDE DEF a
  <2>1. data = IF i.size = "Word" THEN <<d1, d2>> ELSE <<d1>>
    BY DEF StoreData
  <2> HIDE DEF d1, d2, data
  <2>2. /\ <<d1, d2>> \in Seq({d1, d2}) /\ Len(<<d1, d2>>) = 2
        /\ <<d1>> \in Seq({d1}) /\ Len(<<d1>>) = 1
    OBVIOUS
  <2>3. IsSeq(<<d1, d2>>) /\ IsSeq(<<d1>>)
    BY <2>2 DEF IsSeq
  <2> QED
    BY <1>2, <2>1, <2>2, <2>3 DEF DataId
<1>4. LiftData(i, n) = head \o data \o tail
  <2>1. LiftData(i, n) = LiftStore(i, n)
    BY DEF LiftData, Loads, Jumps, StoreOps
  <2> HIDE DEF head, a, v
  <2>2. data = IF i.size = "Word"
                THEN <<Def(a + 1, GetReg(i.rt)), Def(a + 2, LowHalf("Trunc", a + 1))>>
                ELSE <<Def(a + 1, GetReg(i.rt))>>
    BY DEF StoreData
  <2> HIDE DEF data
  <2> QED
    BY <1>1, <1>3, <2>1, <2>2 DEF LiftStore, head
<1>5. IsSeq(tail)
  <2> HIDE DEF o1, o2, o3, o4
  <2>1. <<o1, o2, o3>> \in Seq({o1, o2, o3}) /\ <<o4>> \in Seq({o4})
    OBVIOUS
  <2> QED
    BY <2>1 DEF IsSeq
<1>6. Fits(head, ids) /\ Fits(data, ids) /\ Fits(tail, ids)
  <2> HIDE DEF head, data, tail
  <2>1. IsSeq(head \o data)
    BY <1>1, <1>3, OpsJoined
  <2>2. Fits(head \o data, ids) /\ Fits(tail, ids)
    BY <1>4, <1>5, <2>1, FitsParts
  <2> QED
    BY <1>1, <1>3, <2>2, FitsParts
<1>7. n .. a \subseteq ids
  BY <1>6, FitsAddress
<1> DEFINE q1 == GetReg(i.rt)
           q2 == LowHalf("Trunc", x)
<1>8. x \in ids /\ v \in ids
  <2>1. x \in Nat
    <3> HIDE DEF a
    <3> QED
      BY <1>2
  <2>2. 1 \in DOMAIN data /\ data[1] = Def(x, q1)
    BY DEF StoreData
  <2>3. i.size = "Word" => 2 \in DOMAIN data /\ data[2] = Def(v, q2)
    BY DEF StoreData, DataId
  <2>4. i.size # "Word" => v = x
    BY DEF DataId
  <2> HIDE DEF data, q1, q2, x, v
  <2>5. x \in ids
    BY <1>6, <2>1, <2>2, FitsOne
  <2>6. CASE i.size = "Word"
    <3>1. 2 \in DOMAIN data /\ data[2] = Def(v, q2)
      BY <2>3, <2>6
    <3> QED
      BY <1>3, <1>6, <2>5, <3>1, FitsOne
  <2> QED
    BY <2>4, <2>5, <2>6
<1>9. CASE i.k = "StoreExclusive"
  <2> DEFINE y == v + 1
             z == v + 2
             p2 == LowHalf("ZeroExtend", v + 1)
  <2>1. y \in Nat /\ z \in Nat
    <3> HIDE DEF v
    <3> QED
      BY <1>3
  <2> HIDE DEF store
  <2>2. 1 \in DOMAIN tail /\ tail[1] = Def(y, store) /\ 2 \in DOMAIN tail /\ tail[2] = Def(z, p2)
    BY <1>9
  <2> HIDE DEF tail, y, z, p2
  <2>3. y \in ids
    BY <1>6, <2>1, <2>2, FitsOne
  <2>4. z \in ids
    BY <1>6, <2>1, <2>2, FitsOne
  <2> QED
    BY <1>7, <1>8, <1>9, <2>3, <2>4 DEF StoreIds, y, z
<1>10. CASE i.k # "StoreExclusive"
  BY <1>7, <1>8, <1>10 DEF StoreIds
<1> QED
  BY <1>9, <1>10

LEMMA MovZLifts ==
    ASSUME NEW b, NEW u \in BOOLEAN, NEW cpu, CpuOk(cpu), NEW f, NEW at, NEW m, MemOk(m), NEW p, FlagsOwed(f, p) = cpu.nzcv,
           NEW vals, NEW d, NEW pages, NEW inside, NEW i, InstOk(i), i.k = "MovZ", NEW n \in Nat, Fits(LiftData(i, n), DOMAIN vals)
    PROVE  Lifts(ExecuteOps(LiftData(i, n), Run(b, u, With(cpu, f, at), m, p, vals, d), pages),
                 b, u, DOMAIN vals, cpu, m, Execute(i, cpu, m, pages, inside))
<1> DEFINE cpu3 == ExecuteData(i, cpu)
           s2 == ExecuteOps(LiftData(i, n), Run(b, u, With(cpu, f, at), m, p, vals, d), pages)
           r == Execute(i, cpu, m, pages, inside)
<1>1. r = Step(NextPc(cpu3), m)
  BY DEF Execute, Loads, Jumps
<1>2. n \in DOMAIN vals
  <2> DEFINE data == LiftData(i, n)
             q == ConstOp(i.imm)
  <2>1. data = <<Def(n, q), Effect(SetReg(i.rd, n))>>
    BY DEF LiftData, Loads, Jumps
  <2> HIDE DEF q, data
  <2>2. 1 \in DOMAIN data /\ data[1] = Def(n, q)
    BY <2>1
  <2> QED
    BY <2>2, FitsOne DEF data
<1>3. i.rd \in GuestReg /\ i.imm \in Words
  BY DEF InstOk
<1>4. EndsIn(s2, b, u, "running", With(cpu3, f, at), m, p, DOMAIN vals) /\ Moved(cpu, cpu3)
  BY <1>2, <1>3, MovZRuns
<1> HIDE DEF cpu3, s2, r
<1>5. CpuOk(cpu3) /\ cpu3.pc = cpu.pc /\ cpu3.halted = cpu.halted /\ FlagsOwed(f, p) = cpu3.nzcv
  BY <1>4 DEF Moved
<1>6. Lifts(s2, b, u, DOMAIN vals, cpu, m, r)
  BY <1>1, <1>4, <1>5, StepLifts
<1> QED
  BY <1>6 DEF s2, r

LEMMA AddSubLifts ==
    ASSUME NEW b, NEW u \in BOOLEAN, NEW cpu, CpuOk(cpu), NEW f, NEW at, NEW m, MemOk(m), NEW p, FlagsOwed(f, p) = cpu.nzcv,
           NEW vals, NEW d, NEW pages, NEW inside, NEW i, InstOk(i), i.k \in {"AddImmediate", "SubImmediate"},
           NEW n \in Nat, Fits(LiftData(i, n), DOMAIN vals)
    PROVE  Lifts(ExecuteOps(LiftData(i, n), Run(b, u, With(cpu, f, at), m, p, vals, d), pages),
                 b, u, DOMAIN vals, cpu, m, Execute(i, cpu, m, pages, inside))
<1> DEFINE cpu3 == ExecuteData(i, cpu)
           s2 == ExecuteOps(LiftData(i, n), Run(b, u, With(cpu, f, at), m, p, vals, d), pages)
           r == Execute(i, cpu, m, pages, inside)
<1>1. r = Step(NextPc(cpu3), m)
  BY DEF Execute, Loads, Jumps
<1>2. {n, n + 1, n + 2} \subseteq DOMAIN vals
  <2> DEFINE data == LiftData(i, n)
             x == n + 1
             y == n + 2
             p1 == GetReg(SpReg(i.rn))
             p2 == ConstOp(i.imm)
             p3 == BinaryI64(AddSub[i.k], n, n + 1)
  <2>1. data = <<Def(n, p1), Def(x, p2), Def(y, p3), Effect(SetReg(SpReg(i.rd), n + 2))>>
    BY DEF LiftData, LiftAddSub, Loads, Jumps
  <2> HIDE DEF p1, p2, p3, data
  <2>2. /\ 1 \in DOMAIN data /\ data[1] = Def(n, p1) /\ 2 \in DOMAIN data /\ data[2] = Def(x, p2)
        /\ 3 \in DOMAIN data /\ data[3] = Def(y, p3)
    BY <2>1
  <2> QED
    BY <2>2, FitsThree DEF data
<1>3. i.rd \in GuestReg /\ i.rn \in GuestReg /\ i.imm \in Words
  BY DEF InstOk, Immediates
<1>4. EndsIn(s2, b, u, "running", With(cpu3, f, at), m, p, DOMAIN vals) /\ Moved(cpu, cpu3)
  BY <1>2, <1>3, AddSubRuns
<1> HIDE DEF cpu3, s2, r
<1>5. CpuOk(cpu3) /\ cpu3.pc = cpu.pc /\ cpu3.halted = cpu.halted /\ FlagsOwed(f, p) = cpu3.nzcv
  BY <1>4 DEF Moved
<1>6. Lifts(s2, b, u, DOMAIN vals, cpu, m, r)
  BY <1>1, <1>4, <1>5, StepLifts
<1> QED
  BY <1>6 DEF s2, r

LEMMA LogicalLifts ==
    ASSUME NEW b, NEW u \in BOOLEAN, NEW cpu, CpuOk(cpu), NEW f, NEW at, NEW m, MemOk(m), NEW p, FlagsOwed(f, p) = cpu.nzcv,
           NEW vals, NEW d, NEW pages, NEW inside, NEW i, InstOk(i), i.k = "LogicalReg",
           \A op \in LogicalOps, l, w \in Words : Logical(op, l, w) \in Words,
           NEW n \in Nat, Fits(LiftData(i, n), DOMAIN vals)
    PROVE  Lifts(ExecuteOps(LiftData(i, n), Run(b, u, With(cpu, f, at), m, p, vals, d), pages),
                 b, u, DOMAIN vals, cpu, m, Execute(i, cpu, m, pages, inside))
<1> DEFINE cpu3 == ExecuteData(i, cpu)
           s2 == ExecuteOps(LiftData(i, n), Run(b, u, With(cpu, f, at), m, p, vals, d), pages)
           r == Execute(i, cpu, m, pages, inside)
<1>1. r = Step(NextPc(cpu3), m)
  BY DEF Execute, Loads, Jumps
<1>2. {n, n + 1, n + 2} \subseteq DOMAIN vals
  <2> DEFINE data == LiftData(i, n)
             x == n + 1
             y == n + 2
             p1 == GetReg(i.rn)
             p2 == GetReg(i.rm)
             p3 == BinaryI64(i.op, n, n + 1)
  <2>1. data = <<Def(n, p1), Def(x, p2), Def(y, p3), Effect(SetReg(i.rd, n + 2))>>
    BY DEF LiftData, Loads, Jumps
  <2> HIDE DEF p1, p2, p3, data
  <2>2. /\ 1 \in DOMAIN data /\ data[1] = Def(n, p1) /\ 2 \in DOMAIN data /\ data[2] = Def(x, p2)
        /\ 3 \in DOMAIN data /\ data[3] = Def(y, p3)
    BY <2>1
  <2> QED
    BY <2>2, FitsThree DEF data
<1>3. i.op \in LogicalOps /\ i.rd \in GuestReg /\ i.rn \in GuestReg /\ i.rm \in GuestReg
  BY DEF InstOk
<1>7. i.op \notin {"Add", "Sub"}
  BY <1>3 DEF LogicalOps
<1>8. Logical(i.op, X(cpu, i.rn), X(cpu, i.rm)) \in Words
  BY <1>3, WithReads
<1>4. EndsIn(s2, b, u, "running", With(cpu3, f, at), m, p, DOMAIN vals) /\ Moved(cpu, cpu3)
  BY <1>2, <1>3, <1>7, <1>8, LogicalRuns
<1> HIDE DEF cpu3, s2, r
<1>5. CpuOk(cpu3) /\ cpu3.pc = cpu.pc /\ cpu3.halted = cpu.halted /\ FlagsOwed(f, p) = cpu3.nzcv
  BY <1>4 DEF Moved
<1>6. Lifts(s2, b, u, DOMAIN vals, cpu, m, r)
  BY <1>1, <1>4, <1>5, StepLifts
<1> QED
  BY <1>6 DEF s2, r

LEMMA FlagSettingLifts ==
    ASSUME NEW b, NEW u \in BOOLEAN, NEW cpu, CpuOk(cpu), NEW f, NEW at, NEW m, MemOk(m), NEW p,
           NEW vals, NEW d, NEW pages, NEW inside, NEW i, InstOk(i), i.k \in {"AddsImmediate", "SubsImmediate"},
           NEW n \in Nat, Fits(LiftData(i, n), DOMAIN vals)
    PROVE  Lifts(ExecuteOps(LiftData(i, n), Run(b, u, With(cpu, f, at), m, p, vals, d), pages),
                 b, u, DOMAIN vals, cpu, m, Execute(i, cpu, m, pages, inside))
<1> DEFINE lhs == GpOrSp(cpu, i.rn)
           op == AddSub[i.k]
           w == WordOp(op, lhs, i.imm)
           g == IF op = "Add" THEN FromAdd(lhs, i.imm) ELSE FromSub(lhs, i.imm)
           p2 == [op |-> op, lhs |-> lhs, rhs |-> i.imm]
           cpu2 == SetX(cpu, i.rd, w)
           cpu3 == With(cpu2, g, cpu.pc)
           s2 == ExecuteOps(LiftData(i, n), Run(b, u, With(cpu, f, at), m, p, vals, d), pages)
           r == Execute(i, cpu, m, pages, inside)
<1>1. op \in {"Add", "Sub"} /\ (op = "Add" <=> i.k = "AddsImmediate")
  BY DEF AddSub
<1>2. {n, n + 1, n + 2} \subseteq DOMAIN vals
  <2> DEFINE data == LiftData(i, n)
             x == n + 1
             y == n + 2
             p1 == GetReg(SpReg(i.rn))
             q2 == ConstOp(i.imm)
             p3 == BinaryI64(AddSub[i.k], n, n + 1)
  <2>1. data = <<Def(n, p1), Def(x, q2), Effect(SetFlags(AddSub[i.k], n, n + 1)), Def(y, p3), Effect(SetReg(i.rd, n + 2))>>
    BY DEF LiftData, LiftFlagSetting, Loads, Jumps
  <2> HIDE DEF p1, q2, p3, data
  <2>2. /\ 1 \in DOMAIN data /\ data[1] = Def(n, p1) /\ 2 \in DOMAIN data /\ data[2] = Def(x, q2)
        /\ 4 \in DOMAIN data /\ data[4] = Def(y, p3)
    BY <2>1
  <2> QED
    BY <2>2, FitsThree DEF data
<1>3. i.rd \in GuestReg /\ i.rn \in GuestReg /\ i.imm \in Words
  BY DEF InstOk, Immediates
<1>4. EndsIn(s2, b, u, "running", With(cpu2, f, at), m, p2, DOMAIN vals) /\ w \in Words
  BY <1>2, <1>3, FlagSettingRuns
<1>5. WriteReg(With(cpu, g, cpu.pc), i.rd, w) = cpu3 /\ Moved(cpu, cpu2)
  <2> HIDE DEF w, g
  <2> QED
    BY <1>3, <1>4, WithX
<1>6. cpu3 = SetX(With(cpu, g, cpu.pc), i.rd, w)
  <2>1. i.rd # SpRegister
    BY <1>3 DEF GuestReg, SpRegister
  <2> HIDE DEF cpu3, w, g
  <2> QED
    BY <1>5, <2>1 DEF WriteReg
<1>7. With(cpu, g, cpu.pc) = [cpu EXCEPT !.nzcv = g]
  <2> HIDE DEF g
  <2> DEFINE l == With(cpu, g, cpu.pc)
             e == [cpu EXCEPT !.nzcv = g]
  <2>1. l = [y \in CpuFields |-> l[y]] /\ \A y \in CpuFields : l[y] = IF y = "nzcv" THEN g ELSE cpu[y]
    BY DEF CpuOk, CpuFields, With
  <2>2. e = [y \in CpuFields |-> e[y]] /\ \A y \in CpuFields : e[y] = IF y = "nzcv" THEN g ELSE cpu[y]
    BY DEF CpuOk, CpuFields
  <2> HIDE DEF l, e
  <2>3. l = e
    BY <2>1, <2>2
  <2> QED
    BY <2>3 DEF l, e
<1>8. ExecuteData(i, cpu) = SetX([cpu EXCEPT !.nzcv = g], i.rd, w)
  BY <1>1 DEF ExecuteData, WordOp
<1>9. r = Step(NextPc(cpu3), m)
  <2> HIDE DEF cpu3, w, g
  <2>1. ExecuteData(i, cpu) = cpu3
    BY <1>6, <1>7, <1>8
  <2> QED
    BY <2>1 DEF Execute, Loads, Jumps
<1>10. FlagsOwed(f, p2) = g
  <2>1. p2 # NoFlagSource /\ p2.op = op /\ p2.lhs = lhs /\ p2.rhs = i.imm
    BY <1>1 DEF NoFlagSource
  <2> HIDE DEF p2
  <2> QED
    BY <1>1, <2>1 DEF FlagsOwed, Materialize
<1>11. CpuOk(cpu2) /\ cpu2.pc = cpu.pc /\ cpu2.halted = cpu.halted
  <2> HIDE DEF cpu2
  <2> QED
    BY <1>5 DEF Moved
<1> HIDE DEF cpu2, g, p2
<1>12. CpuOk(cpu3) /\ cpu3.pc = cpu.pc /\ cpu3.halted = cpu.halted /\ cpu3.nzcv = g
  <2>1. /\ cpu3 = [y \in CpuFields |-> cpu3[y]]
        /\ cpu3.nzcv = g /\ cpu3.pc = cpu.pc /\ cpu3.x = cpu2.x /\ cpu3.sp = cpu2.sp /\ cpu3.halted = cpu2.halted
    BY <1>11, WithFields
  <2>2. cpu.pc \in Nat
    BY DEF CpuOk
  <2> HIDE DEF cpu3
  <2> QED
    BY <1>11, <2>1, <2>2 DEF CpuOk
<1>13. With(cpu3, f, at) = With(cpu2, f, at)
  BY <1>11, WithAgain
<1> HIDE DEF cpu3, s2, r
<1>14. Lifts(s2, b, u, DOMAIN vals, cpu, m, r)
  BY <1>4, <1>9, <1>10, <1>12, <1>13, StepLifts
<1> QED
  BY <1>14 DEF s2, r

LEMMA DataLifts ==
    ASSUME NEW b, NEW u \in BOOLEAN, NEW cpu, CpuOk(cpu), NEW f, NEW at, NEW m, MemOk(m), NEW p, FlagsOwed(f, p) = cpu.nzcv,
           NEW vals, NEW d, NEW pages, NEW inside, NEW i, i.k \in DataKinds, NEW n
    PROVE  Lifts(ExecuteOps(LiftData(i, n), Run(b, u, With(cpu, f, at), m, p, vals, d), pages),
                 b, u, DOMAIN vals, cpu, m, Execute(i, cpu, m, pages, inside))
<1> DEFINE c == With(cpu, f, at)
           cpu3 == ExecuteData(i, cpu)
           s2 == ExecuteOps(LiftData(i, n), Run(b, u, c, m, p, vals, d), pages)
           r == Execute(i, cpu, m, pages, inside)
           p2 == IF i.k = "FpCompare" THEN NoFlagSource ELSE p
<1>1. r = Step(NextPc(cpu3), m)
  BY DEF Execute, Loads, Jumps, DataKinds
<1>2. EndsIn(s2, b, u, "running", ExecuteData(i, c), m, p2, DOMAIN vals)
  <2> HIDE DEF c
  <2> QED
    BY DataRuns
<1> HIDE DEF r, s2
<1>3. CASE i.k = "FpCompare"
  <2> DEFINE g == FloatCompare(ScalarF64(cpu, i.rn), ScalarF64(cpu, i.rm))
             e == [cpu EXCEPT !.nzcv = g]
             l == [c EXCEPT !.nzcv = g]
             r2 == With(cpu, g, at)
  <2>1. cpu3 = e
    BY <1>3 DEF ExecuteData
  <2>2. c.v = cpu.v /\ c = [y \in CpuFields |-> c[y]] /\ c.pc = at /\ \A y \in CpuFields \ {"nzcv", "pc"} : c[y] = cpu[y]
    BY DEF CpuOk, CpuFields, With
  <2>3. ExecuteData(i, c) = l
    <3>1. ScalarF64(c, i.rn) = ScalarF64(cpu, i.rn) /\ ScalarF64(c, i.rm) = ScalarF64(cpu, i.rm)
      <4> HIDE DEF c
      <4> QED
        BY <2>2 DEF ScalarF64
    <3> HIDE DEF c
    <3> QED
      BY <1>3, <3>1 DEF ExecuteData
  <2> HIDE DEF g
  <2>4. e = [y \in CpuFields |-> e[y]] /\ \A y \in CpuFields : e[y] = IF y = "nzcv" THEN g ELSE cpu[y]
    BY DEF CpuOk, CpuFields
  <2>5. r2 = [y \in CpuFields |-> r2[y]] /\ r2.nzcv = g /\ r2.pc = at /\ \A y \in CpuFields \ {"nzcv", "pc"} : r2[y] = cpu[y]
    BY DEF CpuOk, CpuFields, With
  <2> HIDE DEF c
  <2>6. l = [y \in CpuFields |-> l[y]] /\ \A y \in CpuFields : l[y] = IF y = "nzcv" THEN g ELSE c[y]
    BY <2>2 DEF CpuFields
  <2> HIDE DEF e, l, r2
  <2>7. l = r2
    <3>1. \A y \in CpuFields : l[y] = r2[y]
      BY <2>2, <2>5, <2>6 DEF CpuFields
    <3> QED
      BY <2>5, <2>6, <3>1
  <2>8. CpuOk(e) /\ e.pc = cpu.pc /\ e.halted = cpu.halted /\ e.nzcv = g
    BY <2>4 DEF CpuOk, CpuFields
  <2>9. With(e, g, at) = r2
    <3> DEFINE q == With(e, g, at)
    <3>1. q = [y \in CpuFields |-> q[y]] /\ q.nzcv = g /\ q.pc = at /\ \A y \in CpuFields \ {"nzcv", "pc"} : q[y] = e[y]
      BY <2>8 DEF CpuOk, CpuFields, With
    <3> HIDE DEF q
    <3>2. \A y \in CpuFields : q[y] = r2[y]
      BY <2>4, <2>5, <3>1 DEF CpuFields
    <3> QED
      BY <2>5, <3>1, <3>2 DEF q
  <2>10. p2 = NoFlagSource /\ FlagsOwed(g, NoFlagSource) = g
    BY <1>3 DEF FlagsOwed
  <2> HIDE DEF cpu3
  <2>11. Lifts(s2, b, u, DOMAIN vals, cpu, m, Step(NextPc(e), m))
    BY <1>2, <2>3, <2>7, <2>8, <2>9, <2>10, StepLifts
  <2> QED
    BY <1>1, <2>1, <2>11 DEF r, s2, c
<1>4. CASE i.k # "FpCompare"
  <2>1. ExecuteData(i, c) = With(cpu3, f, at) /\ Moved(cpu, cpu3)
    <3>1. CASE i.k = "Barrier"
      <4>1. \A q : ExecuteData(i, q) = q
        BY <3>1 DEF ExecuteData
      <4>2. Moved(cpu, cpu)
        BY DEF Moved
      <4> QED
        BY <4>1, <4>2
    <3>2. CASE i.k # "Barrier"
      <4>1. i.k \in {"FpMoveImmediate", "FpScalarBinary", "VectorBinary"}
        BY <1>4, <3>2 DEF DataKinds
      <4> QED
        BY <4>1, WithVector
    <3> QED
      BY <3>1, <3>2
  <2> HIDE DEF cpu3
  <2>2. CpuOk(cpu3) /\ cpu3.pc = cpu.pc /\ cpu3.halted = cpu.halted /\ FlagsOwed(f, p) = cpu3.nzcv
    BY <2>1 DEF Moved
  <2>3. EndsIn(s2, b, u, "running", With(cpu3, f, at), m, p, DOMAIN vals)
    BY <1>2, <1>4, <2>1
  <2>4. Lifts(s2, b, u, DOMAIN vals, cpu, m, Step(NextPc(cpu3), m))
    BY <2>2, <2>3, StepLifts
  <2> QED
    BY <1>1, <2>4 DEF r, s2, c
<1> QED
  BY <1>3, <1>4

LEMMA LoadLifts ==
    ASSUME NEW b, NEW u \in BOOLEAN, NEW cpu, CpuOk(cpu), NEW f, NEW at, NEW m, MemOk(m), NEW p, FlagsOwed(f, p) = cpu.nzcv,
           NEW vals, NEW d, NEW pages, NEW inside, NEW i, InstOk(i), i.k \in Loads, NEW n \in Nat,
           Fits(LiftData(i, n), DOMAIN vals)
    PROVE  Lifts(ExecuteOps(LiftData(i, n), Run(b, u, With(cpu, f, at), m, p, vals, d), pages),
                 b, u, DOMAIN vals, cpu, m, Execute(i, cpu, m, pages, inside))
<1> DEFINE s2 == ExecuteOps(LiftData(i, n), Run(b, u, With(cpu, f, at), m, p, vals, d), pages)
           r == Execute(i, cpu, m, pages, inside)
           cells == SizeCells(i.size)
           address == AddressOf(i, cpu)
           cpu2 == SetX(Marked(i.k, cpu, address, cells), i.rt, ReadMem(m, address, cells))
<1>1. r = IF CanRead(pages, address, cells) THEN Step(NextPc(cpu2), m) ELSE Fail(cpu, m, "memory")
  <2>1. r = ExecuteLoad(i, cpu, m, pages)
    BY DEF Execute, Loads, Jumps
  <2>2. address = IF i.k = "Load" THEN WrapAdd(GpOrSp(cpu, i.rn), i.offset) ELSE GpOrSp(cpu, i.rn)
    BY DEF AddressOf, Loads
  <2> HIDE DEF address, r
  <2> QED
    BY <2>1, <2>2 DEF ExecuteLoad, Marked
<1>2. i.k \in Accesses
  BY DEF Accesses
<1>3. /\ i.rn \in GuestReg /\ i.rt \in GuestReg /\ i.size \in Sizes /\ (i.k = "Load" => i.offset \in Words)
  BY <1>2 DEF InstOk
<1>4. n .. AddressId(i, n) \subseteq DOMAIN vals /\ LoadIds(i, n) \subseteq DOMAIN vals
  BY FitsLoad
<1>5. /\ CanRead(pages, address, cells) =>
             EndsIn(s2, b, u, "running", With(cpu2, f, at), m, p, DOMAIN vals) /\ Moved(cpu, cpu2)
      /\ ~CanRead(pages, address, cells) => EndsIn(s2, b, u, "fault", With(cpu, f, at), m, p, DOMAIN vals)
  BY <1>3, <1>4, LoadInst
<1> HIDE DEF s2, r, cpu2, address, cells
<1>6. CASE CanRead(pages, address, cells)
  <2>1. CpuOk(cpu2) /\ cpu2.pc = cpu.pc /\ cpu2.halted = cpu.halted /\ FlagsOwed(f, p) = cpu2.nzcv
    BY <1>5, <1>6 DEF Moved
  <2>2. Lifts(s2, b, u, DOMAIN vals, cpu, m, Step(NextPc(cpu2), m))
    BY <1>5, <1>6, <2>1, StepLifts
  <2> QED
    BY <1>1, <1>6, <2>2 DEF s2, r
<1>7. CASE ~CanRead(pages, address, cells)
  <2>1. Lifts(s2, b, u, DOMAIN vals, cpu, m, Fail(cpu, m, "memory"))
    BY <1>5, <1>7, FailLifts
  <2> QED
    BY <1>1, <1>7, <2>1 DEF s2, r
<1> QED
  BY <1>6, <1>7

LEMMA StoreLifts ==
    ASSUME NEW b, NEW u \in BOOLEAN, NEW cpu, CpuOk(cpu), NEW f, NEW at, NEW m, MemOk(m), NEW p, FlagsOwed(f, p) = cpu.nzcv,
           NEW vals, NEW d, NEW pages, NEW inside, NEW i, InstOk(i), i.k \in StoreOps, NEW n \in Nat,
           Fits(LiftData(i, n), DOMAIN vals)
    PROVE  Lifts(ExecuteOps(LiftData(i, n), Run(b, u, With(cpu, f, at), m, p, vals, d), pages),
                 b, u, DOMAIN vals, cpu, m, Execute(i, cpu, m, pages, inside))
<1> DEFINE s2 == ExecuteOps(LiftData(i, n), Run(b, u, With(cpu, f, at), m, p, vals, d), pages)
           r == Execute(i, cpu, m, pages, inside)
           cells == SizeCells(i.size)
           address == AddressOf(i, cpu)
           m2 == WriteMem(m, address, cells, X(cpu, i.rt))
<1>1. r = IF CanWrite(pages, address, cells) THEN Step(NextPc(cpu), m2) ELSE Fail(cpu, m, "memory")
  <2>1. r = ExecuteStore(i, cpu, m, pages)
    BY DEF Execute, Loads, Jumps, StoreOps
  <2>2. address = IF i.k = "Store" THEN WrapAdd(GpOrSp(cpu, i.rn), i.offset) ELSE GpOrSp(cpu, i.rn)
    BY DEF AddressOf, StoreOps
  <2> HIDE DEF address, r
  <2> QED
    BY <2>1, <2>2 DEF ExecuteStore
<1>2. i.k \in Accesses
  BY DEF Accesses, StoreOps
<1>3. /\ i.rn \in GuestReg /\ i.rt \in GuestReg /\ i.size \in Sizes /\ (i.k = "Store" => i.offset \in Words)
  BY <1>2 DEF InstOk
<1>4. n .. AddressId(i, n) \subseteq DOMAIN vals /\ StoreIds(i, n) \subseteq DOMAIN vals
  BY FitsStore
<1>5. /\ MemOk(m2)
      /\ CanWrite(pages, address, cells) => EndsIn(s2, b, u, "running", With(cpu, f, at), m2, p, DOMAIN vals)
      /\ ~CanWrite(pages, address, cells) => EndsIn(s2, b, u, "fault", With(cpu, f, at), m, p, DOMAIN vals)
  BY <1>3, <1>4, StoreInst
<1> HIDE DEF s2, r, m2, address, cells
<1>6. CASE CanWrite(pages, address, cells)
  <2>2. Lifts(s2, b, u, DOMAIN vals, cpu, m, Step(NextPc(cpu), m2))
    BY <1>5, <1>6, StepLifts
  <2> QED
    BY <1>1, <1>6, <2>2 DEF s2, r
<1>7. CASE ~CanWrite(pages, address, cells)
  <2>1. Lifts(s2, b, u, DOMAIN vals, cpu, m, Fail(cpu, m, "memory"))
    BY <1>5, <1>7, FailLifts
  <2> QED
    BY <1>1, <1>7, <2>1 DEF s2, r
<1> QED
  BY <1>6, <1>7

LEMMA ExclusiveLifts ==
    ASSUME NEW b, NEW u \in BOOLEAN, NEW cpu, CpuOk(cpu), NEW f, NEW at, NEW m, MemOk(m), NEW p, FlagsOwed(f, p) = cpu.nzcv,
           NEW vals, NEW d, NEW pages, NEW inside, NEW i, InstOk(i), i.k = "StoreExclusive", NEW n \in Nat,
           Fits(LiftData(i, n), DOMAIN vals)
    PROVE  Lifts(ExecuteOps(LiftData(i, n), Run(b, u, With(cpu, f, at), m, p, vals, d), pages),
                 b, u, DOMAIN vals, cpu, m, Execute(i, cpu, m, pages, inside))
<1> DEFINE s2 == ExecuteOps(LiftData(i, n), Run(b, u, With(cpu, f, at), m, p, vals, d), pages)
           r == Execute(i, cpu, m, pages, inside)
           cells == SizeCells(i.size)
           address == AddressOf(i, cpu)
           w == WriteMem(m, address, cells, X(cpu, i.rt))
           held == Holds(cpu, address, cells)
           m2 == IF held THEN w ELSE m
           cpu2 == SetX(Released(cpu), i.rs, IF held THEN 0 ELSE 1)
<1>1. r = IF held => CanWrite(pages, address, cells) THEN Step(NextPc(cpu2), m2) ELSE Fail(cpu, m, "memory")
  <2>1. r = ExecuteStoreExclusive(i, cpu, m, pages)
    BY DEF Execute, Loads, Jumps
  <2>2. address = GpOrSp(cpu, i.rn)
    BY DEF AddressOf
  <2> HIDE DEF address, r
  <2> QED
    BY <2>1, <2>2 DEF ExecuteStoreExclusive, Holds, Released
<1>2. i.k \in Accesses
  BY DEF Accesses
<1>3. i.rn \in GuestReg /\ i.rt \in GuestReg /\ i.rs \in GuestReg /\ i.size \in Sizes
  BY <1>2 DEF InstOk
<1>4. n .. AddressId(i, n) \subseteq DOMAIN vals /\ StoreIds(i, n) \subseteq DOMAIN vals
  BY FitsStore
<1>5. /\ MemOk(w)
      /\ (held => CanWrite(pages, address, cells)) =>
            EndsIn(s2, b, u, "running", With(cpu2, f, at), m2, p, DOMAIN vals) /\ Moved(cpu, cpu2)
      /\ ~(held => CanWrite(pages, address, cells)) => EndsIn(s2, b, u, "fault", With(cpu, f, at), m, p, DOMAIN vals)
  BY <1>3, <1>4, ExclusiveInst
<1>8. MemOk(m2)
  BY <1>5
<1> HIDE DEF s2, r, m2, address, cells, held, cpu2
<1>6. CASE held => CanWrite(pages, address, cells)
  <2>1. CpuOk(cpu2) /\ cpu2.pc = cpu.pc /\ cpu2.halted = cpu.halted /\ FlagsOwed(f, p) = cpu2.nzcv
    BY <1>5, <1>6 DEF Moved
  <2>2. Lifts(s2, b, u, DOMAIN vals, cpu, m, Step(NextPc(cpu2), m2))
    BY <1>5, <1>6, <1>8, <2>1, StepLifts
  <2> QED
    BY <1>1, <1>6, <2>2 DEF s2, r
<1>7. CASE ~(held => CanWrite(pages, address, cells))
  <2>1. Lifts(s2, b, u, DOMAIN vals, cpu, m, Fail(cpu, m, "memory"))
    BY <1>5, <1>7, FailLifts
  <2> QED
    BY <1>1, <1>7, <2>1 DEF s2, r
<1> QED
  BY <1>6, <1>7

\* One instruction: its ops do to the evaluator what its step does to the interpreter.
LEMMA InstructionLifts ==
    ASSUME NEW b, NEW u \in BOOLEAN, NEW cpu, CpuOk(cpu), NEW c, NEW m, MemOk(m), NEW p, Sees(c, p, cpu),
           NEW vals, NEW d, NEW pages, NEW inside, NEW i, InstOk(i), i.k \notin Jumps \cup {"Svc"},
           \A op \in LogicalOps, l, w \in Words : Logical(op, l, w) \in Words,
           NEW n \in Nat, Fits(LiftData(i, n), DOMAIN vals)
    PROVE  Lifts(ExecuteOps(LiftData(i, n), Run(b, u, c, m, p, vals, d), pages),
                 b, u, DOMAIN vals, cpu, m, Execute(i, cpu, m, pages, inside))
<1>1. PICK f, at : c = With(cpu, f, at) /\ FlagsOwed(f, p) = cpu.nzcv
  BY DEF Sees
<1> DEFINE s2 == ExecuteOps(LiftData(i, n), Run(b, u, With(cpu, f, at), m, p, vals, d), pages)
           r == Execute(i, cpu, m, pages, inside)
<1>2. \/ i.k = "MovZ" \/ i.k = "LogicalReg" \/ i.k \in {"AddImmediate", "SubImmediate"}
      \/ i.k \in {"AddsImmediate", "SubsImmediate"} \/ i.k \in DataKinds
      \/ i.k \in Loads \/ i.k \in StoreOps \/ i.k = "StoreExclusive"
  BY DEF InstOk, Immediates, Accesses, StoreOps
<1>3. CASE i.k = "MovZ"
  BY <1>1, <1>3, MovZLifts
<1>4. CASE i.k = "LogicalReg"
  BY <1>1, <1>4, LogicalLifts
<1>5. CASE i.k \in {"AddImmediate", "SubImmediate"}
  BY <1>1, <1>5, AddSubLifts
<1>6. CASE i.k \in {"AddsImmediate", "SubsImmediate"}
  BY <1>1, <1>6, FlagSettingLifts
<1>7. CASE i.k \in DataKinds
  BY <1>1, <1>7, DataLifts
<1>8. CASE i.k \in Loads
  BY <1>1, <1>8, LoadLifts
<1>9. CASE i.k \in StoreOps
  BY <1>1, <1>9, StoreLifts
<1>10. CASE i.k = "StoreExclusive"
  BY <1>1, <1>10, ExclusiveLifts
<1> QED
  BY <1>2, <1>3, <1>4, <1>5, <1>6, <1>7, <1>8, <1>9, <1>10

-----------------------------------------------------------------------------
(* Lists put together, and instructions placed at an address.              *)

\* Flattening, one sequence after another.
FlattenOf(seqs) ==
    CHOOSE flatten : flatten = [i \in 1 .. Len(seqs) |-> IF i = 1 THEN seqs[i] ELSE flatten[i - 1] \o seqs[i]]
PartsOf(seqs, n, g) == g = [i \in 1 .. n |-> IF i = 1 THEN seqs[i] ELSE g[i - 1] \o seqs[i]]

LEMMA PartsExist ==
    ASSUME NEW seqs, NEW n \in Nat
    PROVE  \E g : PartsOf(seqs, n, g)
<1> DEFINE failing == {k \in Nat : ~\E g : PartsOf(seqs, k, g)}
<1> SUFFICES ASSUME n \in failing PROVE FALSE
  OBVIOUS
<1>1. PICK k \in failing : \A l \in failing : k <= l
  BY Least
<1>2. CASE k = 0
  <2> DEFINE g == [l \in 1 .. 0 |-> 0]
  <2>1. g = [i \in 1 .. 0 |-> IF i = 1 THEN seqs[i] ELSE g[i - 1] \o seqs[i]]
    OBVIOUS
  <2>2. PartsOf(seqs, 0, g)
    BY <2>1 DEF PartsOf
  <2> QED
    BY <1>1, <1>2, <2>2
<1>3. CASE k # 0
  <2>1. k - 1 \in Nat /\ ~(k <= k - 1) /\ k \in Nat
    BY <1>1, <1>3
  <2>2. PICK g : PartsOf(seqs, k - 1, g)
    BY <1>1, <2>1
  <2> DEFINE h == [l \in 1 .. k |-> IF l = k THEN IF k = 1 THEN seqs[k] ELSE g[k - 1] \o seqs[k] ELSE g[l]]
  <2>3. ASSUME NEW l \in 1 .. k PROVE h[l] = IF l = 1 THEN seqs[l] ELSE h[l - 1] \o seqs[l]
    <3>1. CASE l = k
      <4>1. k # 1 => k - 1 \in 1 .. k /\ k - 1 # k
        BY <2>1
      <4>2. k # 1 => h[k - 1] = g[k - 1]
        BY <4>1
      <4> QED
        BY <3>1, <4>2
    <3>2. CASE l # k
      <4>1. l \in 1 .. k - 1 /\ h[l] = g[l]
        BY <2>1, <3>2
      <4>2. g[l] = IF l = 1 THEN seqs[l] ELSE g[l - 1] \o seqs[l]
        BY <2>2, <4>1 DEF PartsOf
      <4>3. l # 1 => l - 1 \in 1 .. k /\ l - 1 # k
        BY <2>1, <4>1
      <4>4. l # 1 => h[l - 1] = g[l - 1]
        BY <4>3
      <4> QED
        BY <4>1, <4>2, <4>4
    <3> QED
      BY <3>1, <3>2
  <2>4. PartsOf(seqs, k, h)
    <3>1. h = [l \in 1 .. k |-> h[l]]
      OBVIOUS
    <3> HIDE DEF h
    <3> QED
      BY <2>3, <3>1 DEF PartsOf
  <2> QED
    BY <1>1, <2>4
<1> QED
  BY <1>2, <1>3

LEMMA Flattens ==
    ASSUME NEW seqs, Len(seqs) \in Nat \ {0}
    PROVE  /\ FlattenSeq(seqs) = FlattenOf(seqs)[Len(seqs)] /\ FlattenOf(seqs)[1] = seqs[1]
           /\ \A k \in 2 .. Len(seqs) : FlattenOf(seqs)[k] = FlattenOf(seqs)[k - 1] \o seqs[k]
<1> DEFINE flatten == FlattenOf(seqs)
<1>0. \E g : PartsOf(seqs, Len(seqs), g)
  BY PartsExist
<1>1. \E g : g = [i \in 1 .. Len(seqs) |-> IF i = 1 THEN seqs[i] ELSE g[i - 1] \o seqs[i]]
  BY <1>0, Zenon DEF PartsOf
<1>2. flatten = [i \in 1 .. Len(seqs) |-> IF i = 1 THEN seqs[i] ELSE flatten[i - 1] \o seqs[i]]
  BY <1>1, Zenon DEF FlattenOf
<1>3. FlattenSeq(seqs) = IF Len(seqs) = 0 THEN seqs ELSE flatten[Len(seqs)]
  BY Zenon DEF FlattenSeq, FlattenOf
<1> HIDE DEF flatten
<1>4. flatten[1] = seqs[1]
  <2>1. 1 \in 1 .. Len(seqs)
    OBVIOUS
  <2> QED
    BY <1>2, <2>1
<1>5. ASSUME NEW k \in 2 .. Len(seqs) PROVE flatten[k] = flatten[k - 1] \o seqs[k]
  <2>1. k \in 1 .. Len(seqs) /\ k # 1
    OBVIOUS
  <2> QED
    BY <1>2, <2>1
<1> QED
  BY <1>3, <1>4, <1>5 DEF flatten

LEMMA SameOps ==
    ASSUME NEW a, NEW t, Len(a) \in Nat, Len(t) = Len(a),
           \A j \in 1 .. Len(a) : a[j].op = t[j].op /\ a[j].result = t[j].result, NEW e, NEW pages
    PROVE  ExecuteOps(a, e, pages) = ExecuteOps(t, e, pages)
<1> DEFINE g == RunOf(a, e, pages)
<1>1. /\ g[0] = e /\ ExecuteOps(a, e, pages) = g[Len(a)]
      /\ \A k \in 1 .. Len(a) : g[k] = ExecuteOp(a[k], g[k - 1], pages)
  BY RunSteps
<1> HIDE DEF g
<1>2. ASSUME NEW k \in 1 .. Len(t) PROVE g[k] = ExecuteOp(t[k], g[k - 1], pages)
  <2>1. a[k].op = t[k].op /\ a[k].result = t[k].result
    OBVIOUS
  <2>2. \A q : ExecuteOp(a[k], q, pages) = ExecuteOp(t[k], q, pages)
    BY <2>1 DEF ExecuteOp
  <2> QED
    BY <1>1, <2>2
<1> QED
  BY <1>1, <1>2, RunIs

LEMMA PlacedOps ==
    ASSUME NEW data, IsSeq(data), NEW at
    PROVE  /\ IsSeq(Placed(data, at)) /\ Len(Placed(data, at)) = Len(data)
           /\ \A j \in DOMAIN data : Placed(data, at)[j].op = data[j].op /\ Placed(data, at)[j].result = data[j].result
<1>1. PICK T : data \in Seq(T)
  BY DEF IsSeq
<1> DEFINE q == Placed(data, at)
           f(s) == [result |-> data[s].result, op |-> data[s].op, at |-> at]
<1>2. DOMAIN data = 1 .. Len(data) /\ Len(data) \in Nat
  BY <1>1
<1>3. q = [s \in 1 .. Len(data) |-> f(s)]
  BY <1>2 DEF Placed
<1>4. ASSUME NEW j \in DOMAIN data PROVE q[j].op = data[j].op /\ q[j].result = data[j].result
  BY <1>2, <1>3
<1> HIDE DEF f
<1>5. q \in Seq({f(s) : s \in 1 .. Len(data)}) /\ Len(q) = Len(data)
  BY <1>2, <1>3
<1> HIDE DEF q
<1>6. IsSeq(q)
  BY <1>5 DEF IsSeq
<1> QED
  BY <1>4, <1>5, <1>6 DEF q

LEMMA PlacedRuns ==
    ASSUME NEW data, IsSeq(data), NEW at, NEW e, NEW pages
    PROVE  ExecuteOps(Placed(data, at), e, pages) = ExecuteOps(data, e, pages)
<1> DEFINE q == Placed(data, at)
<1>1. /\ Len(q) = Len(data) /\ \A j \in DOMAIN data : q[j].op = data[j].op /\ q[j].result = data[j].result
  BY PlacedOps
<1>2. PICK T : data \in Seq(T)
  BY DEF IsSeq
<1>3. DOMAIN data = 1 .. Len(data) /\ Len(data) \in Nat
  BY <1>2
<1> HIDE DEF q
<1>4. ExecuteOps(q, e, pages) = ExecuteOps(data, e, pages)
  BY <1>1, <1>3, SameOps
<1> QED
  BY <1>4 DEF q

-----------------------------------------------------------------------------
(* The members of a set of numbers in order.                               *)

\* The states of Ascending.
UptoOf(S, n) ==
    CHOOSE upto : upto = [k \in 0 .. n |-> IF k = 0 THEN <<>> ELSE IF k \in S THEN Append(upto[k - 1], k) ELSE upto[k - 1]]
UptoIs(S, n, g) ==
    g = [k \in 0 .. n |-> IF k = 0 THEN <<>> ELSE IF k \in S THEN Append(g[k - 1], k) ELSE g[k - 1]]

LEMMA UptoExist ==
    ASSUME NEW S, NEW n \in Nat
    PROVE  \E g : UptoIs(S, n, g)
<1> DEFINE failing == {k \in Nat : ~\E g : UptoIs(S, k, g)}
<1> SUFFICES ASSUME n \in failing PROVE FALSE
  OBVIOUS
<1>1. PICK k \in failing : \A l \in failing : k <= l
  BY Least
<1>2. CASE k = 0
  <2> DEFINE g == [l \in 0 .. 0 |-> <<>>]
  <2>1. g = [i \in 0 .. 0 |-> IF i = 0 THEN <<>> ELSE IF i \in S THEN Append(g[i - 1], i) ELSE g[i - 1]]
    OBVIOUS
  <2>2. UptoIs(S, 0, g)
    BY <2>1 DEF UptoIs
  <2> QED
    BY <1>1, <1>2, <2>2
<1>3. CASE k # 0
  <2>1. k - 1 \in Nat /\ ~(k <= k - 1) /\ k \in Nat
    BY <1>1, <1>3
  <2>2. PICK g : UptoIs(S, k - 1, g)
    BY <1>1, <2>1
  <2> DEFINE h == [l \in 0 .. k |-> IF l = k THEN IF k \in S THEN Append(g[k - 1], k) ELSE g[k - 1] ELSE g[l]]
  <2>3. ASSUME NEW l \in 0 .. k
        PROVE  h[l] = IF l = 0 THEN <<>> ELSE IF l \in S THEN Append(h[l - 1], l) ELSE h[l - 1]
    <3>1. CASE l = k
      <4>1. k - 1 \in 0 .. k /\ k - 1 # k
        BY <2>1
      <4>2. h[k - 1] = g[k - 1]
        BY <4>1
      <4> QED
        BY <3>1, <4>2, <1>3
    <3>2. CASE l # k
      <4>1. l \in 0 .. k - 1 /\ h[l] = g[l]
        BY <2>1, <3>2
      <4>2. g[l] = IF l = 0 THEN <<>> ELSE IF l \in S THEN Append(g[l - 1], l) ELSE g[l - 1]
        BY <2>2, <4>1 DEF UptoIs
      <4>3. l # 0 => l - 1 \in 0 .. k /\ l - 1 # k
        BY <2>1, <4>1
      <4>4. l # 0 => h[l - 1] = g[l - 1]
        BY <4>3
      <4> QED
        BY <4>1, <4>2, <4>4
    <3> QED
      BY <3>1, <3>2
  <2>4. UptoIs(S, k, h)
    <3>1. h = [l \in 0 .. k |-> h[l]]
      OBVIOUS
    <3> HIDE DEF h
    <3> QED
      BY <2>3, <3>1 DEF UptoIs
  <2> QED
    BY <1>1, <2>4
<1> QED
  BY <1>2, <1>3

LEMMA UptoSteps ==
    ASSUME NEW S, NEW n \in Nat
    PROVE  /\ Ascending(S, n) = UptoOf(S, n)[n] /\ UptoOf(S, n)[0] = <<>>
           /\ \A k \in 1 .. n : UptoOf(S, n)[k] = IF k \in S THEN Append(UptoOf(S, n)[k - 1], k) ELSE UptoOf(S, n)[k - 1]
<1> DEFINE g == UptoOf(S, n)
<1>0. \E h : UptoIs(S, n, h)
  BY UptoExist
<1>1. \E h : h = [k \in 0 .. n |-> IF k = 0 THEN <<>> ELSE IF k \in S THEN Append(h[k - 1], k) ELSE h[k - 1]]
  BY <1>0, Zenon DEF UptoIs
<1>2. g = [k \in 0 .. n |-> IF k = 0 THEN <<>> ELSE IF k \in S THEN Append(g[k - 1], k) ELSE g[k - 1]]
  BY <1>1, Zenon DEF UptoOf
<1>3. Ascending(S, n) = g[n]
  BY Zenon DEF Ascending, UptoOf
<1> HIDE DEF g
<1>4. g[0] = <<>>
  BY <1>2
<1>5. ASSUME NEW k \in 1 .. n PROVE g[k] = IF k \in S THEN Append(g[k - 1], k) ELSE g[k - 1]
  <2>1. k \in 0 .. n /\ k # 0
    OBVIOUS
  <2>2. g[k] = IF k = 0 THEN <<>> ELSE IF k \in S THEN Append(g[k - 1], k) ELSE g[k - 1]
    BY <1>2, <2>1, Zenon
  <2> QED
    BY <2>1, <2>2, Zenon
<1> QED
  BY <1>3, <1>4, <1>5 DEF g

\* One by one: a property of the first k numbers.
LEMMA Upwards ==
    ASSUME NEW n \in Nat, NEW T, 0 \in T, \A k \in 1 .. n : k - 1 \in T => k \in T
    PROVE  \A k \in 0 .. n : k \in T
<1> DEFINE failing == {k \in 0 .. n : k \notin T}
<1> SUFFICES ASSUME failing # {} PROVE FALSE
  OBVIOUS
<1>1. failing \in SUBSET Nat
  OBVIOUS
<1>2. PICK k \in failing : \A l \in failing : k <= l
  BY <1>1, Least
<1>3. k # 0 /\ k \in 1 .. n /\ k - 1 \in 0 .. n /\ ~(k <= k - 1)
  BY <1>2
<1>4. k - 1 \in T
  BY <1>2, <1>3
<1> QED
  BY <1>2, <1>3, <1>4

\* A sequence of numbers up to k, in their order, that holds those of S.
Ordered(a, S, k) ==
    /\ a \in Seq(1 .. k)
    /\ \A c, d \in DOMAIN a : c < d => a[c] < a[d]
    /\ \A x \in 1 .. k : x \in S <=> \E c \in DOMAIN a : a[c] = x

LEMMA OrderedMore ==
    ASSUME NEW S, NEW k \in Nat \ {0}, NEW a, Ordered(a, S, k - 1)
    PROVE  /\ k \in S => Ordered(Append(a, k), S, k)
           /\ k \notin S => Ordered(a, S, k)
<1>1. a \in Seq(1 .. k - 1) /\ 1 .. k - 1 \subseteq 1 .. k
  BY DEF Ordered
<1>2. a \in Seq(1 .. k) /\ DOMAIN a = 1 .. Len(a) /\ Len(a) \in Nat /\ \A c \in DOMAIN a : a[c] \in 1 .. k - 1
  BY <1>1
<1>3. CASE k \in S
  <2> DEFINE h == Append(a, k)
  <2>1. h \in Seq(1 .. k) /\ Len(h) = Len(a) + 1 /\ DOMAIN h = 1 .. Len(a) + 1 /\ h[Len(a) + 1] = k
        /\ \A c \in DOMAIN a : h[c] = a[c]
    BY <1>2
  <2> HIDE DEF h
  <2>2. ASSUME NEW c \in DOMAIN h, NEW d \in DOMAIN h, c < d PROVE h[c] < h[d]
    <3>1. c \in DOMAIN a /\ h[c] = a[c]
      BY <1>2, <2>1, <2>2
    <3>2. CASE d = Len(a) + 1
      BY <1>2, <2>1, <3>1, <3>2
    <3>3. CASE d # Len(a) + 1
      <4>1. d \in DOMAIN a /\ h[d] = a[d]
        BY <1>2, <2>1, <3>3
      <4> QED
        BY <2>2, <3>1, <4>1 DEF Ordered
    <3> QED
      BY <3>2, <3>3
  <2>3. ASSUME NEW x \in 1 .. k PROVE x \in S <=> \E c \in DOMAIN h : h[c] = x
    <3>1. CASE x = k
      BY <1>2, <1>3, <2>1, <3>1
    <3>2. CASE x # k
      <4>1. x \in 1 .. k - 1
        BY <3>2
      <4>2. (\E c \in DOMAIN h : h[c] = x) <=> \E c \in DOMAIN a : a[c] = x
        <5>1. ASSUME NEW c \in DOMAIN h, h[c] = x PROVE c \in DOMAIN a /\ a[c] = x
          BY <1>2, <2>1, <3>2, <5>1
        <5>2. ASSUME NEW c \in DOMAIN a, a[c] = x PROVE c \in DOMAIN h /\ h[c] = x
          BY <1>2, <2>1, <5>2
        <5> QED
          BY <5>1, <5>2
      <4> QED
        BY <4>1, <4>2 DEF Ordered
    <3> QED
      BY <3>1, <3>2
  <2>4. Ordered(h, S, k)
    BY <2>1, <2>2, <2>3 DEF Ordered
  <2> QED
    BY <1>3, <2>4 DEF h
<1>4. CASE k \notin S
  <2>1. ASSUME NEW x \in 1 .. k PROVE x \in S <=> \E c \in DOMAIN a : a[c] = x
    <3>1. CASE x = k
      BY <1>2, <1>4, <3>1
    <3>2. CASE x # k
      <4>1. x \in 1 .. k - 1
        BY <3>2
      <4> QED
        BY <4>1 DEF Ordered
    <3> QED
      BY <3>1, <3>2
  <2> QED
    BY <1>2, <1>4, <2>1 DEF Ordered
<1> QED
  BY <1>3, <1>4

LEMMA AscendingIs ==
    ASSUME NEW S, NEW n \in Nat
    PROVE  Ordered(Ascending(S, n), S, n)
<1> DEFINE g == UptoOf(S, n)
           T == {k \in Nat : Ordered(g[k], S, k)}
<1>1. /\ Ascending(S, n) = g[n] /\ g[0] = <<>>
      /\ \A k \in 1 .. n : g[k] = IF k \in S THEN Append(g[k - 1], k) ELSE g[k - 1]
  BY UptoSteps
<1> HIDE DEF g
<1>2. 0 \in T
  <2>1. Ordered(<<>>, S, 0)
    BY DEF Ordered
  <2> QED
    BY <1>1, <2>1
<1>3. ASSUME NEW k \in 1 .. n, k - 1 \in T PROVE k \in T
  <2>1. k \in Nat \ {0} /\ Ordered(g[k - 1], S, k - 1)
    BY <1>3
  <2>2. Ordered(g[k], S, k)
    BY <1>1, <2>1, OrderedMore
  <2> QED
    BY <2>1, <2>2
<1>4. n \in T
  <2> HIDE DEF T
  <2> QED
    BY <1>2, <1>3, Upwards
<1> QED
  BY <1>1, <1>4

-----------------------------------------------------------------------------
(* Sorting a finite set by a strict total order.                           *)

Orders(R, S) ==
    /\ \A x, y \in S : x # y => <<x, y>> \in R \/ <<y, x>> \in R
    /\ \A x, y, z \in S : <<x, y>> \in R /\ <<y, z>> \in R => <<x, z>> \in R

LEMMA Foremost ==
    ASSUME NEW S, IsFiniteSet(S), S # {}, NEW R, Orders(R, S)
    PROVE  \E m \in S : \A d \in S \ {m} : <<m, d>> \in R
<1> DEFINE T == {n \in Nat : \A U \in SUBSET S : Cardinality(U) = n + 1 => \E m \in U : \A d \in U \ {m} : <<m, d>> \in R}
<1>1. Cardinality(S) \in Nat \ {0}
  BY FS_EmptySet, FS_CardinalityType
<1> DEFINE N == Cardinality(S) - 1
<1>2. 0 \in T
  <2> SUFFICES ASSUME NEW U \in SUBSET S, Cardinality(U) = 1 PROVE \E m \in U : \A d \in U \ {m} : <<m, d>> \in R
    OBVIOUS
  <2>1. PICK x : U = {x}
    BY FS_Subset, FS_Singleton
  <2> QED
    BY <2>1
<1>3. ASSUME NEW n \in 1 .. N, n - 1 \in T PROVE n \in T
  <2> SUFFICES ASSUME NEW U \in SUBSET S, Cardinality(U) = n + 1 PROVE \E m \in U : \A d \in U \ {m} : <<m, d>> \in R
    OBVIOUS
  <2>1. IsFiniteSet(U) /\ U # {}
    BY FS_Subset, FS_EmptySet
  <2>2. PICK x \in U : TRUE
    BY <2>1
  <2> DEFINE V == U \ {x}
  <2>3. V \in SUBSET S /\ Cardinality(V) = (n - 1) + 1
    <3>1. x \in U /\ IsFiniteSet(U)
      BY <2>1, <2>2
    <3>2. Cardinality(V) = Cardinality(U) - 1
      BY <3>1, FS_RemoveElement
    <3>3. n \in Nat
      BY <1>1
    <3> QED
      BY <3>2, <3>3
  <2>4. PICK m \in V : \A d \in V \ {m} : <<m, d>> \in R
    BY <1>3, <2>3
  <2>5. CASE <<m, x>> \in R
    BY <2>2, <2>4, <2>5
  <2>6. CASE <<m, x>> \notin R
    <3>1. m \in S /\ x \in S /\ m # x /\ <<x, m>> \in R
      BY <2>2, <2>4, <2>6 DEF Orders
    <3>2. \A d \in U \ {x} : <<x, d>> \in R
      BY <2>4, <3>1 DEF Orders
    <3> QED
      BY <2>2, <3>2
  <2> QED
    BY <2>5, <2>6
<1> HIDE DEF T
<1>4. \A k \in 0 .. N : k \in T
  BY <1>1, <1>2, <1>3, Upwards
<1>5. N \in T /\ N + 1 = Cardinality(S)
  BY <1>1, <1>4
<1> QED
  BY <1>5 DEF T

Sorted(s, R) == \A i, j \in DOMAIN s : i < j => <<s[i], s[j]>> \in R

LEMMA Sorts ==
    ASSUME NEW S, IsFiniteSet(S), NEW R, Orders(R, S)
    PROVE  \E s \in SetToSeqs(S) : Sorted(s, R)
<1> DEFINE T == {n \in Nat : \A U \in SUBSET S : Cardinality(U) = n => \E s \in SetToSeqs(U) : Sorted(s, R)}
           N == Cardinality(S)
<1>1. N \in Nat
  BY FS_CardinalityType
<1>2. 0 \in T
  <2> SUFFICES ASSUME NEW U \in SUBSET S, Cardinality(U) = 0 PROVE \E s \in SetToSeqs(U) : Sorted(s, R)
    OBVIOUS
  <2> DEFINE s == [i \in 1 .. 0 |-> 0]
  <2>1. s \in [1 .. Cardinality(U) -> U] /\ DOMAIN s = {}
    OBVIOUS
  <2> HIDE DEF s
  <2>2. s \in SetToSeqs(U) /\ Sorted(s, R)
    BY <2>1 DEF SetToSeqs, Sorted
  <2> QED
    BY <2>2
<1>3. ASSUME NEW n \in 1 .. N, n - 1 \in T PROVE n \in T
  <2> SUFFICES ASSUME NEW U \in SUBSET S, Cardinality(U) = n PROVE \E s \in SetToSeqs(U) : Sorted(s, R)
    OBVIOUS
  <2>1. IsFiniteSet(U) /\ U # {} /\ Orders(R, U) /\ n \in Nat
    BY <1>1, FS_Subset, FS_EmptySet DEF Orders
  <2>2. PICK m \in U : \A d \in U \ {m} : <<m, d>> \in R
    BY <2>1, Foremost
  <2> DEFINE V == U \ {m}
  <2>3. V \in SUBSET S /\ Cardinality(V) = n - 1
    BY <2>1, <2>2, FS_RemoveElement
  <2>4. PICK t \in SetToSeqs(V) : Sorted(t, R)
    BY <1>3, <2>3
  <2>5. t \in [1 .. n - 1 -> V] /\ \A i, j \in 1 .. n - 1 : i # j => t[i] # t[j]
    BY <2>3, <2>4 DEF SetToSeqs
  <2> DEFINE s == [i \in 1 .. n |-> IF i = 1 THEN m ELSE t[i - 1]]
  <2>6. \A i \in 1 .. n : i # 1 => s[i] = t[i - 1] /\ i - 1 \in 1 .. n - 1 /\ s[i] \in V
    BY <2>1, <2>5
  <2>7. 1 \in 1 .. n /\ s[1] = m /\ DOMAIN s = 1 .. n
    BY <2>1
  <2>8. s \in [1 .. n -> U]
    BY <2>1, <2>2, <2>5
  <2> HIDE DEF s
  <2>9. \A i, j \in 1 .. n : i # j => s[i] # s[j]
    <3> SUFFICES ASSUME NEW i \in 1 .. n, NEW j \in 1 .. n, i # j PROVE s[i] # s[j]
      OBVIOUS
    <3>1. CASE i # 1 /\ j # 1
      <4>1. i - 1 # j - 1 /\ s[i] = t[i - 1] /\ s[j] = t[j - 1] /\ i - 1 \in 1 .. n - 1 /\ j - 1 \in 1 .. n - 1
        BY <2>6, <3>1
      <4> QED
        BY <2>5, <4>1
    <3>2. CASE i = 1 \/ j = 1
      BY <2>6, <2>7, <3>2
    <3> QED
      BY <3>1, <3>2
  <2>10. s \in SetToSeqs(U)
    BY <2>8, <2>9 DEF SetToSeqs
  <2>11. Sorted(s, R)
    <3> SUFFICES ASSUME NEW i \in 1 .. n, NEW j \in 1 .. n, i < j PROVE <<s[i], s[j]>> \in R
      BY <2>7 DEF Sorted
    <3>1. j # 1 /\ s[j] \in V
      BY <2>6
    <3>2. CASE i = 1
      BY <2>2, <2>7, <3>1, <3>2
    <3>3. CASE i # 1
      <4>1. s[i] = t[i - 1] /\ s[j] = t[j - 1] /\ i - 1 \in 1 .. n - 1 /\ j - 1 \in 1 .. n - 1 /\ i - 1 < j - 1
        BY <2>6, <3>1, <3>3
      <4>2. DOMAIN t = 1 .. n - 1
        BY <2>5
      <4> QED
        BY <2>4, <4>1, <4>2 DEF Sorted
    <3> QED
      BY <3>2, <3>3
  <2> QED
    BY <2>10, <2>11
<1> HIDE DEF T
<1>4. \A k \in 0 .. N : k \in T
  BY <1>1, <1>2, <1>3, Upwards
<1>5. N \in T
  BY <1>1, <1>4
<1> QED
  BY <1>5 DEF T

\* A listing of a set holds each of its elements once.
LEMMA ListingOf ==
    ASSUME NEW S, IsFiniteSet(S), NEW s \in SetToSeqs(S)
    PROVE  s \in Seq(S) /\ Len(s) = Cardinality(S) /\ ToSet(s) = S /\ \A i, j \in 1 .. Len(s) : s[i] = s[j] => i = j
<1> DEFINE n == Cardinality(S)
<1>1. n \in Nat
  BY FS_CardinalityType
<1>2. s \in [1 .. n -> S] /\ \A i, j \in 1 .. n : i # j => s[i] # s[j]
  BY DEF SetToSeqs
<1>3. s \in Injection(1 .. n, S)
  BY <1>2 DEF Injection, IsInjective
<1>4. IsFiniteSet(1 .. n) /\ Cardinality(1 .. n) = n
  BY <1>1, FS_Interval
<1>5. s \in Surjection(1 .. n, S)
  BY <1>3, <1>4, FS_Injection
<1>6. s \in Seq(S) /\ Len(s) = n
  BY <1>1, <1>2
<1>7. ToSet(s) = S
  BY <1>2, <1>5 DEF ToSet, Surjection
<1> QED
  BY <1>2, <1>6, <1>7

-----------------------------------------------------------------------------
(* The layout of a function, and a profile of one run.                     *)

\* A profile: finitely many edges between blocks of f.
Profile(f, edges) == \E n \in Nat : edges \in [1 .. n -> (DOMAIN f.blocks) \X (DOMAIN f.blocks)]

LEMMA CountsAre ==
    ASSUME NEW f, NEW edges, Profile(f, edges), NEW b, NEW c
    PROVE  /\ Count(edges, b, c) \in Nat /\ Heat(edges, b) \in Nat
           /\ Count(edges, b, c) > 0 <=> \E i \in DOMAIN edges : edges[i] = <<b, c>>
<1>1. PICK n \in Nat : DOMAIN edges = 1 .. n
  BY DEF Profile
<1>2. IsFiniteSet(DOMAIN edges)
  BY <1>1, FS_Interval
<1> DEFINE D == {i \in DOMAIN edges : edges[i] = <<b, c>>}
           E == {i \in DOMAIN edges : edges[i][1] = b}
           F == {i \in DOMAIN edges : edges[i][2] = b}
<1>3. IsFiniteSet(D) /\ IsFiniteSet(E) /\ IsFiniteSet(F)
  <2>1. D \in SUBSET DOMAIN edges /\ E \in SUBSET DOMAIN edges /\ F \in SUBSET DOMAIN edges
    OBVIOUS
  <2> QED
    BY <1>2, <2>1, FS_Subset
<1>4. Cardinality(D) \in Nat /\ Cardinality(E) \in Nat /\ Cardinality(F) \in Nat
  BY <1>3, FS_CardinalityType
<1>5. Cardinality(D) = 0 <=> D = {}
  BY <1>3, FS_EmptySet
<1>6. Count(edges, b, c) = Cardinality(D) /\ Heat(edges, b) = Cardinality(E) + Cardinality(F)
  BY DEF Count, Heat
<1>7. D # {} <=> \E i \in DOMAIN edges : edges[i] = <<b, c>>
  OBVIOUS
<1> HIDE DEF D, E, F
<1> QED
  BY <1>4, <1>5, <1>6, <1>7

\* Addresses tell blocks apart.
LEMMA AddressesTell ==
    ASSUME NEW f, WellFormed(f)
    PROVE  /\ \A b \in DOMAIN f.blocks : EntryAddress(f.blocks[b]) \in Nat
           /\ \A b, c \in DOMAIN f.blocks : EntryAddress(f.blocks[b]) = EntryAddress(f.blocks[c]) => b = c
           /\ IsFiniteSet(DOMAIN f.blocks) /\ Cardinality(DOMAIN f.blocks) = Len(f.blocks)
           /\ 1 \in DOMAIN f.blocks /\ DOMAIN f.blocks \in SUBSET Nat
<1>1. DOMAIN f.blocks = 1 .. Len(f.blocks) /\ Len(f.blocks) \in Nat
  BY DEF WellFormed
<1>2. f.blocks # <<>> /\ \A b, c \in DOMAIN f.blocks : EntryAddress(f.blocks[b]) = EntryAddress(f.blocks[c]) => b = c
  BY DEF WellFormed, Verify
<1>3. Len(f.blocks) # 0
  <2>1. Len(f.blocks) = 0 => f.blocks = <<>>
    BY <1>1 DEF WellFormed
  <2> QED
    BY <1>2, <2>1
<1>4. IsFiniteSet(1 .. Len(f.blocks)) /\ Cardinality(1 .. Len(f.blocks)) = Len(f.blocks)
  BY <1>1, FS_Interval
<1> QED
  BY <1>1, <1>2, <1>3, <1>4 DEF WellFormed

LEMMA HotInOrder ==
    ASSUME NEW f, WellFormed(f), NEW edges, Profile(f, edges), NEW S \in SUBSET DOMAIN f.blocks
    PROVE  ByHeat(f, edges, S) \in SetToSeqs(S)
<1> DEFINE R == {p \in S \X S : Hotter(f, edges, p[1], p[2])}
           h == [b \in S |-> Heat(edges, b)]
           a == [b \in S |-> EntryAddress(f.blocks[b])]
<1>1. \A b, c \in S : Hotter(f, edges, b, c) <=> (h[b] > h[c] \/ (h[b] = h[c] /\ a[b] < a[c]))
  BY DEF Hotter
<1>2. h \in [S -> Nat] /\ a \in [S -> Nat] /\ \A b, c \in S : a[b] = a[c] => b = c
  BY CountsAre, AddressesTell
<1>3. \A b, c \in S : <<b, c>> \in R <=> Hotter(f, edges, b, c)
  OBVIOUS
<1> HIDE DEF R, h, a
<1>4. \A b, c \in S : <<b, c>> \in R <=> (h[b] > h[c] \/ (h[b] = h[c] /\ a[b] < a[c]))
  BY <1>1, <1>3
<1>5. Orders(R, S)
  <2>1. \A x, y \in S : x # y => <<x, y>> \in R \/ <<y, x>> \in R
    BY <1>2, <1>4
  <2>2. ASSUME NEW x \in S, NEW y \in S, NEW z \in S, <<x, y>> \in R, <<y, z>> \in R PROVE <<x, z>> \in R
    <3>1. h[x] \in Nat /\ h[y] \in Nat /\ h[z] \in Nat /\ a[x] \in Nat /\ a[y] \in Nat /\ a[z] \in Nat
      BY <1>2
    <3>2. (h[x] > h[y] \/ (h[x] = h[y] /\ a[x] < a[y])) /\ (h[y] > h[z] \/ (h[y] = h[z] /\ a[y] < a[z]))
      BY <1>4, <2>2
    <3>3. h[x] > h[z] \/ (h[x] = h[z] /\ a[x] < a[z])
      BY <3>1, <3>2
    <3> QED
      BY <1>4, <3>3
  <2> QED
    BY <2>1, <2>2 DEF Orders
<1>6. IsFiniteSet(S)
  BY AddressesTell, FS_Subset
<1>7. PICK s \in SetToSeqs(S) : Sorted(s, R)
  BY <1>5, <1>6, Sorts
<1>8. \A i, j \in DOMAIN s : i < j => Hotter(f, edges, s[i], s[j])
  <2>1. s \in Seq(S) /\ DOMAIN s = 1 .. Len(s)
    BY <1>6, ListingOf
  <2>2. \A i \in DOMAIN s : s[i] \in S
    BY <2>1
  <2> QED
    BY <1>3, <1>7, <2>2 DEF Sorted
<1> QED
  BY <1>8 DEF InOrder, ByHeat

LEMMA ColdInOrder ==
    ASSUME NEW f, WellFormed(f), NEW S \in SUBSET DOMAIN f.blocks
    PROVE  ByIndex(S) \in SetToSeqs(S)
<1> DEFINE R == {p \in S \X S : p[1] < p[2]}
<1>1. S \in SUBSET Nat /\ IsFiniteSet(S)
  BY AddressesTell, FS_Subset
<1>2. \A b, c \in S : <<b, c>> \in R <=> b < c
  OBVIOUS
<1> HIDE DEF R
<1>3. Orders(R, S)
  BY <1>1, <1>2 DEF Orders
<1>4. PICK s \in SetToSeqs(S) : Sorted(s, R)
  BY <1>1, <1>3, Sorts
<1>5. \A i, j \in DOMAIN s : i < j => s[i] < s[j]
  <2>1. s \in Seq(S) /\ DOMAIN s = 1 .. Len(s)
    BY <1>1, ListingOf
  <2>2. \A i \in DOMAIN s : s[i] \in S
    BY <2>1
  <2> QED
    BY <1>2, <1>4, <2>2 DEF Sorted
<1> QED
  BY <1>5 DEF InOrder, ByIndex

-----------------------------------------------------------------------------
(* The chain the layout begins with: HotColdLayout's loop, step by step.   *)

GrownIs(f, edges, n, g) == g = [k \in 0 .. n |-> IF k = 0 THEN <<1>> ELSE Extended(f, edges, g[k - 1])]

LEMMA GrownExists ==
    ASSUME NEW f, NEW edges, NEW n \in Nat
    PROVE  \E g : GrownIs(f, edges, n, g)
<1> DEFINE T == {k \in Nat : \E g : GrownIs(f, edges, k, g)}
<1>1. 0 \in T
  <2> DEFINE g == [k \in 0 .. 0 |-> <<1>>]
  <2>1. g = [k \in 0 .. 0 |-> IF k = 0 THEN <<1>> ELSE Extended(f, edges, g[k - 1])]
    OBVIOUS
  <2>2. GrownIs(f, edges, 0, g)
    BY <2>1 DEF GrownIs
  <2> QED
    BY <2>2
<1>2. ASSUME NEW k \in 1 .. n, k - 1 \in T PROVE k \in T
  <2>1. k - 1 \in Nat /\ k \in Nat
    OBVIOUS
  <2>2. PICK g : GrownIs(f, edges, k - 1, g)
    BY <1>2
  <2> DEFINE h == [l \in 0 .. k |-> IF l = k THEN Extended(f, edges, g[k - 1]) ELSE g[l]]
  <2>3. ASSUME NEW l \in 0 .. k
        PROVE  h[l] = IF l = 0 THEN <<1>> ELSE Extended(f, edges, h[l - 1])
    <3>1. CASE l = k
      <4>1. k - 1 \in 0 .. k /\ k - 1 # k /\ l # 0
        BY <2>1, <3>1
      <4>2. h[k - 1] = g[k - 1]
        BY <4>1
      <4> QED
        BY <3>1, <4>1, <4>2
    <3>2. CASE l # k
      <4>1. l \in 0 .. k - 1 /\ h[l] = g[l]
        BY <2>1, <3>2
      <4>2. g[l] = IF l = 0 THEN <<1>> ELSE Extended(f, edges, g[l - 1])
        BY <2>2, <4>1 DEF GrownIs
      <4>3. l # 0 => l - 1 \in 0 .. k /\ l - 1 # k
        BY <2>1, <4>1
      <4>4. l # 0 => h[l - 1] = g[l - 1]
        BY <4>3
      <4> QED
        BY <4>1, <4>2, <4>4
    <3> QED
      BY <3>1, <3>2
  <2>4. h = [l \in 0 .. k |-> IF l = 0 THEN <<1>> ELSE Extended(f, edges, h[l - 1])]
    <3>1. h = [l \in 0 .. k |-> h[l]]
      OBVIOUS
    <3> HIDE DEF h
    <3> QED
      BY <2>3, <3>1
  <2> HIDE DEF h
  <2>5. GrownIs(f, edges, k, h)
    BY <2>4 DEF GrownIs
  <2> QED
    BY <2>1, <2>5
<1> HIDE DEF T
<1>3. \A k \in 0 .. n : k \in T
  BY <1>1, <1>2, Upwards
<1>4. n \in T
  BY <1>3
<1> QED
  BY <1>4 DEF T

Growth(f, edges, g) ==
    /\ g[0] = <<1>> /\ Chain(f, edges) = g[Len(f.blocks)]
    /\ \A k \in 1 .. Len(f.blocks) : g[k] = Extended(f, edges, g[k - 1])

LEMMA ChainGrown ==
    ASSUME NEW f, NEW edges, Len(f.blocks) \in Nat
    PROVE  \E g : Growth(f, edges, g)
<1> DEFINE n == Len(f.blocks)
           g == CHOOSE grown : grown = [k \in 0 .. n |-> IF k = 0 THEN <<1>> ELSE Extended(f, edges, grown[k - 1])]
<1>1. Chain(f, edges) = g[n]
  BY Zenon DEF Chain
<1>2. \E grown : grown = [k \in 0 .. n |-> IF k = 0 THEN <<1>> ELSE Extended(f, edges, grown[k - 1])]
  <2>1. \E grown : GrownIs(f, edges, n, grown)
    BY GrownExists
  <2> HIDE DEF n
  <2> QED
    BY <2>1 DEF GrownIs
<1>3. g = [k \in 0 .. n |-> IF k = 0 THEN <<1>> ELSE Extended(f, edges, g[k - 1])]
  BY <1>2, Zenon
<1> HIDE DEF g
<1>4. g[0] = <<1>>
  BY <1>3
<1>5. ASSUME NEW k \in 1 .. n PROVE g[k] = Extended(f, edges, g[k - 1])
  <2>1. k \in 0 .. n /\ k # 0
    OBVIOUS
  <2> QED
    BY <1>3, <2>1
<1>6. Growth(f, edges, g)
  BY <1>1, <1>4, <1>5 DEF Growth
<1> QED
  BY <1>6

\* A list that holds no element twice.
OnceEach(s, S) == s \in Seq(S) /\ Len(s) # 0 /\ \A i, j \in 1 .. Len(s) : s[i] = s[j] => i = j

LEMMA ExtendedOnce ==
    ASSUME NEW f, WellFormed(f), NEW edges, Profile(f, edges), NEW chain, OnceEach(chain, DOMAIN f.blocks)
    PROVE  OnceEach(Extended(f, edges, chain), DOMAIN f.blocks)
<1> DEFINE B == DOMAIN f.blocks
           from == chain[Len(chain)]
           next == NextBlocks(f, edges, chain)
           R == {p \in next \X next : HotterFrom(f, edges, from, p[1], p[2])}
           h == [b \in next |-> Count(edges, from, b)]
           a == [b \in next |-> EntryAddress(f.blocks[b])]
<1>0. next \in SUBSET B /\ IsFiniteSet(next)
  <2>1. next \in SUBSET B
    BY DEF NextBlocks
  <2> QED
    BY <2>1, AddressesTell, FS_Subset
<1>1. \A b, c \in next : HotterFrom(f, edges, from, b, c) <=> (h[b] > h[c] \/ (h[b] = h[c] /\ a[b] < a[c]))
  BY DEF HotterFrom
<1>2. h \in [next -> Nat] /\ a \in [next -> Nat] /\ \A b, c \in next : a[b] = a[c] => b = c
  BY <1>0, CountsAre, AddressesTell
<1>3. \A b, c \in next : <<b, c>> \in R <=> HotterFrom(f, edges, from, b, c)
  OBVIOUS
<1>4. \A b \in next : b \in B /\ b \notin ToSet(chain)
  BY DEF NextBlocks
<1> HIDE DEF R, h, a, next, from
<1>5. \A b, c \in next : <<b, c>> \in R <=> (h[b] > h[c] \/ (h[b] = h[c] /\ a[b] < a[c]))
  BY <1>1, <1>3
<1>6. Orders(R, next)
  <2>1. \A x, y \in next : x # y => <<x, y>> \in R \/ <<y, x>> \in R
    BY <1>2, <1>5
  <2>2. ASSUME NEW x \in next, NEW y \in next, NEW z \in next, <<x, y>> \in R, <<y, z>> \in R PROVE <<x, z>> \in R
    <3>1. h[x] \in Nat /\ h[y] \in Nat /\ h[z] \in Nat /\ a[x] \in Nat /\ a[y] \in Nat /\ a[z] \in Nat
      BY <1>2
    <3>2. (h[x] > h[y] \/ (h[x] = h[y] /\ a[x] < a[y])) /\ (h[y] > h[z] \/ (h[y] = h[z] /\ a[y] < a[z]))
      BY <1>5, <2>2
    <3>3. h[x] > h[z] \/ (h[x] = h[z] /\ a[x] < a[z])
      BY <3>1, <3>2
    <3> QED
      BY <1>5, <3>3
  <2> QED
    BY <2>1, <2>2 DEF Orders
<1>7. CASE next = {}
  <2>1. Extended(f, edges, chain) = chain
    BY <1>7 DEF Extended, next
  <2> QED
    BY <2>1
<1>8. CASE next # {}
  <2> DEFINE c == CHOOSE c \in next : \A d \in next \ {c} : HotterFrom(f, edges, from, c, d)
  <2>1. Extended(f, edges, chain) = Append(chain, c)
    BY <1>8 DEF Extended, next, from
  <2>2. \E m \in next : \A d \in next \ {m} : <<m, d>> \in R
    BY <1>0, <1>6, <1>8, Foremost
  <2>3. c \in next
    BY <1>3, <2>2
  <2> HIDE DEF c
  <2>4. c \in B /\ \A i \in 1 .. Len(chain) : chain[i] # c
    <3>1. DOMAIN chain = 1 .. Len(chain)
      BY DEF OnceEach
    <3> QED
      BY <1>4, <2>3, <3>1 DEF ToSet
  <2>5. OnceEach(Append(chain, c), B)
    BY <2>4 DEF OnceEach
  <2> QED
    BY <2>1, <2>5
<1> QED
  BY <1>7, <1>8

LEMMA ChainOnce ==
    ASSUME NEW f, WellFormed(f), NEW edges, Profile(f, edges)
    PROVE  OnceEach(Chain(f, edges), DOMAIN f.blocks)
<1> DEFINE n == Len(f.blocks)
           B == DOMAIN f.blocks
<1>1. n \in Nat /\ 1 \in B
  BY AddressesTell DEF WellFormed
<1>0. PICK g : Growth(f, edges, g)
  BY <1>1, ChainGrown
<1>2. g[0] = <<1>> /\ Chain(f, edges) = g[n] /\ \A k \in 1 .. n : g[k] = Extended(f, edges, g[k - 1])
  BY <1>0 DEF Growth
<1> DEFINE T == {k \in Nat : OnceEach(g[k], B)}
<1>3. 0 \in T
  <2> HIDE DEF B
  <2>1. <<1>> \in Seq(B) /\ Len(<<1>>) = 1
    BY <1>1
  <2>2. OnceEach(<<1>>, B)
    BY <2>1 DEF OnceEach
  <2> QED
    BY <1>2, <2>2 DEF T
<1>4. ASSUME NEW k \in 1 .. n, k - 1 \in T PROVE k \in T
  BY <1>2, <1>4, ExtendedOnce
<1> HIDE DEF T
<1>5. \A k \in 0 .. n : k \in T
  BY <1>1, <1>3, <1>4, Upwards
<1>6. n \in T
  BY <1>1, <1>5
<1> QED
  BY <1>2, <1>6 DEF T

-----------------------------------------------------------------------------
(* The profile of one run: the chain is the path the run takes.            *)

\* The edges one run leaves in the profile.
EdgesOf(p) == [i \in 1 .. Len(p) - 1 |-> <<p[i], p[i + 1]>>]

LEMMA EdgesProfile ==
    ASSUME NEW f, NEW p \in Seq(DOMAIN f.blocks), Len(p) # 0
    PROVE  Profile(f, EdgesOf(p))
<1>1. Len(p) - 1 \in Nat /\ \A i \in 1 .. Len(p) : p[i] \in DOMAIN f.blocks
  OBVIOUS
<1>2. EdgesOf(p) \in [1 .. Len(p) - 1 -> (DOMAIN f.blocks) \X (DOMAIN f.blocks)]
  <2>1. ASSUME NEW i \in 1 .. Len(p) - 1 PROVE <<p[i], p[i + 1]>> \in (DOMAIN f.blocks) \X (DOMAIN f.blocks)
    <3>1. i \in 1 .. Len(p) /\ i + 1 \in 1 .. Len(p)
      BY <1>1
    <3>2. p[i] \in DOMAIN f.blocks /\ p[i + 1] \in DOMAIN f.blocks
      BY <1>1, <3>1
    <3> DEFINE B == DOMAIN f.blocks
               x == p[i]
               y == p[i + 1]
    <3>3. x \in B /\ y \in B
      BY <3>2
    <3> HIDE DEF B, x, y
    <3>4. <<x, y>> \in B \X B
      BY <3>3
    <3> QED
      BY <3>4 DEF B, x, y
  <2> QED
    BY <2>1 DEF EdgesOf
<1> QED
  BY <1>1, <1>2 DEF Profile

\* The first k elements of p.
FrontOf(p, k) == [i \in 1 .. k |-> p[i]]

\* Where the run entered no block twice, the chain retraces it.
LEMMA NextOnPath ==
    ASSUME NEW f, NEW p, OnceEach(p, DOMAIN f.blocks), NEW k \in 1 .. Len(p)
    PROVE  NextBlocks(f, EdgesOf(p), FrontOf(p, k)) = IF k = Len(p) THEN {} ELSE {p[k + 1]}
<1> DEFINE chain == FrontOf(p, k)
           edges == EdgesOf(p)
           n == Len(p)
<1>1. n \in Nat /\ p \in Seq(DOMAIN f.blocks) /\ \A i \in 1 .. n : p[i] \in DOMAIN f.blocks
  BY DEF OnceEach
<1>2. Len(chain) = k /\ chain[Len(chain)] = p[k] /\ DOMAIN chain = 1 .. k /\ \A i \in 1 .. k : chain[i] = p[i]
  BY <1>1 DEF FrontOf
<1>3. ToSet(chain) = {p[i] : i \in 1 .. k}
  BY <1>2 DEF ToSet
<1>4. Profile(f, edges)
  BY EdgesProfile DEF OnceEach
<1>5. DOMAIN edges = 1 .. n - 1 /\ \A i \in 1 .. n - 1 : edges[i] = <<p[i], p[i + 1]>>
  BY DEF EdgesOf
<1> HIDE DEF chain, edges
<1>6. \A c : Count(edges, p[k], c) > 0 <=> \E i \in 1 .. n - 1 : p[i] = p[k] /\ p[i + 1] = c
  <2> SUFFICES ASSUME NEW c PROVE Count(edges, p[k], c) > 0 <=> \E i \in 1 .. n - 1 : p[i] = p[k] /\ p[i + 1] = c
    OBVIOUS
  <2>1. Count(edges, p[k], c) > 0 <=> \E i \in DOMAIN edges : edges[i] = <<p[k], c>>
    BY <1>4, CountsAre
  <2>2. ASSUME NEW i \in 1 .. n - 1 PROVE edges[i] = <<p[k], c>> <=> p[i] = p[k] /\ p[i + 1] = c
    <3>1. edges[i] = <<p[i], p[i + 1]>>
      BY <1>5
    <3> QED
      BY <3>1
  <2>3. DOMAIN edges = 1 .. n - 1
    BY <1>5
  <2> QED
    BY ONLY <2>1, <2>2, <2>3
<1>7. \A i \in 1 .. n - 1 : p[i] = p[k] <=> i = k
  BY <1>1 DEF OnceEach
<1>8. \A c : Count(edges, p[k], c) > 0 <=> k \in 1 .. n - 1 /\ p[k + 1] = c
  BY <1>6, <1>7
<1>9. k \in 1 .. n - 1 => p[k + 1] \in DOMAIN f.blocks \ ToSet(chain)
  <2> SUFFICES ASSUME k \in 1 .. n - 1 PROVE p[k + 1] \in DOMAIN f.blocks /\ \A i \in 1 .. k : p[i] # p[k + 1]
    BY <1>3
  <2>1. k + 1 \in 1 .. n /\ \A i \in 1 .. k : i \in 1 .. n /\ i # k + 1
    BY <1>1
  <2> QED
    BY <1>1, <2>1 DEF OnceEach
<1>10. NextBlocks(f, edges, chain) = {c \in DOMAIN f.blocks \ ToSet(chain) : k \in 1 .. n - 1 /\ p[k + 1] = c}
  BY <1>2, <1>8 DEF NextBlocks
<1>11. CASE k = n
  BY <1>1, <1>10, <1>11 DEF chain, edges
<1>12. CASE k # n
  <2>1. k \in 1 .. n - 1
    BY <1>1, <1>12
  <2> QED
    BY <1>9, <1>10, <1>12, <2>1 DEF chain, edges
<1> QED
  BY <1>11, <1>12

LEMMA ExtendedOnPath ==
    ASSUME NEW f, NEW p, OnceEach(p, DOMAIN f.blocks), NEW k \in 1 .. Len(p)
    PROVE  Extended(f, EdgesOf(p), FrontOf(p, k)) = IF k = Len(p) THEN FrontOf(p, k) ELSE FrontOf(p, k + 1)
<1> DEFINE chain == FrontOf(p, k)
           edges == EdgesOf(p)
           next == NextBlocks(f, edges, chain)
           n == Len(p)
<1>1. n \in Nat
  BY DEF OnceEach
<1>2. next = IF k = n THEN {} ELSE {p[k + 1]}
  BY NextOnPath
<1>3. CASE k = n
  <2>1. next = {}
    BY <1>2, <1>3
  <2> QED
    BY <1>3, <2>1 DEF Extended
<1>4. CASE k # n
  <2> DEFINE x == p[k + 1]
             c == CHOOSE c \in next : \A d \in next \ {c} : HotterFrom(f, edges, chain[Len(chain)], c, d)
  <2>1. next = {x}
    BY <1>2, <1>4
  <2>2. Extended(f, edges, chain) = Append(chain, c)
    BY <2>1 DEF Extended
  <2> HIDE DEF next, x
  <2>3. c = x
    BY <2>1
  <2> HIDE DEF c
  <2>4. Append(FrontOf(p, k), x) = FrontOf(p, k + 1)
    <3>1. Len(FrontOf(p, k)) = k /\ DOMAIN FrontOf(p, k) = 1 .. k
      BY <1>1 DEF FrontOf
    <3>2. FrontOf(p, k) \in Seq({p[i] : i \in 1 .. n})
      BY <1>1 DEF FrontOf
    <3>3. x = p[k + 1]
      BY DEF x
    <3> QED
      BY <1>1, <3>1, <3>2, <3>3 DEF FrontOf
  <2> QED
    BY <1>4, <2>2, <2>3, <2>4
<1> QED
  BY <1>3, <1>4

LEMMA ChainOnPath ==
    ASSUME NEW f, WellFormed(f), NEW p, OnceEach(p, DOMAIN f.blocks), NEW edges
    PROVE  edges = EdgesOf(p) /\ p[1] = 1 => Chain(f, edges) = p
<1> DEFINE n == Len(f.blocks)
           l == Len(p)
<1>1. n \in Nat /\ l \in Nat \ {0}
  BY DEF WellFormed, OnceEach
<1>2. l <= n
  <2>1. p \in Injection(1 .. l, DOMAIN f.blocks)
    BY <1>1 DEF OnceEach, Injection, IsInjective
  <2>2. Cardinality(1 .. l) = l
    <3>1. 1 \in Int /\ l \in Int /\ ~(1 > l) /\ l - 1 + 1 = l
      BY <1>1
    <3> HIDE DEF l
    <3> QED
      BY <3>1, FS_Interval
  <2> QED
    BY <2>1, <2>2, AddressesTell, FS_Injection
<1>3. PICK g : /\ g[0] = <<1>> /\ Chain(f, edges) = g[n]
               /\ \A k \in 1 .. n : g[k] = Extended(f, edges, g[k - 1])
  <2>1. PICK g : Growth(f, edges, g)
    BY <1>1, ChainGrown
  <2> QED
    BY <2>1 DEF Growth
<1> SUFFICES ASSUME edges = EdgesOf(p), p[1] = 1 PROVE Chain(f, edges) = p
  OBVIOUS
<1> DEFINE T == {k \in Nat : g[k] = IF k < l THEN FrontOf(p, k + 1) ELSE FrontOf(p, l)}
<1>4. 0 \in T
  <2>1. FrontOf(p, 1) = <<1>>
    BY DEF FrontOf
  <2> QED
    BY <1>1, <1>3, <2>1
<1>5. ASSUME NEW k \in 1 .. n, k - 1 \in T PROVE k \in T
  <2>1. k - 1 \in Nat /\ k \in Nat /\ (k - 1) + 1 = k
    BY <1>1
  <2>2. g[k] = Extended(f, edges, g[k - 1])
    BY <1>3
  <2>3. CASE k < l
    <3>1. g[k - 1] = FrontOf(p, k) /\ k \in 1 .. l /\ k # l
      BY <1>1, <1>5, <2>1, <2>3
    <3>2. g[k] = FrontOf(p, k + 1)
      BY <2>2, <3>1, ExtendedOnPath
    <3> QED
      BY <2>1, <2>3, <3>2
  <2>4. CASE ~(k < l)
    <3>1. g[k - 1] = FrontOf(p, l) /\ l \in 1 .. l
      <4>1. CASE k = l
        BY <1>1, <1>5, <2>1, <4>1
      <4>2. CASE k # l
        BY <1>1, <1>5, <2>1, <2>4, <4>2
      <4> QED
        BY <4>1, <4>2
    <3>2. g[k] = FrontOf(p, l)
      BY <2>2, <3>1, ExtendedOnPath
    <3> QED
      BY <2>1, <2>4, <3>2
  <2> QED
    BY <2>3, <2>4
<1> HIDE DEF T
<1>6. \A k \in 0 .. n : k \in T
  BY <1>1, <1>4, <1>5, Upwards
<1>7. n \in T
  BY <1>1, <1>6
<1>8. g[n] = FrontOf(p, l)
  BY <1>1, <1>2, <1>7 DEF T
<1>9. FrontOf(p, l) = p
  BY DEF FrontOf, OnceEach
<1> QED
  BY <1>3, <1>8, <1>9

-----------------------------------------------------------------------------
(* The whole layout: the chain, what else was profiled, the rest.          *)

LEMMA JoinedMembers ==
    ASSUME NEW A, NEW a \in Seq(A), NEW b \in Seq(A)
    PROVE  a \o b \in Seq(A) /\ Len(a \o b) = Len(a) + Len(b) /\ ToSet(a \o b) = ToSet(a) \cup ToSet(b)
<1>1. /\ a \o b \in Seq(A) /\ Len(a \o b) = Len(a) + Len(b) /\ Len(a) \in Nat /\ Len(b) \in Nat
      /\ \A i \in 1 .. Len(a) : (a \o b)[i] = a[i]
      /\ \A i \in 1 .. Len(b) : (a \o b)[Len(a) + i] = b[i]
      /\ DOMAIN a = 1 .. Len(a) /\ DOMAIN b = 1 .. Len(b) /\ DOMAIN (a \o b) = 1 .. Len(a) + Len(b)
  OBVIOUS
<1> DEFINE c == a \o b
           n == Len(a)
           m == Len(b)
<1>2. \A i \in 1 .. n : i \in 1 .. n + m
  BY <1>1
<1>3. \A i \in 1 .. m : n + i \in 1 .. n + m
  BY <1>1
<1>4. \A i \in 1 .. n + m : i \in 1 .. n \/ (i - n \in 1 .. m /\ n + (i - n) = i)
  BY <1>1
<1> HIDE DEF c, n, m
<1>5. ToSet(c) \subseteq ToSet(a) \cup ToSet(b)
  <2> SUFFICES ASSUME NEW i \in 1 .. n + m PROVE c[i] \in ToSet(a) \cup ToSet(b)
    BY <1>1 DEF ToSet, c, n, m
  <2> QED
    BY <1>1, <1>4 DEF ToSet, c, n, m
<1>6. ToSet(a) \cup ToSet(b) \subseteq ToSet(c)
  <2>1. ASSUME NEW i \in 1 .. n PROVE a[i] \in ToSet(c)
    BY <1>1, <1>2 DEF ToSet, c, n, m
  <2>2. ASSUME NEW i \in 1 .. m PROVE b[i] \in ToSet(c)
    BY <1>1, <1>3 DEF ToSet, c, n, m
  <2>3. ToSet(a) = {a[i] : i \in 1 .. n} /\ ToSet(b) = {b[i] : i \in 1 .. m}
    BY <1>1 DEF ToSet, n, m
  <2> QED
    BY <2>1, <2>2, <2>3
<1> QED
  BY <1>1, <1>5, <1>6 DEF c

\* A list without repetition is as long as its set of elements; and conversely.
LEMMA OnceCounts ==
    ASSUME NEW B, IsFiniteSet(B), NEW s, OnceEach(s, B)
    PROVE  Cardinality(ToSet(s)) = Len(s) /\ ToSet(s) \in SUBSET B
<1> DEFINE n == Len(s)
           C == ToSet(s)
<1>1. n \in Nat /\ s \in [1 .. n -> B] /\ \A i, j \in 1 .. n : s[i] = s[j] => i = j
  BY DEF OnceEach
<1>2. C = {s[i] : i \in 1 .. n}
  BY <1>1 DEF ToSet
<1>3. C \in SUBSET B
  BY <1>1, <1>2
<1>4. s \in Bijection(1 .. n, C)
  BY <1>1, <1>2 DEF Bijection, Injection, Surjection, IsInjective
<1>5. IsFiniteSet(1 .. n) /\ Cardinality(1 .. n) = n
  <2>1. 1 \in Int /\ n \in Int /\ n - 1 + 1 = n /\ (1 > n => n = 0)
    BY <1>1
  <2> HIDE DEF n
  <2> QED
    BY <2>1, FS_Interval
<1>6. ExistsBijection(1 .. n, C)
  BY <1>4 DEF ExistsBijection
<1>7. Cardinality(C) = Cardinality(1 .. n)
  <2> HIDE DEF C, n
  <2> QED
    BY <1>5, <1>6, FS_Bijection
<1> QED
  BY <1>3, <1>5, <1>7

LEMMA CountsOnce ==
    ASSUME NEW B, NEW s \in Seq(B), Len(s) # 0, Cardinality(ToSet(s)) = Len(s)
    PROVE  OnceEach(s, B)
<1> DEFINE n == Len(s)
           C == ToSet(s)
<1>1. n \in Nat /\ s \in [1 .. n -> B]
  OBVIOUS
<1>2. C = {s[i] : i \in 1 .. n}
  BY <1>1 DEF ToSet
<1> HIDE DEF C
<1>3. s \in Surjection(1 .. n, C)
  <2>1. s \in [1 .. n -> C]
    BY <1>1, <1>2
  <2>2. \A c \in C : \E i \in 1 .. n : s[i] = c
    BY <1>2
  <2> QED
    BY <2>1, <2>2 DEF Surjection
<1>4. IsFiniteSet(1 .. n) /\ Cardinality(1 .. n) = n
  <2>1. 1 \in Int /\ n \in Int /\ n - 1 + 1 = n /\ (1 > n => n = 0)
    BY <1>1
  <2> HIDE DEF n
  <2> QED
    BY <2>1, FS_Interval
<1>5. s \in Injection(1 .. n, C)
  <2> HIDE DEF C
  <2> QED
    BY <1>3, <1>4, FS_Surjection DEF C
<1>6. \A i, j \in 1 .. n : s[i] = s[j] => i = j
  BY <1>5 DEF Injection, IsInjective
<1> QED
  BY <1>6 DEF OnceEach

\* The layout of f for the profile of a run p.
LaidOut(f, p, edges, layout) == edges = EdgesOf(p) /\ layout = HotColdLayout(f, edges)

LEMMA LayoutHolds ==
    ASSUME NEW f, WellFormed(f), NEW p \in Seq(DOMAIN f.blocks), Len(p) # 0, NEW edges, NEW layout,
           LaidOut(f, p, edges, layout)
    PROVE  /\ Len(layout) = Len(f.blocks) /\ ToSet(layout) = DOMAIN f.blocks
           /\ p[1] = 1 /\ Cardinality(ToSet(p)) = Len(p) => IsPrefix(p, layout)
<1> DEFINE B == DOMAIN f.blocks
           chain == Chain(f, edges)
           off == B \ ToSet(chain)
           hot == {b \in off : Heat(edges, b) > 0}
           cold == off \ hot
           H == ByHeat(f, edges, hot)
           K == ByIndex(cold)
<1>1. layout = chain \o H \o K
  BY DEF HotColdLayout, LaidOut
<1>2. Profile(f, edges)
  BY EdgesProfile DEF LaidOut
<1>3. OnceEach(chain, B)
  BY <1>2, ChainOnce
<1>4. IsFiniteSet(B) /\ Cardinality(B) = Len(f.blocks)
  BY AddressesTell
<1>5. hot \in SUBSET B /\ cold \in SUBSET B /\ off \in SUBSET B
  OBVIOUS
<1>6. H \in SetToSeqs(hot)
  <2>1. \A S \in SUBSET B : ByHeat(f, edges, S) \in SetToSeqs(S)
    BY <1>2, HotInOrder
  <2> HIDE DEF hot, off
  <2> QED
    BY <1>5, <2>1
<1>7. K \in SetToSeqs(cold)
  BY <1>5, ColdInOrder
<1>8. ToSet(chain) \cup hot \cup cold = B /\ off \cap ToSet(chain) = {} /\ hot \cap cold = {} /\ hot \cup cold = off
  BY <1>3, <1>4, OnceCounts
<1>9. Cardinality(ToSet(chain)) = Len(chain) /\ ToSet(chain) \in SUBSET B /\ chain \in Seq(B)
  BY <1>3, <1>4, OnceCounts DEF OnceEach
<1> HIDE DEF chain, hot, cold, H, K, off, B
<1>10. IsFiniteSet(hot) /\ IsFiniteSet(cold) /\ IsFiniteSet(off) /\ IsFiniteSet(ToSet(chain))
  BY <1>4, <1>5, <1>9, FS_Subset
<1>11. H \in Seq(hot) /\ Len(H) = Cardinality(hot) /\ ToSet(H) = hot
  BY <1>6, <1>10, ListingOf
<1>12. K \in Seq(cold) /\ Len(K) = Cardinality(cold) /\ ToSet(K) = cold
  BY <1>7, <1>10, ListingOf
<1>13. H \in Seq(B) /\ K \in Seq(B)
  BY <1>5, <1>11, <1>12
<1>14. chain \o H \in Seq(B) /\ Len(chain \o H) = Len(chain) + Len(H) /\ ToSet(chain \o H) = ToSet(chain) \cup hot
  <2>1. /\ chain \o H \in Seq(B) /\ Len(chain \o H) = Len(chain) + Len(H)
        /\ ToSet(chain \o H) = ToSet(chain) \cup ToSet(H)
    BY <1>9, <1>13, JoinedMembers
  <2> QED
    BY <1>11, <2>1
<1> DEFINE head == chain \o H
<1>15. head \in Seq(B)
  BY <1>14
<1> HIDE DEF head
<1>16. /\ head \o K \in Seq(B) /\ Len(head \o K) = Len(head) + Len(K)
       /\ ToSet(head \o K) = ToSet(head) \cup cold
  <2>1. /\ head \o K \in Seq(B) /\ Len(head \o K) = Len(head) + Len(K)
        /\ ToSet(head \o K) = ToSet(head) \cup ToSet(K)
    BY <1>13, <1>15, JoinedMembers
  <2> QED
    BY <1>12, <2>1
<1>17. /\ Cardinality(off) = Cardinality(hot) + Cardinality(cold)
       /\ Cardinality(B) = Cardinality(ToSet(chain)) + Cardinality(off)
  <2>1. hot \cup cold = off /\ hot \cap cold = {} /\ ToSet(chain) \cup off = B /\ ToSet(chain) \cap off = {}
    BY <1>5, <1>8
  <2>2. Cardinality(hot \cup cold) = Cardinality(hot) + Cardinality(cold) - Cardinality(hot \cap cold)
    BY <1>10, FS_Union
  <2>3. Cardinality(ToSet(chain) \cup off) = Cardinality(ToSet(chain)) + Cardinality(off) - Cardinality(ToSet(chain) \cap off)
    BY <1>10, FS_Union
  <2>4. Cardinality({}) = 0 /\ Cardinality(hot) \in Nat /\ Cardinality(cold) \in Nat /\ Cardinality(ToSet(chain)) \in Nat
    BY <1>10, FS_EmptySet, FS_CardinalityType
  <2>5. Cardinality(off) \in Nat
    BY <1>10, FS_CardinalityType
  <2> DEFINE x == Cardinality(hot)
             y == Cardinality(cold)
             z == Cardinality(off)
             w == Cardinality(ToSet(chain))
  <2>6. z = x + y - 0 /\ Cardinality(B) = w + z - 0 /\ x \in Nat /\ y \in Nat /\ z \in Nat /\ w \in Nat
    BY <2>1, <2>2, <2>3, <2>4, <2>5
  <2> HIDE DEF x, y, z, w
  <2>7. z = x + y /\ Cardinality(B) = w + z
    BY <2>6
  <2> QED
    BY <2>7 DEF x, y, z, w
<1>18. Len(layout) = Len(f.blocks) /\ ToSet(layout) = B
  <2>1. Len(layout) = Len(chain) + Len(H) + Len(K)
    BY <1>1, <1>14, <1>16 DEF head
  <2>2. Len(chain) \in Nat /\ Len(H) \in Nat /\ Len(K) \in Nat
    BY <1>9, <1>13
  <2>3. ToSet(layout) = ToSet(chain) \cup hot \cup cold
    BY <1>1, <1>14, <1>16 DEF head
  <2> QED
    BY <1>4, <1>8, <1>9, <1>11, <1>12, <1>17, <2>1, <2>2, <2>3
<1>19. ASSUME p[1] = 1, Cardinality(ToSet(p)) = Len(p) PROVE IsPrefix(p, layout)
  <2>1. OnceEach(p, B)
    BY <1>19, CountsOnce DEF B
  <2>2. chain = p
    BY <1>19, <2>1, ChainOnPath DEF chain, B, LaidOut
  <2>3. /\ Len(head) \in Nat /\ Len(p) \in Nat /\ Len(p) <= Len(head) /\ Len(head) <= Len(layout)
        /\ \A i \in 1 .. Len(p) : head[i] = p[i] /\ i \in 1 .. Len(head)
    <3>1. chain \in Seq(B) /\ H \in Seq(B) /\ K \in Seq(B) /\ head \in Seq(B) /\ layout = head \o K
      BY <1>1, <1>9, <1>13, <1>15 DEF head
    <3>2. Len(head) = Len(p) + Len(H) /\ Len(layout) = Len(head) + Len(K) /\ Len(p) \in Nat /\ Len(H) \in Nat /\ Len(K) \in Nat
      BY <1>14, <1>16, <2>2, <3>1 DEF head
    <3>3. \A i \in 1 .. Len(p) : head[i] = p[i]
      BY <1>9, <1>13, <2>2 DEF head
    <3> QED
      BY <3>2, <3>3
  <2>4. layout \in Seq(B) /\ \A i \in 1 .. Len(head) : layout[i] = head[i]
    BY <1>1, <1>13, <1>15, <1>16 DEF head
  <2>5. Len(p) <= Len(layout) /\ \A i \in 1 .. Len(p) : layout[i] = p[i]
    BY <2>3, <2>4
  <2>6. SubSeq(p, 1, Len(p)) = SubSeq(layout, 1, Len(p))
    BY <2>3, <2>4, <2>5
  <2> QED
    BY <2>5, <2>6 DEF IsPrefix
<1> QED
  BY <1>18, <1>19 DEF B
=============================================================================
