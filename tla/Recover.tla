------------------------------- MODULE Recover -------------------------------
(***************************************************************************)
(* Control-flow recovery (nx86-arm64-lift/src/recover.rs, recover_cfg):    *)
(* decode on demand from the entries, follow branches and fall-throughs    *)
(* with a worklist, split what was decoded into blocks at the leaders, and *)
(* collect the blocks reachable from each entry.                           *)
(*                                                                         *)
(* Addresses are counted in instructions; LastAddress is that of the last  *)
(* instruction of the address space.  The code of the program is a         *)
(* function from the addresses of its window to instructions; a word that  *)
(* does not decode is one of kind "Undecoded".                             *)
(***************************************************************************)
EXTENDS Integers, Sequences, FiniteSets

CONSTANTS LastAddress, Programs, EntryLists
ASSUME TopAssumption == LastAddress \in Nat
\* A window is contiguous and cannot hold both ends of the address space.
ASSUME ProgramsAssumption ==
    \A p \in Programs :
        /\ DOMAIN p \subseteq 0 .. LastAddress /\ IsFiniteSet(DOMAIN p)
        /\ 0 \notin DOMAIN p \/ LastAddress \notin DOMAIN p
        /\ \A a \in DOMAIN p : p[a].k \in {"Branch", "CondBranch"} => p[a].target \in Int
ASSUME EntriesAssumption == EntryLists \subseteq Seq(Int)

VARIABLES code, entries, phase,
          work, addr,         \* the worklist and the address being explored
          decoded, leaders,   \* the decoded addresses; what each leads to follows from code
          blocks, functions   \* the result
vars == <<code, entries, phase, work, addr, decoded, leaders, blocks, functions>>

Init ==
    /\ code \in Programs /\ entries \in EntryLists
    /\ phase = "check"
    /\ work = <<>> /\ addr = 0
    /\ decoded = {} /\ leaders = {}
    /\ blocks = <<>> /\ functions = <<>>

-----------------------------------------------------------------------------
(* What the instruction at an address is and where it leads.               *)

Ends == {"Svc", "Branch", "CondBranch"}
Decodable(a) == a \in DOMAIN code /\ code[a].k # "Undecoded"
Falls(a) == Decodable(a) /\ code[a].k \notin Ends
\* Past the last instruction the address wraps.
After(a) == IF a < LastAddress THEN a + 1 ELSE 0
\* A conditional branch at the very last instruction has no fall-through.
Targets(a) ==
    CASE code[a].k = "Branch" -> <<code[a].target>>
      [] code[a].k = "CondBranch" -> IF a < LastAddress THEN <<code[a].target, a + 1>> ELSE <<code[a].target>>
      [] OTHER -> <<>>
SetOf(s) == {s[i] : i \in DOMAIN s}

-----------------------------------------------------------------------------
(* recover_cfg and explore.                                                *)

CheckEntries ==
    /\ phase = "check"
    /\ IF entries # <<>> /\ \A i \in DOMAIN entries : Decodable(entries[i])
       THEN phase' = "pop" /\ work' = entries /\ leaders' = SetOf(entries)
       ELSE phase' = "error" /\ UNCHANGED <<work, leaders>>
    /\ UNCHANGED <<code, entries, addr, decoded, blocks, functions>>

Pop ==
    /\ phase = "pop" /\ work # <<>>
    /\ addr' = work[Len(work)]
    /\ work' = SubSeq(work, 1, Len(work) - 1)
    /\ phase' = "scan"
    /\ UNCHANGED <<code, entries, decoded, leaders, blocks, functions>>

\* Mutant: exploration does not stop at what was explored before.
UnreadableOnly == ~Decodable(addr)
ScanStops == addr \in decoded \/ ~Decodable(addr)

StopScan ==
    /\ phase = "scan" /\ ScanStops
    /\ phase' = "pop"
    /\ UNCHANGED <<code, entries, work, addr, decoded, leaders, blocks, functions>>

\* Mutant: branch targets are explored but are not leaders.
ScanEndUnmarked ==
    /\ phase = "scan" /\ ~ScanStops /\ code[addr].k \in Ends
    /\ decoded' = decoded \cup {addr} /\ work' = work \o Targets(addr) /\ phase' = "pop"
    /\ UNCHANGED <<code, entries, addr, leaders, blocks, functions>>
\* Mutant: branch targets are leaders but are not explored.
ScanEndUnfollowed ==
    /\ phase = "scan" /\ ~ScanStops /\ code[addr].k \in Ends
    /\ decoded' = decoded \cup {addr} /\ leaders' = leaders \cup SetOf(Targets(addr)) /\ phase' = "pop"
    /\ UNCHANGED <<code, entries, work, addr, blocks, functions>>
ScanEnd ==
    /\ phase = "scan" /\ ~ScanStops /\ code[addr].k \in Ends
    /\ decoded' = decoded \cup {addr}
    /\ leaders' = leaders \cup SetOf(Targets(addr))
    /\ work' = work \o Targets(addr)
    /\ phase' = "pop"
    /\ UNCHANGED <<code, entries, addr, blocks, functions>>

ScanOn ==
    /\ phase = "scan" /\ ~ScanStops /\ code[addr].k \notin Ends
    /\ decoded' = decoded \cup {addr}
    /\ IF addr < LastAddress THEN addr' = addr + 1 /\ UNCHANGED phase
       ELSE phase' = "pop" /\ UNCHANGED addr
    /\ UNCHANGED <<code, entries, work, leaders, blocks, functions>>

-----------------------------------------------------------------------------
(* build_blocks and discover_functions.                                    *)

\* Mutant: a block runs on over a leader.
StopsAtJumps(a) == ~Falls(a) \/ After(a) \notin decoded
StopsAt(a) == ~Falls(a) \/ After(a) \in leaders \/ After(a) \notin decoded

\* Mutant: a block at every instruction.
EveryDecoded == decoded
Starts == leaders \cap decoded
LastOf(s) == CHOOSE a \in decoded : a >= s /\ StopsAt(a) /\ \A b \in s .. a - 1 : ~StopsAt(b)
LeadsTo(a) == IF Falls(a) THEN {After(a)} ELSE SetOf(Targets(a))
Terminator(a) ==
    CASE Falls(a) -> IF After(a) \in Starts THEN "Fallthrough" ELSE "Unresolved"
      [] code[a].k = "CondBranch" /\ a < LastAddress -> "CondBranch"
      [] code[a].k = "Svc" -> "Exit"
      [] OTHER -> IF code[a].target \in decoded THEN "DirectBranch" ELSE "Unresolved"
Block(s) == [last |-> LastOf(s), terminator |-> Terminator(LastOf(s)), successors |-> LeadsTo(LastOf(s)) \cap decoded]

\* Mutant: only the successors of the entry.
OneStep(table, e) == ({e} \cup UNION {table[s].successors : s \in {e} \cap DOMAIN table}) \cap DOMAIN table
Reachable(table, e) ==
    LET reach[n \in 0 .. Cardinality(DOMAIN table)] ==
            IF n = 0 THEN {e} \cap DOMAIN table
            ELSE reach[n - 1] \cup UNION {table[s].successors : s \in reach[n - 1] \cap DOMAIN table}
    IN  reach[Cardinality(DOMAIN table)] \cap DOMAIN table

BuildBlocks ==
    /\ phase = "pop" /\ work = <<>>
    /\ LET table == [s \in Starts |-> Block(s)]
       IN  /\ blocks' = table
           /\ functions' = [e \in SetOf(entries) |-> Reachable(table, e)]
    /\ phase' = "done"
    /\ UNCHANGED <<code, entries, work, addr, decoded, leaders>>

Next == CheckEntries \/ Pop \/ StopScan \/ ScanEnd \/ ScanOn \/ BuildBlocks
Spec == Init /\ [][Next]_vars

-----------------------------------------------------------------------------
(* Properties.                                                             *)

TypeOK ==
    /\ entries \in EntryLists
    /\ phase \in {"check", "pop", "scan", "done", "error"}
    /\ work \in Seq(Int) /\ addr \in Int
    /\ decoded \subseteq {a \in DOMAIN code : code[a].k # "Undecoded"}
    /\ leaders \subseteq Int

\* Exploration that runs into explored code has run into a leader, so a block
\* begins there and both edges resolve (explore: "such an address is always a
\* leader").
ReentryIsLeader == phase = "scan" /\ addr \in decoded => addr \in leaders

\* What was decoded is exactly what the entries reach: every entry and every
\* decodable successor of a decoded instruction, and nothing that a smaller
\* set closed in that way leaves out (explore).
ClosedUnder(S) ==
    /\ \A i \in DOMAIN entries : entries[i] \in S
    /\ \A a \in S : Decodable(a) => \A b \in LeadsTo(a) : Decodable(b) /\ (Falls(a) => a < LastAddress) => b \in S
ExploredIsReachable ==
    phase = "done" => /\ ClosedUnder(decoded)
                      /\ \A S \in SUBSET DOMAIN code : ClosedUnder(S) => decoded \subseteq S

\* Every decoded instruction is in exactly one block, and blocks are entered
\* only at their starts (build_blocks).
BlocksPartition ==
    phase = "done" =>
        /\ \A a \in decoded : Cardinality({s \in DOMAIN blocks : a \in s .. blocks[s].last}) = 1
        /\ \A s \in DOMAIN blocks :
              /\ s .. blocks[s].last \subseteq decoded
              /\ blocks[s].successors \subseteq DOMAIN blocks

\* A function holds its entry and every successor of its blocks, and every
\* block belongs to a function (discover_functions).
FunctionsClosed ==
    phase = "done" =>
        /\ \A e \in DOMAIN functions :
              e \in functions[e] /\ \A s \in functions[e] : blocks[s].successors \subseteq functions[e]
        /\ DOMAIN blocks \subseteq UNION {functions[e] : e \in DOMAIN functions}

\* Recovery ends on every program, loops included.
Terminates == <>(phase \in {"done", "error"})
=============================================================================
