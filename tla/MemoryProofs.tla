---------------------------- MODULE MemoryProofs ----------------------------
(***************************************************************************)
(* Proofs about the two halves of the memory crate.                        *)
(*                                                                         *)
(* GuestMemory, for every set of pages, permission sets and registry size, *)
(* and whatever mprotect refuses: native code stays within the host        *)
(* protections, the mirror maps agree, mirrors stay grounded, and the      *)
(* registry knows the executable pages.                                    *)
(*                                                                         *)
(* SmcSignal, for every set of pages and every ring size: each ring is a   *)
(* bounded first-in first-out queue, no code page is left writable         *)
(* unnoticed, and no completed store to code goes unseen.                  *)
(***************************************************************************)
EXTENDS GuestMemory, SmcSignal, FiniteSetTheorems, SequenceTheorems, TLAPS

-----------------------------------------------------------------------------
(* What the registry may be: finite, for it never outgrows its capacity.   *)
IsRegistry(S) == /\ S \subseteq Page
                 /\ IsFiniteSet(S)
                 /\ Cardinality(S) <= MaxExecPages

LEMMA RegistryWithout ==
    ASSUME NEW S, IsRegistry(S), NEW p
    PROVE  IsRegistry(S \ {p})
<1>1. /\ IsFiniteSet(S \ {p})
      /\ Cardinality(S \ {p}) = IF p \in S THEN Cardinality(S) - 1
                                           ELSE Cardinality(S)
  BY FS_RemoveElement DEF IsRegistry
<1>2. Cardinality(S) \in Nat
  BY FS_CardinalityType DEF IsRegistry
<1>3. Cardinality(S \ {p}) <= MaxExecPages
  BY <1>1, <1>2, BoundAssumption DEF IsRegistry
<1> QED
  BY <1>1, <1>3 DEF IsRegistry

LEMMA RegistryWith ==
    ASSUME NEW S, IsRegistry(S), NEW p \in Page, ~(Cardinality(S) >= MaxExecPages)
    PROVE  IsRegistry(S \cup {p})
<1>1. /\ IsFiniteSet(S \cup {p})
      /\ Cardinality(S \cup {p}) = IF p \in S THEN Cardinality(S)
                                              ELSE Cardinality(S) + 1
  BY FS_AddElement DEF IsRegistry
<1>2. Cardinality(S) \in Nat
  BY FS_CardinalityType DEF IsRegistry
<1>3. Cardinality(S \cup {p}) <= MaxExecPages
  BY <1>1, <1>2, BoundAssumption
<1> QED
  BY <1>1, <1>3 DEF IsRegistry

Failures == SUBSET {"map_page", "unmap_page", "register"}

LEMMA RegisterTyped ==
    ASSUME IsRegistry(exec_pages), failed \in Failures, NEW p \in Page,
           \/ Register(p) \/ Unregister(p) \/ UNCHANGED <<exec_pages, failed>>
    PROVE  IsRegistry(exec_pages') /\ failed' \in Failures
<1>1. failed' \in Failures
  BY DEF Failures, Register, Unregister
<1>2. IsRegistry(exec_pages')
  <2>1. CASE exec_pages' = exec_pages
    BY <2>1
  <2>2. CASE exec_pages' = exec_pages \ {p}
    BY <2>2, RegistryWithout
  <2>3. CASE exec_pages' = exec_pages \cup {p} /\ ~RegistryFull
    BY <2>3, RegistryWith DEF RegistryFull
  <2> QED
    BY <2>1, <2>2, <2>3 DEF Register, Unregister
<1> QED
  BY <1>1, <1>2

-----------------------------------------------------------------------------
(* The types of everything else, in parts. *)
TableTyped ==
    /\ pages \in SUBSET Page
    /\ permissions \in [Page -> Permissions \cup {{}}]
    /\ data \in [Page -> Value \cup {NoData}]
ArenaTyped ==
    /\ arena \in [Page -> Value]
    /\ host \in [Page -> SUBSET Access]
    /\ fastmem \in [Page -> SUBSET {"read", "write"}]
MirrorsTyped ==
    /\ mirrors \in [Page -> Page \cup {NoPage}]
    /\ mirror_sources \in [Page -> SUBSET Page]
GenerationsTyped == page_generations \in [Page -> 0..NoGeneration]
RegistryTyped == IsRegistry(exec_pages) /\ failed \in Failures
FlagsTyped == /\ arena_base \in BOOLEAN
              /\ debug_mode \in BOOLEAN
              /\ misused \in BOOLEAN
              /\ crashed \in BOOLEAN

Typed == /\ TableTyped /\ ArenaTyped /\ MirrorsTyped
         /\ GenerationsTyped /\ RegistryTyped /\ FlagsTyped

LEMMA TypedIsTypeOK == Typed => TypeOK
BY DEF Typed, TableTyped, ArenaTyped, MirrorsTyped, GenerationsTyped,
       RegistryTyped, FlagsTyped, IsRegistry, Failures, TypeOK

LEMMA InitTyped == Init => Typed
<1> SUFFICES ASSUME Init PROVE Typed
  OBVIOUS
<1>1. TableTyped
  BY DEF Init, TableTyped
<1>2. ArenaTyped
  BY ValueAssumption DEF Init, ArenaTyped
<1>3. MirrorsTyped
  BY DEF Init, MirrorsTyped
<1>4. GenerationsTyped
  BY BoundAssumption DEF Init, GenerationsTyped, NoGeneration
<1>5. RegistryTyped
  BY FS_EmptySet, BoundAssumption DEF Init, RegistryTyped, IsRegistry, Failures
<1>6. FlagsTyped
  BY DEF Init, FlagsTyped
<1> QED
  BY <1>1, <1>2, <1>3, <1>4, <1>5, <1>6 DEF Typed

(* What the shared pieces of the operations do to the types. *)
LEMMA ArenaUnmappedTyped ==
    ASSUME ArenaTyped, NEW p \in Page, ArenaUnmapped(p)
    PROVE  arena' \in [Page -> Value] /\ host' \in [Page -> SUBSET Access]
BY ValueAssumption DEF ArenaUnmapped, arena_vars, ArenaTyped

LEMMA DroppedTyped ==
    ASSUME TableTyped, ArenaTyped, NEW p \in Page, Dropped(p)
    PROVE  TableTyped' /\ fastmem' \in [Page -> SUBSET {"read", "write"}]
BY DEF Dropped, FastmemCleared, TableTyped, ArenaTyped

LEMMA FastmemTyped ==
    ASSUME ArenaTyped, NEW p \in Page, NEW perms \in Permissions
    PROVE  /\ FastmemSet(p, perms) \in [Page -> SUBSET {"read", "write"}]
           /\ FastmemCleared(p) \in [Page -> SUBSET {"read", "write"}]
BY PermissionAssumption DEF FastmemSet, FastmemCleared, Access, ArenaTyped

LEMMA KeepsTypes ==
    /\ TableTyped /\ UNCHANGED table_vars => TableTyped'
    /\ ArenaTyped /\ UNCHANGED <<arena_vars, fastmem>> => ArenaTyped'
    /\ MirrorsTyped /\ UNCHANGED mirror_vars => MirrorsTyped'
    /\ GenerationsTyped /\ UNCHANGED page_generations => GenerationsTyped'
    /\ RegistryTyped /\ UNCHANGED <<exec_pages, failed>> => RegistryTyped'
BY DEF TableTyped, table_vars, ArenaTyped, arena_vars, MirrorsTyped,
       mirror_vars, GenerationsTyped, RegistryTyped, IsRegistry, Failures

LEMMA MapPageTyped ==
    ASSUME Typed, NEW p \in Page, NEW perms \in Permissions, MapPage(p, perms)
    PROVE  Typed'
<1> USE DEF Typed, MapPage
<1>1. TableTyped'
  BY ValueAssumption DEF TableTyped
<1>2. ArenaTyped'
  BY FastmemTyped, ValueAssumption, PermissionAssumption
  DEF ArenaTyped, arena_vars
<1>3. MirrorsTyped'
  BY KeepsTypes
<1>4. GenerationsTyped'
  BY BoundAssumption DEF GenerationsTyped, NoGeneration
<1>5. RegistryTyped'
  BY RegisterTyped DEF RegistryTyped
<1>6. FlagsTyped'
  BY DEF FlagsTyped, Misuse
<1> QED
  BY <1>1, <1>2, <1>3, <1>4, <1>5, <1>6

LEMMA MapPageFailsTyped ==
    ASSUME Typed, NEW p \in Page, MapPageFails(p)
    PROVE  Typed'
<1> USE DEF Typed, MapPageFails
<1>1. TableTyped'
  BY DEF TableTyped
<1>2. ArenaTyped'
  BY ValueAssumption DEF ArenaTyped, arena_vars, FastmemCleared, Access
<1>3. MirrorsTyped' /\ GenerationsTyped'
  BY KeepsTypes
<1>4. RegistryTyped'
  BY DEF RegistryTyped, IsRegistry, Failures
<1>5. FlagsTyped'
  BY DEF FlagsTyped
<1> QED
  BY <1>1, <1>2, <1>3, <1>4, <1>5

LEMMA SetPagePermissionsTyped ==
    ASSUME Typed, NEW p \in Page, NEW perms \in Permissions,
           SetPagePermissions(p, perms)
    PROVE  Typed'
<1> USE DEF Typed, SetPagePermissions
<1>1. TableTyped'
  BY DEF TableTyped
<1>2. ArenaTyped'
  BY FastmemTyped, PermissionAssumption DEF ArenaTyped
<1>3. MirrorsTyped' /\ GenerationsTyped'
  BY KeepsTypes
<1>4. RegistryTyped'
  BY RegisterTyped DEF RegistryTyped, Reregister
<1>5. FlagsTyped'
  BY DEF FlagsTyped
<1> QED
  BY <1>1, <1>2, <1>3, <1>4, <1>5

LEMMA UnmapPageTyped ==
    ASSUME Typed, NEW p \in Page, UnmapPage(p)
    PROVE  Typed'
<1> USE DEF Typed, UnmapPage
<1>1. TableTyped'
  BY DroppedTyped
<1>2. ArenaTyped'
  BY DroppedTyped, ArenaUnmappedTyped DEF ArenaTyped
<1>3. MirrorsTyped'
  BY KeepsTypes
<1>4. GenerationsTyped'
  BY BoundAssumption DEF GenerationsTyped, NoGeneration
<1>5. RegistryTyped'
  BY RegistryWithout DEF RegistryTyped, IsRegistry, Failures
<1>6. FlagsTyped'
  BY DEF FlagsTyped, Misuse
<1> QED
  BY <1>1, <1>2, <1>3, <1>4, <1>5, <1>6

LEMMA UnmapPageFailsTyped ==
    ASSUME Typed, NEW p \in Page, UnmapPageFails(p)
    PROVE  Typed'
<1> USE DEF Typed, UnmapPageFails
<1>1. TableTyped' /\ ArenaTyped' /\ MirrorsTyped' /\ GenerationsTyped'
  BY KeepsTypes
<1>2. RegistryTyped'
  <2>1. IsRegistry(exec_pages \ {p})
    BY RegistryWithout DEF RegistryTyped
  <2> QED
    BY <2>1 DEF RegistryTyped, Failures
<1>3. FlagsTyped'
  BY DEF FlagsTyped
<1> QED
  BY <1>1, <1>2, <1>3

LEMMA MirrorPageTyped ==
    ASSUME Typed, NEW mirror \in Page, NEW canonical \in Page,
           NEW perms \in Permissions, MirrorPage(mirror, canonical, perms)
    PROVE  Typed'
<1> USE DEF Typed, MirrorPage
<1>1. TableTyped'
  <2>1. CopyOf(canonical) \in Value
    BY DEF CopyOf, TableTyped, ArenaTyped
  <2> QED
    BY <2>1 DEF TableTyped
<1>2. ArenaTyped'
  BY FastmemTyped, ArenaUnmappedTyped DEF ArenaTyped
<1>3. MirrorsTyped'
  BY DEF MirrorsTyped, mirror_vars
<1>4. GenerationsTyped' /\ RegistryTyped'
  BY KeepsTypes
<1>5. FlagsTyped'
  BY DEF FlagsTyped
<1> QED
  BY <1>1, <1>2, <1>3, <1>4, <1>5

LEMMA UnmapMirrorTyped ==
    ASSUME Typed, NEW mirror \in Page, UnmapMirror(mirror)
    PROVE  Typed'
<1> USE DEF Typed, UnmapMirror
<1>1. TableTyped'
  BY DroppedTyped
<1>2. ArenaTyped'
  BY DroppedTyped, ArenaUnmappedTyped DEF ArenaTyped
<1>3. MirrorsTyped'
  BY DEF MirrorsTyped, SourcesWithout
<1>4. GenerationsTyped' /\ RegistryTyped'
  BY KeepsTypes
<1>5. FlagsTyped'
  BY DEF FlagsTyped, Misuse
<1> QED
  BY <1>1, <1>2, <1>3, <1>4, <1>5

LEMMA WriteTyped ==
    ASSUME Typed, NEW range \in Ranges, NEW value \in Value, Write(range, value)
    PROVE  Typed'
<1> USE DEF Typed, Write
<1>1. TableTyped'
  BY DEF TableTyped
<1>2. ArenaTyped'
  BY DEF ArenaTyped
<1>3. MirrorsTyped' /\ RegistryTyped'
  BY KeepsTypes
<1>4. GenerationsTyped'
  <2>1. ASSUME NEW q \in Bumped(range)
        PROVE  page_generations[q] + 1 \in 0..NoGeneration
    BY BoundAssumption DEF Bumped, GenerationsTyped, NoGeneration
  <2> QED
    BY <2>1 DEF GenerationsTyped
<1>5. FlagsTyped'
  BY DEF FlagsTyped
<1> QED
  BY <1>1, <1>2, <1>3, <1>4, <1>5

LEMMA StepTyped == Typed /\ [Next]_vars => Typed'
<1> SUFFICES ASSUME Typed, [Next]_vars PROVE Typed'
  OBVIOUS
<1>1. CASE \E p \in Page, perms \in Permissions :
             MapPage(p, perms) \/ SetPagePermissions(p, perms)
  BY <1>1, MapPageTyped, SetPagePermissionsTyped
<1>2. CASE \E p \in Page : MapPageFails(p) \/ UnmapPage(p) \/ UnmapPageFails(p)
                              \/ UnmapMirror(p)
  BY <1>2, MapPageFailsTyped, UnmapPageTyped, UnmapPageFailsTyped,
     UnmapMirrorTyped
<1>3. CASE \E p \in Page : ReadPage(p)
  BY <1>3, KeepsTypes DEF ReadPage, Typed, FlagsTyped
<1>4. CASE \E m, c \in Page, perms \in Permissions : MirrorPage(m, c, perms)
  BY <1>4, MirrorPageTyped
<1>5. CASE \E range \in Ranges, v \in Value \ {Zero} : Write(range, v)
  BY <1>5, WriteTyped
<1>6. CASE \E p \in Page, v \in Value \ {Zero} : FastStore(p, v)
  <2> USE DEF FastStore, Typed
  <2>1. TableTyped' /\ MirrorsTyped' /\ GenerationsTyped' /\ RegistryTyped'
    BY <1>6, KeepsTypes
  <2>2. ArenaTyped'
    BY <1>6 DEF ArenaTyped
  <2>3. FlagsTyped'
    BY <1>6 DEF FlagsTyped
  <2> QED
    BY <2>1, <2>2, <2>3
<1>7. CASE UNCHANGED vars
  <2>1. UNCHANGED <<table_vars, arena_vars, fastmem, mirror_vars,
                    page_generations, exec_pages, failed, arena_base,
                    debug_mode, misused, crashed>>
    BY <1>7 DEF vars
  <2> QED
    BY <2>1, KeepsTypes DEF Typed, FlagsTyped
<1> QED
  BY <1>1, <1>2, <1>3, <1>4, <1>5, <1>6, <1>7 DEF Next

LEMMA AlwaysTyped == Spec => []Typed
  BY InitTyped, StepTyped, PTL DEF Spec

(* Page table, arena, mirror maps and registry are well typed, and the     *)
(* registry never outgrows its array.                                      *)
THEOREM TypeCorrect == Spec => []TypeOK
  BY AlwaysTyped, TypedIsTypeOK, PTL

-----------------------------------------------------------------------------
(* With the types, FastmemWithinHost is inductive: whatever revokes a host *)
(* protection clears or sets the fastmem byte in the same step.            *)
LEMMA StepWithinHost ==
    Typed /\ FastmemWithinHost /\ [Next]_vars => FastmemWithinHost'
<1> SUFFICES ASSUME Typed, FastmemWithinHost, [Next]_vars, NEW q \in Page
             PROVE  fastmem'[q] \subseteq host'[q]
  BY DEF FastmemWithinHost
<1>0. /\ host \in [Page -> SUBSET Access]
      /\ fastmem \in [Page -> SUBSET {"read", "write"}]
      /\ fastmem[q] \subseteq host[q]
  BY DEF Typed, ArenaTyped, FastmemWithinHost
<1>1. ASSUME fastmem'[q] = {} \/ (fastmem'[q] = fastmem[q] /\ host'[q] = host[q])
      PROVE  fastmem'[q] \subseteq host'[q]
  BY <1>0, <1>1
<1>2. ASSUME NEW p \in Page, NEW perms \in Permissions,
             MapPage(p, perms) \/ SetPagePermissions(p, perms)
      PROVE  fastmem'[q] \subseteq host'[q]
  <2>1. /\ fastmem' = FastmemSet(p, perms)
        /\ host' = IF arena_base THEN [host EXCEPT ![p] = perms] ELSE host
    BY <1>2 DEF MapPage, SetPagePermissions, arena_vars
  <2> QED
    BY <1>0, <2>1 DEF FastmemSet
<1>3. ASSUME NEW p \in Page, MapPageFails(p)
      PROVE  fastmem'[q] \subseteq host'[q]
  BY <1>0, <1>1, <1>3 DEF MapPageFails, FastmemCleared, arena_vars
<1>4. ASSUME NEW p \in Page, ArenaUnmapped(p), fastmem' = FastmemCleared(p)
      PROVE  fastmem'[q] \subseteq host'[q]
  BY <1>0, <1>1, <1>4 DEF ArenaUnmapped, FastmemCleared, arena_vars
<1>5. CASE \E p \in Page : UnmapPage(p) \/ UnmapMirror(p)
  BY <1>4, <1>5 DEF UnmapPage, UnmapMirror, Dropped
<1>6. CASE \E m, c \in Page, perms \in Permissions : MirrorPage(m, c, perms)
  BY <1>4, <1>6 DEF MirrorPage
<1>7. CASE UNCHANGED <<host, fastmem>>
  BY <1>1, <1>7
<1>8. \/ \E p \in Page, perms \in Permissions :
             MapPage(p, perms) \/ SetPagePermissions(p, perms)
      \/ \E p \in Page : MapPageFails(p) \/ UnmapPage(p) \/ UnmapMirror(p)
      \/ \E m, c \in Page, perms \in Permissions : MirrorPage(m, c, perms)
      \/ UNCHANGED <<host, fastmem>>
  BY DEF Next, UnmapPageFails, ReadPage, Write, FastStore, arena_vars, vars
<1> QED
  BY <1>2, <1>3, <1>5, <1>6, <1>7, <1>8

(* Native code that finds a fastmem bit set may touch the host page, in    *)
(* every mode and after every refused mprotect.                            *)
THEOREM FastmemAlwaysWithinHost == Spec => []FastmemWithinHost
<1>1. Init => FastmemWithinHost
  BY DEF Init, FastmemWithinHost
<1>2. Typed /\ FastmemWithinHost /\ [Next]_vars => FastmemWithinHost'
  BY StepWithinHost
<1> QED
  BY <1>1, <1>2, AlwaysTyped, PTL DEF Spec

-----------------------------------------------------------------------------
(* With the types, MirrorIndexExact is inductive. *)
LEMMA StepIndexExact ==
    Typed /\ MirrorIndexExact /\ [Next]_vars => MirrorIndexExact'
<1> SUFFICES ASSUME Typed, MirrorIndexExact, [Next]_vars,
                    NEW m \in Page, NEW c \in Page
             PROVE  m \in mirror_sources'[c] <=> mirrors'[m] = c
  BY DEF MirrorIndexExact
<1> USE DEF Typed, MirrorsTyped, MirrorIndexExact
<1>1. CASE UNCHANGED mirror_vars
  BY <1>1 DEF mirror_vars
<1>2. ASSUME NEW mirror \in Page, NEW canonical \in Page,
             mirrors[mirror] = NoPage,
             mirrors' = [mirrors EXCEPT ![mirror] = canonical],
             mirror_sources' = [mirror_sources EXCEPT
                                  ![canonical] = @ \cup {mirror}]
      PROVE  m \in mirror_sources'[c] <=> mirrors'[m] = c
  <2>1. mirror \notin mirror_sources[c]
    BY <1>2, PageAssumption
  <2> QED
    BY <1>2, <2>1
<1>3. ASSUME NEW mirror \in Page, UnmapMirror(mirror)
      PROVE  m \in mirror_sources'[c] <=> mirrors'[m] = c
  BY <1>3, PageAssumption DEF UnmapMirror, SourcesWithout
<1>4. CASE \E mirror, canonical \in Page, perms \in Permissions :
             MirrorPage(mirror, canonical, perms)
  BY <1>1, <1>2, <1>4 DEF MirrorPage, MayMirror, IsMirror
<1>5. \/ \E mirror \in Page : UnmapMirror(mirror)
      \/ \E mirror, canonical \in Page, perms \in Permissions :
             MirrorPage(mirror, canonical, perms)
      \/ UNCHANGED mirror_vars
  BY DEF Next, MapPage, MapPageFails, SetPagePermissions, UnmapPage,
         UnmapPageFails, ReadPage, Write, FastStore, vars
<1> QED
  BY <1>1, <1>3, <1>4, <1>5

(* The reverse map of mirrors is the exact inverse of the forward one,     *)
(* even where the operations are applied to pages of the wrong kind.       *)
THEOREM MirrorIndexAlwaysExact == Spec => []MirrorIndexExact
<1>1. Init => MirrorIndexExact
  BY PageAssumption DEF Init, MirrorIndexExact
<1>2. Typed /\ MirrorIndexExact /\ [Next]_vars => MirrorIndexExact'
  BY StepIndexExact
<1> QED
  BY <1>1, <1>2, AlwaysTyped, PTL DEF Spec

-----------------------------------------------------------------------------
(* Why mirrors stay grounded: unmap_mirror() does not ask whether it is    *)
(* given a mirror, but a canonical page has a generation, which only pages *)
(* mapped by map_page have.                                                *)
NoDebugMirrors == debug_mode => \A p \in Page : ~IsMirror(p)

WellUsed == ~misused /\ "map_page" \notin failed

PlainPagesCount ==
    WellUsed /\ ~debug_mode =>
        \A p \in pages : ~IsMirror(p) => page_generations[p] # NoGeneration

GroundedInv == NoDebugMirrors /\ PlainPagesCount /\ MirrorsGrounded

(* Neither history variable is ever taken back. *)
LEMMA HistoryGrows ==
    ASSUME [Next]_vars
    PROVE  /\ misused => misused'
           /\ failed \subseteq failed'
<1>1. CASE \E p \in Page, perms \in Permissions : MapPage(p, perms)
  BY <1>1 DEF MapPage, Misuse, Register
<1>2. CASE \E p \in Page, perms \in Permissions : SetPagePermissions(p, perms)
  BY <1>2 DEF SetPagePermissions, Reregister, Register, Unregister
<1>3. CASE \E p \in Page : MapPageFails(p) \/ UnmapPageFails(p) \/ ReadPage(p)
  BY <1>3 DEF MapPageFails, UnmapPageFails, ReadPage
<1>4. CASE \E p \in Page : UnmapPage(p) \/ UnmapMirror(p)
  BY <1>4 DEF UnmapPage, UnmapMirror, Misuse
<1>5. CASE \E m, c \in Page, perms \in Permissions : MirrorPage(m, c, perms)
  BY <1>5 DEF MirrorPage
<1>6. CASE \E range \in Ranges, v \in Value \ {Zero} : Write(range, v)
  BY <1>6 DEF Write
<1>7. CASE \E p \in Page, v \in Value \ {Zero} : FastStore(p, v)
  BY <1>7 DEF FastStore
<1>8. CASE UNCHANGED vars
  BY <1>8 DEF vars
<1> QED
  BY <1>1, <1>2, <1>3, <1>4, <1>5, <1>6, <1>7, <1>8 DEF Next

LEMMA StepPlainPagesCount ==
    ASSUME Typed, NoDebugMirrors, PlainPagesCount, [Next]_vars
    PROVE  NoDebugMirrors' /\ PlainPagesCount'
<1> USE DEF Typed, MirrorsTyped, GenerationsTyped, TableTyped, IsMirror,
            NoDebugMirrors, PlainPagesCount
<1>0. WellUsed' => WellUsed
  BY HistoryGrows DEF WellUsed
<1>1. ASSUME NEW p \in Page, NEW perms \in Permissions, MapPage(p, perms)
      PROVE  NoDebugMirrors' /\ PlainPagesCount'
  BY <1>0, <1>1, BoundAssumption DEF MapPage, mirror_vars, NoGeneration
<1>2. ASSUME NEW p \in Page, MapPageFails(p)
      PROVE  NoDebugMirrors' /\ PlainPagesCount'
  BY <1>2 DEF MapPageFails, mirror_vars, WellUsed
<1>3. ASSUME NEW p \in Page, UnmapPage(p)
      PROVE  NoDebugMirrors' /\ PlainPagesCount'
  BY <1>0, <1>3 DEF UnmapPage, Dropped, mirror_vars
<1>4. ASSUME NEW m \in Page, NEW c \in Page, NEW perms \in Permissions,
             MirrorPage(m, c, perms)
      PROVE  NoDebugMirrors' /\ PlainPagesCount'
  BY <1>0, <1>4, PageAssumption DEF MirrorPage, mirror_vars
<1>5. ASSUME NEW m \in Page, UnmapMirror(m)
      PROVE  NoDebugMirrors' /\ PlainPagesCount'
  BY <1>0, <1>5 DEF UnmapMirror, Dropped
<1>6. ASSUME NEW range \in Ranges, NEW v \in Value, Write(range, v)
      PROVE  NoDebugMirrors' /\ PlainPagesCount'
  <2>1. \A p \in Page : page_generations[p] # NoGeneration
                           => page_generations'[p] # NoGeneration
    BY <1>6, BoundAssumption DEF Write, Bumped, NoGeneration
  <2> QED
    BY <1>0, <1>6, <2>1 DEF Write, mirror_vars
<1>7. CASE UNCHANGED <<debug_mode, pages, mirrors, page_generations>>
  BY <1>0, <1>7
<1>8. \/ \E p \in Page, perms \in Permissions : MapPage(p, perms)
      \/ \E p \in Page : MapPageFails(p) \/ UnmapPage(p) \/ UnmapMirror(p)
      \/ \E m, c \in Page, perms \in Permissions : MirrorPage(m, c, perms)
      \/ \E range \in Ranges, v \in Value : Write(range, v)
      \/ UNCHANGED <<debug_mode, pages, mirrors, page_generations>>
  BY DEF Next, SetPagePermissions, UnmapPageFails, ReadPage, FastStore,
         table_vars, mirror_vars, vars
<1> QED
  BY <1>1, <1>2, <1>3, <1>4, <1>5, <1>6, <1>7, <1>8

LEMMA StepGrounded ==
    ASSUME Typed, MirrorIndexExact, GroundedInv, [Next]_vars
    PROVE  MirrorsGrounded'
<1> SUFFICES ASSUME WellUsed', NEW m \in Page, mirrors'[m] # NoPage
             PROVE  /\ m \in pages'
                    /\ mirrors'[m] \in pages'
                    /\ mirrors'[mirrors'[m]] = NoPage
  BY DEF MirrorsGrounded, WellUsed, IsMirror
<1> DEFINE Grounded == /\ m \in pages'
                       /\ mirrors'[m] \in pages'
                       /\ mirrors'[mirrors'[m]] = NoPage
<1> USE DEF Typed, MirrorsTyped, TableTyped, IsMirror
<1>1. /\ WellUsed
      /\ \A p \in Page : IsMirror(p) => /\ p \in pages
                                        /\ mirrors[p] \in pages
                                        /\ ~IsMirror(mirrors[p])
  BY HistoryGrows DEF WellUsed, GroundedInv, MirrorsGrounded
<1>2. CASE pages \subseteq pages' /\ mirrors' = mirrors
  BY <1>1, <1>2
<1>3. ASSUME NEW p \in Page, MapPageFails(p)
      PROVE  FALSE
  BY <1>3 DEF MapPageFails, WellUsed
<1>4. ASSUME NEW p \in Page, UnmapPage(p)
      PROVE  Grounded
  <2>1. /\ \A q \in Page : mirrors[q] # p
        /\ ~IsMirror(p)
    BY <1>4 DEF UnmapPage, MayUnmap, Misuse, WellUsed, MirrorIndexExact
  <2> QED
    BY <1>1, <1>4, <2>1 DEF UnmapPage, Dropped, mirror_vars
<1>5. ASSUME NEW mirror \in Page, NEW canonical \in Page,
             NEW perms \in Permissions, MirrorPage(mirror, canonical, perms)
      PROVE  Grounded
  BY <1>1, <1>5 DEF MirrorPage, MayMirror, mirror_vars
<1>6. ASSUME NEW mirror \in Page, UnmapMirror(mirror)
      PROVE  Grounded
  <2>1. \A q \in Page : mirrors[q] # mirror
    <3> SUFFICES ASSUME NEW q \in Page, mirrors[q] = mirror
                 PROVE  FALSE
      OBVIOUS
    <3>1. mirror \in pages /\ ~IsMirror(mirror) /\ ~debug_mode
      BY <1>1, PageAssumption DEF GroundedInv, NoDebugMirrors
    <3>2. page_generations[mirror] # NoGeneration
      BY <1>1, <3>1 DEF GroundedInv, PlainPagesCount
    <3> QED
      BY <1>6, <3>1, <3>2 DEF UnmapMirror, Misuse, WellUsed
  <2> QED
    BY <1>1, <1>6, <2>1 DEF UnmapMirror, Dropped
<1>7. \/ \E p \in Page : MapPageFails(p) \/ UnmapPage(p) \/ UnmapMirror(p)
      \/ \E a, b \in Page, perms \in Permissions : MirrorPage(a, b, perms)
      \/ pages \subseteq pages' /\ mirrors' = mirrors
  BY DEF Next, MapPage, SetPagePermissions, UnmapPageFails, ReadPage, Write,
         FastStore, table_vars, mirror_vars, vars
<1> QED
  BY <1>2, <1>3, <1>4, <1>5, <1>6, <1>7

LEMMA GroundedAlways == Spec => []GroundedInv
<1>1. Init => GroundedInv
  BY DEF Init, GroundedInv, NoDebugMirrors, PlainPagesCount, MirrorsGrounded,
         IsMirror
<1>2. Typed /\ MirrorIndexExact /\ GroundedInv /\ [Next]_vars => GroundedInv'
  BY StepPlainPagesCount, StepGrounded DEF GroundedInv
<1> QED
  BY <1>1, <1>2, AlwaysTyped, MirrorIndexAlwaysExact, PTL DEF Spec

(* Used as documented, every access resolves in one hop to a mapped page.  *)
THEOREM MirrorsAlwaysGrounded == Spec => []MirrorsGrounded
<1>1. GroundedInv => MirrorsGrounded
  BY DEF GroundedInv
<1> QED
  BY <1>1, GroundedAlways, PTL

-----------------------------------------------------------------------------
(* Where nothing was misused and nothing failed, a page has a generation   *)
(* only while it is mapped and no mirror.                                  *)
Undisturbed == ~misused /\ failed = {}

OnlyPlainPagesCount ==
    Undisturbed => \A p \in Page : page_generations[p] # NoGeneration =>
                       p \in pages /\ ~IsMirror(p)

RegisteredInv == OnlyPlainPagesCount /\ ExecutableRegistered

LEMMA StepRegistered ==
    ASSUME Typed, RegisteredInv, [Next]_vars
    PROVE  RegisteredInv'
<1> DEFINE Known(p) == /\ p \in pages /\ ~IsMirror(p)
                       /\ "execute" \in permissions[p] => p \in exec_pages
<1>0. ASSUME Undisturbed', NEW q \in Page, page_generations[q] # NoGeneration
      PROVE  Known(q)
  BY <1>0, HistoryGrows
  DEF RegisteredInv, OnlyPlainPagesCount, ExecutableRegistered, Undisturbed
<1> SUFFICES ASSUME Undisturbed', NEW q \in Page,
                    page_generations'[q] # NoGeneration
             PROVE  Known(q)'
  <2>1. pages' \subseteq Page
    BY StepTyped DEF Typed, TableTyped
  <2> QED
    BY <2>1 DEF RegisteredInv, OnlyPlainPagesCount, ExecutableRegistered,
                Undisturbed
<1> USE DEF Typed, TableTyped, GenerationsTyped, MirrorsTyped, IsMirror,
            Undisturbed
<1>1. ASSUME NEW p \in Page, NEW perms \in Permissions, MapPage(p, perms)
      PROVE  Known(q)'
  <2>1. ~IsMirror(p)
    BY <1>1 DEF MapPage, Misuse
  <2>2. "execute" \in perms => p \in exec_pages'
    BY <1>1 DEF MapPage, Register
  <2>3. exec_pages \subseteq exec_pages'
    BY <1>1 DEF MapPage, Register
  <2>4. CASE q = p
    BY <1>1, <2>1, <2>2, <2>4 DEF MapPage, mirror_vars
  <2>5. CASE q # p
    BY <1>0, <1>1, <2>3, <2>5 DEF MapPage, mirror_vars
  <2> QED
    BY <2>4, <2>5
<1>2. ASSUME NEW p \in Page, NEW perms \in Permissions,
             SetPagePermissions(p, perms)
      PROVE  Known(q)'
  <2>1. Known(q) /\ pages' = pages /\ mirrors' = mirrors
    BY <1>0, <1>2 DEF SetPagePermissions, mirror_vars
  <2>2. CASE q # p
    BY <1>2, <2>1, <2>2 DEF SetPagePermissions, Reregister, Register, Unregister
  <2>3. CASE q = p
    BY <1>2, <2>1, <2>3 DEF SetPagePermissions, Reregister, Register, Unregister
  <2> QED
    BY <2>2, <2>3
<1>3. ASSUME NEW p \in Page, UnmapPage(p)
      PROVE  Known(q)'
  BY <1>0, <1>3 DEF UnmapPage, Dropped, mirror_vars
<1>4. ASSUME NEW mirror \in Page, NEW canonical \in Page,
             NEW perms \in Permissions, MirrorPage(mirror, canonical, perms)
      PROVE  Known(q)'
  <2>1. Known(q) /\ q # mirror
    BY <1>0, <1>4 DEF MirrorPage, MayMirror
  <2> QED
    BY <1>4, <2>1 DEF MirrorPage, mirror_vars
<1>5. ASSUME NEW mirror \in Page, UnmapMirror(mirror)
      PROVE  Known(q)'
  <2>1. Known(q) /\ q # mirror
    BY <1>0, <1>5 DEF UnmapMirror, Misuse
  <2> QED
    BY <1>5, <2>1 DEF UnmapMirror, Dropped
<1>6. ASSUME NEW range \in Ranges, NEW v \in Value, Write(range, v)
      PROVE  Known(q)'
  <2>1. page_generations[q] # NoGeneration
    BY <1>6, BoundAssumption DEF Write, Bumped, NoGeneration
  <2> QED
    BY <1>0, <1>6, <2>1 DEF Write, mirror_vars
<1>7. CASE UNCHANGED <<table_vars, mirrors, page_generations, exec_pages>>
  BY <1>0, <1>7 DEF table_vars
<1>8. \/ \E p \in Page, perms \in Permissions :
             MapPage(p, perms) \/ SetPagePermissions(p, perms)
      \/ \E p \in Page : UnmapPage(p) \/ UnmapMirror(p)
      \/ \E m, c \in Page, perms \in Permissions : MirrorPage(m, c, perms)
      \/ \E range \in Ranges, v \in Value : Write(range, v)
      \/ UNCHANGED <<table_vars, mirrors, page_generations, exec_pages>>
  BY DEF Next, MapPageFails, UnmapPageFails, ReadPage, FastStore, mirror_vars,
         vars
<1> QED
  BY <1>1, <1>2, <1>3, <1>4, <1>5, <1>6, <1>7, <1>8

(* As long as nothing failed halfway, every executable page that map_page  *)
(* mapped is in the registry of the write-fault handler.                   *)
THEOREM ExecutableAlwaysRegistered == Spec => []ExecutableRegistered
<1>1. Init => RegisteredInv
  BY DEF Init, RegisteredInv, OnlyPlainPagesCount, ExecutableRegistered
<1>2. Typed /\ RegisteredInv /\ [Next]_vars => RegisteredInv'
  BY StepRegistered
<1>3. RegisteredInv => ExecutableRegistered
  BY DEF RegisteredInv
<1> QED
  BY <1>1, <1>2, <1>3, AlwaysTyped, PTL DEF Spec

-----------------------------------------------------------------------------
(* Where the bytes of a page live.  A mirror has none of its own; with an  *)
(* arena only debug mirrors keep bytes in the page table; without one      *)
(* every page that is no mirror does.                                      *)
BytesInv ==
    Undisturbed =>
        /\ \A p \in Page : IsMirror(p) => data[p] = NoData
        /\ arena_base /\ ~debug_mode => \A p \in Page : data[p] = NoData
        /\ ~arena_base => \A p \in pages : ~IsMirror(p) => data[p] # NoData

(* With mirrors grounded, resolving a page takes one hop. *)
LEMMA OneHop ==
    ASSUME Typed, MirrorsGrounded, Undisturbed, NEW p \in Page
    PROVE  /\ Resolve(p) = Hop(p)
           /\ Hop(p) \in Page
           /\ ~IsMirror(Hop(p))
           /\ p \in pages => Hop(p) \in pages
<1>1. IsMirror(p) => /\ mirrors[p] \in pages /\ ~IsMirror(mirrors[p])
  BY DEF MirrorsGrounded, Undisturbed
<1> QED
  BY <1>1 DEF Resolve, Hop, IsMirror, Typed, TableTyped, MirrorsTyped

LEMMA RangePages ==
    ASSUME NEW range \in Ranges
    PROVE  /\ DOMAIN range \in {{1}, {1, 2}}
           /\ \A i \in DOMAIN range : range[i] \in Page
BY DEF Ranges

(* Everything a validated page needs is there. *)
LEMMA ValidatedIsBacked ==
    ASSUME Typed, MirrorsGrounded, BytesInv, Undisturbed, NEW p \in pages
    PROVE  Backed(p)
<1>1. p \in Page
  BY DEF Typed, TableTyped
<1>2. CASE arena_base
  BY <1>2 DEF Backed, InArena, InTable
<1>3. CASE ~arena_base
  <2>1. InTable(p) = Hop(p)
    BY <1>1, <1>3, OneHop DEF InTable, Hop
  <2>2. data[Hop(p)] # NoData
    BY <1>1, <1>3, OneHop DEF BytesInv
  <2> QED
    BY <2>1, <2>2 DEF Backed
<1> QED
  BY <1>2, <1>3

(* A write that does not kill the process stores the whole range. *)
LEMMA WritesAll ==
    ASSUME Typed, MirrorsGrounded, BytesInv, Undisturbed,
           NEW range \in Ranges, NEW v \in Value, Write(range, v), ~crashed'
    PROVE  Stored(range) = DOMAIN range
<1>1. \A i \in DOMAIN range : Backed(range[i])
  BY ValidatedIsBacked DEF Write, Writable
<1>2. \A i \in DOMAIN range :
         (\A j \in 1..(i - 1) : j \in Stored(range)) /\ i \notin Stored(range)
            => HostAllows(range[i])
  BY DEF Write
<1>3. 1 \in Stored(range)
  <2>1. 1 \in DOMAIN range
    BY RangePages
  <2>2. \A j \in 1..(1 - 1) : j \in Stored(range)
    OBVIOUS
  <2>3. 1 \notin Stored(range) => HostAllows(range[1])
    BY <1>2, <2>1, <2>2
  <2>4. \A j \in 1..1 : j = 1
    OBVIOUS
  <2> QED
    BY <1>1, <2>1, <2>3, <2>4 DEF Stored
<1>4. ASSUME 2 \in DOMAIN range
      PROVE  2 \in Stored(range)
  <2>1. \A j \in 1..(2 - 1) : j \in Stored(range)
    BY <1>3
  <2>2. 2 \notin Stored(range) => HostAllows(range[2])
    BY <1>2, <1>4, <2>1
  <2>3. HostAllows(range[1])
    BY <1>3 DEF Stored
  <2>4. \A j \in 1..2 : j = 1 \/ j = 2
    OBVIOUS
  <2>5. 1 \in DOMAIN range
    BY RangePages
  <2> QED
    BY <1>1, <1>4, <2>2, <2>3, <2>4, <2>5 DEF Stored
<1> QED
  BY <1>3, <1>4, RangePages DEF Stored

LEMMA StepBytes ==
    ASSUME Typed, MirrorsGrounded, NoDebugMirrors, BytesInv, [Next]_vars
    PROVE  BytesInv'
<1> SUFFICES ASSUME Undisturbed'
             PROVE  BytesInv'
  BY DEF BytesInv
<1>0. Undisturbed
  BY HistoryGrows DEF Undisturbed
<1> USE <1>0 DEF Typed, TableTyped, ArenaTyped, MirrorsTyped, IsMirror, BytesInv
<1>1. ASSUME NEW p \in Page, NEW perms \in Permissions, MapPage(p, perms)
      PROVE  BytesInv'
  <2>1. mirrors[p] = NoPage
    BY <1>1 DEF MapPage, Misuse, Undisturbed
  <2> QED
    BY <1>1, <2>1, ValueAssumption DEF MapPage, mirror_vars
<1>2. ASSUME NEW p \in Page, UnmapPage(p)
      PROVE  BytesInv'
  BY <1>2 DEF UnmapPage, Dropped, mirror_vars
<1>3. ASSUME NEW m \in Page, NEW c \in Page, NEW perms \in Permissions,
             MirrorPage(m, c, perms)
      PROVE  BytesInv'
  <2>1. CopyOf(c) # NoData
    BY ValueAssumption DEF CopyOf
  <2>2. CASE debug_mode
    BY <1>3, <2>1, <2>2 DEF MirrorPage, MayMirror, mirror_vars, NoDebugMirrors
  <2>3. CASE ~debug_mode
    BY <1>3, <2>3, PageAssumption DEF MirrorPage, MayMirror
  <2> QED
    BY <2>2, <2>3
<1>4. ASSUME NEW m \in Page, UnmapMirror(m)
      PROVE  BytesInv'
  BY <1>4 DEF UnmapMirror, Dropped
<1>5. ASSUME NEW range \in Ranges, NEW v \in Value, Write(range, v)
      PROVE  BytesInv'
  <2>1. /\ UNCHANGED <<arena_base, debug_mode, pages, mirrors>>
        /\ data' = [p \in Page |-> IF p \in TablePages(range) THEN v ELSE data[p]]
    BY <1>5 DEF Write, mirror_vars
  <2>2. ASSUME NEW p \in TablePages(range)
        PROVE  mirrors[p] = NoPage /\ ~(arena_base /\ ~debug_mode)
    <3>1. PICK i \in Stored(range) : p = InTable(range[i]) /\ ~InArena(range[i])
      BY <2>2 DEF TablePages
    <3>2. range[i] \in Page
      BY <3>1, RangePages DEF Stored
    <3>3. CASE arena_base
      BY <3>1, <3>2, <3>3 DEF InArena, InTable
    <3>4. CASE ~arena_base
      BY <3>1, <3>2, <3>4, OneHop DEF InTable, Hop
    <3> QED
      BY <3>3, <3>4
  <2> QED
    BY <2>1, <2>2, ValueAssumption
<1>6. CASE UNCHANGED <<arena_base, debug_mode, pages, data, mirrors>>
  BY <1>6
<1>7. \/ \E p \in Page, perms \in Permissions : MapPage(p, perms)
      \/ \E p \in Page : UnmapPage(p) \/ UnmapMirror(p)
      \/ \E m, c \in Page, perms \in Permissions : MirrorPage(m, c, perms)
      \/ \E range \in Ranges, v \in Value : Write(range, v)
      \/ UNCHANGED <<arena_base, debug_mode, pages, data, mirrors>>
  BY DEF Next, MapPageFails, SetPagePermissions, UnmapPageFails, ReadPage,
         FastStore, Undisturbed, table_vars, mirror_vars, vars
<1> QED
  BY <1>1, <1>2, <1>3, <1>4, <1>5, <1>6, <1>7

(* The table pages a write reaches that hold bytes, and the arena pages    *)
(* behind the others, are those of the pages that share the range.         *)
LEMMA TablePagesShare ==
    ASSUME Typed, MirrorsGrounded, NoDebugMirrors, BytesInv, Undisturbed,
           NEW range \in Ranges, Stored(range) = DOMAIN range,
           NEW q \in Page, data[q] # NoData
    PROVE  q \in TablePages(range) <=> q \in Sharing(range)
<1>1. \A i \in DOMAIN range : range[i] \in Page
  BY RangePages
<1>2. ~IsMirror(q) /\ Hop(q) = q /\ (arena_base => debug_mode)
  BY DEF BytesInv, Hop
<1>3. ASSUME NEW r \in Page
      PROVE  (InTable(r) = q /\ ~InArena(r)) <=> Hop(q) = Hop(r)
  <2>1. CASE arena_base
    BY <1>2, <2>1 DEF InTable, InArena, Hop, NoDebugMirrors
  <2>2. CASE ~arena_base
    BY <1>2, <2>2, OneHop DEF InTable, InArena, Hop
  <2> QED
    BY <2>1, <2>2
<1>4. q \in TablePages(range) <=>
        \E i \in DOMAIN range : InTable(range[i]) = q /\ ~InArena(range[i])
  BY DEF TablePages
<1> QED
  BY <1>1, <1>3, <1>4 DEF Sharing

LEMMA ArenaPagesShare ==
    ASSUME Typed, MirrorsGrounded, NoDebugMirrors, BytesInv, Undisturbed,
           NEW range \in Ranges, Stored(range) = DOMAIN range,
           NEW q \in Page, arena_base, data[q] = NoData
    PROVE  Resolve(q) \in ArenaPages(range) <=> q \in Sharing(range)
<1>1. \A i \in DOMAIN range : range[i] \in Page
  BY RangePages
<1>2. ASSUME NEW r \in Page
      PROVE  (Resolve(r) = Resolve(q) /\ InArena(r)) <=> Hop(q) = Hop(r)
  <2>1. Resolve(r) = Hop(r) /\ Resolve(q) = Hop(q)
    BY OneHop
  <2>2. Hop(q) = Hop(r) => data[r] = NoData
    BY DEF BytesInv, NoDebugMirrors, Hop
  <2> QED
    BY <2>1, <2>2 DEF InArena
<1>3. Resolve(q) \in ArenaPages(range) <=>
        \E i \in DOMAIN range : Resolve(range[i]) = Resolve(q) /\ InArena(range[i])
  BY DEF ArenaPages
<1> QED
  BY <1>1, <1>2, <1>3 DEF Sharing

LEMMA WriteShares ==
    ASSUME Typed, MirrorsGrounded, NoDebugMirrors, BytesInv, Undisturbed,
           NEW range \in Ranges, NEW v \in Value, Write(range, v), ~crashed',
           NEW q \in pages
    PROVE  Contents(q)' = IF q \in Sharing(range) THEN v ELSE Contents(q)
<1>1. /\ q \in Page /\ Resolve(q) = Hop(q) /\ Hop(q) \in pages
      /\ Hop(q) \in Page /\ ~IsMirror(Hop(q)) /\ v # NoData
  BY OneHop, ValueAssumption DEF Typed, TableTyped
<1>2. Stored(range) = DOMAIN range
  BY WritesAll
<1>3. /\ UNCHANGED <<arena_base, mirrors>>
      /\ data' = [p \in Page |-> IF p \in TablePages(range) THEN v ELSE data[p]]
      /\ arena' = [p \in Page |-> IF p \in ArenaPages(range) THEN v ELSE arena[p]]
  BY DEF Write, mirror_vars
<1>4. Resolve(q)' = Resolve(q)
  BY <1>3 DEF Resolve, Hop, IsMirror
<1>5. CASE data[q] # NoData
  <2>1. q \in TablePages(range) <=> q \in Sharing(range)
    BY <1>1, <1>2, <1>5, TablePagesShare
  <2>2. Contents(q) = data[q]
    BY <1>5 DEF Contents
  <2>3. Contents(q)' = data'[q]
    BY <1>1, <1>3, <1>5 DEF Contents
  <2> QED
    BY <1>1, <1>3, <2>1, <2>2, <2>3
<1>6. CASE data[q] = NoData /\ arena_base
  <2>1. Resolve(q) \in ArenaPages(range) <=> q \in Sharing(range)
    BY <1>1, <1>2, <1>6, ArenaPagesShare
  <2>2. q \notin TablePages(range)
    <3> SUFFICES ASSUME NEW i \in DOMAIN range, ~InArena(range[i]),
                        q = InTable(range[i])
                 PROVE  FALSE
      BY <1>2 DEF TablePages
    <3> QED
      BY <1>6 DEF InArena, InTable
  <2>3. Contents(q) = arena[Resolve(q)] /\ Contents(q)' = arena'[Resolve(q)]
    BY <1>1, <1>3, <1>4, <1>6, <2>2 DEF Contents
  <2> QED
    BY <1>1, <1>3, <2>1, <2>3
<1>7. CASE data[q] = NoData /\ ~arena_base
  <2>1. data[Hop(q)] # NoData /\ Hop(q) # q
    BY <1>1, <1>7 DEF BytesInv, Hop
  <2>2. q \notin TablePages(range)
    <3>1. IsMirror(q)
      BY <1>1, <2>1 DEF Hop
    <3> SUFFICES ASSUME NEW i \in DOMAIN range, q = InTable(range[i])
                 PROVE  FALSE
      BY <1>2 DEF TablePages
    <3>2. range[i] \in Page
      BY RangePages
    <3>3. InTable(range[i]) = Hop(range[i])
      BY <1>7, <3>2, OneHop DEF InTable, Hop
    <3> QED
      BY <3>1, <3>2, <3>3, OneHop
  <2>3. Hop(q) \in TablePages(range) <=> Hop(q) \in Sharing(range)
    BY <1>1, <1>2, <2>1, TablePagesShare
  <2>4. Hop(q) \in Sharing(range) <=> q \in Sharing(range)
    BY <1>1 DEF Sharing, Hop
  <2>5. Contents(q) = data[Hop(q)] /\ Contents(q)' = data'[Hop(q)]
    BY <1>1, <1>3, <1>4, <1>7, <2>2 DEF Contents
  <2> QED
    BY <1>1, <1>3, <2>3, <2>4, <2>5
<1> QED
  BY <1>5, <1>6, <1>7

LEMMA BytesAlways == Spec => []BytesInv
<1>1. Init => BytesInv
  BY DEF Init, BytesInv, IsMirror
<1>2. Typed /\ MirrorsGrounded /\ GroundedInv /\ BytesInv /\ [Next]_vars
        => BytesInv'
  BY StepBytes DEF GroundedInv
<1> QED
  BY <1>1, <1>2, AlwaysTyped, MirrorsAlwaysGrounded, GroundedAlways, PTL DEF Spec

(* A write reaches exactly the pages that share the written ones, whichever*)
(* of the three ways of keeping bytes is in use.                           *)
THEOREM WritesAlwaysShared == Spec => WritesAreShared
<1> DEFINE Shares ==
      ~misused /\ failed = {} /\ ~crashed' /\ <<data, arena>>' # <<data, arena>> =>
          \A range \in Ranges, v \in Value \ {Zero} :
            Write(range, v) =>
              \A q \in pages :
                  Contents(q)' = IF q \in Sharing(range) THEN v ELSE Contents(q)
<1>1. Typed /\ MirrorsGrounded /\ GroundedInv /\ BytesInv => [Shares]_vars
  BY WriteShares DEF GroundedInv, Undisturbed
<1>2. Spec => [][Shares]_vars
  <2> HIDE DEF Shares
  <2> QED
    BY <1>1, AlwaysTyped, MirrorsAlwaysGrounded, GroundedAlways, BytesAlways, PTL
<1> QED
  BY <1>2 DEF WritesAreShared

-----------------------------------------------------------------------------
(* One ring, as a function of its array and its two indices. *)
Index == 0..(Slots - 1)
Next1(i) == (i + 1) % Slots
RingCount(h, t) == IF t >= h THEN t - h ELSE Slots - (h - t)
RingContents(s, h, t) ==
    [i \in 1..RingCount(h, t) |-> s[(h + i - 1) % Slots]]

(* Reducing an index that went around at most once. *)
LEMMA Wrap ==
    \A a \in Nat : a < Slots + Slots =>
        a % Slots = IF a < Slots THEN a ELSE a - Slots
<1> SUFFICES ASSUME NEW a \in Nat, a < Slots + Slots
             PROVE  a % Slots = IF a < Slots THEN a ELSE a - Slots
  OBVIOUS
<1>1. CASE a < Slots
  BY <1>1, SlotsAssumption, SMT
<1>2. CASE a >= Slots
  BY <1>2, SlotsAssumption, SMT
<1> QED
  BY <1>1, <1>2, SlotsAssumption

(* A ring never holds more than one event less than it has slots. *)
LEMMA CountInRange ==
    ASSUME NEW h \in Index, NEW t \in Index
    PROVE  RingCount(h, t) \in 0..(Slots - 1)
  BY SlotsAssumption DEF Index, RingCount

(* The index after an index is an index, and the ring is full exactly when *)
(* it holds that many events.                                              *)
LEMMA NextIndex ==
    ASSUME NEW h \in Index, NEW t \in Index
    PROVE  /\ Next1(t) \in Index
           /\ Next1(t) = h <=> RingCount(h, t) = Slots - 1
           /\ Next1(t) # h => RingCount(h, Next1(t)) = RingCount(h, t) + 1
<1>1. Next1(t) = IF t + 1 < Slots THEN t + 1 ELSE t + 1 - Slots
  BY Wrap, SlotsAssumption DEF Next1, Index
<1> QED
  BY <1>1, SlotsAssumption DEF Index, RingCount

(* The slot of the i-th event, and the free slot. *)
LEMMA SlotIndex ==
    ASSUME NEW h \in Index, NEW t \in Index, NEW i \in 1..RingCount(h, t)
    PROVE  /\ (h + i - 1) % Slots \in Index
           /\ (h + i - 1) % Slots # t
<1> DEFINE a == h + i - 1
<1>1. /\ a \in Nat
      /\ a < Slots + Slots
  <2>1. RingCount(h, t) \in 0..(Slots - 1)
    BY CountInRange
  <2> QED
    BY <2>1, SlotsAssumption DEF Index
<1>2. a % Slots = IF a < Slots THEN a ELSE a - Slots
  <2> HIDE DEF a
  <2> QED
    BY <1>1, Wrap
<1> QED
  BY <1>1, <1>2, SlotsAssumption DEF Index, RingCount

LEMMA FreeIndex ==
    ASSUME NEW h \in Index, NEW t \in Index
    PROVE  (h + RingCount(h, t)) % Slots = t
<1> DEFINE a == h + RingCount(h, t)
<1>1. /\ a \in Nat
      /\ a < Slots + Slots
  <2>1. RingCount(h, t) \in 0..(Slots - 1)
    BY CountInRange
  <2> QED
    BY <2>1, SlotsAssumption DEF Index
<1>2. a % Slots = IF a < Slots THEN a ELSE a - Slots
  <2> HIDE DEF a
  <2> QED
    BY <1>1, Wrap
<1> QED
  BY <1>1, <1>2, SlotsAssumption DEF Index, RingCount

(* What a ring holds are pages. *)
LEMMA ContentsArePages ==
    ASSUME NEW s \in [Index -> GuestPage], NEW h \in Index, NEW t \in Index
    PROVE  /\ RingContents(s, h, t) \in Seq(GuestPage)
           /\ Len(RingContents(s, h, t)) = RingCount(h, t)
<1> DEFINE n == RingCount(h, t)
<1>1. n \in Nat
  BY CountInRange
<1>2. \A i \in 1..n : s[(h + i - 1) % Slots] \in GuestPage
  BY SlotIndex
<1>3. RingContents(s, h, t) \in [1..n -> GuestPage]
  BY <1>2 DEF RingContents
<1> QED
  BY <1>1, <1>3 DEF RingContents

(* Pushing appends. *)
LEMMA PushAppends ==
    ASSUME NEW s \in [Index -> GuestPage], NEW h \in Index, NEW t \in Index,
           NEW p \in GuestPage, Next1(t) # h
    PROVE  RingContents([s EXCEPT ![t] = p], h, Next1(t))
             = Append(RingContents(s, h, t), p)
<1> DEFINE n == RingCount(h, t)
           old == RingContents(s, h, t)
           new == RingContents([s EXCEPT ![t] = p], h, Next1(t))
<1>1. n \in Nat
  BY CountInRange
<1>2. RingCount(h, Next1(t)) = n + 1
  BY NextIndex
<1>3. old \in Seq(GuestPage) /\ Len(old) = n
  BY ContentsArePages
<1>4. /\ new \in Seq(GuestPage)
      /\ Len(new) = n + 1
      /\ \A i \in 1..(n + 1) : new[i] = [s EXCEPT ![t] = p][(h + i - 1) % Slots]
  <2>1. [s EXCEPT ![t] = p] \in [Index -> GuestPage]
    OBVIOUS
  <2>2. Next1(t) \in Index
    BY NextIndex
  <2>3. \A i \in 1..(n + 1) : new[i] = [s EXCEPT ![t] = p][(h + i - 1) % Slots]
    BY <1>2 DEF RingContents
  <2> QED
    BY <1>2, <2>1, <2>2, <2>3, ContentsArePages
<1>5. /\ Append(old, p) \in Seq(GuestPage)
      /\ Len(Append(old, p)) = n + 1
      /\ \A i \in 1..n : Append(old, p)[i] = old[i]
      /\ Append(old, p)[n + 1] = p
  <2> HIDE DEF old, n
  <2> QED
    BY <1>3, AppendProperties
<1>6. ASSUME NEW i \in 1..(n + 1)
      PROVE  [s EXCEPT ![t] = p][(h + i - 1) % Slots]
               = IF i = n + 1 THEN p ELSE old[i]
  <2>1. CASE i = n + 1
    <3>1. (h + i - 1) % Slots = t
      <4>1. h + i - 1 = h + n
        BY <1>1, <2>1, SlotsAssumption DEF Index
      <4> QED
        BY <4>1, FreeIndex
    <3> QED
      BY <2>1, <3>1
  <2>2. CASE i # n + 1
    <3>1. i \in 1..n
      BY <1>1, <2>2
    <3>2. (h + i - 1) % Slots \in Index /\ (h + i - 1) % Slots # t
      BY <3>1, SlotIndex
    <3>3. old[i] = s[(h + i - 1) % Slots]
      BY <3>1 DEF RingContents
    <3> QED
      BY <2>2, <3>2, <3>3
  <2> QED
    BY <2>1, <2>2
<1> DEFINE app == Append(old, p)
<1>7. ASSUME NEW i \in 1..(n + 1)
      PROVE  new[i] = app[i]
  <2>1. new[i] = IF i = n + 1 THEN p ELSE old[i]
    <3> HIDE DEF old, new, n
    <3> QED
      BY <1>4, <1>6, Zenon
  <2>2. app[i] = IF i = n + 1 THEN p ELSE old[i]
    <3>1. (\A j \in 1..n : app[j] = old[j]) /\ app[n + 1] = p
      BY <1>5
    <3> HIDE DEF old, app, n
    <3> QED
      BY <1>1, <3>1
  <2> HIDE DEF old, new, app, n
  <2> QED
    BY <2>1, <2>2
<1>8. /\ new \in Seq(GuestPage)
      /\ app \in Seq(GuestPage)
      /\ Len(new) = Len(app)
      /\ \A i \in 1..Len(new) : new[i] = app[i]
  BY <1>4, <1>5, <1>7, Zenon
<1>9. new = app
  <2> HIDE DEF new, app
  <2> QED
    BY <1>8, SeqEqual
<1> QED
  BY <1>9

(* A ring whose indices meet is empty. *)
LEMMA DrainedIsEmpty ==
    ASSUME NEW s, NEW h \in Index
    PROVE  RingContents(s, h, h) = <<>>
<1>1. RingCount(h, h) = 0
  BY SlotsAssumption DEF Index, RingCount
<1> QED
  BY <1>1 DEF RingContents

-----------------------------------------------------------------------------
(* The two rings of the specification are such rings. *)
LEMMA RingsAreRings ==
    /\ Smc!Contents = RingContents(smc_events, smc_head, smc_tail)
    /\ Reprotect!Contents
         = RingContents(reprotect_events, reprotect_head, reprotect_tail)
BY DEF RingContents, RingCount, Smc!Contents, Smc!Count,
       Reprotect!Contents, Reprotect!Count

LEMMA ContentsTyped ==
    ASSUME SignalTypeOK
    PROVE  /\ Smc!Contents \in Seq(GuestPage)
           /\ Reprotect!Contents \in Seq(GuestPage)
BY RingsAreRings, ContentsArePages
DEF SignalTypeOK, Smc!TypeOK, Reprotect!TypeOK, Smc!Index, Reprotect!Index, Index

(* A ring is full when it holds one event less than it has slots. *)
LEMMA FullAtCapacity ==
    ASSUME SignalTypeOK
    PROVE  /\ Smc!Full <=> Len(Smc!Contents) = Slots - 1
           /\ Reprotect!Full <=> Len(Reprotect!Contents) = Slots - 1
           /\ Len(Smc!Contents) \in 0..(Slots - 1)
<1>1. /\ smc_events \in [Index -> GuestPage]
      /\ smc_head \in Index /\ smc_tail \in Index
      /\ reprotect_events \in [Index -> GuestPage]
      /\ reprotect_head \in Index /\ reprotect_tail \in Index
  BY DEF SignalTypeOK, Smc!TypeOK, Reprotect!TypeOK, Smc!Index, Reprotect!Index, Index
<1>2. /\ Len(Smc!Contents) = RingCount(smc_head, smc_tail)
      /\ Len(Reprotect!Contents) = RingCount(reprotect_head, reprotect_tail)
  BY <1>1, RingsAreRings, ContentsArePages
<1>3. /\ Smc!Full <=> Next1(smc_tail) = smc_head
      /\ Reprotect!Full <=> Next1(reprotect_tail) = reprotect_head
  BY DEF Smc!Full, Smc!After, Reprotect!Full, Reprotect!After, Next1
<1>4. Smc!Full <=> Len(Smc!Contents) = Slots - 1
  BY <1>1, <1>2, <1>3, NextIndex
<1>5. Reprotect!Full <=> Len(Reprotect!Contents) = Slots - 1
  BY <1>1, <1>2, <1>3, NextIndex
<1>6. Len(Smc!Contents) \in 0..(Slots - 1)
  BY <1>1, <1>2, CountInRange
<1> QED
  BY <1>4, <1>5, <1>6

(* What pushing and draining do to either ring. *)
LEMMA PushEffect ==
    ASSUME SignalTypeOK, NEW p \in GuestPage
    PROVE  /\ Smc!Push(p) =>
                 /\ Smc!Contents' = Append(Smc!Contents, p)
                 /\ Smc!TypeOK'
           /\ Reprotect!Push(p) =>
                 /\ Reprotect!Contents' = Append(Reprotect!Contents, p)
                 /\ Reprotect!TypeOK'
<1>1. /\ smc_events \in [Index -> GuestPage]
      /\ smc_head \in Index /\ smc_tail \in Index
      /\ reprotect_events \in [Index -> GuestPage]
      /\ reprotect_head \in Index /\ reprotect_tail \in Index
  BY DEF SignalTypeOK, Smc!TypeOK, Reprotect!TypeOK, Smc!Index, Reprotect!Index, Index
<1>2. /\ Smc!Contents' = RingContents(smc_events', smc_head', smc_tail')
      /\ Reprotect!Contents'
           = RingContents(reprotect_events', reprotect_head', reprotect_tail')
  BY DEF RingContents, RingCount, Smc!Contents, Smc!Count,
         Reprotect!Contents, Reprotect!Count
<1>3. ASSUME Smc!Push(p)
      PROVE  Smc!Contents' = Append(Smc!Contents, p) /\ Smc!TypeOK'
  <2>1. /\ Next1(smc_tail) # smc_head
        /\ smc_events' = [smc_events EXCEPT ![smc_tail] = p]
        /\ smc_tail' = Next1(smc_tail)
        /\ smc_head' = smc_head
    BY <1>3 DEF Smc!Push, Smc!Full, Smc!After, Smc!FreeSlot, Next1
  <2>2. Smc!Contents' = Append(Smc!Contents, p)
    BY <1>1, <1>2, <2>1, PushAppends, RingsAreRings
  <2>3. Smc!TypeOK'
    BY <1>1, <2>1, NextIndex DEF Smc!TypeOK, Smc!Index, Index
  <2> QED
    BY <2>2, <2>3
<1>4. ASSUME Reprotect!Push(p)
      PROVE  Reprotect!Contents' = Append(Reprotect!Contents, p) /\ Reprotect!TypeOK'
  <2>1. /\ Next1(reprotect_tail) # reprotect_head
        /\ reprotect_events' = [reprotect_events EXCEPT ![reprotect_tail] = p]
        /\ reprotect_tail' = Next1(reprotect_tail)
        /\ reprotect_head' = reprotect_head
    BY <1>4 DEF Reprotect!Push, Reprotect!Full, Reprotect!After,
                Reprotect!FreeSlot, Next1
  <2>2. Reprotect!Contents' = Append(Reprotect!Contents, p)
    BY <1>1, <1>2, <2>1, PushAppends, RingsAreRings
  <2>3. Reprotect!TypeOK'
    BY <1>1, <2>1, NextIndex DEF Reprotect!TypeOK, Reprotect!Index, Index
  <2> QED
    BY <2>2, <2>3
<1> QED
  BY <1>3, <1>4

LEMMA DrainEffect ==
    ASSUME SignalTypeOK
    PROVE  /\ Smc!Drain => Smc!Contents' = <<>> /\ Smc!TypeOK'
           /\ Reprotect!Drain => Reprotect!Contents' = <<>> /\ Reprotect!TypeOK'
<1>1. /\ smc_events \in [Index -> GuestPage] /\ smc_tail \in Index
      /\ reprotect_events \in [Index -> GuestPage] /\ reprotect_tail \in Index
  BY DEF SignalTypeOK, Smc!TypeOK, Reprotect!TypeOK, Smc!Index, Reprotect!Index, Index
<1>2. /\ Smc!Contents' = RingContents(smc_events', smc_head', smc_tail')
      /\ Reprotect!Contents'
           = RingContents(reprotect_events', reprotect_head', reprotect_tail')
  BY DEF RingContents, RingCount, Smc!Contents, Smc!Count,
         Reprotect!Contents, Reprotect!Count
<1>3. Smc!Drain => Smc!Contents' = <<>> /\ Smc!TypeOK'
  BY <1>1, <1>2, DrainedIsEmpty DEF Smc!Drain, Smc!TypeOK, Smc!Index, Index
<1>4. Reprotect!Drain => Reprotect!Contents' = <<>> /\ Reprotect!TypeOK'
  BY <1>1, <1>2, DrainedIsEmpty
  DEF Reprotect!Drain, Reprotect!TypeOK, Reprotect!Index, Index
<1> QED
  BY <1>3, <1>4

(* A ring nobody touches keeps what it holds. *)
LEMMA RingsKept ==
    /\ UNCHANGED smc_ring =>
         Smc!Contents' = Smc!Contents /\ (Smc!TypeOK => Smc!TypeOK')
    /\ UNCHANGED reprotect_ring =>
         /\ Reprotect!Contents' = Reprotect!Contents
         /\ Reprotect!TypeOK => Reprotect!TypeOK'
BY DEF smc_ring, reprotect_ring, Smc!Contents, Smc!Count, Smc!TypeOK,
       Smc!Index, Reprotect!Contents, Reprotect!Count, Reprotect!TypeOK,
       Reprotect!Index

-----------------------------------------------------------------------------
LEMMA SignalInitTyped == SignalInit => SignalTypeOK
<1> SUFFICES ASSUME SignalInit PROVE SignalTypeOK
  OBVIOUS
<1>1. (CHOOSE v \in GuestPage : TRUE) \in GuestPage
  BY GuestPageAssumption, Zenon
<1>2. 0 \in 0..(Slots - 1)
  BY SlotsAssumption
<1>3. Smc!TypeOK /\ Reprotect!TypeOK
  BY <1>1, <1>2 DEF SignalInit, Smc!Init, Reprotect!Init, Smc!TypeOK,
                    Reprotect!TypeOK, Smc!Index, Reprotect!Index
<1>4. prot \in [GuestPage -> SUBSET {"read", "write", "execute"}]
  <2>1. prot \in [GuestPage -> GuestPermissions]
    BY DEF SignalInit
  <2> QED
    BY <2>1, GuestPermissionAssumption
<1>5. drained \in Seq(GuestPage)
  BY EmptySeq DEF SignalInit
<1> QED
  BY <1>3, <1>4, <1>5 DEF SignalInit, SignalTypeOK

LEMMA SignalStepTyped == SignalTypeOK /\ [SignalNext]_signalVars => SignalTypeOK'
<1> SUFFICES ASSUME SignalTypeOK, [SignalNext]_signalVars PROVE SignalTypeOK'
  OBVIOUS
<1> USE DEF SignalTypeOK
<1>1. ASSUME NEW p \in GuestPage, StoreSucceeds(p) PROVE SignalTypeOK'
  BY <1>1, RingsKept DEF StoreSucceeds
<1>2. ASSUME NEW p \in GuestPage, StoreFaults(p) PROVE SignalTypeOK'
  <2>1. CASE IsExecutable(p) /\ PushSmcEvent(p) /\ PushReprotectEvent(p)
             /\ retrying' = p /\ UNCHANGED phase
    <3>1. Smc!TypeOK' /\ smc_overflow' \in BOOLEAN
      BY <2>1, PushEffect, RingsKept DEF PushSmcEvent
    <3>2. Reprotect!TypeOK' /\ prot' \in [GuestPage -> SUBSET {"read", "write", "execute"}]
      BY <2>1, PushEffect, RingsKept DEF PushReprotectEvent
    <3> QED
      BY <1>2, <2>1, <3>1, <3>2 DEF StoreFaults
  <2>2. CASE ~IsExecutable(p)
    BY <1>2, <2>2, RingsKept DEF StoreFaults
  <2> QED
    BY <1>2, <2>1, <2>2 DEF StoreFaults
<1>3. ASSUME NEW p \in GuestPage, NEW perms \in GuestPermissions,
             ChangePermissions(p, perms)
      PROVE  SignalTypeOK'
  BY <1>3, RingsKept, GuestPermissionAssumption DEF ChangePermissions
<1>4. CASE CallBlock
  BY <1>4, RingsKept DEF CallBlock
<1>5. CASE BlockReturns
  BY <1>5, DrainEffect, RingsKept, ContentsTyped DEF BlockReturns
<1>6. CASE SideExit
  BY <1>6, RingsKept DEF SideExit
<1>7. CASE HandleEvent
  <2>1. drained' \in Seq(GuestPage)
    <3>1. Tail(drained) \in Seq(GuestPage) /\ <<>> \in Seq(GuestPage)
      BY <1>7, HeadTailProperties, EmptySeq DEF HandleEvent
    <3> QED
      BY <1>7, <3>1 DEF HandleEvent
  <2>2. stale' \in SUBSET GuestPage
    BY <1>7 DEF HandleEvent
  <2> QED
    BY <1>7, <2>1, <2>2, RingsKept DEF HandleEvent
<1>8. CASE ReprotectPages
  BY <1>8, DrainEffect, RingsKept DEF ReprotectPages
<1>9. CASE UNCHANGED signalVars
  BY <1>9, RingsKept DEF signalVars
<1> QED
  BY <1>1, <1>2, <1>3, <1>4, <1>5, <1>6, <1>7, <1>8, <1>9 DEF SignalNext

(* The indices never leave the arrays, and the rings hold pages only. *)
THEOREM SignalTypeCorrect == SignalSpec => []SignalTypeOK
  BY SignalInitTyped, SignalStepTyped, PTL DEF SignalSpec

-----------------------------------------------------------------------------
(* The pages of a list of events, when one is added or taken off. *)
LEMMA PagesInAppended ==
    ASSUME NEW s \in Seq(GuestPage), NEW p \in GuestPage
    PROVE  PagesIn(Append(s, p)) = PagesIn(s) \cup {p}
<1> DEFINE app == Append(s, p)
<1>1. /\ Len(s) \in Nat /\ DOMAIN s = 1..Len(s)
      /\ DOMAIN app = 1..(Len(s) + 1)
      /\ \A i \in 1..Len(s) : app[i] = s[i]
      /\ app[Len(s) + 1] = p
  BY AppendProperties, LenProperties
<1> HIDE DEF app
<1>2. PagesIn(app) = PagesIn(s) \cup {p}
  BY <1>1 DEF PagesIn
<1> QED
  BY <1>2 DEF app

LEMMA PagesInTail ==
    ASSUME NEW s \in Seq(GuestPage), s # <<>>
    PROVE  PagesIn(s) \subseteq PagesIn(Tail(s)) \cup {Head(s)}
<1> DEFINE tl == Tail(s)
<1>1. /\ Len(s) \in Nat /\ DOMAIN s = 1..Len(s)
      /\ DOMAIN tl = 1..(Len(s) - 1)
      /\ \A i \in 1..(Len(s) - 1) : tl[i] = s[i + 1]
  BY HeadTailProperties, LenProperties, EmptySeq
<1>2. Head(s) = s[1]
  OBVIOUS
<1> HIDE DEF tl
<1>3. ASSUME NEW i \in 1..Len(s)
      PROVE  s[i] \in PagesIn(tl) \cup {Head(s)}
  <2>1. CASE i = 1
    BY <1>2, <2>1
  <2>2. CASE i # 1
    <3>1. i - 1 \in 1..(Len(s) - 1) /\ (i - 1) + 1 = i
      BY <1>1, <2>2
    <3>2. tl[i - 1] = s[i]
      BY <1>1, <3>1
    <3> QED
      BY <1>1, <3>1, <3>2 DEF PagesIn
  <2> QED
    BY <2>1, <2>2
<1>4. PagesIn(s) \subseteq PagesIn(tl) \cup {Head(s)}
  BY <1>1, <1>3 DEF PagesIn
<1> QED
  BY <1>4 DEF tl

LEMMA PagesInNothing == PagesIn(<<>>) = {}
BY DEF PagesIn

-----------------------------------------------------------------------------
(* With TypeOK, WritableIsQueued is inductive. *)
LEMMA InitQueued == SignalInit => WritableIsQueued
BY DEF SignalInit, WritableIsQueued

LEMMA StepQueued ==
    SignalTypeOK /\ WritableIsQueued /\ [SignalNext]_signalVars => WritableIsQueued'
<1> SUFFICES ASSUME SignalTypeOK, WritableIsQueued, [SignalNext]_signalVars,
                    NEW q \in GuestPage, IsExecutable(q)', "write" \in prot'[q],
                    "write" \notin granted'[q]
             PROVE  q \in PagesIn(Reprotect!Contents')
  BY DEF WritableIsQueued, PagesIn, Reprotect!Contents
<1> USE DEF IsExecutable
<1>1. ASSUME granted' = granted, prot' = prot, UNCHANGED reprotect_ring
      PROVE  q \in PagesIn(Reprotect!Contents')
  BY <1>1, RingsKept DEF WritableIsQueued
<1>2. ASSUME NEW p \in GuestPage, StoreFaults(p)
      PROVE  q \in PagesIn(Reprotect!Contents')
  <2>1. CASE PushReprotectEvent(p)
    <3>1. CASE Reprotect!Full
      <4>1. prot' = [prot EXCEPT ![p] = {"read", "execute"}]
            /\ Reprotect!Contents' = Reprotect!Contents
        BY <2>1, <3>1, RingsKept DEF PushReprotectEvent
      <4>2. q # p
        BY <4>1 DEF SignalTypeOK
      <4>3. prot'[q] = prot[q] /\ granted' = granted
        BY <1>2, <4>1, <4>2 DEF SignalTypeOK, StoreFaults
      <4> QED
        BY <4>1, <4>3 DEF WritableIsQueued
    <3>2. CASE ~Reprotect!Full
      <4>1. prot' = [prot EXCEPT ![p] = {"read", "write", "execute"}]
            /\ Reprotect!Contents' = Append(Reprotect!Contents, p)
        BY <2>1, <3>2, PushEffect DEF PushReprotectEvent
      <4>2. PagesIn(Reprotect!Contents') = PagesIn(Reprotect!Contents) \cup {p}
        BY <4>1, ContentsTyped, PagesInAppended
      <4>3. q # p => prot'[q] = prot[q] /\ granted' = granted
        BY <1>2, <4>1 DEF SignalTypeOK, StoreFaults
      <4> QED
        BY <4>2, <4>3 DEF WritableIsQueued
    <3> QED
      BY <3>1, <3>2
  <2>2. CASE ~PushReprotectEvent(p)
    BY <1>1, <1>2, <2>2 DEF StoreFaults
  <2> QED
    BY <2>1, <2>2
<1>3. ASSUME NEW p \in GuestPage, NEW perms \in GuestPermissions,
             ChangePermissions(p, perms)
      PROVE  q \in PagesIn(Reprotect!Contents')
  <2>1. q # p
    BY <1>3 DEF ChangePermissions, SignalTypeOK
  <2>2. granted'[q] = granted[q] /\ prot'[q] = prot[q]
    BY <1>3, <2>1 DEF ChangePermissions, SignalTypeOK
  <2> QED
    BY <1>3, <2>2, RingsKept DEF ChangePermissions, WritableIsQueued
<1>4. CASE ReprotectPages
  <2>1. "write" \in prot[q] /\ q \notin Reprotected
    BY <1>4 DEF ReprotectPages
  <2>2. granted' = granted
    BY <1>4 DEF ReprotectPages
  <2> QED
    BY <2>1, <2>2 DEF WritableIsQueued, Reprotected
<1>5. CASE \E p \in GuestPage : StoreSucceeds(p)
  BY <1>1, <1>5 DEF StoreSucceeds
<1>6. CASE CallBlock \/ BlockReturns \/ SideExit \/ HandleEvent \/ UNCHANGED signalVars
  BY <1>1, <1>6 DEF CallBlock, BlockReturns, SideExit, HandleEvent, signalVars
<1> QED
  BY <1>2, <1>3, <1>4, <1>5, <1>6 DEF SignalNext

(* A page with translated code that the handler made writable waits in the *)
(* ring of pages to protect, whichever stores fault and however full the   *)
(* rings are: reprotect_pages misses none.                                 *)
THEOREM WritableAlwaysQueued == SignalSpec => []WritableIsQueued
<1>1. SignalInit => WritableIsQueued
  BY InitQueued
<1>2. SignalTypeOK /\ WritableIsQueued /\ [SignalNext]_signalVars => WritableIsQueued'
  BY StepQueued
<1> QED
  BY <1>1, <1>2, SignalTypeCorrect, PTL DEF SignalSpec

-----------------------------------------------------------------------------
LEMMA StepIsQueueStep ==
    SignalTypeOK /\ [SignalNext]_signalVars =>
        [SmcQueue!Enqueue \/ SmcQueue!HandOver]_(Smc!Contents)
<1> SUFFICES ASSUME SignalTypeOK, [SignalNext]_signalVars
             PROVE  SmcQueue!Enqueue \/ SmcQueue!HandOver
                      \/ Smc!Contents' = Smc!Contents
  OBVIOUS
<1>1. ASSUME NEW p \in GuestPage, StoreFaults(p)
      PROVE  SmcQueue!Enqueue \/ Smc!Contents' = Smc!Contents
  <2>1. CASE IsExecutable(p) /\ PushSmcEvent(p) /\ retrying' = p /\ ~Smc!Full
    <3>1. Smc!Contents' = Append(Smc!Contents, retrying')
      BY <2>1, PushEffect DEF PushSmcEvent
    <3>2. Len(Smc!Contents) < Slots - 1
      BY <2>1, FullAtCapacity, SlotsAssumption
    <3> QED
      BY <3>1, <3>2 DEF SmcQueue!Enqueue
  <2>2. CASE UNCHANGED smc_ring
    BY <2>2, RingsKept
  <2> QED
    BY <1>1, <2>1, <2>2 DEF StoreFaults, PushSmcEvent
<1>2. CASE BlockReturns
  <2>1. drained' = Smc!Contents /\ Smc!Contents' = <<>>
    BY <1>2, DrainEffect DEF BlockReturns
  <2> QED
    BY <2>1 DEF SmcQueue!HandOver
<1>3. CASE UNCHANGED smc_ring
  BY <1>3, RingsKept
<1>4. \/ \E p \in GuestPage : StoreFaults(p)
      \/ BlockReturns
      \/ UNCHANGED smc_ring
  BY DEF SignalNext, StoreSucceeds, ChangePermissions, CallBlock, SideExit,
         HandleEvent, ReprotectPages, signalVars
<1> QED
  BY <1>1, <1>2, <1>3, <1>4

(* The event ring, with its wrapping indices and its free slot, implements *)
(* a first-in first-out queue of Slots - 1 events: nothing is overwritten, *)
(* repeated or reordered, for any number of slots.                         *)
THEOREM EventRingIsQueue == SignalSpec => EventsAreQueued
<1>1. SignalInit => SmcQueue!Init
  <2> SUFFICES ASSUME SignalInit PROVE Smc!Contents = <<>>
    BY DEF SmcQueue!Init
  <2>1. smc_head = 0 /\ smc_tail = 0 /\ 0 \in Index
    BY SlotsAssumption DEF SignalInit, Smc!Init, Index
  <2> QED
    BY <2>1, RingsAreRings, DrainedIsEmpty
<1>2. SignalTypeOK /\ [SignalNext]_signalVars =>
        [SmcQueue!Enqueue \/ SmcQueue!HandOver]_(Smc!Contents)
  BY StepIsQueueStep
<1> QED
  BY <1>1, <1>2, SignalTypeCorrect, PTL DEF SignalSpec, EventsAreQueued, SmcQueue!Spec

-----------------------------------------------------------------------------
(* Why no event of a completed store is dropped: as long as every event    *)
(* could be handled, both rings hold the same events while native code     *)
(* runs, so they fill up together and a page only becomes writable with    *)
(* its event queued.                                                       *)
RingsAgree ==
    ~erred => Smc!Contents = IF phase = "drain" THEN <<>>
                                                ELSE Reprotect!Contents

DrainedOnlyInDrain == drained # <<>> => phase = "drain"

SeenInv == StoresAreSeen /\ RingsAgree /\ DrainedOnlyInDrain

(* Writable code pages that the owner of the memory asked for are not      *)
(* watched, and may change unseen.                                         *)
WriteXorExecute ==
    \A perms \in GuestPermissions : ~({"write", "execute"} \subseteq perms)

LEMMA InitSeen == SignalInit => SeenInv
<1> SUFFICES ASSUME SignalInit PROVE SeenInv
  OBVIOUS
<1>1. Smc!Contents = <<>> /\ Reprotect!Contents = <<>>
  <2>1. /\ smc_head = 0 /\ smc_tail = 0
        /\ reprotect_head = 0 /\ reprotect_tail = 0
        /\ 0 \in Index
    BY SlotsAssumption DEF SignalInit, Smc!Init, Reprotect!Init, Index
  <2> QED
    BY <2>1, RingsAreRings, DrainedIsEmpty
<1> QED
  BY <1>1 DEF SignalInit, SeenInv, StoresAreSeen, RingsAgree, DrainedOnlyInDrain

(* A store that faults is queued on both rings or on neither. *)
LEMMA FaultKeepsAgreement ==
    ASSUME SignalTypeOK, SeenInv, NEW p \in GuestPage, StoreFaults(p)
    PROVE  SeenInv'
<1> USE DEF SeenInv, StoresAreSeen, RingsAgree, DrainedOnlyInDrain
<1>1. phase = "native" /\ phase' # "drain" /\ UNCHANGED <<drained, stale, erred>>
  BY DEF StoreFaults, Storing
<1>2. CASE IsExecutable(p) /\ PushSmcEvent(p) /\ PushReprotectEvent(p)
  <2> SUFFICES ASSUME ~erred
               PROVE  /\ stale \subseteq PagesIn(Smc!Contents') \cup PagesIn(drained)
                      /\ Smc!Contents' = Reprotect!Contents'
    BY <1>1 DEF PagesIn, Smc!Contents
  <2>1. Smc!Contents = Reprotect!Contents
    BY <1>1
  <2>2. Smc!Full <=> Reprotect!Full
    BY <2>1, FullAtCapacity
  <2>3. CASE Smc!Full
    <3>1. Smc!Contents' = Smc!Contents /\ Reprotect!Contents' = Reprotect!Contents
      BY <1>2, <2>2, <2>3, RingsKept DEF PushSmcEvent, PushReprotectEvent
    <3> QED
      BY <2>1, <3>1
  <2>4. CASE ~Smc!Full
    <3>1. /\ Smc!Contents' = Append(Smc!Contents, p)
          /\ Reprotect!Contents' = Append(Reprotect!Contents, p)
      BY <1>2, <2>2, <2>4, PushEffect DEF PushSmcEvent, PushReprotectEvent
    <3>2. PagesIn(Smc!Contents') = PagesIn(Smc!Contents) \cup {p}
      BY <3>1, ContentsTyped, PagesInAppended
    <3> QED
      BY <2>1, <3>1, <3>2
  <2> QED
    BY <2>3, <2>4
<1>3. CASE UNCHANGED smc_ring /\ UNCHANGED reprotect_ring
  <2>1. Smc!Contents' = Smc!Contents /\ Reprotect!Contents' = Reprotect!Contents
    BY <1>3, RingsKept
  <2> QED
    BY <1>1, <2>1 DEF PagesIn
<1> QED
  BY <1>2, <1>3 DEF StoreFaults

LEMMA StepSeen ==
    ASSUME WriteXorExecute
    PROVE  SignalTypeOK /\ WritableIsQueued /\ SeenInv /\ [SignalNext]_signalVars => SeenInv'
<1> SUFFICES ASSUME SignalTypeOK, WritableIsQueued, SeenInv, [SignalNext]_signalVars
             PROVE  SeenInv'
  OBVIOUS
<1> USE DEF SeenInv, StoresAreSeen, RingsAgree, DrainedOnlyInDrain
<1>1. ASSUME NEW p \in GuestPage, StoreSucceeds(p)
      PROVE  SeenInv'
  <2>1. /\ Smc!Contents' = Smc!Contents /\ Reprotect!Contents' = Reprotect!Contents
        /\ phase = "native" /\ UNCHANGED <<phase, drained, erred>>
    BY <1>1, RingsKept DEF StoreSucceeds, Storing
  <2>2. ASSUME ~erred, IsExecutable(p)
        PROVE  p \in PagesIn(Smc!Contents)
    <3>1. "write" \notin granted[p]
      BY <2>2 DEF SignalTypeOK, IsExecutable, WriteXorExecute
    <3>2. p \in PagesIn(Reprotect!Contents)
      BY <1>1, <2>2, <3>1 DEF StoreSucceeds, WritableIsQueued
    <3> QED
      BY <2>1, <2>2, <3>2
  <2>3. ~erred => stale' \subseteq PagesIn(Smc!Contents) \cup PagesIn(drained)
    BY <1>1, <2>2 DEF StoreSucceeds
  <2> QED
    BY <2>1, <2>3 DEF PagesIn
<1>2. ASSUME NEW p \in GuestPage, StoreFaults(p)
      PROVE  SeenInv'
  BY <1>2, FaultKeepsAgreement
<1>3. CASE BlockReturns
  <2>1. /\ Smc!Contents' = <<>> /\ drained' = Smc!Contents
        /\ drained = <<>> /\ phase' = "drain" /\ UNCHANGED <<stale, erred>>
    BY <1>3, DrainEffect DEF BlockReturns
  <2>2. PagesIn(drained) = {} /\ PagesIn(drained') = PagesIn(Smc!Contents)
    BY <2>1, PagesInNothing
  <2> QED
    BY <2>1, <2>2 DEF PagesIn
<1>4. CASE HandleEvent
  <2>1. /\ Smc!Contents' = Smc!Contents
        /\ phase = "drain" /\ drained # <<>>
    BY <1>4, RingsKept DEF HandleEvent
  <2>2. CASE erred'
    BY <1>4, <2>1, <2>2 DEF HandleEvent
  <2>3. CASE ~erred'
    <3>1. /\ stale' = stale \ {Head(drained)} /\ drained' = Tail(drained)
          /\ UNCHANGED <<phase, erred>>
      BY <1>4, <2>3 DEF HandleEvent
    <3>2. PagesIn(drained) \subseteq PagesIn(drained') \cup {Head(drained)}
      BY <2>1, <3>1, PagesInTail DEF SignalTypeOK
    <3> QED
      BY <2>1, <2>3, <3>1, <3>2 DEF PagesIn
  <2> QED
    BY <2>2, <2>3
<1>5. CASE ReprotectPages
  <2>1. /\ Smc!Contents' = Smc!Contents /\ Reprotect!Contents' = <<>>
        /\ phase = "drain" /\ phase' = "idle" /\ drained = <<>>
        /\ UNCHANGED <<drained, stale, erred>>
    BY <1>5, DrainEffect, RingsKept DEF ReprotectPages
  <2> QED
    BY <2>1 DEF PagesIn
<1>6. ASSUME UNCHANGED <<smc_ring, reprotect_ring, drained, stale, erred>>,
             phase' = phase \/ (phase # "drain" /\ phase' # "drain")
      PROVE  SeenInv'
  <2>1. Smc!Contents' = Smc!Contents /\ Reprotect!Contents' = Reprotect!Contents
    BY <1>6, RingsKept
  <2> QED
    BY <1>6, <2>1 DEF PagesIn
<1>7. CASE \E p \in GuestPage, perms \in GuestPermissions : ChangePermissions(p, perms)
  BY <1>6, <1>7 DEF ChangePermissions
<1>8. CASE CallBlock
  BY <1>6, <1>8 DEF CallBlock
<1>9. CASE SideExit
  BY <1>6, <1>9 DEF SideExit
<1>10. CASE UNCHANGED signalVars
  <2>1. UNCHANGED <<smc_ring, reprotect_ring, drained, stale, erred, phase>>
    BY <1>10 DEF signalVars
  <2> QED
    BY <1>6, <2>1
<1> QED
  BY <1>1, <1>2, <1>3, <1>4, <1>5, <1>7, <1>8, <1>9, <1>10 DEF SignalNext

(* No completed store to translated code goes unseen, for any number of    *)
(* pages and slots, as long as no page is given write and execute          *)
(* permission at once.                                                     *)
THEOREM StoresAlwaysSeen ==
    ASSUME WriteXorExecute
    PROVE  SignalSpec => []StoresAreSeen
<1>1. SignalInit => SeenInv
  BY InitSeen
<1>2. SignalTypeOK /\ WritableIsQueued /\ SeenInv /\ [SignalNext]_signalVars => SeenInv'
  BY StepSeen
<1>3. SeenInv => StoresAreSeen
  BY DEF SeenInv
<1> QED
  BY <1>1, <1>2, <1>3, SignalTypeCorrect, WritableAlwaysQueued, PTL DEF SignalSpec
=============================================================================
