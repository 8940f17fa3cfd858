---------------------------- MODULE GuestMemory ----------------------------
(***************************************************************************)
(* Guest memory, GuestMemory of crates/nx86-vmm/src/lib.rs: the page table,*)
(* the host arena behind it with its own page protections, the byte-per-   *)
(* page table that lets native code bypass the checks (fastmem), and       *)
(* mirror pages that share the bytes of a canonical page.                  *)
(*                                                                         *)
(* One address space is described five times: by the page table, the host  *)
(* protections, the fastmem table, the mirror maps and the registry of     *)
(* executable pages; every operation updates each of them by hand, and the *)
(* host may refuse a protection change halfway.                            *)
(*                                                                         *)
(* The contents of a page are one abstract value.  A memory without an     *)
(* arena (new_logical, hosts other than Linux) keeps the contents in the   *)
(* page table instead.  Callers use the operations freely; misused records *)
(* that one was applied to a page of the wrong kind, and failed which      *)
(* operations were stopped halfway, by the host or by the full registry.   *)
(***************************************************************************)
EXTENDS Naturals, Sequences, FiniteSets

CONSTANTS
  Page, NoPage,
  Value,            \* contents of a page
  Zero,             \* the contents of a fresh page
  NoData,           \* Page.data is None
  Permissions,      \* the permission sets callers ask for
  MaxFailures,      \* bound: failures of mprotect
  MaxExecPages,     \* MAX_EXEC_PAGES: capacity of the registry
  MaxGeneration     \* bound: generation counters stop here

Access == {"read", "write", "execute"}

ASSUME PageAssumption == NoPage \notin Page
ASSUME ValueAssumption == Zero \in Value /\ NoData \notin Value
ASSUME PermissionAssumption == Permissions \subseteq SUBSET Access
ASSUME BoundAssumption == /\ MaxFailures \in Nat
                          /\ MaxExecPages \in Nat
                          /\ MaxGeneration \in Nat

VARIABLES
  arena_base,        \* there is a host arena
  debug_mode,
  pages,             \* mapped pages
  permissions,       \* Page.permissions of the mapped ones
  data,              \* Page.data
  arena,             \* contents of the arena page
  host,              \* its host protection
  fastmem,           \* FASTMEM_READ / FASTMEM_WRITE bits
  mirrors,           \* mirror -> canonical
  mirror_sources,    \* canonical -> mirrors
  page_generations,  \* absent: NoGeneration
  exec_pages,        \* the registry of smc_signal.rs
  misused, failed, crashed

table_vars == <<pages, permissions, data>>
arena_vars == <<arena, host>>
mirror_vars == <<mirrors, mirror_sources>>
vars == <<arena_base, debug_mode, table_vars, arena_vars, fastmem, mirror_vars,
          page_generations, exec_pages, misused, failed, crashed>>

NoGeneration == MaxGeneration + 1

TypeOK ==
  /\ arena_base \in BOOLEAN
  /\ debug_mode \in BOOLEAN
  /\ pages \in SUBSET Page
  /\ permissions \in [Page -> Permissions \cup {{}}]
  /\ data \in [Page -> Value \cup {NoData}]
  /\ arena \in [Page -> Value]
  /\ host \in [Page -> SUBSET Access]
  /\ fastmem \in [Page -> SUBSET {"read", "write"}]
  /\ mirrors \in [Page -> Page \cup {NoPage}]
  /\ mirror_sources \in [Page -> SUBSET Page]
  /\ page_generations \in [Page -> 0..NoGeneration]
  /\ exec_pages \in SUBSET Page
  /\ Cardinality(exec_pages) <= MaxExecPages
  /\ misused \in BOOLEAN
  /\ failed \in SUBSET {"map_page", "unmap_page", "register"}
  /\ crashed \in BOOLEAN

(* new(), new_with_mode(debug_mode) and new_logical(). *)
Init ==
  /\ arena_base \in BOOLEAN
  /\ debug_mode \in BOOLEAN
  /\ pages = {}
  /\ permissions = [p \in Page |-> {}]
  /\ data = [p \in Page |-> NoData]
  /\ arena = [p \in Page |-> Zero]
  /\ host = [p \in Page |-> {}]
  /\ fastmem = [p \in Page |-> {}]
  /\ mirrors = [p \in Page |-> NoPage]
  /\ mirror_sources = [p \in Page |-> {}]
  /\ page_generations = [p \in Page |-> NoGeneration]
  /\ exec_pages = {}
  /\ misused = FALSE
  /\ failed = {}
  /\ crashed = FALSE

-----------------------------------------------------------------------------
IsMirror(p) == mirrors[p] # NoPage

(* resolve_address: at most four hops. *)
Hop(p) == IF IsMirror(p) THEN mirrors[p] ELSE p
Resolve(p) == Hop(Hop(Hop(Hop(p))))

(* Mutant: the registry never fills up. *)
RegistryNeverFull == FALSE

(* register_executable_page: a full registry drops the page silently.      *)
RegistryFull == Cardinality(exec_pages) >= MaxExecPages
Register(p) ==
    /\ exec_pages' = IF RegistryFull THEN exec_pages ELSE exec_pages \cup {p}
    /\ failed' = IF RegistryFull /\ p \notin exec_pages
                    THEN failed \cup {"register"} ELSE failed

(* unregister_executable_page *)
Unregister(p) == /\ exec_pages' = exec_pages \ {p}
                 /\ UNCHANGED failed

(* set_fastmem_permissions; without an arena there is no table. *)
FastmemSet(p, perms) ==
    IF arena_base THEN [fastmem EXCEPT ![p] = perms \ {"execute"}] ELSE fastmem
FastmemCleared(p) == [fastmem EXCEPT ![p] = {}]

(* ArenaReservation::unmap_page: access is revoked and the page discarded, *)
(* to read as zeroes.  (The host may refuse to discard it; the old bytes   *)
(* are then overwritten by the map_page that makes the page readable.)     *)
ArenaUnmapped(p) ==
    IF arena_base
      THEN /\ host' = [host EXCEPT ![p] = {}]
           /\ arena' = [arena EXCEPT ![p] = Zero]
      ELSE UNCHANGED arena_vars

(* Where the first mprotect of an operation fails and nothing has changed  *)
(* yet (set_page_permissions, mirror_page, unmap_mirror) the failure is a  *)
(* stuttering step; the others have an action of their own.                *)
HostMayFail == arena_base /\ Cardinality(failed) < MaxFailures

Misuse(kind) == misused' = (misused \/ kind)

-----------------------------------------------------------------------------
MapPage(p, perms) ==
    /\ ~crashed
    /\ IF arena_base
         THEN /\ arena' = [arena EXCEPT ![p] = Zero]
              /\ host' = [host EXCEPT ![p] = perms]
              /\ data' = [data EXCEPT ![p] = NoData]
         ELSE /\ data' = [data EXCEPT ![p] = Zero]
              /\ UNCHANGED arena_vars
    /\ pages' = pages \cup {p}
    /\ permissions' = [permissions EXCEPT ![p] = perms]
    /\ fastmem' = FastmemSet(p, perms)
    /\ page_generations' = [page_generations EXCEPT ![p] = 0]
    /\ IF "execute" \in perms THEN Register(p)
                               ELSE UNCHANGED <<exec_pages, failed>>
    /\ Misuse(IsMirror(p))
    /\ UNCHANGED <<arena_base, debug_mode, mirror_vars, crashed>>

(* Mutant: the page goes but its fastmem byte stays. *)
MapPageFailsKeepingByte(p) ==
    /\ ~crashed
    /\ HostMayFail
    /\ \/ UNCHANGED arena_vars
       \/ /\ arena' = [arena EXCEPT ![p] = Zero]
          /\ \E left \in {{}, {"read", "write"}} : host' = [host EXCEPT ![p] = left]
    /\ pages' = pages \ {p}
    /\ permissions' = [permissions EXCEPT ![p] = {}]
    /\ data' = [data EXCEPT ![p] = NoData]
    /\ failed' = failed \cup {"map_page"}
    /\ UNCHANGED <<arena_base, debug_mode, fastmem, mirror_vars,
                   page_generations, exec_pages, misused, crashed>>

(* map_page when the arena refuses: the first mprotect fails, or the page  *)
(* is reset and the second fails, with or without the rollback.            *)
MapPageFails(p) ==
    /\ ~crashed
    /\ HostMayFail
    /\ \/ UNCHANGED arena_vars
       \/ /\ arena' = [arena EXCEPT ![p] = Zero]
          /\ \E left \in {{}, {"read", "write"}} : host' = [host EXCEPT ![p] = left]
    /\ pages' = pages \ {p}
    /\ permissions' = [permissions EXCEPT ![p] = {}]
    /\ data' = [data EXCEPT ![p] = NoData]
    /\ fastmem' = FastmemCleared(p)
    /\ failed' = failed \cup {"map_page"}
    /\ UNCHANGED <<arena_base, debug_mode, mirror_vars, page_generations,
                   exec_pages, misused, crashed>>

(* Mutant: a page that becomes executable is not registered. *)
ReregisterNever(p, perms) ==
    IF "execute" \in permissions[p] \ perms
      THEN Unregister(p) ELSE UNCHANGED <<exec_pages, failed>>

(* The registry follows a change of permissions. *)
Reregister(p, perms) ==
    CASE "execute" \in permissions[p] \ perms -> Unregister(p)
      [] "execute" \in perms \ permissions[p] -> Register(p)
      [] OTHER -> UNCHANGED <<exec_pages, failed>>

SetPagePermissions(p, perms) ==
    /\ ~crashed
    /\ p \in pages
    /\ host' = IF arena_base THEN [host EXCEPT ![p] = perms] ELSE host
    /\ permissions' = [permissions EXCEPT ![p] = perms]
    /\ fastmem' = FastmemSet(p, perms)
    /\ Reregister(p, perms)
    /\ UNCHANGED <<arena_base, debug_mode, pages, data, arena, mirror_vars,
                   page_generations, misused, crashed>>

(* The page leaves the table; its generation and fastmem byte go with it.  *)
Dropped(p) ==
    /\ pages' = pages \ {p}
    /\ permissions' = [permissions EXCEPT ![p] = {}]
    /\ data' = [data EXCEPT ![p] = NoData]
    /\ fastmem' = FastmemCleared(p)

(* Mutant: a canonical page goes while mirrors depend on it. *)
MayUnmapAnything(p) == TRUE

MayUnmap(p) == mirror_sources[p] = {}

(* unmap_page.  A page that is not mapped is unmapped without complaint.   *)
UnmapPage(p) ==
    /\ ~crashed
    /\ MayUnmap(p)
    /\ exec_pages' = IF "execute" \in permissions[p] THEN exec_pages \ {p}
                                                     ELSE exec_pages
    /\ ArenaUnmapped(p)
    /\ Dropped(p)
    /\ page_generations' = [page_generations EXCEPT ![p] = NoGeneration]
    /\ Misuse(IsMirror(p))
    /\ UNCHANGED <<arena_base, debug_mode, mirror_vars, failed, crashed>>

(* The host refuses: the page stays, but is no longer registered.          *)
UnmapPageFails(p) ==
    /\ ~crashed
    /\ HostMayFail
    /\ MayUnmap(p)
    /\ exec_pages' = IF "execute" \in permissions[p] THEN exec_pages \ {p}
                                                     ELSE exec_pages
    /\ failed' = failed \cup {"unmap_page"}
    /\ UNCHANGED <<arena_base, debug_mode, table_vars, arena_vars, fastmem,
                   mirror_vars, page_generations, misused, crashed>>

InArena(p) == arena_base /\ data[p] = NoData

(* What a debug-mode mirror starts with: a copy of the canonical page.     *)
CopyOf(canonical) ==
    IF data[canonical] # NoData THEN data[canonical] ELSE arena[canonical]

MayMirror(mirror, canonical, perms) ==
    /\ canonical \in pages
    /\ ~IsMirror(canonical)
    /\ perms \subseteq permissions[canonical]
    /\ mirror \notin pages
    /\ ~IsMirror(mirror)

(* mirror_page.  In debug mode the mirror is an independent page, filled   *)
(* by reading the canonical one in the arena whatever its permissions are. *)
MirrorPage(mirror, canonical, perms) ==
    /\ ~crashed
    /\ MayMirror(mirror, canonical, perms)
    /\ ArenaUnmapped(mirror)
    /\ fastmem' = FastmemCleared(mirror)
    /\ pages' = pages \cup {mirror}
    /\ permissions' = [permissions EXCEPT ![mirror] = perms]
    /\ IF debug_mode
         THEN /\ data' = [data EXCEPT ![mirror] = CopyOf(canonical)]
              /\ UNCHANGED mirror_vars
         ELSE /\ data' = [data EXCEPT ![mirror] = NoData]
              /\ mirrors' = [mirrors EXCEPT ![mirror] = canonical]
              /\ mirror_sources' = [mirror_sources EXCEPT
                                      ![canonical] = @ \cup {mirror}]
    /\ crashed' = (debug_mode /\ InArena(canonical) /\ host[canonical] = {})
    /\ UNCHANGED <<arena_base, debug_mode, page_generations, exec_pages,
                   misused, failed>>

(* Mutant: the canonical page keeps listing a mirror that is gone. *)
SourcesKept(mirror) == mirror_sources

(* mirror_sources once a mirror is gone. *)
SourcesWithout(mirror) ==
    [c \in Page |-> IF c = mirrors[mirror] THEN mirror_sources[c] \ {mirror}
                                           ELSE mirror_sources[c]]

(* unmap_mirror.  Nothing checks that the page is a mirror.                *)
UnmapMirror(mirror) ==
    /\ ~crashed
    /\ ArenaUnmapped(mirror)
    /\ Dropped(mirror)
    /\ mirrors' = [mirrors EXCEPT ![mirror] = NoPage]
    /\ mirror_sources' = SourcesWithout(mirror)
    /\ Misuse(mirror \in pages /\ page_generations[mirror] # NoGeneration)
    /\ UNCHANGED <<arena_base, debug_mode, page_generations, exec_pages,
                   failed, crashed>>

-----------------------------------------------------------------------------
(* Where write() puts the bytes of a page it has validated: the table, the *)
(* arena, or nowhere when the backing page is gone.                        *)
InTable(p) == IF IsMirror(p) /\ ~arena_base THEN Resolve(p) ELSE p

Writable(p) == p \in pages /\ "write" \in permissions[p]

Backed(p) == IF InArena(p) THEN TRUE ELSE data[InTable(p)] # NoData
HostAllows(p) == InArena(p) => "write" \in host[Resolve(p)]

(* The chunks stored before the first one that has no backing or that the  *)
(* host refuses (a fault inside the copy, which kills the process).        *)
Stored(range) ==
    {i \in DOMAIN range : \A j \in 1..i : Backed(range[j]) /\ HostAllows(range[j])}

(* Mutant: a mirror without an arena is written in place. *)
TablePagesInPlace(range) ==
    {range[i] : i \in {j \in Stored(range) : ~InArena(range[j])}}

TablePages(range) ==
    {InTable(range[i]) : i \in {j \in Stored(range) : ~InArena(range[j])}}
ArenaPages(range) ==
    {Resolve(range[i]) : i \in {j \in Stored(range) : InArena(range[j])}}

(* The generation of an executable page advances with every write through  *)
(* its own address.                                                        *)
Bumped(range) == {p \in Page : /\ \E i \in Stored(range) : range[i] = p
                               /\ "execute" \in permissions[p]
                               /\ page_generations[p] < MaxGeneration}

(* write(): the whole range is validated before a byte is stored.          *)
Write(range, value) ==
    /\ ~crashed
    /\ \A i \in DOMAIN range : Writable(range[i])
    /\ data' = [p \in Page |-> IF p \in TablePages(range) THEN value ELSE data[p]]
    /\ arena' = [p \in Page |-> IF p \in ArenaPages(range) THEN value ELSE arena[p]]
    /\ page_generations' =
         [p \in Page |-> IF p \in Bumped(range) THEN page_generations[p] + 1
                                                ELSE page_generations[p]]
    /\ crashed' = \E i \in DOMAIN range \ Stored(range) :
                     /\ \A j \in 1..(i - 1) : j \in Stored(range)
                     /\ ~HostAllows(range[i])
    /\ UNCHANGED <<arena_base, debug_mode, pages, permissions, host, fastmem,
                   mirror_vars, exec_pages, misused, failed>>

(* What read() returns for a mapped page, following copy_out.              *)
Contents(p) == CASE data[p] # NoData -> data[p]
                 [] data[p] = NoData /\ arena_base -> arena[Resolve(p)]
                 [] OTHER -> data[Resolve(p)]

(* read() of a mapped page: copying from a page the host no longer lets    *)
(* anyone read kills the process.                                          *)
ReadPage(p) ==
    /\ ~crashed
    /\ p \in pages
    /\ "read" \in permissions[p]
    /\ crashed' = (InArena(p) /\ host[Resolve(p)] = {})
    /\ UNCHANGED <<arena_base, debug_mode, table_vars, arena_vars, fastmem,
                   mirror_vars, page_generations, exec_pages, misused, failed>>

(* A store by native code whose fastmem check succeeds.                    *)
FastStore(p, value) ==
    /\ ~crashed
    /\ "write" \in fastmem[p]
    /\ arena' = IF "write" \in host[p] THEN [arena EXCEPT ![p] = value] ELSE arena
    /\ crashed' = ("write" \notin host[p])
    /\ UNCHANGED <<arena_base, debug_mode, table_vars, host, fastmem,
                   mirror_vars, page_generations, exec_pages, misused, failed>>

Ranges == {<<p>> : p \in Page} \cup {r \in Page \X Page : r[1] # r[2]}

(* A crashed process takes no further step.                                *)
(* Bound: a store never writes the contents of a fresh page. *)
Next ==
    \/ \E p \in Page, perms \in Permissions : \/ MapPage(p, perms)
                                              \/ SetPagePermissions(p, perms)
    \/ \E p \in Page : \/ MapPageFails(p) \/ UnmapPage(p) \/ UnmapPageFails(p)
                       \/ UnmapMirror(p) \/ ReadPage(p)
    \/ \E m, c \in Page, perms \in Permissions : MirrorPage(m, c, perms)
    \/ \E range \in Ranges, v \in Value \ {Zero} : Write(range, v)
    \/ \E p \in Page, v \in Value \ {Zero} : FastStore(p, v)

Spec == Init /\ [][Next]_vars
-----------------------------------------------------------------------------
(* Native code that passed the fastmem check never faults on the host page *)
(* it then touches, whatever mprotect refused before: it runs outside any  *)
(* recovery.                                                               *)
FastmemWithinHost == \A p \in Page : fastmem[p] \subseteq host[p]

(* The reverse map is exact.  unmap_page trusts it alone to keep canonical *)
(* pages alive, and a stale entry would make a page impossible to unmap.   *)
MirrorIndexExact ==
    \A m, c \in Page : m \in mirror_sources[c] <=> mirrors[m] = c

(* Used as documented, and with no map_page refused by the host, a mirror  *)
(* is a mapped page and its canonical a mapped page that is no mirror:     *)
(* every access resolves in one hop.                                       *)
MirrorsGrounded ==
    ~misused /\ "map_page" \notin failed =>
        \A m \in Page : IsMirror(m) =>
            /\ m \in pages
            /\ mirrors[m] \in pages
            /\ ~IsMirror(mirrors[m])

(* A write is seen at once by every page that shares the written page's    *)
(* bytes and by no other, with an arena, without one and in debug mode.    *)
Sharing(range) ==
    {q \in Page : \E i \in DOMAIN range : Hop(q) = Hop(range[i])}
WritesAreShared ==
    [][ ~misused /\ failed = {} /\ ~crashed' /\ <<data, arena>>' # <<data, arena>> =>
          \A range \in Ranges, v \in Value \ {Zero} :
            Write(range, v) =>
              \A q \in pages :
                  Contents(q)' = IF q \in Sharing(range) THEN v ELSE Contents(q)
      ]_vars

(* Every executable page that map_page mapped is known to the write-fault  *)
(* handler, as long as no operation failed halfway and the registry never  *)
(* dropped a page.                                                         *)
ExecutableRegistered ==
    ~misused /\ failed = {} =>
        \A p \in pages : "execute" \in permissions[p]
                           /\ page_generations[p] # NoGeneration
                             => p \in exec_pages
=============================================================================
