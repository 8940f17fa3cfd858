----------------------------- MODULE SmcSignal -----------------------------
(***************************************************************************)
(* Detection of self-modifying stores by write fault: the SIGSEGV handler  *)
(* of crates/nx86-vmm/src/smc_signal.rs, its two event rings, and the part *)
(* of the dispatch loop that drains them.                                  *)
(*                                                                         *)
(* Everything runs on one thread: the handler interrupts native code in    *)
(* the middle of a store and the store is executed again when it returns;  *)
(* the dispatch loop looks at the rings between blocks.  Between runs the  *)
(* owner of the memory may change permissions.  The handler is modelled as *)
(* installed, and native code as storing to any page at all.               *)
(*                                                                         *)
(* A page with execute permission is registered, and has translated code.  *)
(***************************************************************************)
EXTENDS Naturals, Sequences

CONSTANTS GuestPage, NoGuestPage,
          GuestPermissions,   \* permission sets of pages
          Slots               \* MAX_SMC_EVENTS

ASSUME GuestPageAssumption == NoGuestPage \notin GuestPage /\ GuestPage # {}
ASSUME GuestPermissionAssumption ==
    GuestPermissions \subseteq SUBSET {"read", "write", "execute"}
ASSUME SlotsAssumption == Slots \in Nat \ {0}

VARIABLES
  granted,         \* the permissions GuestMemory grants
  prot,            \* what mprotect was last told
  smc_events, smc_head, smc_tail,
  reprotect_events, reprotect_head, reprotect_tail,
  smc_overflow,    \* SMC_OVERFLOW; nothing ever takes it
  phase,           \* idle, native, drain, killed
  retrying,        \* the page of the store the handler returned to
  drained,         \* events taken off the ring, not handled yet
  stale,           \* history: pages stored to since their code was evicted
  erred            \* history: handling an event failed

smc_ring == <<smc_events, smc_head, smc_tail>>
reprotect_ring == <<reprotect_events, reprotect_head, reprotect_tail>>
signalVars == <<granted, prot, smc_ring, reprotect_ring, smc_overflow, phase,
                retrying, drained, stale, erred>>

Smc == INSTANCE EventRing WITH
    Item <- GuestPage, slots <- smc_events, head <- smc_head, tail <- smc_tail
Reprotect == INSTANCE EventRing WITH
    Item <- GuestPage, slots <- reprotect_events, head <- reprotect_head,
    tail <- reprotect_tail

PagesIn(events) == {events[i] : i \in DOMAIN events}
IsExecutable(p) == "execute" \in granted[p]

SignalTypeOK ==
  /\ granted \in [GuestPage -> GuestPermissions]
  /\ prot \in [GuestPage -> SUBSET {"read", "write", "execute"}]
  /\ Smc!TypeOK
  /\ Reprotect!TypeOK
  /\ smc_overflow \in BOOLEAN
  /\ phase \in {"idle", "native", "drain", "killed"}
  /\ retrying \in GuestPage \cup {NoGuestPage}
  /\ drained \in Seq(GuestPage)
  /\ stale \in SUBSET GuestPage
  /\ erred \in BOOLEAN

SignalInit ==
  /\ granted \in [GuestPage -> GuestPermissions]
  /\ prot = granted
  /\ Smc!Init
  /\ Reprotect!Init
  /\ smc_overflow = FALSE
  /\ phase = "idle"
  /\ retrying = NoGuestPage
  /\ drained = <<>>
  /\ stale = {}
  /\ erred = FALSE

-----------------------------------------------------------------------------
(* GuestMemory::set_page_permissions, between runs.                        *)
ChangePermissions(p, perms) ==
    /\ phase = "idle"
    /\ granted' = [granted EXCEPT ![p] = perms]
    /\ prot' = [prot EXCEPT ![p] = perms]
    /\ UNCHANGED <<smc_ring, reprotect_ring, smc_overflow, phase, retrying,
                   drained, stale, erred>>

CallBlock ==
    /\ phase = "idle"
    /\ phase' = "native"
    /\ UNCHANGED <<granted, prot, smc_ring, reprotect_ring, smc_overflow,
                   retrying, drained, stale, erred>>

(* Native code is about to store to p: the store that faulted comes first. *)
Storing(p) == phase = "native" /\ retrying \in {NoGuestPage, p}

StoreSucceeds(p) ==
    /\ Storing(p)
    /\ "write" \in prot[p]
    /\ stale' = IF IsExecutable(p) THEN stale \cup {p} ELSE stale
    /\ retrying' = NoGuestPage
    /\ UNCHANGED <<granted, prot, smc_ring, reprotect_ring, smc_overflow,
                   phase, drained, erred>>

(* push_smc_event *)
PushSmcEvent(p) ==
    IF Smc!Full THEN smc_overflow' = TRUE /\ UNCHANGED smc_ring
                ELSE Smc!Push(p) /\ UNCHANGED smc_overflow

(* Mutant: the page is writable from then on. *)
PushOrForget(p) ==
    /\ IF Reprotect!Full THEN UNCHANGED reprotect_ring ELSE Reprotect!Push(p)
    /\ prot' = [prot EXCEPT ![p] = {"read", "write", "execute"}]

(* push_reprotect_event, after the page was made writable: with the ring   *)
(* full, reprotect_one_page takes the permission back at once.             *)
PushReprotectEvent(p) ==
    IF Reprotect!Full
      THEN /\ prot' = [prot EXCEPT ![p] = {"read", "execute"}]
           /\ UNCHANGED reprotect_ring
      ELSE /\ prot' = [prot EXCEPT ![p] = {"read", "write", "execute"}]
           /\ Reprotect!Push(p)

(* smc_sigsegv_handler: a registered page is made writable and both rings  *)
(* are told; any other fault is raised again and kills the process.        *)
StoreFaults(p) ==
    /\ Storing(p)
    /\ "write" \notin prot[p]
    /\ \/ /\ IsExecutable(p)
          /\ PushSmcEvent(p)
          /\ PushReprotectEvent(p)
          /\ retrying' = p
          /\ UNCHANGED phase
       \/ /\ ~IsExecutable(p)
          /\ phase' = "killed"
          /\ UNCHANGED <<prot, smc_ring, smc_overflow, reprotect_ring,
                         retrying>>
    /\ UNCHANGED <<granted, drained, stale, erred>>

(* The block returns, and the dispatcher takes all events off the ring.    *)
BlockReturns ==
    /\ phase = "native"
    /\ retrying = NoGuestPage
    /\ phase' = "drain"
    /\ drained' = Smc!Contents
    /\ Smc!Drain
    /\ UNCHANGED <<granted, prot, reprotect_ring, smc_overflow, retrying,
                   stale, erred>>

(* A memory fault ends the run before the dispatcher looks at any event.   *)
SideExit ==
    /\ phase = "native"
    /\ retrying = NoGuestPage
    /\ phase' = "idle"
    /\ UNCHANGED <<granted, prot, smc_ring, reprotect_ring, smc_overflow,
                   retrying, drained, stale, erred>>

(* The blocks of the written page are evicted and the event is profiled;   *)
(* if that fails the run ends and the events not handled yet are lost.     *)
HandleEvent ==
    /\ phase = "drain"
    /\ drained # <<>>
    /\ \/ /\ stale' = stale \ {Head(drained)}
          /\ drained' = Tail(drained)
          /\ UNCHANGED <<phase, erred>>
       \/ /\ phase' = "idle"
          /\ drained' = <<>>
          /\ erred' = TRUE
          /\ UNCHANGED stale
    /\ UNCHANGED <<granted, prot, smc_ring, reprotect_ring, smc_overflow,
                   retrying>>

Reprotected == PagesIn(Reprotect!Contents)

(* reprotect_pages, once every event is handled.                           *)
ReprotectPages ==
    /\ phase = "drain"
    /\ drained = <<>>
    /\ prot' = [p \in GuestPage |->
                  IF p \in Reprotected THEN {"read", "execute"} ELSE prot[p]]
    /\ Reprotect!Drain
    /\ phase' = "idle"
    /\ UNCHANGED <<granted, smc_ring, smc_overflow, retrying, drained,
                   stale, erred>>

Native == \E p \in GuestPage : StoreSucceeds(p) \/ StoreFaults(p)

SignalNext == \/ \E p \in GuestPage : StoreSucceeds(p) \/ StoreFaults(p)
        \/ \E p \in GuestPage, perms \in GuestPermissions :
              ChangePermissions(p, perms)
        \/ CallBlock \/ BlockReturns \/ SideExit \/ HandleEvent
        \/ ReprotectPages

SignalSpec == SignalInit /\ [][SignalNext]_signalVars

-----------------------------------------------------------------------------
(* A store to translated code is never silent: until its blocks are        *)
(* evicted its event is on its way.  No event of a completed store is ever *)
(* dropped, although a full ring drops events: the ring of pages to        *)
(* protect is full by then, and the store does not complete.  Holds as     *)
(* long as every event could be handled, and where no page is given write  *)
(* and execute permission at once: such a page is never watched.           *)
StoresAreSeen ==
    ~erred => stale \subseteq PagesIn(Smc!Contents) \cup PagesIn(drained)

(* No code page is left writable: the ones that are wait in the ring.      *)
WritableIsQueued ==
    \A p \in GuestPage : IsExecutable(p) /\ "write" \in prot[p] =>
        "write" \in granted[p] \/ p \in PagesIn(Reprotect!Contents)

(* The event ring is a first-in first-out queue of the faulting stores,    *)
(* handed over in order to the dispatcher, also once the indices wrap.     *)
SmcQueue == INSTANCE BoundedQueue WITH
    Capacity <- Slots - 1, queue <- Smc!Contents,
    offered <- retrying, taken <- drained
EventsAreQueued == SmcQueue!Spec
=============================================================================
