---------------------------- MODULE IpcSessions -----------------------------
(***************************************************************************)
(* The guest's IPC sessions, their domains and objects                     *)
(* (nx86-service/src/lib.rs, SessionTable).  Handles are counters that     *)
(* saturate: after the last one has been given, it is given again.         *)
(***************************************************************************)
EXTENDS Integers, Sequences, Functions

CONSTANTS LastHandle,  \* u32::MAX
          NoDomain     \* a command outside any domain
ASSUME HandleAssumption == LastHandle \in Nat \ {0} /\ NoDomain \notin 0 .. LastHandle

VARIABLES next,      \* the three counters: session, domain, object
          sessions,  \* open session -> its service
          domains,   \* domain -> the session that owns it
          objects    \* object -> [domain, session]
tableVars == <<next, sessions, domains, objects>>

Empty == [h \in {} |-> 0]
With(table, h, entry) == [k \in DOMAIN table \cup {h} |-> IF k = h THEN entry ELSE table[k]]
Without(table, hs) == Restrict(table, DOMAIN table \ hs)
Advance(counter) == next' = [next EXCEPT ![counter] = IF @ < LastHandle THEN @ + 1 ELSE @]

TableInit == next = [session |-> 1, domain |-> 1, object |-> 1] /\ sessions = Empty /\ domains = Empty /\ objects = Empty

-----------------------------------------------------------------------------
OpenService(service) ==
    /\ sessions' = With(sessions, next.session, service)
    /\ Advance("session")
    /\ UNCHANGED <<domains, objects>>

DomainsOf(s) == {d \in DOMAIN domains : domains[d] = s}
ObjectsOf(s) == {o \in DOMAIN objects : objects[o].session = s}

\* Mutant: the objects outlive their session.
CloseSessionOnly(s) ==
    /\ s \in DOMAIN sessions
    /\ sessions' = Without(sessions, {s})
    /\ domains' = Without(domains, DomainsOf(s))
    /\ UNCHANGED <<objects, next>>
\* A session takes its domains and its objects along; without it: an error.
CloseSession(s) ==
    /\ s \in DOMAIN sessions
    /\ sessions' = Without(sessions, {s})
    /\ domains' = Without(domains, DomainsOf(s))
    /\ objects' = Without(objects, ObjectsOf(s))
    /\ UNCHANGED next

OpenDomain(s) ==
    /\ s \in DOMAIN sessions
    /\ domains' = With(domains, next.domain, s)
    /\ Advance("domain")
    /\ UNCHANGED <<sessions, objects>>

AddObject(d) ==
    /\ d \in DOMAIN domains
    /\ objects' = With(objects, next.object, [domain |-> d, session |-> domains[d]])
    /\ Advance("object")
    /\ UNCHANGED <<sessions, domains>>

\* route: the command's session is open for its service, its domain and its
\* objects belong to that session.
Routes(c) ==
    /\ c.session \in DOMAIN sessions /\ sessions[c.session] = c.service
    /\ c.domain # NoDomain => c.domain \in DOMAIN domains /\ domains[c.domain] = c.session
    /\ \A i \in DOMAIN c.objects : c.objects[i] \in DOMAIN objects /\ objects[c.objects[i]].session = c.session

-----------------------------------------------------------------------------
(* Until a counter saturates, every domain belongs to an open session and  *)
(* every object to an open domain of its session, and every open handle is *)
(* below the next of its kind: as counters do not go back, none of them is *)
(* given twice (close_session, open_domain, add_object).                   *)
TablesAgree ==
    (\A c \in DOMAIN next : next[c] < LastHandle) =>
        /\ \A d \in DOMAIN domains : domains[d] \in DOMAIN sessions
        /\ \A o \in DOMAIN objects :
               LET r == objects[o] IN r.domain \in DOMAIN domains /\ domains[r.domain] = r.session
        /\ \A s \in DOMAIN sessions : s < next.session
        /\ \A d \in DOMAIN domains : d < next.domain
        /\ \A o \in DOMAIN objects : o < next.object
-----------------------------------------------------------------------------
(* The wire format of guest commands: a header of thirteen words, then     *)
(* payload, descriptors, copied and moved handles and objects, each as     *)
(* long as the header says.  A word is an integer; those from U32 up do    *)
(* not fit the fields that are 32 bits wide.                               *)

CONSTANTS Magic,    \* the magic and version, as one word
          U32,      \* 2^32
          Absent    \* no domain or no process
ASSUME CodecAssumption == Magic \in Nat /\ U32 \in Nat /\ Absent \notin Nat

HeaderWords == 13
Kind == {"static", "send", "receive", "exchange"}
KindOf == [raw \in 0 .. 3 |-> <<"static", "send", "receive", "exchange">>[raw + 1]]
RawOf(kind) == CHOOSE raw \in 0 .. 3 : KindOf[raw] = kind

\* Descriptors are four words each: kind, index, address and size.
DescriptorWords(d) == <<RawOf(d.kind), d.index, d.address, d.size>>
WordsOf(ds) == [k \in 1 .. 4 * Len(ds) |-> DescriptorWords(ds[((k - 1) \div 4) + 1])[((k - 1) % 4) + 1]]
HasDomain == 1
HasProcess == 2
FlagsOf(c) == (IF c.domain = Absent THEN 0 ELSE HasDomain) + (IF c.process = Absent THEN 0 ELSE HasProcess)
OrZero(x) == IF x = Absent THEN 0 ELSE x

ToWords(c) ==
    <<Magic, c.type, c.id, c.service, c.session, OrZero(c.domain), FlagsOf(c), OrZero(c.process),
      Len(c.payload), Len(c.descriptors), Len(c.copies), Len(c.moves), Len(c.objects)>>
    \o c.payload \o WordsOf(c.descriptors) \o c.copies \o c.moves \o c.objects

-----------------------------------------------------------------------------
(* from_bytes: the counts must fit and add up to the whole buffer; what is  *)
(* read as a 32-bit field must fit one.  Flag bits that mean nothing are    *)
(* passed over, and a domain word is checked only where the flag is set     *)
(* or not: to_u32 is applied to it either way.                              *)
Narrow(w) == w < U32

\* Mutant: the moved handles are read from where the copied ones begin.
BeginAliased(w) ==
    LET payload == HeaderWords
        descriptors == payload + w[9]
        copies == descriptors + 4 * w[10]
        named == copies + w[11] + w[12]
    IN  [payload |-> payload, descriptors |-> descriptors, copies |-> copies, moves |-> copies,
         objects |-> named, end |-> named + w[13]]

\* Where each of the five lists begins, as an offset into the words.
Begin(w) ==
    LET payload == HeaderWords
        descriptors == payload + w[9]
        copies == descriptors + 4 * w[10]
        moves == copies + w[11]
        named == moves + w[12]
    IN  [payload |-> payload, descriptors |-> descriptors, copies |-> copies, moves |-> moves,
         objects |-> named, end |-> named + w[13]]

Slice(w, from, count) == SubSeq(w, from + 1, from + count)

WellFormed(w) ==
    /\ Len(w) >= HeaderWords /\ w[1] = Magic
    /\ \A i \in 9 .. 13 : Narrow(w[i])
    /\ Begin(w).end = Len(w)
    /\ \A i \in 2 .. 6 : Narrow(w[i])
    /\ \A i \in Begin(w).copies + 1 .. Len(w) : Narrow(w[i])
    /\ \A d \in 0 .. w[10] - 1 :
           LET at == Begin(w).descriptors + 4 * d IN w[at + 1] \in 0 .. 3 /\ Narrow(w[at + 2])

\* flags & mask, for a mask of one bit.
Has(flags, mask) == (flags \div mask) % 2 = 1

FromWords(w) ==
    LET b == Begin(w)
    IN  [type |-> w[2], id |-> w[3], service |-> w[4], session |-> w[5],
         domain |-> IF Has(w[7], HasDomain) THEN w[6] ELSE Absent,
         process |-> IF Has(w[7], HasProcess) THEN w[8] ELSE Absent,
         payload |-> Slice(w, b.payload, w[9]),
         descriptors |-> [d \in 1 .. w[10] |->
             LET s == Slice(w, b.descriptors + 4 * (d - 1), 4)
             IN  [kind |-> KindOf[s[1]], index |-> s[2], address |-> s[3], size |-> s[4]]],
         copies |-> Slice(w, b.copies, w[11]), moves |-> Slice(w, b.moves, w[12]), objects |-> Slice(w, b.objects, w[13])]

-----------------------------------------------------------------------------
(* Responses: seven header words, no descriptors.                          *)
ResponseHeader == 7
Response == 4  \* the command type of every response
ToResponse(r) ==
    <<Magic, Response, r.result, Len(r.payload), Len(r.copies), Len(r.moves), Len(r.objects)>>
    \o r.payload \o r.copies \o r.moves \o r.objects
ResponseFormed(w) ==
    /\ Len(w) >= ResponseHeader /\ w[1] = Magic /\ w[2] = Response
    /\ \A i \in 3 .. 7 : Narrow(w[i])
    /\ ResponseHeader + w[4] + w[5] + w[6] + w[7] = Len(w)
    /\ \A i \in ResponseHeader + w[4] + 1 .. Len(w) : Narrow(w[i])
FromResponse(w) ==
    [result |-> w[3], payload |-> Slice(w, ResponseHeader, w[4]), copies |-> Slice(w, ResponseHeader + w[4], w[5]),
     moves |-> Slice(w, ResponseHeader + w[4] + w[5], w[6]), objects |-> Slice(w, ResponseHeader + w[4] + w[5] + w[6], w[7])]

-----------------------------------------------------------------------------
(* What is accepted reads every word once: encoding it again gives the     *)
(* same words, up to the header fields no flag asks for, and decoding that *)
(* gives the same command; likewise a response (to_bytes, from_bytes).     *)
ReadsBack(w) ==
    WellFormed(w) =>
        LET c == FromWords(w)
            again == ToWords(c)
        IN  /\ WellFormed(again) /\ FromWords(again) = c
            /\ Len(again) = Len(w)
            /\ \A i \in DOMAIN w : i \in {6, 7, 8} \/ again[i] = w[i]
ResponseReadsBack(w) == ResponseFormed(w) => ToResponse(FromResponse(w)) = w
=============================================================================
