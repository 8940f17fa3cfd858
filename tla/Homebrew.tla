------------------------------ MODULE Homebrew ------------------------------
(***************************************************************************)
(* Loading a homebrew (nx86-import/src/lib.rs): its file is checked, then  *)
(* its program, segments and stack are mapped page by page into a guest    *)
(* memory.  Addresses are counted in cells; a cell holds its zero or the   *)
(* place its byte has in the file, <<range, offset>>.                      *)
(***************************************************************************)
EXTENDS Integers, Sequences, SequencesExt

CONSTANTS Images,          \* what files say: [load, entry, top, size, length, segments]
          PageSize, InstructionSize,
          AddressLimit,    \* 2^64
          ArenaSize,       \* what a guest memory can hold
          MaxStack, MaxSegments, MaxTotal
Segments == [at : Nat, length : Nat, access : STRING]
ASSUME HomebrewAssumption ==
    /\ \A i \in Images : i \in [load : Nat, entry : Nat, top : Nat, size : Nat, length : Nat, segments : Seq(Segments)]
    /\ {PageSize, InstructionSize, ArenaSize} \subseteq Nat \ {0}
    /\ ArenaSize <= AddressLimit /\ ArenaSize % PageSize = 0 /\ AddressLimit % PageSize = 0

VARIABLES image,
          pages,   \* [page base -> [access, cells]]
          cursor,  \* where map_into is: [range, phase, page]
          loaded   \* "none", "parse", "map", "ok" or the error
importVars == <<image, pages, cursor, loaded>>

PageBase(a) == a - (a % PageSize)
\* The program, the segments and the stack, in the order they are mapped.
RangeOf(i, r) ==
    IF r = 1 THEN [at |-> i.load, length |-> i.length, access |-> "rx"]
    ELSE IF r = Len(i.segments) + 2 THEN [at |-> i.top - i.size, length |-> i.size, access |-> "rw"]
    ELSE i.segments[r - 1]
Stack(i) == Len(i.segments) + 2
Zero == <<0, 0>>
Unmapped == [p \in {} |-> 0]

-----------------------------------------------------------------------------
(* HomebrewModule::parse: the first check that fails is the error.         *)

Check(fails, error) == [fails |-> fails, error |-> error]
FirstError(checks) ==
    LET failing == {k \in DOMAIN checks : checks[k].fails}
    IN  IF failing = {} THEN "none" ELSE checks[CHOOSE k \in failing : \A l \in failing : k <= l].error

Overflows(at, length) == at + length >= AddressLimit
ProgramChecks(i) ==
    << Check(i.size = 0, "EmptyStack"), Check(i.size > MaxStack, "StackTooLarge"),
       Check(i.length = 0, "EmptyProgram"), Check(i.length % InstructionSize # 0, "ProgramLength"),
       Check(Overflows(i.load, i.length), "AddressOverflow"),
       Check(i.entry \notin i.load .. i.load + i.length - 1 \/ (i.entry - i.load) % InstructionSize # 0, "EntryPointOutsideProgram"),
       Check(Len(i.segments) > MaxSegments, "TooManySegments") >>
SegmentChecks(s) ==
    << Check(s.length = 0, "EmptySegment"), Check(s.access \notin {"r", "rw", "rx"}, "InvalidPermissions"),
       Check(Overflows(s.at, s.length), "AddressOverflow") >>

\* Mutant: ranges may share a page.
SpanOfBytes(at, length) == [from |-> at, to |-> at + length]
\* validate_layout: pages, sorted by where they begin, must not overlap.
Span(at, length) == [from |-> PageBase(at), to |-> PageBase(at + length - 1) + PageSize]
Spans(i) == [r \in 1 .. Stack(i) |-> Span(RangeOf(i, r).at, RangeOf(i, r).length)]
Earlier(spans, m, n) == spans[m].from < spans[n].from \/ (spans[m].from = spans[n].from /\ m < n)
Neighbours(spans, m, n) ==
    Earlier(spans, m, n) /\ \A k \in DOMAIN spans : ~(Earlier(spans, m, k) /\ Earlier(spans, k, n))
Overlap(spans) == \E m, n \in DOMAIN spans : Neighbours(spans, m, n) /\ spans[n].from < spans[m].to
LayoutChecks(i) ==
    << Check(Spans(i)[1].to >= AddressLimit, "AddressOverflow"), Check(i.top < i.size, "StackUnderflow"),
       Check(\E r \in DOMAIN Spans(i) : Spans(i)[r].to >= AddressLimit, "AddressOverflow"),
       Check(Overlap(Spans(i)), "OverlappingRanges") >>

\* The program, each segment, the layout.
Errors(i) ==
    [r \in 1 .. Stack(i) |->
        IF r = 1 THEN FirstError(ProgramChecks(i))
        ELSE IF r = Stack(i) THEN FirstError(LayoutChecks(i))
        ELSE FirstError(SegmentChecks(i.segments[r - 1]))]
ParseError(i) == FirstError([r \in 1 .. Stack(i) |-> Check(Errors(i)[r] # "none", Errors(i)[r])])

-----------------------------------------------------------------------------
(* map_into: each range is mapped writable, written, and given its         *)
(* permissions; the stack is only mapped.                                  *)

Total(i) == FoldLeft(LAMBDA sum, s : sum + s.length, i.length, i.segments) + i.size
Here == RangeOf(image, cursor.range)
AtRange(r, phase) == [range |-> r, phase |-> phase, page |-> PageBase(RangeOf(image, r).at)]
OnPage(phase) == loaded = "map" /\ cursor.phase = phase
\* Mutant: as long as a whole page is left.
WholePagesLeft(range) == cursor.page + PageSize <= range.at + range.length
\* The loop condition of map_pages and set_pages.
PagesLeft(range) == cursor.page < range.at + range.length

-----------------------------------------------------------------------------
NoImage == [load |-> 0, entry |-> 0, top |-> 0, size |-> 0, length |-> 0, segments |-> <<>>]
NoCursor == [range |-> 0, phase |-> "map", page |-> 0]
NoImport == image = NoImage /\ pages = Unmapped /\ cursor = NoCursor /\ loaded = "none"
ImportInit == image \in Images /\ pages = Unmapped /\ cursor = NoCursor /\ loaded = "parse"

Parse ==
    /\ loaded = "parse"
    /\ LET error == IF ParseError(image) # "none" THEN ParseError(image)
                    ELSE IF Total(image) > MaxTotal THEN "TotalMappingTooLarge" ELSE "none"
       IN  IF error # "none" THEN loaded' = error /\ UNCHANGED cursor
           ELSE loaded' = "map" /\ cursor' = AtRange(1, "map")
    /\ UNCHANGED <<image, pages>>

\* GuestMemory refuses: nothing more is done.
Refused == loaded' = "Memory" /\ UNCHANGED <<image, pages, cursor>>
Fresh == [access |-> "rw", cells |-> [o \in 0 .. PageSize - 1 |-> Zero]]
FreshAt(pg, new) == [p \in DOMAIN pg \cup {new} |-> IF p = new THEN Fresh ELSE pg[p]]
MapPage ==
    /\ OnPage("map") /\ PagesLeft(Here)
    /\ IF cursor.page + PageSize > ArenaSize THEN Refused
       ELSE /\ pages' = FreshAt(pages, cursor.page)
            /\ cursor' = [cursor EXCEPT !.page = @ + PageSize]
            /\ UNCHANGED <<image, loaded>>

Writable(range) ==
    \A a \in range.at .. range.at + range.length - 1 : PageBase(a) \in DOMAIN pages /\ pages[PageBase(a)].access = "rw"
Written(page, base, range, r) ==
    [page EXCEPT !.cells = [o \in 0 .. PageSize - 1 |->
        IF base + o \in range.at .. range.at + range.length - 1 THEN <<r, base + o - range.at>> ELSE @[o]]]
WriteBytes ==
    /\ OnPage("map") /\ ~PagesLeft(Here) /\ cursor.range # Stack(image)
    /\ IF ~Writable(Here) THEN Refused
       ELSE /\ pages' = [p \in DOMAIN pages |-> Written(pages[p], p, Here, cursor.range)]
            /\ cursor' = AtRange(cursor.range, "protect")
            /\ UNCHANGED <<image, loaded>>

SetPage ==
    /\ OnPage("protect") /\ PagesLeft(Here)
    /\ IF cursor.page \notin DOMAIN pages THEN Refused
       ELSE /\ pages' = [pages EXCEPT ![cursor.page].access = Here.access]
            /\ cursor' = [cursor EXCEPT !.page = @ + PageSize]
            /\ UNCHANGED <<image, loaded>>
NextRange ==
    /\ OnPage("protect") /\ ~PagesLeft(Here)
    /\ cursor' = AtRange(cursor.range + 1, "map")
    /\ UNCHANGED <<image, pages, loaded>>
Loaded ==
    /\ OnPage("map") /\ ~PagesLeft(Here) /\ cursor.range = Stack(image)
    /\ loaded' = "ok" /\ UNCHANGED <<image, pages, cursor>>

ImportNext == Parse \/ MapPage \/ WriteBytes \/ SetPage \/ NextRange \/ Loaded

-----------------------------------------------------------------------------
(* A loaded homebrew is in memory as its file says: every byte of every    *)
(* range at its address and with its permissions, a zeroed stack below the *)
(* stack pointer, an executable entry, and no page besides.  What parse    *)
(* accepts can only fail for want of guest memory; it refuses a layout     *)
(* exactly when two ranges need the same page (parse, map_into).           *)
Holds(range, at, length, access) ==
    \A a \in at .. at + length - 1 :
        /\ PageBase(a) \in DOMAIN pages
        /\ pages[PageBase(a)].access = access
        /\ pages[PageBase(a)].cells[a % PageSize] = IF range = 0 THEN Zero ELSE <<range, a - at>>
Needed(at, length) == {PageBase(a) : a \in at .. at + length - 1}
NeededBy(r) == Needed(RangeOf(image, r).at, RangeOf(image, r).length)
Clash == \E m, n \in 1 .. Stack(image) : m # n /\ NeededBy(m) \cap NeededBy(n) # {}
ImportFaithful ==
    /\ loaded = "ok" =>
        /\ Holds(1, image.load, image.length, "rx") /\ Holds(0, image.top - image.size, image.size, "rw")
        /\ \A n \in DOMAIN image.segments :
              Holds(n + 1, image.segments[n].at, image.segments[n].length, image.segments[n].access)
        /\ DOMAIN pages = UNION {NeededBy(r) : r \in 1 .. Stack(image)}
        /\ pages[PageBase(image.entry)].access = "rx"
    /\ loaded = "Memory" => \E r \in 1 .. Stack(image) : \E p \in NeededBy(r) : p + PageSize > ArenaSize
    /\ loaded \in {"ok", "map", "Memory", "TotalMappingTooLarge"} => ~Clash
    /\ loaded = "OverlappingRanges" => Clash
=============================================================================
