----------------------------- MODULE MCServices -----------------------------
(***************************************************************************)
(* Model-checking instance of GuestServices.  One rich command is written  *)
(* whole and with each header word altered; the others are the calls a     *)
(* homebrew makes, the ones that fail included.                            *)
(***************************************************************************)
EXTENDS GuestServices

PcmAt == 1
Hole == 2
MCMapped == [a \in {PcmAt, 3} |-> IF a = PcmAt THEN 16 ELSE 4096]
Buffer(kind, at, size) == [kind |-> kind, index |-> 0, address |-> at, size |-> size]
Command(id, service, session, payload, descriptors) ==
    [type |-> 1, id |-> id, service |-> service, session |-> session, domain |-> Absent, process |-> Absent,
     payload |-> payload, descriptors |-> descriptors, copies |-> <<>>, moves |-> <<>>, objects |-> <<>>]
AppendOf(kind, at, size, hertz) == Command(1, AudioOut, 1, <<hertz>>, <<Buffer(kind, at, size)>>)
Rich == [AppendOf("send", PcmAt, 8, 48) EXCEPT !.process = 7, !.copies = <<5, 6>>, !.moves = <<8>>]
Altered == {[ToWords(Rich) EXCEPT ![i] = v] : i \in 1 .. HeaderWords, v \in {0, 2, U32}}
Plain == {AppendOf("static", PcmAt, 8, 48), AppendOf("exchange", PcmAt, 16, 48), AppendOf("receive", PcmAt, 8, 48),
          AppendOf("send", Hole, 8, 48), AppendOf("send", PcmAt, 4, 48), AppendOf("send", PcmAt, 6, 48),
          AppendOf("send", PcmAt, 8, 0), AppendOf("send", PcmAt, 24, 48), Command(1, AudioOut, 1, <<>>, <<>>),
          Command(2, AudioOut, 1, <<>>, <<>>), Command(3, AudioOut, 1, <<2>>, <<>>), Command(4, AudioOut, 1, <<>>, <<>>),
          Command(2, AudioOut, 2, <<>>, <<>>), Command(2, OtherService, 1, <<>>, <<>>)}
Request(words, at, excess) == [words |-> words, x0 |-> at, x1 |-> 8 * Len(words) + excess]
MCRequests ==
    {Request(ToWords(c), 3, 0) : c \in Plain \cup {Rich}}
    \cup {Request(ToWords(Rich), PcmAt, 0), Request(ToWords(Rich), 3, 4), Request(ToWords(Rich), 3, 16), Request(ToWords(Rich), 3, MaxCommand)}
MCOwned == {ToWords(c) : c \in {[Command(2, AudioOut, s, <<>>, <<>>) EXCEPT !.domain = d, !.objects = o] : s \in 1 .. 2, d \in {Absent, 1}, o \in {<<>>, <<1, 2>>}}}
Answer == [result |-> 2, payload |-> <<U32, 3>>, copies |-> <<5, 6>>, moves |-> <<8>>, objects |-> <<4>>]
AnswersAltered == {[ToResponse(Answer) EXCEPT ![i] = v] : i \in 1 .. ResponseHeader + 6, v \in {0, 2, U32}}
MCBuffers == {ToResponse(Answer)} \cup AnswersAltered \cup  {ToWords(c) : c \in Plain \cup {Rich}} \cup Altered \cup {Tail(ToWords(Rich)), Append(ToWords(Rich), 1)}

Work(a, b, c) == <<[pc |-> 0, work |-> a], [pc |-> 10, work |-> b], [pc |-> 20, work |-> c]>>
MCPrograms == {[threads |-> Work(a, b, c), quantum |-> q] : a \in 0 .. 3, b \in {0, 2}, c \in {1, 4}, q \in 0 .. 2} \cup {[threads |-> <<>>, quantum |-> 1]}
MCAbsent == -1

\* Pages of 4 cells in 16 cells of memory, addresses below 24.
Segment(at, length, access) == [at |-> at, length |-> length, access |-> access]
Image(load, entry, top, size, length, segments) ==
    [load |-> load, entry |-> entry, top |-> top, size |-> size, length |-> length, segments |-> segments]
OneSegment == {<<Segment(at, n, access)>> : at \in {0, 3, 4, 7, 11, 15, 20, 23}, n \in {0, 1, 2, 5}, access \in {"r", "rw", "rwx"}}
Many == {<<Segment(0, 1, "r"), Segment(12, 1, "rx")>>, <<Segment(13, 2, "rw"), Segment(1, 3, "r")>>,
         <<Segment(0, 1, "r"), Segment(12, 1, "r"), Segment(15, 1, "r")>>}
MCImages ==
    {i \in {Image(load, load + e, top, size, n, <<>>) :
        load \in {0, 3, 4, 10, 22}, e \in {-1, 0, 1, 2}, top \in {0, 1, 9, 12, 14, 24}, size \in {0, 1, 4, 6, 13}, n \in {0, 1, 2, 4}} : i.entry >= 0}
    \cup {Image(4, 6, top, size, 4, s) : top \in {12, 11}, size \in {1, 3}, s \in OneSegment \cup Many}
    \cup {Image(6, 6, 12, 2, 4, s) : s \in OneSegment}
=============================================================================
