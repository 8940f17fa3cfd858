----------------------------- MODULE AudioQueue -----------------------------
(***************************************************************************)
(* The audio runtime (nx86-audio/src/lib.rs): a bounded queue of stereo    *)
(* samples, filled by the guest and emptied by the host's audio thread     *)
(* under a mutex, or by an injected clock where there is no host device.   *)
(* Samples are numbered in the order they are taken in.                    *)
(***************************************************************************)
EXTENDS Integers, Sequences

CONSTANTS MaxQueuedFrames,
          Channels  \* what the device has
ASSUME AudioAssumption == MaxQueuedFrames \in Nat /\ Channels \in Nat \ {0}

VARIABLES backend,   \* "cpal" or "null"
          samples,   \* queued, two to a frame
          counts,    \* [submitted, consumed, underflows], in frames
          muted,
          rate,
          accepted,  \* history: the samples taken into the queue
          played     \* history: the frames that left it, <<left, right>>
audioVars == <<backend, samples, counts, muted, rate, accepted, played>>

AudioInit ==
    /\ backend \in {"cpal", "null"}
    /\ samples = <<>> /\ counts = [submitted |-> 0, consumed |-> 0, underflows |-> 0]
    /\ muted = FALSE /\ rate = 48
    /\ accepted = <<>> /\ played = <<>>

QueuedFrames == Len(samples) \div 2

\* AudioBuffer::stereo_f32
ValidBuffer(sampleCount, sampleRate) == sampleRate # 0 /\ sampleCount % 2 = 0

\* A buffer that does not fit is dropped, and the caller is told nothing but
\* the length of the queue; its rate is taken over all the same.
Enqueue(sampleCount, sampleRate) ==
    LET new == [i \in 1 .. sampleCount |-> Len(accepted) + i]
        frames == sampleCount \div 2
        fits == QueuedFrames + frames <= MaxQueuedFrames
    IN  /\ rate' = sampleRate
        /\ samples' = IF fits THEN samples \o new ELSE samples
        /\ accepted' = IF fits THEN accepted \o new ELSE accepted
        /\ counts' = IF fits THEN [counts EXCEPT !.submitted = @ + frames] ELSE counts
        /\ UNCHANGED <<backend, muted, played>>

SmallerOf(a, b) == IF a < b THEN a ELSE b
Frames(s) == [i \in 1 .. Len(s) \div 2 |-> <<s[2 * i - 1], s[2 * i]>>]

\* Mutant: one sample is popped for each frame.
TakeSamples(n) == samples' = SubSeq(samples, n + 1, Len(samples))
Take(n) == samples' = SubSeq(samples, 2 * n + 1, Len(samples))

\* consume_frames, and fill_f32 frame by frame: what is missing is an
\* underflow.  A muted frame is consumed like any other.
Consume(frames) ==
    LET n == SmallerOf(frames, QueuedFrames)
    IN  /\ Take(n)
        /\ counts' = [counts EXCEPT !.consumed = @ + n, !.underflows = @ + (frames - n)]
        /\ played' = played \o Frames(SubSeq(samples, 1, 2 * n))
        /\ UNCHANGED <<backend, muted, rate, accepted>>

\* advance_test_clock does nothing to a host device.
AdvanceClock(frames) == IF backend = "null" THEN Consume(frames) ELSE UNCHANGED audioVars
\* The device asks for so many interleaved values; the last frame may be short.
FillOutput(values) == backend = "cpal" /\ Consume((values + Channels - 1) \div Channels)
SetMuted(m) == muted # m /\ muted' = m /\ UNCHANGED <<backend, samples, counts, rate, accepted, played>>

-----------------------------------------------------------------------------
(* Whoever empties the queue, and however it interleaves with the guest:   *)
(* frames leave in the order and the pairs they were taken in, each once,  *)
(* none but those dropped whole at the limit are missing, and the counters *)
(* say so (AudioShared).                                                   *)
AudioInOrder ==
    /\ Len(accepted) = 2 * Len(played) + Len(samples)
    /\ \A k \in DOMAIN played : played[k] = <<accepted[2 * k - 1], accepted[2 * k]>>
    /\ \A k \in DOMAIN samples : samples[k] = accepted[2 * Len(played) + k]
    /\ QueuedFrames <= MaxQueuedFrames /\ Len(samples) % 2 = 0
    /\ counts.submitted = counts.consumed + QueuedFrames
    /\ counts.consumed = Len(played)
=============================================================================
