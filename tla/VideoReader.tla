----------------------------- MODULE VideoReader -----------------------------
(***************************************************************************)
(* The frames that stand for a video: the poster of its thumbnail, and then *)
(* the samples of the image index, each read by a reader of its own that    *)
(* seeks and decodes on its caller's thread.  FFmpeg is external: a demuxer *)
(* with a place in a sequence of packets, and a decoder that holds frames    *)
(* back.  Times are milliseconds; pixels, dimensions and colours are left   *)
(* out, and a panic is a failure like any other.                            *)
(***************************************************************************)
EXTENDS Integers, Sequences, FiniteSets, SequencesExt

CONSTANTS
    Recordings,             \* [packets, start, duration, seekable, opens]
    SpreadInterval, SpreadMin, SpreadMax,   \* the default SamplePlacement
    PacketBudget,           \* MAX_PACKETS_PER_SAMPLE
    Delay,                  \* frames a decoder holds back
    NoTimestamp,
    NoSamples,              \* a decode that has not ended
    Failed                  \* a decode that ended with an error

VARIABLES
    recording,   \* the file; it does not change here
    reader,      \* the VideoReader and the call that uses it
    halted,      \* what the Interrupt of each reader reports: flags, its deadline
    posters, samples    \* what poster_sample and samples answered

videoVars == <<recording, reader, halted, posters, samples>>

Packets == recording.packets
Goals == {"poster", "all"}
Stopped == reader.goal \in Goals /\ halted[reader.goal] # {}

-----------------------------------------------------------------------------
(* The targets.                                                             *)

Bounded(n, low, high) == IF n < low THEN low ELSE IF n > high THEN high ELSE n

\* Mutant: a poster spreads its one target over the whole duration.
Targets_Spread(most) ==
    LET duration == recording.duration
        count == IF most = 1 THEN 1
                 ELSE Bounded((duration + SpreadInterval - 1) \div SpreadInterval, SpreadMin, SpreadMax)
    IN IF duration = 0 THEN <<>> ELSE [i \in 1..count |-> (duration * (2 * i - 1)) \div (2 * count)]

\* SamplePlacement::targets: the centres of equal segments, of which a poster
\* takes the first. An unknown duration has none.
Targets(most) ==
    LET duration == recording.duration
        count == Bounded((duration + SpreadInterval - 1) \div SpreadInterval, SpreadMin, SpreadMax)
        all == [i \in 1..count |-> (duration * (2 * i - 1)) \div (2 * count)]
    IN IF duration = 0 THEN <<>> ELSE SubSeq(all, 1, IF most < count THEN most ELSE count)

-----------------------------------------------------------------------------
(* FFmpeg.                                                                  *)

\* Key frames a seek can land on: with a timestamp, not after the target.
Landings(target) ==
    {i \in DOMAIN Packets : Packets[i].ours /\ Packets[i].key /\ Packets[i].time # NoTimestamp
                            /\ Packets[i].time <= recording.start + target}
Landing(target) == CHOOSE i \in Landings(target) : \A j \in Landings(target) : j <= i

\* A seek that the interrupt callback stops fails like one that finds nothing.
Seekable(target) == recording.seekable /\ Landings(target) # {} /\ ~Stopped

\* A decoder needs a key frame first; it drops other frames when it skips.
Fed(r, packet) ==
    IF packet.key \/ (r.primed /\ ~r.skipping)
    THEN [r EXCEPT !.primed = TRUE, !.held = Append(@, packet.time)] ELSE r

Received(r) == Len(r.held) > Delay \/ (r.draining /\ r.held # <<>>)

-----------------------------------------------------------------------------
Idling == [phase |-> "idle", goal |-> "none", at |-> 1, held |-> <<>>, primed |-> FALSE, skipping |-> FALSE,
           draining |-> FALSE, left |-> 0, target |-> 1, first |-> NoTimestamp, kept |-> <<>>]

VideoInit ==
    /\ recording \in Recordings /\ reader = Idling /\ halted = [g \in Goals |-> {}]
    /\ posters = NoSamples /\ samples = NoSamples

\* Mutant: the flags are looked at before the call alone.
AnswerOf_Anyway(answer) == answer

\* The call ends; flags that were raised since refuse its answer, a deadline
\* that has passed does not (samples_with_options_cancelled).
AnswerOf(answer) == IF "cancelled" \in halted[reader.goal] THEN Failed ELSE answer
Ends(answer) ==
    /\ reader' = [Idling EXCEPT !.goal = reader.goal]
    /\ IF reader.goal = "poster" THEN posters' = AnswerOf(answer) /\ UNCHANGED samples
       ELSE samples' = AnswerOf(answer) /\ UNCHANGED posters
Continues(r) == reader' = r /\ UNCHANGED <<posters, samples>>
UsesVideo == UNCHANGED <<recording, halted>>

\* poster_sample, then samples_with_token: a reader with flags and a deadline
\* of its own.
OpenReader ==
    /\ reader.phase = "idle" /\ reader.goal # "all"
    /\ UsesVideo
    /\ LET goal == IF reader.goal = "none" THEN "poster" ELSE "all"
           fresh == [Idling EXCEPT !.goal = goal, !.left = PacketBudget]
       IN IF recording.opens THEN Continues([fresh EXCEPT !.phase = "first"])
          ELSE /\ reader' = [fresh EXCEPT !.phase = "idle"]
               /\ IF goal = "poster" THEN posters' = Failed /\ UNCHANGED samples
                  ELSE samples' = Failed /\ UNCHANGED posters

\* Someone raises a flag, or the thirty seconds are over.
Halt(cause) == /\ reader.phase # "idle" /\ halted' = [halted EXCEPT ![reader.goal] = @ \cup {cause}]
               /\ UNCHANGED <<recording, reader, posters, samples>>

MaxTargets == IF reader.goal = "poster" THEN 1 ELSE SpreadMax
Wanted == Targets(MaxTargets)

\* Samples so far, or the first frame where there are none.
Usable(r) == IF r.kept = <<>> THEN <<r.first>> ELSE SortSeq(r.kept, LAMBDA a, b : a < b)

\* A target's frame is kept unless an earlier target had it.
Kept(r, time) ==
    LET kept == IF time \in Range(r.kept) THEN r.kept ELSE Append(r.kept, time)
    IN [r EXCEPT !.kept = kept, !.target = @ + 1, !.phase = "check"]

\* read_sample ends with a frame, whose time starts at the stream's start.
Sample(time) ==
    LET shown == IF time = NoTimestamp \/ time < recording.start THEN 0 ELSE time - recording.start
        next == [reader EXCEPT !.phase = "check", !.first = shown]
    IN IF reader.phase # "first" THEN Continues(Kept(reader, shown))
       ELSE IF Wanted = <<>> THEN Ends(<<shown>>) ELSE Continues(next)

\* read_sample ends without one. After key frames alone every frame is tried;
\* after that the samples so far are taken, unless the reader is stopped.
NoSample ==
    CASE reader.phase = "first" \/ Stopped -> Ends(Failed)
      [] reader.phase = "key" -> Continues([reader EXCEPT !.phase = "again"])
      [] OTHER -> Ends(Usable(reader))

\* A turn of read_sample's loop.
Read ==
    /\ reader.phase \in {"first", "key", "any"} /\ UsesVideo
    /\ LET less == [reader EXCEPT !.left = @ - 1] IN
       IF Stopped \/ reader.left = 0 THEN NoSample
       ELSE IF Received(reader)
       THEN IF Head(reader.held) = NoTimestamp /\ reader.phase # "first" THEN NoSample ELSE Sample(Head(reader.held))
       ELSE IF reader.draining THEN NoSample
       ELSE IF reader.at > Len(Packets) THEN Continues([less EXCEPT !.draining = TRUE])
       ELSE LET packet == Packets[reader.at]
                next == [less EXCEPT !.at = @ + 1]
            IN IF ~packet.ours THEN Continues(next)
               ELSE IF ~packet.sound THEN NoSample
               ELSE Continues(Fed(next, packet))

\* Each target is looked for unless the reader is stopped.
Check ==
    /\ reader.phase = "check" /\ UsesVideo
    /\ IF reader.target > Len(Wanted) THEN Ends(Usable(reader))
       ELSE IF Stopped THEN Ends(Failed)
       ELSE Continues([reader EXCEPT !.phase = "seek"])

\* Mutant: the decoder keeps what it held before the seek.
Flushed_Not(r) == [r EXCEPT !.draining = FALSE]
Flushed(r) == [r EXCEPT !.held = <<>>, !.primed = FALSE, !.draining = FALSE]

\* The demuxer and the decoder start over; key frames first, then every frame.
Seek ==
    /\ reader.phase \in {"seek", "again"} /\ UsesVideo
    /\ LET target == Wanted[reader.target]
           moved == [Flushed(reader) EXCEPT !.at = Landing(target), !.left = PacketBudget]
       IN IF Seekable(target)
          THEN Continues([moved EXCEPT !.skipping = reader.phase = "seek",
                                       !.phase = IF reader.phase = "seek" THEN "key" ELSE "any"])
          ELSE IF reader.phase = "again" /\ Stopped THEN Ends(Failed)
          ELSE Ends(Usable(reader))

VideoNext == OpenReader \/ Read \/ Check \/ Seek \/ \E cause \in {"cancelled", "late"} : Halt(cause)

-----------------------------------------------------------------------------
(* Properties.                                                              *)

IsAnswer(answer) == answer \notin {NoSamples, Failed}

\* The last key frame that is shown at a target or before it.
FrameAt(target) == LET time == Packets[Landing(target)].time IN IF time < recording.start THEN 0 ELSE time - recording.start
Findable(target) == recording.seekable /\ Landings(target) # {}

\* Nothing in the recording stands in the way of a target.
Intact ==
    /\ recording.seekable /\ \A t \in Range(Targets(SpreadMax)) : Landings(t) # {}
    /\ \A i \in DOMAIN Packets : Packets[i].sound /\ Packets[i].time # NoTimestamp
    /\ Len(Packets) + Delay < PacketBudget

\* Samples come in the order of the film and none twice, however targets share
\* key frames; where every target can be read each has its own frame, and what
\* is there is never a frame that was decoded for an earlier target (samples).
SamplesAreOfTargets ==
    IsAnswer(samples) =>
        LET targets == Range(Targets(SpreadMax))
            frames == {FrameAt(t) : t \in {t \in targets : Findable(t)}}
        IN /\ samples # <<>> /\ \A i, j \in DOMAIN samples : i < j => samples[i] < samples[j]
           /\ Range(samples) \subseteq frames \/ Len(samples) = 1
           /\ Intact /\ targets # {} /\ ~Stopped => Range(samples) = frames

\* The poster that is decoded alone is the first sample that the index stores
\* as the poster, unless a deadline cut one of them short (poster_sample).
PosterLeads ==
    IsAnswer(posters) /\ IsAnswer(samples) /\ "late" \notin halted["poster"] \cup halted["all"]
        => samples[1] = posters[1]

\* A decode that was cancelled answers with an error, and never with the
\* samples it had: a seek that the flag interrupts looks like one that found
\* nothing (samples_with_options_cancelled, samples).
CancelledIsError ==
    reader.phase = "idle" /\ reader.goal = "all" /\ "cancelled" \in halted["all"] => samples = Failed

\* The samples of a film are of their own targets, led by the poster, and never
\* those of a cancelled decode, whatever the container lacks or breaks off.
SamplesAreTrue == SamplesAreOfTargets /\ PosterLeads /\ CancelledIsError
===============================================================================
