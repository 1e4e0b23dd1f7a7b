---------------------------- MODULE ConsoleVideo -----------------------------
(***************************************************************************)
(* The console's video measurements: useFrameTimestamps collects the frame *)
(* timestamps of an unordered data channel and counts the losses,          *)
(* useVideoLatency turns the timestamps it has not seen into samples.      *)
(* A timestamp is told from the others by the order of its arrival.        *)
(***************************************************************************)
EXTENDS Integers, SequencesExt

CONSTANTS
    MaxSequence,     (* bounds the sequence numbers of a channel             *)
    MaxArrivals,     (* bounds the timestamps that arrive                    *)
    BufferSize,      (* the timestamps kept: 100                             *)
    maxSamples       (* config.maxSamples                                    *)

ASSUME VideoAssumption ==
    /\ MaxSequence \in Nat /\ MaxArrivals \in Nat
    /\ BufferSize \in Nat \ {0} /\ maxSamples \in Nat \ {0}

VARIABLES
    open,            (* a data channel is there                              *)
    got,             (* the sequence numbers received on it, and whether     *)
    inOrder,         (* they came in increasing order                        *)
    firstSequence,   (* the first of them                                    *)
    receivedFirst, lastSequence,
    droppedMessages,
    droppedBefore,   (* droppedMessages when the channel came                *)
    arrivals,
    timestamps,      (* the buffer                                           *)
    rendered,        (* the effect of useVideoLatency has seen the buffer    *)
    lastProcessedCount, samples,
    negative,        (* the samples that are below zero, by the clocks       *)
    clockOffset      (* whether an offset is reported                        *)

frameVars == <<open, got, inOrder, firstSequence, receivedFirst, lastSequence,
               droppedMessages, droppedBefore, arrivals, timestamps>>
latencyVars == <<lastProcessedCount, samples, negative, clockOffset>>
videoVars == <<frameVars, rendered, latencyVars>>

VideoInit ==
    /\ open = FALSE /\ got = {} /\ inOrder = TRUE /\ firstSequence = 0
    /\ receivedFirst = FALSE /\ lastSequence = 0
    /\ droppedMessages = 0 /\ droppedBefore = 0
    /\ arrivals = 0 /\ timestamps = <<>>
    /\ rendered = TRUE
    /\ lastProcessedCount = 0 /\ samples = <<>>
    /\ negative = {} /\ clockOffset = FALSE

LastN(s, n) == SubSeq(s, Len(s) - (IF n < Len(s) THEN n ELSE Len(s)) + 1, Len(s))

(* The effect of useFrameTimestamps on a new channel, after its cleanup:    *)
(* the buffer stays.                                                        *)
NewChannel ==
    /\ arrivals < MaxArrivals
    /\ open' = TRUE
    /\ receivedFirst' = FALSE
    /\ got' = {} /\ inOrder' = TRUE /\ firstSequence' = 0
    /\ droppedBefore' = droppedMessages
    /\ UNCHANGED <<lastSequence, droppedMessages, arrivals, timestamps, rendered, latencyVars>>

(* Faulty variant: the message received is counted too. *)
gapOffByOne(n) == IF receivedFirst /\ n > lastSequence THEN n - lastSequence ELSE 0

(* The messages missed between the last one and number n. *)
gap(n) == IF receivedFirst /\ n > lastSequence + 1 THEN n - lastSequence - 1 ELSE 0

(* Messages may overtake each other; none comes twice. *)
handleTimestamp(n) ==
    /\ open
    /\ n \notin got /\ arrivals < MaxArrivals
    /\ arrivals' = arrivals + 1
    /\ droppedMessages' = droppedMessages + gap(n)
    /\ receivedFirst' = TRUE
    /\ lastSequence' = n
    /\ timestamps' = Append(LastN(timestamps, BufferSize - 1), arrivals + 1)
    /\ got' = got \cup {n}
    /\ inOrder' = (inOrder /\ (got = {} \/ n > lastSequence))
    /\ firstSequence' = IF got = {} THEN n ELSE firstSequence
    /\ rendered' = FALSE
    /\ UNCHANGED <<open, droppedBefore, latencyVars>>

(* Faulty variant: the whole buffer is taken for new. *)
newTimestampsAll(processed) == timestamps

newTimestamps(processed) == SubSeq(timestamps, processed + 1, Len(timestamps))

(* Reported from a quarter of negative samples on, kept down to a fifth. *)
offsetReported(n, count) == 4 * n >= count \/ (clockOffset /\ 5 * n >= count)

(* The effect of useVideoLatency: how many timestamps are stored tells      *)
(* whether there are new ones.                                              *)
Process ==
    LET count == Len(timestamps)
        processed == IF count < lastProcessedCount THEN 0 ELSE lastProcessedCount
        before == IF count < lastProcessedCount THEN <<>> ELSE samples
        new == newTimestamps(processed)
        after == LastN(before \o new, maxSamples)
    IN  /\ ~rendered
        /\ rendered' = TRUE
        /\ IF count = processed
           THEN UNCHANGED latencyVars
           ELSE /\ lastProcessedCount' = count
                /\ samples' = after
                /\ \E below \in SUBSET ToSet(new) :
                     negative' = ToSet(after) \cap (negative \cup below)
                /\ clockOffset' = offsetReported(Cardinality(negative'), Len(after))
        /\ UNCHANGED frameVars

VideoNext ==
    \/ NewChannel
    \/ \E n \in 1..MaxSequence : handleTimestamp(n)
    \/ Process

VideoTypeOK ==
    /\ {open, inOrder, receivedFirst, rendered, clockOffset} \subseteq BOOLEAN
    /\ got \subseteq 1..MaxSequence
    /\ {firstSequence, lastSequence} \subseteq 0..MaxSequence
    /\ droppedBefore <= droppedMessages
    /\ Len(timestamps) <= BufferSize
    /\ lastProcessedCount \in 0..BufferSize
    /\ negative \subseteq ToSet(samples)

-----------------------------------------------------------------------------
(* Properties                                                              *)

Missing == {n \in 1..MaxSequence : n > firstSequence /\ n \notin got /\ \E m \in got : m > n}

(* Every message of the channel that went missing after the first one       *)
(* received and before the last is counted, in whatever order the others    *)
(* come; when they come in order nothing else is, across a channel that is  *)
(* replaced too.                                                            *)
LossIsCounted ==
    /\ droppedMessages - droppedBefore >= Cardinality(Missing)
    /\ inOrder => droppedMessages - droppedBefore = Cardinality(Missing)

(* No timestamp becomes a sample twice, and until the buffer is full none   *)
(* is passed over: the samples are the newest of those the effect saw,      *)
(* however many arrive between two renders.                                 *)
EachTimestampOnce ==
    /\ \A i \in 1..Len(samples) - 1 : samples[i] < samples[i + 1]
    /\ arrivals <= BufferSize /\ rendered =>
         samples = LastN([i \in 1..arrivals |-> i], maxSamples)
=============================================================================
