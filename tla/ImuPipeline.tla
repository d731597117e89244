----------------------------- MODULE ImuPipeline -----------------------------
(***************************************************************************)
(* What a session's engine makes of its IMU samples: the time they cover    *)
(* (core/deadReckoning.ts, which distance and prediction integrate over)    *)
(* and the road anomalies found in them (core/anomalyDetection.ts).  The    *)
(* engine itself is module NavigationEngine.  Timestamps are the device's,  *)
(* in ticks of their own, and may repeat or go back.  Accelerations count   *)
(* in tenths of m/s2, free of gravity and of the thermal bias.              *)
(***************************************************************************)
EXTENDS Integers, SequencesExt

CONSTANTS
    Magnitudes,   \* the vertical accelerations, without sign
    WindowSize,   \* ANOMALY_WINDOW_SIZE
    Debounce,     \* ANOMALY_MIN_INTERVAL_MS, in clock ticks
    SampleTimes,  \* the timestamps of samples
    MaxSamples,   \* how many samples a session has (bound of the runs)
    None          \* null

ASSUME PipelineAssumption ==
    /\ Magnitudes \subseteq Nat
    /\ WindowSize \in Nat \ {0} /\ Debounce \in Nat
    /\ SampleTimes \subseteq Nat /\ MaxSamples \in Nat
    /\ None \notin Nat

VARIABLES
    lastTimestamp,  \* of the preprocessor
    elapsed,        \* the sum of dtSeconds, over which distance is integrated
    window,         \* the detector's rolling baseline
    lastEventAt,
    anomalies,      \* the anomalies reported
    samples,        \* how many samples there were (for MaxSamples)
    felt            \* history: the magnitudes the detector was given

imuVars == <<lastTimestamp, elapsed, window, lastEventAt, anomalies, samples, felt>>

Severities == {"LOW", "MEDIUM", "HIGH"}

ImuInit ==
    /\ lastTimestamp = None
    /\ elapsed = 0
    /\ window = <<>>
    /\ lastEventAt = 0
    /\ anomalies = <<>>
    /\ samples = 0
    /\ felt = <<>>

-----------------------------------------------------------------------------
\* Nothing on the first sample, and nothing when the clock stands or goes back.
Dt(time) ==
    IF lastTimestamp # None /\ time > lastTimestamp THEN time - lastTimestamp ELSE 0

\* Slip: the oldest magnitudes are never dropped.
RolledWhole(magnitude) == Append(window, magnitude)

\* Slip: a full window drops the new magnitude.
RolledKeepsOldest(magnitude) ==
    IF Len(window) = WindowSize THEN window ELSE Append(window, magnitude)

\* The window with the new magnitude, the oldest one dropped when it is full.
Rolled(magnitude) ==
    LET longer == Append(window, magnitude)
    IN  IF Len(longer) > WindowSize THEN Tail(longer) ELSE longer

\* Whether a magnitude is that much above the mean of a window.
Exceeds(magnitude, rolled, threshold) ==
    Len(rolled) * magnitude - FoldSeq(LAMBDA x, y : x + y, 0, rolled)
        >= threshold * Len(rolled)

\* classifySeverity.
Severity(magnitude, rolled) ==
    IF Exceeds(magnitude, rolled, 70) THEN "HIGH"
    ELSE IF Exceeds(magnitude, rolled, 45) THEN "MEDIUM"
    ELSE IF Exceeds(magnitude, rolled, 25) THEN "LOW" ELSE None

\* Slip: a spike that is suppressed restarts the debouncing.
DetectRestarting(time, magnitude) ==
    LET rolled == Rolled(magnitude)
        severity == Severity(magnitude, rolled)
    IN  /\ window' = rolled
        /\ felt' = Append(felt, magnitude)
        /\ lastEventAt' = IF severity # None THEN time ELSE lastEventAt
        /\ anomalies' = IF severity # None /\ (time - lastEventAt >= Debounce
                                               \/ time < lastEventAt)
                        THEN Append(anomalies, [time |-> time, severity |-> severity])
                        ELSE anomalies

\* RoadAnomalyDetector.detect.
Detect(time, magnitude) ==
    LET rolled == Rolled(magnitude)
        severity == Severity(magnitude, rolled)
        reported == severity # None /\ time - lastEventAt >= Debounce
    IN  /\ window' = rolled
        /\ felt' = Append(felt, magnitude)
        /\ lastEventAt' = IF reported THEN time ELSE lastEventAt
        /\ anomalies' = IF reported
                        THEN Append(anomalies, [time |-> time, severity |-> severity])
                        ELSE anomalies

\* processImu: without an anchor the detector is not asked.
ImuStep(anchored, time, magnitude) ==
    /\ samples < MaxSamples
    /\ samples' = samples + 1
    /\ elapsed' = elapsed + Dt(time)
    /\ lastTimestamp' = time
    /\ IF anchored THEN Detect(time, magnitude)
       ELSE UNCHANGED <<window, lastEventAt, anomalies, felt>>

-----------------------------------------------------------------------------
(* Properties *)

\* Everything is of its kind: no distance is integrated over a negative time, and
\* the window never outgrows ANOMALY_WINDOW_SIZE.
ImuTypeOK ==
    /\ lastTimestamp \in Nat \cup {None}
    /\ elapsed \in Nat
    /\ window \in Seq(Magnitudes) /\ Len(window) <= WindowSize
    /\ lastEventAt \in Nat
    /\ anomalies \in Seq([time : Nat, severity : Severities])
    /\ samples \in Nat /\ felt \in Seq(Magnitudes)

\* Two anomalies are reported at least ANOMALY_MIN_INTERVAL_MS apart and in the
\* order of their timestamps, though the samples need not be.
AnomaliesAreSpaced ==
    \A i \in 1..(Len(anomalies) - 1) :
        anomalies[i + 1].time - anomalies[i].time >= Debounce

\* The baseline is taken over the last samples since the anchor and no others, as
\* many as there are up to ANOMALY_WINDOW_SIZE.
BaselineIsRecent ==
    /\ window = SubSeq(felt, Len(felt) - Len(window) + 1, Len(felt))
    /\ Len(window) = IF Len(felt) < WindowSize THEN Len(felt) ELSE WindowSize

=============================================================================
