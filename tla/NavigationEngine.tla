--------------------------- MODULE NavigationEngine ---------------------------
(***************************************************************************)
(* What a session's engine makes of its GNSS fixes and of the time between  *)
(* them (backend/src/core/navigationEngine.ts with satelliteFusion.ts and   *)
(* aiInference.ts): which fixes reach the Kalman filter, which fusion mode  *)
(* and confidence a snapshot shows.  The filter's numbers are abstracted to *)
(* the fix that last measured each of them.  Between fixes the engine takes *)
(* IMU samples, which module ImuPipeline follows.                           *)
(*                                                                          *)
(* Fixes carry the device's clock, snapshots the server's.  Time counts in  *)
(* half seconds and scores in quarter points.                               *)
(***************************************************************************)
EXTENDS ImuPipeline

CONSTANTS
    FixKinds,       \* the kinds of fix the receiver reports
    Skews,          \* how far the device's clock may be ahead of the server's
    MaxDelay,       \* the oldest a fix is when it arrives (bound of the runs)
    MaxTime,        \* the server's clock at the end of a run (bound)
    Timeout,        \* GNSS_OUTAGE_TIMEOUT_MS, in half seconds
    Uncertainties   \* the filter's position uncertainties, in metres

MinSatellites == 5       \* MIN_SATELLITES_FOR_GOOD_FIX
HdopThreshold == 4       \* HDOP_DEGRADED_THRESHOLD
Speeds == {"none", "slow", "fast"}    \* absent, below or above MIN_SPEED_FOR_BEARING_MPS

ASSUME EngineAssumption ==
    /\ FixKinds \subseteq [satellites : Nat, hdop : Nat, speed : Speeds, bearing : BOOLEAN]
    /\ Skews \subseteq Int /\ Uncertainties \subseteq Nat
    /\ MaxDelay \in Nat /\ MaxTime \in Nat /\ Timeout \in Nat
    /\ None \notin Int \cup FixKinds \cup {"FUSION", "DEGRADED"}

VARIABLES
    now,                \* the server's clock
    skew,               \* how far the device's clock is ahead of it
    deviceTime,         \* the timestamp of the last fix the device reported
    anchor,             \* the first fix, the origin of the local plane
    measured,           \* the fix that last measured position, speed and heading
    lastGnssTimestamp,
    lastGnssQuality,
    shownFix,           \* lastSatelliteBreakdown and lastNavicWeight: their fix
    outageSimulated,
    snapshot,           \* the mode and the age of the fix in the last snapshot
    changed,            \* history: a fix used or the button pressed since then
    usedAt,             \* history: when the last used fix arrived
    lastUsed            \* history: the last used fix

vars == <<now, skew, deviceTime, anchor, measured, lastGnssTimestamp, lastGnssQuality,
          shownFix, outageSimulated, snapshot, changed, usedAt, lastUsed, imuVars>>
gnssVars == <<anchor, measured, lastGnssTimestamp, lastGnssQuality, shownFix, usedAt, lastUsed>>

Modes == {"FUSION", "DEGRADED", "DEAD_RECKONING_ONLY"}

Init ==
    /\ now = 0
    /\ skew \in Skews
    /\ deviceTime = skew
    /\ anchor = None
    /\ measured = [position |-> None, speed |-> None, heading |-> None]
    /\ lastGnssTimestamp = None
    /\ lastGnssQuality = None
    /\ shownFix = None
    /\ outageSimulated = FALSE
    /\ snapshot = None
    /\ changed = FALSE
    /\ usedAt = None
    /\ lastUsed = None
    /\ ImuInit

-----------------------------------------------------------------------------
(* Fixes *)

\* assessGnssQuality.
Quality(fix) ==
    IF fix.satellites < MinSatellites \/ fix.hdop > HdopThreshold
    THEN "DEGRADED" ELSE "FUSION"

\* The device's fixes arrive in order, at most MaxDelay late.
Arrives(time) ==
    /\ time \in (now + skew - MaxDelay)..(now + skew)
    /\ time >= deviceTime
    /\ deviceTime' = time

\* The fix is used: its time and its satellites are what snapshots show.
Use(fix, time) ==
    /\ lastGnssTimestamp' = time
    /\ shownFix' = fix
    /\ usedAt' = now
    /\ lastUsed' = fix
    /\ changed' = TRUE

\* The first fix anchors the plane and seeds heading and speed, be the outage
\* simulated or not.
FirstFix(fix, time) ==
    /\ anchor = None
    /\ Arrives(time)
    /\ anchor' = fix
    /\ measured' = [position |-> fix,
                    speed |-> IF fix.speed = "none" THEN None ELSE fix,
                    heading |-> IF fix.bearing THEN fix ELSE None]
    /\ Use(fix, time)
    /\ UNCHANGED <<now, skew, lastGnssQuality, outageSimulated, snapshot, imuVars>>

FixDuringOutage(fix, time) ==
    /\ anchor # None
    /\ outageSimulated
    /\ Arrives(time)
    /\ UNCHANGED <<now, skew, gnssVars, outageSimulated, snapshot, changed, imuVars>>

\* Slip: the bearing of a standing vehicle is fused as well.
UpdateTrustsAnyBearing(fix, time) ==
    /\ anchor # None
    /\ ~ outageSimulated
    /\ Arrives(time)
    /\ measured' = [position |-> fix,
                    speed |-> IF fix.speed = "none" THEN measured.speed ELSE fix,
                    heading |-> IF fix.bearing THEN fix ELSE measured.heading]
    /\ lastGnssQuality' = Quality(fix)
    /\ Use(fix, time)
    /\ UNCHANGED <<now, skew, anchor, outageSimulated, snapshot, imuVars>>

\* Every later fix observes position, and speed and heading if it reports them
\* and they can be trusted.
Update(fix, time) ==
    /\ anchor # None
    /\ ~ outageSimulated
    /\ Arrives(time)
    /\ measured' = [position |-> fix,
                    speed |-> IF fix.speed = "none" THEN measured.speed ELSE fix,
                    heading |-> IF fix.bearing /\ fix.speed = "fast"
                                THEN fix ELSE measured.heading]
    /\ lastGnssQuality' = Quality(fix)
    /\ Use(fix, time)
    /\ UNCHANGED <<now, skew, anchor, outageSimulated, snapshot, imuVars>>

SetOutageSimulated(enabled) ==
    /\ outageSimulated' = enabled
    /\ changed' = TRUE
    /\ UNCHANGED <<now, skew, deviceTime, gnssVars, snapshot, imuVars>>

-----------------------------------------------------------------------------
(* Snapshots *)

\* Slip: the age of the last fix plays no part.
CurrentFusionModeAgeless ==
    IF outageSimulated \/ lastGnssTimestamp = None THEN "DEAD_RECKONING_ONLY"
    ELSE IF lastGnssQuality = None THEN "FUSION" ELSE lastGnssQuality

CurrentFusionMode ==
    IF \/ outageSimulated
       \/ lastGnssTimestamp = None
       \/ now - lastGnssTimestamp > Timeout
    THEN "DEAD_RECKONING_ONLY"
    ELSE IF lastGnssQuality = None THEN "FUSION" ELSE lastGnssQuality

\* Slip: the penalty for dead reckoning has the wrong sign.
PenaltyAdded(mode, age) ==
    IF mode = "DEAD_RECKONING_ONLY" THEN - 3 * age
    ELSE IF mode = "DEGRADED" THEN 40 ELSE 0

\* What the mode costs: 1.5 points per second of dead reckoning, or 10 points.
Penalty(mode, age) ==
    IF mode = "DEAD_RECKONING_ONLY" THEN 3 * age
    ELSE IF mode = "DEGRADED" THEN 40 ELSE 0

\* computeAiInference: 100 points, less 3 a metre, less the penalty, rounded.
Score(uncertainty, mode, age) ==
    LET rounded == (400 - 12 * uncertainty - Penalty(mode, age) + 2) \div 4
    IN  IF rounded < 0 THEN 0 ELSE IF rounded > 100 THEN 100 ELSE rounded

BuildSnapshot ==
    /\ snapshot' = [mode |-> CurrentFusionMode,
                    age |-> IF lastGnssTimestamp = None THEN 0 ELSE now - lastGnssTimestamp]
    /\ changed' = FALSE
    /\ UNCHANGED <<now, skew, deviceTime, gnssVars, outageSimulated, imuVars>>

TimePasses ==
    /\ now < MaxTime
    /\ now' = now + 1
    /\ UNCHANGED <<skew, deviceTime, gnssVars, outageSimulated, snapshot, changed, imuVars>>

-----------------------------------------------------------------------------
(* The engine *)

ProcessImu(time, magnitude) ==
    /\ ImuStep(anchor # None, time, magnitude)
    /\ UNCHANGED <<now, skew, deviceTime, gnssVars, outageSimulated, snapshot, changed>>

ProcessGnss(fix, time) == FirstFix(fix, time) \/ FixDuringOutage(fix, time) \/ Update(fix, time)

Next ==
    \/ \E fix \in FixKinds, delay \in 0..MaxDelay : ProcessGnss(fix, now + skew - delay)
    \/ \E time \in SampleTimes, magnitude \in Magnitudes : ProcessImu(time, magnitude)
    \/ \E enabled \in BOOLEAN : SetOutageSimulated(enabled)
    \/ BuildSnapshot
    \/ TimePasses

Spec == Init /\ [][Next]_vars

-----------------------------------------------------------------------------
(* Properties *)

\* What the fixes leave behind is of its kind, and nothing is there before the first.
GnssTypeOK ==
    /\ now \in Nat /\ skew \in Skews /\ deviceTime \in Int
    /\ anchor \in FixKinds \cup {None}
    /\ measured \in [position : FixKinds \cup {None}, speed : FixKinds \cup {None},
                     heading : FixKinds \cup {None}]
    /\ lastGnssTimestamp \in Int \cup {None}
    /\ lastGnssQuality \in {"FUSION", "DEGRADED", None}
    /\ shownFix \in FixKinds \cup {None}
    /\ outageSimulated \in BOOLEAN /\ changed \in BOOLEAN
    /\ snapshot \in [mode : Modes, age : Int] \cup {None}
    /\ usedAt \in Nat \cup {None} /\ lastUsed \in FixKinds \cup {None}
    /\ anchor = None => lastGnssTimestamp = None /\ lastGnssQuality = None /\ usedAt = None

\* Everything is of its kind; the baseline never outgrows ANOMALY_WINDOW_SIZE, and
\* the detector of anomalies is given nothing before the anchor.
TypeOK == GnssTypeOK /\ ImuTypeOK /\ (anchor = None => felt = <<>>)

\* A standing vehicle's course never reaches the heading (constants.ts: "Bearing
\* is only trusted above a minimum speed"), except from the fix that anchored.
HeadingIsTrusted ==
    measured.heading # None /\ measured.heading # anchor => measured.heading.speed = "fast"

\* The mode a snapshot would show is the quality of the fix last used, unless it
\* is dead reckoning or the engine has seen its first fix only.
ModeIsQuality ==
    lastGnssQuality # None /\ CurrentFusionMode # "DEAD_RECKONING_ONLY"
        => CurrentFusionMode = Quality(lastUsed)

\* With the device's clock not ahead of the server's, no snapshot claims GNSS
\* unless a fix arrived within the timeout (GNSS_OUTAGE_TIMEOUT_MS).
NoFusionWithoutFixes ==
    skew <= 0 /\ CurrentFusionMode # "DEAD_RECKONING_ONLY"
        => usedAt # None /\ now - usedAt <= Timeout

\* Until the next fix or the next press of the button, confidence never rises
\* from one snapshot to the next at the same uncertainty (computeAiInference:
\* "drift compounds the longer GNSS has been unavailable"), except from a
\* degraded mode, whose 10 points give way to 1.5 a second.
ConfidenceNeverRisesUnseen ==
    [][BuildSnapshot /\ snapshot # None /\ ~ changed /\ snapshot.mode # "DEGRADED" =>
          \A u \in Uncertainties :
              Score(u, snapshot'.mode, snapshot'.age) <= Score(u, snapshot.mode, snapshot.age)]_vars

=============================================================================
