------------------------ MODULE NavigationEngineProofs ------------------------
(***************************************************************************)
(* What holds of a session's engine for every kind of fix, every clock skew *)
(* and timeout, every order of timestamps and every magnitude: its GNSS     *)
(* state, its confidence, and the anomalies it finds in its IMU samples.    *)
(***************************************************************************)
EXTENDS NavigationEngine, SequenceTheorems, TLAPS

\* The quality kept is that of the last used fix, once it has been assessed.
QualityIsCurrent ==
    lastGnssQuality # None => lastUsed \in FixKinds /\ lastGnssQuality = Quality(lastUsed)

\* A used fix is no younger than its arrival, on the device's own clock.
FixIsNotYounger ==
    lastGnssTimestamp # None =>
        /\ usedAt \in Nat /\ usedAt <= now
        /\ lastGnssTimestamp <= usedAt + skew

\* The mode a snapshot shows for a fix of this age.
ModeAt(age) ==
    IF outageSimulated \/ lastGnssTimestamp = None \/ age > Timeout
    THEN "DEAD_RECKONING_ONLY"
    ELSE IF lastGnssQuality = None THEN "FUSION" ELSE lastGnssQuality

\* Since the last snapshot, unless something changed, only time has passed.
SnapshotIsEarlier ==
    snapshot # None /\ ~ changed =>
        /\ snapshot.mode = ModeAt(snapshot.age)
        /\ lastGnssTimestamp = None => snapshot.age = 0
        /\ lastGnssTimestamp # None => snapshot.age <= now - lastGnssTimestamp

GnssInv ==
    /\ GnssTypeOK /\ HeadingIsTrusted /\ QualityIsCurrent /\ FixIsNotYounger
    /\ SnapshotIsEarlier

\* The debouncing counts from the anomaly reported last.
LastEventIsLast == anomalies # <<>> => anomalies[Len(anomalies)].time = lastEventAt

ImuInv == ImuTypeOK /\ LastEventIsLast /\ AnomaliesAreSpaced /\ BaselineIsRecent

\* The detector of anomalies is first asked after the anchor.
FeltSinceAnchor == anchor = None => felt = <<>>

Inv == GnssInv /\ ImuInv /\ FeltSinceAnchor

-----------------------------------------------------------------------------
\* A fix has one of the two qualities.
LEMMA QualityType == \A fix : Quality(fix) \in {"FUSION", "DEGRADED"}
  BY DEF Quality

\* The mode a snapshot takes is the mode for the present age.
LEMMA ModeNow ==
    ASSUME GnssTypeOK
    PROVE  /\ CurrentFusionMode \in Modes
           /\ lastGnssTimestamp # None =>
                 CurrentFusionMode = ModeAt(now - lastGnssTimestamp)
           /\ lastGnssTimestamp = None => CurrentFusionMode = ModeAt(0)
  BY DEF GnssTypeOK, CurrentFusionMode, ModeAt, Modes

\* A fresh engine has seen no fix.
LEMMA InitGnssInv == Init => GnssInv
<1> SUFFICES ASSUME Init PROVE GnssInv
  OBVIOUS
<1>1. skew \in Int /\ skew \in Skews
  BY EngineAssumption DEF Init
<1>2. GnssTypeOK
  BY <1>1 DEF Init, GnssTypeOK
<1>3. HeadingIsTrusted /\ QualityIsCurrent /\ FixIsNotYounger /\ SnapshotIsEarlier
  BY DEF Init, HeadingIsTrusted, QualityIsCurrent, FixIsNotYounger, SnapshotIsEarlier
<1>4. QED
  BY <1>2, <1>3 DEF GnssInv

\* A fix arrives with a timestamp no later than the device's clock.
LEMMA ArrivesInTime ==
    ASSUME GnssInv, NEW time, Arrives(time)
    PROVE  time \in Int /\ time <= now + skew /\ deviceTime' \in Int
  BY EngineAssumption DEF Arrives, GnssInv, GnssTypeOK

\* The first fix preserves the invariant.
LEMMA FirstFixPreserves ==
    ASSUME GnssInv, NEW fix \in FixKinds, NEW time, FirstFix(fix, time)
    PROVE  GnssInv'
<1> USE DEF GnssInv
<1>1. time \in Int /\ time <= now + skew /\ deviceTime' \in Int
  BY ArrivesInTime DEF FirstFix
<1>2. GnssTypeOK'
  BY <1>1, EngineAssumption DEF FirstFix, Use, GnssTypeOK
<1>3. HeadingIsTrusted'
  BY EngineAssumption DEF FirstFix, HeadingIsTrusted
<1>4. QualityIsCurrent'
  BY DEF FirstFix, GnssTypeOK, QualityIsCurrent
<1>5. FixIsNotYounger'
  BY <1>1 DEF FirstFix, Use, FixIsNotYounger, GnssTypeOK
<1>6. SnapshotIsEarlier'
  BY DEF FirstFix, Use, SnapshotIsEarlier
<1>7. QED
  BY <1>2, <1>3, <1>4, <1>5, <1>6

\* Every later fix that is used preserves the invariant.
LEMMA UpdatePreserves ==
    ASSUME GnssInv, NEW fix \in FixKinds, NEW time, Update(fix, time)
    PROVE  GnssInv'
<1> USE DEF GnssInv
<1>1. time \in Int /\ time <= now + skew /\ deviceTime' \in Int
  BY ArrivesInTime DEF Update
<1>2. GnssTypeOK'
  BY <1>1, EngineAssumption, QualityType DEF Update, Use, GnssTypeOK
<1>3. HeadingIsTrusted'
  BY EngineAssumption DEF Update, HeadingIsTrusted
<1>4. QualityIsCurrent'
  BY EngineAssumption DEF Update, Use, QualityIsCurrent, Quality
<1>5. FixIsNotYounger'
  BY <1>1 DEF Update, Use, FixIsNotYounger, GnssTypeOK
<1>6. SnapshotIsEarlier'
  BY DEF Update, Use, SnapshotIsEarlier
<1>7. QED
  BY <1>2, <1>3, <1>4, <1>5, <1>6

\* A fix during an outage changes nothing but the device's own clock.
LEMMA FixDuringOutagePreserves ==
    ASSUME GnssInv, NEW fix \in FixKinds, NEW time, FixDuringOutage(fix, time)
    PROVE  GnssInv'
<1> USE DEF GnssInv, FixDuringOutage, gnssVars
<1>1. deviceTime' \in Int
  BY ArrivesInTime
<1>2. GnssTypeOK'
  BY <1>1 DEF GnssTypeOK
<1>3. HeadingIsTrusted' /\ QualityIsCurrent' /\ FixIsNotYounger'
  BY DEF HeadingIsTrusted, QualityIsCurrent, Quality, FixIsNotYounger
<1>4. SnapshotIsEarlier'
  BY DEF SnapshotIsEarlier, ModeAt
<1>5. QED
  BY <1>2, <1>3, <1>4

\* Taking a snapshot records the present mode and age.
LEMMA BuildSnapshotPreserves ==
    ASSUME GnssInv, BuildSnapshot
    PROVE  GnssInv'
<1> USE DEF GnssInv, BuildSnapshot, gnssVars
<1>1. GnssTypeOK'
  <2>1. snapshot' \in [mode : Modes, age : Int]
    BY ModeNow DEF GnssTypeOK
  <2>2. QED
    BY <2>1 DEF GnssTypeOK
<1>2. HeadingIsTrusted' /\ QualityIsCurrent' /\ FixIsNotYounger'
  BY DEF HeadingIsTrusted, QualityIsCurrent, Quality, FixIsNotYounger
<1>3. SnapshotIsEarlier'
  <2>1. CASE lastGnssTimestamp = None
    BY <2>1, ModeNow DEF SnapshotIsEarlier, ModeAt, GnssTypeOK
  <2>2. CASE lastGnssTimestamp # None
    BY <2>2, ModeNow DEF SnapshotIsEarlier, ModeAt, GnssTypeOK
  <2>3. QED
    BY <2>1, <2>2
<1>4. QED
  BY <1>1, <1>2, <1>3

\* The button and the clock leave the fixes alone.
LEMMA OthersPreserve ==
    ASSUME GnssInv,
           \/ \E enabled \in BOOLEAN : SetOutageSimulated(enabled)
           \/ TimePasses
           \/ UNCHANGED vars
    PROVE  GnssInv'
<1> USE DEF GnssInv
<1>1. ASSUME NEW enabled \in BOOLEAN, SetOutageSimulated(enabled) PROVE GnssInv'
  BY <1>1 DEF SetOutageSimulated, gnssVars, GnssTypeOK, HeadingIsTrusted, QualityIsCurrent,
              Quality, FixIsNotYounger, SnapshotIsEarlier
<1>2. CASE TimePasses
  <2>1. GnssTypeOK' /\ HeadingIsTrusted' /\ QualityIsCurrent' /\ FixIsNotYounger'
    BY <1>2 DEF TimePasses, gnssVars, GnssTypeOK, HeadingIsTrusted, QualityIsCurrent,
                Quality, FixIsNotYounger
  <2>2. SnapshotIsEarlier'
    BY <1>2 DEF TimePasses, gnssVars, GnssTypeOK, SnapshotIsEarlier, ModeAt
  <2>3. QED
    BY <2>1, <2>2
<1>3. CASE UNCHANGED vars
  BY <1>3 DEF vars, GnssTypeOK, HeadingIsTrusted, QualityIsCurrent, Quality,
              FixIsNotYounger, SnapshotIsEarlier, ModeAt
<1>4. QED
  BY <1>1, <1>2, <1>3

\* IMU samples leave the fixes alone.
LEMMA ProcessImuPreserves ==
    ASSUME GnssInv, NEW time, NEW magnitude, ProcessImu(time, magnitude)
    PROVE  GnssInv'
  BY DEF ProcessImu, GnssInv, gnssVars, GnssTypeOK, HeadingIsTrusted, QualityIsCurrent,
         Quality, FixIsNotYounger, SnapshotIsEarlier, ModeAt

-----------------------------------------------------------------------------
(* The IMU samples *)

\* The baseline with a new magnitude: one longer or full, and its elements are the
\* last ones of the old baseline and the new magnitude.
LEMMA RolledBaseline ==
    ASSUME ImuTypeOK, NEW magnitude \in Magnitudes
    PROVE  /\ Rolled(magnitude) \in Seq(Magnitudes)
           /\ Len(Rolled(magnitude))
                 = IF Len(window) = WindowSize THEN WindowSize ELSE Len(window) + 1
           /\ \A i \in 1..Len(Rolled(magnitude)) :
                 Rolled(magnitude)[i]
                     = Append(window, magnitude)[i + (Len(window) + 1 - Len(Rolled(magnitude)))]
<1> DEFINE longer == Append(window, magnitude)
<1>1. window \in Seq(Magnitudes) /\ Len(window) \in Nat /\ Len(window) <= WindowSize
      /\ WindowSize \in Nat
  BY PipelineAssumption DEF ImuTypeOK
<1>2. longer \in Seq(Magnitudes) /\ longer # <<>> /\ Len(longer) = Len(window) + 1
  BY <1>1, AppendProperties
<1>3. /\ Tail(longer) \in Seq(Magnitudes) /\ Len(Tail(longer)) = Len(longer) - 1
      /\ \A i \in 1..Len(Tail(longer)) : Tail(longer)[i] = longer[i + 1]
  BY <1>2, HeadTailProperties
<1>4. Rolled(magnitude) = IF Len(longer) > WindowSize THEN Tail(longer) ELSE longer
  BY DEF Rolled
<1> HIDE DEF longer
<1>5. CASE Len(window) = WindowSize
  <2>1. Rolled(magnitude) = Tail(longer)
    BY <1>1, <1>2, <1>4, <1>5
  <2>2. Len(Tail(longer)) = WindowSize /\ Len(window) + 1 - Len(Tail(longer)) = 1
    BY <1>1, <1>2, <1>3, <1>5
  <2>3. QED
    BY <1>3, <1>5, <2>1, <2>2 DEF longer
<1>6. CASE Len(window) # WindowSize
  <2>1. Rolled(magnitude) = longer
    BY <1>1, <1>2, <1>4, <1>6
  <2>2. Len(window) + 1 - Len(longer) = 0 /\ \A i \in 1..Len(longer) : i + 0 = i
    BY <1>1, <1>2
  <2>3. QED
    BY <1>2, <1>6, <2>1, <2>2 DEF longer
<1>7. QED
  BY <1>5, <1>6

\* A severity is one of three, or there is none.
LEMMA SeverityType ==
    \A magnitude, rolled : Severity(magnitude, rolled) \in Severities \cup {None}
  BY DEF Severity, Severities

\* The time a sample covers is never negative.
LEMMA DtIsNatural ==
    ASSUME ImuTypeOK, NEW time \in Nat
    PROVE  Dt(time) \in Nat
  BY PipelineAssumption DEF ImuTypeOK, Dt

\* Reporting an anomaly no earlier than the debouncing allows keeps them spaced.
LEMMA ReportKeepsSpacing ==
    ASSUME ImuTypeOK, LastEventIsLast, AnomaliesAreSpaced,
           NEW time \in Nat, NEW severity \in Severities, time - lastEventAt >= Debounce,
           anomalies' = Append(anomalies, [time |-> time, severity |-> severity]),
           lastEventAt' = time
    PROVE  /\ anomalies' \in Seq([time : Nat, severity : Severities])
           /\ LastEventIsLast' /\ AnomaliesAreSpaced'
<1> DEFINE anomaly == [time |-> time, severity |-> severity]
           n == Len(anomalies)
<1>1. anomaly \in [time : Nat, severity : Severities] /\ anomaly.time = time
  OBVIOUS
<1>2. anomalies \in Seq([time : Nat, severity : Severities]) /\ n \in Nat
  BY DEF ImuTypeOK
<1> HIDE DEF anomaly
<1>3. /\ anomalies' \in Seq([time : Nat, severity : Severities])
      /\ Len(anomalies') = n + 1 /\ anomalies'[n + 1] = anomaly
      /\ \A i \in 1..n : anomalies'[i] = anomalies[i]
  BY <1>1, <1>2, AppendProperties DEF anomaly
<1>4. LastEventIsLast'
  BY <1>1, <1>3 DEF LastEventIsLast
<1>5. ASSUME NEW i \in 1..(Len(anomalies') - 1)
      PROVE  anomalies'[i + 1].time - anomalies'[i].time >= Debounce
  <2>0. i \in 1..n
    BY <1>2, <1>3
  <2>1. CASE i = n
    <3>1. anomalies # <<>> /\ anomalies[n].time = lastEventAt
      BY <1>2, <2>0, <2>1 DEF LastEventIsLast
    <3>2. QED
      BY <1>1, <1>3, <2>0, <2>1, <3>1
  <2>2. CASE i # n
    <3>1. i \in 1..(n - 1) /\ i + 1 \in 1..n
      BY <1>2, <2>0, <2>2
    <3>2. QED
      BY <1>3, <2>0, <3>1 DEF AnomaliesAreSpaced
  <2>3. QED
    BY <2>1, <2>2
<1>6. QED
  BY <1>3, <1>4, <1>5 DEF AnomaliesAreSpaced

\* The last k elements of a sequence, one by one.
LEMMA LastElements ==
    ASSUME NEW S, NEW s \in Seq(S), NEW k \in 0..Len(s)
    PROVE  /\ SubSeq(s, Len(s) - k + 1, Len(s)) \in Seq(S)
           /\ Len(SubSeq(s, Len(s) - k + 1, Len(s))) = k
           /\ \A i \in 1..k : SubSeq(s, Len(s) - k + 1, Len(s))[i] = s[Len(s) - k + i]
<1> DEFINE a == Len(s) - k + 1
           b == Len(s)
           t == SubSeq(s, a, b)
<1>1. a \in Int /\ b \in Int /\ b - a + 1 = k /\ a >= 1 /\ (a <= b <=> k # 0)
  OBVIOUS
<1>2. \A i \in a..b : s[i] \in S
  BY <1>1, ElementOfSeq
<1> HIDE DEF a, b
<1>3. /\ t \in Seq(S)
      /\ Len(t) = IF a <= b THEN b - a + 1 ELSE 0
      /\ \A i \in 1..(b - a + 1) : t[i] = s[a + i - 1]
  BY <1>1, <1>2, SubSeqProperties
<1>4. Len(t) = k
  BY <1>1, <1>3
<1>5. ASSUME NEW i \in 1..k PROVE t[i] = s[Len(s) - k + i]
  <2>1. a + i - 1 = Len(s) - k + i
    BY <1>1 DEF a
  <2>2. QED
    BY <1>1, <1>3, <2>1
<1>6. QED
  BY <1>3, <1>4, <1>5 DEF a, b

\* The baseline rolls over what the detector was given.
LEMMA RollingStaysRecent ==
    ASSUME ImuTypeOK, BaselineIsRecent, NEW magnitude \in Magnitudes,
           window' = Rolled(magnitude), felt' = Append(felt, magnitude)
    PROVE  BaselineIsRecent'
<1> DEFINE n == Len(window)
           m == Len(felt)
           k == Len(window')
<1>1. /\ window \in Seq(Magnitudes) /\ n \in Nat /\ n <= WindowSize
      /\ felt \in Seq(Magnitudes) /\ m \in Nat /\ WindowSize \in Nat \ {0}
  BY PipelineAssumption DEF ImuTypeOK
<1>2. /\ window' \in Seq(Magnitudes) /\ k \in Nat
      /\ k = IF n = WindowSize THEN WindowSize ELSE n + 1
      /\ \A i \in 1..k : window'[i] = Append(window, magnitude)[i + (n + 1 - k)]
  <2>1. /\ window' \in Seq(Magnitudes)
        /\ k = IF n = WindowSize THEN WindowSize ELSE n + 1
        /\ \A i \in 1..k : window'[i] = Append(window, magnitude)[i + (n + 1 - k)]
    BY RolledBaseline
  <2>2. k \in Nat
    BY <1>1, <2>1
  <2>3. QED
    BY <2>1, <2>2
<1>3. /\ \A i \in 1..n : Append(window, magnitude)[i] = window[i]
      /\ Append(window, magnitude)[n + 1] = magnitude
  BY <1>1, AppendProperties
<1>4. /\ felt' \in Seq(Magnitudes) /\ Len(felt') = m + 1 /\ felt'[m + 1] = magnitude
      /\ \A i \in 1..m : felt'[i] = felt[i]
  BY <1>1, AppendProperties
<1>5. /\ n = IF m < WindowSize THEN m ELSE WindowSize
      /\ \A i \in 1..n : window[i] = felt[m - n + i]
  <2>1. window = SubSeq(felt, m - n + 1, m)
    BY DEF BaselineIsRecent
  <2>2. n = IF m < WindowSize THEN m ELSE WindowSize
    BY DEF BaselineIsRecent
  <2>3. n \in 0..m
    BY <1>1, <2>2
  <2>4. QED
    BY <1>1, <2>1, <2>2, <2>3, LastElements
<1> HIDE DEF n, m, k
<1>6. k <= m + 1 /\ k >= 1 /\ n + 1 - k >= 0
  BY <1>1, <1>2, <1>5
<1>7. ASSUME NEW i \in 1..k
      PROVE  window'[i] = felt'[(m + 1) - k + i]
  <2>1. CASE i = k
    <3>1. i + (n + 1 - k) = n + 1 /\ (m + 1) - k + i = m + 1
      BY <1>1, <1>2, <2>1
    <3>2. QED
      BY <1>2, <1>3, <1>4, <3>1
  <2>2. CASE i # k
    <3>1. i + (n + 1 - k) \in 1..n
      BY <1>1, <1>2, <1>6, <2>2
    <3>2. window'[i] = window[i + (n + 1 - k)]
      BY <1>2, <1>3, <3>1
    <3>3. window[i + (n + 1 - k)] = felt[m - n + (i + (n + 1 - k))]
      BY <1>5, <3>1
    <3>4. m - n + (i + (n + 1 - k)) = (m + 1) - k + i /\ (m + 1) - k + i \in 1..m
      BY <1>1, <1>2, <1>5, <1>6, <3>1
    <3>5. QED
      BY <1>4, <3>2, <3>3, <3>4
  <2>3. QED
    BY <2>1, <2>2
<1>8. window' = SubSeq(felt', Len(felt') - k + 1, Len(felt'))
  <2> DEFINE t == SubSeq(felt', Len(felt') - k + 1, Len(felt'))
  <2>1. k \in 0..Len(felt')
    BY <1>1, <1>2, <1>4, <1>6
  <2>2. /\ t \in Seq(Magnitudes) /\ Len(t) = k
        /\ \A i \in 1..k : t[i] = felt'[Len(felt') - k + i]
    BY <1>4, <2>1, LastElements
  <2> HIDE DEF t
  <2>3. ASSUME NEW i \in 1..k PROVE window'[i] = t[i]
    <3>1. Len(felt') = m + 1
      BY <1>4
    <3>2. window'[i] = felt'[(m + 1) - k + i]
      BY <1>7
    <3>3. t[i] = felt'[Len(felt') - k + i]
      BY <2>2
    <3>4. QED
      BY <3>1, <3>2, <3>3, Zenon
  <2>4. window' = t
    BY <1>2, <2>2, <2>3, SeqEqual DEF k
  <2>5. QED
    BY <2>4 DEF t
<1>9. k = IF m + 1 < WindowSize THEN m + 1 ELSE WindowSize
  BY <1>1, <1>2, <1>5
<1>10. QED
  BY <1>4, <1>8, <1>9 DEF BaselineIsRecent, k

\* Asking the detector keeps what holds of it.
LEMMA DetectPreserves ==
    ASSUME ImuInv, NEW time \in Nat, NEW magnitude \in Magnitudes, Detect(time, magnitude)
    PROVE  /\ window' \in Seq(Magnitudes) /\ Len(window') <= WindowSize
           /\ lastEventAt' \in Nat /\ felt' \in Seq(Magnitudes)
           /\ anomalies' \in Seq([time : Nat, severity : Severities])
           /\ LastEventIsLast' /\ AnomaliesAreSpaced' /\ BaselineIsRecent'
<1>1. ImuTypeOK /\ LastEventIsLast /\ AnomaliesAreSpaced /\ BaselineIsRecent
  BY DEF ImuInv
<1>2. window' = Rolled(magnitude) /\ felt' = Append(felt, magnitude)
  BY DEF Detect
<1>3. window' \in Seq(Magnitudes) /\ Len(window') <= WindowSize
  BY <1>1, <1>2, RolledBaseline, PipelineAssumption DEF ImuTypeOK
<1>4. felt' \in Seq(Magnitudes)
  BY <1>1, <1>2, AppendProperties DEF ImuTypeOK
<1>5. BaselineIsRecent'
  BY <1>1, <1>2, RollingStaysRecent
<1> DEFINE severity == Severity(magnitude, Rolled(magnitude))
<1>6. severity \in Severities \cup {None}
  BY SeverityType
<1>7. /\ lastEventAt' = IF severity # None /\ time - lastEventAt >= Debounce
                        THEN time ELSE lastEventAt
      /\ anomalies' = IF severity # None /\ time - lastEventAt >= Debounce
                      THEN Append(anomalies, [time |-> time, severity |-> severity])
                      ELSE anomalies
  BY DEF Detect
<1> HIDE DEF severity
<1>8. CASE severity # None /\ time - lastEventAt >= Debounce
  <2>1. severity \in Severities
    BY <1>6, <1>8
  <2>2. lastEventAt' = time
        /\ anomalies' = Append(anomalies, [time |-> time, severity |-> severity])
    BY <1>7, <1>8
  <2>3. QED
    BY <1>1, <1>3, <1>4, <1>5, <1>8, <2>1, <2>2, ReportKeepsSpacing
<1>9. CASE ~ (severity # None /\ time - lastEventAt >= Debounce)
  <2>1. lastEventAt' = lastEventAt /\ anomalies' = anomalies
    BY <1>7, <1>9
  <2>2. QED
    BY <1>1, <1>3, <1>4, <1>5, <2>1 DEF ImuTypeOK, LastEventIsLast, AnomaliesAreSpaced
<1>10. QED
  BY <1>8, <1>9

\* An IMU sample keeps what holds of the samples, anchored or not.
LEMMA ImuStepPreserves ==
    ASSUME ImuInv, NEW anchored \in BOOLEAN, NEW time \in Nat, NEW magnitude \in Magnitudes,
           ImuStep(anchored, time, magnitude)
    PROVE  ImuInv' /\ (~ anchored => felt' = felt)
<1>1. samples' = samples + 1 /\ elapsed' = elapsed + Dt(time) /\ lastTimestamp' = time
  BY DEF ImuStep
<1>2. samples' \in Nat /\ elapsed' \in Nat /\ lastTimestamp' \in Nat
  <2>1. Dt(time) \in Nat
    BY DtIsNatural DEF ImuInv
  <2>2. QED
    BY <1>1, <2>1 DEF ImuInv, ImuTypeOK
<1>3. CASE anchored
  <2>1. Detect(time, magnitude)
    BY <1>3 DEF ImuStep
  <2>2. QED
    BY <1>2, <1>3, <2>1, DetectPreserves DEF ImuInv, ImuTypeOK
<1>4. CASE ~ anchored
  <2>1. UNCHANGED <<window, lastEventAt, anomalies, felt>>
    BY <1>4 DEF ImuStep
  <2>2. QED
    BY <1>2, <2>1 DEF ImuInv, ImuTypeOK, LastEventIsLast, AnomaliesAreSpaced, BaselineIsRecent
<1>5. QED
  BY <1>3, <1>4

\* What is not an IMU sample leaves the samples alone.
LEMMA ImuUntouched ==
    ASSUME ImuInv, UNCHANGED imuVars
    PROVE  ImuInv' /\ felt' = felt
  BY DEF imuVars, ImuInv, ImuTypeOK, LastEventIsLast, AnomaliesAreSpaced, BaselineIsRecent

-----------------------------------------------------------------------------
(* The engine *)

\* A fresh engine has seen neither fix nor sample.
LEMMA InitInv == Init => Inv
<1> SUFFICES ASSUME Init PROVE Inv
  OBVIOUS
<1>1. ImuTypeOK /\ LastEventIsLast /\ AnomaliesAreSpaced
  BY PipelineAssumption
     DEF Init, ImuInit, ImuTypeOK, LastEventIsLast, AnomaliesAreSpaced
<1>2. BaselineIsRecent
  <2>1. window = <<>> /\ felt = <<>> /\ Len(window) = 0 /\ Len(felt) = 0
    BY DEF Init, ImuInit
  <2>2. SubSeq(<<>>, 1, 0) = <<>>
    BY SubSeqEmpty
  <2>3. QED
    BY <2>1, <2>2, PipelineAssumption DEF BaselineIsRecent
<1>3. FeltSinceAnchor
  BY DEF Init, ImuInit, FeltSinceAnchor
<1>4. QED
  BY <1>1, <1>2, <1>3, InitGnssInv DEF Inv, ImuInv

\* Every step preserves the invariant.
LEMMA NextPreserves == Inv /\ [Next]_vars => Inv'
<1> SUFFICES ASSUME Inv, [Next]_vars PROVE Inv'
  OBVIOUS
<1>0. GnssInv /\ ImuInv /\ FeltSinceAnchor
  BY DEF Inv
<1>1. ASSUME NEW fix \in FixKinds, NEW delay \in 0..MaxDelay,
             ProcessGnss(fix, now + skew - delay)
      PROVE  Inv'
  <2> DEFINE time == now + skew - delay
  <2> HIDE DEF time
  <2>1. FirstFix(fix, time) \/ FixDuringOutage(fix, time) \/ Update(fix, time)
    BY <1>1 DEF ProcessGnss, time
  <2>2. GnssInv'
    BY <1>0, <2>1, FirstFixPreserves, FixDuringOutagePreserves, UpdatePreserves
  <2>3. UNCHANGED imuVars
    BY <2>1 DEF FirstFix, FixDuringOutage, Update
  <2>4. anchor' = None => anchor = None
    BY <2>1, EngineAssumption DEF FirstFix, FixDuringOutage, Update, gnssVars
  <2>5. QED
    BY <1>0, <2>2, <2>3, <2>4, ImuUntouched DEF Inv, FeltSinceAnchor
<1>2. ASSUME NEW time \in SampleTimes, NEW magnitude \in Magnitudes,
             ProcessImu(time, magnitude)
      PROVE  Inv'
  <2>1. GnssInv' /\ anchor' = anchor
    BY <1>0, <1>2, ProcessImuPreserves DEF ProcessImu, gnssVars
  <2>2. ImuStep(anchor # None, time, magnitude) /\ time \in Nat
    BY <1>2, PipelineAssumption DEF ProcessImu
  <2>3. ImuInv' /\ (anchor = None => felt' = felt)
    BY <1>0, <2>2, ImuStepPreserves
  <2>4. QED
    BY <1>0, <2>1, <2>3 DEF Inv, FeltSinceAnchor
<1>3. CASE BuildSnapshot \/ (\E enabled \in BOOLEAN : SetOutageSimulated(enabled))
           \/ TimePasses \/ UNCHANGED vars
  <2>1. GnssInv'
    BY <1>0, <1>3, BuildSnapshotPreserves, OthersPreserve
  <2>2. UNCHANGED imuVars /\ anchor' = anchor
    BY <1>3 DEF BuildSnapshot, SetOutageSimulated, TimePasses, vars, gnssVars
  <2>3. QED
    BY <1>0, <2>1, <2>2, ImuUntouched DEF Inv, FeltSinceAnchor
<1>4. QED
  BY <1>1, <1>2, <1>3 DEF Next

-----------------------------------------------------------------------------
(* Theorems *)

\* The engine keeps its invariant, whatever arrives.
THEOREM Invariance == Spec => []Inv
<1>1. QED
  BY InitInv, NextPreserves, PTL DEF Spec

\* Everything stays of its kind, and the detector's window never outgrows
\* ANOMALY_WINDOW_SIZE (TypeOK).
THEOREM TypeCorrect == Spec => []TypeOK
<1>1. Inv => TypeOK
  BY DEF Inv, GnssInv, ImuInv, FeltSinceAnchor, TypeOK
<1>2. QED
  BY <1>1, Invariance, PTL

\* Anomalies are spaced by ANOMALY_MIN_INTERVAL_MS in the device's time, in whatever
\* order the samples' timestamps come (RoadAnomalyDetector.detect).
THEOREM SpacedAnomalies == Spec => []AnomaliesAreSpaced
<1>1. Inv => AnomaliesAreSpaced
  BY DEF Inv, ImuInv
<1>2. QED
  BY <1>1, Invariance, PTL

\* The baseline is over the last samples since the anchor, for every length of the
\* window and of the session (RoadAnomalyDetector.detect).
THEOREM RecentBaseline == Spec => []BaselineIsRecent
<1>1. Inv => BaselineIsRecent
  BY DEF Inv, ImuInv
<1>2. QED
  BY <1>1, Invariance, PTL

\* Only the anchoring fix may set the heading from a standing vehicle's course.
THEOREM TrustedHeading == Spec => []HeadingIsTrusted
<1>1. Inv => HeadingIsTrusted
  BY DEF Inv, GnssInv
<1>2. QED
  BY <1>1, Invariance, PTL

\* Once two fixes were used, the mode is the quality of the last of them, or
\* dead reckoning (currentFusionMode).
THEOREM HonestMode == Spec => []ModeIsQuality
<1>1. Inv => ModeIsQuality
  BY DEF Inv, GnssInv, ModeIsQuality, QualityIsCurrent, CurrentFusionMode
<1>2. QED
  BY <1>1, Invariance, PTL

\* With a device clock that is not ahead, GNSS is only claimed while a fix has
\* arrived within the timeout, for every timeout and every delay.
THEOREM FreshFusion == Spec => []NoFusionWithoutFixes
<1>1. Inv => NoFusionWithoutFixes
  <2> SUFFICES ASSUME Inv, skew <= 0, CurrentFusionMode # "DEAD_RECKONING_ONLY"
               PROVE  usedAt # None /\ now - usedAt <= Timeout
    BY DEF NoFusionWithoutFixes
  <2>1. lastGnssTimestamp # None /\ ~ (now - lastGnssTimestamp > Timeout)
    BY DEF CurrentFusionMode
  <2>2. usedAt \in Nat /\ lastGnssTimestamp <= usedAt + skew
    BY <2>1 DEF Inv, GnssInv, FixIsNotYounger
  <2>3. QED
    BY <2>1, <2>2, EngineAssumption DEF Inv, GnssInv, GnssTypeOK
<1>2. QED
  BY <1>1, Invariance, PTL

-----------------------------------------------------------------------------
\* An older fix never scores better, whatever the uncertainty (computeAiInference).
LEMMA ScoreFalls ==
    ASSUME NEW u \in Nat, NEW m \in Modes, NEW n \in Modes, NEW a \in Int, NEW b \in Int,
           Penalty(m, a) \in Int, Penalty(n, b) \in Int, Penalty(m, a) <= Penalty(n, b)
    PROVE  Score(u, n, b) <= Score(u, m, a)
<1> DEFINE x == 400 - 12 * u - Penalty(m, a) + 2
           y == 400 - 12 * u - Penalty(n, b) + 2
<1>1. x \in Int /\ y \in Int /\ y <= x
  OBVIOUS
<1> HIDE DEF x, y
<1>2. x \div 4 \in Int /\ y \div 4 \in Int /\ y \div 4 <= x \div 4
  BY <1>1, SMTT(30)
<1>3. Score(u, m, a) = IF x \div 4 < 0 THEN 0 ELSE IF x \div 4 > 100 THEN 100 ELSE x \div 4
  BY DEF Score, x
<1>4. Score(u, n, b) = IF y \div 4 < 0 THEN 0 ELSE IF y \div 4 > 100 THEN 100 ELSE y \div 4
  BY DEF Score, y
<1>5. QED
  BY <1>2, <1>3, <1>4

\* Confidence never rises between two snapshots, the first of them not degraded,
\* unless a fix was used or the button pressed (computeAiInference).
THEOREM NeverRisesUnseen == Spec => ConfidenceNeverRisesUnseen
<1>1. ASSUME Inv, BuildSnapshot, snapshot # None, ~ changed, snapshot.mode # "DEGRADED",
             NEW u \in Uncertainties
      PROVE  Score(u, snapshot'.mode, snapshot'.age) <= Score(u, snapshot.mode, snapshot.age)
  <2> DEFINE a == snapshot.age
             b == snapshot'.age
  <2>1. /\ snapshot.mode = ModeAt(a) /\ snapshot'.mode = ModeAt(b)
        /\ snapshot.mode \in Modes /\ snapshot'.mode \in Modes
        /\ a \in Int /\ b \in Int
        /\ lastGnssTimestamp = None => a = 0 /\ b = 0
        /\ lastGnssTimestamp # None => a <= b
    <3>1. snapshot \in [mode : Modes, age : Int]
      BY <1>1 DEF Inv, GnssInv, GnssTypeOK
    <3>2. snapshot'.mode = CurrentFusionMode
          /\ b = IF lastGnssTimestamp = None THEN 0 ELSE now - lastGnssTimestamp
      BY <1>1 DEF BuildSnapshot
    <3>3. GnssTypeOK /\ SnapshotIsEarlier
      BY <1>1 DEF Inv, GnssInv
    <3>4. QED
      BY <1>1, <3>1, <3>2, <3>3, ModeNow DEF SnapshotIsEarlier, GnssTypeOK
  <2>2. ModeAt(a) # "DEGRADED" /\ lastGnssQuality \in {None, "FUSION", "DEGRADED"}
    BY <1>1, <2>1 DEF Inv, GnssInv, GnssTypeOK
  <2> HIDE DEF a, b
  <2>3. /\ Penalty(ModeAt(a), a) \in Int /\ Penalty(ModeAt(b), b) \in Int
        /\ Penalty(ModeAt(a), a) <= Penalty(ModeAt(b), b)
    <3>1. CASE lastGnssTimestamp = None
      BY <2>1, <3>1 DEF ModeAt, Penalty
    <3>2. CASE lastGnssTimestamp # None /\ outageSimulated
      BY <2>1, <3>2 DEF ModeAt, Penalty
    <3>3. CASE lastGnssTimestamp # None /\ ~ outageSimulated
      BY <2>1, <2>2, <3>3, EngineAssumption DEF ModeAt, Penalty
    <3>4. QED
      BY <3>1, <3>2, <3>3
  <2>4. u \in Nat
    BY EngineAssumption
  <2>5. QED
    BY <2>1, <2>3, <2>4, ScoreFalls DEF a, b
<1>2. Inv /\ [Next]_vars =>
        [BuildSnapshot /\ snapshot # None /\ ~ changed /\ snapshot.mode # "DEGRADED" =>
            \A u \in Uncertainties :
                Score(u, snapshot'.mode, snapshot'.age)
                    <= Score(u, snapshot.mode, snapshot.age)]_vars
  BY <1>1
<1>3. QED
  BY <1>2, Invariance, PTL DEF Spec, ConfidenceNeverRisesUnseen

=============================================================================
