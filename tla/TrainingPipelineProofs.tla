------------------------ MODULE TrainingPipelineProofs ------------------------
(***************************************************************************)
(* Proofs about the training pipeline, for any recordings, metrics, number  *)
(* of epochs and number of runs.  The invariants that make the properties   *)
(* inductive say how far the current run has come: what it has passed is     *)
(* its own and whole, what is ahead of it is older (Progress); the copies    *)
(* are whole once it is past them (Copied); and the checkpoint of the        *)
(* network in training holds the best weights so far (Trained).              *)
(***************************************************************************)
EXTENDS TrainingPipeline, SequenceTheorems, FiniteSetTheorems, TLAPS

\* What the files are called.
Names == {"recordings", "jitter_plot", "dataset", "splits", "baseline_metrics", "windows", "scaler",
          "speed_checkpoint", "speed_metrics", "vibration_checkpoint", "vibration_metrics",
          "motion_checkpoint", "motion_metrics", "outage_metrics", "anomaly_checkpoint",
          "anomaly_metrics", "failover_plot", "speed_onnx", "vibration_onnx", "motion_onnx",
          "speed_tflite", "vibration_tflite", "motion_tflite", "benchmarks", "metadata"}

\* The files of a run are a sequence that begins with what it makes.
LEMMA FilesShape ==
    /\ Len(Made) \in Nat /\ DOMAIN Made = 1..Len(Made)
    /\ Len(Files) \in Nat /\ DOMAIN Files = 1..Len(Files)
    /\ Len(Made) <= Len(Files)
    /\ 1 <= Len(Made) /\ Files[1] = "recordings"
    /\ \A i \in DOMAIN Made : Files[i] = Made[i]
<1>1. Assets \in Seq(Names)
  BY DEF Assets, Names
<1>2. Made \in Seq(Names) /\ 1 <= Len(Made) /\ Made[1] = "recordings"
  BY DEF Made, Names
<1>3. Made \o Assets \in Seq(Names) /\ Len(Made \o Assets) = Len(Made) + Len(Assets)
  BY <1>1, <1>2
<1>4. Files \in Seq(Names) /\ Len(Files) = Len(Made \o Assets) + Len(Assets)
  BY <1>1, <1>3 DEF Files
<1>5. \A i \in DOMAIN Made : Files[i] = Made[i]
  <2>1. \A i \in 1..Len(Made) : (Made \o Assets)[i] = Made[i]
    BY <1>1, <1>2
  <2>2. \A i \in 1..Len(Made \o Assets) : Files[i] = (Made \o Assets)[i]
    BY <1>1, <1>3 DEF Files
  <2>3. DOMAIN Made = 1..Len(Made) /\ \A i \in 1..Len(Made) : i \in 1..Len(Made \o Assets)
    BY <1>1, <1>2, <1>3
  <2> QED
    BY <2>1, <2>2, <2>3
<1> QED
  BY <1>1, <1>2, <1>3, <1>4, <1>5

\* The checkpoints are not written one right after the other.
LEMMA CheckpointPlaces ==
    \A i \in DOMAIN Made, m \in Networks : Made[i] = Checkpoint[m] => i \in {8, 10, 12}
BY DEF Made, Networks, Checkpoint

-----------------------------------------------------------------------------
(* The inductive invariants *)

\* What the run has passed is its own; what is ahead of it is of earlier runs.
Progress ==
    /\ \A i \in DOMAIN Files : disk[i].run <= run
    /\ \A i \in DOMAIN Files : i < at => disk[i] = [run |-> run, whole |-> TRUE]
    /\ at # 0 => run # 0 /\ \A i \in DOMAIN Files : at < i => disk[i].run < run

\* Only found recordings are copied, and past the first file all of them are.
Copied ==
    /\ \A r \in Recordings : copies[r] # "absent" => r \in found
    /\ Running /\ at > 1 => \A r \in found : copies[r] = "whole"

\* Between trainings there is no state of one; during one the checkpoint holds
\* the best metric, within MinDelta of the best one seen.
Trained ==
    /\ training.epoch = 0 => training = Untrained
    /\ training.counter <= training.epoch
    /\ (\A m \in Networks : ~ Writing(Checkpoint[m])) => training = Untrained
    /\ \A m \in Networks :
          Writing(Checkpoint[m]) /\ training.epoch # 0 =>
              /\ disk[at] = [run |-> run, whole |-> TRUE]
              /\ training.seen \in Nat /\ training.best \in Nat
              /\ kept[m] = training.best
              /\ training.best <= training.seen + MinDelta

IInv == TypeOK /\ Progress /\ WrittenInOrder /\ Copied /\ TracksAreWhole /\ Trained /\ NetworksAreBest

\* All actions but those that train write one file, start or end a run, or copy.
Producing ==
    \/ InspectRecordings \/ LoadDataset \/ ProcessRecordings \/ CleanDataset
    \/ SplitTracks \/ ComputeBaseline \/ FitScaler
    \/ EvaluateSpeed \/ EvaluateVibration \/ CalibrateMotion
    \/ BenchmarkOutages \/ SaveAnomalyDetector \/ DemonstrateFailover
    \/ ExportOnnx \/ PackageTflite \/ MeasureLatency \/ Deploy

\* What producing has in common, beside its file: it is not a checkpoint, and the
\* first file takes whole copies.
LEMMA ProducingWrites ==
    ASSUME Producing
    PROVE  /\ Running /\ Write
           /\ \A m \in Networks : ~ Writing(Checkpoint[m])
           /\ UNCHANGED <<found, copies, run, training, kept, network>>
           /\ at = 1 => \A r \in found : copies[r] = "whole"
<1> USE FilesShape DEF Writing, Checkpoint, Networks, Running
<1>1. CASE Deploy
  BY <1>1 DEF Deploy
<1>2. CASE ExportOnnx
  BY <1>2 DEF ExportOnnx, Produce, Exported
<1>3. CASE PackageTflite
  BY <1>3 DEF PackageTflite, Produce, Packaged
<1>4. CASE InspectRecordings \/ LoadDataset \/ ProcessRecordings \/ CleanDataset
  BY <1>4 DEF Stale, InspectRecordings, LoadDataset, ProcessRecordings, CleanDataset
<1>5. ASSUME NEW file, Produce(file), file # "recordings", \A m \in Networks : file # Checkpoint[m]
      PROVE  /\ Running /\ Write
             /\ \A m \in Networks : ~ Writing(Checkpoint[m])
             /\ UNCHANGED <<found, copies, run, training, kept, network>>
             /\ at # 1
  BY <1>5 DEF Produce
<1>6. CASE SplitTracks \/ ComputeBaseline \/ FitScaler
  <2>1. \E file \in {"splits", "baseline_metrics", "windows", "scaler"} : Produce(file)
    BY <1>6 DEF SplitTracks, ComputeBaseline, FitScaler
  <2> QED
    BY <1>5, <2>1
<1>7. CASE EvaluateSpeed \/ EvaluateVibration \/ CalibrateMotion
  <2>1. \E file \in {"speed_metrics", "vibration_metrics", "motion_metrics"} : Produce(file)
    BY <1>7 DEF EvaluateSpeed, EvaluateVibration, CalibrateMotion
  <2> QED
    BY <1>5, <2>1
<1>8. CASE BenchmarkOutages \/ SaveAnomalyDetector \/ DemonstrateFailover \/ MeasureLatency
  <2>1. \E file \in {"outage_metrics", "anomaly_checkpoint", "anomaly_metrics", "failover_plot",
                     "benchmarks"} : Produce(file)
    BY <1>8 DEF BenchmarkOutages, SaveAnomalyDetector, DemonstrateFailover, MeasureLatency
  <2> QED
    BY <1>5, <2>1
<1> QED
  BY <1>1, <1>2, <1>3, <1>4, <1>6, <1>7, <1>8 DEF Producing

\* The tracks come from the copies, from the dataset, or stay as they are.
LEMMA ProducingTracks ==
    ASSUME Producing
    PROVE  \/ UNCHANGED <<tracks, dataset>>
           \/ tracks' = dataset /\ UNCHANGED dataset
           \/ UNCHANGED tracks /\ dataset' = tracks
           \/ /\ UNCHANGED dataset /\ Running /\ at > 1
              /\ tracks' = {[recording |-> r, whole |-> copies[r] = "whole"] :
                                r \in {s \in Recordings : copies[s] # "absent" /\ Rows[s] > 0}}
<1>1. CASE ProcessRecordings
  <2>1. at # 1
    BY <1>1, FilesShape DEF ProcessRecordings, Writing
  <2>2. at \in DOMAIN Made /\ UNCHANGED dataset
    BY <1>1 DEF ProcessRecordings, Writing
  <2>3. Running /\ at > 1
    BY <2>1, <2>2, FilesShape DEF Running
  <2> QED
    BY <1>1, <2>2, <2>3 DEF ProcessRecordings
<1>2. CASE LoadDataset \/ CleanDataset
  BY <1>2 DEF LoadDataset, CleanDataset
<1> QED
  BY <1>1, <1>2 DEF Producing, InspectRecordings, SplitTracks, ComputeBaseline, FitScaler,
     EvaluateSpeed, EvaluateVibration, CalibrateMotion, BenchmarkOutages, SaveAnomalyDetector,
     DemonstrateFailover, ExportOnnx, PackageTflite, MeasureLatency, Deploy, Produce

-----------------------------------------------------------------------------
(* The properties *)

LEMMA InitInvariant == Init => IInv
<1> SUFFICES ASSUME Init PROVE IInv
  OBVIOUS
<1> USE FilesShape DEF Init
<1>1. TypeOK
  BY DEF TypeOK, Writing, Untrained
<1>2. Progress /\ WrittenInOrder
  BY DEF Progress, WrittenInOrder
<1>3. Copied /\ TracksAreWhole
  BY DEF Copied, TracksAreWhole, Running
<1>4. Trained /\ NetworksAreBest
  BY DEF Trained, NetworksAreBest, Writing, Untrained
<1> QED
  BY <1>1, <1>2, <1>3, <1>4 DEF IInv

\* Writing a file, to its end or not, keeps the order: what is behind it is of
\* the same run and whole, what is ahead of it is older.
LEMMA WritingKeepsOrder ==
    ASSUME TypeOK, Progress, WrittenInOrder, Running, UNCHANGED run,
           NEW w \in BOOLEAN, disk' = [disk EXCEPT ![at] = [run |-> run, whole |-> w]]
    PROVE  /\ disk' \in [DOMAIN Files -> [run : Nat, whole : BOOLEAN]]
           /\ disk'[at] = [run |-> run, whole |-> w]
           /\ \A i \in DOMAIN Files : i # at => disk'[i] = disk[i]
           /\ WrittenInOrder'
<1>1. disk \in [DOMAIN Files -> [run : Nat, whole : BOOLEAN]] /\ run \in Nat /\ at \in DOMAIN Files
  BY DEF TypeOK, Running
<1>2. disk'[at] = [run |-> run, whole |-> w] /\ \A i \in DOMAIN Files : i # at => disk'[i] = disk[i]
  BY <1>1
<1>3. /\ \A i \in DOMAIN Files : i < at => disk[i] = [run |-> run, whole |-> TRUE]
      /\ \A i \in DOMAIN Files : at < i => disk[i].run < run
  BY <1>1, FilesShape DEF Progress
<1>4. ASSUME NEW i \in DOMAIN Files, NEW j \in DOMAIN Files, i < j
      PROVE  /\ disk'[j].run <= disk'[i].run
             /\ disk'[j].run = disk'[i].run /\ disk'[i].run # 0 => disk'[i].whole
  <2>1. i \in Int /\ j \in Int /\ at \in Int /\ disk[i].run \in Nat /\ disk[j].run \in Nat
    BY <1>1, FilesShape
  <2>2. CASE i = at
    <3>1. disk'[i].run = run /\ disk'[j].run < run
      BY <1>2, <1>3, <1>4, <2>1, <2>2
    <3> QED
      BY <1>1, <1>2, <2>1, <2>2, <3>1, <1>4
  <2>3. CASE j = at
    BY <1>1, <1>2, <1>3, <1>4, <2>1, <2>3
  <2>4. CASE i # at /\ j # at
    <3>1. disk'[i] = disk[i] /\ disk'[j] = disk[j]
      BY <1>2, <2>4
    <3> QED
      BY <1>4, <3>1 DEF WrittenInOrder
  <2> QED
    BY <2>2, <2>3, <2>4
<1>5. disk' \in [DOMAIN Files -> [run : Nat, whole : BOOLEAN]]
  BY <1>1
<1>6. WrittenInOrder'
  BY <1>4 DEF WrittenInOrder
<1> QED
  BY <1>2, <1>5, <1>6

\* A step that produces keeps the invariants.
LEMMA ProducingStep == IInv /\ Producing => IInv'
<1> SUFFICES ASSUME IInv, Producing PROVE IInv'
  OBVIOUS
<1>1. /\ Running /\ Write
      /\ \A m \in Networks : ~ Writing(Checkpoint[m])
      /\ UNCHANGED <<found, copies, run, training, kept, network>>
      /\ at = 1 => \A r \in found : copies[r] = "whole"
  BY ProducingWrites
<1>2. training = Untrained
  BY <1>1 DEF IInv, Trained
<1>3. dataset' \subseteq Track /\ tracks' \subseteq Track /\ TracksAreWhole'
  <2>1. CASE \/ UNCHANGED <<tracks, dataset>>
             \/ tracks' = dataset /\ UNCHANGED dataset
             \/ UNCHANGED tracks /\ dataset' = tracks
    BY <2>1 DEF IInv, TypeOK, TracksAreWhole
  <2>2. CASE /\ UNCHANGED dataset /\ at > 1
             /\ tracks' = {[recording |-> r, whole |-> copies[r] = "whole"] :
                               r \in {s \in Recordings : copies[s] # "absent" /\ Rows[s] > 0}}
    <3>1. \A r \in Recordings : copies[r] # "absent" => copies[r] = "whole"
      BY <1>1, <2>2 DEF IInv, Copied
    <3>2. \A t \in tracks' : t \in Track /\ t.whole
      <4>1. SUFFICES ASSUME NEW r \in Recordings, copies[r] # "absent"
                     PROVE  LET t == [recording |-> r, whole |-> copies[r] = "whole"]
                            IN  t \in Track /\ t.whole
        BY <2>2, <4>1
      <4>2. (copies[r] = "whole") = TRUE
        BY <3>1, <4>1
      <4> QED
        BY <4>2 DEF Track
    <3> QED
      BY <2>2, <3>2 DEF IInv, TypeOK, TracksAreWhole
  <2> QED
    BY <2>1, <2>2, ProducingTracks
<1>4. /\ at \in 1..Len(Files) /\ at' = at + 1 /\ run \in Nat /\ run # 0
      /\ disk' \in [DOMAIN Files -> [run : Nat, whole : BOOLEAN]]
      /\ disk'[at] = [run |-> run, whole |-> TRUE]
      /\ \A i \in DOMAIN Files : i # at => disk'[i] = disk[i]
      /\ WrittenInOrder'
  <2>1. at \in 1..Len(Files) /\ at' = at + 1 /\ run \in Nat
    BY <1>1, FilesShape DEF IInv, TypeOK, Running, Write
  <2>2. run # 0
    BY <2>1, FilesShape DEF IInv, Progress
  <2> QED
    BY <1>1, <2>1, <2>2, WritingKeepsOrder DEF IInv, Write
<1>5. TypeOK'
  <2>1. \A m \in Networks : Epochs[m] \in Nat
    BY PipelineAssumption
  <2>2. (\A m \in Networks : Writing(Checkpoint[m]) => training.epoch <= Epochs[m])'
    BY <1>1, <1>2, <2>1 DEF Untrained
  <2>3. at' \in 0..(Len(Files) + 1)
    BY <1>4, FilesShape
  <2> QED
    BY <1>1, <1>3, <1>4, <2>2, <2>3 DEF IInv, TypeOK
<1>6. Progress'
  <2>1. /\ \A i \in DOMAIN Files : disk[i].run <= run
        /\ \A i \in DOMAIN Files : i < at => disk[i] = [run |-> run, whole |-> TRUE]
        /\ \A i \in DOMAIN Files : at < i => disk[i].run < run
    <3>1. at # 0
      BY <1>4, FilesShape
    <3> QED
      BY <3>1 DEF IInv, Progress
  <2>2. ASSUME NEW i \in DOMAIN Files
        PROVE  /\ disk'[i].run <= run
               /\ i < at' => disk'[i] = [run |-> run, whole |-> TRUE]
               /\ at' < i => disk'[i].run < run
    <3>1. i \in Int /\ at \in Int
      BY <1>4, FilesShape
    <3>2. CASE i = at
      BY <1>4, <3>1, <3>2
    <3>3. CASE i # at
      <4>1. disk'[i] = disk[i]
        BY <1>4, <3>3
      <4> QED
        BY <1>4, <2>1, <3>1, <3>3, <4>1
    <3> QED
      BY <3>2, <3>3
  <2> QED
    BY <1>1, <1>4, <2>2 DEF Progress
<1>7. Copied'
  BY <1>1, <1>4, FilesShape DEF IInv, Copied, Running
<1>8. Trained'
  BY <1>1, <1>2 DEF IInv, Trained, Untrained
<1>9. NetworksAreBest'
  BY <1>1 DEF IInv, NetworksAreBest
<1> QED
  BY <1>3, <1>4, <1>5, <1>6, <1>7, <1>8, <1>9 DEF IInv

\* An epoch keeps the invariants: a checkpoint is saved when the metric improves,
\* and what does not improve is at most MinDelta better.
LEMMA TrainStep ==
    ASSUME IInv, NEW m \in Networks, NEW metric \in Metrics, Train(m, metric)
    PROVE  IInv'
<1>1. /\ Running /\ at > 1 /\ ~ Ended(m) /\ Writing(Checkpoint[m]) /\ at' = at
      /\ \A n \in Networks : Writing(Checkpoint[n]) => n = m
      /\ UNCHANGED <<found, copies, dataset, run, at, tracks, network>>
  <2>1. Files[at] # "recordings" /\ \A n \in Networks : Checkpoint[n] = Checkpoint[m] => n = m
    BY DEF Train, Writing, Checkpoint, Networks
  <2> QED
    BY <2>1, FilesShape DEF Train, Writing, Running
<1>2. /\ training' = [epoch |-> training.epoch + 1, seen |-> Least(metric),
                      best |-> IF Improves(metric) THEN metric ELSE training.best,
                      counter |-> IF Improves(metric) THEN 0 ELSE training.counter + 1]
      /\ IF Improves(metric)
         THEN /\ kept' = [kept EXCEPT ![m] = metric]
              /\ disk' = [disk EXCEPT ![at] = [run |-> run, whole |-> TRUE]]
         ELSE UNCHANGED <<kept, disk>>
  BY DEF Train
<1>3. /\ training \in [epoch : Nat, best : Nat \cup {None}, counter : Nat, seen : Nat \cup {None}]
      /\ metric \in Nat /\ MinDelta \in Nat /\ Epochs[m] \in Nat /\ Patience[m] \in Nat \ {0}
      /\ None \notin Nat /\ kept \in [Networks -> Nat \cup {None}]
  BY PipelineAssumption DEF IInv, TypeOK
<1>4. /\ training.epoch # 0 =>
            /\ disk[at] = [run |-> run, whole |-> TRUE]
            /\ training.seen \in Nat /\ training.best \in Nat
            /\ kept[m] = training.best
            /\ training.best <= training.seen + MinDelta
      /\ training.epoch = 0 => training.best = None /\ training.seen = None
      /\ training.counter <= training.epoch
  <2>1. training.epoch # 0 =>
            /\ disk[at] = [run |-> run, whole |-> TRUE]
            /\ training.seen \in Nat /\ training.best \in Nat
            /\ kept[m] = training.best
            /\ training.best <= training.seen + MinDelta
    BY <1>1 DEF IInv, Trained
  <2>2. training.epoch = 0 => training = Untrained
    BY DEF IInv, Trained
  <2>3. training.counter <= training.epoch
    BY DEF IInv, Trained
  <2> QED
    BY <2>1, <2>2, <2>3 DEF Untrained
<1>5. /\ disk' \in [DOMAIN Files -> [run : Nat, whole : BOOLEAN]]
      /\ \A i \in DOMAIN Files : i # at => disk'[i] = disk[i]
      /\ disk'[at].run <= run
      /\ WrittenInOrder'
  <2>1. CASE Improves(metric)
    <3>1. disk' = [disk EXCEPT ![at] = [run |-> run, whole |-> TRUE]]
      BY <1>2, <2>1
    <3>2. /\ disk' \in [DOMAIN Files -> [run : Nat, whole : BOOLEAN]]
          /\ disk'[at] = [run |-> run, whole |-> TRUE]
          /\ \A i \in DOMAIN Files : i # at => disk'[i] = disk[i]
          /\ WrittenInOrder'
      BY <1>1, <3>1, WritingKeepsOrder DEF IInv
    <3>3. run \in Nat
      BY DEF IInv, TypeOK
    <3> QED
      BY <3>2, <3>3
  <2>2. CASE ~ Improves(metric)
    BY <1>1, <1>2, <2>2 DEF IInv, TypeOK, WrittenInOrder, Progress, Running
  <2> QED
    BY <2>1, <2>2
<1>6. /\ training'.seen \in Nat /\ training'.best \in Nat
      /\ training'.epoch = training.epoch + 1 /\ training'.counter \in Nat
      /\ training'.counter <= training'.epoch
      /\ training'.best <= training'.seen + MinDelta
      /\ kept'[m] = training'.best
      /\ disk'[at] = [run |-> run, whole |-> TRUE]
  <2>1. CASE Improves(metric)
    <3>1. Least(metric) = metric
      BY <1>3, <1>4, <2>1 DEF Least, Improves
    <3>2. disk'[at] = [run |-> run, whole |-> TRUE]
      BY <1>1, <1>2, <2>1 DEF IInv, TypeOK, Running
    <3> QED
      BY <1>2, <1>3, <1>4, <2>1, <3>1, <3>2
  <2>2. CASE ~ Improves(metric)
    <3>1. training.epoch # 0
      BY <1>4, <2>2 DEF Improves
    <3> QED
      BY <1>2, <1>3, <1>4, <2>2, <3>1 DEF Improves, Least
  <2> QED
    BY <2>1, <2>2
<1>7. training' \in [epoch : Nat, best : Nat \cup {None}, counter : Nat, seen : Nat \cup {None}]
  BY <1>2, <1>3, <1>6
<1>8. kept' \in [Networks -> Nat \cup {None}]
  BY <1>2, <1>3
<1>9. training'.epoch <= Epochs[m]
  BY <1>1, <1>3, <1>6 DEF Ended
<1>10. TypeOK'
  BY <1>1, <1>5, <1>7, <1>8, <1>9 DEF IInv, TypeOK, Writing
<1>11. Progress'
  <2>1. /\ \A i \in DOMAIN Files : disk[i].run <= run
        /\ \A i \in DOMAIN Files : i < at => disk[i] = [run |-> run, whole |-> TRUE]
        /\ at # 0 => run # 0 /\ \A i \in DOMAIN Files : at < i => disk[i].run < run
    BY DEF IInv, Progress
  <2>2. ASSUME NEW i \in DOMAIN Files
        PROVE  /\ disk'[i].run <= run
               /\ i < at => disk'[i] = [run |-> run, whole |-> TRUE]
               /\ at # 0 /\ at < i => disk'[i].run < run
    <3>1. i = at => ~ (i < at) /\ ~ (at < i)
      BY FilesShape
    <3> QED
      BY <1>5, <2>1, <3>1
  <2> QED
    BY <1>1, <2>1, <2>2 DEF Progress
<1>12. Copied' /\ TracksAreWhole' /\ NetworksAreBest'
  BY <1>1 DEF IInv, Copied, TracksAreWhole, NetworksAreBest, Running
<1>13. Trained'
  BY <1>1, <1>3, <1>6 DEF Trained, Writing
<1> QED
  BY <1>5, <1>10, <1>11, <1>12, <1>13 DEF IInv

\* Going back to the best weights keeps the invariants.
LEMMA LoadBestStep ==
    ASSUME IInv, NEW m \in Networks, LoadBest(m)
    PROVE  IInv'
<1>1. /\ at \in 1..Len(Made) /\ at \in {8, 10, 12} /\ at' = at + 1 /\ training' = Untrained
      /\ Writing(Checkpoint[m]) /\ Ended(m)
      /\ \A n \in Networks : ~ Writing(Checkpoint[n])'
      /\ UNCHANGED <<found, copies, disk, dataset, run, tracks, kept>>
      /\ network' = [network EXCEPT ![m] = [run |-> disk[at].run, miss |-> kept[m] - training.seen]]
  <2>1. /\ at \in 1..Len(Made) /\ at \in {8, 10, 12} /\ at' = at + 1
    BY CheckpointPlaces, FilesShape DEF LoadBest, Writing
  <2>2. ASSUME NEW n \in Networks, Writing(Checkpoint[n])' PROVE FALSE
    <3>1. at' \in DOMAIN Made /\ Made[at'] = Checkpoint[n]
      BY <2>2, CheckpointPlaces, FilesShape DEF Writing
    <3>2. at' \in {8, 10, 12}
      BY <3>1, CheckpointPlaces
    <3> QED
      BY <2>1, <3>2
  <2> QED
    BY <2>1, <2>2 DEF LoadBest
<1>2. /\ Epochs[m] \in Nat \ {0} /\ Patience[m] \in Nat \ {0} /\ MinDelta \in Nat
      /\ training.epoch \in Nat /\ training.counter \in Nat
  BY PipelineAssumption DEF IInv, TypeOK
<1>3. training.epoch # 0
  BY <1>1, <1>2 DEF IInv, Trained, Ended
<1>4. /\ disk[at] = [run |-> run, whole |-> TRUE]
      /\ training.seen \in Nat /\ kept[m] \in Nat /\ kept[m] - training.seen <= MinDelta
  <2>1. /\ disk[at] = [run |-> run, whole |-> TRUE]
        /\ training.seen \in Nat /\ training.best \in Nat /\ kept[m] = training.best
        /\ training.best <= training.seen + MinDelta
    BY <1>1, <1>3 DEF IInv, Trained
  <2> QED
    BY <1>2, <2>1
<1>5. TypeOK'
  <2>1. network' \in [Networks -> [run : Nat, miss : Int] \cup {None}]
    BY <1>1, <1>4 DEF IInv, TypeOK
  <2>2. training' \in [epoch : Nat, best : Nat \cup {None}, counter : Nat, seen : Nat \cup {None}]
    BY <1>1 DEF Untrained
  <2>3. at' \in 0..(Len(Files) + 1)
    BY <1>1, FilesShape
  <2> QED
    BY <1>1, <2>1, <2>2, <2>3 DEF IInv, TypeOK
<1>6. Progress' /\ WrittenInOrder'
  <2>1. WrittenInOrder'
    BY <1>1 DEF IInv, WrittenInOrder
  <2>2. /\ \A i \in DOMAIN Files : disk[i].run <= run
        /\ \A i \in DOMAIN Files : i < at => disk[i] = [run |-> run, whole |-> TRUE]
        /\ \A i \in DOMAIN Files : at < i => disk[i].run < run
        /\ run # 0
    <3>1. at # 0
      BY <1>1
    <3> QED
      BY <3>1 DEF IInv, Progress
  <2>3. \A i \in DOMAIN Files : i < at + 1 => i < at \/ i = at
    BY <1>1, FilesShape
  <2>4. \A i \in DOMAIN Files : at + 1 < i => at < i
    BY <1>1, FilesShape
  <2> QED
    BY <1>1, <1>4, <2>1, <2>2, <2>3, <2>4 DEF Progress
<1>7. Copied' /\ TracksAreWhole'
  BY <1>1, FilesShape DEF IInv, Copied, TracksAreWhole, Running
<1>8. Trained'
  BY <1>1 DEF Trained, Untrained
<1>9. NetworksAreBest'
  BY <1>1, <1>4 DEF IInv, TypeOK, NetworksAreBest
<1> QED
  BY <1>5, <1>6, <1>7, <1>8, <1>9 DEF IInv

\* Starting and halting a run, recording and copying keep the invariants.
LEMMA RunnerStep ==
    ASSUME IInv, Start \/ Halt \/ \E r \in Recordings : Record(r) \/ CopyRecording(r)
    PROVE  IInv'
<1>1. CASE Start
  <2>1. /\ run \in Nat /\ run' = run + 1 /\ at' = 1
        /\ UNCHANGED <<found, copies, disk, dataset, kept>> /\ tracks' = {}
        /\ training' = Untrained /\ network' = [n \in Networks |-> None]
    BY <1>1 DEF Start, Forget, IInv, TypeOK
  <2>2. /\ \A n \in Networks : ~ Writing(Checkpoint[n])'
    BY <2>1, FilesShape DEF Writing, Checkpoint, Networks
  <2>3. TypeOK'
    BY <2>1, <2>2, FilesShape DEF IInv, TypeOK, Untrained
  <2>4. Progress' /\ WrittenInOrder'
    BY <2>1, FilesShape DEF IInv, TypeOK, Progress, WrittenInOrder
  <2>5. Copied' /\ TracksAreWhole' /\ NetworksAreBest' /\ Trained'
    BY <2>1, <2>2 DEF IInv, Copied, TracksAreWhole, NetworksAreBest, Trained, Untrained
  <2> QED
    BY <2>3, <2>4, <2>5 DEF IInv
<1>2. CASE Halt
  <2>1. /\ Running /\ at' = 0 /\ UNCHANGED <<found, dataset, run, kept>> /\ tracks' = {}
        /\ training' = Untrained /\ network' = [n \in Networks |-> None]
    BY <1>2 DEF Halt, Forget
  <2>2. /\ \A n \in Networks : ~ Writing(Checkpoint[n])'
        /\ ~ Running'
    BY <2>1, FilesShape DEF Writing, Running
  <2>3. /\ disk' \in [DOMAIN Files -> [run : Nat, whole : BOOLEAN]]
        /\ \A i \in DOMAIN Files : disk'[i].run <= run
        /\ WrittenInOrder'
    <3>1. CASE UNCHANGED disk
      BY <3>1 DEF IInv, TypeOK, Progress, WrittenInOrder
    <3>2. CASE disk' = [disk EXCEPT ![at] = [run |-> run, whole |-> FALSE]]
      <4>1. /\ disk' \in [DOMAIN Files -> [run : Nat, whole : BOOLEAN]]
            /\ disk'[at] = [run |-> run, whole |-> FALSE]
            /\ \A i \in DOMAIN Files : i # at => disk'[i] = disk[i]
            /\ WrittenInOrder'
        BY <2>1, <3>2, WritingKeepsOrder DEF IInv
      <4>2. run \in Nat /\ \A i \in DOMAIN Files : disk[i].run <= run
        BY DEF IInv, TypeOK, Progress
      <4>3. disk'[at].run <= run
        BY <4>1, <4>2
      <4> QED
        BY <4>1, <4>2, <4>3
    <3> QED
      BY <1>2, <3>1, <3>2 DEF Halt
  <2>4. /\ copies' \in [Recordings -> {"absent", "torn", "whole"}]
        /\ \A r \in Recordings : copies'[r] # "absent" => r \in found
    BY <1>2 DEF Halt, IInv, TypeOK, Copied
  <2>5. TypeOK'
    BY <2>1, <2>2, <2>3, <2>4, FilesShape DEF IInv, TypeOK, Untrained
  <2>6. Progress'
    BY <2>1, <2>3, FilesShape DEF Progress
  <2>7. Copied' /\ TracksAreWhole' /\ NetworksAreBest' /\ Trained'
    BY <2>1, <2>2, <2>4 DEF IInv, Copied, TracksAreWhole, NetworksAreBest, Trained, Untrained
  <2> QED
    BY <2>3, <2>5, <2>6, <2>7 DEF IInv
<1>3. ASSUME NEW r \in Recordings, Record(r) PROVE IInv'
  BY <1>3 DEF Record, IInv, TypeOK, Progress, WrittenInOrder, Copied, TracksAreWhole, Trained,
     NetworksAreBest, Running, Writing
<1>4. ASSUME NEW r \in Recordings, CopyRecording(r) PROVE IInv'
  <2>1. /\ copies' = [copies EXCEPT ![r] = "whole"] /\ r \in found
        /\ UNCHANGED <<found, disk, dataset, run, at, tracks, training, kept, network>>
    BY <1>4 DEF CopyRecording
  <2> QED
    BY <2>1 DEF IInv, TypeOK, Progress, WrittenInOrder, Copied, TracksAreWhole, Trained,
       NetworksAreBest, Running, Writing
<1> QED
  BY <1>1, <1>2, <1>3, <1>4

LEMMA NextInvariant == IInv /\ [Next]_vars => IInv'
<1> SUFFICES ASSUME IInv, [Next]_vars PROVE IInv'
  OBVIOUS
<1>1. CASE Producing
  BY <1>1, ProducingStep
<1>2. CASE Start \/ Halt \/ \E r \in Recordings : Record(r) \/ CopyRecording(r)
  BY <1>2, RunnerStep
<1>3. CASE \E m \in Networks, metric \in Metrics : Train(m, metric)
  BY <1>3, TrainStep
<1>4. CASE \E m \in Networks : LoadBest(m)
  BY <1>4, LoadBestStep
<1>5. CASE UNCHANGED vars
  BY <1>5 DEF vars, IInv, TypeOK, Progress, WrittenInOrder, Copied, TracksAreWhole, Trained,
     NetworksAreBest, Running, Writing
<1> QED
  BY <1>1, <1>2, <1>3, <1>4, <1>5
     DEF Next, Producing, TrainSpeed, TrainVibration, TrainMotion, Networks

LEMMA Invariant == Spec => []IInv
BY InitInvariant, NextInvariant, PTL DEF Spec

\* Type correctness, with no training going beyond its epochs.
THEOREM TypeCorrect == Spec => []TypeOK
<1>1. IInv => TypeOK
  BY DEF IInv
<1> QED
  BY <1>1, Invariant, PTL

\* Nothing on the disk is ever older than what was made from it, wherever runs
\* are cut short.
THEOREM Ordered == Spec => []WrittenInOrder
<1>1. IInv => WrittenInOrder
  BY DEF IInv
<1> QED
  BY <1>1, Invariant, PTL

\* What is evaluated, exported and deployed are this run's networks, within
\* MinDelta of their best epoch.
THEOREM BestNetworks == Spec => []NetworksAreBest
<1>1. IInv => NetworksAreBest
  BY DEF IInv
<1> QED
  BY <1>1, Invariant, PTL

\* The dataset holds whole recordings only.
THEOREM WholeTracks == Spec => []TracksAreWhole
<1>1. IInv => TracksAreWhole
  BY DEF IInv
<1> QED
  BY <1>1, Invariant, PTL

-----------------------------------------------------------------------------
(* The splits *)

\* However many tracks there are, four or more: each is in exactly one of the
\* splits, none of which is empty, so nothing tested on was trained or validated
\* on (train_tracks, val_tracks, test_tracks).
THEOREM SplitsPartition ==
    ASSUME NEW S, NEW s \in Seq(S), Len(s) > 3
    PROVE  /\ TrainTracks(s) \o ValidationTracks(s) \o TestTracks(s) = s
           /\ Len(TrainTracks(s)) > 0 /\ Len(ValidationTracks(s)) > 0 /\ Len(TestTracks(s)) > 0
<1> DEFINE n == Len(s)
           k == TrainCount(n)
           v == ValidationCount(n)
<1>1. n \in Nat /\ k \in Nat /\ v \in Nat /\ k > 0 /\ v > 0 /\ k + v < n
  <2> DEFINE a == (70 * n) \div 100
             b == (15 * n) \div 100
  <2>1. n \in Nat /\ n > 3
    OBVIOUS
  <2>2. a \in Int /\ b \in Int /\ 100 * a <= 70 * n /\ 100 * b <= 15 * n
    BY <2>1
  <2>3. k = (IF a < 1 THEN 1 ELSE a) /\ v = (IF b < 1 THEN 1 ELSE b)
    BY DEF TrainCount, ValidationCount, AtLeastOne
  <2> HIDE DEF n, k, v, a, b
  <2> QED
    BY <2>1, <2>2, <2>3
<1> HIDE DEF k, v
<1>2. TrainTracks(s) = SubSeq(s, 1, k)
  BY <1>1 DEF TrainTracks, Slice, k
<1>3. ValidationTracks(s) = SubSeq(s, k + 1, k + v)
  BY <1>1 DEF ValidationTracks, Slice, k, v
<1>4. TestTracks(s) = SubSeq(s, k + v + 1, n)
  BY <1>1 DEF TestTracks, Slice, k, v
<1>5. SubSeq(s, 1, k) \o SubSeq(s, k + 1, k + v) = SubSeq(s, 1, k + v)
  BY <1>1, ConcatAdjacentSubSeq
<1>6. SubSeq(s, 1, k + v) \o SubSeq(s, k + v + 1, n) = SubSeq(s, 1, n)
  <2>1. 1 \in 1..(n + 1) /\ k + v \in (1 - 1)..n /\ n \in (k + v)..n
    BY <1>1
  <2> QED
    BY <2>1, ConcatAdjacentSubSeq
<1>7. SubSeq(s, 1, n) = s
  BY <1>1, SubSeqFull
<1>8. Len(SubSeq(s, 1, k)) = k /\ Len(SubSeq(s, k + 1, k + v)) = v /\ Len(SubSeq(s, k + v + 1, n)) = n - (k + v)
  BY <1>1, SubSeqProperties
<1> QED
  <2>1. TrainTracks(s) \o ValidationTracks(s) \o TestTracks(s) = s
    BY <1>2, <1>3, <1>4, <1>5, <1>6, <1>7
  <2>2. n - (k + v) > 0
    BY <1>1
  <2> HIDE DEF n
  <2> QED
    BY <1>1, <1>2, <1>3, <1>4, <1>8, <2>1, <2>2, Zenon

=============================================================================
