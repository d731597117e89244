--------------------------- MODULE TrainingPipeline ---------------------------
(***************************************************************************)
(* The pipeline that trains the navigation networks and deploys them to the *)
(* applications: the cells of ml/notebooks/                                 *)
(* sih_ai_dead_reckoning_master_pipeline.ipynb, executed one after the       *)
(* other by ml/run_pipeline_script_mode.py.  Every cell writes its files in  *)
(* place; a run may end anywhere, by an exception or with the process, and   *)
(* leave the file it was writing cut short.  Later runs find what it left.   *)
(***************************************************************************)
EXTENDS Integers, Sequences, FiniteSets, FiniteSetsExt

CONSTANTS
    Recordings,  \* the smartphone recordings (S-*.csv)
    Rows,        \* how many rows a recording gives at 10 Hz, 0 if it is unusable
    MinRows,     \* how many rows the integrity gate asks for
    Epochs,      \* of each network: the most epochs it is trained for
    Patience,    \* of each network: epochs without improvement that stop it
    MinDelta,    \* what counts as an improvement
    Metrics,     \* the validation metrics an epoch may reach, lower is better
    MaxRuns,     \* how many runs are made (bound of the checks)
    None         \* no metric, no network

Networks == {"speed", "vibration", "motion"}

ASSUME PipelineAssumption ==
    /\ IsFiniteSet(Recordings) /\ Rows \in [Recordings -> Nat] /\ MinRows \in Nat
    /\ Epochs \in [Networks -> Nat \ {0}] /\ Patience \in [Networks -> Nat \ {0}]
    /\ MinDelta \in Nat /\ Metrics \subseteq Nat /\ MaxRuns \in Nat /\ None \notin Nat

-----------------------------------------------------------------------------
(* The files of a run, in the order it writes them.  The first entry stands
   for the copies of the recordings, the last ones for the asset directories
   of the mobile application and of the frontend. *)

Checkpoint == [speed |-> "speed_checkpoint", vibration |-> "vibration_checkpoint",
               motion |-> "motion_checkpoint"]
Exported == {"speed_onnx", "vibration_onnx", "motion_onnx"}
Packaged == {"speed_tflite", "vibration_tflite", "motion_tflite"}

Made ==
    <<"recordings", "jitter_plot", "dataset", "splits", "baseline_metrics", "windows", "scaler",
      "speed_checkpoint", "speed_metrics", "vibration_checkpoint", "vibration_metrics",
      "motion_checkpoint", "motion_metrics", "outage_metrics", "anomaly_checkpoint",
      "anomaly_metrics", "failover_plot", "speed_onnx", "vibration_onnx", "motion_onnx",
      "speed_tflite", "vibration_tflite", "motion_tflite", "benchmarks">>

Assets ==
    <<"speed_tflite", "vibration_tflite", "motion_tflite", "speed_onnx", "vibration_onnx",
      "motion_onnx", "metadata">>
Files == Made \o Assets \o Assets
Dataset == 3

VARIABLES
    found,     \* the recordings in the raw repository
    copies,    \* what there is of each of them in smartphone_recorded/
    disk,      \* of each file, the run that last wrote it and whether to its end
    dataset,   \* the tracks in the cleaned dataset
    run,       \* how many runs were started
    at,        \* the file the run has come to; 0 when none is under way
    tracks,    \* df_all: the tracks in memory
    training,  \* EarlyStopping of the network in training, and the best metric seen
    kept,      \* of each network, the metric of the weights in its checkpoint
    network    \* the trained networks in memory: the run their weights are of, and
               \* by how much their metric misses the best one of that training

vars == <<found, copies, disk, dataset, run, at, tracks, training, kept, network>>

Track == [recording : Recordings, whole : BOOLEAN]
Untrained == [epoch |-> 0, best |-> None, counter |-> 0, seen |-> None]

Init ==
    /\ found = {}
    /\ copies = [r \in Recordings |-> "absent"]
    /\ disk = [i \in DOMAIN Files |-> [run |-> 0, whole |-> FALSE]]
    /\ dataset = {}
    /\ run = 0 /\ at = 0
    /\ tracks = {} /\ training = Untrained
    /\ kept = [m \in Networks |-> None]
    /\ network = [m \in Networks |-> None]

Running == at \in DOMAIN Files
Writing(file) == at \in DOMAIN Made /\ Files[at] = file

\* The file is written to its end and the run goes on to the next one.
Write ==
    /\ disk' = [disk EXCEPT ![at] = [run |-> run, whole |-> TRUE]]
    /\ at' = at + 1

\* What the process holds in memory is gone.
Forget ==
    /\ tracks' = {} /\ training' = Untrained
    /\ network' = [m \in Networks |-> None]

-----------------------------------------------------------------------------
(* run_pipeline_script_mode.py *)

\* A recording is added to the raw repository, between two runs.
Record(r) ==
    /\ ~ Running
    /\ r \notin found
    /\ found' = found \cup {r}
    /\ UNCHANGED <<copies, disk, dataset, run, at, tracks, training, kept, network>>

\* A run starts in a process of its own.
Start ==
    /\ ~ Running
    /\ run < MaxRuns
    /\ run' = run + 1 /\ at' = 1
    /\ Forget
    /\ UNCHANGED <<found, copies, disk, dataset, kept>>

\* Slip: the runner goes on with the next cell.
HaltGoesOn ==
    /\ Running
    /\ at' = at + 1
    /\ UNCHANGED <<found, copies, disk, dataset, run, tracks, training, kept, network>>

\* The run halts: a cell raises, which ends the runner, or the process dies.
\* What was being written is cut short.
Halt ==
    /\ Running
    /\ at' = 0
    /\ Forget
    /\ \/ UNCHANGED <<copies, disk>>
       \/ /\ at = 1
          /\ \E r \in found : copies[r] # "whole" /\ copies' = [copies EXCEPT ![r] = "torn"]
          /\ UNCHANGED disk
       \/ /\ at > 1
          /\ disk' = [disk EXCEPT ![at] = [run |-> run, whole |-> FALSE]]
          /\ UNCHANGED copies
    /\ UNCHANGED <<found, dataset, run, kept>>

-----------------------------------------------------------------------------
(* Cells 3 to 5: from the recordings to the cleaned dataset *)

\* Slip: what exists is not compared with the original.
StaleIfMissing(r) == copies[r] = "absent"

\* A copy is made again when it is missing or of another size.
Stale(r) == copies[r] # "whole"

CopyRecording(r) ==
    /\ Writing("recordings")
    /\ r \in found /\ Stale(r)
    /\ copies' = [copies EXCEPT ![r] = "whole"]
    /\ UNCHANGED <<found, disk, dataset, run, at, tracks, training, kept, network>>

\* With all copies in place the first one is inspected; there must be one.
InspectRecordings ==
    /\ Writing("recordings")
    /\ \A r \in found : ~ Stale(r)
    /\ \E r \in Recordings : copies[r] # "absent"
    /\ Write
    /\ UNCHANGED <<found, copies, dataset, run, tracks, training, kept, network>>

\* A cleaned dataset of an earlier run is taken as it is, whatever was recorded
\* since and whatever --force-reprocess says; one cut short cannot be read.
LoadDataset ==
    /\ Writing("jitter_plot")
    /\ disk[Dataset].run # 0
    /\ disk[Dataset].whole
    /\ tracks' = dataset
    /\ Write
    /\ UNCHANGED <<found, copies, dataset, run, training, kept, network>>

\* Without one the copies are resampled; unusable ones are passed over, and at
\* least one track must be left.
ProcessRecordings ==
    /\ Writing("jitter_plot")
    /\ disk[Dataset].run = 0
    /\ tracks' = {[recording |-> r, whole |-> copies[r] = "whole"] :
                     r \in {s \in Recordings : copies[s] # "absent" /\ Rows[s] > 0}}
    /\ tracks' # {}
    /\ Write
    /\ UNCHANGED <<found, copies, dataset, run, training, kept, network>>

\* The tracks are filtered (once more, if they were loaded), pass the integrity
\* gate and are stored.
CleanDataset ==
    /\ Writing("dataset")
    /\ MapThenSumSet(LAMBDA t : Rows[t.recording], tracks) >= MinRows
    /\ dataset' = tracks
    /\ Write
    /\ UNCHANGED <<found, copies, run, tracks, training, kept, network>>

-----------------------------------------------------------------------------
(* Cells 6 to 10: splits, baseline and scaler *)

AtLeastOne(n) == IF n < 1 THEN 1 ELSE n

\* int(0.70 * n) and int(0.15 * n); in doubles the first is one less for some
\* multiples of ten, from 90 on.
TrainCount(n) == AtLeastOne((70 * n) \div 100)
ValidationCount(n) == AtLeastOne((15 * n) \div 100)

\* s[from:to] of Python.
Slice(s, from, to) == SubSeq(s, from + 1, IF to < Len(s) THEN to ELSE Len(s))

TrainTracks(s) == Slice(s, 0, TrainCount(Len(s)))
ValidationTracks(s) == Slice(s, TrainCount(Len(s)), TrainCount(Len(s)) + ValidationCount(Len(s)))

\* What remains is the test set; if nothing does, the validation set is.
TestTracks(s) ==
    IF TrainCount(Len(s)) + ValidationCount(Len(s)) < Len(s)
    THEN Slice(s, TrainCount(Len(s)) + ValidationCount(Len(s)), Len(s))
    ELSE ValidationTracks(s)

\* unique_tracks, shuffled with the same seed in every run.
Shuffled(set) == CHOOSE s \in [1..Cardinality(set) -> set] : {s[i] : i \in DOMAIN s} = set

\* A cell that writes one file from what is in memory.
Produce(file) ==
    /\ Writing(file)
    /\ Write
    /\ UNCHANGED <<found, copies, dataset, run, tracks, training, kept, network>>

SplitTracks == Produce("splits")

\* The first test track is the sample of all benchmarks.
ComputeBaseline == TestTracks(Shuffled(tracks)) # <<>> /\ Produce("baseline_metrics")

FitScaler == Produce("windows") \/ Produce("scaler")

-----------------------------------------------------------------------------
(* Cells 11 to 19: training *)

\* EarlyStopping.step: whether a metric improves on the best one.
Improves(metric) == training.best = None \/ metric < training.best - MinDelta

Least(metric) == IF training.seen = None \/ metric < training.seen THEN metric ELSE training.seen

\* Slip: only should_stop ends the loop.
EndedByPatience(m) == training.counter >= Patience[m]

\* should_stop, or no epochs left.
Ended(m) == training.counter >= Patience[m] \/ training.epoch >= Epochs[m]

\* Slip: the checkpoint is saved after every epoch.
TrainSavingAlways(m, metric) ==
    /\ Writing(Checkpoint[m])
    /\ ~ Ended(m)
    /\ training' = [epoch |-> training.epoch + 1, seen |-> Least(metric),
                    best |-> IF Improves(metric) THEN metric ELSE training.best,
                    counter |-> IF Improves(metric) THEN 0 ELSE training.counter + 1]
    /\ kept' = [kept EXCEPT ![m] = metric]
    /\ disk' = [disk EXCEPT ![at] = [run |-> run, whole |-> TRUE]]
    /\ UNCHANGED <<found, copies, dataset, run, at, tracks, network>>

\* One epoch and its validation; an improvement is saved.
Train(m, metric) ==
    /\ Writing(Checkpoint[m])
    /\ ~ Ended(m)
    /\ training' = [epoch |-> training.epoch + 1, seen |-> Least(metric),
                    best |-> IF Improves(metric) THEN metric ELSE training.best,
                    counter |-> IF Improves(metric) THEN 0 ELSE training.counter + 1]
    /\ IF Improves(metric)
       THEN /\ kept' = [kept EXCEPT ![m] = metric]
            /\ disk' = [disk EXCEPT ![at] = [run |-> run, whole |-> TRUE]]
       ELSE UNCHANGED <<kept, disk>>
    /\ UNCHANGED <<found, copies, dataset, run, at, tracks, network>>

TrainSpeed(metric) == Train("speed", metric)
TrainVibration(metric) == Train("vibration", metric)
TrainMotion(metric) == Train("motion", metric)

\* After its last epoch the network goes back to the weights in its checkpoint.
LoadBest(m) ==
    /\ Writing(Checkpoint[m])
    /\ Ended(m)
    /\ disk[at].run # 0 /\ disk[at].whole
    /\ network' = [network EXCEPT ![m] = [run |-> disk[at].run, miss |-> kept[m] - training.seen]]
    /\ training' = Untrained
    /\ at' = at + 1
    /\ UNCHANGED <<found, copies, disk, dataset, run, tracks, kept>>

EvaluateSpeed == Produce("speed_metrics")
EvaluateVibration == Produce("vibration_metrics")

\* Its R2 is that of the last epoch's outputs, not of the weights just loaded.
CalibrateMotion == Produce("motion_metrics")

-----------------------------------------------------------------------------
(* Cells 20 to 28: benchmarks, export and deployment *)

BenchmarkOutages == Produce("outage_metrics")
SaveAnomalyDetector == Produce("anomaly_checkpoint") \/ Produce("anomaly_metrics")
DemonstrateFailover == Produce("failover_plot")
ExportOnnx == \E file \in Exported : Produce(file)
PackageTflite == \E file \in Packaged : Produce(file)
MeasureLatency == Produce("benchmarks")

\* The models are copied and then their metadata is written, first for the
\* mobile application, then for the frontend.
Deploy ==
    /\ at > Len(Made) /\ Running
    /\ Write
    /\ UNCHANGED <<found, copies, dataset, run, tracks, training, kept, network>>

-----------------------------------------------------------------------------
Next ==
    \/ \E r \in Recordings : Record(r) \/ CopyRecording(r)
    \/ Start \/ Halt
    \/ InspectRecordings \/ LoadDataset \/ ProcessRecordings \/ CleanDataset
    \/ SplitTracks \/ ComputeBaseline \/ FitScaler
    \/ \E metric \in Metrics : TrainSpeed(metric) \/ TrainVibration(metric) \/ TrainMotion(metric)
    \/ \E m \in Networks : LoadBest(m)
    \/ EvaluateSpeed \/ EvaluateVibration \/ CalibrateMotion
    \/ BenchmarkOutages \/ SaveAnomalyDetector \/ DemonstrateFailover
    \/ ExportOnnx \/ PackageTflite \/ MeasureLatency \/ Deploy

Spec == Init /\ [][Next]_vars

-----------------------------------------------------------------------------
(* Properties *)

\* Everything is of its kind, and no training outlasts its epochs.
TypeOK ==
    /\ found \subseteq Recordings
    /\ copies \in [Recordings -> {"absent", "torn", "whole"}]
    /\ disk \in [DOMAIN Files -> [run : Nat, whole : BOOLEAN]]
    /\ dataset \subseteq Track /\ tracks \subseteq Track
    /\ run \in Nat /\ at \in 0..(Len(Files) + 1)
    /\ training \in [epoch : Nat, best : Nat \cup {None}, counter : Nat, seen : Nat \cup {None}]
    /\ \A m \in Networks : Writing(Checkpoint[m]) => training.epoch <= Epochs[m]
    /\ kept \in [Networks -> Nat \cup {None}]
    /\ network \in [Networks -> [run : Nat, miss : Int] \cup {None}]

\* Whatever runs are cut short and wherever, nothing on the disk is older than
\* what was made from it: a file a run wrote comes after whole files of that run
\* or of later ones.  The metadata in an asset directory therefore never
\* describes models of an earlier run (meta_deploy is written last).
WrittenInOrder ==
    \A i, j \in DOMAIN Files :
        i < j => /\ disk[j].run <= disk[i].run
                 /\ disk[j].run = disk[i].run /\ disk[i].run # 0 => disk[i].whole

\* The networks that are evaluated, exported and deployed are of this run, and
\* within MinDelta of the best validation metric of their training
\* (EarlyStopping and the checkpoint saved when it says so).
NetworksAreBest ==
    \A m \in Networks :
        network[m] # None => network[m].run = run /\ network[m].miss <= MinDelta

\* The dataset is made of whole recordings, though copying them may have been
\* cut short any number of times before (the comparison of sizes).
TracksAreWhole == \A t \in dataset \cup tracks : t.whole

=============================================================================
