-------------------------- MODULE MCTrainingPipeline --------------------------
(* A small instance of the training pipeline. *)
EXTENDS TrainingPipeline, TLC
CONSTANTS a, b
SomeRows == (a :> 1200) @@ (b :> 600)
FewEpochs == [speed |-> 3, vibration |-> 2, motion |-> 1]
ShortPatience == [speed |-> 2, vibration |-> 1, motion |-> 1]

\* For every number of tracks there can be, the splits take each track once, and
\* with four or more the test set is neither trained nor validated on.
ASSUME SplitAssumption ==
    \A n \in 1..30 :
        LET s == [i \in 1..n |-> i] IN
        /\ TrainTracks(s) # <<>>
        /\ n > 3 => TrainTracks(s) \o ValidationTracks(s) \o TestTracks(s) = s
        /\ n \in 2..3 => TestTracks(s) = ValidationTracks(s)
=============================================================================
