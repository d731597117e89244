----------------------------- MODULE MCImuPipeline -----------------------------
(* A small instance of the engine for its IMU samples: one kind of fix. *)
EXTENDS NavigationEngine

OneKind == {[satellites |-> 5, hdop |-> 4, speed |-> "fast", bearing |-> TRUE]}
=============================================================================
