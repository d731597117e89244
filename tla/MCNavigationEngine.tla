-------------------------- MODULE MCNavigationEngine --------------------------
(* Fixes for small instances of the navigation engine. *)
EXTENDS NavigationEngine

Moving == [satellites |-> 5, hdop |-> 4, speed |-> "fast", bearing |-> TRUE]
Standing == [Moving EXCEPT !.speed = "slow"]
FewSatellites == [Moving EXCEPT !.satellites = 4]
PoorGeometry == [Moving EXCEPT !.hdop = 5]
PositionOnly == [Moving EXCEPT !.speed = "none", !.bearing = FALSE]

AllKinds == {Moving, Standing, FewSatellites, PoorGeometry, PositionOnly}
Ahead == {-1, 0, 2}
=============================================================================
