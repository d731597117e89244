-------------------------- MODULE MCPhoneNavigation --------------------------
(* A small instance of the navigation screens. *)
EXTENDS PhoneNavigation

\* An old fix from standing, a new one from driving.
SomeSpeeds == <<Absent, "high">>
=============================================================================
