--------------------------- MODULE PhoneNavigation ---------------------------
(***************************************************************************)
(* The two navigation screens of the Flutter application                    *)
(* (dashboard_screen.dart, active_nav_screen.dart): where each takes the     *)
(* position it shows from.  The cached position, the platform's answers to   *)
(* the start-up's questions, the stream of fixes and dead reckoning compete  *)
(* for it, on two screens that may be alive at once and share the stored     *)
(* preferences.  Dart runs one event at a time.  The process starts with      *)
(* whatever an earlier one, ended anywhere, has stored.                      *)
(***************************************************************************)
EXTENDS Naturals, Sequences

CONSTANTS
    Home,         \* the DashboardScreen
    Sessions,     \* the NavigationScreens that may be opened on top of it
    StillSamples, \* how many still samples stop it (3)
    OldFixes,     \* how many fixes there were before this process (bound)
    MaxFixes,     \* how many fixes the platform gets (bound of the checks)
    FixSpeed,     \* the speed of each fix, Absent if it is not positive
    MaxSaves,     \* how many saves may be under way at once (bound of the checks)
    Absent

Screens == {Home} \cup Sessions

\* At most 0.1 m/s, or more: only then does dead reckoning move the position.
Speeds == {"low", "high"}

ASSUME ScreenAssumption ==
    /\ Home \notin Sessions /\ StillSamples \in Nat \ {0}
    /\ MaxFixes \in Nat /\ OldFixes \in 0..MaxFixes /\ MaxSaves \in Nat
    /\ FixSpeed \in [1..MaxFixes -> Speeds \cup {Absent}]
    /\ Absent \notin Nat \cup Speeds
    /\ Absent \notin [lat : Nat \cup {Absent}, lon : Nat \cup {Absent}]

VARIABLES
    fix,      \* the last fix the platform has had, fixes being numbered from 1
    screen,   \* the State object of each screen
    awaiting, \* what awaits SharedPreferences.getInstance, in order
    prefs,    \* the preferences in memory, Absent until they are loaded
    writes,   \* the values sent to the platform and not yet stored, in order
    disk,     \* the stored preferences
    latest,   \* history: the fix last shown by any screen of this process
    strayed,  \* history: the screens that left their fix, see LockedShowsFix
    quiet     \* history: how many still samples in a row each session has had

screenVars == <<fix, screen, awaiting, prefs, writes, disk, latest, strayed, quiet>>

\* Fixes; 0 stands for the position a screen is created with.
Fixes == 0..MaxFixes
Position == [lat : Fixes, lon : Fixes, moved : BOOLEAN]
Of(n) == [lat |-> n, lon |-> n, moved |-> FALSE]

Modes == {"gnssLocked", "gnssDegraded", "deadReckoning"}

\* gps is the place in _initRealGpsLocation and, after it, whether there is a
\* subscription to the stream; seen is the last fix the stream has brought.
Created(mode) ==
    [life |-> "shown", gps |-> "asking", lastPos |-> 0, seen |-> 0,
     tunnel |-> mode = "deadReckoning", canyon |-> mode = "gnssDegraded",
     hasGpsFix |-> FALSE, position |-> Of(0), speed |-> "low", stationaryCounter |-> 0]
Unopened == [Created("gnssLocked") EXCEPT !.life = "unopened", !.gps = "ended"]

\* A process begins with the dashboard, which first asks for the cached position.
Started == [s \in Screens |-> IF s = Home THEN Created("gnssLocked") ELSE Unopened]

\* What is stored is of earlier fixes; the latitude is stored first.
ScreensInit ==
    /\ fix = OldFixes
    /\ disk \in [lat : (1..fix) \cup {Absent}, lon : (1..fix) \cup {Absent}]
    /\ disk.lat = Absent => disk.lon = Absent
    /\ screen = Started
    /\ awaiting = <<[load |-> Home]>> /\ prefs = Absent /\ writes = <<>>
    /\ latest = 0 /\ strayed = {} /\ quiet = [s \in Sessions |-> 0]

Mounted(s) == screen[s].life = "shown"

\* An event is taken when no continuation is ready to run.
Idle == prefs = Absent \/ awaiting = <<>>

-----------------------------------------------------------------------------
(* _loadCachedPosition and _cachePosition *)

\* getInstance has read what is stored.
LoadPreferences ==
    /\ prefs = Absent
    /\ prefs' = disk
    /\ UNCHANGED <<fix, screen, awaiting, writes, disk, latest, strayed, quiet>>

\* Slip: one of the two values is enough.
CachedEither(p) == p.lat # Absent \/ p.lon # Absent

\* There is a cached position.
Cached(p) == p.lat # Absent /\ p.lon # Absent

\* The load of a screen goes on: the cached position replaces the one it shows.
ResumeLoad(s) ==
    /\ prefs # Absent /\ awaiting # <<>>
    /\ Head(awaiting) = [load |-> s]
    /\ awaiting' = Tail(awaiting)
    /\ IF Cached(prefs) /\ Mounted(s)
       THEN /\ screen' = [screen EXCEPT ![s].position =
                             [lat |-> prefs.lat, lon |-> prefs.lon, moved |-> FALSE]]
            /\ strayed' = IF screen[s].hasGpsFix THEN strayed \cup {s} ELSE strayed
       ELSE UNCHANGED <<screen, strayed>>
    /\ UNCHANGED <<fix, prefs, writes, disk, latest, quiet>>

\* Slip: a save is left out while another one is under way.
ResumeSaveAlone(n) ==
    /\ prefs # Absent /\ awaiting # <<>>
    /\ Head(awaiting) = [save |-> n]
    /\ awaiting' = Tail(awaiting)
    /\ IF writes = <<>>
       THEN prefs' = [prefs EXCEPT !.lat = n] /\ writes' = <<[key |-> "lat", value |-> n]>>
       ELSE UNCHANGED <<prefs, writes>>
    /\ UNCHANGED <<fix, screen, disk, latest, strayed, quiet>>

\* A save goes on: setDouble of the latitude is seen in memory at once.
ResumeSave(n) ==
    /\ prefs # Absent /\ awaiting # <<>>
    /\ Head(awaiting) = [save |-> n]
    /\ awaiting' = Tail(awaiting)
    /\ prefs' = [prefs EXCEPT !.lat = n]
    /\ writes' = Append(writes, [key |-> "lat", value |-> n])
    /\ UNCHANGED <<fix, screen, disk, latest, strayed, quiet>>

\* The platform has stored the oldest value; after a latitude, its save sets the
\* longitude.
StoreOldest ==
    /\ Idle
    /\ writes # <<>>
    /\ LET w == Head(writes) IN
       /\ disk' = [disk EXCEPT ![w.key] = w.value]
       /\ IF w.key = "lat"
          THEN /\ prefs' = [prefs EXCEPT !.lon = w.value]
               /\ writes' = Append(Tail(writes), [key |-> "lon", value |-> w.value])
          ELSE prefs' = prefs /\ writes' = Tail(writes)
    /\ UNCHANGED <<fix, screen, awaiting, latest, strayed, quiet>>

-----------------------------------------------------------------------------
(* _initRealGpsLocation *)

\* The platform gets another fix.
NewFix ==
    /\ fix < MaxFixes
    /\ fix' = fix + 1
    /\ UNCHANGED <<screen, awaiting, prefs, writes, disk, latest, strayed, quiet>>

\* How many saves there are that await the preferences or a write.
SavesUnderWay ==
    Len(writes) + Len(SelectSeq(awaiting, LAMBDA a : "save" \in DOMAIN a))

\* A fix is shown, whatever is shown now, and saved; its speed replaces the
\* screen's if it is positive.
Show(s, n, new) ==
    /\ SavesUnderWay < MaxSaves
    /\ screen' = [screen EXCEPT ![s] =
           [new EXCEPT !.position = Of(n), !.hasGpsFix = TRUE,
                       !.speed = IF FixSpeed[n] = Absent THEN @ ELSE FixSpeed[n]]]
    /\ awaiting' = Append(awaiting, [save |-> n])
    /\ latest' = n
    /\ strayed' = strayed \ {s}

Keep(s, new) ==
    /\ screen' = [screen EXCEPT ![s] = new]
    /\ UNCHANGED <<awaiting, latest, strayed>>

\* The permission is there, or has been given; without it, or if the platform
\* throws, nothing more is asked.
Permission(s) ==
    /\ Idle
    /\ screen[s].gps = "asking"
    /\ \E place \in {"last", "ended"} : Keep(s, [screen[s] EXCEPT !.gps = place])
    /\ UNCHANGED <<fix, prefs, writes, disk, quiet>>

\* The platform answers with its last known fix, or has none.
LastKnown(s) ==
    /\ Idle
    /\ screen[s].gps = "last"
    /\ \E n \in {0, fix} :
          LET new == [screen[s] EXCEPT !.gps = "current", !.lastPos = n] IN
          IF n # 0 /\ Mounted(s) THEN Show(s, n, new) ELSE Keep(s, new)
    /\ UNCHANGED <<fix, prefs, writes, disk, quiet>>

\* It answers with the current fix, or fails within the time limit, and the last
\* known one is taken again.  Both are shown in a tunnel test as well.  Then the
\* stream is listened to, even for a screen that was closed meanwhile, unless
\* the location service was disabled at first.
CurrentPosition(s) ==
    /\ Idle
    /\ screen[s].gps = "current"
    /\ \E n \in {screen[s].lastPos, fix}, place \in {"listening", "ended"} :
          LET new == [screen[s] EXCEPT !.gps = place, !.lastPos = 0] IN
          IF n # 0 /\ Mounted(s) THEN Show(s, n, new) ELSE Keep(s, new)
    /\ UNCHANGED <<fix, prefs, writes, disk, quiet>>

\* The stream brings a fix, which is ignored in a tunnel test.
PositionUpdate(s) ==
    /\ Idle
    /\ screen[s].gps = "listening"
    /\ screen[s].seen < fix
    /\ LET new == [screen[s] EXCEPT !.seen = fix] IN
       IF Mounted(s) /\ ~ screen[s].tunnel THEN Show(s, fix, new) ELSE Keep(s, new)
    /\ UNCHANGED <<fix, prefs, writes, disk, quiet>>

-----------------------------------------------------------------------------
(* _startLiveSensors *)

\* Slip: dead reckoning goes on when there are fixes.
OutageAlways(s) == TRUE

\* A tunnel test, or no fix yet.  A fix is never given up.
Outage(s) == screen[s].tunnel \/ ~ screen[s].hasGpsFix

Least(m, n) == IF m < n THEN m ELSE n

\* Slip: movement does not end the count.
CountOn(s, still) ==
    Least(StillSamples, screen[s].stationaryCounter + IF still THEN 1 ELSE 0)

\* Still samples in a row, as far as they matter; samples outside outages are
\* not counted, nor do they end the count.
StillCount(s, still) ==
    IF still THEN Least(StillSamples, screen[s].stationaryCounter + 1) ELSE 0

\* The speeds a sample may leave: a still one stops the screen once there are
\* enough, another accelerates it or lets the speed decay.
SpeedsAfter(s, still) ==
    IF ~ still THEN Speeds
    ELSE IF StillCount(s, still) >= StillSamples THEN {"low"} ELSE {screen[s].speed}

\* A sample of the accelerometer, which both screens get: zero-velocity update
\* and dead reckoning, by the speed that is left.
Sample(still) ==
    LET reckoning == {s \in Screens : Mounted(s) /\ Outage(s)} IN
    /\ Idle
    /\ \E speed \in [reckoning -> Speeds] :
          /\ \A s \in reckoning : speed[s] \in SpeedsAfter(s, still)
          /\ screen' = [s \in Screens |->
                IF s \notin reckoning THEN screen[s]
                ELSE [screen[s] EXCEPT !.stationaryCounter = StillCount(s, still),
                                       !.speed = speed[s],
                                       !.position.moved = @ \/ speed[s] = "high"]]
    /\ strayed' = strayed \cup {s \in reckoning : screen[s].tunnel /\ screen'[s].position.moved}
    /\ quiet' = [s \in Sessions |->
          IF still /\ s \in reckoning THEN Least(StillSamples, quiet[s] + 1) ELSE 0]
    /\ UNCHANGED <<fix, awaiting, prefs, writes, disk, latest>>

-----------------------------------------------------------------------------
(* Buttons, navigation and the process *)

OnTop == \A s \in Sessions : ~ Mounted(s)

\* A NavigationScreen is opened on top of the dashboard.
Open(s, mode, home) ==
    /\ Idle
    /\ OnTop
    /\ screen[s].life = "unopened"
    /\ screen' = [screen EXCEPT ![Home] = home, ![s] = Created(mode)]
    /\ awaiting' = Append(awaiting, [load |-> s])
    /\ UNCHANGED <<fix, prefs, writes, disk, latest, strayed, quiet>>

\* The mode the dashboard shows: "dead reckoning" without a fix, too, so that a
\* screen opened before the first fix is in a tunnel test as long as it lives.
FusionMode(d) ==
    IF d.tunnel THEN "deadReckoning"
    ELSE IF d.canyon THEN "gnssDegraded"
    ELSE IF d.hasGpsFix THEN "gnssLocked" ELSE "deadReckoning"

StartNavigation(s) == Open(s, FusionMode(screen[Home]), screen[Home])

\* The two tests switch the dashboard, where nothing but the other test ends them.
TunnelTest(s) ==
    Open(s, "deadReckoning", [screen[Home] EXCEPT !.tunnel = TRUE, !.canyon = FALSE])
UrbanCanyon(s) ==
    Open(s, "gnssDegraded", [screen[Home] EXCEPT !.tunnel = FALSE, !.canyon = TRUE])

\* dispose: the streams are cancelled; a start-up that is not finished goes on.
Close(s) ==
    /\ Idle
    /\ Mounted(s)
    /\ LET gps == IF screen[s].gps = "listening" THEN "ended" ELSE screen[s].gps IN
       screen' = [screen EXCEPT ![s] = [Unopened EXCEPT !.life = "closed", !.gps = gps,
                                                        !.lastPos = screen[s].lastPos]]
    /\ UNCHANGED <<fix, awaiting, prefs, writes, disk, latest, strayed, quiet>>

ScreensNext ==
    \/ LoadPreferences \/ StoreOldest \/ NewFix
    \/ \E n \in Fixes : ResumeSave(n)
    \/ \E s \in Screens :
          \/ ResumeLoad(s)
          \/ Permission(s) \/ LastKnown(s) \/ CurrentPosition(s) \/ PositionUpdate(s)
    \/ \E still \in BOOLEAN : Sample(still)
    \/ \E s \in Sessions : StartNavigation(s) \/ TunnelTest(s) \/ UrbanCanyon(s) \/ Close(s)

ScreensSpec == ScreensInit /\ [][ScreensNext]_screenVars

-----------------------------------------------------------------------------
(* Properties *)

\* Everything is of its kind; what a screen shows has a latitude and a longitude,
\* though the preferences may hold one without the other.
ScreensTypeOK ==
    /\ fix \in Fixes /\ latest \in Fixes
    /\ screen \in [Screens ->
           [life : {"unopened", "shown", "closed"},
            gps : {"asking", "last", "current", "listening", "ended"},
            lastPos : Fixes, seen : Fixes, tunnel : BOOLEAN, canyon : BOOLEAN,
            hasGpsFix : BOOLEAN, position : Position, speed : Speeds,
            stationaryCounter : 0..StillSamples]]
    /\ awaiting \in Seq([load : Screens] \cup [save : Fixes])
    /\ writes \in Seq([key : {"lat", "lon"}, value : Fixes])
    /\ prefs \in [lat : Fixes \cup {Absent}, lon : Fixes \cup {Absent}] \cup {Absent}
    /\ disk \in [lat : Fixes \cup {Absent}, lon : Fixes \cup {Absent}]
    /\ strayed \subseteq Screens /\ quiet \in [Sessions -> 0..StillSamples]

\* However the saves of two screens overlap, once they are done the preferences
\* hold, in memory and on the disk, the one fix that was shown last ("so the app
\* starts at the user's real location").  While they are not, or if the process
\* ends before, latitude and longitude may be of two fixes.
SavesSettle ==
    awaiting = <<>> /\ writes = <<>> /\ latest # 0 =>
        prefs = [lat |-> latest, lon |-> latest] /\ disk = prefs

\* A screen that claims GNSS (gnssAvailable of its telemetry) shows a fix, with
\* nothing added to it, except in two situations until the next fix: a cached
\* position that was loaded late has replaced it, or a tunnel test was ended.
LockedShowsFix ==
    \A s \in Screens \ strayed :
        screen[s].hasGpsFix /\ ~ screen[s].tunnel =>
            \E n \in Fixes \ {0} : screen[s].position = Of(n)

\* "Device is confirmed stationary": a NavigationScreen in an outage stops at the
\* third of three still samples in a row, before it moves any further, and a still
\* sample stops it in no other case.  (On the dashboard, whose tests come and go,
\* a count of an earlier outage goes on in the next one.)
StopsWhenStationary ==
    [][\A s \in Sessions :
          Outage(s) /\ quiet'[s] \notin {quiet[s], 0} =>
             /\ screen'[s].speed = "low" <=> screen[s].speed = "low" \/ quiet'[s] = StillSamples
             /\ quiet'[s] = StillSamples => screen'[s].position = screen[s].position]_screenVars

=============================================================================
