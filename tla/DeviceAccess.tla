----------------------------- MODULE DeviceAccess -----------------------------
(***************************************************************************)
(* Devices, users and their tokens (backend/app/api/v1/devices.py and        *)
(* auth.py, backend/app/core/security.py, backend/scripts/create_admin.py).  *)
(* A request gives up control at every statement it sends to the database,    *)
(* each in a session of its own.  The session remembers the row it loaded and *)
(* writes, when it commits, only the columns that then differ from it.  The   *)
(* secret is configured and stays the same; a device's hash stands for its    *)
(* raw id.                                                                    *)
(***************************************************************************)
CONSTANTS
    Slots,    \* the requests that may be under way at once
    Devices,  \* the devices, by their raw id
    Names,    \* user names
    Ids,      \* the ids given to rows
    Models,   \* the ids of the models the registry may hold
    None      \* nothing

ASSUME AccessAssumption == None \notin Ids \cup Models \cup BOOLEAN

VARIABLES
    devices,    \* the committed rows of devices
    users,      \* the committed rows of users
    models,     \* whether each model is yet to be registered, registered or deleted
    tokens,     \* the tokens that are valid
    request,    \* what each request under way asks for
    at,         \* where it is in its code
    loaded,     \* the row its session has loaded
    meant,      \* history: what administrators last made of each device
    overlapped  \* history: the devices two updates had in hand at once

vars == <<devices, users, models, tokens, request, at, loaded, meant, overlapped>>

Device == [id : Ids, name : Devices, active : BOOLEAN, pin : Models \cup {None}]
User == [id : Ids, name : Names, active : BOOLEAN, admin : BOOLEAN]

\* A token's subject is the id of a row; "to" is who was given it.
Token == [subject : Ids, to : Devices, identity : {"device"}, type : {"access"}]
             \cup [subject : Ids, to : Names, identity : {"user"}, type : {"access", "refresh"}]

\* An administrator's update; None leaves a column alone.
Change == [active : BOOLEAN \cup {None}, pin : Models \cup {None}]

\* What an administrator has made of a device.
Meaning == [active : BOOLEAN, pin : Models \cup {None}]

\* Nothing is told from a row, from what a request asks for and from a meaning.
ASSUME RowAssumption ==
    None \notin Device \cup User \cup Meaning
                    \cup [device : Devices] \cup [name : Names] \cup [id : Ids, change : Change]

Init ==
    /\ devices = {} /\ users = {} /\ tokens = {}
    /\ models = [m \in Models |-> "unused"]
    /\ request = [q \in Slots |-> None]
    /\ at = [q \in Slots |-> "idle"]
    /\ loaded = [q \in Slots |-> None]
    /\ meant = [id \in Ids |-> None]
    /\ overlapped = {}

Go(q, place) == at' = [at EXCEPT ![q] = place]

Registered == {m \in Models : models[m] = "registered"}

\* A request begins: what it asks for, and the row it has loaded.
Begin(q, asked, row, place) ==
    /\ at[q] = "idle"
    /\ request' = [request EXCEPT ![q] = asked]
    /\ loaded' = [loaded EXCEPT ![q] = row]
    /\ Go(q, place)

\* It ends, answered or failed, and its session is closed.
End(q) ==
    /\ request' = [request EXCEPT ![q] = None]
    /\ loaded' = [loaded EXCEPT ![q] = None]
    /\ Go(q, "idle")

\* scalar_one_or_none of a select.
Find(table, Matches(_)) ==
    IF \E row \in table : Matches(row) THEN CHOOSE row \in table : Matches(row) ELSE None
ByName(table, name) == Find(table, LAMBDA row : row.name = name)
ById(table, id) == Find(table, LAMBDA row : row.id = id)
WithRow(table, row) == {r \in table : r.id # row.id} \cup {row}

FreeIds == Ids \ {row.id : row \in devices \cup users}

\* Slip: neither the hash nor the user name is declared unique.
FreeToAnyone(table, name) == TRUE

\* device_id_hash and username are unique: the name is not taken.
Free(table, name) == ByName(table, name) = None

-----------------------------------------------------------------------------
(* register_device *)

\* A device registers; its row is looked for.
Register(q, d) ==
    /\ Begin(q, [device |-> d], ByName(devices, d), "registering")
    /\ UNCHANGED <<devices, users, models, tokens, meant, overlapped>>

\* Without one a row is inserted, which fails if another request has done so;
\* with one only last_seen_at is written.
RegisterCommits(q) ==
    /\ at[q] = "registering"
    /\ \/ /\ loaded[q] = None /\ Free(devices, request[q].device)
          /\ \E id \in FreeIds :
                LET row == [id |-> id, name |-> request[q].device, active |-> TRUE, pin |-> None] IN
                /\ devices' = devices \cup {row}
                /\ loaded' = [loaded EXCEPT ![q] = row]
                /\ meant' = [meant EXCEPT ![id] = [active |-> TRUE, pin |-> None]]
          /\ Go(q, "registered")
          /\ UNCHANGED request
       \/ /\ loaded[q] = None /\ ~ Free(devices, request[q].device)
          /\ End(q)
          /\ UNCHANGED <<devices, meant>>
       \/ /\ loaded[q] # None
          /\ Go(q, "registered")
          /\ UNCHANGED <<devices, request, loaded, meant>>
    /\ UNCHANGED <<users, models, tokens, overlapped>>

DeviceToken(row) == [subject |-> row.id, to |-> row.name, identity |-> "device", type |-> "access"]

\* Slip: the answer is made of the row as it was loaded.
RegisterAnswersUnread(q) ==
    /\ at[q] = "registered"
    /\ tokens' = IF loaded[q].active THEN tokens \cup {DeviceToken(loaded[q])} ELSE tokens
    /\ End(q)
    /\ UNCHANGED <<devices, users, models, meant, overlapped>>

\* The row is read again; a device that is active gets a token.
RegisterAnswers(q) ==
    /\ at[q] = "registered"
    /\ LET row == ById(devices, loaded[q].id) IN
       tokens' = IF row.active THEN tokens \cup {DeviceToken(row)} ELSE tokens
    /\ End(q)
    /\ UNCHANGED <<devices, users, models, meant, overlapped>>

-----------------------------------------------------------------------------
(* get_current_device, get_current_user, require_admin *)

\* A request that a device makes with its token: the row must exist, be active.
AuthenticateDevice(q, t) ==
    /\ t \in tokens /\ t.type = "access" /\ t.identity = "device"
    /\ LET row == ById(devices, t.subject) IN
       /\ row # None /\ row.active
       /\ Begin(q, None, row, "touching")
    /\ UNCHANGED <<devices, users, models, tokens, meant, overlapped>>

\* Slip: the row is written as it was loaded.
TouchWritesRow(q) ==
    /\ at[q] = "touching"
    /\ devices' = WithRow(devices, loaded[q])
    /\ End(q)
    /\ UNCHANGED <<users, models, tokens, meant, overlapped>>

\* Its commit writes last_seen_at, no other column; what the route then does is
\* another module's.
Touch(q) ==
    /\ at[q] = "touching"
    /\ End(q)
    /\ UNCHANGED <<devices, users, models, tokens, meant, overlapped>>

\* The user of an access token, if there is an active one.
CurrentUser(t) ==
    IF t.type = "access" /\ t.identity = "user"
    THEN Find(users, LAMBDA row : row.id = t.subject /\ row.active) ELSE None

-----------------------------------------------------------------------------
(* update_device *)

\* An administrator asks for a change of a device.
Update(q, t, id, change) ==
    /\ t \in tokens
    /\ CurrentUser(t) # None /\ CurrentUser(t).admin
    /\ Begin(q, [id |-> id, change |-> change], None, "updating")
    /\ UNCHANGED <<devices, users, models, tokens, meant, overlapped>>

Updating(q, id) == at[q] \in {"checking", "changing"} /\ request[q].id = id

\* The device is loaded, or is not found.
LoadDevice(q) ==
    /\ at[q] = "updating"
    /\ LET id == request[q].id
           row == ById(devices, id) IN
       \/ /\ row = None
          /\ End(q)
          /\ UNCHANGED overlapped
       \/ /\ row # None
          /\ loaded' = [loaded EXCEPT ![q] = row]
          /\ Go(q, IF request[q].change.pin # None THEN "checking" ELSE "changing")
          /\ overlapped' = IF \E p \in Slots \ {q} : Updating(p, id)
                           THEN overlapped \cup {id} ELSE overlapped
          /\ UNCHANGED request
    /\ UNCHANGED <<devices, users, models, tokens, meant>>

\* The model to be pinned must be registered.
CheckModel(q) ==
    /\ at[q] = "checking"
    /\ IF request[q].change.pin \in Registered
       THEN Go(q, "changing") /\ UNCHANGED <<request, loaded>>
       ELSE End(q)
    /\ UNCHANGED <<devices, users, models, tokens, meant, overlapped>>

Or(value, otherwise) == IF value # None THEN value ELSE otherwise

\* Slip: a column the change leaves out is set to None.
AskedOfAll(row, change) == [row EXCEPT !.active = change.active, !.pin = change.pin]

\* The loaded row with the change applied.
Asked(row, change) ==
    [row EXCEPT !.active = Or(change.active, row.active), !.pin = Or(change.pin, row.pin)]

\* The committed row after the columns that differ from the loaded one are written.
Changed(row, was, asked) ==
    [row EXCEPT !.active = IF asked.active # was.active THEN asked.active ELSE row.active,
                !.pin = IF asked.pin # was.pin THEN asked.pin ELSE row.pin]

\* The foreign key of a pin that is written.
PinHolds(row) == row.pin = None \/ row.pin \in Registered

\* The change is committed, or its foreign key fails it.
UpdateCommits(q) ==
    /\ at[q] = "changing"
    /\ LET row == ById(devices, request[q].id)
           change == request[q].change
           new == Changed(row, loaded[q], Asked(loaded[q], change)) IN
       IF new.pin = row.pin \/ PinHolds(new)
       THEN /\ devices' = WithRow(devices, new)
            /\ meant' = [meant EXCEPT ![row.id] =
                   [active |-> Or(change.active, @.active),
                    pin |-> IF change.pin = None THEN @.pin
                            ELSE IF change.pin \in Registered THEN change.pin ELSE None]]
       ELSE UNCHANGED <<devices, meant>>
    /\ End(q)
    /\ UNCHANGED <<users, models, tokens, overlapped>>

-----------------------------------------------------------------------------
(* login, refresh_token; create_admin.py *)

AccessToken(row) == [subject |-> row.id, to |-> row.name, identity |-> "user", type |-> "access"]
RefreshToken(row) == [AccessToken(row) EXCEPT !.type = "refresh"]

\* A user logs in with the right password.
Login(q, name) ==
    /\ LET row == ByName(users, name) IN
       /\ row # None /\ row.active
       /\ Begin(q, None, row, "logging in")
    /\ UNCHANGED <<devices, users, models, tokens, meant, overlapped>>

\* Once last_login_at is committed, the tokens are made of the row as loaded.
LoginAnswers(q) ==
    /\ at[q] = "logging in"
    /\ tokens' = tokens \cup {AccessToken(loaded[q]), RefreshToken(loaded[q])}
    /\ End(q)
    /\ UNCHANGED <<devices, users, models, meant, overlapped>>

\* A refresh token of an active user gives another access token.
Refresh(t) ==
    /\ t \in tokens /\ t.type = "refresh" /\ t.identity = "user"
    /\ LET row == ById(users, t.subject) IN
       /\ row # None /\ row.active
       /\ tokens' = tokens \cup {AccessToken(row)}
    /\ UNCHANGED <<devices, users, models, request, at, loaded, meant, overlapped>>

\* The bootstrap of an administrator whose name is not taken.
CreateAdmin(q, name) ==
    /\ ByName(users, name) = None
    /\ Begin(q, [name |-> name], None, "creating")
    /\ UNCHANGED <<devices, users, models, tokens, meant, overlapped>>

CreateAdminCommits(q) ==
    /\ at[q] = "creating"
    /\ IF Free(users, request[q].name)
       THEN \E id \in FreeIds :
               users' = users \cup {[id |-> id, name |-> request[q].name,
                                     active |-> TRUE, admin |-> TRUE]}
       ELSE UNCHANGED users
    /\ End(q)
    /\ UNCHANGED <<devices, models, tokens, meant, overlapped>>

-----------------------------------------------------------------------------
(* What happens around them *)

\* Users are changed in the database itself; no route does.
ChangeUser(row) ==
    /\ \/ users' = WithRow(users, [row EXCEPT !.active = ~ @])
       \/ users' = WithRow(users, [row EXCEPT !.admin = ~ @])
    /\ UNCHANGED <<devices, models, tokens, request, at, loaded, meant, overlapped>>

\* The registry registers a model; its id is new.
AddModel(m) ==
    /\ models[m] = "unused"
    /\ models' = [models EXCEPT ![m] = "registered"]
    /\ UNCHANGED <<devices, users, tokens, request, at, loaded, meant, overlapped>>

\* The registry deletes one: ON DELETE SET NULL unpins it.
DeleteModel(m) ==
    LET Unpinned(row) == [row EXCEPT !.pin = IF @ = m THEN None ELSE @] IN
    /\ m \in Registered
    /\ models' = [models EXCEPT ![m] = "deleted"]
    /\ devices' = {Unpinned(row) : row \in devices}
    /\ meant' = [id \in Ids |-> IF meant[id] = None THEN None ELSE Unpinned(meant[id])]
    /\ UNCHANGED <<users, tokens, request, at, loaded, overlapped>>

Expire(t) ==
    /\ tokens' = tokens \ {t}
    /\ UNCHANGED <<devices, users, models, request, at, loaded, meant, overlapped>>

\* A request fails: its process, its connection or the database.
Abandon(q) ==
    /\ at[q] # "idle"
    /\ End(q)
    /\ UNCHANGED <<devices, users, models, tokens, meant, overlapped>>

Next ==
    \/ \E q \in Slots :
          \/ \E d \in Devices : Register(q, d)
          \/ RegisterCommits(q) \/ RegisterAnswers(q)
          \/ \E t \in tokens : AuthenticateDevice(q, t)
          \/ Touch(q)
          \/ \E t \in tokens, id \in Ids, change \in Change : Update(q, t, id, change)
          \/ LoadDevice(q) \/ CheckModel(q) \/ UpdateCommits(q)
          \/ \E name \in Names : Login(q, name) \/ CreateAdmin(q, name)
          \/ LoginAnswers(q) \/ CreateAdminCommits(q) \/ Abandon(q)
    \/ \E t \in tokens : Refresh(t) \/ Expire(t)
    \/ \E row \in users : ChangeUser(row)
    \/ \E m \in Models : AddModel(m) \/ DeleteModel(m)

Spec == Init /\ [][Next]_vars

-----------------------------------------------------------------------------
(* Properties *)

\* Everything is of its kind.
TypeOK ==
    /\ devices \subseteq Device /\ users \subseteq User
    /\ models \in [Models -> {"unused", "registered", "deleted"}] /\ tokens \subseteq Token
    /\ \A q \in Slots : at[q] = "idle" <=> request[q] = None /\ loaded[q] = None
    /\ loaded \in [Slots -> Device \cup User \cup {None}]
    /\ meant \in [Ids -> Meaning \cup {None}]
    /\ overlapped \subseteq Ids

NamesAreUnique ==
    \A table \in {devices, users} : \A r, s \in table : r.name = s.name \/ r.id = s.id => r = s

TokensNameRows ==
    \A t \in tokens :
        LET row == ById(IF t.identity = "device" THEN devices ELSE users, t.subject) IN
        row # None /\ row.name = t.to

PinsExist == \A row \in devices : row.pin \in Registered \cup {None}

\* However registrations, bootstraps, updates and deletions of models overlap:
\* a device and a user name have one row each, whoever holds a token holds one
\* of its own row, and a device is pinned to a registered model or to none (the
\* checks made before the commits, and the unique columns and the foreign key
\* with ON DELETE SET NULL behind them).
ReferencesHold == NamesAreUnique /\ TokensNameRows /\ PinsExist

\* A device gets no token once it is deactivated, though it was active when its
\* registration began (the refresh before is_active is tested).
DeactivatedGetNoToken ==
    [][\A t \in tokens' \ tokens : t.identity = "device" => ById(devices, t.subject).active]_vars

\* What an administrator has made of a device stays until another update or the
\* deletion of the model changes it: neither the device's own requests nor its
\* registrations undo it, whatever they had loaded before.  Updates that overlap
\* may mix (update_device writes the columns that differ from what it loaded).
UpdatesStay ==
    \A row \in devices :
        row.id \notin overlapped => [active |-> row.active, pin |-> row.pin] = meant[row.id]

=============================================================================
