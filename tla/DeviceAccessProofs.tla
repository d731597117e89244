------------------------- MODULE DeviceAccessProofs -------------------------
(***************************************************************************)
(* What holds of devices, users and tokens for any number of requests that  *)
(* overlap at their statements, and for any number of rows and models: what *)
(* refers to a row or a model refers to one that is there, and a finished   *)
(* update stays.                                                            *)
(***************************************************************************)
EXTENDS DeviceAccess, TLAPS

\* Where a request may be, and where an update has its row in hand.
Places == {"idle", "registering", "registered", "touching", "updating", "checking",
           "changing", "logging in", "creating"}
InHand == {"checking", "changing"}

Request == [device : Devices] \cup [name : Names] \cup [id : Ids, change : Change]

\* A row of a table is, or once was, this one.
Known(table, row) == \E r \in table : r.id = row.id /\ r.name = row.name

\* What a request asks for and has loaded agrees with its place.
Fits(place, asked, row, ds, us) ==
    /\ place = "idle" <=> asked = None /\ row = None
    /\ place = "registering" => asked \in [device : Devices]
    /\ place = "creating" => asked \in [name : Names]
    /\ place \in InHand \cup {"updating"} => asked \in [id : Ids, change : Change]
    /\ place \in InHand \cup {"registered"} \/ (place = "registering" /\ row # None) =>
          row \in Device /\ Known(ds, row)
    /\ place \in InHand => row.id = asked.id
    /\ place = "logging in" => row \in User /\ Known(us, row)

SlotsOK ==
    /\ at \in [Slots -> Places]
    /\ request \in [Slots -> Request \cup {None}]
    /\ loaded \in [Slots -> Device \cup User \cup {None}]
    /\ \A q \in Slots : Fits(at[q], request[q], loaded[q], devices, users)

UniqueIn(table) == \A r, s \in table : r.name = s.name \/ r.id = s.id => r = s

TokensHaveRows ==
    \A t \in tokens :
        \E r \in IF t.identity = "device" THEN devices ELSE users :
            r.id = t.subject /\ r.name = t.to

TablesOK ==
    /\ devices \subseteq Device /\ users \subseteq User
    /\ UniqueIn(devices) /\ UniqueIn(users)
    /\ models \in [Models -> {"unused", "registered", "deleted"}]
    /\ tokens \subseteq Token /\ TokensHaveRows
    /\ PinsExist
    /\ meant \in [Ids -> Meaning \cup {None}]
    /\ \A row \in devices : meant[row.id] \in Meaning
    /\ overlapped \subseteq Ids

\* The row an update has loaded is still the committed one, but for a pin whose
\* model was deleted.
StillLoaded(q) ==
    \A row \in devices : row.id = request[q].id =>
        /\ loaded[q].active = row.active
        /\ \/ loaded[q].pin = row.pin
           \/ /\ loaded[q].pin \in Models /\ models[loaded[q].pin] = "deleted"
              /\ row.pin = None

\* An update that never overlapped another is alone, and nothing has disturbed it.
Undisturbed ==
    \A q \in Slots : at[q] \in InHand /\ request[q].id \notin overlapped =>
        /\ \A p \in Slots \ {q} : ~ Updating(p, request[q].id)
        /\ StillLoaded(q)

Inv ==
    /\ SlotsOK
    /\ TablesOK
    /\ Undisturbed
    /\ UpdatesStay

-----------------------------------------------------------------------------
(* Lookups *)

\* scalar_one_or_none gives the one row that matches, or None.
LEMMA Lookup ==
    ASSUME NEW table, None \notin table
    PROVE  /\ \A id : ById(table, id) # None =>
                 ById(table, id) \in table /\ ById(table, id).id = id
           /\ \A name : ByName(table, name) # None =>
                 ByName(table, name) \in table /\ ByName(table, name).name = name
           /\ \A row \in table : ById(table, row.id) # None
           /\ \A row \in table : ByName(table, row.name) # None
           /\ UniqueIn(table) => \A row \in table : ById(table, row.id) = row
<1>1. \A id : (\E row \in table : row.id = id) =>
                 ById(table, id) \in table /\ ById(table, id).id = id
  BY DEF ById, Find
<1>2. \A id : ~ (\E row \in table : row.id = id) => ById(table, id) = None
  BY DEF ById, Find
<1>3. \A name : (\E row \in table : row.name = name) =>
                   ByName(table, name) \in table /\ ByName(table, name).name = name
  BY DEF ByName, Find
<1>4. \A name : ~ (\E row \in table : row.name = name) => ByName(table, name) = None
  BY DEF ByName, Find
<1>5. QED
  BY <1>1, <1>2, <1>3, <1>4 DEF UniqueIn

\* No row and no request is None.
LEMMA NotNone ==
    /\ None \notin Device /\ None \notin User /\ None \notin Request /\ None \notin Meaning
    /\ None \notin Ids /\ None \notin Models /\ None \notin BOOLEAN
  BY AccessAssumption, RowAssumption DEF Request

\* A table stays unique when a row is replaced by one with its id and name; all
\* that was known still is.
LEMMA TableReplace ==
    ASSUME NEW table, UniqueIn(table), NEW old \in table, NEW new,
           new.id = old.id, new.name = old.name
    PROVE  /\ UniqueIn(WithRow(table, new))
           /\ \A row : Known(table, row) => Known(WithRow(table, new), row)
           /\ \A row \in WithRow(table, new) : row = new \/ (row \in table /\ row.id # old.id)
  BY DEF UniqueIn, WithRow, Known

\* A table stays unique when a row with a new id and a new name is added.
LEMMA TableAdd ==
    ASSUME NEW table, None \notin table, UniqueIn(table), NEW new, Free(table, new.name),
           \A row \in table : row.id # new.id
    PROVE  /\ UniqueIn(table \cup {new})
           /\ \A row : Known(table, row) => Known(table \cup {new}, row)
<1>1. \A row \in table : row.name # new.name
  BY Lookup DEF Free
<1>2. QED
  BY <1>1 DEF UniqueIn, Known

-----------------------------------------------------------------------------
(* The requests *)

\* One request changes, and no row is lost.
LEMMA SlotsStep ==
    ASSUME SlotsOK, NEW q \in Slots, NEW place \in Places, NEW asked \in Request \cup {None},
           NEW row \in Device \cup User \cup {None},
           at' = [at EXCEPT ![q] = place],
           request' = [request EXCEPT ![q] = asked],
           loaded' = [loaded EXCEPT ![q] = row],
           Fits(place, asked, row, devices', users'),
           \A r : Known(devices, r) => Known(devices', r),
           \A r : Known(users, r) => Known(users', r)
    PROVE  SlotsOK'
<1>1. /\ at' \in [Slots -> Places]
      /\ request' \in [Slots -> Request \cup {None}]
      /\ loaded' \in [Slots -> Device \cup User \cup {None}]
  BY DEF SlotsOK
<1>2. ASSUME NEW p \in Slots, p # q
      PROVE  Fits(at'[p], request'[p], loaded'[p], devices', users')
  <2>1. at'[p] = at[p] /\ request'[p] = request[p] /\ loaded'[p] = loaded[p]
    BY <1>2 DEF SlotsOK
  <2>2. Fits(at[p], request[p], loaded[p], devices, users)
    BY DEF SlotsOK
  <2>3. QED
    BY <2>1, <2>2 DEF Fits
<1>3. at'[q] = place /\ request'[q] = asked /\ loaded'[q] = row
  BY DEF SlotsOK
<1>4. QED
  BY <1>1, <1>2, <1>3 DEF SlotsOK

\* No request changes, and no row is lost.
LEMMA SlotsStay ==
    ASSUME SlotsOK, UNCHANGED <<at, request, loaded>>,
           \A r : Known(devices, r) => Known(devices', r),
           \A r : Known(users, r) => Known(users', r)
    PROVE  SlotsOK'
<1>1. ASSUME NEW p \in Slots PROVE Fits(at'[p], request'[p], loaded'[p], devices', users')
  <2>1. Fits(at[p], request[p], loaded[p], devices, users)
    BY DEF SlotsOK
  <2>2. QED
    BY <2>1 DEF Fits
<1>2. QED
  BY <1>1 DEF SlotsOK

\* No update begins, and what changes does not disturb those that never overlapped.
LEMMA UndisturbedStays ==
    ASSUME Undisturbed, overlapped' = overlapped,
           \A p \in Slots : at'[p] \in InHand =>
              /\ at[p] \in InHand /\ request'[p] = request[p]
              /\ request[p].id \notin overlapped /\ StillLoaded(p) => StillLoaded(p)'
    PROVE  Undisturbed'
<1>1. \A p \in Slots : \A id : Updating(p, id)' => Updating(p, id)
  BY DEF Updating, InHand
<1>2. QED
  BY <1>1 DEF Undisturbed

\* A request that changes no row and no model.
LEMMA QuietStep ==
    ASSUME Inv, NEW q \in Slots, NEW place \in Places, NEW asked \in Request \cup {None},
           NEW row \in Device \cup User \cup {None},
           at' = [at EXCEPT ![q] = place],
           request' = [request EXCEPT ![q] = asked],
           loaded' = [loaded EXCEPT ![q] = row],
           Fits(place, asked, row, devices, users),
           UNCHANGED <<devices, users, models, meant, overlapped>>,
           tokens' \subseteq Token, TokensHaveRows',
           place \in InHand => at[q] \in InHand /\ asked = request[q] /\ row = loaded[q]
    PROVE  Inv'
<1>1. SlotsOK'
  BY SlotsStep DEF Inv
<1>2. TablesOK'
  BY DEF Inv, TablesOK, PinsExist, Registered
<1>3. Undisturbed'
  <2>1. \A p \in Slots : at'[p] \in InHand =>
              at[p] \in InHand /\ request'[p] = request[p] /\ loaded'[p] = loaded[p]
    BY DEF Inv, SlotsOK
  <2>2. \A p \in Slots : at'[p] \in InHand /\ StillLoaded(p) => StillLoaded(p)'
    BY <2>1 DEF StillLoaded
  <2>3. QED
    BY <2>1, <2>2, UndisturbedStays DEF Inv
<1>4. UpdatesStay'
  BY DEF Inv, UpdatesStay
<1>5. QED
  BY <1>1, <1>2, <1>3, <1>4 DEF Inv

\* A request ends, maybe with new tokens of rows that exist.
LEMMA EndStep ==
    ASSUME Inv, NEW q \in Slots, End(q),
           UNCHANGED <<devices, users, models, meant, overlapped>>,
           tokens' \subseteq Token, TokensHaveRows'
    PROVE  Inv'
<1>1. Fits("idle", None, None, devices, users)
  BY DEF Fits, InHand
<1>2. QED
  BY <1>1, QuietStep DEF End, Go, Places, InHand

-----------------------------------------------------------------------------
(* Steps that change no row and no model *)

\* A token of a row that is known is a token of a row.
LEMMA TokenOfRow ==
    ASSUME Inv, NEW t \in Token,
           \E r \in IF t.identity = "device" THEN devices ELSE users :
               r.id = t.subject /\ r.name = t.to
    PROVE  /\ tokens \cup {t} \subseteq Token
           /\ tokens' = tokens \cup {t} /\ UNCHANGED <<devices, users>> => TokensHaveRows'
  BY DEF Inv, TablesOK, TokensHaveRows

\* A request begins.
LEMMA BeginStep ==
    ASSUME Inv, NEW q \in Slots, NEW asked \in Request \cup {None},
           NEW row \in Device \cup User \cup {None}, NEW place \in Places \ (InHand \cup {"idle"}),
           Begin(q, asked, row, place), Fits(place, asked, row, devices, users),
           UNCHANGED <<devices, users, models, tokens, meant, overlapped>>
    PROVE  Inv'
<1>1. tokens' \subseteq Token /\ TokensHaveRows'
  BY DEF Inv, TablesOK, TokensHaveRows
<1>2. /\ at' = [at EXCEPT ![q] = place] /\ request' = [request EXCEPT ![q] = asked]
      /\ loaded' = [loaded EXCEPT ![q] = row]
  BY DEF Begin, Go
<1>3. QED
  BY <1>1, <1>2, QuietStep

\* The row a registration has loaded, if any, is the device's.
LEMMA RegisterStep ==
    ASSUME Inv, NEW q \in Slots, NEW d \in Devices, Register(q, d)
    PROVE  Inv'
<1> DEFINE row == ByName(devices, d)
           asked == [device |-> d]
<1>1. row = None \/ row \in devices
  BY NotNone, Lookup DEF Inv, TablesOK
<1>2. row \in Device \cup User \cup {None} /\ (row # None => row \in Device /\ Known(devices, row))
  BY <1>1 DEF Inv, TablesOK, Known
<1>3. asked \in Request /\ asked \in [device : Devices] /\ asked # None
  BY NotNone DEF Request
<1>4. Fits("registering", asked, row, devices, users)
  BY <1>2, <1>3 DEF Fits, InHand
<1>5. "registering" \in Places \ (InHand \cup {"idle"})
  BY DEF Places, InHand
<1>6. /\ Begin(q, asked, row, "registering")
      /\ UNCHANGED <<devices, users, models, tokens, meant, overlapped>>
  BY DEF Register
<1> HIDE DEF row, asked
<1>7. QED
  BY <1>2, <1>3, <1>4, <1>5, <1>6, BeginStep

\* A device that is recognised has its row loaded.
LEMMA AuthenticateStep ==
    ASSUME Inv, NEW q \in Slots, NEW t \in tokens, AuthenticateDevice(q, t)
    PROVE  Inv'
<1> DEFINE row == ById(devices, t.subject)
<1>1. row # None /\ Begin(q, None, row, "touching")
      /\ UNCHANGED <<devices, users, models, tokens, meant, overlapped>>
  BY DEF AuthenticateDevice
<1>2. row \in Device
  BY <1>1, NotNone, Lookup DEF Inv, TablesOK
<1> HIDE DEF row
<1>3. Fits("touching", None, row, devices, users)
  BY <1>1 DEF Fits, InHand
<1>4. "touching" \in Places \ (InHand \cup {"idle"})
  BY DEF Places, InHand
<1>5. QED
  BY <1>1, <1>2, <1>3, <1>4, BeginStep

\* An update that begins has nothing in hand yet.
LEMMA UpdateStep ==
    ASSUME Inv, NEW q \in Slots, NEW t \in tokens, NEW id \in Ids, NEW change \in Change,
           Update(q, t, id, change)
    PROVE  Inv'
<1> DEFINE asked == [id |-> id, change |-> change]
<1>1. asked \in Request /\ asked \in [id : Ids, change : Change] /\ asked # None
  BY NotNone DEF Request
<1>2. /\ Begin(q, asked, None, "updating")
      /\ UNCHANGED <<devices, users, models, tokens, meant, overlapped>>
  BY DEF Update
<1> HIDE DEF asked
<1>3. Fits("updating", asked, None, devices, users)
  BY <1>1 DEF Fits, InHand
<1>4. "updating" \in Places \ (InHand \cup {"idle"})
  BY DEF Places, InHand
<1>5. QED
  BY <1>1, <1>2, <1>3, <1>4, BeginStep

\* A login has loaded a user's row.
LEMMA LoginStep ==
    ASSUME Inv, NEW q \in Slots, NEW name \in Names, Login(q, name)
    PROVE  Inv'
<1> DEFINE row == ByName(users, name)
<1>1. row # None /\ Begin(q, None, row, "logging in")
      /\ UNCHANGED <<devices, users, models, tokens, meant, overlapped>>
  BY DEF Login
<1>2. row \in users /\ row \in User /\ Known(users, row)
  BY <1>1, NotNone, Lookup DEF Inv, TablesOK, Known
<1> HIDE DEF row
<1>3. Fits("logging in", None, row, devices, users)
  BY <1>1, <1>2 DEF Fits, InHand
<1>4. "logging in" \in Places \ (InHand \cup {"idle"})
  BY DEF Places, InHand
<1>5. QED
  BY <1>1, <1>2, <1>3, <1>4, BeginStep

\* A bootstrap that begins has loaded nothing.
LEMMA CreateAdminStep ==
    ASSUME Inv, NEW q \in Slots, NEW name \in Names, CreateAdmin(q, name)
    PROVE  Inv'
<1> DEFINE asked == [name |-> name]
<1>1. asked \in Request /\ asked \in [name : Names] /\ asked # None
  BY NotNone DEF Request
<1>2. /\ Begin(q, asked, None, "creating")
      /\ UNCHANGED <<devices, users, models, tokens, meant, overlapped>>
  BY DEF CreateAdmin
<1> HIDE DEF asked
<1>3. Fits("creating", asked, None, devices, users)
  BY <1>1 DEF Fits, InHand
<1>4. "creating" \in Places \ (InHand \cup {"idle"})
  BY DEF Places, InHand
<1>5. QED
  BY <1>1, <1>2, <1>3, <1>4, BeginStep

\* A request that only ends leaves everything else alone.
LEMMA TouchOrAbandonStep ==
    ASSUME Inv, NEW q \in Slots, Touch(q) \/ Abandon(q)
    PROVE  Inv'
<1>1. End(q) /\ UNCHANGED <<devices, users, models, tokens, meant, overlapped>>
  BY DEF Touch, Abandon
<1>2. tokens' \subseteq Token /\ TokensHaveRows'
  BY <1>1 DEF Inv, TablesOK, TokensHaveRows
<1>3. QED
  BY <1>1, <1>2, EndStep

\* The row that is read again after the commit is there, and the token is its own.
LEMMA RegisterAnswersStep ==
    ASSUME Inv, NEW q \in Slots, RegisterAnswers(q)
    PROVE  /\ Inv'
           /\ \A t \in tokens' \ tokens : t.identity = "device" => ById(devices, t.subject).active
<1> DEFINE row == ById(devices, loaded[q].id)
           t == DeviceToken(row)
<1>1. row \in devices
  <2>1. Known(devices, loaded[q])
    BY DEF RegisterAnswers, Inv, SlotsOK, Fits, InHand
  <2>2. QED
    BY <2>1, NotNone, Lookup DEF Known, Inv, TablesOK
<1>2. /\ t \in Token /\ t.identity = "device" /\ t.subject = row.id /\ t.to = row.name
  BY <1>1 DEF Inv, TablesOK, Device, DeviceToken, Token
<1>3. End(q) /\ UNCHANGED <<devices, users, models, meant, overlapped>>
  BY DEF RegisterAnswers
<1>4. tokens' = tokens \/ (tokens' = tokens \cup {t} /\ row.active)
  BY DEF RegisterAnswers
<1>5. ById(devices, row.id) = row
  BY <1>1, NotNone, Lookup DEF Inv, TablesOK
<1> HIDE DEF t, row
<1>6. tokens' \subseteq Token /\ TokensHaveRows'
  <2>1. CASE tokens' = tokens
    BY <1>3, <2>1 DEF Inv, TablesOK, TokensHaveRows
  <2>2. CASE tokens' = tokens \cup {t}
    BY <1>1, <1>2, <1>3, <2>2, TokenOfRow
  <2>3. QED
    BY <1>4, <2>1, <2>2
<1>7. Inv'
  BY <1>3, <1>6, EndStep
<1>8. \A new \in tokens' \ tokens : new.identity = "device" => ById(devices, new.subject).active
  BY <1>2, <1>4, <1>5
<1>9. QED
  BY <1>7, <1>8

\* The tokens of a login are of the row that was loaded, which is still there.
LEMMA LoginAnswersStep ==
    ASSUME Inv, NEW q \in Slots, LoginAnswers(q)
    PROVE  Inv' /\ \A t \in tokens' \ tokens : t.identity = "user"
<1> DEFINE a == AccessToken(loaded[q])
           r == RefreshToken(loaded[q])
<1>1. loaded[q] \in User /\ Known(users, loaded[q])
  BY DEF LoginAnswers, Inv, SlotsOK, Fits, InHand
<1>2. /\ a \in Token /\ a.identity = "user" /\ a.subject = loaded[q].id /\ a.to = loaded[q].name
      /\ r \in Token /\ r.identity = "user" /\ r.subject = loaded[q].id /\ r.to = loaded[q].name
  BY <1>1 DEF User, AccessToken, RefreshToken, Token
<1>3. End(q) /\ UNCHANGED <<devices, users, models, meant, overlapped>> /\ tokens' = tokens \cup {a, r}
  BY DEF LoginAnswers
<1> HIDE DEF a, r
<1>4. tokens' \subseteq Token /\ TokensHaveRows'
  BY <1>1, <1>2, <1>3 DEF Inv, TablesOK, TokensHaveRows, Known
<1>5. QED
  BY <1>2, <1>3, <1>4, EndStep

\* A refresh gives a token of the user's row; expiry takes one away.
LEMMA RefreshOrExpireStep ==
    ASSUME Inv, NEW t \in tokens, Refresh(t) \/ Expire(t)
    PROVE  Inv' /\ \A s \in tokens' \ tokens : s.identity = "user"
<1> DEFINE row == ById(users, t.subject)
           new == AccessToken(row)
<1>1. /\ UNCHANGED <<devices, users, models, meant, overlapped, at, request, loaded>>
      /\ \/ tokens' \subseteq tokens
         \/ row # None /\ tokens' = tokens \cup {new}
  BY DEF Refresh, Expire
<1>2. row # None => row \in users
  BY NotNone, Lookup DEF Inv, TablesOK
<1>3. row # None =>
          new \in Token /\ new.identity = "user" /\ new.subject = row.id /\ new.to = row.name
  BY <1>2 DEF Inv, TablesOK, User, AccessToken, Token
<1> HIDE DEF row, new
<1>4. tokens' \subseteq Token /\ TokensHaveRows'
  <2>1. CASE tokens' \subseteq tokens
    BY <1>1, <2>1 DEF Inv, TablesOK, TokensHaveRows
  <2>2. CASE row # None /\ tokens' = tokens \cup {new}
    BY <1>1, <1>2, <1>3, <2>2, TokenOfRow
  <2>3. QED
    BY <1>1, <2>1, <2>2
<1>5. SlotsOK'
  BY <1>1, SlotsStay DEF Inv
<1>6. TablesOK'
  BY <1>1, <1>4 DEF Inv, TablesOK, PinsExist, Registered
<1>7. Undisturbed'
  BY <1>1 DEF Inv, Undisturbed, Updating, StillLoaded
<1>8. UpdatesStay'
  BY <1>1 DEF Inv, UpdatesStay
<1>9. QED
  BY <1>1, <1>3, <1>5, <1>6, <1>7, <1>8 DEF Inv

\* A pin that is registered lets the update go on.
LEMMA CheckModelStep ==
    ASSUME Inv, NEW q \in Slots, CheckModel(q)
    PROVE  Inv'
<1>1. /\ UNCHANGED <<devices, users, models, tokens, meant, overlapped>>
      /\ at[q] = "checking"
      /\ \/ End(q)
         \/ Go(q, "changing") /\ UNCHANGED <<request, loaded>>
  BY DEF CheckModel
<1>2. tokens' \subseteq Token /\ TokensHaveRows'
  BY <1>1 DEF Inv, TablesOK, TokensHaveRows
<1>3. CASE End(q)
  BY <1>1, <1>2, <1>3, EndStep
<1>4. CASE Go(q, "changing") /\ UNCHANGED <<request, loaded>>
  <2>1. /\ at' = [at EXCEPT ![q] = "changing"]
        /\ request' = [request EXCEPT ![q] = request[q]]
        /\ loaded' = [loaded EXCEPT ![q] = loaded[q]]
    BY <1>4 DEF Go, Inv, SlotsOK
  <2>2. Fits("changing", request[q], loaded[q], devices, users)
    <3>1. Fits("checking", request[q], loaded[q], devices, users)
      BY <1>1 DEF Inv, SlotsOK
    <3>2. QED
      BY <3>1, NotNone DEF Fits, InHand
  <2>3. request[q] \in Request \cup {None} /\ loaded[q] \in Device \cup User \cup {None}
    BY DEF Inv, SlotsOK
  <2>4. "changing" \in Places /\ at[q] \in InHand
    BY <1>1 DEF Places, InHand
  <2>5. QED
    BY <1>1, <1>2, <2>1, <2>2, <2>3, <2>4, QuietStep
<1>5. QED
  BY <1>1, <1>3, <1>4

-----------------------------------------------------------------------------
(* Steps that change rows or models *)

\* An update that has its row in hand has loaded one that is known.
LEMMA RowInHand ==
    ASSUME Inv, NEW p \in Slots, at[p] \in InHand
    PROVE  /\ request[p] \in [id : Ids, change : Change] /\ loaded[p] \in Device
           /\ loaded[p].id = request[p].id
           /\ \E r \in devices : r.id = request[p].id
<1>1. Fits(at[p], request[p], loaded[p], devices, users)
  BY DEF Inv, SlotsOK
<1>2. QED
  BY <1>1 DEF Fits, Known, InHand

\* A new row has an id no request has in hand.
LEMMA RegisterCommitsStep ==
    ASSUME Inv, NEW q \in Slots, RegisterCommits(q)
    PROVE  Inv'
<1>1. /\ at[q] = "registering" /\ request[q] \in [device : Devices]
      /\ UNCHANGED <<users, models, tokens, overlapped>>
      /\ loaded[q] # None => loaded[q] \in Device /\ Known(devices, loaded[q])
  BY DEF RegisterCommits, Inv, SlotsOK, Fits, InHand
<1>2. request[q] \in Request /\ request[q] # None
  BY <1>1, NotNone DEF Request
<1>3. CASE /\ Free(devices, request[q].device)
           /\ \E id \in FreeIds :
                 LET row == [id |-> id, name |-> request[q].device, active |-> TRUE, pin |-> None] IN
                 /\ devices' = devices \cup {row}
                 /\ loaded' = [loaded EXCEPT ![q] = row]
                 /\ meant' = [meant EXCEPT ![id] = [active |-> TRUE, pin |-> None]]
           /\ Go(q, "registered")
           /\ UNCHANGED request
  <2>0. PICK id \in FreeIds :
         LET row == [id |-> id, name |-> request[q].device, active |-> TRUE, pin |-> None] IN
         /\ devices' = devices \cup {row}
         /\ loaded' = [loaded EXCEPT ![q] = row]
         /\ meant' = [meant EXCEPT ![id] = [active |-> TRUE, pin |-> None]]
    BY <1>3
  <2> DEFINE row == [id |-> id, name |-> request[q].device, active |-> TRUE, pin |-> None]
  <2>1. /\ devices' = devices \cup {row}
        /\ loaded' = [loaded EXCEPT ![q] = row]
        /\ meant' = [meant EXCEPT ![id] = [active |-> TRUE, pin |-> None]]
    BY <2>0
  <2>2. /\ row \in Device /\ row.id = id /\ row.name = request[q].device
        /\ row.active = TRUE /\ row.pin = None /\ id \in Ids
    BY <1>1 DEF FreeIds, Device
  <2>3. \A r \in devices : r.id # id
    BY DEF FreeIds
  <2> HIDE DEF row
  <2>4. /\ UniqueIn(devices') /\ \A r : Known(devices, r) => Known(devices', r)
        /\ \A r : Known(users, r) => Known(users', r)
    BY <1>1, <1>3, <2>1, <2>2, <2>3, NotNone, TableAdd DEF Inv, TablesOK
  <2>5. Fits("registered", request[q], row, devices', users')
    BY <1>2, <2>1, <2>2 DEF Fits, InHand, Known
  <2>6. at' = [at EXCEPT ![q] = "registered"] /\ request' = [request EXCEPT ![q] = request[q]]
    BY <1>3 DEF Go, Inv, SlotsOK
  <2>7. SlotsOK'
    <3>1. "registered" \in Places /\ request[q] \in Request \cup {None}
          /\ row \in Device \cup User \cup {None}
      BY <1>2, <2>2 DEF Places
    <3>2. SlotsOK
      BY DEF Inv
    <3>3. QED
      BY <2>1, <2>4, <2>5, <2>6, <3>1, <3>2, SlotsStep
  <2>8. TablesOK'
    <3>1. meant' \in [Ids -> Meaning \cup {None}] /\ \A r \in devices' : meant'[r.id] \in Meaning
      BY <2>1, <2>2, <2>3 DEF Inv, TablesOK, Meaning
    <3>2. devices' \subseteq Device /\ PinsExist'
      BY <1>1, <2>1, <2>2 DEF Inv, TablesOK, PinsExist, Registered
    <3>3. TokensHaveRows'
      BY <1>1, <2>1 DEF Inv, TablesOK, TokensHaveRows
    <3>4. QED
      BY <1>1, <2>4, <3>1, <3>2, <3>3 DEF Inv, TablesOK
  <2>9. Undisturbed'
    <3>1. ASSUME NEW p \in Slots, at'[p] \in InHand
          PROVE  /\ at[p] \in InHand /\ request'[p] = request[p]
                 /\ StillLoaded(p) => StillLoaded(p)'
      <4>1. p # q /\ at'[p] = at[p] /\ loaded'[p] = loaded[p] /\ request'[p] = request[p]
        BY <2>1, <2>6, <3>1 DEF Inv, SlotsOK, InHand
      <4>2. \E r \in devices : r.id = request[p].id
        BY <3>1, <4>1, RowInHand
      <4>3. row.id # request[p].id
        BY <2>2, <2>3, <4>2
      <4>4. StillLoaded(p) => StillLoaded(p)'
        BY <1>1, <2>1, <4>1, <4>3 DEF StillLoaded
      <4>5. QED
        BY <3>1, <4>1, <4>4
    <3>2. QED
      BY <1>1, <3>1, UndisturbedStays DEF Inv
  <2>10. UpdatesStay'
    <3>1. meant'[row.id] = [active |-> row.active, pin |-> row.pin]
      BY <2>1, <2>2 DEF Inv, TablesOK
    <3>2. \A r \in devices : meant'[r.id] = meant[r.id]
      BY <2>1, <2>3 DEF Inv, TablesOK
    <3>3. QED
      BY <1>1, <2>1, <3>1, <3>2 DEF Inv, UpdatesStay
  <2>11. QED
    BY <2>7, <2>8, <2>9, <2>10 DEF Inv
<1>4. tokens' \subseteq Token /\ (devices' = devices => TokensHaveRows')
  BY <1>1 DEF Inv, TablesOK, TokensHaveRows
<1>5. CASE End(q) /\ UNCHANGED <<devices, meant>>
  BY <1>1, <1>4, <1>5, EndStep
<1>6. CASE /\ loaded[q] # None /\ Go(q, "registered")
           /\ UNCHANGED <<devices, request, loaded, meant>>
  <2>1. /\ at' = [at EXCEPT ![q] = "registered"]
        /\ request' = [request EXCEPT ![q] = request[q]]
        /\ loaded' = [loaded EXCEPT ![q] = loaded[q]]
    BY <1>6 DEF Go, Inv, SlotsOK
  <2>2. Fits("registered", request[q], loaded[q], devices, users)
    BY <1>1, <1>2, <1>6 DEF Fits, InHand
  <2>3. /\ "registered" \in Places /\ "registered" \notin InHand
        /\ request[q] \in Request \cup {None} /\ loaded[q] \in Device \cup User \cup {None}
    BY <1>1, <1>2, <1>6 DEF Places, InHand
  <2>4. UNCHANGED <<devices, users, models, meant, overlapped>>
    BY <1>1, <1>6
  <2>5. QED
    BY <1>4, <2>1, <2>2, <2>3, <2>4, QuietStep
<1>7. QED
  BY <1>3, <1>5, <1>6 DEF RegisterCommits

\* A user is only added under a name that is free.
LEMMA CreateAdminCommitsStep ==
    ASSUME Inv, NEW q \in Slots, CreateAdminCommits(q)
    PROVE  Inv'
<1>1. /\ at[q] = "creating" /\ request[q] \in [name : Names] /\ End(q)
      /\ UNCHANGED <<devices, models, tokens, meant, overlapped>>
  BY DEF CreateAdminCommits, Inv, SlotsOK, Fits, InHand
<1>2. CASE UNCHANGED users
  <2>1. tokens' \subseteq Token /\ TokensHaveRows'
    BY <1>1, <1>2 DEF Inv, TablesOK, TokensHaveRows
  <2>2. QED
    BY <1>1, <1>2, <2>1, EndStep
<1>3. CASE /\ Free(users, request[q].name)
           /\ \E id \in FreeIds : users' = users \cup {[id |-> id, name |-> request[q].name,
                                                        active |-> TRUE, admin |-> TRUE]}
  <2> PICK id \in FreeIds : users' = users \cup {[id |-> id, name |-> request[q].name,
                                                  active |-> TRUE, admin |-> TRUE]}
    BY <1>3
  <2> DEFINE row == [id |-> id, name |-> request[q].name, active |-> TRUE, admin |-> TRUE]
  <2>1. users' = users \cup {row}
    OBVIOUS
  <2>2. row \in User /\ row.id = id /\ row.name = request[q].name
    BY <1>1 DEF FreeIds, User
  <2>3. \A r \in users : r.id # id
    BY DEF FreeIds
  <2> HIDE DEF row
  <2>4. UniqueIn(users') /\ \A r : Known(users, r) => Known(users', r)
    BY <1>3, <2>1, <2>2, <2>3, NotNone, TableAdd DEF Inv, TablesOK
  <2>5. SlotsOK'
    <3>1. Fits("idle", None, None, devices', users')
      BY DEF Fits, InHand
    <3>2. \A r : Known(devices, r) => Known(devices', r)
      BY <1>1
    <3>3. QED
      BY <1>1, <2>4, <3>1, <3>2, SlotsStep DEF End, Go, Places, Inv
  <2>6. TablesOK'
    <3>1. TokensHaveRows'
      BY <1>1, <2>1 DEF Inv, TablesOK, TokensHaveRows
    <3>2. QED
      BY <1>1, <2>1, <2>2, <2>4, <3>1 DEF Inv, TablesOK, PinsExist, Registered
  <2>7. Undisturbed'
    <3>1. \A p \in Slots : at'[p] \in InHand =>
              at[p] \in InHand /\ request'[p] = request[p] /\ loaded'[p] = loaded[p]
      BY <1>1 DEF Inv, SlotsOK, End, Go, InHand
    <3>2. \A p \in Slots : at'[p] \in InHand /\ StillLoaded(p) => StillLoaded(p)'
      BY <1>1, <3>1 DEF StillLoaded
    <3>3. QED
      BY <1>1, <3>1, <3>2, UndisturbedStays DEF Inv
  <2>8. UpdatesStay'
    BY <1>1 DEF Inv, UpdatesStay
  <2>9. QED
    BY <2>5, <2>6, <2>7, <2>8 DEF Inv
<1>4. QED
  BY <1>2, <1>3 DEF CreateAdminCommits

\* An update that loads its row is alone with it, or the overlap is noted.
LEMMA LoadDeviceStep ==
    ASSUME Inv, NEW q \in Slots, LoadDevice(q)
    PROVE  Inv'
<1> DEFINE id == request[q].id
           row == ById(devices, id)
           place == IF request[q].change.pin # None THEN "checking" ELSE "changing"
<1>1. /\ at[q] = "updating" /\ request[q] \in [id : Ids, change : Change]
      /\ UNCHANGED <<devices, users, models, tokens, meant>>
  BY DEF LoadDevice, Inv, SlotsOK, Fits, InHand
<1>2. request[q] \in Request /\ request[q] # None /\ id \in Ids
  BY <1>1, NotNone DEF Request
<1>3. tokens' \subseteq Token /\ TokensHaveRows'
  BY <1>1 DEF Inv, TablesOK, TokensHaveRows
<1>4. CASE row = None /\ End(q) /\ UNCHANGED overlapped
  BY <1>1, <1>3, <1>4, EndStep
<1>5. CASE /\ row # None
           /\ loaded' = [loaded EXCEPT ![q] = row]
           /\ Go(q, place)
           /\ overlapped' = IF \E p \in Slots \ {q} : Updating(p, id)
                            THEN overlapped \cup {id} ELSE overlapped
           /\ UNCHANGED request
  <2>1. row \in devices /\ row \in Device /\ row.id = id /\ \A r \in devices : r.id = id => r = row
    BY <1>5, NotNone, Lookup DEF Inv, TablesOK
  <2>2. place \in InHand /\ place \in Places /\ place # "idle"
    BY DEF InHand, Places
  <2> HIDE DEF row, place
  <2>3. Fits(place, request[q], row, devices, users)
    BY <1>1, <1>2, <2>1, <2>2 DEF Fits, InHand, Known
  <2>4. /\ at' = [at EXCEPT ![q] = place] /\ request' = [request EXCEPT ![q] = request[q]]
        /\ loaded' = [loaded EXCEPT ![q] = row]
    BY <1>5 DEF Go, Inv, SlotsOK
  <2>5. SlotsOK'
    BY <1>1, <1>2, <2>1, <2>2, <2>3, <2>4, SlotsStep DEF Inv
  <2>6. TablesOK'
    BY <1>1, <1>2, <1>3, <1>5 DEF Inv, TablesOK, PinsExist, Registered
  <2>7. Undisturbed'
    <3>1. \A p \in Slots \ {q} :
              at'[p] = at[p] /\ loaded'[p] = loaded[p] /\ request'[p] = request[p]
      BY <2>4 DEF Inv, SlotsOK
    <3>2. at'[q] = place /\ loaded'[q] = row /\ request'[q] = request[q]
      BY <2>4 DEF Inv, SlotsOK
    <3>3. ASSUME NEW p \in Slots, at'[p] \in InHand, request'[p].id \notin overlapped'
          PROVE  /\ \A o \in Slots \ {p} : ~ Updating(o, request[p].id)'
                 /\ StillLoaded(p)'
      <4>1. CASE p = q
        <5>1. ~ \E o \in Slots \ {q} : Updating(o, id)
          BY <1>5, <3>2, <3>3, <4>1
        <5>2. \A o \in Slots \ {q} : ~ Updating(o, id)'
          BY <3>1, <3>2, <5>1 DEF Updating
        <5>3. StillLoaded(q)'
          BY <1>1, <2>1, <3>2 DEF StillLoaded
        <5>4. QED
          BY <3>2, <4>1, <5>2, <5>3
      <4>2. CASE p # q
        <5>1. at[p] \in InHand /\ request[p].id \notin overlapped
          BY <1>5, <3>1, <3>3, <4>2
        <5>2. (\A o \in Slots \ {p} : ~ Updating(o, request[p].id)) /\ StillLoaded(p)
          BY <5>1 DEF Inv, Undisturbed
        <5>3. request[p].id # id
          BY <1>5, <3>1, <3>3, <4>2, <5>1 DEF Updating, InHand
        <5>4. \A o \in Slots \ {p} : ~ Updating(o, request[p].id)'
          BY <3>1, <3>2, <4>2, <5>2, <5>3 DEF Updating
        <5>5. StillLoaded(p)'
          BY <1>1, <3>1, <4>2, <5>2 DEF StillLoaded
        <5>6. QED
          BY <5>4, <5>5
      <4>3. QED
        BY <4>1, <4>2
    <3>4. UNCHANGED request
      BY <1>5
    <3>5. QED
      BY <3>3, <3>4 DEF Undisturbed
  <2>8. UpdatesStay'
    BY <1>1, <1>5 DEF Inv, UpdatesStay
  <2>9. QED
    BY <2>5, <2>6, <2>7, <2>8 DEF Inv
<1>6. QED
  BY <1>4, <1>5 DEF LoadDevice

\* What an update writes: a row of the same id and name, whose other columns are
\* the row's own, the loaded one's or those asked for.
LEMMA ChangedRow ==
    ASSUME NEW row \in Device, NEW was \in Device, NEW change \in Change
    PROVE  LET new == Changed(row, was, Asked(was, change)) IN
           /\ new \in Device /\ new.id = row.id /\ new.name = row.name
           /\ new.active = IF change.active # None /\ change.active # was.active
                           THEN change.active ELSE row.active
           /\ new.pin = IF change.pin # None /\ change.pin # was.pin
                        THEN change.pin ELSE row.pin
<1> DEFINE asked == Asked(was, change)
           new == Changed(row, was, asked)
<1>1. asked.active = Or(change.active, was.active) /\ asked.pin = Or(change.pin, was.pin)
  BY DEF Asked, Device
<1>2. asked.active \in BOOLEAN /\ asked.pin \in Models \cup {None}
  BY <1>1 DEF Or, Change, Device
<1> HIDE DEF asked
<1>3. /\ new \in Device /\ new.id = row.id /\ new.name = row.name
      /\ new.active = IF asked.active # was.active THEN asked.active ELSE row.active
      /\ new.pin = IF asked.pin # was.pin THEN asked.pin ELSE row.pin
  BY <1>2 DEF Changed, Device
<1> HIDE DEF new
<1>4. QED
  BY <1>1, <1>3 DEF Or, new, asked

\* An update that nothing overlapped leaves what it asked for; one that another
\* overlapped may mix with it, and is known to have.
LEMMA UpdateCommitsStep ==
    ASSUME Inv, NEW q \in Slots, UpdateCommits(q)
    PROVE  Inv'
<1> DEFINE change == request[q].change
           row == ById(devices, request[q].id)
           new == Changed(row, loaded[q], Asked(loaded[q], change))
           meaning == [active |-> Or(change.active, meant[row.id].active),
                       pin |-> IF change.pin = None THEN meant[row.id].pin
                               ELSE IF change.pin \in Registered THEN change.pin ELSE None]
<1>1. /\ at[q] = "changing" /\ End(q) /\ UNCHANGED <<users, models, tokens, overlapped>>
      /\ \/ /\ new.pin = row.pin \/ PinHolds(new)
            /\ devices' = WithRow(devices, new)
            /\ meant' = [meant EXCEPT ![row.id] = meaning]
         \/ UNCHANGED <<devices, meant>>
  BY DEF UpdateCommits
<1>2. at[q] \in InHand
  BY <1>1 DEF InHand
<1>3. change \in Change /\ loaded[q] \in Device
  BY <1>2, RowInHand
<1>4. row \in devices /\ row.id = request[q].id /\ row \in Device
  BY <1>2, RowInHand, NotNone, Lookup DEF Inv, TablesOK
<1>5. /\ new \in Device /\ new.id = row.id /\ new.name = row.name
      /\ new.active = IF change.active # None /\ change.active # loaded[q].active
                      THEN change.active ELSE row.active
      /\ new.pin = IF change.pin # None /\ change.pin # loaded[q].pin
                   THEN change.pin ELSE row.pin
  BY <1>3, <1>4, ChangedRow
<1>6. CASE UNCHANGED <<devices, meant>>
  <2>1. tokens' \subseteq Token /\ TokensHaveRows'
    BY <1>1, <1>6 DEF Inv, TablesOK, TokensHaveRows
  <2>2. QED
    BY <1>1, <1>6, <2>1, EndStep
<1>7. CASE /\ new.pin = row.pin \/ PinHolds(new)
           /\ devices' = WithRow(devices, new)
           /\ meant' = [meant EXCEPT ![row.id] = meaning]
  <2>1. row.id \in Ids /\ row.pin \in Registered \cup {None} /\ meant[row.id] \in Meaning
    BY <1>4 DEF Inv, TablesOK, PinsExist, Device
  <2>2. meaning \in Meaning
    BY <1>3, <2>1 DEF Meaning, Or, Change, Registered
  <2>3. meant'[row.id] = meaning /\ \A id \in Ids : id # row.id => meant'[id] = meant[id]
    BY <1>7, <2>1 DEF Inv, TablesOK
  <2> HIDE DEF meaning, new
  <2>4. /\ UniqueIn(devices') /\ \A r : Known(devices, r) => Known(devices', r)
        /\ \A r \in devices' : r = new \/ (r \in devices /\ r.id # row.id)
    BY <1>4, <1>5, <1>7, TableReplace DEF Inv, TablesOK
  <2> HIDE DEF row, change
  <2>5. SlotsOK'
    <3>1. Fits("idle", None, None, devices', users')
      BY DEF Fits, InHand
    <3>2. \A r : Known(users, r) => Known(users', r)
      BY <1>1
    <3>3. QED
      BY <1>1, <2>4, <3>1, <3>2, SlotsStep DEF End, Go, Places, Inv
  <2>6. TablesOK'
    <3>1. devices' \subseteq Device /\ \A r \in devices' : meant'[r.id] \in Meaning
      BY <1>5, <2>1, <2>2, <2>3, <2>4 DEF Inv, TablesOK, Device
    <3>2. meant' \in [Ids -> Meaning \cup {None}]
      BY <1>7, <2>2 DEF Inv, TablesOK
    <3>3. PinsExist'
      BY <1>1, <1>7, <2>1, <2>4 DEF Inv, TablesOK, PinsExist, PinHolds, Registered
    <3>4. TokensHaveRows'
      <4>1. \A r \in devices : \E s \in devices' : s.id = r.id /\ s.name = r.name
        BY <2>4 DEF Known
      <4>2. QED
        BY <1>1, <4>1 DEF Inv, TablesOK, TokensHaveRows
    <3>5. QED
      BY <1>1, <2>4, <3>1, <3>2, <3>3, <3>4 DEF Inv, TablesOK
  <2>7. Undisturbed'
    <3>1. ASSUME NEW p \in Slots, at'[p] \in InHand
          PROVE  /\ at[p] \in InHand /\ request'[p] = request[p]
                 /\ request[p].id \notin overlapped /\ StillLoaded(p) => StillLoaded(p)'
      <4>1. p # q /\ at'[p] = at[p] /\ loaded'[p] = loaded[p] /\ request'[p] = request[p]
        BY <1>1, <3>1 DEF Inv, SlotsOK, End, Go, InHand
      <4>2. ASSUME request[p].id \notin overlapped, StillLoaded(p)
            PROVE  StillLoaded(p)'
        <5>1. ~ Updating(q, request[p].id)
          BY <3>1, <4>1, <4>2 DEF Inv, Undisturbed
        <5>2. request[p].id # row.id
          BY <1>1, <1>4, <5>1 DEF Updating
        <5>3. QED
          BY <1>1, <1>5, <2>4, <4>1, <4>2, <5>2 DEF StillLoaded
      <4>3. QED
        BY <3>1, <4>1, <4>2
    <3>2. QED
      BY <1>1, <3>1, UndisturbedStays DEF Inv
  <2>8. UpdatesStay'
    <3>1. ASSUME row.id \notin overlapped
          PROVE  [active |-> new.active, pin |-> new.pin] = meaning
      <4>1. StillLoaded(q)
        BY <1>2, <1>4, <3>1 DEF Inv, Undisturbed
      <4>2. /\ loaded[q].active = row.active
            /\ \/ loaded[q].pin = row.pin
               \/ loaded[q].pin \notin Registered /\ row.pin = None
        BY <1>4, <4>1 DEF StillLoaded, Registered
      <4>3. meant[row.id].active = row.active /\ meant[row.id].pin = row.pin
        <5>1. meant[row.id] = [active |-> row.active, pin |-> row.pin]
          BY <1>4, <3>1 DEF Inv, UpdatesStay
        <5>2. QED
          BY <5>1
      <4>4. new.active = Or(change.active, row.active)
        BY <1>5, <4>2 DEF Or
      <4>5. new.pin = IF change.pin = None THEN row.pin
                      ELSE IF change.pin \in Registered THEN change.pin ELSE None
        BY <1>5, <1>7, <2>1, <4>2 DEF PinHolds
      <4>6. QED
        BY <4>3, <4>4, <4>5 DEF meaning
    <3>2. \A r \in devices' : r = new \/ (r \in devices /\ meant'[r.id] = meant[r.id])
      BY <2>3, <2>4 DEF Inv, TablesOK, Device
    <3>3. QED
      BY <1>1, <1>5, <2>3, <3>1, <3>2 DEF Inv, UpdatesStay
  <2>9. QED
    BY <2>5, <2>6, <2>7, <2>8 DEF Inv
<1>8. QED
  BY <1>1, <1>6, <1>7

\* A user's row keeps its id and name.
LEMMA ChangeUserStep ==
    ASSUME Inv, NEW row \in users, ChangeUser(row)
    PROVE  Inv'
<1>1. UNCHANGED <<devices, models, tokens, request, at, loaded, meant, overlapped>>
  BY DEF ChangeUser
<1>2. PICK new \in User : new.id = row.id /\ new.name = row.name /\ users' = WithRow(users, new)
  <2>1. row \in User
    BY DEF Inv, TablesOK
  <2>2. /\ [row EXCEPT !.active = ~ @] \in User /\ [row EXCEPT !.admin = ~ @] \in User
        /\ [row EXCEPT !.active = ~ @].id = row.id /\ [row EXCEPT !.active = ~ @].name = row.name
        /\ [row EXCEPT !.admin = ~ @].id = row.id /\ [row EXCEPT !.admin = ~ @].name = row.name
    BY <2>1 DEF User
  <2>3. QED
    BY <2>2 DEF ChangeUser
<1>3. /\ UniqueIn(users') /\ \A r : Known(users, r) => Known(users', r)
      /\ \A r \in users' : r = new \/ r \in users
  BY <1>2, TableReplace DEF Inv, TablesOK
<1>4. SlotsOK'
  BY <1>1, <1>3, SlotsStay DEF Inv
<1>5. TablesOK'
  <2>1. TokensHaveRows'
    <3>1. \A r \in users : \E s \in users' : s.id = r.id /\ s.name = r.name
      BY <1>3 DEF Known
    <3>2. QED
      BY <1>1, <3>1 DEF Inv, TablesOK, TokensHaveRows
  <2>2. users' \subseteq User
    BY <1>3 DEF Inv, TablesOK
  <2>3. QED
    BY <1>1, <1>3, <2>1, <2>2 DEF Inv, TablesOK, PinsExist, Registered
<1>6. Undisturbed'
  BY <1>1 DEF Inv, Undisturbed, Updating, StillLoaded
<1>7. UpdatesStay'
  BY <1>1 DEF Inv, UpdatesStay
<1>8. QED
  BY <1>4, <1>5, <1>6, <1>7 DEF Inv

\* A new model is pinned nowhere and was never deleted.
LEMMA AddModelStep ==
    ASSUME Inv, NEW m \in Models, AddModel(m)
    PROVE  Inv'
<1>1. /\ models[m] = "unused" /\ models' = [models EXCEPT ![m] = "registered"]
      /\ UNCHANGED <<devices, users, tokens, request, at, loaded, meant, overlapped>>
  BY DEF AddModel
<1>2. /\ models' \in [Models -> {"unused", "registered", "deleted"}]
      /\ \A n \in Models : n # m => models'[n] = models[n]
      /\ models'[m] = "registered"
  BY <1>1 DEF Inv, TablesOK
<1>3. SlotsOK'
  BY <1>1, SlotsStay DEF Inv
<1>4. TablesOK'
  <2>1. PinsExist'
    BY <1>1, <1>2 DEF Inv, TablesOK, PinsExist, Registered
  <2>2. QED
    BY <1>1, <1>2, <2>1 DEF Inv, TablesOK, TokensHaveRows
<1>5. Undisturbed'
  <2>1. \A p \in Slots : StillLoaded(p) => StillLoaded(p)'
    BY <1>1, <1>2 DEF StillLoaded
  <2>2. QED
    BY <1>1, <2>1, UndisturbedStays DEF Inv
<1>6. UpdatesStay'
  BY <1>1 DEF Inv, UpdatesStay
<1>7. QED
  BY <1>3, <1>4, <1>5, <1>6 DEF Inv

\* Deleting a model unpins it, in the rows and in what was meant of them.
LEMMA DeleteModelStep ==
    ASSUME Inv, NEW m \in Models, DeleteModel(m)
    PROVE  Inv'
<1> DEFINE Unpinned(row) == [row EXCEPT !.pin = IF @ = m THEN None ELSE @]
<1>1. /\ models' = [models EXCEPT ![m] = "deleted"]
      /\ devices' = {Unpinned(row) : row \in devices}
      /\ meant' = [id \in Ids |-> IF meant[id] = None THEN None ELSE Unpinned(meant[id])]
      /\ UNCHANGED <<users, tokens, request, at, loaded, overlapped>>
  BY DEF DeleteModel
<1>2. /\ models' \in [Models -> {"unused", "registered", "deleted"}]
      /\ \A n \in Models : n # m => models'[n] = models[n]
      /\ models'[m] = "deleted"
  BY <1>1 DEF Inv, TablesOK
<1>3. \A r \in Device :
          /\ Unpinned(r) \in Device /\ Unpinned(r).id = r.id /\ Unpinned(r).name = r.name
          /\ Unpinned(r).active = r.active
          /\ Unpinned(r).pin = IF r.pin = m THEN None ELSE r.pin
  BY DEF Device
<1>4. \A r \in Meaning :
          /\ Unpinned(r) \in Meaning
          /\ Unpinned(r) = [active |-> r.active, pin |-> IF r.pin = m THEN None ELSE r.pin]
  BY DEF Meaning
<1>5. None \notin Meaning
  BY NotNone
<1> HIDE DEF Unpinned
<1>6. \A r \in devices : r \in Device
  BY DEF Inv, TablesOK
<1>7. /\ \A r \in devices' : \E s \in devices : r = Unpinned(s)
      /\ \A r \in devices : Unpinned(r) \in devices'
  BY <1>1
<1>8. \A r : Known(devices, r) => Known(devices', r)
  BY <1>3, <1>6, <1>7 DEF Known
<1>9. SlotsOK'
  BY <1>1, <1>8, SlotsStay DEF Inv
<1>10. \A id \in Ids : meant[id] \in Meaning => meant'[id] = Unpinned(meant[id])
  BY <1>1, <1>5
<1>11. TablesOK'
  <2>1. devices' \subseteq Device
    BY <1>3, <1>6, <1>7
  <2>2. UniqueIn(devices')
    BY <1>3, <1>6, <1>7 DEF Inv, TablesOK, UniqueIn
  <2>3. meant' \in [Ids -> Meaning \cup {None}]
    BY <1>1, <1>4 DEF Inv, TablesOK
  <2>4. \A r \in devices' : meant'[r.id] \in Meaning
    BY <1>3, <1>4, <1>6, <1>7, <1>10 DEF Inv, TablesOK, Device
  <2>5. PinsExist'
    <3>1. ASSUME NEW r \in devices PROVE Unpinned(r).pin \in Registered' \cup {None}
      BY <1>2, <1>3, <1>6 DEF Inv, TablesOK, PinsExist, Registered
    <3>2. QED
      BY <1>7, <3>1 DEF PinsExist
  <2>6. TokensHaveRows'
    <3>1. \A r \in devices : \E s \in devices' : s.id = r.id /\ s.name = r.name
      BY <1>3, <1>6, <1>7
    <3>2. QED
      BY <1>1, <3>1 DEF Inv, TablesOK, TokensHaveRows
  <2>7. QED
    BY <1>1, <1>2, <2>1, <2>2, <2>3, <2>4, <2>5, <2>6 DEF Inv, TablesOK
<1>12. Undisturbed'
  <2>1. ASSUME NEW p \in Slots, StillLoaded(p) PROVE StillLoaded(p)'
    <3>1. ASSUME NEW r \in devices, Unpinned(r).id = request[p].id
          PROVE  /\ loaded[p].active = Unpinned(r).active
                 /\ \/ loaded[p].pin = Unpinned(r).pin
                    \/ /\ loaded[p].pin \in Models /\ models'[loaded[p].pin] = "deleted"
                       /\ Unpinned(r).pin = None
      BY <1>2, <1>3, <1>6, <2>1, <3>1, NotNone DEF StillLoaded
    <3>2. QED
      BY <1>1, <1>7, <3>1 DEF StillLoaded
  <2>2. QED
    BY <1>1, <2>1, UndisturbedStays DEF Inv
<1>13. UpdatesStay'
  <2>1. ASSUME NEW r \in devices, Unpinned(r).id \notin overlapped
        PROVE  [active |-> Unpinned(r).active, pin |-> Unpinned(r).pin] = meant'[Unpinned(r).id]
    <3>1. r.id \in Ids /\ meant[r.id] \in Meaning
      BY <1>6 DEF Inv, TablesOK, Device
    <3>2. [active |-> r.active, pin |-> r.pin] = meant[r.id]
      BY <1>3, <1>6, <2>1 DEF Inv, UpdatesStay
    <3>3. meant[r.id].active = r.active /\ meant[r.id].pin = r.pin
      BY <3>2
    <3>4. QED
      BY <1>3, <1>4, <1>6, <1>10, <3>1, <3>3
  <2>2. QED
    BY <1>1, <1>7, <2>1 DEF UpdatesStay
<1>14. QED
  BY <1>9, <1>11, <1>12, <1>13 DEF Inv

-----------------------------------------------------------------------------
(* The theorems *)

\* In this step only devices that are active get a token.
ActiveOnly ==
    \A t \in tokens' \ tokens : t.identity = "device" => ById(devices, t.subject).active

\* The invariant holds at the start.
LEMMA InitInv ==
    ASSUME Init
    PROVE  Inv
<1>1. SlotsOK
  BY DEF Init, SlotsOK, Fits, Places, InHand
<1>2. TablesOK
  BY DEF Init, TablesOK, UniqueIn, TokensHaveRows, PinsExist
<1>3. Undisturbed
  BY DEF Init, Undisturbed, InHand
<1>4. UpdatesStay
  BY DEF Init, UpdatesStay
<1>5. QED
  BY <1>1, <1>2, <1>3, <1>4 DEF Inv

\* Every step keeps it, and gives no device that is not active a token.
LEMMA NextInv ==
    ASSUME Inv, [Next]_vars
    PROVE  Inv' /\ ActiveOnly
<1>1. ASSUME NEW q \in Slots, NEW d \in Devices, Register(q, d) PROVE Inv' /\ ActiveOnly
  BY <1>1, RegisterStep DEF Register, ActiveOnly
<1>2. ASSUME NEW q \in Slots, RegisterCommits(q) PROVE Inv' /\ ActiveOnly
  BY <1>2, RegisterCommitsStep DEF RegisterCommits, ActiveOnly
<1>3. ASSUME NEW q \in Slots, RegisterAnswers(q) PROVE Inv' /\ ActiveOnly
  BY <1>3, RegisterAnswersStep DEF ActiveOnly
<1>4. ASSUME NEW q \in Slots, NEW t \in tokens, AuthenticateDevice(q, t) PROVE Inv' /\ ActiveOnly
  BY <1>4, AuthenticateStep DEF AuthenticateDevice, ActiveOnly
<1>5. ASSUME NEW q \in Slots, Touch(q) \/ Abandon(q) PROVE Inv' /\ ActiveOnly
  BY <1>5, TouchOrAbandonStep DEF Touch, Abandon, ActiveOnly
<1>6. ASSUME NEW q \in Slots, NEW t \in tokens, NEW id \in Ids, NEW change \in Change,
             Update(q, t, id, change)
      PROVE  Inv' /\ ActiveOnly
  BY <1>6, UpdateStep DEF Update, ActiveOnly
<1>7. ASSUME NEW q \in Slots, LoadDevice(q) PROVE Inv' /\ ActiveOnly
  BY <1>7, LoadDeviceStep DEF LoadDevice, ActiveOnly
<1>8. ASSUME NEW q \in Slots, CheckModel(q) PROVE Inv' /\ ActiveOnly
  BY <1>8, CheckModelStep DEF CheckModel, ActiveOnly
<1>9. ASSUME NEW q \in Slots, UpdateCommits(q) PROVE Inv' /\ ActiveOnly
  BY <1>9, UpdateCommitsStep DEF UpdateCommits, ActiveOnly
<1>10. ASSUME NEW q \in Slots, NEW name \in Names, Login(q, name) PROVE Inv' /\ ActiveOnly
  BY <1>10, LoginStep DEF Login, ActiveOnly
<1>11. ASSUME NEW q \in Slots, NEW name \in Names, CreateAdmin(q, name) PROVE Inv' /\ ActiveOnly
  BY <1>11, CreateAdminStep DEF CreateAdmin, ActiveOnly
<1>12. ASSUME NEW q \in Slots, LoginAnswers(q) PROVE Inv' /\ ActiveOnly
  BY <1>12, LoginAnswersStep DEF ActiveOnly
<1>13. ASSUME NEW q \in Slots, CreateAdminCommits(q) PROVE Inv' /\ ActiveOnly
  BY <1>13, CreateAdminCommitsStep DEF CreateAdminCommits, ActiveOnly
<1>14. ASSUME NEW t \in tokens, Refresh(t) \/ Expire(t) PROVE Inv' /\ ActiveOnly
  BY <1>14, RefreshOrExpireStep DEF ActiveOnly
<1>15. ASSUME NEW row \in users, ChangeUser(row) PROVE Inv' /\ ActiveOnly
  BY <1>15, ChangeUserStep DEF ChangeUser, ActiveOnly
<1>16. ASSUME NEW m \in Models, AddModel(m) PROVE Inv' /\ ActiveOnly
  BY <1>16, AddModelStep DEF AddModel, ActiveOnly
<1>17. ASSUME NEW m \in Models, DeleteModel(m) PROVE Inv' /\ ActiveOnly
  BY <1>17, DeleteModelStep DEF DeleteModel, ActiveOnly
<1>18. CASE UNCHANGED vars
  <2>1. SlotsOK'
    BY <1>18, SlotsStay DEF Inv, vars
  <2>2. TablesOK' /\ Undisturbed' /\ UpdatesStay' /\ ActiveOnly
    BY <1>18 DEF Inv, vars, TablesOK, TokensHaveRows, PinsExist, Registered,
                 Undisturbed, Updating, StillLoaded, UpdatesStay, ActiveOnly
  <2>3. QED
    BY <2>1, <2>2 DEF Inv
<1>19. QED
  BY <1>1, <1>2, <1>3, <1>4, <1>5, <1>6, <1>7, <1>8, <1>9, <1>10, <1>11, <1>12, <1>13,
     <1>14, <1>15, <1>16, <1>17, <1>18 DEF Next

\* The invariant holds in every state.
THEOREM Invariance == Spec => []Inv
<1>1. Init => Inv
  BY InitInv
<1>2. Inv /\ [Next]_vars => Inv'
  BY NextInv
<1>3. QED
  BY <1>1, <1>2, PTL DEF Spec

\* Everything is of its kind, and a request asks for and has loaded something
\* exactly while it is under way.
THEOREM TypeCorrect == Spec => []TypeOK
<1>1. Inv => TypeOK
  BY DEF Inv, SlotsOK, TablesOK, TypeOK, Fits
<1>2. QED
  BY <1>1, Invariance, PTL

\* The unique columns, the tokens and the foreign key: however many requests
\* overlap, what refers to a row or to a model refers to one that is there.
THEOREM References == Spec => []ReferencesHold
<1>1. ASSUME Inv PROVE ReferencesHold
  <2>1. NamesAreUnique
    BY <1>1 DEF Inv, TablesOK, UniqueIn, NamesAreUnique
  <2>2. ASSUME NEW t \in tokens
        PROVE  LET row == ById(IF t.identity = "device" THEN devices ELSE users, t.subject) IN
               row # None /\ row.name = t.to
    <3> DEFINE table == IF t.identity = "device" THEN devices ELSE users
    <3>1. None \notin table /\ UniqueIn(table)
      BY <1>1, NotNone DEF Inv, TablesOK
    <3>2. PICK r \in table : r.id = t.subject /\ r.name = t.to
      BY <1>1 DEF Inv, TablesOK, TokensHaveRows
    <3> HIDE DEF table
    <3>3. ById(table, t.subject) = r /\ r # None
      BY <3>1, <3>2, Lookup
    <3>4. QED
      BY <3>2, <3>3 DEF table
  <2>3. QED
    BY <1>1, <2>1, <2>2 DEF Inv, TablesOK, TokensNameRows, ReferencesHold
<1>2. QED
  BY <1>1, Invariance, PTL

\* update_device: what an update that no other overlapped made of a device is
\* what the device's row says until the next one, or the deletion of its model.
THEOREM LastingUpdates == Spec => []UpdatesStay
<1>1. Inv => UpdatesStay
  BY DEF Inv
<1>2. QED
  BY <1>1, Invariance, PTL

\* register_device: no interleaving gives a deactivated device a token.
THEOREM NoTokenWhenDeactivated == Spec => DeactivatedGetNoToken
<1>1. Inv /\ [Next]_vars =>
          [\A t \in tokens' \ tokens :
               t.identity = "device" => ById(devices, t.subject).active]_vars
  BY NextInv DEF ActiveOnly
<1>2. QED
  BY <1>1, Invariance, PTL DEF Spec, DeactivatedGetNoToken

=============================================================================
