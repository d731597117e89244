---------------------------- MODULE SessionPromise ----------------------------
(***************************************************************************)
(* What the engine promises a device: one connection is one session.  A     *)
(* session begins live in the hands of one connection, grows while it is    *)
(* live, ends once, and is recorded once with exactly what it held when it  *)
(* ended; only a crash of the process loses it.                             *)
(***************************************************************************)
EXTENDS Naturals, Sequences

CONSTANTS Conns,   \* the connections
          Nobody   \* the holder of a session that nobody holds

VARIABLES phase,    \* where each session begun so far is in its life
          holder,   \* the connection that holds it while it is live
          content,  \* how many states and anomalies it has gathered
          disk      \* the recorded sessions and what they held

promiseVars == <<phase, holder, content, disk>>

Sessions == DOMAIN phase

PromiseInit == phase = <<>> /\ holder = <<>> /\ content = <<>> /\ disk = {}

Begin(c) ==
    /\ \A s \in Sessions : holder[s] # c
    /\ phase' = Append(phase, "live")
    /\ holder' = Append(holder, c)
    /\ content' = Append(content, <<0, 0>>)
    /\ UNCHANGED disk

Grow(s) ==
    /\ phase[s] = "live"
    /\ \E k \in {1, 2} : content' = [content EXCEPT ![s][k] = @ + 1]
    /\ UNCHANGED <<phase, holder, disk>>

End(s) ==
    /\ phase[s] = "live"
    /\ phase' = [phase EXCEPT ![s] = "ending"]
    /\ holder' = [holder EXCEPT ![s] = Nobody]
    /\ UNCHANGED <<content, disk>>

Persist(s) ==
    /\ phase[s] = "ending"
    /\ phase' = [phase EXCEPT ![s] = "recorded"]
    /\ disk' = disk \cup {<<s, content[s]>>}
    /\ UNCHANGED <<holder, content>>

Discard(s) ==
    /\ disk' = {entry \in disk : entry[1] # s}
    /\ UNCHANGED <<phase, holder, content>>

Crash ==
    /\ phase' = [s \in Sessions |-> IF phase[s] = "recorded" THEN "recorded" ELSE "lost"]
    /\ holder' = [s \in Sessions |-> Nobody]
    /\ UNCHANGED <<content, disk>>

PromiseNext ==
    \/ \E c \in Conns : Begin(c)
    \/ \E s \in Sessions : Grow(s) \/ End(s) \/ Persist(s) \/ Discard(s)
    \/ Crash

PromiseSpec == PromiseInit /\ [][PromiseNext]_promiseVars

=============================================================================
