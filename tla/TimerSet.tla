------------------------------- MODULE TimerSet -------------------------------
(***************************************************************************)
(* What the software timers of the Wi-Fi driver promise to their users     *)
(* (skw_timer.h): a timer is called once after its time, unless it is      *)
(* deleted before that.  SkwSta shows that the list behind one kernel      *)
(* timer of skw_timer.c implements this.                                   *)
(***************************************************************************)
EXTENDS Integers

CONSTANTS
  Ids,    \* the ids of the timers
  Delay   \* the time a timer is armed for

VARIABLES
  armed,  \* the armed timers, with the time left
  firing  \* the timers whose time has come, not called yet

vars == <<armed, firing>>

Put(f, id, n) == [i \in DOMAIN f \cup {id} |-> IF i = id THEN n ELSE f[i]]
Without(f, S) == [i \in DOMAIN f \ S |-> f[i]]

Arm(id) ==
  /\ id \notin DOMAIN armed
  /\ armed' = Put(armed, id, Delay[id])
  /\ UNCHANGED firing

Cancel(id) ==
  /\ id \in DOMAIN armed
  /\ armed' = Without(armed, {id})
  /\ UNCHANGED firing

Tick ==
  /\ armed' = [id \in DOMAIN armed |-> IF armed[id] > 0 THEN armed[id] - 1 ELSE 0]
  /\ UNCHANGED firing

\* Never before its time, ...
Expire(S) ==
  /\ \A id \in S : armed[id] = 0
  /\ armed' = Without(armed, S)
  /\ firing' = firing \cup S

\* ... and called once.
Call(id) ==
  /\ id \in firing
  /\ firing' = firing \ {id}
  /\ UNCHANGED armed

Init == armed = <<>> /\ firing = {}

Next ==
  \/ \E id \in Ids : Arm(id) \/ Cancel(id) \/ Call(id)
  \/ Tick
  \/ \E S \in SUBSET DOMAIN armed : Expire(S)

\* No timer is forgotten: it is called or deleted, though perhaps late.
Live == \A id \in Ids : id \in DOMAIN armed \cup firing ~> id \notin DOMAIN armed \cup firing

Spec == Init /\ [][Next]_vars /\ Live
===============================================================================
