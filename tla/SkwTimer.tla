------------------------------- MODULE SkwTimer -------------------------------
(***************************************************************************)
(* The software timers of the Wi-Fi driver (skwifi/skw_timer.c): a list of *)
(* timeouts behind one kernel timer, whose handler runs the callbacks of   *)
(* the expired ones after it has dropped the lock.  The users compose it:  *)
(* they add and delete timers and define what a callback does.             *)
(*                                                                         *)
(* Time is what is left until a timeout; one unit stands for the shortest  *)
(* timeout.  A timeout that has passed stays at 0.                         *)
(***************************************************************************)
EXTENDS Integers, Sequences, SequencesExt

CONSTANTS
  Ids,    \* the ids of the timers
  Delay   \* the time a timer is added for

ASSUME TimerAssumption == Delay \in [Ids -> Nat \ {0}]

VARIABLE timer_data
  \* list:   the timers in the order of the list, with the time left
  \* kernel: the time left of the kernel timer, or Off
  \* expired: the ids on timeout_list while the handler runs
  \* runs:   the handler is between its two lock sections

Off == -1
NoTimers == [list |-> <<>>, kernel |-> Off, expired |-> <<>>, runs |-> FALSE]

Armed == {timer_data.list[i].id : i \in DOMAIN timer_data.list}

\* mod_timer for the first entry; an empty list leaves the kernel timer alone.
mod_timer(list) == IF list = <<>> THEN timer_data.kernel ELSE Head(list).left

\* The list with a new timer: behind the first one that is due later or at the
\* same time, at the head if there is none.  So the head, for which the kernel
\* timer is armed, is the one that is due last.
list_add(list, id) ==
  LET later == {i \in DOMAIN list : Delay[id] <= list[i].left}
      pos   == IF later = {} THEN 0 ELSE CHOOSE i \in later : \A j \in later : i <= j
  IN  InsertAt(list, pos + 1, [id |-> id, left |-> Delay[id]])

\* An id that is on the list already is refused (-EINVAL).
skw_add_timer_work(id) ==
  IF id \in Armed
  THEN UNCHANGED timer_data
  ELSE LET list == list_add(timer_data.list, id)
       IN  timer_data' = [timer_data EXCEPT !.list = list, !.kernel = mod_timer(list)]

\* The list without a timer, if it is there.
list_del(list, id) ==
  LET found == {i \in DOMAIN list : list[i].id = id}
  IN  IF found = {} THEN list ELSE RemoveAt(list, CHOOSE i \in found : TRUE)

\* Mutant: the kernel timer is stopped with the timer it was armed for.
del_stops_kernel(id) ==
  LET list == list_del(timer_data.list, id)
  IN  timer_data' = [timer_data EXCEPT !.list = list,
                       !.kernel = IF Head(timer_data.list \o <<[id |-> id]>>).id = id THEN Off ELSE @]

\* A timer that is not on the list, or is expired, is not deleted.
skw_del_timer_work(id) ==
  LET list == list_del(timer_data.list, id)
  IN  timer_data' = [timer_data EXCEPT !.list = list, !.kernel = mod_timer(list)]

\* The kernel timer fires: the entries up to the first one that is not due
\* move to timeout_list, one by one to its head.
skw_timer_work ==
  /\ timer_data.kernel = 0 /\ ~timer_data.runs
  /\ LET list == timer_data.list
         due  == {i \in DOMAIN list : \A j \in 1..i : list[j].left = 0}
         n    == Cardinality(due)
     IN  timer_data' = [list |-> SubSeq(list, n + 1, Len(list)),
                        kernel |-> Off,
                        expired |-> Reverse([i \in 1..n |-> list[i].id]),
                        runs |-> TRUE]

\* The next callback is called; the user's action says what it does.
callback(id) ==
  /\ timer_data.runs /\ timer_data.expired # <<>>
  /\ id = Head(timer_data.expired)
  /\ timer_data' = [timer_data EXCEPT !.expired = Tail(@)]

\* The handler arms the kernel timer for what is left.
rearm ==
  /\ timer_data.runs /\ timer_data.expired = <<>>
  /\ timer_data' = [timer_data EXCEPT !.runs = FALSE, !.kernel = mod_timer(timer_data.list)]

Older(n) == IF n > 0 THEN n - 1 ELSE n
Aged(entry) == [entry EXCEPT !.left = Older(@)]

\* Time passes.
Tick ==
  /\ timer_data.kernel > 0
  /\ timer_data' = [timer_data EXCEPT
       !.list = [i \in DOMAIN timer_data.list |-> Aged(timer_data.list[i])],
       !.kernel = Older(@)]

TimerType ==
  /\ timer_data.list \in Seq([id: Ids, left: Nat])
  /\ timer_data.kernel \in Nat \cup {Off}
  /\ timer_data.expired \in Seq(Ids)
  /\ timer_data.runs \in BOOLEAN
===============================================================================
