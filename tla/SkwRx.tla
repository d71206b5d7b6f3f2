------------------------------- MODULE SkwRx -------------------------------
(***************************************************************************)
(* The receive reordering of the EA6621Q Wi-Fi driver (skwifi/skw_rx.c)    *)
(* for one TID of one peer: struct skw_reorder_rx with its timer and its   *)
(* entry on skw->rx_todo_list, and the struct skw_tid_rx of each block-ack *)
(* session.                                                                *)
(*                                                                         *)
(* Four actors work on it: the RX thread (frames and the to-do list), the  *)
(* timer callback, the event worker (ADDBA, BAR, DELBA, peer removal) and  *)
(* the RCU callback that frees a removed session.  skw_reorder_release     *)
(* reads reorder->tid_rx again, so the RX thread is split there: the       *)
(* session may be removed, and another one added, between the two reads.   *)
(*                                                                         *)
(* A buffered list is the frame [sn, got, age]: got is the set of its      *)
(* A-MSDU subframes that have arrived ({0} for a plain MSDU) and age the   *)
(* time since its first skb came in, in units of the reorder timeout.      *)
(* A malformed (tainted) A-MSDU, and the frames skw_ampdu_reorder passes   *)
(* by the window (non-QoS, multicast, fragments), are not modelled.        *)
(***************************************************************************)
EXTENDS Integers, FiniteSets, Sequences

CONSTANTS
  SnMod,     \* IEEE80211_SN_MODULO, 4096
  U16Mod,    \* 2^16, a multiple of SnMod
  WinSize,   \* tid_rx->win_size, twice the negotiated buffer size
  Parts,     \* subframes of an A-MSDU
  Amsdu,     \* the sequence numbers that carry an A-MSDU
  MsduAge,   \* the age from which skw_is_msdu_timeout holds
  RxSns,     \* the sequence numbers the peer sends
  Ssns,      \* the starting sequence numbers it negotiates or requests
  MaxRef     \* bound: how often a session is removed

Sn   == 0 .. SnMod - 1
U16  == 0 .. U16Mod - 1
Refs == 0 .. MaxRef
Slots == 0 .. WinSize - 1
NoTid == MaxRef + 1

ASSUME WindowAssumption ==
  /\ SnMod \in Nat \ {0} /\ U16Mod \in Nat \ {0} /\ U16Mod % SnMod = 0
  /\ WinSize \in Nat \ {0} /\ 2 * WinSize <= SnMod
  /\ Parts \in Nat \ {0} /\ Amsdu \subseteq Sn /\ RxSns \subseteq Sn /\ Ssns \subseteq Sn
  /\ MsduAge \in Nat \ {0} /\ MaxRef \in Nat

VARIABLES
  tids,     \* the skw_tid_rx of every session; live: allocated
  cur,      \* reorder->tid_rx, NoTid when NULL
  reorder,  \* ref_cnt, timer, expired and todo of struct skw_reorder_rx
  rx,       \* where the RX thread is, and what it holds
  out       \* the release_list the last step handed to skw_rx_handler

vars == <<tids, cur, reorder, rx, out>>

Empty == [sn |-> 0, got |-> {}, age |-> 0]
IsEmpty(slot) == slot.got = {}

NoSession == [live |-> FALSE, win_start |-> 0, stored_num |-> 0,
              buf |-> [k \in Slots |-> Empty]]

AllParts(sn) == IF sn \in Amsdu THEN 1 .. Parts ELSE {0}

\* The frames a session holds in its buffer.
Held(t) == {t.buf[k] : k \in {j \in Slots : ~IsEmpty(t.buf[j])}}
-----------------------------------------------------------------------------
(* Sequence numbers (linux/ieee80211.h). *)

ieee80211_sn_less(a, b) == (a - b) % SnMod > SnMod \div 2
ieee80211_sn_inc(a) == (a + 1) % SnMod
ieee80211_sn_add(a, b) == (a + b) % SnMod
ieee80211_sn_sub(a, b) == (a - b) % SnMod
-----------------------------------------------------------------------------
(* The functions below work on s = [ref, t, r, out]: a session and its     *)
(* ref_cnt, the reorder struct and the release list.                       *)

Slot(s, sn) == s.t.buf[sn % WinSize]

skw_is_release_ready(slot) == ~IsEmpty(slot) /\ slot.got = AllParts(slot.sn)

\* Compares jiffies with a number of milliseconds, so it may hold later than
\* the reorder timer expires.
skw_is_msdu_timeout(slot) == slot.age >= MsduAge

del_timer(s) == [s EXCEPT !.r.pending = FALSE]

\* Mutant: a frame whose time is over already arms nothing.
set_reorder_timer_fresh_only(s, sn) ==
  IF s.r.pending \/ s.r.ref_cnt # s.ref \/ IsEmpty(Slot(s, sn)) \/ Slot(s, sn).age > 0
  THEN s
  ELSE [s EXCEPT !.r.pending = TRUE, !.r.expired_sn = sn, !.r.expired_ref = s.ref]

\* Arms the timer for the frame sn, or queues the to-do entry at once when
\* its time is over.
skw_set_reorder_timer(s, sn) ==
  IF s.r.pending \/ s.r.ref_cnt # s.ref \/ IsEmpty(Slot(s, sn)) THEN s
  ELSE IF Slot(s, sn).age = 0
  THEN [s EXCEPT !.r.pending = TRUE, !.r.expired_sn = sn, !.r.expired_ref = s.ref]
  ELSE IF s.r.actived THEN s
  ELSE [s EXCEPT !.r.seq = sn, !.r.actived = TRUE, !.r.queued = TRUE]

\* The frame of slot k goes to the tail of the release list, and the window
\* moves on.
Emptied(t, k) ==
  [t EXCEPT !.buf[k] = Empty, !.stored_num = @ - 1, !.win_start = ieee80211_sn_inc(@)]
Dequeue(s, k) == [s EXCEPT !.out = Append(@, s.t.buf[k]), !.t = Emptied(@, k)]

\* Mutant: the window is set without asking whether it lies behind.
force_release_anyway(s, to_sn) ==
  [s EXCEPT !.t.win_start = IF s.t.stored_num = 0 THEN to_sn ELSE @]

\* One round of the loop: the slot of win_start, whatever it holds.  With
\* nothing left to hand up the loop breaks; a further round changes nothing.
ForceRound(s, to_sn) ==
  LET k == s.t.win_start % WinSize
  IN  IF ~ieee80211_sn_less(s.t.win_start, ieee80211_sn_inc(to_sn)) THEN s
      ELSE IF s.t.stored_num = 0 THEN [s EXCEPT !.t.win_start = to_sn]
      ELSE IF IsEmpty(s.t.buf[k]) THEN [s EXCEPT !.t.win_start = ieee80211_sn_inc(@)]
      ELSE Dequeue(s, k)

\* Hands up every frame before and at to_sn.  The window ends at to_sn + 1,
\* or at to_sn when the buffer runs empty on the way.
skw_reorder_force_release(s, to_sn) ==
  LET late == /\ s.r.pending
              /\ s.r.ref_cnt = s.ref
              /\ \/ ieee80211_sn_less(s.r.expired_sn, to_sn)
                 \/ ieee80211_sn_less(to_sn, s.t.win_start)
      after[n \in 0 .. SnMod] ==
        IF n = 0 THEN IF late THEN del_timer(s) ELSE s
                 ELSE ForceRound(after[n - 1], to_sn)
  IN  after[SnMod]

\* One round of the loop below, at the slot of sn; mode is the local variable
\* release ("release" or "gap"), or "stop" after the break.
ReleaseRound(a, sn) ==
  LET s    == a.s
      slot == Slot(s, sn)
      due  == IF s.r.pending /\ s.r.expired_sn = s.t.win_start THEN del_timer(s) ELSE s
  IN  IF a.mode = "stop" THEN a
      ELSE IF s.t.stored_num = 0 THEN [s |-> del_timer(s), mode |-> "stop"]
      ELSE IF IsEmpty(slot) THEN [s |-> s, mode |-> IF s.r.pending THEN "stop" ELSE "gap"]
      ELSE IF a.mode = "gap"
      THEN IF skw_is_msdu_timeout(slot)
           THEN [s |-> skw_reorder_force_release(s, sn), mode |-> "release"]
           ELSE [s |-> skw_set_reorder_timer(s, sn), mode |-> "stop"]
      ELSE IF skw_is_release_ready(slot) \/ skw_is_msdu_timeout(slot)
      THEN [s |-> Dequeue(due, sn % WinSize), mode |-> "release"]
      ELSE [s |-> skw_set_reorder_timer(due, sn), mode |-> "stop"]

\* Hands up what is ready until a gap; a frame behind a gap goes up when it
\* has timed out, else the timer is armed for it.
skw_reorder_release(s) ==
  LET after[n \in 0 .. WinSize] ==
        IF n = 0 THEN [s |-> s, mode |-> "release"]
        ELSE ReleaseRound(after[n - 1], (s.t.win_start + n - 1) % U16Mod)
  IN  after[WinSize].s

\* Mutant: every subframe counts.
count_every_skb(old) == 1

\* Mutant: a frame that is released at once is not counted in, but out.
count_nothing(old) == 0

\* stored_num counts lists, not skbs.
count_first_skb(old) == IF IsEmpty(old) THEN 1 ELSE 0

\* skw_ampdu_reorder up to its last branch: s after the frame was buffered,
\* released or dropped, and whether skw_reorder_release is due.
ampdu_window(s, f) ==
  LET oob  == ~ieee80211_sn_less(f.sn, s.t.win_start + WinSize)
      a    == IF oob
              THEN skw_reorder_force_release(s, ieee80211_sn_sub(f.sn, WinSize)) ELSE s
      k    == f.sn % WinSize
      old  == a.t.buf[k]
      new  == IF IsEmpty(old) THEN [sn |-> f.sn, got |-> {f.part}, age |-> 0]
              ELSE [old EXCEPT !.got = @ \cup {f.part}]
      b    == [a EXCEPT !.t.buf[k] = new, !.t.stored_num = @ + count_first_skb(old)]
      dup  == IF f.sn \in Amsdu THEN f.part \in old.got ELSE ~IsEmpty(old)
      due  == IF b.r.pending /\ b.r.expired_sn = b.t.win_start THEN del_timer(b) ELSE b
  IN  IF ieee80211_sn_less(f.sn, s.t.win_start) THEN [s |-> s, release |-> FALSE]
      ELSE IF dup THEN [s |-> a, release |-> oob]
      ELSE IF skw_is_release_ready(new) /\ f.sn = a.t.win_start
      THEN [s |-> Dequeue(due, k), release |-> TRUE]
      ELSE [s |-> b, release |-> oob]
-----------------------------------------------------------------------------
(* The RX thread. *)

Frames == UNION {{[sn |-> n, part |-> p] : p \in AllParts(n)} : n \in RxSns}
RxIdle == [pc |-> "idle", ref |-> 0]

\* todo.seq and expired are dead while the entry is not queued and the timer
\* neither armed nor running; the model forgets them to keep the states few.
Forget(r) ==
  LET timer == r.pending \/ r.running
  IN  [r EXCEPT !.seq = IF r.queued THEN @ ELSE 0,
                !.expired_sn = IF timer THEN @ ELSE 0,
                !.expired_ref = IF timer THEN @ ELSE 0]

\* What the functions above see and what they leave behind.
View(ref, o) == [ref |-> ref, t |-> tids[ref], r |-> reorder, out |-> o]
Commit(s) == tids' = [tids EXCEPT ![s.ref] = s.t] /\ reorder' = Forget(s.r)

\* The release list is handed up; an entry on the to-do list is next.
Deliver(o, r) ==
  /\ out' = o
  /\ rx' = [RxIdle EXCEPT !.pc = IF r.queued THEN "todo" ELSE "idle"]

\* The next frame reaches skw_ampdu_reorder, which reads reorder->tid_rx; with
\* no session the frame is handed up as it is.
RxFrame ==
  /\ rx.pc = "idle"
  /\ IF cur = NoTid
     THEN \E f \in Frames : Deliver(<<[sn |-> f.sn, got |-> {f.part}, age |-> 0]>>, reorder)
     ELSE rx' = [pc |-> "frame", ref |-> reorder.ref_cnt] /\ out' = <<>>
  /\ UNCHANGED <<tids, cur, reorder>>

\* skw_ampdu_reorder with the session read before, removed since or not.
RxReorder(f) ==
  /\ rx.pc = "frame"
  /\ LET w == ampdu_window(View(rx.ref, <<>>), f)
         s == IF w.s.t.stored_num = 0 THEN del_timer(w.s)
              ELSE IF w.release THEN w.s
              ELSE skw_set_reorder_timer(w.s, f.sn)
     IN  /\ Commit(s)
         /\ IF w.s.t.stored_num > 0 /\ w.release
            THEN rx' = [rx EXCEPT !.pc = "release"] /\ out' = s.out
            ELSE Deliver(s.out, s.r)
  /\ UNCHANGED cur

\* Mutant: the entry stays marked active.
RxTodoStaysActive ==
  /\ rx.pc \in {"idle", "todo"}
  /\ reorder.queued
  /\ LET r == [reorder EXCEPT !.queued = FALSE]
         s == skw_reorder_force_release([View(cur, <<>>) EXCEPT !.r = r], reorder.seq)
     IN  IF cur = NoTid THEN UNCHANGED tids /\ reorder' = Forget(r) /\ out' = <<>>
         ELSE Commit(s) /\ out' = s.out
  /\ rx' = [RxIdle EXCEPT !.pc = "release", !.ref = reorder.ref_cnt]
  /\ UNCHANGED cur

\* skw_rx_todo: the entry is taken off the list and applied to whatever
\* session reorder->tid_rx names now.
RxTodo ==
  /\ rx.pc \in {"idle", "todo"}
  /\ reorder.queued
  /\ LET r == [reorder EXCEPT !.queued = FALSE, !.actived = FALSE]
         s == skw_reorder_force_release([View(cur, <<>>) EXCEPT !.r = r], reorder.seq)
     IN  IF cur = NoTid THEN UNCHANGED tids /\ reorder' = Forget(r) /\ out' = <<>>
         ELSE Commit(s) /\ out' = s.out
  /\ rx' = [RxIdle EXCEPT !.pc = "release", !.ref = reorder.ref_cnt]
  /\ UNCHANGED cur

\* skw_reorder_release with the session reorder->tid_rx names now.
RxRelease ==
  /\ rx.pc = "release"
  /\ LET s == skw_reorder_release(View(cur, <<>>))
     IN  IF cur = NoTid THEN UNCHANGED <<tids, reorder>> /\ Deliver(<<>>, reorder)
         ELSE Commit(s) /\ Deliver(s.out, s.r)
  /\ UNCHANGED cur
-----------------------------------------------------------------------------
(* The timer, the event worker, RCU and time. *)

\* The timer expires: from here on it is no longer pending, and del_timer
\* does not stop the callback.
TimerExpires ==
  /\ reorder.pending
  /\ reorder' = [reorder EXCEPT !.pending = FALSE, !.running = TRUE]
  /\ out' = <<>>
  /\ UNCHANGED <<tids, cur, rx>>

Queue(r, seq) ==
  IF r.actived THEN r ELSE [r EXCEPT !.actived = TRUE, !.queued = TRUE, !.seq = seq]

skw_reorder_timeout ==
  /\ reorder.running
  /\ LET r == IF reorder.ref_cnt = reorder.expired_ref
              THEN Queue(reorder, reorder.expired_sn) ELSE reorder
     IN  reorder' = Forget([r EXCEPT !.running = FALSE])
  /\ out' = <<>>
  /\ UNCHANGED <<tids, cur, rx>>

\* A block-ack request: the to-do entry is overwritten even when queued.
skw_update_tid_rx(ssn) ==
  /\ cur # NoTid
  /\ reorder' = [Queue(reorder, ssn) EXCEPT !.seq = ssn]
  /\ out' = <<>>
  /\ UNCHANGED <<tids, cur, rx>>

\* The to-do entry is reset but not taken off the list.
skw_add_tid_rx(ssn) ==
  /\ cur = NoTid
  /\ tids' = [tids EXCEPT ![reorder.ref_cnt] =
                 [NoSession EXCEPT !.live = TRUE, !.win_start = ssn]]
  /\ cur' = reorder.ref_cnt
  /\ reorder' = [reorder EXCEPT !.seq = 0, !.actived = FALSE]
  /\ out' = <<>>
  /\ UNCHANGED rx

\* del_timer_sync waits for a running callback.
skw_del_tid_rx ==
  /\ reorder.ref_cnt < MaxRef
  /\ ~reorder.running
  /\ cur' = NoTid
  /\ reorder' = Forget([reorder EXCEPT !.ref_cnt = @ + 1, !.pending = FALSE])
  /\ out' = <<>>
  /\ UNCHANGED <<tids, rx>>

\* No RCU reader that could hold the removed session r is left.
GraceOver(r) == tids[r].live /\ r # cur /\ (rx.pc \in {"idle", "todo"} \/ rx.ref > r)

\* Mutant: the session is freed without its frames.
free_tid_rx_at_once(r) ==
  /\ GraceOver(r)
  /\ tids' = [tids EXCEPT ![r] = NoSession]
  /\ out' = <<>>
  /\ UNCHANGED <<cur, rx, reorder>>

\* The RCU callback of a removed session hands up what it still holds.
skw_free_tid_rx(r) ==
  /\ GraceOver(r)
  /\ LET win_end == ieee80211_sn_add(tids[r].win_start, WinSize - 1)
         s == skw_reorder_force_release(View(r, <<>>), win_end)
     IN  /\ tids' = [tids EXCEPT ![r] = NoSession]
         /\ reorder' = Forget(s.r)
         /\ out' = s.out
  /\ UNCHANGED <<cur, rx>>

\* One reorder timeout of time.
Older(t) == [t EXCEPT !.buf = [k \in Slots |->
               IF IsEmpty(t.buf[k]) \/ t.buf[k].age = MsduAge THEN t.buf[k]
               ELSE [t.buf[k] EXCEPT !.age = @ + 1]]]

TimePasses ==
  /\ \E r \in Refs : Older(tids[r]) # tids[r]
  /\ tids' = [r \in Refs |-> Older(tids[r])]
  /\ out' = <<>>
  /\ UNCHANGED <<cur, reorder, rx>>

Init ==
  /\ tids = [r \in Refs |-> NoSession]
  /\ cur = NoTid
  /\ reorder = [ref_cnt |-> 0, pending |-> FALSE, running |-> FALSE,
                expired_sn |-> 0, expired_ref |-> 0,
                seq |-> 0, actived |-> FALSE, queued |-> FALSE]
  /\ rx = RxIdle
  /\ out = <<>>

RxThread == (\E f \in Frames : RxReorder(f)) \/ RxTodo \/ RxRelease

Next ==
  \/ RxFrame
  \/ RxThread
  \/ TimerExpires
  \/ skw_reorder_timeout
  \/ \E ssn \in Ssns : skw_update_tid_rx(ssn)
  \/ \E ssn \in Ssns : skw_add_tid_rx(ssn)
  \/ skw_del_tid_rx
  \/ \E r \in Refs : skw_free_tid_rx(r)
  \/ TimePasses

Spec == Init /\ [][Next]_vars

\* The RX thread has something to do.
RxReady == rx.pc \in {"frame", "release"} \/ reorder.queued

\* The RX thread and the timer run, time passes and grace periods end.  The
\* first and the last are weak fairness with ENABLED written out (RxReady and
\* GraceOver), which TLC evaluates far faster than ENABLED of the actions.
Fairness ==
  /\ []<>~RxReady \/ []<><<RxThread>>_vars
  /\ WF_vars(TimerExpires)
  /\ WF_vars(skw_reorder_timeout)
  /\ WF_vars(TimePasses)
  /\ \A r \in Refs : []<>~GraceOver(r) \/ []<><<skw_free_tid_rx(r)>>_vars

FairSpec == Spec /\ Fairness
-----------------------------------------------------------------------------
(* Properties. *)

ReorderType == [ref_cnt : Refs, pending : BOOLEAN, running : BOOLEAN,
                expired_sn : U16, expired_ref : Refs,
                seq : U16, actived : BOOLEAN, queued : BOOLEAN]
FrameType == [sn : Sn, got : SUBSET (0 .. Parts), age : 0 .. MsduAge]
TidType == [live : BOOLEAN, win_start : U16, stored_num : 0 .. WinSize,
            buf : [Slots -> FrameType]]

\* Every variable keeps its type.  stored_num is a counter that must never be
\* decremented below 0 nor pass the buffer size.  win_start is assigned from
\* unmasked sums (win_start + i): a stale timer for such a sum can leave it a
\* little beyond the last sequence number.
TypeOK ==
  /\ tids \in [Refs -> TidType]
  /\ cur \in Refs \cup {NoTid}
  /\ reorder \in ReorderType
  /\ rx \in [pc : {"idle", "frame", "release", "todo"}, ref : Refs]
  /\ out \in Seq(FrameType)

\* The buffer of a session is what its counters say: stored_num is the number
\* of non-empty lists, and every list of the current session holds a frame in
\* the slot of its sequence number that is not behind the window and at most
\* one beyond it (see DupCheckFindsCopies for the one beyond).
BufferConsistent ==
  /\ \A r \in Refs :
       tids[r].stored_num = Cardinality({k \in Slots : ~IsEmpty(tids[r].buf[k])})
  /\ cur # NoTid =>
       \A k \in Slots :
         LET f == tids[cur].buf[k]
         IN  ~IsEmpty(f) => /\ f.sn % WinSize = k
                            /\ (f.sn - tids[cur].win_start) % SnMod <= WinSize

\* A buffered frame is never forgotten: whenever the RX thread is done with a
\* frame, the timer is armed, its callback is under way or the to-do entry is
\* queued as long as the current session holds a frame.  And none waits for
\* nothing: "release all ready skb in reorder buffer until a gap" means that
\* the frame the window waits for is not in the buffer, complete.
NoStuckFrame ==
  /\ cur # NoTid /\ rx.pc \in {"idle", "todo"} /\ tids[cur].stored_num > 0 =>
       \/ reorder.pending
       \/ reorder.running /\ reorder.expired_ref = reorder.ref_cnt
       \/ reorder.queued
  /\ cur # NoTid /\ rx.pc = "idle" =>
       \A k \in Slots : tids[cur].buf[k].sn = tids[cur].win_start =>
                          ~skw_is_release_ready(tids[cur].buf[k])

\* Nothing that was buffered is lost and nothing is handed up twice: in every
\* step, the removal of a session included, a subframe leaves a buffer
\* exactly when it is on the release list.
FramesConserved ==
  [][\A r \in Refs : \A f \in Held(tids[r]) :
       \/ \E g \in Held(tids'[r]) : g.sn = f.sn /\ f.got \subseteq g.got
       \/ Cardinality({i \in DOMAIN out' : out'[i].sn = f.sn /\ f.got \subseteq out'[i].got}) = 1]_vars

\* What one step hands up is in sequence number order, counted from the
\* start of the window it was buffered in (the frame one beyond the window,
\* see DupCheckFindsCopies, aside).  So are different steps: the window of a
\* session only ever moves forward, whatever stale timers, to-do entries and
\* block-ack requests are applied to it.
ReleaseInOrder ==
  [][/\ \E r \in Refs :
          LET Dist(i) == (out'[i].sn - tids[r].win_start) % SnMod
          IN  \A i, j \in DOMAIN out' : i < j /\ Dist(i) # WinSize => Dist(i) < Dist(j)
     /\ \A r \in Refs : tids[r].live /\ tids'[r].live =>
          \/ (tids'[r].win_start - tids[r].win_start) % SnMod = 0
          \/ ieee80211_sn_less(tids[r].win_start, tids'[r].win_start)]_vars

\* The "dup check" finds copies: when a frame of the window meets a buffered
\* list in its slot, that list has the frame's own sequence number.
DupCheckFindsCopies ==
  cur # NoTid /\ rx.pc = "frame" =>
    \A n \in Sn :
      LET slot == tids[cur].buf[n % WinSize]
      IN  (n - tids[cur].win_start) % SnMod < WinSize /\ ~IsEmpty(slot) => slot.sn = n

\* Every buffered frame eventually leaves the buffer.
EventuallyReleased ==
  \A n \in RxSns : LET Has(t) == \E f \in Held(t) : f.sn = n
                    IN  \A r \in Refs : Has(tids[r]) ~> ~Has(tids[r])
=============================================================================
