----------------------------- MODULE TimerWheel -----------------------------
(***************************************************************************)
(* server::Timer (src/src/lib/timer.cpp), the hierarchical timer wheel of  *)
(* the event loop.  One thread uses it, so that an operation runs alone;   *)
(* tick() is cut into its turns of the wheel.                              *)
(*                                                                         *)
(* Time is kept relative to m_cur_time, the moment of the last tick():     *)
(* elapsed is how long ago that was, ahead[id] how far beyond it the       *)
(* node's deadline lies (node.timeout - m_cur_time).                       *)
(***************************************************************************)
EXTENDS Integers, Sequences

CONSTANTS
    Slots,          \* m_slot_per_level
    Levels,         \* m_max_level
    Interval,       \* m_slot_interval
    Usages,         \* the sets of timeouts that the callers of a program may ask for
    MaxTimers,      \* bound: timers ever added
    MaxResets,      \* bound: resets of one timer
    MaxGap,         \* bound: most time between two calls of tick()
    MaxLate,        \* bound: a node later than this is followed no further
    Nowhere         \* no position

ASSUME TimerConstants ==
    /\ Slots \in Nat \ {0} /\ Levels \in Nat \ {0} /\ Interval \in Nat \ {0}
    /\ Usages \subseteq SUBSET Nat
    /\ {MaxTimers, MaxResets, MaxGap, MaxLate} \subseteq Nat
    /\ Nowhere \notin [level : Nat, slot : Nat]

VARIABLES
    timeouts,       \* what the callers of this program ask for
    pc,             \* where tick() stands
    wheel,          \* m_wheel: the ids of the nodes of each slot, in order
    curSlot,        \* m_cur_slot
    pos,            \* m_timer_map: level and slot of an id, or Nowhere
    nextId,         \* m_next_id
    ahead,          \* node.timeout - m_cur_time
    elapsed,        \* time since m_cur_time
    turns,          \* tick(): turns still to make
    level,          \* tick(): the level that cascades
    resets,         \* how often each timer was reset (only for its bound)
    released,       \* ids that were deleted: their owner has let go of them
    defined         \* no undefined behaviour so far

vars == <<timeouts, pc, wheel, curSlot, pos, nextId, ahead, elapsed, turns, level,
          resets, released, defined>>

Ids       == 0..MaxTimers - 1
Level     == 0..Levels - 1
Slot      == 0..Slots - 1
Position  == [level : Level, slot : Slot]

Init ==
    /\ timeouts \in Usages
    /\ pc = "idle"
    /\ wheel = [l \in Level |-> [s \in Slot |-> <<>>]]
    /\ curSlot = [l \in Level |-> 0]
    /\ pos = [id \in Ids |-> Nowhere]
    /\ nextId = 0
    /\ ahead = [id \in Ids |-> 0]
    /\ elapsed = 0
    /\ turns = 0
    /\ level = 0
    /\ resets = [id \in Ids |-> 0]
    /\ released = {}
    /\ defined = TRUE

Members(q)    == {q[i] : i \in DOMAIN q}
In(id, l, s)  == id \in Members(wheel[l][s])
HasNode(id)   == \E l \in Level, s \in Slot : In(id, l, s)

(* list::erase of the node of id. *)
Drop(q, id) ==
    IF id \notin Members(q) THEN q
    ELSE LET i == CHOOSE i \in DOMAIN q : q[i] = id
         IN [j \in 1..Len(q) - 1 |-> IF j < i THEN q[j] ELSE q[j + 1]]

-----------------------------------------------------------------------------
(* The loop of add_timer and reset_timer: how many slots away a node is, on
   each level.  One turn of a level is one slot of the next. *)
Away(ticks) ==
    LET away[l \in 0..Levels] ==
            IF l = 0 THEN ticks ELSE (away[l - 1] + curSlot[l - 1]) \div Slots
    IN away

(* Where the loop ends: the first level on which that is less than a turn. *)
LevelFor(ticks) ==
    CHOOSE l \in 0..Levels : /\ l = Levels \/ Away(ticks)[l] < Slots
                             /\ \A k \in 0..l - 1 : Away(ticks)[k] >= Slots

(* Faulty variants: slots counted from 0 instead of from the hand, and a
   level entered without regard to how far the hand below it has come. *)
PlaceFromZero(ticks) == [level |-> 0, slot |-> ticks % Slots]

PlaceUnaligned(ticks) ==
    IF ticks < Slots THEN [level |-> 0, slot |-> (curSlot[0] + ticks) % Slots]
    ELSE [level |-> 1, slot |-> (curSlot[1] + ticks \div Slots) % Slots]

Place(ticks) ==
    LET l == LevelFor(ticks)
    IN [level |-> l, slot |-> (curSlot[l] + Away(ticks)[l]) % Slots]

(* A timeout beyond the last level would index past m_wheel. *)
Fits(ticks) == LevelFor(ticks) < Levels

Calling == pc = "idle" /\ defined

AddTimer(timeout) ==
    /\ Calling
    /\ nextId < MaxTimers
    /\ Fits(timeout \div Interval)
    /\ LET p == Place(timeout \div Interval) IN
       /\ wheel' = [wheel EXCEPT ![p.level][p.slot] = Append(@, nextId)]
       /\ pos' = [pos EXCEPT ![nextId] = p]
    /\ ahead' = [ahead EXCEPT ![nextId] = timeout]
    /\ nextId' = nextId + 1
    /\ UNCHANGED <<timeouts, pc, curSlot, elapsed, turns, level, resets,
                   released, defined>>

(* del_timer takes the node out of its list but leaves the entry of the map,
   whose iterator now dangles: the id may not be used again, and its owner,
   whose connection is gone, does not.  An entry without a node is an iterator
   to a freed one: to use it is undefined. *)
DelTimer(id) ==
    /\ Calling
    /\ id < nextId /\ id \notin released
    /\ released' = released \cup {id}
    /\ IF pos[id] = Nowhere
       THEN UNCHANGED <<wheel, ahead, defined>>
       ELSE /\ wheel' = [wheel EXCEPT ![pos[id].level][pos[id].slot] = Drop(@, id)]
            /\ ahead' = [ahead EXCEPT ![id] = 0]
            /\ defined' = HasNode(id)
    /\ UNCHANGED <<timeouts, pc, curSlot, pos, nextId, elapsed, turns, level,
                   resets>>

(* Faulty variant: a reset that leaves the map as it was. *)
ResetUnmapped(id, timeout) ==
    /\ Calling
    /\ id \notin released
    /\ pos[id] # Nowhere
    /\ LET p == Place(timeout \div Interval) IN
       wheel' = [wheel EXCEPT ![pos[id].level][pos[id].slot] = Drop(@, id),
                              ![p.level][p.slot] = Append(@, id)]
    /\ ahead' = [ahead EXCEPT ![id] = timeout]
    /\ UNCHANGED <<timeouts, pc, curSlot, pos, nextId, elapsed, turns, level,
                   resets, released, defined>>

(* An id without an entry is left alone (the early return false). *)
ResetTimer(id, timeout) ==
    /\ Calling
    /\ id \notin released
    /\ pos[id] # Nowhere
    /\ Fits(timeout \div Interval)
    /\ resets[id] < MaxResets
    /\ LET p   == Place(timeout \div Interval)
           out == [wheel EXCEPT ![pos[id].level][pos[id].slot] = Drop(@, id)]
       IN /\ wheel' = [out EXCEPT ![p.level][p.slot] = Append(@, id)]
          /\ pos' = [pos EXCEPT ![id] = p]
    /\ ahead' = [ahead EXCEPT ![id] = timeout]
    /\ resets' = [resets EXCEPT ![id] = @ + 1]
    /\ defined' = HasNode(id)
    /\ UNCHANGED <<timeouts, pc, curSlot, nextId, elapsed, turns, level,
                   released>>

(* Time passes in the event loop, most of it in epoll_wait. *)
Sleep(gap) ==
    /\ Calling
    /\ elapsed + gap <= MaxGap
    /\ elapsed' = elapsed + gap
    /\ UNCHANGED <<timeouts, pc, wheel, curSlot, pos, nextId, ahead, turns,
                   level, resets, released, defined>>

-----------------------------------------------------------------------------
(* tick(). *)

Late(a) == IF a < 0 - MaxLate THEN 0 - MaxLate ELSE a

(* The whole slots that went by become turns; m_cur_time moves to now, and
   the rest of the division is forgotten. *)
Tick ==
    /\ Calling
    /\ turns' = elapsed \div Interval
    /\ ahead' = [id \in Ids |-> IF HasNode(id) THEN Late(ahead[id] - elapsed) ELSE 0]
    /\ elapsed' = 0
    /\ pc' = "turn"
    /\ UNCHANGED <<timeouts, wheel, curSlot, pos, nextId, level, resets,
                   released, defined>>

TickDone ==
    /\ pc = "turn"
    /\ turns = 0
    /\ pc' = "idle"
    /\ UNCHANGED <<timeouts, wheel, curSlot, pos, nextId, ahead, elapsed, turns,
                   level, resets, released, defined>>

(* Faulty variants: a hand that runs off its level, and only the hand of
   level 0 that moves. *)
SuccUnwrapped(l) == curSlot[l] + 1

SuccLowest(l) == IF l = 0 THEN (curSlot[0] + 1) % Slots ELSE curSlot[l]

Succ(l) == (curSlot[l] + 1) % Slots

(* The head of the inner loop: a level that came round moves the next one. *)
Climb(l, arrived, slots) ==
    IF arrived = 0 /\ l < Levels - 1
    THEN /\ level' = l + 1
         /\ curSlot' = [slots EXCEPT ![l + 1] = Succ(l + 1)]
         /\ pc' = "cascade"
    ELSE /\ level' = 0
         /\ curSlot' = slots
         /\ pc' = "fire"

Turn ==
    /\ pc = "turn"
    /\ turns > 0
    /\ turns' = turns - 1
    /\ Climb(0, Succ(0), [curSlot EXCEPT ![0] = Succ(0)])
    /\ UNCHANGED <<timeouts, wheel, pos, nextId, ahead, elapsed, resets,
                   released, defined>>

Cascading == wheel[level][curSlot[level]]

(* A node that is due: its callback runs, and the entry that leaves the map
   is that of the node after it; after the last node, libstdc++ reads the
   list's size, now 0, as the id. *)
CascadeDue ==
    /\ pc = "cascade"
    /\ defined
    /\ Cascading # <<>>
    /\ ahead[Head(Cascading)] <= 0
    /\ wheel' = [wheel EXCEPT ![level][curSlot[level]] = Tail(@)]
    /\ pos' = [pos EXCEPT ![IF Len(Cascading) > 1 THEN Cascading[2] ELSE 0] = Nowhere]
    /\ UNCHANGED <<timeouts, pc, curSlot, nextId, ahead, elapsed, turns, level,
                   resets, released, defined>>

(* A node that is not due yet is spliced to the end of a lower slot, and the
   loop goes on from there: past the end of a list it does not iterate.  That
   is undefined, and the model ends. *)
CascadeAhead ==
    /\ pc = "cascade"
    /\ defined
    /\ Cascading # <<>>
    /\ ahead[Head(Cascading)] > 0
    /\ defined' = FALSE
    /\ UNCHANGED <<timeouts, pc, wheel, curSlot, pos, nextId, ahead, elapsed,
                   turns, level, resets, released>>

CascadeDone ==
    /\ pc = "cascade"
    /\ Cascading = <<>>
    /\ Climb(level, curSlot[level], curSlot)
    /\ UNCHANGED <<timeouts, wheel, pos, nextId, ahead, elapsed, turns, resets,
                   released, defined>>

(* Faulty variant: callbacks that run but stay in the map. *)
FireMapped ==
    /\ pc = "fire"
    /\ wheel' = [wheel EXCEPT ![0][curSlot[0]] = <<>>]
    /\ pc' = "turn"
    /\ UNCHANGED <<timeouts, curSlot, pos, nextId, ahead, elapsed, turns, level,
                   resets, released, defined>>

(* Every callback of the slot under the hand runs. *)
Fire ==
    /\ pc = "fire"
    /\ LET due == Members(wheel[0][curSlot[0]]) IN
       pos' = [id \in Ids |-> IF id \in due THEN Nowhere ELSE pos[id]]
    /\ wheel' = [wheel EXCEPT ![0][curSlot[0]] = <<>>]
    /\ pc' = "turn"
    /\ UNCHANGED <<timeouts, curSlot, nextId, ahead, elapsed, turns, level,
                   resets, released, defined>>

-----------------------------------------------------------------------------

CallNext ==
    \/ \E timeout \in timeouts : AddTimer(timeout)
    \/ \E id \in Ids : DelTimer(id)
    \/ \E id \in Ids, timeout \in timeouts : ResetTimer(id, timeout)

TickNext ==
    \/ Tick \/ TickDone \/ Turn
    \/ CascadeDue \/ CascadeAhead \/ CascadeDone
    \/ Fire

Next == CallNext \/ TickNext \/ \E gap \in 1..MaxGap : Sleep(gap)

Spec == Init /\ [][Next]_vars

(* epoll_wait sleeps for the whole m_timer_interval: no event came. *)
QuietSleep == \E gap \in Interval..MaxGap : Sleep(gap)

(* The loop keeps calling tick() and finishes every call, and again and again
   it meets an interval without an event. *)
Fairness == WF_vars(TickNext) /\ SF_vars(QuietSleep)

LiveSpec == Spec /\ Fairness

-----------------------------------------------------------------------------
(* Every variable stays in its set. *)
TypeOK ==
    /\ timeouts \in Usages
    /\ pc \in {"idle", "turn", "cascade", "fire"}
    /\ wheel \in [Level -> [Slot -> Seq(Ids)]]
    /\ curSlot \in [Level -> Slot]
    /\ pos \in [Ids -> Position \cup {Nowhere}]
    /\ nextId \in 0..MaxTimers
    /\ ahead \in [Ids -> Int]
    /\ elapsed \in 0..MaxGap
    /\ turns \in Nat
    /\ level \in Level
    /\ resets \in [Ids -> 0..MaxResets]
    /\ released \in SUBSET Ids
    /\ defined \in BOOLEAN

(* No cascade can meet a node: each timeout is less than a turn of level 0, as
   the server's one timeout is (60 of 1000 slots). *)
Flat == \A t \in timeouts : t \div Interval < Slots

(* On such a server no call uses an entry of the map whose node is gone, and no
   cascade walks off its list. *)
AlwaysDefined == Flat => defined

(* There, m_timer_map knows where the node of every pending timer is, so that
   del_timer and reset_timer erase and splice from the list it is in. *)
MapAgrees ==
    Flat => \A id \in Ids, l \in Level, s \in Slot :
                In(id, l, s) => pos[id] = [level |-> l, slot |-> s]

(* tick() never walks off the list it cascades, whatever the timeouts: what
   timer.h and the README call a hierarchical wheel moves timers down its
   levels. *)
NeverWalksOff == defined

(* A callback does not run a whole slot before its deadline, however the
   calls of tick() are spaced. *)
Ran(id) == HasNode(id) /\ ~HasNode(id)' /\ pc # "idle"
NotEarly == [][\A id \in Ids : Ran(id) => ahead[id] < Interval]_vars

(* The slot that cascades was chosen for the deadlines of its nodes: however
   late the hand comes to it, each of them is due or belongs at a lower level,
   so that no node goes round a level twice. *)
CascadesDown ==
    pc = "cascade" =>
        \A id \in Members(Cascading) :
            ahead[id] > 0 => LevelFor(ahead[id] \div Interval) < level

(* A pending timer is no more than a slot late after tick() has run: the
   precision that timer.h promises. *)
Precise == \A id \in Ids : pc = "idle" /\ HasNode(id) => ahead[id] > 0 - Interval

(* On a server that is quiet again and again, every timer runs or is taken
   out, also one that was reset in between, as long as no cascade walks off. *)
EveryTimerRuns == \A id \in Ids : HasNode(id) ~> ~HasNode(id) \/ ~defined

=============================================================================
