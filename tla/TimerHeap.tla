----------------------------- MODULE TimerHeap -----------------------------
(***************************************************************************)
(* The timer heap of pjlib/src/pj/timer.c: entries in a binary heap kept   *)
(* in an array, and a table of ids in which a used id holds the slot of    *)
(* its entry and an unused one, negated, the next unused id.  The loops of *)
(* reheap_up and reheap_down are steps here, taken with the lock held;     *)
(* what happens outside the lock (the test in pj_timer_heap_schedule, the  *)
(* callbacks of pj_timer_heap_poll) interleaves with other threads.        *)
(*                                                                         *)
(* As in TsxCore, a variant that precedes an operator shows a mistake that *)
(* breaks a property.                                                      *)
(***************************************************************************)
EXTENDS Integers, FiniteSets

CONSTANTS Entries,    \* timer entries
          Callers,    \* threads that schedule and cancel, callbacks included
          Pollers,    \* threads that poll
          None,       \* no entry
          Size,       \* size asked of pj_timer_heap_create
          MaxPoll,    \* max_entries_per_poll
          MaxTime,    \* bound on the clock and on the times
          Capacity    \* bound on max_size

ASSUME NoneAssumption == None \notin Entries
ASSUME SizesAssumption == Size \in Nat /\ MaxPoll \in Nat /\ MaxTime \in Nat
ASSUME CapacityAssumption == Capacity \in Nat /\ Capacity >= Size + 2

VARIABLES heap,       \* the array
          ids,        \* timer_ids
          free,       \* timer_ids_freelist
          cur,        \* cur_size
          max,        \* max_size
          tid,        \* tid[e]: _timer_id
          when,       \* when[e]: _timer_value
          op,         \* the loop in progress under the lock
          call,       \* call[c]: what caller c is doing
          poll,       \* poll[p]: what poller p is doing
          clock,
          failed      \* the assertion of cancel has failed

arrays == <<heap, ids, free, cur, max, tid, when, op>>
vars   == <<arrays, call, poll, clock, failed>>

Slots == 0..Capacity - 1

Parent(s) == IF s = 0 THEN 0 ELSE (s - 1) \div 2
Left(s) == s + s + 1

\* A loop moves hole towards where entry belongs: up from a new slot, up or
\* down from a slot that a removal has left.
Loops == [kind : {"none", "insert", "up", "down"},
          entry : Entries \cup {None}, hole : Slots]

NoLoop == [kind |-> "none", entry |-> None, hole |-> 0]

Idle == [pc |-> "idle", entry |-> None, time |-> 0]

\* expired: an entry is out of the heap, its callback not yet called.
Resting == [pc |-> "resting", entry |-> None, now |-> 0, count |-> 0]

\* Every field has its type; ids stay inside the table.
TypeOK ==
    /\ heap \in [Slots -> Entries \cup {None}]
    /\ ids \in [Slots -> (0 - Capacity)..Capacity - 1]
    /\ free \in 1..Capacity
    /\ cur \in 0..Capacity - 1 /\ max \in 2..Capacity
    /\ tid \in [Entries -> {-1} \cup Slots]
    /\ when \in [Entries -> 0..MaxTime]
    /\ op \in Loops
    /\ call \in [Callers -> [pc : {"idle", "insert"}, entry : Entries \cup {None},
                             time : 0..MaxTime]]
    /\ poll \in [Pollers -> [pc : {"resting", "polling", "expired"},
                             entry : Entries \cup {None},
                             now : 0..MaxTime, count : 0..MaxPoll]]
    /\ clock \in 0..MaxTime
    /\ failed \in BOOLEAN

ChainedShort(table, n, limit) ==
    [i \in Slots |-> IF n < i /\ i < limit THEN -(i + 1) ELSE table[i]]

\* Ids from n on are unused, each followed by the next.
Chained(table, n, limit) ==
    [i \in Slots |-> IF n <= i /\ i < limit THEN -(i + 1) ELSE table[i]]

\* pj_timer_heap_create; an entry comes from pj_timer_entry_init, or is zeroed
\* by its owner, as that of a transport.
Init == /\ heap = [s \in Slots |-> None]
        /\ max = Size + 2
        /\ ids = Chained([i \in Slots |-> 0], 0, Size + 2)
        /\ free = 1
        /\ cur = 0
        /\ tid \in [Entries -> {-1, 0}]
        /\ when = [e \in Entries |-> 0]
        /\ op = NoLoop
        /\ call = [c \in Callers |-> Idle]
        /\ poll = [p \in Pollers |-> Resting]
        /\ clock = 0
        /\ failed = FALSE

-----------------------------------------------------------------------------
(* Inside the lock *)

Unlocked == op.kind = "none"

CopyNodeKeepsId(h, table, slot, e) ==
    /\ heap' = [h EXCEPT ![slot] = e]
    /\ ids' = table

\* copy_node.
CopyNode(h, table, slot, e) ==
    /\ heap' = [h EXCEPT ![slot] = e]
    /\ ids' = [table EXCEPT ![tid[e]] = slot]

\* One turn of a loop: the entry in slot s takes the hole, which goes on to s.
Swap(s) == /\ CopyNode(heap, ids, op.hole, heap[s])
           /\ op' = [op EXCEPT !.hole = s]
           /\ UNCHANGED <<free, cur, max, tid, when>>

\* The end of a loop.
Settle == /\ CopyNode(heap, ids, op.hole, op.entry)
          /\ cur' = IF op.kind = "insert" THEN cur + 1 ELSE cur
          /\ op' = NoLoop
          /\ UNCHANGED <<free, max, tid, when>>

\* reheap_up, at the end of insert_node or of remove_node.
ReheapUp ==
    LET p == Parent(op.hole)
    IN  /\ op.kind \in {"insert", "up"}
        /\ IF op.hole > 0 /\ when[op.entry] < when[heap[p]] THEN Swap(p) ELSE Settle
        /\ UNCHANGED <<call, poll, clock, failed>>

LeftChild(s) == Left(s)

\* The child with the smaller time.
SmallerChild(s) ==
    LET c == Left(s)
    IN  IF c + 1 < cur /\ when[heap[c + 1]] < when[heap[c]] THEN c + 1 ELSE c

\* reheap_down, at the end of remove_node.
ReheapDown ==
    LET c == SmallerChild(op.hole)
    IN  /\ op.kind = "down"
        /\ IF Left(op.hole) < cur /\ when[heap[c]] < when[op.entry] THEN Swap(c) ELSE Settle
        /\ UNCHANGED <<call, poll, clock, failed>>

DirectionDown(e, p) == "down"

\* The moved entry goes down unless it is earlier than its new parent p: it may
\* come from another branch of the heap.
Direction(e, p) == IF when[e] >= when[p] THEN "down" ELSE "up"

\* remove_node.  The slot past the end is not read again, and forgotten here.
RemoveNode(slot) ==
    LET e == heap[slot]
        last == cur - 1
        moved == heap[last]
        rest == [heap EXCEPT ![last] = None]
        table == [ids EXCEPT ![tid[e]] = 0 - free]
        parent == IF slot = 0 THEN moved ELSE heap[Parent(slot)]
    IN  /\ free' = tid[e]
        /\ cur' = last
        /\ tid' = [tid EXCEPT ![e] = -1]
        /\ IF slot < last
           THEN /\ CopyNode(rest, table, slot, moved)
                /\ op' = [kind |-> Direction(moved, parent), entry |-> moved, hole |-> slot]
           ELSE heap' = rest /\ ids' = table /\ UNCHANGED op
        /\ UNCHANGED <<max, when>>

-----------------------------------------------------------------------------
(* The callers *)

\* pj_timer_heap_schedule up to the lock: an entry that is scheduled is refused,
\* and the time is computed.  The test is made without the lock, so the users of
\* an entry have to schedule it one at a time.
Schedule(c, e, d) ==
    /\ call[c] = Idle
    /\ \A b \in Callers : call[b].entry # e
    /\ tid[e] < 1
    /\ clock + d <= MaxTime
    /\ call' = [call EXCEPT ![c] = [pc |-> "insert", entry |-> e, time |-> clock + d]]
    /\ UNCHANGED <<arrays, poll, clock, failed>>

FullLate == cur + 1 >= max

\* insert_node doubles the table before it is full.
Full == cur + 2 >= max

\* schedule_entry and insert_node up to reheap_up: take an id, grow if need be.
Insert(c) ==
    LET e == call[c].entry
    IN  /\ call[c].pc = "insert" /\ Unlocked
        /\ cur < max
        /\ Full => 2 * max <= Capacity
        /\ tid' = [tid EXCEPT ![e] = free]
        /\ when' = [when EXCEPT ![e] = call[c].time]
        /\ free' = 0 - ids[free]
        /\ max' = IF Full THEN 2 * max ELSE max
        /\ ids' = IF Full THEN Chained(ids, max, 2 * max) ELSE ids
        /\ op' = [kind |-> "insert", entry |-> e, hole |-> cur]
        /\ call' = [call EXCEPT ![c] = Idle]
        /\ UNCHANGED <<heap, cur, poll, clock, failed>>

\* pj_timer_heap_cancel, when it finds the entry; otherwise it changes nothing.
Cancel(c, e) ==
    /\ call[c] = Idle /\ Unlocked
    /\ tid[e] >= 0 /\ tid[e] <= max /\ ids[tid[e]] >= 0
    /\ IF heap[ids[tid[e]]] = e
       THEN RemoveNode(ids[tid[e]]) /\ UNCHANGED failed
       ELSE failed' = TRUE /\ UNCHANGED arrays
    /\ UNCHANGED <<call, poll, clock>>

-----------------------------------------------------------------------------
(* The pollers: pj_timer_heap_poll *)

PollStart(p) ==
    /\ poll[p].pc = "resting" /\ cur # 0
    /\ poll' = [poll EXCEPT ![p] = [pc |-> "polling", entry |-> None,
                                    now |-> clock, count |-> 0]]
    /\ UNCHANGED <<arrays, call, clock, failed>>

PollNext(p) ==
    LET me == poll[p]
    IN  /\ me.pc = "polling" /\ Unlocked
        /\ IF cur # 0 /\ when[heap[0]] <= me.now /\ me.count < MaxPoll
           THEN /\ poll' = [poll EXCEPT ![p] = [me EXCEPT !.pc = "expired",
                                !.entry = heap[0], !.count = @ + 1]]
                /\ RemoveNode(0)
           ELSE /\ poll' = [poll EXCEPT ![p] = Resting]
                /\ UNCHANGED arrays
        /\ UNCHANGED <<call, clock, failed>>

\* The callback, once the loop has ended and the lock is released.  The calls
\* it makes are those of a caller.
Callback(p) ==
    /\ poll[p].pc = "expired" /\ Unlocked
    /\ poll' = [poll EXCEPT ![p] = [@ EXCEPT !.pc = "polling", !.entry = None]]
    /\ UNCHANGED <<arrays, call, clock, failed>>

Tick == /\ clock < MaxTime
        /\ clock' = clock + 1
        /\ UNCHANGED <<arrays, call, poll, failed>>

-----------------------------------------------------------------------------

Next == \/ ReheapUp \/ ReheapDown \/ Tick
        \/ \E c \in Callers :
              \/ Insert(c)
              \/ \E e \in Entries : Cancel(c, e)
              \/ \E e \in Entries, d \in 0..MaxTime : Schedule(c, e, d)
        \/ \E p \in Pollers : PollStart(p) \/ PollNext(p) \/ Callback(p)

Spec == Init /\ [][Next]_vars

-----------------------------------------------------------------------------
(* Invariants *)

Used(s) == s \in Slots /\ s < cur

\* Between operations no entry is earlier than its parent, whatever was
\* inserted, cancelled from the middle or moved from another branch.
HeapOrdered ==
    Unlocked => \A s \in Slots \ {0} : Used(s) =>
                    when[heap[Parent(s)]] <= when[heap[s]]

\* Between operations the array and the table of ids agree: an entry has an id
\* exactly when it is in the heap, and its id leads to its slot.
IdsMatch ==
    Unlocked => /\ \A s \in Slots : Used(s) =>
                       heap[s] # None /\ tid[heap[s]] > 0 /\ ids[tid[heap[s]]] = s
                /\ \A e \in Entries : tid[e] > 0 =>
                       Used(ids[tid[e]]) /\ heap[ids[tid[e]]] = e

Unused == {i \in Slots : 0 < i /\ i < max /\ ids[i] < 0}

\* The ids on the free list, in its order.
Listed[n \in 0..Capacity] ==
    IF n = 0 THEN free
    ELSE LET i == Listed[n - 1] IN IF i < max THEN 0 - ids[i] ELSE max

\* No id is lost or given out twice: the free list holds every unused id once
\* and leads to the end of the table, where the next growth goes on with it;
\* and there is always one left for the next entry.
FreeIdsKept ==
    Unlocked => LET n == Cardinality(Unused)
                IN  /\ n > 0 /\ n + cur = max - 1
                    /\ {Listed[i] : i \in 0..n - 1} = Unused
                    /\ Listed[n] = max

\* pj_assert(entry == ht->heap[timer_node_slot]) in cancel: an id never leads
\* to another entry.
CancelsItself == ~failed

-----------------------------------------------------------------------------
(* The abstract specification *)

Set == INSTANCE TimerSet WITH armed <- {e \in Entries : tid[e] > 0},
                              calling <- [p \in Pollers |-> poll[p].entry]

\* The heap is a set of timers: a poll calls back an entry that is due and
\* that no scheduled entry precedes, and a cancelled entry is never called
\* back, however the array and the free list stand.
KeepsTimerSet == [][Set!SetNext]_(Set!setVars)
=============================================================================
