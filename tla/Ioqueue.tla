------------------------------ MODULE Ioqueue ------------------------------
(***************************************************************************)
(* The select() I/O queue of pjlib/src/pj/ioqueue_select.c and             *)
(* ioqueue_common_abs.c, with the safe unregistration of its keys: threads *)
(* that poll, and that start reads, complete them, register and unregister *)
(* keys meanwhile, outside and inside callbacks.                           *)
(*                                                                         *)
(* What the code does with the queue's lock held is one step.  A key's     *)
(* mutex is held over several steps: Holds says by whom.   The queue reads *)
(* only: of writes, accept and connect the handling of the key is alike.   *)
(* A read that finds its data at once concerns the queue not at all.       *)
(* An operator before another one, which its comment calls a mutant of it, *)
(* shows a mistake that breaks a property.                                 *)
(***************************************************************************)
EXTENDS Integers, FiniteSets

CONSTANTS Threads,
          Keys,   \* the keys made by pj_ioqueue_create, max of them
          Fds,    \* descriptors, which are used again after they are closed
          Ops,    \* operation keys of the application
          None

ASSUME ThreadsAssumption == IsFiniteSet(Threads)
ASSUME NoneAssumption == None \notin Keys \cup Fds \cup Ops

VARIABLES list,     \* list[k]: the list that key k is in
          closing,  \* key->closing
          refs,     \* key->ref_count
          fd,       \* key->fd
          cb,       \* key->cb is set, and so the socket is open and counted
          allow,    \* key->allow_concurrent
          reads,    \* the operations in key->read_list
          rfdset,   \* ioqueue->rfdset
          poll,     \* poll[t]: where thread t is in pj_ioqueue_poll
          call      \* call[t]: the call that t makes, perhaps from a callback

vars == <<list, closing, refs, fd, cb, allow, reads, rfdset, poll, call>>

keyVars == <<list, closing, refs, fd, cb, allow, reads, rfdset>>

\* set: the copy of rfdset, or what select() left of it; events: the keys with
\* an event to dispatch still; key, op: those that are dispatched now; locked:
\* with key's mutex held (has_lock).
Polls == [at : {"out", "select", "scan", "dispatch", "completed", "callback", "release"},
          set : SUBSET Fds, events : SUBSET Keys,
          key : Keys \cup {None}, op : Ops \cup {None}, locked : BOOLEAN]

\* recv: between its two tests of closing; closed, marked: in unregister;
\* posted: in the callback that post_completion calls.
Calls == [at : {"none", "recv", "closed", "marked", "posted"},
          key : Keys \cup {None}, op : Ops \cup {None}]

NoPoll == [at |-> "out", set |-> {}, events |-> {}, key |-> None, op |-> None, locked |-> FALSE]

NoCall == [at |-> "none", key |-> None, op |-> None]

TypeOK ==
    /\ list \in [Keys -> {"free", "active", "closing"}]
    /\ closing \in [Keys -> BOOLEAN]
    /\ refs \in [Keys -> Nat]
    /\ fd \in [Keys -> Fds \cup {None}]
    /\ cb \in [Keys -> BOOLEAN]
    /\ allow \in [Keys -> BOOLEAN]
    /\ reads \in [Keys -> SUBSET Ops]
    /\ rfdset \in SUBSET Fds
    /\ poll \in [Threads -> Polls]
    /\ call \in [Threads -> Calls]

Init ==
    /\ list = [k \in Keys |-> "free"]
    /\ closing = [k \in Keys |-> FALSE]
    /\ refs = [k \in Keys |-> 0]
    /\ fd = [k \in Keys |-> None]
    /\ cb = [k \in Keys |-> FALSE]
    /\ allow = [k \in Keys |-> FALSE]
    /\ reads = [k \in Keys |-> {}]
    /\ rfdset = {}
    /\ poll = [t \in Threads |-> NoPoll]
    /\ call = [t \in Threads |-> NoCall]

-----------------------------------------------------------------------------
(* The state of the keys and of the threads *)

\* The sockets that the keys have: unregister closes the descriptor and clears
\* the callbacks with the queue's lock held.
Open == {fd[k] : k \in {j \in Keys : cb[j]}}

\* Mutant of Locks: the mutex is released before the callback of any key.
LocksNever(k) == FALSE

\* The callback of k is called with its mutex held.
Locks(k) == ~allow[k]

\* Thread t is between the steps of unregistering k.
Closes(t, k) == call[t].at \in {"closed", "marked"} /\ call[t].key = k

\* Thread t has the mutex of k.
Holds(t, k) ==
    \/ poll[t].at \in {"completed", "callback"} /\ poll[t].locked /\ poll[t].key = k
    \/ Closes(t, k)

\* The mutex of k is free, or it is t's own: it is recursive.
MayLock(t, k) == \A u \in Threads \ {t} : ~Holds(u, k)

\* A thread may make a call of its own accord or from a callback; with a key
\* locked it uses no other key, since two threads that did could wait for each
\* other for ever.
MayCall(t) == call[t].at = "none" /\ poll[t].at \in {"out", "callback"}

MayUse(t, k) == MayCall(t) /\ \A j \in Keys : Holds(t, j) => j = k

\* The keys that scan_closing_keys puts back to the free list: the delay of
\* PJ_IOQUEUE_KEY_FREE_DELAY is over for some, and it is longer than a call
\* that another thread has begun on the key.
Expired == {k \in Keys : list[k] = "closing" /\ \A t \in Threads : call[t].key # k}

ScanClosing(done) == [k \in Keys |-> IF k \in done THEN "free" ELSE list[k]]

\* An operation that the application has not got back.
Pending(op) ==
    \/ \E k \in Keys : cb[k] /\ op \in reads[k]
    \/ \E t \in Threads : \/ call[t].at = "recv" /\ call[t].op = op
                          \/ poll[t].at = "completed" /\ poll[t].op = op

-----------------------------------------------------------------------------
(* The application *)

\* pj_ioqueue_register_sock, unless it finds the queue full; the descriptor is
\* one that is not in use.
Register(t, k, f, concurrent) ==
    /\ MayCall(t)
    /\ f \notin Open
    /\ \E done \in SUBSET Expired :
          /\ ScanClosing(done)[k] = "free"
          /\ list' = [ScanClosing(done) EXCEPT ![k] = "active"]
    /\ closing' = [closing EXCEPT ![k] = FALSE]
    /\ refs' = [refs EXCEPT ![k] = @ + 1]
    /\ fd' = [fd EXCEPT ![k] = f]
    /\ cb' = [cb EXCEPT ![k] = TRUE]
    /\ allow' = [allow EXCEPT ![k] = concurrent]
    /\ reads' = [reads EXCEPT ![k] = {}]
    /\ UNCHANGED <<rfdset, poll, call>>

\* pj_ioqueue_recv: the key is not closing, and there is no data yet.
StartRead(t, k, op) ==
    /\ MayUse(t, k)
    /\ list[k] # "free" /\ ~closing[k]
    /\ ~Pending(op)
    /\ call' = [call EXCEPT ![t] = [at |-> "recv", key |-> k, op |-> op]]
    /\ UNCHANGED <<keyVars, poll>>

\* Mutant of Refused: a key that was closed meanwhile is not noticed.
RefusedNever(k) == FALSE

\* The key was closed after the first test.
Refused(k) == closing[k]

\* ... which takes the mutex and tests again.
AddRead(t) ==
    LET k == call[t].key
    IN  /\ call[t].at = "recv" /\ MayLock(t, k)
        /\ IF Refused(k)
           THEN UNCHANGED <<reads, rfdset>>
           ELSE /\ reads' = [reads EXCEPT ![k] = @ \cup {call[t].op}]
                /\ rfdset' = rfdset \cup {fd[k]}
        /\ call' = [call EXCEPT ![t] = NoCall]
        /\ UNCHANGED <<list, closing, refs, fd, cb, allow, poll>>

\* pj_ioqueue_post_completion: the operation is pending still.  The callback
\* is called with the mutex released, whatever allow_concurrent says.
PostCompletion(t, k, op) ==
    /\ MayUse(t, k) /\ MayLock(t, k)
    /\ cb[k] /\ op \in reads[k]
    /\ reads' = [reads EXCEPT ![k] = @ \ {op}]
    /\ call' = [call EXCEPT ![t] = [at |-> "posted", key |-> k, op |-> op]]
    /\ UNCHANGED <<list, closing, refs, fd, cb, allow, rfdset, poll>>

PostReturns(t) ==
    /\ call[t].at = "posted"
    /\ call' = [call EXCEPT ![t] = NoCall]
    /\ UNCHANGED <<keyVars, poll>>

\* pj_ioqueue_unregister, which the application calls once for a key: with
\* both locks, the descriptor leaves the set and is closed ...
Unregister(t, k) ==
    /\ MayUse(t, k) /\ MayLock(t, k)
    /\ cb[k]
    /\ rfdset' = rfdset \ {fd[k]}
    /\ cb' = [cb EXCEPT ![k] = FALSE]
    /\ call' = [call EXCEPT ![t] = [at |-> "closed", key |-> k, op |-> None]]
    /\ UNCHANGED <<list, closing, refs, fd, allow, reads, poll>>

\* ... the queue's lock is released and the key marked ...
MarkClosing(t) ==
    /\ call[t].at = "closed"
    /\ closing' = [closing EXCEPT ![call[t].key] = TRUE]
    /\ call' = [call EXCEPT ![t].at = "marked"]
    /\ UNCHANGED <<list, refs, fd, cb, allow, reads, rfdset, poll>>

\* decrement_counter
Decrement(k) ==
    /\ refs' = [refs EXCEPT ![k] = @ - 1]
    /\ list' = IF refs[k] = 1 THEN [list EXCEPT ![k] = "closing"] ELSE list

\* ... and the reference of the registration is given up.
EndUnregister(t) ==
    /\ call[t].at = "marked"
    /\ Decrement(call[t].key)
    /\ call' = [call EXCEPT ![t] = NoCall]
    /\ UNCHANGED <<closing, fd, cb, allow, reads, rfdset, poll>>

-----------------------------------------------------------------------------
(* pj_ioqueue_poll *)

\* There is nothing to wait for: only the closing keys are looked through.
PollNothing(t) ==
    /\ poll[t].at = "out" /\ call[t].at = "none" /\ rfdset = {}
    /\ \E done \in SUBSET Expired \ {{}} : list' = ScanClosing(done)
    /\ UNCHANGED <<closing, refs, fd, cb, allow, reads, rfdset, poll, call>>

CopySet(t) ==
    /\ poll[t].at = "out" /\ call[t].at = "none" /\ rfdset # {}
    /\ poll' = [poll EXCEPT ![t].at = "select", ![t].set = rfdset]
    /\ UNCHANGED <<keyVars, call>>

\* select() reports some of the descriptors, although they may have been
\* closed, and used again, since they were copied; or it times out or fails.
Select(t, ready) ==
    /\ poll[t].at = "select" /\ ready \subseteq poll[t].set
    /\ poll' = [poll EXCEPT ![t] = IF ready = {} THEN NoPoll
                                   ELSE [NoPoll EXCEPT !.at = "scan", !.set = ready]]
    /\ UNCHANGED <<keyVars, call>>

\* The keys with an event for thread t.
Eligible(t) ==
    {k \in Keys : list[k] = "active" /\ reads[k] # {} /\ fd[k] \in poll[t].set /\ ~closing[k]}

\* Mutant of Counts: the threads that poll a key are not counted.
CountsNobody(events) == refs

\* increment_counter, for each event.
Counts(events) == [k \in Keys |-> IF k \in events THEN refs[k] + 1 ELSE refs[k]]

\* As many events as select() has reported.
Scan(t, events) ==
    /\ poll[t].at = "scan"
    /\ events \subseteq Eligible(t)
    /\ \/ events = Eligible(t) /\ Cardinality(events) <= Cardinality(poll[t].set)
       \/ Cardinality(events) = Cardinality(poll[t].set)
    /\ refs' = Counts(events)
    /\ poll' = [poll EXCEPT ![t] = IF events = {} THEN NoPoll
                                   ELSE [NoPoll EXCEPT !.at = "dispatch", !.events = events]]
    /\ UNCHANGED <<list, closing, fd, cb, allow, reads, rfdset, call>>

\* ioqueue_dispatch_read_event: an event that is stale, since the key is
\* closing or another thread has done its read ...
DispatchStale(t, k) ==
    /\ poll[t].at = "dispatch" /\ k \in poll[t].events
    /\ MayLock(t, k)
    /\ closing[k] \/ reads[k] = {}
    /\ poll' = [poll EXCEPT ![t].at = "release", ![t].key = k]
    /\ UNCHANGED <<keyVars, call>>

\* ... or a read, with its data or an error.
Dispatch(t, k, op) ==
    /\ poll[t].at = "dispatch" /\ k \in poll[t].events
    /\ MayLock(t, k)
    /\ ~closing[k] /\ op \in reads[k]
    /\ reads' = [reads EXCEPT ![k] = @ \ {op}]
    /\ rfdset' = IF reads[k] = {op} THEN rfdset \ {fd[k]} ELSE rfdset
    /\ poll' = [poll EXCEPT ![t].at = "completed", ![t].key = k, ![t].op = op,
                            ![t].locked = Locks(k)]
    /\ UNCHANGED <<list, closing, refs, fd, cb, allow, call>>

\* The callback is called, if the key was not closed since.
Complete(t) ==
    LET k == poll[t].key
    IN  /\ poll[t].at = "completed"
        /\ poll' = [poll EXCEPT ![t].at = IF cb[k] /\ ~closing[k] THEN "callback" ELSE "release"]
        /\ UNCHANGED <<keyVars, call>>

CallbackReturns(t) ==
    /\ poll[t].at = "callback" /\ call[t].at = "none"
    /\ poll' = [poll EXCEPT ![t].at = "release"]
    /\ UNCHANGED <<keyVars, call>>

\* decrement_counter, and on to the next event.
Release(t) ==
    LET k    == poll[t].key
        left == poll[t].events \ {k}
    IN  /\ poll[t].at = "release"
        /\ Decrement(k)
        /\ poll' = [poll EXCEPT ![t] = IF left = {} THEN NoPoll
                                       ELSE [NoPoll EXCEPT !.at = "dispatch", !.events = left]]
        /\ UNCHANGED <<closing, fd, cb, allow, reads, rfdset, call>>

-----------------------------------------------------------------------------

Application(t) ==
    \/ \E k \in Keys :
          \/ \E f \in Fds, concurrent \in BOOLEAN : Register(t, k, f, concurrent)
          \/ \E op \in Ops : StartRead(t, k, op) \/ PostCompletion(t, k, op)
          \/ Unregister(t, k)
    \/ AddRead(t) \/ PostReturns(t) \/ MarkClosing(t) \/ EndUnregister(t)

Poll(t) ==
    \/ PollNothing(t) \/ CopySet(t)
    \/ \E ready \in SUBSET Fds : Select(t, ready)
    \/ \E events \in SUBSET Keys : Scan(t, events)
    \/ \E k \in Keys : DispatchStale(t, k) \/ \E op \in Ops : Dispatch(t, k, op)
    \/ Complete(t) \/ CallbackReturns(t) \/ Release(t)

Next == \E t \in Threads : Application(t) \/ Poll(t)

Spec == Init /\ [][Next]_vars

-----------------------------------------------------------------------------
(* Properties *)

\* A read that waits is in the set that select() is given, and a descriptor
\* that was closed is not, even one that another key has got since: the first
\* would never complete, the second makes every select() fail ("If we add bad
\* handle to the set it will corrupt the ioqueue set", pj_ioqueue_recv).
SetMatches ==
    /\ \A k \in Keys : cb[k] /\ reads[k] # {} => fd[k] \in rfdset
    /\ rfdset \subseteq Open

\* A key that a thread has still to dispatch an event of, or is in the callback
\* of, is not put away to be used for another socket; it is when the last of
\* them is done, and it is closing then (increment_counter, decrement_counter
\* and the assertion in it).
KeyKept ==
    /\ \A t \in Threads : \A k \in poll[t].events : list[k] = "active"
    /\ \A k \in Keys : /\ list[k] = "active" <=> refs[k] > 0
                       /\ list[k] = "closing" => closing[k]

InCallback(t, k) == poll[t].at = "callback" /\ poll[t].key = k

\* "With concurrency disabled, only one thread can call the key's callback at
\* one time", and while it does no other thread unregisters the key
\* (pj_ioqueue_set_concurrency, pj_ioqueue_unregister), as far as the callbacks
\* are those of pj_ioqueue_poll.
Exclusive ==
    [][\A t \in Threads, k \in Keys :
          InCallback(t, k) /\ ~allow[k]
          => /\ \A u \in Threads \ {t} : ~InCallback(u, k)
             /\ cb[k] /\ ~cb'[k] => call'[t] # call[t]]_vars

\* An operation that was started is in one place only until its callback, so
\* that it is reported once, however poll and post_completion race.
OnePlace ==
    \A op \in Ops :
        /\ \A j, k \in Keys : cb[j] /\ cb[k] /\ op \in reads[j] /\ op \in reads[k] => j = k
        /\ \A t \in Threads :
              poll[t].at = "completed" /\ poll[t].op = op
              => /\ \A k \in Keys : cb[k] => op \notin reads[k]
                 /\ \A u \in Threads \ {t} : ~(poll[u].at = "completed" /\ poll[u].op = op)

=============================================================================
