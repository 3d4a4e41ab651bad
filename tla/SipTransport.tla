---------------------------- MODULE SipTransport ----------------------------
(***************************************************************************)
(* The transport manager of pjsip/src/pjsip/sip_transport.c with the TCP   *)
(* transports of sip_transport_tcp.c in it: reference counts, the idle     *)
(* timer of a transport nobody uses, the table acquire looks in, graceful  *)
(* shutdown and destruction.  Reference counts change without a lock; what *)
(* the code does with the manager's lock held is one step, unless it       *)
(* depends on what others do to a reference count meanwhile.               *)
(*                                                                         *)
(* A thread in a function has a list of the steps that it has still to do, *)
(* those of the callers of the function last.  A variant that precedes an  *)
(* operator shows a mistake that breaks a property.                        *)
(***************************************************************************)
EXTENDS Integers, Sequences, FiniteSets

CONSTANTS Transports,
          Addrs,        \* remote addresses, the keys of the table
          Threads,
          Pollers,      \* threads in pjsip_endpt_handle_events
          None,
          MaxUsers      \* bound on the objects that hold a transport

ASSUME PollersAssumption == Pollers \subseteq Threads
ASSUME ThreadsAssumption == IsFiniteSet(Threads)
ASSUME NoneAssumption == None \notin Transports \cup Threads
ASSUME MaxUsersAssumption == MaxUsers \in Nat \ {0}

VARIABLES tp,        \* the transports
          table,     \* table[a]: the transport acquire finds for address a
          mgrLock,   \* the thread that has the manager's lock, or None
          tpLock,    \* tpLock[t]: the same of transport t's
          thread     \* thread[th]: what thread th is doing

vars == <<tp, table, mgrLock, tpLock, thread>>

\* unborn: not created; new: created, and no reference counted yet.
States == {"unborn", "new", "used", "dead"}

\* ref: ref_cnt; users: the objects (transactions, messages being sent) that
\* hold a reference; id: idle_timer.id; armed: idle_timer is in the timer heap.
Transport == [state : States, key : Addrs, ref : Nat, users : 0..MaxUsers,
              is_shutdown : BOOLEAN, is_destroying : BOOLEAN,
              id : BOOLEAN, armed : BOOLEAN]

Steps == {"inc", "verify", "own", "dec", "rearm", "lock", "shutdown", "unlock",
          "fired", "test", "destroy", "free"}

Idle == [tp |-> None, todo |-> <<>>]

\* A thread that the application does not start.
Absent == [tp |-> None, todo |-> <<"unlock">>]

\* Every field has its type, and a thread inside a function is at a transport
\* that was created.
TypeOK ==
    /\ tp \in [Transports -> Transport]
    /\ table \in [Addrs -> Transports \cup {None}]
    /\ mgrLock \in Threads \cup {None}
    /\ tpLock \in [Transports -> Threads \cup {None}]
    /\ thread \in [Threads -> [tp : Transports \cup {None}, todo : Seq(Steps)]]
    /\ \A th \in Threads : thread[th] \notin {Idle, Absent} =>
          thread[th].tp \in Transports /\ tp[thread[th].tp].state # "unborn"

Init ==
    /\ tp \in [Transports ->
                 {[state |-> "unborn", key |-> a, ref |-> 0, users |-> 0,
                   is_shutdown |-> FALSE, is_destroying |-> FALSE,
                   id |-> FALSE, armed |-> FALSE] : a \in Addrs}]
    /\ table = [a \in Addrs |-> None]
    /\ mgrLock = None
    /\ tpLock = [t \in Transports |-> None]
    /\ thread \in [Threads -> {Idle, Absent}]
    /\ \E th \in Pollers : thread[th] = Idle

-----------------------------------------------------------------------------
(* Threads *)

Resting(th) == thread[th] = Idle

Begin(th, t, todo) == thread' = [thread EXCEPT ![th] = [tp |-> t, todo |-> todo]]

\* Thread th is at this step, and its transport is still there.
At(th, step) == /\ thread[th] \notin {Idle, Absent}
                /\ Head(thread[th].todo) = step
                /\ tp[thread[th].tp].state # "dead"

\* The step is still to do.
Has(th, step) == \E i \in 1..Len(thread[th].todo) : thread[th].todo[i] = step

\* The step is done; these come next.
Then(th, next) ==
    LET todo == next \o Tail(thread[th].todo)
    IN  thread' = [thread EXCEPT ![th] = IF todo = <<>> THEN Idle ELSE [@ EXCEPT !.todo = todo]]

Mine(th) == tp[thread[th].tp]

Becomes(th, record) == tp' = [tp EXCEPT ![thread[th].tp] = record]

\* The lock is recursive.
MayLock(th) == mgrLock \in {None, th}

-----------------------------------------------------------------------------
(* pjsip_transport_add_ref, pjsip_transport_dec_ref *)

Inc(th) ==
    /\ At(th, "inc")
    /\ Becomes(th, [Mine(th) EXCEPT !.ref = @ + 1, !.state = "used"])
    /\ Then(th, IF Mine(th).ref = 0 THEN <<"verify">> ELSE <<>>)
    /\ UNCHANGED <<table, mgrLock, tpLock>>

Forgotten(r) == [r EXCEPT !.id = FALSE]

\* The idle timer is cancelled if its id says that it runs.
Stopped(r) == [r EXCEPT !.id = FALSE, !.armed = @ /\ ~r.id]

\* The first reference stops the idle timer.
Verify(th) ==
    /\ At(th, "verify") /\ MayLock(th)
    /\ IF Mine(th).ref = 1 THEN Becomes(th, Stopped(Mine(th))) ELSE UNCHANGED tp
    /\ Then(th, <<>>)
    /\ UNCHANGED <<table, mgrLock, tpLock>>

\* The last reference starts the idle timer.
Dec(th) ==
    /\ At(th, "dec")
    /\ Becomes(th, [Mine(th) EXCEPT !.ref = @ - 1])
    /\ Then(th, IF Mine(th).ref = 1 THEN <<"rearm">> ELSE <<>>)
    /\ UNCHANGED <<table, mgrLock, tpLock>>

UnusedAndOpen(r) == r.ref = 0 /\ ~r.is_shutdown

Unused(r) == r.ref = 0 /\ ~r.is_destroying

\* The timer heap refuses an entry that it holds.
Rearm(th) ==
    /\ At(th, "rearm") /\ MayLock(th)
    /\ IF Unused(Mine(th))
       THEN Becomes(th, [Mine(th) EXCEPT !.id = TRUE, !.armed = TRUE])
       ELSE UNCHANGED tp
    /\ Then(th, <<>>)
    /\ UNCHANGED <<table, mgrLock, tpLock>>

\* The object that asked for the reference has it.
Own(th) ==
    /\ At(th, "own")
    /\ Becomes(th, [Mine(th) EXCEPT !.users = @ + 1])
    /\ Then(th, <<>>)
    /\ UNCHANGED <<table, mgrLock, tpLock>>

-----------------------------------------------------------------------------
(* Shutdown and destruction *)

\* pj_lock_acquire(tp->lock), in pjsip_transport_shutdown and destroy_transport.
Lock(th) ==
    /\ At(th, "lock") /\ tpLock[thread[th].tp] = None
    /\ tpLock' = [tpLock EXCEPT ![thread[th].tp] = th]
    /\ Then(th, <<>>)
    /\ UNCHANGED <<tp, table, mgrLock>>

\* pjsip_transport_shutdown, with the transport's lock.
Shutdown(th) ==
    /\ At(th, "shutdown") /\ mgrLock = None
    /\ mgrLock' = th
    /\ Becomes(th, [Mine(th) EXCEPT !.is_shutdown = TRUE])
    /\ Then(th, IF Mine(th).is_shutdown \/ Mine(th).ref > 0 THEN <<"unlock">>
                ELSE <<"inc", "dec", "unlock">>)
    /\ UNCHANGED <<table, tpLock>>

Unlock(th) ==
    /\ At(th, "unlock")
    /\ mgrLock' = None
    /\ tpLock' = [t \in Transports |-> IF tpLock[t] = th THEN None ELSE tpLock[t]]
    /\ Then(th, <<>>)
    /\ UNCHANGED <<tp, table>>

\* transport_idle_callback, and the test of pjsip_transport_destroy: a
\* transport in use is left alone.
Fired(th) ==
    /\ At(th, "fired")
    /\ Becomes(th, [Mine(th) EXCEPT !.id = FALSE])
    /\ Then(th, <<>>)
    /\ UNCHANGED <<table, mgrLock, tpLock>>

Test(th) ==
    /\ At(th, "test")
    /\ Then(th, IF Mine(th).ref = 0 THEN <<"lock", "destroy", "free">> ELSE <<>>)
    /\ UNCHANGED <<tp, table, mgrLock, tpLock>>

UnregisterAddress(t) == table' = [table EXCEPT ![tp[t].key] = None]

UnregisterUnlessShutdown(t) ==
    table' = [a \in Addrs |-> IF a = tp[t].key /\ ~tp[t].is_shutdown THEN None ELSE table[a]]

\* destroy_transport takes the transport out of the table unless another has
\* its place.
Unregister(t) ==
    table' = [a \in Addrs |-> IF a = tp[t].key /\ table[a] = t THEN None ELSE table[a]]

Destroy(th) ==
    /\ At(th, "destroy") /\ mgrLock = None
    /\ Becomes(th, [Stopped(Mine(th)) EXCEPT !.is_destroying = TRUE])
    /\ Unregister(thread[th].tp)
    /\ Then(th, <<>>)
    /\ UNCHANGED <<mgrLock, tpLock>>

\* tcp_destroy releases the memory, lock and count included.
Free(th) ==
    /\ At(th, "free")
    /\ Becomes(th, [Mine(th) EXCEPT !.state = "dead"])
    /\ tpLock' = [tpLock EXCEPT ![thread[th].tp] = None]
    /\ Then(th, <<>>)
    /\ UNCHANGED <<table, mgrLock>>

\* A thread comes to a transport whose memory is gone.  What follows is not
\* defined; here it stops what it was doing.
Lost(th) ==
    /\ thread[th] \notin {Idle, Absent} /\ Mine(th).state = "dead"
    /\ thread' = [thread EXCEPT ![th] = Idle]
    /\ UNCHANGED <<tp, table, mgrLock, tpLock>>

-----------------------------------------------------------------------------
(* What threads do with transports *)

Open(t) == tp[t].state \in {"new", "used"}

\* A transport has room for another object.
Room(t) == tp[t].users + Cardinality({th \in Threads : thread[th].tp = t /\ Has(th, "own")}) < MaxUsers

\* tcp_create and pjsip_transport_register: another at this address, in use or
\* not, loses its place.
Create(t, a) == /\ tp[t].state = "unborn" /\ tp[t].key = a
                /\ tp' = [tp EXCEPT ![t].state = "new"]
                /\ table' = [table EXCEPT ![a] = t]

\* pjsip_tpmgr_acquire_transport2 finds a transport that is not shutting down,
\* or has the factory make one.
Found(a) == table[a] # None /\ ~tp[table[a]].is_shutdown

Acquire(th, a) ==
    /\ Resting(th) /\ mgrLock = None
    /\ mgrLock' = th
    /\ \/ /\ Found(a) /\ Room(table[a])
          /\ Begin(th, table[a], <<"inc", "unlock", "own">>)
          /\ UNCHANGED <<tp, table>>
       \/ /\ ~Found(a)
          /\ \E t \in Transports :
                Create(t, a) /\ Begin(th, t, <<"inc", "unlock", "own">>)
    /\ UNCHANGED <<tpLock>>

\* The new transport cannot connect and is destroyed at once.
AcquireFails(th, a) ==
    /\ Resting(th) /\ mgrLock = None /\ ~Found(a)
    /\ \E t \in Transports :
          /\ tp[t].state = "unborn" /\ tp[t].key = a
          /\ tp' = [tp EXCEPT ![t].state = "dead", ![t].is_destroying = TRUE]
    /\ table' = [table EXCEPT ![a] = None]
    /\ UNCHANGED <<mgrLock, tpLock, thread>>

\* on_accept_complete: the reading starts, or the transport is destroyed.
Accept(th, a) ==
    /\ th \in Pollers /\ Resting(th) /\ mgrLock = None
    /\ \E t \in Transports :
          /\ Create(t, a)
          /\ UNCHANGED thread \/ Begin(th, t, <<"test">>)
    /\ UNCHANGED <<mgrLock, tpLock>>

\* A message has arrived, or an object that holds the transport gives it to
\* another.
AddRef(th, t) ==
    /\ Resting(th) /\ Room(t)
    /\ (th \in Pollers /\ Open(t)) \/ tp[t].users > 0
    /\ Begin(th, t, <<"inc", "own">>)
    /\ UNCHANGED <<tp, table, mgrLock, tpLock>>

\* An object lets go of the transport.
DecRef(th, t) ==
    /\ Resting(th) /\ tp[t].users > 0
    /\ tp' = [tp EXCEPT ![t].users = @ - 1]
    /\ Begin(th, t, <<"dec">>)
    /\ UNCHANGED <<table, mgrLock, tpLock>>

BrokenKeepsRef == <<"inc", "lock", "shutdown">>

BrokenTakesNoRef == <<"lock", "shutdown", "dec">>

\* tcp_init_shutdown.
Broken == <<"inc", "lock", "shutdown", "dec">>

\* The connection breaks: read by a poller, or met by who sends.
Disconnect(th, t) ==
    /\ Resting(th)
    /\ Open(t) /\ ~tp[t].is_shutdown
    /\ th \in Pollers \/ tp[t].users > 0
    /\ Begin(th, t, Broken)
    /\ UNCHANGED <<tp, table, mgrLock, tpLock>>

\* The application shuts down a transport it holds.
Close(th, t) ==
    /\ Resting(th) /\ tp[t].users > 0
    /\ Begin(th, t, <<"lock", "shutdown">>)
    /\ UNCHANGED <<tp, table, mgrLock, tpLock>>

\* The idle timer: pj_timer_heap_poll takes it out and calls it.
Expire(th, t) ==
    /\ th \in Pollers /\ Resting(th) /\ tp[t].armed
    /\ tp' = [tp EXCEPT ![t].armed = FALSE]
    /\ Begin(th, t, <<"fired", "test">>)
    /\ UNCHANGED <<table, mgrLock, tpLock>>

Work(th) == \/ Inc(th) \/ Verify(th) \/ Dec(th) \/ Rearm(th) \/ Own(th)
            \/ Lock(th) \/ Shutdown(th) \/ Unlock(th)
            \/ Fired(th) \/ Test(th) \/ Destroy(th) \/ Free(th) \/ Lost(th)

Calls(th) == \/ \E a \in Addrs : Acquire(th, a) \/ AcquireFails(th, a) \/ Accept(th, a)
             \/ \E t \in Transports :
                   AddRef(th, t) \/ DecRef(th, t) \/ Disconnect(th, t) \/ Close(th, t)

Next == \E th \in Threads :
            \/ Work(th)
            \/ Calls(th)
            \/ \E t \in Transports : Expire(th, t)

Spec == Init /\ [][Next]_vars

\* Functions return, and a poller looks at the timers on every turn.  Strong
\* fairness of Expire passes over behaviours in which a timer is cancelled again
\* and again, but those have users again and again.
FairSpec == /\ Spec
            /\ \A th \in Threads : WF_vars(Work(th))
            /\ \A th \in Pollers, t \in Transports : SF_vars(Expire(th, t))

-----------------------------------------------------------------------------
(* Whatever the threads *)

\* A thread that will see to transport t.
Attended(t) ==
    \E th \in Threads, step \in {"rearm", "test", "free"} :
       thread[th].tp = t /\ Has(th, step)

\* A reference given back was taken: pj_assert(pj_atomic_get(tp->ref_cnt) > 0)
\* of pjsip_transport_dec_ref holds for any number of threads, as no object
\* gives back what it does not hold.
CountIsPositive == \A th \in Threads : At(th, "dec") => Mine(th).ref > 0

\* A transport that has been used never stays behind: without a reference it has
\* its idle timer running, or a thread is about to restart it or to destroy the
\* transport, however add_ref, dec_ref, the timer and shutdown interleave.
NeverLeaked ==
    \A t \in Transports :
       tp[t].state = "used" /\ tp[t].ref = 0 => tp[t].armed \/ Attended(t)

\* The table finds transports whose memory is there, each at its own address.
TableAlive ==
    \A a \in Addrs : table[a] # None =>
       tp[table[a]].key = a /\ Open(table[a]) /\ ~tp[table[a]].is_destroying

\* A transport loses its place in the table to a new one or to its own
\* destruction, never to that of the transport it replaced (Trac ticket #42).
KeepsPlace ==
    [][\A a \in Addrs : table[a] # None /\ table'[a] # table[a] =>
          \/ table'[a] # None
          \/ tp'[table[a]].is_destroying
          \/ \E t \in Transports : tp[t].state = "unborn" /\ tp'[t].state = "dead"]_vars

-----------------------------------------------------------------------------
(* One thread *)

Alone == Cardinality({th \in Threads : thread[th] # Absent}) = 1

\* "Any objects that wishes to keep the reference of the transport MUST
\* increment the transport's reference counter to prevent it from being
\* destroyed" (sip_transport.h:864).
HeldIsAlive == \A t \in Transports : tp[t].users > 0 => tp[t].state # "dead"

\* What the code asserts besides: pjsip_transport_destroy finds no reference,
\* dec_ref that arms the idle timer finds the timer's id clear, and nothing is
\* called on a transport whose memory is gone.
AssertionsHold ==
    \A th \in Threads :
       /\ At(th, "test") => Mine(th).ref = 0
       /\ At(th, "rearm") /\ Unused(Mine(th)) => ~Mine(th).id
       /\ thread[th] \notin {Idle, Absent} => Mine(th).state # "dead"

\* With one thread the reference does prevent it, the idle timer runs exactly
\* when nobody holds the transport and never outlives it, and the assertions
\* hold.
AloneIsSafe ==
    Alone => /\ HeldIsAlive
             /\ AssertionsHold
             /\ (\A th \in Threads : thread[th] \in {Idle, Absent}) =>
                   \A t \in Transports :
                      /\ tp[t].armed <=> tp[t].state = "used" /\ tp[t].ref = 0
                      /\ tp[t].id = tp[t].armed

\* With one thread, a transport that nobody holds is destroyed in the end.
Reclaimed ==
    Alone => \A t \in Transports : []<>(tp[t].state # "used" \/ tp[t].users > 0)
=============================================================================
