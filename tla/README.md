# A TLA+ verification of the SIP stack in Streaming-Code

The repository is a streaming client for phones: a PJSIP 1.x tree
(`src/Streaming-Demo-/`, with an identical copy in `src/Desktop/Streaming-iOS/`)
with small demo applications on top, and some Objective-C music players
(`src/Documents/ohm1/`). The logic worth verifying is PJSIP's: state machines
driven by timers, sockets and several threads at once. All paths below are
relative to `src/Streaming-Demo-/`.

## 1. Inventory

| Component | State | Operations | Correct when |
|---|---|---|---|
| SIP transaction, `pjsip/src/pjsip/sip_transaction.c` | state, status, last message, two timers, transport, five "pending" flags | create, send, receive, timers, send callbacks, terminate, set timeout, destroy | every state has the timer that ends it; messages in order; freed once, and never used after |
| Timer heap, `pjlib/src/pj/timer.c` | heap array, id table, free list | schedule, cancel, poll, grow | a set of entries ordered by time; an entry at most once; ids always valid |
| Endpoint, `sip_endpoint.c` | modules, timer heap, ioqueue | handle_events, module callbacks | every due timer and ready socket is polled |
| Transport manager, `sip_transport.c` | table of transports, reference counts, idle timers | acquire, add/dec ref, register, shutdown, destroy | nothing destroyed while in use; everything unused destroyed |
| Transports, `sip_transport_{udp,tcp,tls,loop}.c` | sockets, delayed sends | send, connect, read | every send is answered once |
| Stateless sends, `sip_util.c`, `sip_resolve.c` | list of addresses, index | resolve, send, next address | the callback comes exactly once per attempt |
| Dialog, `sip_dialog.c`, `sip_ua_layer.c` | CSeqs, route set, sessions, transactions counted | requests, responses, lock | alive while it is used; one lock order with the transaction |
| Invite session, `pjsip-ua/sip_inv.c` | session state, SDP negotiator, INVITE transaction, two provisional pools | invite, answer, cancel, bye, re-invite, update | both ends agree on media and on the end of the call; each offer settled |
| Session timer, 100rel, xfer, replaces, `pjsip-ua/` | refresh timer, RSeq queues | refresh, PRACK | order of reliable responses |
| Registration, `sip_reg.c` | contacts, refresh timer, busy count | register, unregister, refresh | not freed while busy |
| Events, `pjsip-simple/` | subscription state, timers, pending transactions | subscribe, notify, refresh | terminated once |
| PJSUA, `pjsua-lib/` | calls, accounts, buddies | the API | (above the rest) |
| ioqueue, `pjlib/src/pj/ioqueue_*.c`, `activesock.c` | keys with pending operations, closing flags and reference counts; descriptor sets | register, start operation, poll, post completion, unregister | each read is polled for and reported once; keys and descriptors reused safely |
| Locks, `lock.c`, `os_rwmutex.c` | owners, readers | lock, unlock | exclusion, no deadlock |
| Pools, hash, tree, fifo, `pjlib/src/pj/` | blocks, buckets, nodes | allocate, insert, remove | nothing lost, nothing twice |
| DNS, HTTP, SRV, `pjlib-util/` | queries, cache | query, answer, timeout | each query answered once |
| SDP negotiator, `pjmedia/src/pjmedia/sdp_neg.c` | state and five descriptions | offer, answer, negotiate, cancel | the active pair matches |
| Jitter buffer, `jbuf.c`, `delaybuf.c` | ring of frames, origin, prefetch | put, get, discard | frames in order, never beyond capacity |
| Streams, bridge, RTP, `pjmedia/` | signal paths | put/get frame | (samples; out of reach) |
| ICE, STUN, TURN, `pjnath/` | check lists, transactions, allocations | start, check, nominate, refresh | one nominated pair per component |

How they interact. A worker thread (or several, or the application's own thread)
calls `pjsip_endpt_handle_events`, which polls the timer heap and then the
ioqueue. A timer's callback, a datagram or the end of a send goes straight from
there into a transaction, which takes its lock, changes state and calls its
transaction user (TU: a dialog, an invite session, a registration) with the lock
held. The TU calls back into the transaction, from that callback or from another
thread. Memory is not reference counted at this level: a transaction is freed by
its own zero timer. Below, the ioqueue's keys are counted, and go through a list
of closing keys before they are used again. Above, a dialog counts its pending
transactions and an invite session changes state as they do, under the dialog's
lock; the two ends of a call have four state machines each (session, dialog,
transactions, negotiator) that only messages keep in step.

What is hard: an event is taken (popped from the heap, found in the hash table,
detached from a message) before the transaction's lock is held; a stateless send
runs in the background and its end may come in any later state; the TU re-enters
from callbacks; cancelling a timer is guarded by a field of the entry that other
code clears; CANCEL, BYE, UPDATE and re-INVITE cross on the network; a socket's
descriptor gets a new owner while a thread is still about to serve the old one.
`PROJECT.json` lists these hazards at their lines.

## 2. Modules

| Module | Of the code | Kind |
|---|---|---|
| `TsxCore` | `sip_transaction.c`: helpers and state handlers, as operators on the record `tsx` | operators |
| `SipTsx` | the same file: one transaction, worker threads, the TU and the layer's stop | state machine, extends `TsxCore` |
| `TimerSet` | what `pj_timer_heap_*` promises (`timer.h`) | abstract specification |
| `TimerHeap` | `timer.c`: array, id table, free list, reheap loops, poll | state machine, implements `TimerSet` |
| `SipTransport` | `sip_transport.c` and the life of a transport of `sip_transport_tcp.c` | state machine |
| `SdpNeg` | `sdp_neg.c`: the negotiator, as operators on a record | operators |
| `InvSession` | `sip_inv.c`, and what it needs of `sip_dialog.c`, as operators on both ends and what is between them | operators, extends `SdpNeg` |
| `Call` | two invite sessions, their applications and the network | state machine, extends `InvSession` |
| `Ioqueue` | `ioqueue_select.c`, `ioqueue_common_abs.c`: keys, reads, poll | state machine |
| `MCSipTsx`, `MCTimerHeap`, `MCIoqueue` | instances for TLC | |
| `SipTsxProofs`, `SipTransportProofs`, `IoqueueProofs`, `TimerHeapProofs`, `CallProofs`, `CallEnds`, `CallOffers`, `CallMedia` | theorems | proofs |

### The transaction (`TsxCore`, `SipTsx`)

`tsx` is `struct pjsip_transaction` without its data: `state`, `status`
(`status_code`, a representative of each class), `due[x]` (what timer `x` is set
to in the heap; `"rt"` is `retransmit_timer`, `"to"` `timeout_timer`), `armed` (the
timers whose entry's `id` is set, which is what the code looks at before it
cancels), `flags` (`transport_flag`), `pending` (`pending_tx`), `last` (`last_tx`),
`sends` (messages a transport has queued), `registered` (in the hash table),
`alive`, and history for the properties: `out` (messages this step put on the
wire), `wire` (all so far) and `failed` (assertions that failed). A handler
`tsx_on_state_xxx` is one or two operators, by kind of event (`UacRx`, `UacTimer`,
`UacRejection`, `UasRx`, `UasTimer`...), and what it calls are the operators it is
composed of (`SendMsg`, `Schedule`, `Cancel`, `SetState`, `Reap`, `Destroy`...), so a
handler is one step with all that it does. The environment's answers to its
calls (the transport sends, queues or refuses a message; a stateless send
arrives, waits or fails; the TU terminates the transaction from its callback)
come in one record of `Env`.

`SipTsx` says who calls. `at[w]` is what worker `w` is doing. A worker pops a timer
(`Pop`); the callback forgets the entry's id before it takes the lock (`Expire`)
and handles the timer after (`Fire`). A message finds the transaction in the
hash table (`Find`) and is handled later (`Receive`); after a rejection the TU is
called with the lock held and the rest is a step of its own (`ReceiveRest`). A
stateless send ends (`Wired`), its callback lets go of the message (`Called`) and
then takes the lock (`SendCallback`); a transport ends a queued send (`SendEnds`,
`TransportCallback`) or breaks (`Disconnect`). The TU's calls (`TuRequest`,
`TuAccept`, `TuRespond`, `TuTerminate`, `TuStopRetransmit`, `TuSetTimeout`,
`TuRetransmit`) are atomic, since they hold the lock; with `TuThread` they come
between any two steps of a worker, otherwise only when a worker is idle. Only
`pjsip_tsx_terminate` tests the state before it takes the lock: `TuTerminateLate` is
the call of a thread that has passed the test and comes when the transaction is
over.

### The timer heap (`TimerSet`, `TimerHeap`)

`heap`, `ids` (`timer_ids`), `free` (`timer_ids_freelist`), `cur`, `max` are the
fields of `struct pj_timer_heap_t`; `tid[e]` and `when[e]` those of the entry
(`_timer_id`, `_timer_value`). The loops of `reheap_up` and `reheap_down` run one
turn a step, inside the lock (`op` is the loop that runs). `pj_timer_heap_schedule`
is two steps, since it tests the entry before it takes the lock. `Cancel`,
`RemoveNode`, `Insert` with growth, and `PollNext` are the functions. `TimerSet`
has a set of armed entries with times and says that a poll calls back a due
entry no armed one precedes, and that a cancelled one is not called back;
`armed <- {e : tid[e] > 0}` is the refinement mapping.

### Transports (`SipTransport`)

`tp[t]` is `struct pjsip_transport` with `ref` (`ref_cnt`), `id` (`idle_timer.id`)
and `armed` (the entry is in the heap) apart, since the code cancels by the
former; `users` counts the objects that hold a reference, for the properties.
`table` is the manager's hash table. `thread[th].todo` lists the steps a thread
has still to do: one per access to the unlocked count, per critical section and
per lock. So `pjsip_transport_add_ref` is `inc` (atomic increment) and, if the
count was 0, `verify` (the section with the manager's lock); `dec_ref` is `dec`
and `rearm`; `pjsip_transport_destroy` is `test` and then `lock`, `destroy`,
`free`. A nested call puts its steps before those that remain. What the
functions are called by is `Acquire` (with its factory), `Accept`, `AddRef`,
`DecRef`, `Disconnect` (`tcp_init_shutdown`), `Close` and `Expire` (the idle
timer).

### The call (`SdpNeg`, `InvSession`, `Call`)

`neg[u]` is the negotiator of one end, with its state and its local, remote and
active descriptions. A description is the number of the offer or answer it is, and
each copy names the pool it was cloned into: the session's own, or one of the two
that `inv_negotiate_sdp` swaps and resets (`pool_prov`, `pool_active`). Of
`initial_sdp`, from which an answer takes its origin, only the pool is kept
(`initial`). `inv[u]` is
`pjsip_inv_session` with the dialog's CSeq: `state`, `invite_tsx`,
`pending_cancel`, `last_ack`, and `hungup`, that the application has called
`pjsip_inv_end_session`. `tsx` is the sequence of requests made in the call, each
with the state of its client and of its server, the code and description of its
response, and the two ends' `tsx_inv_data`. `acks` are the ACKs on their way.

A handler of `sip_inv.c` is an operator from world to world, named for the
function or the branch it is (`RxReinvite`, `UpdateResponse`, `OnCancel`,
`RxBye`...), since it runs to its end under the dialog's lock; `Call` makes each
into an action. The application's are `Invite`, `Answer`, `Reinvite`, `Update` and
`EndSession` (CANCEL, BYE or a refusal, as the state says). The network's are the
arrival of a request (`Receive`), of a provisional or final response (`Progress`,
`Final`), of an ACK (`ReceiveAck`, `ReceiveNack`), of a 2xx again (`Again`), and the
timers (`Timeout`, `NoAck`, `ClientEnds`). Messages arrive in any order. A request
or response that is lost is retransmitted, so only the loss of all copies
(`Timeout`) and the loss of an ACK (`LoseAck`) are events. Whether an offer is
accepted, and whether its answer fits, is a choice (`Choices`).

### The ioqueue (`Ioqueue`)

For a key, `list` (free, active or closing), `closing`, `refs` (`ref_count`), `fd`,
`cb` (its callbacks are set, which is as long as its socket is open),
`allow` (`allow_concurrent`) and `reads` (`read_list`); for the queue, `rfdset`.
`poll[t]` is where a thread is in `pj_ioqueue_poll`, with its copy of the set and
its events, and `call[t]` the call it is in the middle of, from a callback or of its
own accord. A step is what is done with the queue's lock held, or between two
locks: `CopySet`, `Select` (without a lock: it may report a descriptor that was
closed and used again), `Scan` (which counts a reference for each event),
`Dispatch` or `DispatchStale`, `Complete` (the test before the callback), `CallbackReturns`,
`Release` (`decrement_counter`). `pj_ioqueue_recv` tests `closing` before it takes
the mutex (`StartRead`) and again after (`AddRead`). `pj_ioqueue_unregister` is
`Unregister`, `MarkClosing` and `EndUnregister`. A closing key is free again
after `PJ_IOQUEUE_KEY_FREE_DELAY` (`Expired`), which is taken to be longer than a
call that another thread has begun on the key, as is the purpose of the delay;
nothing is assumed of the time a thread takes from `Scan` to its callback, for
which there are the references.

## 3. Runs

| Run | Instance | Shows |
|---|---|---|
| `tsx_single` | one worker, client and server | 13 properties: types, timers, pending sends, assertions, order, decision and reclamation, with the one polling thread that PJSUA starts by default |
| `tsx_workers` | two workers, client | what survives two polling threads: `NothingForgotten` (`NeverOrphaned` and `RetransmissionKept`), `AckGoesOut` |
| `tsx_tu_thread` | one worker and a TU thread, server | `NothingForgotten`, `NoProvisionalAfterFinal` up to a first failed assertion |
| `timer_heap` | six entries, two callers, one poller | order, ids, free list, and that the heap implements `TimerSet` |
| `transport` | two transports, one address, one or two threads | counts, table, leaks for any threads; held transports safe and unused ones destroyed with one |
| `call` | two ends, a call and two further requests or losses; 946 365 states | media agree, offers are settled, the ends end together, the descriptions in use and `invite_tsx` are alive, an ended call stays ended |
| `ioqueue` | two threads, keys, descriptors and operations; 252 748 states | descriptor set, references, exclusive callbacks; no deadlock |
| `tsx_completed_timer`, `tsx_pending_timer`, `transport_in_use`, `call_refresh`, `call_origin` | smallest that shows it | the five disagreements of section 5 |

Every action and every disjunct of the next-state relations fires in a passing
run. `PROJECT.json` has for each property a mistake in one definition (a variant
that precedes it) under which the run finds the property violated.

Bounds, and why they are enough:

- `MaxSends = 1`: one message of the transaction queued in a transport at a time
  (what is sent meanwhile goes out, or fails). Stateless sends are not bounded:
  the code keeps one (`pending_tx`). `MaxServers = 1`: one address to retry after
  the first, so that a send fails over and then fails for good.
- Messages are kinds (`req`, `ack`, `r100`, `r1xx`, `r2xx`, `r3xx`, the last any code
  from 300 on); a handler tells no more apart. Timer values are names (`T1`, `T4`, `T2`, `64T1`, `zero`,
  `backoff`...): time does not pass in numbers, any armed timer may expire next.
- `timer_heap`: six entries is the least in which a removed slot's successor
  comes from another branch and has to go up; times 0 and 1 give every heap
  order that two values can; the start is a full heap (every legal order) or an
  empty one of capacity 3, so that three changes reach growth, both directions
  and the reuse of ids. `Callers` are interchangeable: nothing distinguishes
  them. Entries are not symmetric, since the start orders them.
- `transport`: two transports and one address are the least for replacing one
  transport by another; `MaxUsers = 2` is the least for two increments that
  race from zero; a transport is created once, so a history has at most two.
- `call`: `Budget = 2` bounds together the re-INVITEs and UPDATEs, the timers
  that give up and the ACKs lost. Two is the least for a request from each end
  that cross, and for an offer crossed by a loss. The first INVITE, CANCEL and
  BYE are not counted; they come at any time.
- `ioqueue`: two threads are the least to race, two keys on two descriptors the
  least for one to get the descriptor of the other. Keys and descriptors are used
  again without bound. All four sets are symmetric: nothing orders them. The
  theorems of section 6 hold for sets of any size.
- A destroyed transaction, a heap out of changes, transports all dead and a call
  that is over are ends, so these runs do not check for deadlock. `ioqueue` does.

Fairness. `SipTsx`: a worker that has taken an event goes on (weak fairness of
`GoesOn`); a timer in the heap is popped, since `pjsip_endpt_handle_events2` polls
the heap on every turn, and a stateless send ends, since resolvers and
connections have timeouts of their own (strong fairness of `Pop` and `SendOver`:
other events keep the worker busy in between). The TU, the peer, the network and
transports that have queued a message owe nothing.
`SipTransport`: functions return, and a polling thread looks at the timers on
every turn, so an idle timer that is due again and again expires; the strong
fairness excludes only behaviours in which it is cancelled for ever, in which
the transport has users for ever.
`Call` has no fairness. That everything is settled in the end is stated of the
states in which nothing is under way (`Quiet`): every request has its response,
every ACK has arrived or was lost. In any other state the network has a step to
take, and each message and timer is there once, so a call that is left alone gets
to such a state; the graph is too large for TLC to check liveness under one weak
fairness condition per message. `Ioqueue` makes no promise that a descriptor becomes ready.

What is assumed of the application in `call` (`Patient`): an end offers only when
its own requests are over, no INVITE is pending, its negotiator is `DONE` and it
has not hung up; it hangs up when its call is confirmed, or to cancel; it answers an
offer in a response or ACK and does not decline it. Without this the code gets
stuck in ways section 5 lists. `LateTimers = FALSE` keeps timers D and K from firing
while their end has an offer open, which is the disagreement `call_refresh`.
In `Ioqueue` a callback that runs with its key's mutex held makes calls on that
key only: two that used each other's keys could wait for each other for ever.

## 4. Properties

Transaction: `NeverOrphaned` (a state that only a timeout ends has its timer or a
callback on its way), `RetransmissionKept`, `PendingAnswered` (a stateless send
and the transaction that waits for it agree), `NoDanglingTimer`, `AckGoesOut`,
`AckOnlyRejection`, `AssertionsHold`, `StatusFinal`, `Forward`,
`NoProvisionalAfterFinal`, `NoRequestAfterFinal`; `RequestDecided` and `Reclaimed`
are liveness. Where more than one thread is at work not all of them hold. With
two workers on a client transaction `PendingAnswered`, `NoDanglingTimer`,
`NoRequestAfterFinal` and the assertions `double_schedule`, `resched_status`,
`completed_timer`, `dead` and `tx_pending` fail; with a TU thread on a server
transaction `PendingAnswered`, `NoDanglingTimer`, `Forward` and several
assertions do. `AssertionsHold` leaves out, with a single thread too, three
assertions that are named at its definition and that the code breaks.
The races between threads (a timer popped before its callback has the lock, a message
that has found its transaction, `send_msg_callback` before its lock,
`pjsip_tsx_set_timeout` in the middle of a handler) are in `tsx_workers` and
`tsx_tu_thread` only: `tsx_single` has no second thread to race with.

Timer heap: `HeapOrdered`, `IdsMatch`, `FreeIdsKept` (nothing lost, nothing given
twice), `CancelsItself` (the assertion of `cancel`), `KeepsTimerSet` (refinement).
They hold for the callers the code expects: the entry is prepared by
`pj_timer_entry_init` or zeroed, and one thread at a time schedules it.

Transport: `CountIsPositive`, `NeverLeaked`, `TableAlive` and `KeepsPlace` hold for
any threads. `AloneIsSafe` (a held transport is alive, the idle timer runs exactly
while nobody holds it, the assertions hold) and the liveness property `Reclaimed`
hold with one thread and fail with two: see the finding.

Call: `MediaAgree` (in a quiet call each end sends what the other expects),
`OffersSettle` (no offer stays open; where an ACK was lost one may, see section
5), `CallsEndTogether` (unless the end that left had given up waiting for a
response: 408), `InviteTsxAlive` (the INVITE that the code dereferences is there),
`SdpAlive` (the two descriptions under negotiation and the two active ones are in no
pool that has been reset; of `initial_sdp` this is false, see finding 5 of section 5),
`StaysDisconnected`.

Ioqueue: `SetMatches` (each waiting read is in the set, and nothing that was
closed), `KeyKept` (a key in use is not put away, and is put away after its last
use), `Exclusive` (with concurrency disabled the callbacks of `poll` on a key exclude
each other and the unregistration). `OnePlace` (a read is reported once) is
proved and not run.

## 5. Where code and comments disagree

1. `tsx_completed_timer`: "Must be the timeout timer" in Completed; with two
   polling threads the retransmission timer gets there, because its callback
   forgets the id of the entry before it takes the lock.
2. `tsx_pending_timer`: "Must not be triggered while transport is pending"; a
   response that falls back on a stateless send leaves the armed timer alone.
3. `transport_in_use`: a reference is said to prevent destruction;
   `pjsip_transport_destroy` tests the count without the manager's lock, and
   another thread may acquire the transport between the test and the removal.
4. `call_refresh`: "Prevent from us cancelling different offer!"; the UPDATE
   without SDP of the session timer withdraws the offer of a re-INVITE, and so
   does the end of the transaction of a re-INVITE refused before.
5. `call_origin`: "these pool's lifetime is synchronized to the SDP offer-answer
   negotiation" (`sip_inv.h:346`), but `initial_sdp` is in one of the two pools from the
   first answer, or the last local offer, and stays there when the pool is reset. Two
   more offers of the peer, and the answer takes its origin (`sdp_neg.c:432`) from what
   is in the pool then. The other four descriptions are safe (`SdpAlive`).

Found while modelling, and not the subject of a run, since no comment of the code
speaks of them, or the model leaves out what they need, or no order of steps is
involved:

- Transaction. The comment on timer I (`sip_transaction.c:3033`) says T4 for unreliable
  and zero for reliable transports; the code has it the other way round at `:3036`, and
  so has the model (`UasAcked` of `TsxCore`). A retransmitted ACK over UDP meets no
  transaction any more.
- Invite session. A BYE that arrives in `CALLING` is claimed and never answered. A
  2xx after a cancelled INVITE has timed out is acknowledged and no BYE follows.
  An offer in a 2xx that the application declines leaves the negotiator in
  `REMOTE_OFFER`, and a lost ACK with the answer leaves the other end in
  `LOCAL_OFFER`, for ever. An UPDATE of the callee before its final response
  pairs with the wrong answer. A 2xx after the end of the session negotiates with
  no pool. A re-INVITE that arrives in `CONNECTING` is not answered. `pending_cancel`
  is forgotten when the first response is a 2xx. A re-INVITE with a new offer after
  a failed first negotiation dereferences an `active_local` that is not there.
- Ioqueue. `pj_ioqueue_post_completion` calls the callback with the mutex
  released, whatever `allow_concurrent` says (`ioqueue.h:469`: "only one thread can
  call the key's callback at one time"), and without the test that there still is
  one; it leaves the descriptor in the set, so that `poll` returns at once until the
  next read. The assertion in `pj_ioqueue_register_sock` that the free list is
  not empty fails when keys are registered while as many wait in the closing
  list, since `count` falls at once and the key is free half a second later. A
  `recv` that is satisfied at once reads from `fd` without the mutex, maybe after it
  was closed and opened for another.

## 6. Proofs

`tlapm` checks them for every value of the constants.

`SipTsxProofs` has three parts. The first: `Invariance`, `Spec => []Inv` with `Inv == TypeOK /\ TsxInv(tsx) /\
RestIsRejection /\ OneSender /\ RetryHasServer`. From it `TypeCorrect`
(`[]TypeOK`), `AckCorrect` (`[]AckOnlyRejection`) and `StatusCorrect`
(`StatusFinal`). Type correctness alone is not inductive:
a worker that returns from the TU's callback for a rejection takes for granted
that the status is still that of a rejection (`RestIsRejection`), a retry that
there is an address left (`RetryHasServer`) and that no other worker takes it
first (`OneSender`), and the ACK of a rejection is last, pending, queued or sent
only after a rejection (`TsxInv`). The
handlers are proved against contracts (`Still`, `Quiet`, `Moves`, `Good`), one lemma
per operator, and the steps with one lemma per action.

The second part is about the timers: `TimersInvariance`, `Spec => [](Inv /\ Carried /\ KInv)`, and from it
`TimeoutComes` (`[]NeverOrphaned`), `RetransmissionGoesOn` (`[]RetransmissionKept`),
`NothingIsForgotten` and `AckIsSent` (`[]AckGoesOut`), for any number of workers and
with or without a thread of the TU's own; the runs have two threads. The properties
are not inductive. Between the heap and its handler a timer is nowhere in the
transaction, so `ToKept` and `RtKept` say that a worker has it, and `Carried` that what
the worker has is a timer. A response that is sent again while a transport is looked
for starts the timer only because there is a `last_tx` to send (`Lasting`), and a client
that starts to look for a server once more does not end up without one because it
knows that it has found it before (`Known`, `Found`). A rejection is handled in two
steps with the TU's callback between them: there the timeout has stopped and
the ACK is not yet `last_tx`, and `AckKept` and `ToKept` say that the worker in place
`"final"` owes both. The helpers keep what the transaction has (`Keeps`); a handler
has, in the state it enters, what that state needs, or the transaction lacked it
before (`After`), and a timer's handler sees to what its timer was for (`Steady`).

The third part is about one thread: `AloneInvariance`, `Spec => [](Alone => Inv /\ AloneInv)`, where `Alone` is
what PJSUA does by default, one polling thread with the TU in it: no `TuThread`, and
any two workers are the same. From it, under that condition, `PendingIsAnswered`
(`[]PendingAnswered`), `NoTimerDangles` (`[]NoDanglingTimer`), `AssertionsAreHeld`
(`[]AssertionsHold`), `MovesForward` (`Forward`), `FinalIsLast` (`NoProvisionalAfterFinal`)
and `RequestStops` (`NoRequestAfterFinal`). Each of them fails with a second thread, a
worker or one of the TU's own (section 4), but for `FinalIsLast`, which `tsx_tu_thread`
checks with a thread of the TU's own and which is proved for one thread only. None is inductive. That a timer does not stay in the heap
behind a destroyed transaction depends on every timer that runs having its id set (`Armed`),
since the cancels look at the id; that a timer fires where its handler expects it, on
which timers each state may have (`Client`, `Server`, `Ready`); that no message follows the
one that replaced it, on what `last_tx` and `pending_tx` may be in each state and, for a
client, on a request that looks for a transport not having been sent (`Calm`). `Calm` does
not hold between the notification of a rejection and the rest of the handler, nor between
the end of a successful send and its callback: `Held` says, for each place the thread can
be in, what holds there instead. A handler owes its caller `Fit`: the state has not
gone back, what was sent was allowed, and the transaction is whole and calm.

`SipTransportProofs`: `Safety`, `Spec => []Safe` with `Safe == Typed /\ Ordered /\
TableAlive`, where `Ordered` says that a thread that is to release a transport has
begun to destroy it immediately before. `TableAlive` is not inductive without it: a
`free` of a transport in the table would break it. From it `TableIsAlive`
(`[]TableAlive`) and `PlaceIsKept` (`KeepsPlace`). `NothingLeaks` is
`Spec /\ []CountIsPositive => []NeverLeaked`: it assumes what `dec_ref` asserts, and
the argument needs `Leaving`, that who has begun to destroy a transport will end it.
The steps are reduced to two contracts, `Advance` (with `Settles`) for a thread in a
function and `Starts` for one that begins.

Its second part discharges that assumption. `CountsBalance` is `Spec =>
[]Balanced`: the `ref_cnt` of a transport that is there is the number of its objects
plus that of the threads with a reference in hand (`Debtors`), those that have
counted one and not yet handed it on or given it back. A thread has one in hand
exactly when an `own` or a `dec` is still to do and no `inc` is (`Owes`), and this is
a property of its list of steps that pushing steps keeps (`Formed`): no function
counts two references, nor hands on one that it did not count. So
`CountStaysPositive` (`[]CountIsPositive`) and, with `NothingLeaks`, `NeverLeaks`
(`[]NeverLeaked`) without a condition. `AloneStaysSafe` (`[]AloneIsSafe`) is of one thread;
with two it is false (section 5). Its invariant is `One => Solo`: if the application
starts no more than one thread, every transport that this thread is not at is `Tidy` (the
count is that of its objects, and the idle timer runs, with its id set, exactly when a
used transport has none), and the one it is at is `Amid` what is still to do. `Amid` is
needed because in between none of this holds: the count is one more than the objects
from `inc` to `own` or from the release by an object to `dec`, the timer still runs
between the first count and `verify`, and it is stopped between the last and `rearm`.
The lists of steps are sorted by what they owe (`Counting`, `Verifying`, `Holding`,
`Closing`, `Ending`), `ListsGoOn` says which follows which, and `PassesKeep` that each step
leaves the transport as the next one expects it. `TypesHold` (`[]TypeOK`) adds to the types
of `Safe` that the counts are natural numbers, which follows from `Counted` and from
`Roomy`: the objects that hold a transport and the threads about to give it to one
(`Owners`) are no more than `MaxUsers`.

`IoqueueProofs`: `Safety`, `Spec => []IInv` with `IInv == TypeOK /\ Shape /\ Mutexes /\
Alive /\ Counted /\ Descriptors /\ Places`. A key is protected by three things that
rest on each other. `Mutexes`: one thread at most is in its critical section. `Counted`:
`ref_count` is the number of threads that have an event of the key still, plus
one for the registration (a cardinality of a set of threads, whence
`FiniteSetTheorems`), and the key is active exactly while that is not zero. `Alive`:
a key with callbacks is active, and one without is marked or about to be; a key in a
call's hands is not free. None of the three is inductive alone: `Register` may take
only a key that no thread has, which needs `Counted`; `Release` may put away only one
that is not registered, which needs `Alive`; `EndUnregister` gives up the one
reference of the registration, which needs `Mutexes`. From `IInv` follow `SetsMatch`,
`KeysAreKept`, `CallbacksAreExclusive` and `ReportedOnce`.

`TimerHeapProofs`: `Invariant`, `Spec => []IInv` with `IInv == Kept /\ Waiting /\
Polled /\ ~failed` and `Kept == TypeOK /\ Shape /\ Slotted /\ Ordered /\
\E f : FreeList(f)`. While a reheap loop runs an entry is in hand and the array has
a hole, so all of it is stated of the array with the entry put in the hole (`Entry`,
`Top`): `Slotted`, each entry in the array has an id of its own that leads back to its slot;
`Ordered`, no entry is earlier than its parent, except about the hole, where the
children of the hole are compared with its parent instead (without this
grandparent condition a move of the loop would lose the order). `FreeList(f)` says
that the list of free ids runs through `f[0]`, `f[1]`, ... without a repetition to
exactly the ids no entry has; as `f` is an explicit function, pushing an id on the
list or popping one needs no induction. Where one is needed (the first entry is the
earliest; the model's `Listed`, a recursive function) it is by the least
counterexample, `LeastNatural`. `Waiting`: an entry that a caller has tested and is
about to insert is in no other caller's hands and not in the heap, so the insertion
finds it without an id. `Polled`: a poll's time is not after the clock, and it has an
entry in hand exactly between the removal and the callback. From `IInv` follow `TypeCorrect`, `OrderKept`
(`HeapOrdered`), `IdsLead` (`IdsMatch`), `NoIdLost` (`FreeIdsKept`), `CancelsOwnEntry`
(`CancelsItself`) and `TimerSetKept` (`KeepsTimerSet`). `Implements` is the refinement,
`Spec => Set!SetSpec`: an insertion is `Arm`, a removal by `pj_timer_heap_cancel`
`Disarm`, by `pj_timer_heap_poll` `Expire`, the return of a callback `Called`, and
every step of the loops a stutter. The theorems are of `Spec`, which begins with an
empty heap of any size; the run `timer_heap` begins with a filled one as well.

`CallProofs`: `Invariant`, `Spec => []IInv` with `IInv == Sound(World) /\ Course(World)`,
for any `Budget` and with every switch (an application that is not patient, refreshes,
late timers). `Sound` has two parts. `Typed`: what refers to a transaction refers to
one that there is. `Pooled`: a description that is being negotiated is in the provisional
pool, one that was agreed on in the other, or either is in the session's own
(`initial_sdp` is in any of them, or nowhere); this is
what survives the swap of the two pools in `inv_negotiate_sdp` and the reset of one of
them. `Course` follows the call: its first transaction is the caller's INVITE and the
only one that is ever proceeding, it is `invite_tsx` of each end until the end is done
with it, an end sends no other INVITE before it is answered, and only the caller
cancels. `InviteTsxAlive` says of an end that is not answered that its `invite_tsx` is
there; it is not inductive, since a step of one end may go to the transaction the other
relies on. The handlers are operators from world to world, so the lemmas are stated of
the world a handler leaves: `Media` for what only negotiates, `Tame` for what may also
end the call or confirm it, `Follows` for a whole step. There is one lemma per operator
and one per action. From `IInv` follow `InviteIsThere` (`[]InviteTsxAlive`), `PoolsAlive`
(`[]SdpAlive`, of the four descriptions but not of `initial_sdp`) and, with what a step owes a session that is over, `OverStaysOver`
(`StaysDisconnected`).

`CallEnds`: `EndsTogether`, `Patient => (Spec => []CallsEndTogether)` for any `Budget`,
`Refresh` and `LateTimers`. `CallsEndTogether` speaks of a call in which nothing is
under way; the invariant has to say what an end that is done relies on while something
is (`Excused`): it gave up waiting (408), the peer is done too, its BYE is on its way,
its BYE was taken by a peer that never answers it, the peer's own BYE has no answer yet,
or the refusal of the INVITE did not arrive yet. `EndInv(World)` says that there is
nothing before the INVITE, and `Ending /\ Received` from then on, with
`Ending == Shape /\ Codes /\ First /\ Byes /\ Together`. `Codes`: a client has what its
server sent and no more. `First`: nothing happens before the callee has the INVITE, so
that a 481 cannot come from a callee that has not begun. `Byes`: whoever sent a BYE asks
for nothing else while it waits, and a BYE that was answered means that the other end is
done or has kept another BYE. `Received`: what an end has noted as the last request, and
what an ACK is for, are requests that were received, so a BYE that is refused with 500
because others overtook it was overtaken by another BYE. A handler is a composition of
operators on the world, and each of them either sends a request (`Asks`), brings an end
to a state (`Sets`), brings a transaction to a state at its client (`Turns`) or its
server (`Serves`), or does nothing of the kind (`Still`). A lemma says of each when it
keeps `Ending`; the handlers are proved against the contract `Goes`, one lemma per
operator and one per action. Patience is needed where an end makes an offer: it has no
request of its own open then, so no BYE of its own either.

`CallOffers` and `CallMedia`: `MediaAgrees`, `Patient /\ ~Refresh /\ ~LateTimers =>
(Spec => []MediaAgree)` for any `Budget`. The three conditions are those of the run
`call`. Without patience it is false (section 5 lists how the code gets stuck). A refresh,
or a timer D or K that fires late, may withdraw the offer of another request (finding 4
of section 5), so `AsksFor` below does not hold with them, although TLC meets no violation of the
property at `Budget = 2` with either one. The property compares two negotiators when
nothing is under way; the invariant has to say what is under way when they differ. `DealInv(World)`: before the
INVITE there is nothing, and from then on `Parted \/ Dealing`: a BYE was sent, after
which `EndInv` knows that no call that is confirmed at both ends becomes quiet, or
`Dealing` holds. Its heart is `Agreed`: the ends agree on the same (`Matched`), or the
answer to an offer of exactly one of them is on its way (`Due`), carried by a response
(`Carried`) or an ACK (`Acked`), or an offer is left open for good (`Stuck`: the ACK with
its answer was lost). `Rests` says that the answer under way is what the other end
took, and an ACK that is repeated (`last_ack`) the one that was sent first, which is what
lets a retransmitted 2xx be acknowledged again after its ACK was lost. `Steady` says why
no second offer interferes: an end that is confirmed has at most one request open
(`AsksFor`), and none while it serves an INVITE (`Answers`), so of two requests that cross
one is refused (491, 500) before it is looked at. `CalleeRings` and `CallerRings` are the
same for the first INVITE, where the offer may be in the INVITE, in a provisional
response or in the 2xx; `Connecting`, `Unheard`, `Requests`, `Accepted` and `Notes` say
which transactions and ACKs there can be. `CallOffers` proves what kinds of steps keep
`Dealing`: one that concerns no offer, an offer, its answer, a refusal, a timeout, an ACK
that arrives, is lost or is repeated. `CallMedia` proves that each handler is such a
step (the lemmas that end in `Settles`) and each action leaves what its handlers do (those
that end in `Onward`).

A leaf that names `ZenonT` or `SMTT` is one that the default order of the provers finds
only near their time limit; naming the prover keeps the proofs independent of the machine.

Only model-checked: `OffersSettle`, which says of an offer left open (`Stuck` in
`Agreed`) that an ACK was lost, and the bounds in the `TypeOK` of `Call` (`MaxTsx` and
`MaxSdps` say how much a `Budget` can make); `NoProvisionalAfterFinal` with a thread
of the TU's own; liveness and fairness, which the prover does not treat.

The constants' assumptions are `ASSUME`s beside their declarations; the proofs use
only that `None` is no transport (key, descriptor, operation), that there are
finitely many threads and, of a transaction, at least one worker, that the timer heap
is given room for two entries beyond its size, that the switches of the call are
Booleans, and the types of the bounds. `EndsTogether` assumes `Patient` besides, and
`MediaAgrees` also that there are no refreshes and no late timers: the applications and
the timers of the run `call`, which checks the two properties.

## 7. What the models leave out

Transaction: a first stateless send that fails at once (the destination was
validated when the transaction was created); failure of `pjsip_endpt_create_ack`;
a resolver that gives an unreliable address after a reliable one; the number of
retransmissions (the interval is `backoff`); a TU that calls what the state
forbids; the hash table with several transactions; `pjsip_tsx_set_transport`.
After the layer's stop nothing is polled. A read of a destroyed transaction is
recorded as the assertion `dead`. A failover that finds the transport gone at
once is part of the step that starts it.

Transports: the delay of the idle timer (0 or `PJSIP_TRANSPORT_IDLE_TIME`),
`pjsip_tpmgr_destroy`, selectors, the reference a datagram transport holds on
itself, state listeners, keep-alive, and the list of messages delayed until a
connection is up. What follows the use of released memory is not defined; the
thread stops there (`Lost`).

Timer heap: failures of the pool, and `set_max_timed_out_per_poll`, which is the
constant `MaxPoll`.

Call: challenges, redirection, forking, 100rel, negotiation of the session timer (a
refresh is an UPDATE without SDP), an ACK the application sends, a second usage
of the dialog, the contents of descriptions, a callee that gives a description to
`pjsip_inv_create_uas` (it answers with a response). The transactions are
those of `SipTsx` seen from outside, `calling`, `completed` and `terminated`.

Ioqueue: writes, accept and connect (whose handling is like that of reads), the
immediate read, other back ends than `select()`, `replace_udp_sock` (iOS only),
`pj_ioqueue_set_concurrency` during a callback, which the code takes care of with
`has_lock`; with concurrency enabled the callback may find its key unregistered,
which `ioqueue.h:160` leaves to the application.

Not modelled at all are the components that the table of section 1 lists and
`PROJECT.json` marks `not_modelled`, each with its reason.

## 8. Plan

In this order, each with its runs, mutants and map:

1. A theorem that an offer is left open only if an ACK was lost, `OffersSettle` for any
   `Budget`: the invariant of `CallOffers` with `lost` in it.
2. `SipTcp`: the delayed list of `sip_transport_tcp.c`, each delayed message
   answered exactly once, refining an abstract "send ends once".
3. `JBuf`: the ring with wrapping sequence numbers against a bounded sorted list.
4. `SipDlg`: the lock order of dialog and transaction, and the counts that keep
   a dialog alive; after it `SipReg`, `Evsub`, 100rel, ICE and STUN.
5. The ioqueue's writes and active sockets above its keys.
