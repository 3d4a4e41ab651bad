------------------------------- MODULE SipTsx -------------------------------
(***************************************************************************)
(* One SIP transaction among the threads that use it: the workers that     *)
(* poll the timer heap and the ioqueue (pjsip_endpt_handle_events2), and   *)
(* the transaction user (TU), which calls in from a thread of its own.     *)
(*                                                                         *)
(* A worker's event reaches the transaction in steps: it is taken from the *)
(* heap, the hash table or the transport first, and only then does the     *)
(* worker wait for the transaction's lock.  What other threads do between  *)
(* the steps is the point of this module.                                  *)
(***************************************************************************)
EXTENDS TsxCore, FiniteSets

CONSTANTS Workers,      \* worker threads of the endpoint
          Roles,        \* the roles to start in, of "UAC" and "UAS"
          TuThread,     \* the TU has a thread of its own, or calls from a worker
          MaxSends,     \* messages queued in transports at once, at most
          MaxServers    \* addresses a stateless request may fall back on

ASSUME WorkersAssumption == IsFiniteSet(Workers) /\ Workers # {}
ASSUME TuThreadAssumption == TuThread \in BOOLEAN
ASSUME RolesAssumption == Roles \subseteq {"UAC", "UAS"} /\ Roles # {}
ASSUME BoundsAssumption  == MaxSends \in Nat /\ MaxServers \in Nat

VARIABLES tsx,          \* the transaction
          at,           \* at[w]: what worker w is doing, and with what
          servers,      \* addresses left to try (dest_info.addr)
          stopped       \* mod_tsx_layer_stop has run

vars == <<tsx, at, servers, stopped>>

\* popped: the heap has let go of the entry.  timer, rx, sendcb, txerr: waiting
\* for the lock.  wired: a stateless send is over, its callback not yet called.
\* final: in the TU's callback, holding the lock.
Places == [pc  : {"idle", "popped", "timer", "rx", "wired", "sendcb", "txerr",
                  "final"},
           arg : Timers \cup Messages \cup {"sent", "retried", "failed", "none"}]

Idle == [pc |-> "idle", arg |-> "none"]
Place(p, a) == [pc |-> p, arg |-> a]

\* The record keeps its shape; in particular a stateless request is retried
\* only while there is an address left to try.
TypeOK == /\ tsx \in Tsx
          /\ at \in [Workers -> Places]
          /\ servers \in 0..MaxServers
          /\ stopped \in BOOLEAN

Init == /\ \/ /\ "UAC" \in Roles
              /\ \E inv, rel \in BOOLEAN : tsx = NewUac(inv, rel)
           \/ /\ "UAS" \in Roles
              /\ \E inv, rel, tp, own \in BOOLEAN : tsx = NewUas(inv, rel, tp, own)
        /\ at = [w \in Workers |-> Idle]
        /\ servers = MaxServers
        /\ stopped = FALSE

-----------------------------------------------------------------------------

\* The transaction's mutex is held across a step only in place "final".
LockFree == \A w \in Workers : at[w].pc # "final"

Fresh == [tsx EXCEPT !.out = {}]

\* The TU may run: in its own thread always, in a worker's only between events.
TuRuns == TuThread \/ \E w \in Workers : at[w] = Idle

\* The answers e may hold: no more queued messages than MaxSends.
May(e) == e.net = "queued" => Cardinality(tsx.sends) < MaxSends

\* A handler runs with the lock; on a destroyed transaction it is a use of
\* freed memory, which is recorded and changes nothing else.
Handle(u) ==
    /\ LockFree
    /\ tsx' = IF tsx.alive THEN u ELSE Check(Fresh, FALSE, "dead")

Move(w, p) == at' = [at EXCEPT ![w] = p]

Become(w, pc, arg) == Move(w, Place(pc, arg))

-----------------------------------------------------------------------------
(* The TU *)

TuCall(u) == /\ ~stopped /\ TuRuns
             /\ tsx.alive
             /\ Handle(u)
             /\ UNCHANGED <<at, servers, stopped>>

\* pjsip_tsx_send_msg: the request.
TuRequest(e) ==
    /\ tsx.role = "UAC" /\ tsx.state = "NULL" /\ May(e)
    /\ TuCall(UacSend(Fresh, e))

\* pjsip_tsx_recv_msg: the TU hands the transaction the request it was
\* created for.
TuAccept(e) ==
    /\ tsx.role = "UAS" /\ tsx.state = "NULL"
    /\ TuCall(UasRx(Fresh, "req", e))

\* pjsip_tsx_send_msg: a response, not like one that is still queued (the
\* model tells messages apart by their kind alone).
TuRespond(m, e) ==
    /\ tsx.role = "UAS" /\ m \notin tsx.sends /\ tsx.state \in {"TRYING", "PROCEEDING"} /\ May(e)
    /\ TuCall(UasSend(Fresh, m, e))

TuTerminate ==
    /\ Rank(tsx.state) < Rank("TERMINATED")
    /\ TuCall(Terminate(Fresh))

\* The same, by a thread of the TU that tested the state before another thread
\* ended the transaction, and has the lock only now.
TuTerminateLate ==
    /\ TuThread /\ ~stopped
    /\ Rank(tsx.state) >= Rank("TERMINATED")
    /\ Handle(ForceTerminate(Fresh))
    /\ UNCHANGED <<at, servers, stopped>>

TuStopRetransmit ==
    /\ tsx.role = "UAC" /\ tsx.invite /\ tsx.state \in {"CALLING", "PROCEEDING"}
    /\ TuCall(Cancel(Fresh, "rt"))

\* pjsip_tsx_set_timeout takes only the timer's lock.  The TU calls it once a
\* provisional response has come, and may be overtaken by the final one.
TuSetTimeout ==
    /\ tsx.role = "UAC" /\ tsx.invite /\ tsx.status >= 100
    /\ ~stopped /\ TuRuns /\ tsx.alive /\ tsx.registered
    /\ tsx' = SetTimeout(Fresh)
    /\ UNCHANGED <<at, servers, stopped>>

\* pjsip_tsx_retransmit_no_state: the TU repeats a response by itself, in a
\* thread of its own possibly after the transaction has terminated.
TuRetransmit(e) ==
    /\ tsx.role = "UAS" /\ tsx.invite /\ tsx.last # "none" /\ May(e)
    /\ \/ tsx.state \in {"PROCEEDING", "COMPLETED"}
       \/ TuThread /\ tsx.state = "TERMINATED"
    /\ TuCall(SendMsg(Fresh, tsx.last, e))

-----------------------------------------------------------------------------
(* Timers *)

\* pj_timer_heap_poll removes the entry and releases the heap's lock.
Pop(w, x) ==
    /\ at[w] = Idle /\ ~stopped /\ tsx.due[x] # "off"
    /\ tsx' = Unschedule(Fresh, x)
    /\ Become(w, "popped", x)
    /\ UNCHANGED <<servers, stopped>>

\* tsx_timer_callback: the id goes before the lock is taken.
Expire(w) ==
    /\ at[w].pc = "popped"
    /\ tsx' = IF tsx.alive THEN [Fresh EXCEPT !.armed = @ \ {at[w].arg}]
                           ELSE Check(Fresh, FALSE, "dead")
    /\ Become(w, "timer", at[w].arg)
    /\ UNCHANGED <<servers, stopped>>

Fire(w, e) ==
    /\ at[w].pc = "timer" /\ May(e)
    /\ Handle(OnTimer(Fresh, at[w].arg, e))
    /\ Move(w, Idle)
    /\ UNCHANGED <<servers, stopped>>

-----------------------------------------------------------------------------
(* Messages from the network *)

\* What may arrive: responses once the request is out, retransmissions of the
\* request, and the ACK once there is a final response it can answer (that of
\* a 2xx belongs to no transaction).
Arrives(m) ==
    IF tsx.role = "UAC"
    THEN m \in Responses /\ "req" \in tsx.wire
    ELSE m = "req" \/ (m = "ack" /\ tsx.invite /\ "r3xx" \in tsx.wire)

\* mod_tsx_layer_on_rx_request and _response: found in the hash table.
Find(w, m) ==
    /\ at[w] = Idle /\ ~stopped
    /\ Arrives(m) /\ tsx.registered /\ tsx.state # "TERMINATED"
    /\ tsx' = Fresh
    /\ Become(w, "rx", m)
    /\ UNCHANGED <<servers, stopped>>

\* pjsip_tsx_recv_msg.  After a 3xx-6xx the TU's callback is a step of its own.
Receive(w, e) ==
    LET m == at[w].arg
        u == OnRx(Fresh, m, e)
        half == /\ tsx.alive /\ tsx.role = "UAC" /\ Final3xx(tsx, m)
                /\ ~SendErr(UacRejected(IF tsx.state = "CALLING"
                                        THEN CallingPrelude(Fresh, m)
                                        ELSE Fresh, m, e))
    IN  /\ at[w].pc = "rx" /\ May(e)
        /\ Handle(u)
        /\ Move(w, IF half THEN Place("final", "none") ELSE Idle)
        /\ UNCHANGED <<servers, stopped>>

ReceiveRest(w) ==
    /\ at[w].pc = "final"
    /\ tsx' = UacStartTimerD(Fresh)
    /\ Move(w, Idle)
    /\ UNCHANGED <<servers, stopped>>

-----------------------------------------------------------------------------
(* Transports *)

WiredAnyServer(w, o) ==
    /\ at[w] = Idle /\ tsx.pending # "none"
    /\ \A v \in Workers : at[v].pc \notin {"wired", "sendcb"}
    /\ tsx' = Fresh
    /\ Become(w, "wired", o)
    /\ UNCHANGED <<servers, stopped>>

\* A stateless send (resolver, connection, transmission) comes to its end.
Wired(w, o) ==
    /\ at[w] = Idle /\ tsx.pending # "none"
    /\ \A v \in Workers : at[v].pc \notin {"wired", "sendcb"}
    /\ o = "retried" => tsx.role = "UAC" /\ servers > 0
    /\ stopped => o = "failed"
    /\ o = "sent" => tsx.pending \notin tsx.sends
    /\ tsx' = IF o = "sent" THEN Emit(Fresh, tsx.pending, FALSE) ELSE Fresh
    /\ Become(w, "wired", o)
    /\ UNCHANGED <<servers, stopped>>

\* send_msg_callback up to its lock: ignored if the transaction has let go of
\* the message.
Called(w) ==
    /\ at[w].pc = "wired"
    /\ tsx' = [Fresh EXCEPT !.pending = "none"]
    /\ IF tsx.pending = "none" THEN Move(w, Idle)
                               ELSE Become(w, "sendcb", at[w].arg)
    /\ UNCHANGED <<servers, stopped>>

SendCallback(w, e) ==
    LET o == at[w].arg
        give_up == o = "failed" \/ "DESTROY" \in tsx.flags
    IN  /\ at[w].pc = "sendcb" /\ May(e)
        /\ Handle(IF o = "sent" THEN SendDone(Fresh, e)
                  ELSE IF give_up THEN SendFailed(Fresh, e)
                  ELSE SendRetried(Fresh, "req"))
        /\ Move(w, Idle)
        /\ servers' = IF o = "retried" THEN servers - 1 ELSE servers
        /\ UNCHANGED stopped

\* A transport is through with a queued message; only its failure looks at
\* the transaction.
SendEnds(w, m, ok) ==
    /\ at[w] = Idle /\ ~stopped /\ m \in tsx.sends
    /\ tsx' = [Fresh EXCEPT !.sends = @ \ {m}]
    /\ Move(w, IF ok THEN Idle ELSE Place("txerr", "none"))
    /\ UNCHANGED <<servers, stopped>>

TransportCallback(w, e) ==
    /\ at[w].pc = "txerr"
    /\ Handle(TransportError(Fresh, e))
    /\ Move(w, Idle)
    /\ UNCHANGED <<servers, stopped>>

Disconnect(w, e) ==
    /\ at[w] = Idle /\ tsx.transport
    /\ Handle(TransportDown(Fresh, e))
    /\ UNCHANGED <<at, servers, stopped>>

\* mod_tsx_layer_stop, at endpoint shutdown, when the workers have ended.
LayerStop ==
    /\ ~stopped /\ tsx.registered /\ \A w \in Workers : at[w] = Idle
    /\ tsx' = Stop(Fresh)
    /\ stopped' = TRUE
    /\ UNCHANGED <<at, servers>>

-----------------------------------------------------------------------------

Tu(e) == \/ TuRequest(e) \/ TuAccept(e) \/ TuRetransmit(e)
         \/ \E m \in Responses : TuRespond(m, e)

TuOther == TuTerminate \/ TuTerminateLate \/ TuStopRetransmit \/ TuSetTimeout

Take(w) == \/ \E x \in Timers : Pop(w, x)
           \/ \E m \in Messages : Find(w, m)
           \/ \E o \in {"sent", "retried", "failed"} : Wired(w, o)
           \/ \E m \in Messages, ok \in BOOLEAN : SendEnds(w, m, ok)

\* The steps of a worker that has taken an event.
Work(w, e) == \/ Fire(w, e) \/ Receive(w, e) \/ SendCallback(w, e)
              \/ TransportCallback(w, e)

WorkOn(w) == Expire(w) \/ ReceiveRest(w) \/ Called(w)

Next == \/ TuOther \/ LayerStop
        \/ \E e \in Env : Tu(e) \/ \E w \in Workers : Work(w, e) \/ Disconnect(w, e)
        \/ \E w \in Workers : Take(w) \/ WorkOn(w)

Spec == Init /\ [][Next]_vars

(***************************************************************************)
(* Fairness.  A worker that has taken an event goes on to handle it.  Every *)
(* turn of pjsip_endpt_handle_events2 polls the timers, so one that is due  *)
(* again and again is popped; and a stateless send comes to an end, since   *)
(* the resolver and the connections have timeouts of their own.  The TU,    *)
(* the peer and the network owe nothing.                                    *)
(***************************************************************************)
GoesOn(w) == WorkOn(w) \/ \E e \in Env : Work(w, e)

SendOver(w) == \E o \in {"sent", "retried", "failed"} : Wired(w, o)

Fairness == \A w \in Workers : /\ WF_vars(GoesOn(w))
                               /\ SF_vars(SendOver(w))
                               /\ \A x \in Timers : SF_vars(Pop(w, x))

FairSpec == Spec /\ Fairness

-----------------------------------------------------------------------------
(* Invariants *)

\* Timer x is in the heap, or on its way from the heap to the handler.
Ticking(x) ==
    \/ tsx.due[x] # "off"
    \/ \E w \in Workers : at[w] \in {Place("popped", x), Place("timer", x)}

\* Nobody is inside the transaction.
Waiting == tsx.alive /\ ~stopped /\ LockFree

\* Nothing but the timeout timer is certain to end these states.
NeedsTimeout ==
    \/ tsx.state \in {"COMPLETED", "CONFIRMED", "TERMINATED"}
    \/ tsx.role = "UAC" /\ tsx.state = "CALLING"
    \/ tsx.role = "UAC" /\ ~tsx.invite /\ tsx.state = "PROCEEDING"

\* A transaction in a state it can only leave by a timeout has that timeout
\* coming: whatever cancelled, replaced or let the timer go (CallingPrelude,
\* send_msg_callback, set_timeout, a handler racing with tsx_timer_callback)
\* left another in its place.  A terminated transaction takes either timer.
NeverOrphaned ==
    Waiting /\ NeedsTimeout =>
        Ticking("to") \/ (tsx.state = "TERMINATED" /\ Ticking("rt"))

NeedsRetransmit ==
    /\ ~tsx.reliable
    /\ \/ /\ tsx.role = "UAC" /\ ~tsx.invite
          /\ tsx.state \in {"CALLING", "PROCEEDING"}
       \/ tsx.role = "UAS" /\ tsx.invite /\ tsx.state = "COMPLETED"

\* Over an unreliable transport the messages that must be repeated until they
\* are answered keep being repeated: the retransmission timer runs, or it will
\* be started by the end of a stateless send (PENDING_RESCHED), although each
\* timeout, each provisional response and each failed send stops it.
RetransmissionKept ==
    Waiting /\ NeedsRetransmit =>
        Ticking("rt") \/ {"RESCHED", "TRANSPORT"} \subseteq tsx.flags

\* Both, which more than one thread must not break either: a step that cancels
\* a timer and one of another thread that starts it never cancel each other out.
NothingForgotten == NeverOrphaned /\ RetransmissionKept

\* A stateless send in progress and the transaction agree: the message still
\* points to a transaction that waits for it, and a transaction that waits
\* (PENDING_TRANSPORT) has a message whose callback will come.  Otherwise the
\* callback would find a freed transaction, or the transaction would queue
\* everything for ever.
PendingAnswered ==
    /\ tsx.pending # "none" => tsx.alive /\ "TRANSPORT" \in tsx.flags
    /\ "TRANSPORT" \in tsx.flags =>
         tsx.pending # "none" \/ \E w \in Workers : at[w].pc = "sendcb"

\* The heap holds no timer of a destroyed transaction, whose callback would
\* read freed memory.
NoDanglingTimer == ~tsx.alive => \A x \in Timers : tsx.due[x] = "off"

\* A client transaction that keeps a rejection of its INVITE has acknowledged
\* it, or does as soon as the transport is found: the ACK is not lost because
\* a retransmitted INVITE was looking for a transport when the response came.
AckGoesOut ==
    tsx.role = "UAC" /\ tsx.invite /\ tsx.state = "COMPLETED" =>
        "ack" \in tsx.wire \/ {"SEND", "TRANSPORT"} \subseteq tsx.flags

\* The transaction acknowledges rejections alone: an ACK on the wire, at once
\* or after a background send, means it ended unsuccessfully (the ACK of a 2xx
\* is the dialog's).
AckOnlyRejection == "ack" \in tsx.wire => tsx.status \notin {0, 100, 180, 200}

\* The assertions of sip_transaction.c that hold when one thread polls the
\* endpoint and the TU runs in it.  The other three fail even then:
\* uas_pending_timer, tx_pending, and dead (an error reported by a transport to
\* a transaction that is gone).
AssertionsHold == tsx.failed \subseteq {"uas_pending_timer", "tx_pending", "dead"}

-----------------------------------------------------------------------------
(* Action properties *)

\* A final status is never taken back by a late provisional response, a timer
\* or a callback: it may only become another final one (408, 487, 503).
StatusFinal == [][tsx.status >= 200 => tsx'.status >= 200]_vars

\* A transaction only moves forward through the states of RFC 3261, figures 5
\* to 8, also when a transport reports an error or the TU terminates it from
\* inside a callback.
Forward == [][Rank(tsx.state) <= Rank(tsx'.state)]_vars

\* Once a final response has been sent no provisional one follows it, although
\* provisional responses are repeated by a timer, by retransmitted requests and
\* by stateless sends that take their time.
NoProvisionalAfterFinal ==
    [][tsx.wire \cap {"r2xx", "r3xx"} # {} => tsx'.out \cap {"r100", "r1xx"} = {}]_vars

\* A client transaction that has its final response does not send the request
\* again, although the retransmission timer, a stateless send and last_tx may
\* still hold it.
NoRequestAfterFinal ==
    [][tsx.role = "UAC" /\ tsx.state = "COMPLETED" => "req" \notin tsx'.out]_vars

-----------------------------------------------------------------------------
(* Liveness, under FairSpec *)

\* A request that was sent is decided: a final status comes, or, for INVITE, a
\* provisional response, after which the TU is in charge.
RequestDecided ==
    tsx.role = "UAC" /\ tsx.state \in {"CALLING", "PROCEEDING"}
        ~> tsx.status >= 200 \/ (tsx.invite /\ tsx.state = "PROCEEDING")

\* A transaction that has nothing left to do gives its memory back: Completed
\* and Confirmed lead to Terminated, and the zero timer and the outstanding
\* stateless send lead from there to tsx_destroy.
Reclaimed ==
    tsx.state \in {"COMPLETED", "CONFIRMED", "TERMINATED"} ~> ~tsx.alive
=============================================================================
