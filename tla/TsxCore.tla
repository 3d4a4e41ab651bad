------------------------------ MODULE TsxCore ------------------------------
(***************************************************************************)
(* The SIP transaction of pjsip/src/pjsip/sip_transaction.c as operators   *)
(* on one record: the helpers that arm timers, send messages and change    *)
(* the state, and one handler per state and kind of event.  Every operator *)
(* takes the transaction and returns the transaction the C function leaves *)
(* behind; the environment's answers to the calls it makes come in a       *)
(* record e of Env.  Modules that use it decide who calls the handlers and *)
(* when; SipTsx does, with worker threads and a transaction user.          *)
(*                                                                         *)
(* Some operators are preceded by a variant that no other definition uses, *)
(* named for a mistake their code could have made: put in the operator's   *)
(* place it breaks a property, which shows that the property depends on    *)
(* this line.                                                              *)
(*                                                                         *)
(* pj_assert and PJ_ASSERT_RETURN are modelled: an assertion that fails    *)
(* leaves its name in the field failed, and the function goes on the way a *)
(* build without assertions does.                                          *)
(***************************************************************************)
EXTENDS Naturals

-----------------------------------------------------------------------------
(* Data *)

\* pjsip_tsx_state_e: the states in the order of their numbers.
States == {"NULL", "CALLING", "TRYING", "PROCEEDING", "COMPLETED",
           "CONFIRMED", "TERMINATED", "DESTROYED"}

Rank(s) == CASE s = "NULL"       -> 0
             [] s = "CALLING"    -> 1
             [] s = "TRYING"     -> 2
             [] s = "PROCEEDING" -> 3
             [] s = "COMPLETED"  -> 4
             [] s = "CONFIRMED"  -> 5
             [] s = "TERMINATED" -> 6
             [] OTHER            -> 7

\* retransmit_timer and timeout_timer.
Timers == {"rt", "to"}

\* What a timer entry is scheduled with; "off" is an entry not in the heap.
\* "backoff" is T1 doubled by retransmit_count, "64T1" timers B, F, H and J,
\* "1xx" PJSIP_TSX_1XX_RETRANS_DELAY, "user" what the TU passes.
Delays == {"off", "zero", "T1", "T2", "T4", "TD", "64T1", "backoff", "1xx",
           "user"}

Requests  == {"req", "ack"}
Responses == {"r100", "r1xx", "r2xx", "r3xx"}   \* r3xx: any of 300..699
Messages  == Requests \cup Responses

Code(m) == CASE m = "r100" -> 100
             [] m = "r1xx" -> 180
             [] m = "r2xx" -> 200
             [] m = "r3xx" -> 300
             [] OTHER      -> 0

Codes == {0, 100, 180, 200, 300, 408, 487, 503}

\* TSX_HAS_PENDING_TRANSPORT, _RESCHED, _SEND, _DESTROY, TSX_HAS_RESOLVED_SERVER.
Flags == {"TRANSPORT", "RESCHED", "SEND", "DESTROY", "RESOLVED"}

\* The assertions the model keeps.
Assertions == {"state_order", "double_schedule", "resched_pending",
               "resched_status", "send_status", "no_last_tx", "null_event",
               "uas_pending_timer", "uas_timeout", "completed_timer",
               "confirmed_timer", "tx_pending", "dead"}

\* The answers of what the handlers call.  net: the transport takes a message
\* ("sent") or queues it ("queued", PJ_EPENDING) or, in the other cases, refuses
\* it; a message without a transport is sent statelessly and arrives ("sent",
\* "moved"), waits in the background ("queued", "waits") or fails ("failed").
\* rel: the transport found is reliable.  tu: the TU returns from on_tsx_state,
\* or first calls pjsip_tsx_terminate from inside it.
Env == [net : {"sent", "queued", "moved", "waits", "failed"},
        rel : BOOLEAN,
        tu  : {"return", "terminate"}]

\* struct pjsip_transaction.  armed holds the timers whose id is not 0 and due
\* what is in the timer heap.  pending is pending_tx, sends the messages a
\* transport has queued (is_pending), whose callback carries this transaction,
\* out the messages this step put on the wire and wire all of them so far.
Tsx == [role : {"UAC", "UAS"}, invite : BOOLEAN, own200 : BOOLEAN,
        state : States, status : Codes,
        transport : BOOLEAN, reliable : BOOLEAN, flags : SUBSET Flags,
        pending : Messages \cup {"none"}, last : Messages \cup {"none"},
        armed : SUBSET Timers, due : [Timers -> Delays], sends : SUBSET Messages,
        registered : BOOLEAN, alive : BOOLEAN,
        out : SUBSET Messages, wire : SUBSET Messages,
        failed : SUBSET Assertions]

Check(t, holds, name) ==
    IF holds THEN t ELSE [t EXCEPT !.failed = @ \cup {name}]

\* pjsip_tsx_create_uac: a registered transaction holding its request.
NewUac(inv, rel) ==
    [role |-> "UAC", invite |-> inv, own200 |-> TRUE, state |-> "NULL",
     status |-> 0, transport |-> FALSE, reliable |-> rel, flags |-> {},
     pending |-> "none", last |-> "req", armed |-> {},
     due |-> [x \in Timers |-> "off"], sends |-> {}, registered |-> TRUE,
     alive |-> TRUE, out |-> {}, wire |-> {}, failed |-> {}]

\* pjsip_tsx_create_uas: tp says whether the response address keeps the
\* transport the request came from.
NewUas(inv, rel, tp, own) ==
    [NewUac(inv, rel) EXCEPT !.role = "UAS", !.last = "none",
                             !.transport = tp, !.own200 = own]

-----------------------------------------------------------------------------
(* Timers: pjsip_endpt_schedule_timer and pjsip_endpt_cancel_timer, which   *)
(* leave the entry's id to the caller, and the idiom that guards a cancel   *)
(* by the id.                                                               *)

Unschedule(t, x) == [t EXCEPT !.due[x] = "off"]

\* An entry already in the heap is refused by pj_timer_heap_schedule.
Schedule(t, x, d) ==
    LET u == [t EXCEPT !.armed = @ \cup {x}]
    IN  IF t.due[x] = "off"
        THEN [u EXCEPT !.due[x] = d]
        ELSE [u EXCEPT !.failed = @ \cup {"double_schedule"}]

Cancel(t, x) ==
    IF x \in t.armed
    THEN [t EXCEPT !.armed = @ \ {x}, !.due[x] = "off"]
    ELSE t

ArmRetransmitForgets(t, d) == IF "TRANSPORT" \in t.flags THEN t ELSE Schedule(t, "rt", d)

\* Arms the retransmission timer, or leaves it to send_msg_callback while the
\* transport is still being looked for.
ArmRetransmit(t, d) ==
    IF "TRANSPORT" \in t.flags
    THEN [t EXCEPT !.flags = @ \cup {"RESCHED"}]
    ELSE Schedule(t, "rt", d)

Clear(t, f) == [t EXCEPT !.flags = @ \ {f}]

-----------------------------------------------------------------------------
(* tsx_set_state and the two ends of a transaction's life.                  *)

DestroyLeavesTimer(t) ==
    IF "TRANSPORT" \in t.flags
    THEN [t EXCEPT !.flags = @ \cup {"DESTROY"}]
    ELSE [Cancel(t, "to") EXCEPT !.alive = FALSE]

\* tsx_destroy: refused while a stateless send still refers to the transaction.
Destroy(t) ==
    LET u == [Cancel(Cancel(t, "to"), "rt") EXCEPT
                 !.transport = FALSE, !.last = "none",
                 !.flags = @ \ {"RESCHED", "SEND"}]
    IN  IF "TRANSPORT" \in u.flags
        THEN [u EXCEPT !.flags = @ \cup {"DESTROY"}]
        ELSE [u EXCEPT !.alive = FALSE]

ReapKeepsPending(t) ==
    Schedule(Cancel(Clear(t, "TRANSPORT"), "to"), "to", "zero")

ReapStartsNoTimer(t) == Cancel([Clear(t, "TRANSPORT") EXCEPT !.pending = "none"], "to")

\* What tsx_set_state does after entering TERMINATED: forget the outstanding
\* stateless send and let a zero timer destroy the transaction.
Reap(t) ==
    LET u == IF "TRANSPORT" \in t.flags
             THEN [Clear(t, "TRANSPORT") EXCEPT !.pending = "none"]
             ELSE t
    IN  Schedule(Cancel(u, "to"), "to", "zero")

Enter(t, s) ==
    [Check(t, Rank(s) >= Rank(t.state), "state_order") EXCEPT !.state = s]

\* pjsip_tsx_terminate, with the lock.
ForceTerminate(t) == Reap([Enter(t, "TERMINATED") EXCEPT !.status = 487])

\* pjsip_tsx_terminate: the test of the state comes before the lock.
Terminate(t) == IF Rank(t.state) >= Rank("TERMINATED") THEN t ELSE ForceTerminate(t)

SetState(t, s, e) ==
    LET u == Enter(t, s)
        v == IF e.tu = "terminate" THEN Terminate(u) ELSE u
    IN  CASE s = "TERMINATED" -> Reap(v)
          [] s = "DESTROYED"  -> Destroy([v EXCEPT !.registered = FALSE])
          [] OTHER            -> v

Fail(t, code, e) == SetState([t EXCEPT !.status = code], "TERMINATED", e)

-----------------------------------------------------------------------------
(* Sending *)

Emit(t, m, queued) ==
    [t EXCEPT !.out = @ \cup {m}, !.wire = @ \cup {m},
              !.sends = IF queued THEN @ \cup {m} ELSE @]

\* tsx_resched_retransmission.
Resched(t) ==
    LET u == Check(t, "TRANSPORT" \notin t.flags, "resched_pending")
        v == Check(u, t.role = "UAC" => t.status < 200, "resched_status")
        d == CASE t.role = "UAC" /\ t.status >= 100 -> "T2"
               [] t.role = "UAS" /\ t.status < 200  -> "1xx"
               [] OTHER                             -> "backoff"
    IN  Schedule(v, "rt", d)

\* pjsip_transport_send takes no message it still has in its queue.
Accepted(t, m, e) ==
    t.transport /\ m \notin t.sends /\ e.net \in {"sent", "queued"}

\* tsx_send_msg once no transport is being looked for: over the transport, or,
\* when that fails after the server has been resolved, a permanent error.  The
\* case left is a transaction without a transport that has to find one.
SendVia(t, m, e) ==
    LET u == [Check(t, t.transport => m \notin t.sends, "tx_pending")
                 EXCEPT !.transport = FALSE]
    IN  IF Accepted(t, m, e) THEN Emit(t, m, e.net = "queued")
        ELSE IF "RESOLVED" \in t.flags
             THEN Fail(Check(u, t.transport, "send_status"), 503, e)
             ELSE u

Resolves(t, m, e) == "RESOLVED" \notin t.flags /\ ~Accepted(t, m, e)

SendDoneForgetsTimer(t, e) ==
    [t EXCEPT !.transport = TRUE, !.flags = (@ \ {"TRANSPORT"}) \cup {"RESOLVED"}]

\* send_msg_callback after a success: the transport is known, and what had to
\* wait for it is done.  A destination known to be reliable does not resolve to
\* an unreliable transport.
SendDone(t, e) ==
    LET u == [t EXCEPT !.transport = TRUE,
                       !.reliable = @ \/ e.rel,
                       !.flags = (@ \ {"TRANSPORT"}) \cup {"RESOLVED"}]
        s == Clear(u, "SEND")
        v == IF "SEND" \notin u.flags THEN u
             ELSE IF u.last = "none" THEN Check(s, FALSE, "no_last_tx")
                                     ELSE SendVia(s, u.last, e)
    IN  IF "DESTROY" \in t.flags THEN SetState(u, "DESTROYED", e)
        ELSE IF "RESCHED" \notin t.flags THEN v
        ELSE IF v.reliable THEN Clear(v, "RESCHED")
                           ELSE Resched(Clear(v, "RESCHED"))

\* send_msg_callback after a failure there is no other server for.
SendFailed(t, e) ==
    LET u == [t EXCEPT !.transport = FALSE, !.status = 503,
                       !.flags = (@ \ {"TRANSPORT"}) \cup {"RESOLVED"}]
    IN  IF Rank(u.state) < Rank("TERMINATED") THEN SetState(u, "TERMINATED", e)
        ELSE IF "DESTROY" \in u.flags THEN SetState(u, "DESTROYED", e)
        ELSE u

\* send_msg_callback after a failure that leaves another server to try: the
\* timeout starts again and m stays attached to the transaction.
SendRetried(t, m) ==
    LET u == [t EXCEPT !.transport = FALSE, !.pending = m]
    IN  IF "to" \in u.armed THEN Schedule(Cancel(u, "to"), "to", "64T1") ELSE u

\* tsx_send_msg when no stateless send is in progress.
SendNow(t, m, e) ==
    LET u == SendVia(t, m, e)
        v == [u EXCEPT !.flags = @ \cup {"TRANSPORT"}]
    IN  IF ~Resolves(t, m, e) THEN u
        ELSE IF e.net \in {"queued", "waits"} THEN [v EXCEPT !.pending = m]
        ELSE IF e.net = "failed" \/ m \in t.sends THEN SendFailed(v, e)
        ELSE SendDone(Emit(v, m, FALSE), e)

PostponeNothing(t) == t

\* What is sent in the meantime is left to send_msg_callback, which sends last_tx.
Postpone(t) == [t EXCEPT !.flags = @ \cup {"SEND"}]

SendMsgOvertakes(t, m, e) == SendNow(t, m, e)

\* tsx_send_msg.
SendMsg(t, m, e) ==
    IF "TRANSPORT" \in t.flags THEN Postpone(t) ELSE SendNow(t, m, e)

\* In a live transaction tsx_send_msg reports an error exactly when the
\* attempt ended the transaction.
SendErr(t) == Rank(t.state) >= Rank("TERMINATED")

\* tsx_retransmit.
Retransmit(t, resched, e) ==
    IF t.last = "none"
    THEN [t EXCEPT !.failed = @ \cup {"no_last_tx"}]
    ELSE SendMsg(IF ~resched THEN t
                 ELSE IF "TRANSPORT" \in t.flags
                      THEN [t EXCEPT !.flags = @ \cup {"RESCHED"}]
                      ELSE Resched(t),
                 t.last, e)

-----------------------------------------------------------------------------
(* Client transaction: tsx_on_state_null, _calling, _proceeding_uac and     *)
(* _completed_uac.                                                          *)

\* The request leaves; timers B or F and, if unreliable, A or E start.
UacSend(t, e) ==
    LET u == SendMsg(t, "req", e)
        v == Schedule(u, "to", "64T1")
        w == IF v.reliable THEN v ELSE ArmRetransmit(v, "T1")
    IN  IF SendErr(u) THEN u ELSE SetState(w, "CALLING", e)

CallingPreludeStopsTimeout(t, m) ==
    Clear(Unschedule(Cancel(t, "rt"), "to"), "RESCHED")

CallingPreludeKeepsTimer(t, m) ==
    IF Code(m) >= 200 THEN Cancel(t, "to")
    ELSE IF t.invite THEN Unschedule(t, "to")
    ELSE Schedule(t, "rt", "T2")

\* Calling stops the timers a response makes obsolete before it goes on as
\* Proceeding does.  For a provisional response to INVITE the timeout leaves
\* the heap and keeps its id.
CallingPrelude(t, m) ==
    LET u == Cancel(t, "rt")
        v == IF Code(m) >= 200 THEN Cancel(u, "to")
             ELSE IF t.invite THEN Unschedule(u, "to")
             ELSE IF u.reliable THEN u
             ELSE Schedule(u, "rt", "T2")
    IN  Clear(v, "RESCHED")

UacProvisional(t, m, e) == SetState([t EXCEPT !.status = Code(m)], "PROCEEDING", e)

UacSuccess(t, m, e) ==
    LET u == Unschedule([t EXCEPT !.status = Code(m)], "to")
        v == Cancel(Schedule(u, "to", IF u.reliable THEN "zero" ELSE "T4"), "rt")
    IN  IF t.invite THEN SetState(u, "TERMINATED", e)
                    ELSE SetState(v, "COMPLETED", e)

\* 3xx to 6xx, up to the notification of the TU: stop the timers, ACK an INVITE.
UacRejected(t, m, e) ==
    LET u == Cancel([t EXCEPT !.status = Code(m)], "rt")
        v == Unschedule([u EXCEPT !.armed = @ \ {"to"}], "to")
    IN  IF t.invite THEN SendMsg(v, "ack", e) ELSE v

\* The notification.
UacRejection(t, m, e) ==
    LET u == UacRejected(t, m, e)
    IN  IF SendErr(u) THEN u ELSE SetState(u, "COMPLETED", e)

UacStartTimerDKeepsRequest(t) ==
    Schedule(Cancel(t, "to"), "to", IF t.reliable THEN "zero" ELSE "TD")

\* After the notification: keep the ACK, start timer D or K.  The TU
\* may have used the timer since (pjsip_tsx_set_timeout).
UacStartTimerD(t) ==
    LET u == IF t.invite THEN [t EXCEPT !.last = "ack"] ELSE t
        d == IF t.reliable THEN "zero" ELSE IF t.invite THEN "TD" ELSE "T4"
    IN  Schedule(IF "to" \in u.armed THEN Unschedule(u, "to") ELSE u, "to", d)

FinalAny(t, m) == Code(m) >= 200 /\ t.state \in {"CALLING", "PROCEEDING"}

Final3xx(t, m) == m = "r3xx" /\ t.state \in {"CALLING", "PROCEEDING"}

\* Completed: the ACK again for a final response to INVITE.
UacCompletedRxLate(t, m, e) ==
    IF Code(m) < 200 THEN UacProvisional(t, m, e) ELSE t

UacCompletedRx(t, m, e) ==
    IF t.invite /\ Code(m) >= 200 THEN Retransmit(t, FALSE, e) ELSE t

\* A response in every state; for Final3xx only its first half.
UacRx(t, m, e) ==
    LET u == IF t.state = "CALLING" THEN CallingPrelude(t, m) ELSE t
    IN  CASE Final3xx(t, m) -> UacRejection(u, m, e)
          [] t.state \in {"CALLING", "PROCEEDING"} /\ m = "r2xx" ->
                UacSuccess(u, m, e)
          [] t.state \in {"CALLING", "PROCEEDING"} /\ m \notin {"r2xx", "r3xx"} ->
                UacProvisional(u, m, e)
          [] t.state = "COMPLETED" -> UacCompletedRx(t, m, e)
          [] t.state = "NULL" -> Check(t, FALSE, "null_event")
          [] OTHER -> t

UacTimer(t, x, e) ==
    CASE t.state = "NULL" -> Check(t, FALSE, "null_event")
      [] t.state \in {"CALLING", "PROCEEDING"} /\ x = "rt" ->
            Retransmit(t, TRUE, e)
      [] t.state = "CALLING" /\ x # "rt" ->
            Fail(Clear(Cancel(t, "rt"), "RESCHED"), 408, e)
      [] t.state = "PROCEEDING" /\ x # "rt" -> Fail(t, 408, e)
      [] OTHER -> SetState(Check(t, x = "to", "completed_timer"), "TERMINATED", e)

-----------------------------------------------------------------------------
(* Server transaction: tsx_on_state_null, _trying, _proceeding_uas,         *)
(* _completed_uas and _confirmed.                                           *)

\* Timer H, J: how long a final response is kept.
FinalTimeout(t) == IF t.invite \/ ~t.reliable THEN "64T1" ELSE "zero"

\* The TU sends a response (Trying and Proceeding).
UasProvisional(t, m, e) ==
    LET u == SetState([t EXCEPT !.last = m], "PROCEEDING", e)
    IN  IF t.invite /\ u.status > 100
        THEN ArmRetransmit(Cancel(u, "rt"), "1xx")
        ELSE u

UasFinal(t, m, e) ==
    LET u == Cancel(t, "rt")
        again == t.invite /\ (m = "r2xx" \/ ~t.reliable)
        v == IF again THEN ArmRetransmit(u, "T1") ELSE u
    IN  IF m = "r2xx" /\ t.invite /\ ~t.own200
        THEN SetState(u, "TERMINATED", e)
        ELSE SetState(Schedule([v EXCEPT !.last = m], "to", FinalTimeout(t)),
                      "COMPLETED", e)

UasSend(t, m, e) ==
    LET u == SendMsg([t EXCEPT !.status = Code(m), !.last = "none"], m, e)
    IN  IF SendErr(u) THEN u
        ELSE IF Code(m) < 200 THEN UasProvisional(u, m, e)
        ELSE UasFinal(u, m, e)

UasAckedStopsTimeout(t, e) == SetState(Cancel(Cancel(t, "rt"), "to"), "CONFIRMED", e)

\* The ACK: timer I takes the place of timer H.
UasAcked(t, e) ==
    LET u == Unschedule(Clear(Cancel(t, "rt"), "RESCHED"), "to")
    IN  SetState(Schedule(u, "to", IF u.reliable THEN "T4" ELSE "zero"),
                 "CONFIRMED", e)

\* A request: the first one, a retransmission or the ACK.
UasRx(t, m, e) ==
    CASE t.state = "NULL" -> SetState(t, "TRYING", e)
      [] t.state = "PROCEEDING" ->
            IF t.last = "none" THEN Check(t, FALSE, "no_last_tx")
                               ELSE SendMsg(t, t.last, e)
      [] t.state = "COMPLETED" /\ m = "req" -> Retransmit(t, FALSE, e)
      [] t.state = "COMPLETED" /\ m # "req" /\ t.invite -> UasAcked(t, e)
      [] OTHER -> t

UasTimer(t, x, e) ==
    CASE t.state = "NULL"   -> SetState(Check(t, FALSE, "null_event"), "TRYING", e)
      [] t.state = "TRYING" -> t
      [] t.state = "PROCEEDING" /\ x = "rt" ->
            Retransmit(Check(t, "TRANSPORT" \notin t.flags, "uas_pending_timer"),
                       TRUE, e)
      [] t.state = "PROCEEDING" /\ x # "rt" ->
            Fail(Check(t, FALSE, "uas_timeout"), 408, e)
      [] t.state = "COMPLETED" /\ x = "rt" -> Retransmit(t, TRUE, e)
      [] t.state = "COMPLETED" /\ x # "rt" /\ t.invite -> Fail(t, 408, e)
      [] t.state = "CONFIRMED" ->
            SetState(Check(t, x = "to", "confirmed_timer"), "TERMINATED", e)
      [] OTHER -> SetState(t, "TERMINATED", e)

-----------------------------------------------------------------------------
(* Dispatch through tsx->state_handler, and the calls made from outside.    *)

OnRx(t, m, e) ==
    IF Rank(t.state) >= Rank("TERMINATED")
    THEN Check(t, t.state = "TERMINATED", "dead")
    ELSE IF t.role = "UAC" THEN UacRx(t, m, e) ELSE UasRx(t, m, e)

\* tsx_on_state_terminated takes any timer for the one that destroys.
OnTimer(t, x, e) ==
    CASE t.state = "DESTROYED"  -> Check(t, FALSE, "dead")
      [] t.state = "TERMINATED" -> SetState(t, "DESTROYED", e)
      [] OTHER -> IF t.role = "UAC" THEN UacTimer(t, x, e) ELSE UasTimer(t, x, e)

\* transport_callback with an error: it does not look at the state.
TransportError(t, e) ==
    Fail([t EXCEPT !.transport = FALSE], 503, e)

\* tsx_tp_state_callback with PJSIP_TP_STATE_DISCONNECTED.
TransportDown(t, e) ==
    IF Rank(t.state) < Rank("TERMINATED") THEN Fail(t, 503, e) ELSE t

\* pjsip_tsx_set_timeout, under the timer lock alone.
SetTimeout(t) ==
    IF t.status >= 200 /\ "to" \in t.armed THEN t
    ELSE Schedule(Cancel(t, "to"), "to", "user")

\* mod_tsx_layer_stop, for one transaction.
Stop(t) == Destroy([Terminate(t) EXCEPT !.registered = FALSE])
=============================================================================
