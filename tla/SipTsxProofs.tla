---------------------------- MODULE SipTsxProofs ----------------------------
(***************************************************************************)
(* Theorems about SipTsx, for every set of workers, with and without a     *)
(* thread of the TU's own, and for every bound: first its safety, then its *)
(* timers, and last what holds when one thread polls.                      *)
(*                                                                         *)
(* Inv, the inductive invariant, adds to the types what the three          *)
(* properties rest on: a transaction that may still receive a response or  *)
(* send one has no final status and holds no ACK (TsxInv); the worker that *)
(* completes a rejection has a rejection to complete; and one worker at a  *)
(* time reports the end of a stateless send, with an address left when it  *)
(* reports that there is another one to try.                               *)
(*                                                                         *)
(* The first part is about the operators of TsxCore.  Still is the         *)
(* contract of the helpers that handle timers, Quiet that of the helpers   *)
(* that send, which leave the state alone unless they end the transaction, *)
(* and Good that of the handlers.                                          *)
(***************************************************************************)
EXTENDS SipTsx, TLAPS

Undecided == {"NULL", "CALLING", "TRYING", "PROCEEDING"}
Ended     == {"TERMINATED", "DESTROYED"}

\* The status codes the transaction makes up, and those that call for an ACK.
Local    == {408, 487, 503}
Rejected == {300} \cup Local

\* The ACK has been sent, or may be.
AckHeld(t) == "ack" \in t.wire \/ t.last = "ack" \/ t.pending = "ack"

\* The status is final only once the state says so.
Settled(t) == t.state \in Undecided => t.status < 200

\* There is an ACK only for a rejection.
Justified(t) == AckHeld(t) => t.status \in Rejected

TsxInv(t) == t \in Tsx /\ Settled(t) /\ Justified(t)

\* u may follow t within a handler, which sends m.
Moves(t, u, m) ==
    /\ u \in Tsx
    /\ u.status = t.status \/ (u.status \in Local /\ u.state \in Ended)
    /\ AckHeld(u) => AckHeld(t) \/ m = "ack"

Quiet(t, u, m) ==
    /\ Moves(t, u, m)
    /\ u.state = t.state \/ u.state \in Ended

Still(t, u) ==
    /\ u \in Tsx
    /\ u.state = t.state /\ u.status = t.status
    /\ AckHeld(u) => AckHeld(t)

\* u may follow t in a handler that has ended.
Good(t, u) == TsxInv(u) /\ (t.status >= 200 => u.status >= 200)

-----------------------------------------------------------------------------
(* The contracts compose *)

\* To do nothing is quiet.
LEMMA QuietRefl ==
  ASSUME NEW t \in Tsx, NEW m
  PROVE  Quiet(t, t, m)
  BY DEF Quiet, Moves

\* A helper that keeps still is quiet.
LEMMA StillQuiet ==
  ASSUME NEW t, NEW u, NEW m, Still(t, u)
  PROVE  Quiet(t, u, m)
  BY DEF Still, Quiet, Moves

\* Two helpers that keep still, one after the other, keep still.
LEMMA StillTrans ==
  ASSUME NEW t, NEW u, NEW v, Still(t, u), Still(u, v)
  PROVE  Still(t, v)
  BY DEF Still

\* Two quiet helpers, one after the other, are quiet: the second may end a
\* transaction the first has left alone.
LEMMA QuietTrans ==
  ASSUME NEW t, NEW u, NEW v, NEW m, Quiet(t, u, m), Quiet(u, v, m)
  PROVE  Quiet(t, v, m)
  BY DEF Quiet, Moves, Ended

\* A quiet helper that has not ended the transaction may come before any move.
LEMMA QuietMoves ==
  ASSUME NEW t, NEW u, NEW v, NEW m, Quiet(t, u, m), Moves(u, v, m),
         u.state \notin Ended
  PROVE  Moves(t, v, m)
  BY DEF Quiet, Moves

\* An ACK that is held already may go out.
LEMMA QuietHeld ==
  ASSUME NEW t, NEW u, NEW k, NEW m, Quiet(t, u, k), k = "ack" => AckHeld(t)
  PROVE  Quiet(t, u, m)
  BY DEF Quiet, Moves

\* A handler that only uses the helpers, and sends no ACK that is not held
\* already, keeps the invariant.
LEMMA QuietGood ==
  ASSUME NEW t, TsxInv(t), NEW u, NEW m, Quiet(t, u, m), m = "ack" => AckHeld(t)
  PROVE  Good(t, u)
  BY DEF Quiet, Moves, Good, TsxInv, Settled, Justified, Undecided, Ended, Local, Rejected, Tsx, Codes

-----------------------------------------------------------------------------
(* Timers *)

\* An assertion, failed or not, changes neither state, status nor ACK.
LEMMA CheckStill ==
  ASSUME NEW t \in Tsx, NEW holds, NEW name \in Assertions
  PROVE  Still(t, Check(t, holds, name))
  BY DEF Check, Still, AckHeld, Tsx

\* pjsip_endpt_cancel_timer behind the test of the id keeps still.
LEMMA CancelStill ==
  ASSUME NEW t \in Tsx, NEW x \in Timers
  PROVE  Still(t, Cancel(t, x))
  BY ZenonT(60) DEF Cancel, Still, AckHeld, Tsx, Delays

\* pjsip_endpt_cancel_timer without that test keeps still.
LEMMA UnscheduleStill ==
  ASSUME NEW t \in Tsx, NEW x \in Timers
  PROVE  Still(t, Unschedule(t, x))
  BY DEF Unschedule, Still, AckHeld, Tsx, Delays

\* pjsip_endpt_schedule_timer keeps still, also when the heap refuses the entry.
LEMMA ScheduleStill ==
  ASSUME NEW t \in Tsx, NEW x \in Timers, NEW d \in Delays
  PROVE  Still(t, Schedule(t, x, d))
  BY ZenonT(60) DEF Schedule, Still, AckHeld, Tsx, Delays, Assertions

\* Taking back a flag keeps still.
LEMMA ClearStill ==
  ASSUME NEW t \in Tsx, NEW f
  PROVE  Still(t, Clear(t, f))
  BY DEF Clear, Still, AckHeld, Tsx

\* Arming the retransmission timer, or leaving it to send_msg_callback, keeps
\* still.
LEMMA ArmRetransmitStill ==
  ASSUME NEW t \in Tsx, NEW d \in Delays
  PROVE  Still(t, ArmRetransmit(t, d))
<1>1. CASE "TRANSPORT" \in t.flags
  BY <1>1 DEF ArmRetransmit, Still, AckHeld, Tsx, Flags
<1>2. CASE "TRANSPORT" \notin t.flags
  BY <1>2, ScheduleStill DEF ArmRetransmit, Timers
<1>. QED BY <1>1, <1>2

\* tsx_resched_retransmission keeps still whichever delay it picks.
LEMMA ReschedStill ==
  ASSUME NEW t \in Tsx
  PROVE  Still(t, Resched(t))
<1>. DEFINE a == "TRANSPORT" \notin t.flags
            u == Check(t, a, "resched_pending")
            b == t.role = "UAC" => t.status < 200
            v == Check(u, b, "resched_status")
            d == CASE t.role = "UAC" /\ t.status >= 100 -> "T2"
                   [] t.role = "UAS" /\ t.status < 200  -> "1xx"
                   [] OTHER                             -> "backoff"
<1>1. Still(t, u) /\ u \in Tsx
  BY CheckStill DEF Assertions, Still
<1>2. Still(u, v) /\ v \in Tsx
  BY <1>1, CheckStill DEF Assertions, Still
<1>3. Resched(t) = Schedule(v, "rt", d)
  BY DEF Resched
<1>4. d \in Delays
  BY DEF Delays
<1>. HIDE DEF u, v, d
<1>5. Still(v, Resched(t))
  BY <1>2, <1>3, <1>4, ScheduleStill DEF Timers
<1>. QED BY <1>1, <1>2, <1>5, StillTrans

\* pjsip_tsx_set_timeout keeps still.
LEMMA SetTimeoutStill ==
  ASSUME NEW t \in Tsx
  PROVE  Still(t, SetTimeout(t))
<1>. DEFINE u == Cancel(t, "to")
<1>1. Still(t, u) /\ u \in Tsx
  BY CancelStill DEF Timers, Still
<1>2. SetTimeout(t) = t \/ SetTimeout(t) = Schedule(u, "to", "user")
  BY DEF SetTimeout
<1>. HIDE DEF u
<1>3. Still(u, Schedule(u, "to", "user"))
  BY <1>1, ScheduleStill DEF Timers, Delays
<1>4. Still(t, t)
  BY DEF Still
<1>. QED BY <1>1, <1>2, <1>3, <1>4, StillTrans

-----------------------------------------------------------------------------
(* The state *)

\* tsx_destroy is quiet on a transaction that has ended, freed or refused.
LEMMA DestroyQuiet ==
  ASSUME NEW t \in Tsx, NEW m
  PROVE  Quiet(t, Destroy(t), m)
<1>. DEFINE a == Cancel(t, "to")
            b == Cancel(a, "rt")
<1>1. Quiet(t, a, m) /\ a \in Tsx
  BY CancelStill, StillQuiet DEF Timers, Still
<1>2. Quiet(a, b, m) /\ b \in Tsx
  BY <1>1, CancelStill, StillQuiet DEF Timers, Still
<1>. HIDE DEF a, b
<1>3. Quiet(b, [b EXCEPT !.transport = FALSE, !.last = "none",
                         !.flags = @ \ {"RESCHED", "SEND"}], m)
  BY <1>2, ZenonT(60) DEF Quiet, Moves, AckHeld, Tsx
<1>. DEFINE u == [b EXCEPT !.transport = FALSE, !.last = "none",
                           !.flags = @ \ {"RESCHED", "SEND"}]
<1>4. Quiet(t, u, m) /\ u \in Tsx
  BY <1>1, <1>2, <1>3, QuietTrans DEF Quiet, Moves
<1>5. Destroy(t) = IF "TRANSPORT" \in u.flags
                   THEN [u EXCEPT !.flags = @ \cup {"DESTROY"}]
                   ELSE [u EXCEPT !.alive = FALSE]
  BY DEF Destroy, a, b
<1>. HIDE DEF u
<1>6. CASE "TRANSPORT" \in u.flags
  <2>1. Quiet(u, [u EXCEPT !.flags = @ \cup {"DESTROY"}], m)
    BY <1>4 DEF Quiet, Moves, AckHeld, Tsx, Flags
  <2>. QED BY <1>4, <1>5, <1>6, <2>1, QuietTrans
<1>7. CASE "TRANSPORT" \notin u.flags
  <2>1. Quiet(u, [u EXCEPT !.alive = FALSE], m)
    BY <1>4, ZenonT(60) DEF Quiet, Moves, AckHeld, Tsx
  <2>. QED BY <1>4, <1>5, <1>7, <2>1, QuietTrans
<1>. QED BY <1>6, <1>7

\* tsx_set_state's work after TERMINATED is quiet, and lets go of the message
\* of a stateless send.
LEMMA ReapQuiet ==
  ASSUME NEW t \in Tsx, NEW m
  PROVE  Quiet(t, Reap(t), m)
<1>. DEFINE u == IF "TRANSPORT" \in t.flags
                 THEN [Clear(t, "TRANSPORT") EXCEPT !.pending = "none"]
                 ELSE t
            v == Cancel(u, "to")
<1>1. Quiet(t, u, m) /\ u \in Tsx
  BY ZenonT(60) DEF Clear, Quiet, Moves, AckHeld, Tsx
<1>2. Reap(t) = Schedule(v, "to", "zero")
  BY DEF Reap
<1>. HIDE DEF u
<1>3. Quiet(u, v, m) /\ v \in Tsx
  BY <1>1, CancelStill, StillQuiet DEF Timers, Still
<1>. HIDE DEF v
<1>4. Quiet(v, Reap(t), m)
  BY <1>2, <1>3, ScheduleStill, StillQuiet DEF Timers, Delays
<1>. QED BY <1>1, <1>3, <1>4, QuietTrans

\* Entering a state moves there, and touches nothing else.
LEMMA EnterMoves ==
  ASSUME NEW t \in Tsx, NEW s \in States, NEW m
  PROVE  /\ Moves(t, Enter(t, s), m)
         /\ Enter(t, s).state = s
         /\ Enter(t, s).status = t.status
  BY DEF Enter, Check, Moves, AckHeld, Tsx, Assertions

\* With the lock pjsip_tsx_terminate is quiet: it ends the transaction, again
\* if it has ended.
LEMMA ForceTerminateQuiet ==
  ASSUME NEW t \in Tsx, NEW m
  PROVE  Quiet(t, ForceTerminate(t), m)
<1>. DEFINE n == Enter(t, "TERMINATED")
            u == [n EXCEPT !.status = 487]
<1>0. Moves(t, n, m) /\ n \in Tsx /\ n.state = "TERMINATED"
  BY EnterMoves DEF Moves, States
<1>. HIDE DEF n
<1>1. Quiet(t, u, m) /\ u \in Tsx
  BY <1>0 DEF Quiet, Moves, AckHeld, Tsx, Codes, Ended, Local
<1>2. ForceTerminate(t) = Reap(u)
  BY DEF ForceTerminate, n
<1>. HIDE DEF u
<1>3. Quiet(u, Reap(u), m)
  BY <1>1, ReapQuiet
<1>. QED BY <1>1, <1>2, <1>3, QuietTrans

\* The test before it changes nothing.
LEMMA TerminateQuiet ==
  ASSUME NEW t \in Tsx, NEW m
  PROVE  Quiet(t, Terminate(t), m)
  BY ForceTerminateQuiet, QuietRefl DEF Terminate

\* tsx_set_state moves to its state, or to an end when the TU terminates the
\* transaction from inside the callback.
LEMMA SetStateMoves ==
  ASSUME NEW t \in Tsx, NEW s \in States, NEW e \in Env, NEW m
  PROVE  /\ Moves(t, SetState(t, s, e), m)
         /\ SetState(t, s, e).state = s \/ SetState(t, s, e).state \in Ended
<1>. DEFINE r == SetState(t, s, e)
            u == Enter(t, s)
            v == IF e.tu = "terminate" THEN Terminate(u) ELSE u
            w == [v EXCEPT !.registered = FALSE]
<1>1. Moves(t, u, m) /\ u \in Tsx /\ u.state = s /\ u.status = t.status
  BY EnterMoves DEF Moves
<1>2. Quiet(u, v, m) /\ v \in Tsx
  BY <1>1, TerminateQuiet, QuietRefl DEF Quiet, Moves
<1>3. r = Reap(v) \/ r = Destroy(w) \/ r = v
  BY DEF SetState
<1>. HIDE DEF u, v, r
<1>4. Quiet(v, w, m) /\ w \in Tsx
  BY <1>2, ZenonT(60) DEF Quiet, Moves, AckHeld, Tsx
<1>. HIDE DEF w
<1>5. Quiet(u, r, m)
  BY <1>2, <1>3, <1>4, ReapQuiet, DestroyQuiet, QuietTrans
<1>6. Moves(t, r, m) /\ (r.state = s \/ r.state \in Ended)
  BY <1>1, <1>5 DEF Quiet, Moves
<1>. QED BY <1>6 DEF r

\* tsx_set_state to an end is quiet.
LEMMA SetStateQuiet ==
  ASSUME NEW t \in Tsx, NEW s \in Ended, NEW e \in Env, NEW m
  PROVE  Quiet(t, SetState(t, s, e), m)
<1>1. s \in States
  BY DEF Ended, States
<1>. QED BY <1>1, SetStateMoves DEF Quiet

\* An error is quiet: it sets a status of its own and ends the transaction.
LEMMA FailQuiet ==
  ASSUME NEW t \in Tsx, NEW code \in Local, NEW e \in Env, NEW m
  PROVE  Quiet(t, Fail(t, code, e), m)
<1>. DEFINE u == [t EXCEPT !.status = code]
            r == SetState(u, "TERMINATED", e)
<1>1. u \in Tsx /\ u.status \in Local /\ (AckHeld(u) => AckHeld(t))
  BY DEF Tsx, Codes, Local, AckHeld
<1>2. Fail(t, code, e) = r
  BY DEF Fail
<1>. HIDE DEF u
<1>3. Moves(u, r, m) /\ r.state \in Ended
  BY <1>1, SetStateMoves DEF Ended, States
<1>. QED BY <1>1, <1>2, <1>3 DEF Quiet, Moves

-----------------------------------------------------------------------------
(* Sending *)

\* A message on the wire is quiet for that message.
LEMMA EmitQuiet ==
  ASSUME NEW t \in Tsx, NEW m \in Messages, NEW queued \in BOOLEAN
  PROVE  Quiet(t, Emit(t, m, queued), m)
  BY DEF Emit, Quiet, Moves, AckHeld, Tsx

\* To leave a message to send_msg_callback keeps still.
LEMMA PostponeStill ==
  ASSUME NEW t \in Tsx
  PROVE  Still(t, Postpone(t))
  BY DEF Postpone, Still, AckHeld, Tsx, Flags

\* The attempt over the transport is quiet: what fails for good ends it.
LEMMA SendViaQuiet ==
  ASSUME NEW t \in Tsx, NEW m \in Messages, NEW e \in Env
  PROVE  Quiet(t, SendVia(t, m, e), m)
<1>. DEFINE a == t.transport => m \notin t.sends
            c == Check(t, a, "tx_pending")
            u == [c EXCEPT !.transport = FALSE]
            w == Check(u, t.transport, "send_status")
            r == SendVia(t, m, e)
<1>1. Still(t, c) /\ c \in Tsx
  BY CheckStill DEF Assertions, Still
<1>2. r = Emit(t, m, e.net = "queued") \/ r = Fail(w, 503, e) \/ r = u
  BY DEF SendVia
<1>. HIDE DEF c, r
<1>3. Still(c, u) /\ u \in Tsx
  BY <1>1, ZenonT(60) DEF Still, AckHeld, Tsx
<1>. HIDE DEF u
<1>4. Still(u, w) /\ w \in Tsx
  BY <1>3, CheckStill DEF Assertions, Still
<1>. HIDE DEF w
<1>5. Quiet(t, Emit(t, m, e.net = "queued"), m)
  BY EmitQuiet
<1>6. Quiet(w, Fail(w, 503, e), m)
  BY <1>4, FailQuiet DEF Local
<1>7. Quiet(t, u, m) /\ Quiet(t, w, m)
  BY <1>1, <1>3, <1>4, StillTrans, StillQuiet
<1>8. Quiet(t, r, m)
  BY <1>2, <1>5, <1>6, <1>7, QuietTrans
<1>. QED BY <1>8 DEF r

\* send_msg_callback after a success is quiet, whatever had to wait for it.
LEMMA SendDoneQuiet ==
  ASSUME NEW t \in Tsx, NEW e \in Env, NEW m
  PROVE  Quiet(t, SendDone(t, e), m)
<1>. DEFINE u == [t EXCEPT !.transport = TRUE,
                           !.reliable = @ \/ e.rel,
                           !.flags = (@ \ {"TRANSPORT"}) \cup {"RESOLVED"}]
            s == Clear(u, "SEND")
            v == IF "SEND" \notin u.flags THEN u
                 ELSE IF u.last = "none" THEN Check(s, FALSE, "no_last_tx")
                                         ELSE SendVia(s, u.last, e)
            c == Clear(v, "RESCHED")
            r == SendDone(t, e)
<1>1. Still(t, u) /\ u \in Tsx
  BY DEF Still, AckHeld, Tsx, Flags, Env
<1>2. r \in {SetState(u, "DESTROYED", e), c, Resched(c), v}
  BY DEF SendDone
<1>3. v \in {u, Check(s, FALSE, "no_last_tx"), SendVia(s, u.last, e)}
      /\ (v = SendVia(s, u.last, e) => v = u \/ v = Check(s, FALSE, "no_last_tx")
                                        \/ u.last # "none")
  OBVIOUS
<1>4. s.last = u.last
  BY <1>1 DEF Clear, Tsx
<1>. HIDE DEF u, v, r
<1>5. Still(u, s) /\ s \in Tsx
  BY <1>1, ClearStill DEF Still
<1>. HIDE DEF s
<1>6. Quiet(s, Check(s, FALSE, "no_last_tx"), m)
  BY <1>5, CheckStill, StillQuiet DEF Assertions
<1>7. u.last # "none" => Quiet(s, SendVia(s, u.last, e), m)
  <2>1. HAVE u.last # "none"
  <2>2. u.last \in Messages
    BY <1>1, <2>1 DEF Tsx
  <2>3. Quiet(s, SendVia(s, u.last, e), u.last)
    BY <1>5, <2>2, SendViaQuiet
  <2>. QED BY <1>4, <2>3, QuietHeld DEF AckHeld
<1>8. Quiet(u, v, m) /\ v \in Tsx
  <2>1. Quiet(u, s, m) /\ Quiet(u, u, m)
    BY <1>1, <1>5, StillQuiet, QuietRefl
  <2>2. Quiet(u, v, m)
    BY <1>3, <1>6, <1>7, <2>1, QuietTrans
  <2>. QED BY <2>2 DEF Quiet, Moves
<1>9. Still(v, c) /\ c \in Tsx
  BY <1>8, ClearStill DEF Still
<1>. HIDE DEF c
<1>10. Quiet(u, c, m) /\ Quiet(c, Resched(c), m)
  BY <1>8, <1>9, ReschedStill, StillQuiet, QuietTrans
<1>11. Quiet(u, SetState(u, "DESTROYED", e), m)
  BY <1>1, SetStateQuiet DEF Ended
<1>12. Quiet(u, r, m)
  BY <1>2, <1>8, <1>10, <1>11, QuietTrans
<1>13. Quiet(t, r, m)
  BY <1>1, <1>12, StillQuiet, QuietTrans
<1>. QED BY <1>13 DEF r

\* The states from TERMINATED on are the ends.
LEMMA RankEnded ==
  ASSUME NEW s \in States
  PROVE  Rank(s) >= Rank("TERMINATED") <=> s \in Ended
  BY DEF Rank, States, Ended

\* send_msg_callback after a failure is quiet.
LEMMA SendFailedQuiet ==
  ASSUME NEW t \in Tsx, NEW e \in Env, NEW m
  PROVE  Quiet(t, SendFailed(t, e), m)
<1>. DEFINE u == [t EXCEPT !.transport = FALSE, !.status = 503,
                           !.flags = (@ \ {"TRANSPORT"}) \cup {"RESOLVED"}]
            r == SendFailed(t, e)
<1>0. u \in Tsx
  <2>. DEFINE a == [t EXCEPT !.transport = FALSE]
              b == [a EXCEPT !.status = 503]
              c == [b EXCEPT !.flags = (@ \ {"TRANSPORT"}) \cup {"RESOLVED"}]
  <2>1. u = c
    OBVIOUS
  <2>2. a \in Tsx
    BY DEF Tsx
  <2>. HIDE DEF a
  <2>3. b \in Tsx
    BY <2>2 DEF Tsx, Codes
  <2>. HIDE DEF b
  <2>4. c \in Tsx
    BY <2>3 DEF Tsx, Flags
  <2>. QED BY <2>1, <2>4
<1>1. u.state = t.state /\ u.status = 503 /\ (AckHeld(u) => AckHeld(t))
  BY DEF AckHeld, Tsx
<1>2. r \in {SetState(u, "TERMINATED", e), SetState(u, "DESTROYED", e)}
      \/ (r = u /\ ~(Rank(u.state) < Rank("TERMINATED")))
  BY DEF SendFailed
<1>. HIDE DEF u, r
<1>3. u.state \in States
  BY <1>0 DEF Tsx
<1>4. CASE r = u /\ ~(Rank(u.state) < Rank("TERMINATED"))
  <2>1. Rank(u.state) >= Rank("TERMINATED")
    BY <1>3, <1>4 DEF Rank
  <2>2. u.state \in Ended
    BY <1>3, <2>1, RankEnded
  <2>3. Quiet(t, r, m)
    BY <1>0, <1>1, <1>4, <2>2 DEF Quiet, Moves, Local
  <2>. QED BY <2>3 DEF r
<1>5. CASE r \in {SetState(u, "TERMINATED", e), SetState(u, "DESTROYED", e)}
  <2>1. Quiet(u, r, m) /\ r.state \in Ended
    BY <1>0, <1>1, <1>5, SetStateQuiet, SetStateMoves DEF Ended, States
  <2>2. Quiet(t, r, m)
    BY <1>1, <2>1 DEF Quiet, Moves, Local
  <2>. QED BY <2>2 DEF r
<1>. QED BY <1>2, <1>4, <1>5

\* send_msg_callback with another server to try is quiet for the request.
LEMMA SendRetriedQuiet ==
  ASSUME NEW t \in Tsx, NEW k \in Messages, k # "ack", NEW m
  PROVE  Quiet(t, SendRetried(t, k), m)
<1>. DEFINE u == [t EXCEPT !.transport = FALSE, !.pending = k]
            v == Cancel(u, "to")
            r == SendRetried(t, k)
<1>1. Still(t, u) /\ u \in Tsx
  BY DEF Still, AckHeld, Tsx
<1>2. r = u \/ r = Schedule(v, "to", "64T1")
  BY DEF SendRetried
<1>. HIDE DEF u, r
<1>3. Still(u, v) /\ v \in Tsx
  BY <1>1, CancelStill DEF Still, Timers
<1>. HIDE DEF v
<1>4. Still(v, Schedule(v, "to", "64T1"))
  BY <1>3, ScheduleStill DEF Timers, Delays
<1>5. Still(t, r)
  BY <1>1, <1>2, <1>3, <1>4, StillTrans
<1>. QED BY <1>5, StillQuiet DEF r

\* tsx_send_msg with no stateless send in progress is quiet.
LEMMA SendNowQuiet ==
  ASSUME NEW t \in Tsx, NEW m \in Messages, NEW e \in Env
  PROVE  Quiet(t, SendNow(t, m, e), m)
<1>. DEFINE u == SendVia(t, m, e)
            v == [u EXCEPT !.flags = @ \cup {"TRANSPORT"}]
            p == [v EXCEPT !.pending = m]
            n == Emit(v, m, FALSE)
            r == SendNow(t, m, e)
<1>1. Quiet(t, u, m) /\ u \in Tsx
  BY SendViaQuiet DEF Quiet, Moves
<1>2. r \in {u, p, SendFailed(v, e), SendDone(n, e)}
  BY DEF SendNow
<1>. HIDE DEF u, r
<1>3. Still(u, v) /\ v \in Tsx
  BY <1>1 DEF Still, AckHeld, Tsx, Flags
<1>. HIDE DEF v
<1>4. Quiet(v, p, m)
  BY <1>3 DEF Quiet, Moves, AckHeld, Tsx
<1>5. Quiet(v, n, m) /\ n \in Tsx
  BY <1>3, EmitQuiet DEF Quiet, Moves
<1>. HIDE DEF p, n
<1>6. Quiet(v, SendFailed(v, e), m) /\ Quiet(n, SendDone(n, e), m)
  BY <1>3, <1>5, SendFailedQuiet, SendDoneQuiet
<1>7. Quiet(t, v, m)
  BY <1>1, <1>3, StillQuiet, QuietTrans
<1>8. Quiet(t, r, m)
  BY <1>1, <1>2, <1>4, <1>5, <1>6, <1>7, QuietTrans
<1>. QED BY <1>8 DEF r

\* tsx_send_msg is quiet.
LEMMA SendMsgQuiet ==
  ASSUME NEW t \in Tsx, NEW m \in Messages, NEW e \in Env
  PROVE  Quiet(t, SendMsg(t, m, e), m)
  BY PostponeStill, StillQuiet, SendNowQuiet DEF SendMsg

\* What was sent last may be sent again.
LEMMA SendLastQuiet ==
  ASSUME NEW t \in Tsx, t.last # "none", NEW e \in Env, NEW m
  PROVE  Quiet(t, SendMsg(t, t.last, e), m)
<1>1. t.last \in Messages
  BY DEF Tsx
<1>2. Quiet(t, SendMsg(t, t.last, e), t.last)
  BY <1>1, SendMsgQuiet
<1>. QED BY <1>2, QuietHeld DEF AckHeld

\* tsx_retransmit is quiet for the message it holds (last_tx).
LEMMA RetransmitQuiet ==
  ASSUME NEW t \in Tsx, NEW resched \in BOOLEAN, NEW e \in Env, NEW m
  PROVE  Quiet(t, Retransmit(t, resched, e), m)
<1>1. CASE t.last = "none"
  BY <1>1 DEF Retransmit, Quiet, Moves, AckHeld, Tsx, Assertions
<1>2. CASE t.last # "none"
  <2>. DEFINE p == [t EXCEPT !.flags = @ \cup {"RESCHED"}]
              u == IF ~resched THEN t
                   ELSE IF "TRANSPORT" \in t.flags THEN p ELSE Resched(t)
  <2>1. Still(t, p) /\ p.last = t.last
    BY DEF Still, AckHeld, Tsx, Flags
  <2>2. Still(t, Resched(t)) /\ Resched(t).last = t.last
    BY ReschedStill DEF Resched, Check, Schedule, Tsx
  <2>3. Still(t, t)
    BY DEF Still
  <2>4. Still(t, u) /\ u.last = t.last /\ u \in Tsx
    BY <2>1, <2>2, <2>3 DEF Still
  <2>5. Retransmit(t, resched, e) = SendMsg(u, t.last, e)
    BY <1>2 DEF Retransmit
  <2>. HIDE DEF u
  <2>6. Quiet(u, SendMsg(u, u.last, e), m)
    BY <1>2, <2>4, SendLastQuiet
  <2>. QED BY <2>4, <2>5, <2>6, StillQuiet, QuietTrans
<1>. QED BY <1>1, <1>2

-----------------------------------------------------------------------------
(* Handlers *)

\* What the invariant gives a handler to start from.
LEMMA TsxInvTyped ==
  ASSUME NEW t, TsxInv(t)
  PROVE  t \in Tsx /\ (t.state \in Undecided => t.status < 200 /\ ~AckHeld(t))
  BY DEF TsxInv, Settled, Justified, Rejected, Local, Tsx, Codes

\* Entering s is right when s fits the status and the ACK is called for.
LEMMA SetStateGood ==
  ASSUME NEW w \in Tsx, Justified(w), NEW s \in States, NEW e \in Env,
         s \in Undecided => w.status < 200
  PROVE  /\ TsxInv(SetState(w, s, e))
         /\ w.status >= 200 => SetState(w, s, e).status >= 200
<1>. DEFINE r == SetState(w, s, e)
<1>1. Moves(w, r, "req") /\ (r.state = s \/ r.state \in Ended)
  BY SetStateMoves
<1>. HIDE DEF r
<1>2. TsxInv(r) /\ (w.status >= 200 => r.status >= 200)
  BY <1>1 DEF Moves, TsxInv, Settled, Justified, Undecided, Ended, Rejected, Local,
              Tsx, Codes
<1>. QED BY <1>2 DEF r

\* tsx_send_msg reports an error when the transaction has ended.
LEMMA SendErrEnded ==
  ASSUME NEW t \in Tsx
  PROVE  SendErr(t) <=> t.state \in Ended
  BY RankEnded DEF SendErr, Tsx

\* A helper that keeps still keeps the invariant.
LEMMA StillInv ==
  ASSUME NEW t, TsxInv(t), NEW u, Still(t, u)
  PROVE  TsxInv(u) /\ u \in Tsx /\ u.status = t.status /\ u.state = t.state
  BY DEF TsxInv, Settled, Justified, Still

\* A helper that keeps still is good.
LEMMA StillGood ==
  ASSUME NEW t, TsxInv(t), NEW u, Still(t, u)
  PROVE  Good(t, u)
  BY StillInv DEF Good

\* A quiet helper that sends a request or a response is good.
LEMMA QuietReqGood ==
  ASSUME NEW t, TsxInv(t), NEW u, Quiet(t, u, "req")
  PROVE  Good(t, u)
  BY QuietGood

\* The request: tsx_on_state_null of a client keeps the invariant.
LEMMA UacSendGood ==
  ASSUME NEW t, TsxInv(t), t.state = "NULL", NEW e \in Env
  PROVE  Good(t, UacSend(t, e))
<1>. DEFINE u == SendMsg(t, "req", e)
            v == Schedule(u, "to", "64T1")
            w == IF v.reliable THEN v ELSE ArmRetransmit(v, "T1")
            r == UacSend(t, e)
<1>1. t \in Tsx /\ t.status < 200
  BY TsxInvTyped DEF Undecided
<1>2. Quiet(t, u, "req") /\ u \in Tsx /\ Good(t, u)
  BY <1>1, SendMsgQuiet, QuietGood DEF Messages, Requests, Quiet, Moves
<1>3. r = IF SendErr(u) THEN u ELSE SetState(w, "CALLING", e)
  BY DEF UacSend
<1>. HIDE DEF u, r
<1>4. Still(u, v) /\ v \in Tsx
  BY <1>2, ScheduleStill DEF Timers, Delays, Still
<1>. HIDE DEF v
<1>5. Still(v, ArmRetransmit(v, "T1")) /\ Still(v, v)
  BY <1>4, ArmRetransmitStill DEF Delays, Still
<1>6. Still(u, w) /\ w \in Tsx
  BY <1>4, <1>5, StillTrans DEF Still
<1>. HIDE DEF w
<1>7. CASE SendErr(u)
  BY <1>2, <1>3, <1>7 DEF r
<1>8. CASE ~SendErr(u)
  <2>1. w.status = t.status /\ Justified(w)
    BY <1>2, <1>6, <1>8, SendErrEnded, StillInv DEF Good, Quiet, Moves, TsxInv
  <2>2. TsxInv(SetState(w, "CALLING", e))
    BY <1>1, <1>6, <2>1, SetStateGood DEF States
  <2>. QED BY <1>1, <1>3, <1>8, <2>2 DEF Good, r, Tsx, Codes
<1>. QED BY <1>7, <1>8

\* Stopping the timers of Calling keeps still.
LEMMA CallingPreludeStill ==
  ASSUME NEW t \in Tsx, NEW m
  PROVE  Still(t, CallingPrelude(t, m))
<1>. DEFINE u == Cancel(t, "rt")
            v == IF Code(m) >= 200 THEN Cancel(u, "to")
                 ELSE IF t.invite THEN Unschedule(u, "to")
                 ELSE IF u.reliable THEN u
                 ELSE Schedule(u, "rt", "T2")
<1>1. Still(t, u) /\ u \in Tsx
  BY CancelStill DEF Timers, Still
<1>2. CallingPrelude(t, m) = Clear(v, "RESCHED")
  BY DEF CallingPrelude
<1>. HIDE DEF u
<1>3. /\ Still(u, Cancel(u, "to"))
      /\ Still(u, Unschedule(u, "to"))
      /\ Still(u, Schedule(u, "rt", "T2"))
      /\ Still(u, u)
  BY <1>1, CancelStill, UnscheduleStill, ScheduleStill DEF Timers, Delays, Still
<1>4. v \in {Cancel(u, "to"), Unschedule(u, "to"), u, Schedule(u, "rt", "T2")}
  OBVIOUS
<1>. HIDE DEF v
<1>5. Still(u, v) /\ v \in Tsx
  BY <1>3, <1>4 DEF Still
<1>6. Still(v, Clear(v, "RESCHED"))
  BY <1>5, ClearStill
<1>. QED BY <1>1, <1>2, <1>5, <1>6, StillTrans

\* Every message has a status code of the set.
LEMMA CodeTyped ==
  ASSUME NEW m
  PROVE  Code(m) \in {0, 100, 180, 200, 300}
  BY DEF Code

\* A provisional response is good while no status is final.
LEMMA UacProvisionalGood ==
  ASSUME NEW t, TsxInv(t), t.state \in Undecided, NEW m, Code(m) < 200, NEW e \in Env
  PROVE  Good(t, UacProvisional(t, m, e))
<1>. DEFINE w == [t EXCEPT !.status = Code(m)]
<1>1. t \in Tsx /\ t.status < 200 /\ ~AckHeld(t)
  BY TsxInvTyped
<1>2. w \in Tsx /\ w.status < 200 /\ ~AckHeld(w)
  BY <1>1, CodeTyped DEF Tsx, Codes, AckHeld
<1>3. UacProvisional(t, m, e) = SetState(w, "PROCEEDING", e)
  BY DEF UacProvisional
<1>. HIDE DEF w
<1>4. TsxInv(SetState(w, "PROCEEDING", e))
  BY <1>2, SetStateGood DEF Justified, States
<1>. QED BY <1>1, <1>3, <1>4 DEF Good, Tsx, Codes

\* A 2xx is good: it sends no ACK.
LEMMA UacSuccessGood ==
  ASSUME NEW t, TsxInv(t), t.state \in Undecided, NEW m, NEW e \in Env
  PROVE  Good(t, UacSuccess(t, m, e))
<1>. DEFINE a == [t EXCEPT !.status = Code(m)]
            u == Unschedule(a, "to")
            d == IF u.reliable THEN "zero" ELSE "T4"
            b == Schedule(u, "to", d)
            v == Cancel(b, "rt")
<1>1. t \in Tsx /\ t.status < 200 /\ ~AckHeld(t)
  BY TsxInvTyped
<1>2. a \in Tsx /\ ~AckHeld(a)
  BY <1>1, CodeTyped DEF Tsx, Codes, AckHeld
<1>3. UacSuccess(t, m, e) \in {SetState(u, "TERMINATED", e), SetState(v, "COMPLETED", e)}
  BY DEF UacSuccess
<1>. HIDE DEF a
<1>4. Still(a, u) /\ u \in Tsx
  BY <1>2, UnscheduleStill DEF Timers, Still
<1>5. d \in Delays
  BY DEF Delays
<1>. HIDE DEF u, d
<1>6. Still(u, b) /\ b \in Tsx
  BY <1>4, <1>5, ScheduleStill DEF Timers, Still
<1>. HIDE DEF b
<1>7. Still(b, v) /\ v \in Tsx
  BY <1>6, CancelStill DEF Timers, Still
<1>. HIDE DEF v
<1>8. ~AckHeld(u) /\ ~AckHeld(v)
  BY <1>2, <1>4, <1>6, <1>7 DEF Still
<1>9. TsxInv(SetState(u, "TERMINATED", e)) /\ TsxInv(SetState(v, "COMPLETED", e))
  BY <1>4, <1>7, <1>8, SetStateGood DEF Justified, States, Undecided
<1>. QED BY <1>1, <1>3, <1>9 DEF Good, Tsx, Codes

\* The first half of a rejection: whatever happens to the ACK, the status is final.
LEMMA UacRejectedRight ==
  ASSUME NEW t, TsxInv(t), t.state \in Undecided, NEW m, Code(m) = 300, NEW e \in Env
  PROVE  /\ UacRejected(t, m, e) \in Tsx
         /\ UacRejected(t, m, e).status \in Rejected
<1>. DEFINE a == [t EXCEPT !.status = Code(m)]
            u == Cancel(a, "rt")
            b == [u EXCEPT !.armed = @ \ {"to"}]
            v == Unschedule(b, "to")
            r == UacRejected(t, m, e)
<1>1. t \in Tsx
  BY TsxInvTyped
<1>2. a \in Tsx /\ a.status = 300
  BY <1>1 DEF Tsx, Codes
<1>3. r = v \/ r = SendMsg(v, "ack", e)
  BY DEF UacRejected
<1>. HIDE DEF a, r
<1>4. Still(a, u) /\ u \in Tsx
  BY <1>2, CancelStill DEF Timers, Still
<1>. HIDE DEF u
<1>5. Still(u, b) /\ b \in Tsx
  BY <1>4 DEF Tsx, Still, AckHeld
<1>. HIDE DEF b
<1>6. Still(b, v) /\ v \in Tsx
  BY <1>5, UnscheduleStill DEF Timers, Still
<1>. HIDE DEF v
<1>7. v.status = 300
  BY <1>2, <1>4, <1>5, <1>6 DEF Still
<1>8. Quiet(v, SendMsg(v, "ack", e), "ack")
  BY <1>6, SendMsgQuiet DEF Messages, Requests
<1>9. r \in Tsx /\ r.status \in Rejected
  BY <1>3, <1>6, <1>7, <1>8 DEF Quiet, Moves, Rejected
<1>. QED BY <1>9 DEF r

\* Keeping the ACK and starting timer D is good once an INVITE is rejected.
LEMMA UacStartTimerDGood ==
  ASSUME NEW t, TsxInv(t), t.status \in Rejected
  PROVE  Good(t, UacStartTimerD(t)) /\ UacStartTimerD(t).status = t.status
<1>. DEFINE u == IF t.invite THEN [t EXCEPT !.last = "ack"] ELSE t
            v == IF "to" \in u.armed THEN Unschedule(u, "to") ELSE u
            d == IF t.reliable THEN "zero" ELSE IF t.invite THEN "TD" ELSE "T4"
            r == UacStartTimerD(t)
<1>1. t \in Tsx
  BY TsxInvTyped
<1>2. u \in Tsx /\ u.status = t.status /\ u.state = t.state
  BY <1>1 DEF Tsx, Messages, Requests
<1>3. r = Schedule(v, "to", d)
  BY DEF UacStartTimerD
<1>4. d \in Delays
  BY DEF Delays
<1>. HIDE DEF u, d, r
<1>5. Still(u, v) /\ v \in Tsx
  BY <1>2, UnscheduleStill DEF Timers, Still
<1>. HIDE DEF v
<1>6. Still(v, r)
  BY <1>3, <1>4, <1>5, ScheduleStill DEF Timers
<1>7. Good(t, r) /\ r.status = t.status
  BY <1>2, <1>5, <1>6 DEF Still, Good, TsxInv, Settled, Justified
<1>. QED BY <1>7 DEF r

\* A rejection is good: it sends the ACK, or fails to and ends.
LEMMA UacRejectionGood ==
  ASSUME NEW t, TsxInv(t), t.state \in Undecided, NEW m, Code(m) = 300, NEW e \in Env
  PROVE  /\ TsxInv(UacRejection(t, m, e))
         /\ UacRejection(t, m, e).status \in Rejected
<1>. DEFINE r == UacRejected(t, m, e)
            c == SetState(r, "COMPLETED", e)
<1>1. UacRejection(t, m, e) = IF SendErr(r) THEN r ELSE c
  BY DEF UacRejection
<1>2. r \in Tsx /\ r.status \in Rejected
  BY UacRejectedRight
<1>. HIDE DEF r
<1>3. TsxInv(c) /\ Moves(r, c, "req")
  BY <1>2, SetStateGood, SetStateMoves DEF States, Undecided, Justified
<1>4. c.status \in Rejected
  BY <1>2, <1>3 DEF Moves, Rejected
<1>5. SendErr(r) => TsxInv(r)
  BY <1>2, SendErrEnded DEF TsxInv, Settled, Justified, Ended, Undecided
<1>. QED BY <1>1, <1>2, <1>3, <1>4, <1>5

\* A response is good in every state of a client.
LEMMA UacRxGood ==
  ASSUME NEW t, TsxInv(t), NEW m, NEW e \in Env
  PROVE  /\ Good(t, UacRx(t, m, e))
         /\ Final3xx(t, m) => UacRx(t, m, e).status \in Rejected
<1>. DEFINE u == IF t.state = "CALLING" THEN CallingPrelude(t, m) ELSE t
<1>1. t \in Tsx /\ (t.state \in Undecided => t.status < 200)
  BY TsxInvTyped
<1>2. Still(t, u)
  BY <1>1, CallingPreludeStill DEF Still
<1>3. TsxInv(u) /\ u.state = t.state /\ u.status = t.status
  BY <1>2, StillInv
<1>4. CASE Final3xx(t, m)
  <2>1. UacRx(t, m, e) = UacRejection(u, m, e)
    BY <1>4 DEF UacRx, Final3xx
  <2>2. m = "r3xx" /\ u.state \in Undecided
    BY <1>3, <1>4 DEF Final3xx, Undecided
  <2>. HIDE DEF u
  <2>3. TsxInv(UacRx(t, m, e)) /\ UacRx(t, m, e).status \in Rejected
    BY <1>3, <2>1, <2>2, UacRejectionGood DEF Code
  <2>. QED BY <2>3 DEF Good, Rejected, Local
<1>5. CASE ~Final3xx(t, m) /\ t.state \in {"CALLING", "PROCEEDING"}
  <2>1. u.state \in Undecided /\ t.status < 200
    BY <1>1, <1>3, <1>5 DEF Undecided
  <2>2. UacRx(t, m, e) = IF m = "r2xx" THEN UacSuccess(u, m, e)
                                       ELSE UacProvisional(u, m, e)
    BY <1>5 DEF UacRx, Final3xx
  <2>3. m # "r2xx" => Code(m) < 200
    BY <1>5 DEF Final3xx, Code
  <2>. HIDE DEF u
  <2>4. Good(u, UacRx(t, m, e))
    BY <1>3, <2>1, <2>2, <2>3, UacSuccessGood, UacProvisionalGood
  <2>. QED BY <1>3, <1>5, <2>4 DEF Good
<1>6. CASE t.state \notin {"CALLING", "PROCEEDING"}
  <2>1. ~Final3xx(t, m)
    BY <1>6 DEF Final3xx
  <2>2. UacRx(t, m, e) \in {UacCompletedRx(t, m, e), Check(t, FALSE, "null_event"), t}
    BY <1>6, <2>1 DEF UacRx
  <2>3. UacCompletedRx(t, m, e) \in {Retransmit(t, FALSE, e), t}
    BY DEF UacCompletedRx
  <2>4. Quiet(t, Retransmit(t, FALSE, e), "req") /\ Quiet(t, t, "req")
    BY <1>1, RetransmitQuiet, QuietRefl
  <2>5. Still(t, Check(t, FALSE, "null_event"))
    BY <1>1, CheckStill DEF Assertions
  <2>6. Good(t, t) /\ Good(t, Retransmit(t, FALSE, e))
    BY <2>4, QuietReqGood
  <2>7. Good(t, Check(t, FALSE, "null_event"))
    BY <2>5, StillGood
  <2>. QED BY <2>1, <2>2, <2>3, <2>6, <2>7
<1>. QED BY <1>4, <1>5, <1>6

\* An error is good: its status is final.
LEMMA FailGood ==
  ASSUME NEW t, TsxInv(t), NEW code \in Local, NEW e \in Env
  PROVE  Good(t, Fail(t, code, e))
<1>1. t \in Tsx
  BY TsxInvTyped
<1>2. Quiet(t, Fail(t, code, e), "req")
  BY <1>1, FailQuiet
<1>. QED BY <1>2, QuietGood

\* A move to a state in which the transaction is decided.
LEMMA DecidedGood ==
  ASSUME NEW t, TsxInv(t), NEW s \in States, s \notin Undecided, NEW e \in Env
  PROVE  Good(t, SetState(t, s, e))
  BY SetStateGood DEF TsxInv, Good

\* A helper that keeps still may come before a good handler.
LEMMA GoodStill ==
  ASSUME NEW t, TsxInv(t), NEW u, Still(t, u), NEW v, Good(u, v)
  PROVE  Good(t, v)
  BY DEF Good, Still

\* A timer is good in every state of a client.
LEMMA UacTimerGood ==
  ASSUME NEW t, TsxInv(t), NEW x, NEW e \in Env
  PROVE  Good(t, UacTimer(t, x, e))
<1>. DEFINE a == Cancel(t, "rt")
            b == Clear(a, "RESCHED")
            k == Check(t, x = "to", "completed_timer")
<1>1. t \in Tsx
  BY TsxInvTyped
<1>2. Still(t, a) /\ a \in Tsx
  BY <1>1, CancelStill DEF Timers, Still
<1>3. Still(t, k) /\ Still(t, Check(t, FALSE, "null_event"))
  BY <1>1, CheckStill DEF Assertions
<1>4. UacTimer(t, x, e) \in {Check(t, FALSE, "null_event"), Retransmit(t, TRUE, e),
                             Fail(b, 408, e), Fail(t, 408, e),
                             SetState(k, "TERMINATED", e)}
  BY DEF UacTimer
<1>. HIDE DEF a, k
<1>5. Still(t, b)
  BY <1>2, ClearStill, StillTrans
<1>. HIDE DEF b
<1>6. TsxInv(b) /\ TsxInv(k)
  BY <1>3, <1>5, StillInv
<1>7. Good(b, Fail(b, 408, e)) /\ Good(t, Fail(t, 408, e))
  BY <1>6, FailGood DEF Local
<1>8. Good(k, SetState(k, "TERMINATED", e))
  BY <1>6, DecidedGood DEF States, Undecided
<1>9. Quiet(t, Retransmit(t, TRUE, e), "req")
  BY <1>1, RetransmitQuiet
<1>10. Good(t, Fail(b, 408, e)) /\ Good(t, SetState(k, "TERMINATED", e))
  BY <1>3, <1>5, <1>7, <1>8, GoodStill
<1>11. Good(t, Retransmit(t, TRUE, e)) /\ Good(t, Check(t, FALSE, "null_event"))
  BY <1>3, <1>9, StillGood, QuietReqGood
<1>. QED BY <1>4, <1>7, <1>10, <1>11, ZenonT(60)

\* A provisional response from the TU is good.
LEMMA UasProvisionalGood ==
  ASSUME NEW t \in Tsx, t.status < 200, ~AckHeld(t), NEW m \in Responses, NEW e \in Env
  PROVE  TsxInv(UasProvisional(t, m, e))
<1>. DEFINE w == [t EXCEPT !.last = m]
            u == SetState(w, "PROCEEDING", e)
            c == Cancel(u, "rt")
<1>1. w \in Tsx /\ w.status < 200 /\ ~AckHeld(w)
  BY DEF Tsx, AckHeld, Messages, Responses
<1>2. UasProvisional(t, m, e) \in {ArmRetransmit(c, "1xx"), u}
  BY DEF UasProvisional
<1>. HIDE DEF w
<1>3. TsxInv(u) /\ u \in Tsx
  BY <1>1, SetStateGood DEF Justified, States, TsxInv
<1>. HIDE DEF u
<1>4. Still(u, c) /\ c \in Tsx
  BY <1>3, CancelStill DEF Timers, Still
<1>5. TsxInv(c) /\ Still(c, ArmRetransmit(c, "1xx"))
  BY <1>3, <1>4, StillInv, ArmRetransmitStill DEF Delays
<1>. QED BY <1>2, <1>3, <1>5, StillInv

\* A final response from the TU is good.
LEMMA UasFinalGood ==
  ASSUME NEW t \in Tsx, ~AckHeld(t), NEW m \in Responses, NEW e \in Env
  PROVE  TsxInv(UasFinal(t, m, e))
<1>. DEFINE u == Cancel(t, "rt")
            again == t.invite /\ (m = "r2xx" \/ ~t.reliable)
            v == IF again THEN ArmRetransmit(u, "T1") ELSE u
            l == [v EXCEPT !.last = m]
            w == Schedule(l, "to", FinalTimeout(t))
<1>1. Still(t, u) /\ u \in Tsx
  BY CancelStill DEF Timers, Still
<1>2. UasFinal(t, m, e) \in {SetState(u, "TERMINATED", e), SetState(v, "TERMINATED", e),
                             SetState(w, "COMPLETED", e)}
  BY DEF UasFinal
<1>. HIDE DEF u
<1>3. Still(u, ArmRetransmit(u, "T1")) /\ Still(u, u)
  BY <1>1, ArmRetransmitStill DEF Delays, Still
<1>4. Still(u, v) /\ v \in Tsx
  BY <1>3 DEF Still
<1>. HIDE DEF v
<1>5. l \in Tsx /\ (AckHeld(l) => AckHeld(v))
  BY <1>4 DEF Tsx, Messages, AckHeld, Responses
<1>6. FinalTimeout(t) \in Delays
  BY DEF FinalTimeout, Delays
<1>. HIDE DEF l
<1>7. Still(l, w) /\ w \in Tsx
  BY <1>5, <1>6, ScheduleStill DEF Timers, Still
<1>. HIDE DEF w
<1>8. ~AckHeld(u) /\ ~AckHeld(v) /\ ~AckHeld(w)
  BY <1>1, <1>4, <1>5, <1>7 DEF Still
<1>9. TsxInv(SetState(u, "TERMINATED", e)) /\ TsxInv(SetState(v, "TERMINATED", e))
  BY <1>1, <1>4, <1>8, SetStateGood DEF Justified, States, Undecided
<1>10. TsxInv(SetState(w, "COMPLETED", e))
  BY <1>7, <1>8, SetStateGood DEF Justified, States, Undecided
<1>. QED BY <1>2, <1>9, <1>10

\* A response from the TU is good, sent, postponed or failed.
LEMMA UasSendGood ==
  ASSUME NEW t, TsxInv(t), t.state \in Undecided, NEW m \in Responses, NEW e \in Env
  PROVE  Good(t, UasSend(t, m, e))
<1>. DEFINE a == [t EXCEPT !.status = Code(m), !.last = "none"]
            u == SendMsg(a, m, e)
            r == UasSend(t, m, e)
<1>1. t \in Tsx /\ t.status < 200 /\ ~AckHeld(t)
  BY TsxInvTyped
<1>2. a \in Tsx /\ a.status = Code(m) /\ ~AckHeld(a)
  <2>. DEFINE b == [t EXCEPT !.status = Code(m)]
  <2>1. b \in Tsx /\ b.status = Code(m) /\ ~AckHeld(b)
    BY <1>1, CodeTyped DEF Tsx, Codes, AckHeld
  <2>2. a = [b EXCEPT !.last = "none"]
    OBVIOUS
  <2>. HIDE DEF a, b
  <2>. QED BY <2>1, <2>2 DEF Tsx, AckHeld
<1>3. r = IF SendErr(u) THEN u
          ELSE IF Code(m) < 200 THEN UasProvisional(u, m, e) ELSE UasFinal(u, m, e)
  BY DEF UasSend
<1>. HIDE DEF a
<1>4. Quiet(a, u, m) /\ u \in Tsx /\ m # "ack"
  BY <1>2, SendMsgQuiet DEF Messages, Responses, Quiet, Moves
<1>5. ~AckHeld(u)
  BY <1>2, <1>4 DEF Quiet, Moves
<1>. HIDE DEF u, r
<1>6. CASE SendErr(u)
  <2>1. TsxInv(u)
    BY <1>4, <1>5, <1>6, SendErrEnded DEF TsxInv, Settled, Justified, Ended, Undecided
  <2>. QED BY <1>1, <1>3, <1>6, <2>1 DEF Good, Tsx, Codes, r
<1>7. CASE ~SendErr(u)
  <2>1. u.status = Code(m)
    BY <1>2, <1>4, <1>7, SendErrEnded DEF Quiet, Moves
  <2>2. TsxInv(r)
    BY <1>3, <1>4, <1>5, <1>7, <2>1, UasProvisionalGood, UasFinalGood
  <2>. QED BY <1>1, <2>2 DEF Good, Tsx, Codes, r
<1>. QED BY <1>6, <1>7

\* The ACK is good: it leaves the status alone.
LEMMA UasAckedGood ==
  ASSUME NEW t, TsxInv(t), NEW e \in Env
  PROVE  Good(t, UasAcked(t, e))
<1>. DEFINE a == Cancel(t, "rt")
            b == Clear(a, "RESCHED")
            u == Unschedule(b, "to")
            d == IF u.reliable THEN "T4" ELSE "zero"
            w == Schedule(u, "to", d)
<1>1. t \in Tsx
  BY TsxInvTyped
<1>2. Still(t, a) /\ a \in Tsx
  BY <1>1, CancelStill DEF Timers, Still
<1>3. UasAcked(t, e) = SetState(w, "CONFIRMED", e)
  BY DEF UasAcked
<1>. HIDE DEF a
<1>4. Still(a, b) /\ b \in Tsx
  BY <1>2, ClearStill DEF Still
<1>. HIDE DEF b
<1>5. Still(b, u) /\ u \in Tsx
  BY <1>4, UnscheduleStill DEF Timers, Still
<1>6. d \in Delays
  BY DEF Delays
<1>. HIDE DEF u, d
<1>7. Still(u, w)
  BY <1>5, <1>6, ScheduleStill DEF Timers
<1>. HIDE DEF w
<1>8. Still(t, w)
  BY <1>2, <1>4, <1>5, <1>7, StillTrans
<1>9. TsxInv(w)
  BY <1>8, StillInv
<1>10. Good(w, SetState(w, "CONFIRMED", e))
  BY <1>9, DecidedGood DEF States, Undecided
<1>. QED BY <1>3, <1>8, <1>10, GoodStill

\* A request or ACK is good in every state of a server.
LEMMA UasRxGood ==
  ASSUME NEW t, TsxInv(t), NEW m, NEW e \in Env
  PROVE  Good(t, UasRx(t, m, e))
<1>1. t \in Tsx /\ (t.state \in Undecided => t.status < 200)
  BY TsxInvTyped
<1>2. CASE t.state = "NULL"
  <2>1. TsxInv(SetState(t, "TRYING", e))
    BY <1>1, <1>2, SetStateGood DEF TsxInv, States, Undecided
  <2>. QED BY <1>1, <1>2, <2>1 DEF UasRx, Good, Undecided, Tsx, Codes
<1>3. CASE t.state = "PROCEEDING"
  <2>1. UasRx(t, m, e) = IF t.last = "none" THEN Check(t, FALSE, "no_last_tx")
                                            ELSE SendMsg(t, t.last, e)
    BY <1>3 DEF UasRx
  <2>2. Still(t, Check(t, FALSE, "no_last_tx"))
    BY <1>1, CheckStill DEF Assertions
  <2>3. t.last # "none" => Quiet(t, SendMsg(t, t.last, e), "req")
    BY <1>1, SendLastQuiet
  <2>. QED BY <2>1, <2>2, <2>3, StillGood, QuietReqGood
<1>4. CASE t.state \notin {"NULL", "PROCEEDING"}
  <2>1. UasRx(t, m, e) \in {Retransmit(t, FALSE, e), UasAcked(t, e), t}
    BY <1>4 DEF UasRx
  <2>2. Quiet(t, Retransmit(t, FALSE, e), "req") /\ Quiet(t, t, "req")
    BY <1>1, RetransmitQuiet, QuietRefl
  <2>. QED BY <2>1, <2>2, UasAckedGood, QuietReqGood
<1>. QED BY <1>2, <1>3, <1>4

\* A timer is good in every state of a server.
LEMMA UasTimerGood ==
  ASSUME NEW t, TsxInv(t), NEW x, NEW e \in Env
  PROVE  Good(t, UasTimer(t, x, e))
<1>. DEFINE n == Check(t, FALSE, "null_event")
            k == Check(t, "TRANSPORT" \notin t.flags, "uas_pending_timer")
            f == Check(t, FALSE, "uas_timeout")
            c == Check(t, x = "to", "confirmed_timer")
            trying == SetState(n, "TRYING", e)
<1>1. t \in Tsx /\ (t.state \in Undecided => t.status < 200)
  BY TsxInvTyped
<1>2. Still(t, n) /\ Still(t, k) /\ Still(t, f) /\ Still(t, c)
  BY <1>1, CheckStill DEF Assertions
<1>3. UasTimer(t, x, e) \in {t, Retransmit(k, TRUE, e), Fail(f, 408, e),
                             Retransmit(t, TRUE, e), Fail(t, 408, e),
                             SetState(c, "TERMINATED", e), SetState(t, "TERMINATED", e)}
      \/ (t.state = "NULL" /\ UasTimer(t, x, e) = trying)
  BY ZenonT(60) DEF UasTimer
<1>. HIDE DEF n, k, f, c
<1>4. /\ TsxInv(n) /\ n.state = t.state /\ n.status = t.status /\ n \in Tsx
      /\ TsxInv(k) /\ k \in Tsx /\ TsxInv(f) /\ TsxInv(c)
  BY <1>2, StillInv
<1>5. Good(t, t)
  BY DEF Good
<1>6. Good(k, Retransmit(k, TRUE, e)) /\ Good(t, Retransmit(t, TRUE, e))
  BY <1>1, <1>4, RetransmitQuiet, QuietReqGood
<1>7. Good(f, Fail(f, 408, e)) /\ Good(t, Fail(t, 408, e))
  BY <1>4, FailGood DEF Local
<1>8. Good(c, SetState(c, "TERMINATED", e)) /\ Good(t, SetState(t, "TERMINATED", e))
  BY <1>4, DecidedGood DEF States, Undecided
<1>9. /\ Good(t, Retransmit(k, TRUE, e))
      /\ Good(t, Fail(f, 408, e))
      /\ Good(t, SetState(c, "TERMINATED", e))
  <2>1. Good(t, Retransmit(k, TRUE, e))
    BY <1>2, <1>6, GoodStill
  <2>2. Good(t, Fail(f, 408, e))
    BY <1>2, <1>7, GoodStill
  <2>3. Good(t, SetState(c, "TERMINATED", e))
    BY <1>2, <1>8, GoodStill
  <2>. QED BY <2>1, <2>2, <2>3
<1>10. t.state = "NULL" => Good(t, trying)
  <2>1. t.state = "NULL" => TsxInv(trying)
    BY <1>1, <1>4, SetStateGood DEF TsxInv, States, Undecided
  <2>. QED BY <1>1, <2>1 DEF Good, Undecided, Tsx, Codes
<1>. QED BY <1>3, <1>5, <1>6, <1>7, <1>8, <1>9, <1>10, ZenonT(60)

\* A message is good in every state of every transaction.
LEMMA OnRxGood ==
  ASSUME NEW t, TsxInv(t), NEW m, NEW e \in Env
  PROVE  Good(t, OnRx(t, m, e))
<1>1. Still(t, Check(t, t.state = "TERMINATED", "dead"))
  BY TsxInvTyped, CheckStill DEF Assertions
<1>2. OnRx(t, m, e) \in {Check(t, t.state = "TERMINATED", "dead"), UacRx(t, m, e),
                         UasRx(t, m, e)}
  BY DEF OnRx
<1>. QED BY <1>1, <1>2, StillGood, UacRxGood, UasRxGood

\* A timer is good in every state of every transaction.
LEMMA OnTimerGood ==
  ASSUME NEW t, TsxInv(t), NEW x, NEW e \in Env
  PROVE  Good(t, OnTimer(t, x, e))
<1>1. Still(t, Check(t, FALSE, "dead"))
  BY TsxInvTyped, CheckStill DEF Assertions
<1>2. OnTimer(t, x, e) \in {Check(t, FALSE, "dead"), SetState(t, "DESTROYED", e),
                            UacTimer(t, x, e), UasTimer(t, x, e)}
  BY DEF OnTimer
<1>3. Good(t, SetState(t, "DESTROYED", e))
  BY DecidedGood DEF States, Undecided
<1>. QED BY <1>1, <1>2, <1>3, StillGood, UacTimerGood, UasTimerGood

\* transport_callback is good although it does not look at the state.
LEMMA TransportErrorGood ==
  ASSUME NEW t, TsxInv(t), NEW e \in Env
  PROVE  Good(t, TransportError(t, e))
<1>. DEFINE u == [t EXCEPT !.transport = FALSE]
<1>0. t \in Tsx
  BY TsxInvTyped
<1>1. Still(t, u)
  BY <1>0 DEF Still, AckHeld, Tsx
<1>2. TransportError(t, e) = Fail(u, 503, e)
  BY DEF TransportError
<1>. HIDE DEF u
<1>3. Good(u, Fail(u, 503, e))
  BY <1>1, StillInv, FailGood DEF Local
<1>. QED BY <1>1, <1>2, <1>3, GoodStill

\* A disconnected transport is good.
LEMMA TransportDownGood ==
  ASSUME NEW t, TsxInv(t), NEW e \in Env
  PROVE  Good(t, TransportDown(t, e))
<1>1. Good(t, t) /\ Good(t, Fail(t, 503, e))
  BY FailGood DEF Good, Local
<1>. QED BY <1>1 DEF TransportDown

\* pjsip_tsx_terminate is good.
LEMMA TerminateGood ==
  ASSUME NEW t, TsxInv(t)
  PROVE  Good(t, Terminate(t)) /\ Good(t, ForceTerminate(t))
  BY TsxInvTyped, TerminateQuiet, ForceTerminateQuiet, QuietReqGood

\* mod_tsx_layer_stop is good.
LEMMA StopGood ==
  ASSUME NEW t, TsxInv(t)
  PROVE  Good(t, Stop(t))
<1>. DEFINE n == Terminate(t)
            u == [n EXCEPT !.registered = FALSE]
<1>1. t \in Tsx
  BY TsxInvTyped
<1>2. Quiet(t, n, "req") /\ n \in Tsx
  BY <1>1, TerminateQuiet DEF Quiet, Moves
<1>3. Stop(t) = Destroy(u)
  BY DEF Stop
<1>. HIDE DEF n
<1>4. Quiet(n, u, "req") /\ u \in Tsx
  BY <1>2 DEF Quiet, Moves, AckHeld, Tsx
<1>. HIDE DEF u
<1>5. Quiet(u, Destroy(u), "req")
  BY <1>4, DestroyQuiet
<1>6. Quiet(t, Stop(t), "req")
  BY <1>2, <1>3, <1>4, <1>5, QuietTrans
<1>. QED BY <1>6, QuietReqGood

\* pjsip_tsx_set_timeout is good.
LEMMA SetTimeoutGood ==
  ASSUME NEW t, TsxInv(t)
  PROVE  Good(t, SetTimeout(t))
  BY TsxInvTyped, SetTimeoutStill, StillGood

-----------------------------------------------------------------------------
(* The system *)

Sending == {"wired", "sendcb"}

RestIsRejection == \A w \in Workers : at[w].pc = "final" => tsx.status \in Rejected

OneSender == \A v, w \in Workers :
                at[v].pc \in Sending /\ at[w].pc \in Sending => v = w

RetryHasServer == \A w \in Workers :
                    at[w].pc \in Sending /\ at[w].arg = "retried" => servers > 0

Inv == /\ TypeOK
       /\ TsxInv(tsx)
       /\ RestIsRejection
       /\ OneSender
       /\ RetryHasServer

\* What a step owes: the invariant, and a final status that stays final.
Owed == Inv' /\ (tsx.status >= 200 => tsx'.status >= 200)

-----------------------------------------------------------------------------

\* A new transaction satisfies the invariant of one transaction.
LEMMA NewTsxInv ==
  ASSUME NEW inv \in BOOLEAN, NEW rel \in BOOLEAN
  PROVE  /\ TsxInv(NewUac(inv, rel))
         /\ \A tp, own \in BOOLEAN : TsxInv(NewUas(inv, rel, tp, own))
<1>1. NewUac(inv, rel) \in Tsx
  BY DEF NewUac, Tsx, States, Codes, Messages, Requests, Timers, Delays
<1>2. TsxInv(NewUac(inv, rel))
  BY <1>1 DEF TsxInv, Settled, Justified, AckHeld, NewUac
<1>3. ASSUME NEW tp \in BOOLEAN, NEW own \in BOOLEAN
      PROVE  TsxInv(NewUas(inv, rel, tp, own))
  <2>1. NewUas(inv, rel, tp, own) \in Tsx
    BY <1>1 DEF NewUas, Tsx
  <2>. QED BY <2>1 DEF TsxInv, Settled, Justified, AckHeld, NewUas, NewUac
<1>. QED BY <1>2, <1>3

\* The initial states satisfy the inductive invariant.
LEMMA InitInv == Init => Inv
<1>. SUFFICES ASSUME Init PROVE Inv
  OBVIOUS
<1>1. TsxInv(tsx)
  BY NewTsxInv DEF Init
<1>2. at \in [Workers -> Places] /\ \A w \in Workers : at[w].pc = "idle"
  BY DEF Init, Idle, Places
<1>3. servers \in 0..MaxServers
  BY BoundsAssumption DEF Init
<1>4. stopped \in BOOLEAN
  BY Zenon DEF Init
<1>. QED BY <1>1, <1>2, <1>3, <1>4 DEF Inv, TypeOK, TsxInv, RestIsRejection,
                                     OneSender, RetryHasServer, Sending

\* Nothing on the wire yet: a step starts from a transaction like the last one.
LEMMA FreshInv ==
  ASSUME Inv
  PROVE  Still(tsx, Fresh) /\ TsxInv(Fresh) /\ Fresh \in Tsx /\ Fresh.status = tsx.status
<1>1. tsx \in Tsx
  BY DEF Inv, TypeOK
<1>2. Still(tsx, Fresh)
  BY <1>1 DEF Fresh, Still, AckHeld, Tsx
<1>. QED BY <1>2, StillInv DEF Inv, Still

\* A handler with the lock: nobody is in place "final" before it.
LEMMA HandleGood ==
  ASSUME Inv, NEW u, Good(Fresh, u), Handle(u)
  PROVE  /\ TsxInv(tsx') /\ (tsx.status >= 200 => tsx'.status >= 200)
         /\ \A w \in Workers : at[w].pc # "final"
<1>1. Still(Fresh, Check(Fresh, FALSE, "dead"))
  BY FreshInv, CheckStill DEF Assertions
<1>2. Good(Fresh, Check(Fresh, FALSE, "dead"))
  BY <1>1, FreshInv, StillGood
<1>3. Good(Fresh, tsx')
  BY <1>2 DEF Handle
<1>. QED BY <1>3, FreshInv DEF Good, Handle, LockFree

\* The steps that leave every worker where it is.
LEMMA InPlace ==
  ASSUME Inv, TsxInv(tsx'), tsx.status >= 200 => tsx'.status >= 200,
         (\A w \in Workers : at[w].pc # "final") \/ tsx'.status = tsx.status,
         UNCHANGED <<at, servers>>, stopped' \in BOOLEAN
  PROVE  Owed
  BY DEF Owed, Inv, TypeOK, TsxInv, RestIsRejection, OneSender, RetryHasServer

\* The steps in which worker w goes to a place where it neither completes a
\* rejection nor reports a send.
LEMMA Moved ==
  ASSUME Inv, TsxInv(tsx'), tsx.status >= 200 => tsx'.status >= 200,
         (\A w \in Workers : at[w].pc # "final") \/ tsx'.status = tsx.status,
         NEW w \in Workers, NEW p \in Places, Move(w, p),
         p.pc \notin Sending, p.pc = "final" => tsx'.status \in Rejected,
         UNCHANGED <<servers, stopped>>
  PROVE  Owed
<1>1. at' \in [Workers -> Places] /\ at'[w] = p
      /\ \A v \in Workers : v # w => at'[v] = at[v]
  BY DEF Move, Inv, TypeOK
<1>. QED BY <1>1 DEF Owed, Inv, TypeOK, TsxInv, RestIsRejection, OneSender,
                    RetryHasServer

-----------------------------------------------------------------------------
(* The TU and the transport's own steps *)

\* A call of the TU keeps what its handler keeps.
LEMMA TuCallOwed ==
  ASSUME Inv, NEW u, Good(Fresh, u), TuCall(u)
  PROVE  Owed
<1>1. Handle(u) /\ UNCHANGED <<at, servers, stopped>>
  BY DEF TuCall
<1>2. stopped' \in BOOLEAN
  BY <1>1 DEF Inv, TypeOK
<1>. QED BY <1>1, <1>2, HandleGood, InPlace

\* The TU's calls that send keep the invariant, and a final status final.
LEMMA TuOwed ==
  ASSUME Inv, NEW e \in Env, Tu(e)
  PROVE  Owed
<1>1. CASE TuRequest(e)
  <2>1. Fresh.state = "NULL"
    BY <1>1, FreshInv DEF TuRequest, Still
  <2>. QED BY <1>1, <2>1, FreshInv, UacSendGood, TuCallOwed DEF TuRequest
<1>2. CASE TuAccept(e)
  BY <1>2, FreshInv, UasRxGood, TuCallOwed DEF TuAccept
<1>3. CASE TuRetransmit(e)
  <2>1. Fresh.last = tsx.last
    BY DEF Fresh, Inv, TypeOK, Tsx
  <2>2. Quiet(Fresh, SendMsg(Fresh, tsx.last, e), "req")
    BY <1>3, <2>1, FreshInv, SendLastQuiet DEF TuRetransmit
  <2>. QED BY <1>3, <2>2, FreshInv, QuietReqGood, TuCallOwed DEF TuRetransmit
<1>4. ASSUME NEW m \in Responses, TuRespond(m, e)
      PROVE  Owed
  <2>1. Fresh.state \in Undecided
    BY <1>4, FreshInv DEF TuRespond, Still, Undecided
  <2>. QED BY <1>4, <2>1, FreshInv, UasSendGood, TuCallOwed DEF TuRespond
<1>. QED BY <1>1, <1>2, <1>3, <1>4 DEF Tu

\* The TU's calls that do not send keep the invariant, and a final status final.
LEMMA TuOtherOwed ==
  ASSUME Inv, TuOther
  PROVE  Owed
<1>1. CASE TuTerminate
  BY <1>1, FreshInv, TerminateGood, TuCallOwed DEF TuTerminate
<1>2. CASE TuTerminateLate
  <2>1. stopped' \in BOOLEAN
    BY <1>2 DEF TuTerminateLate, Inv, TypeOK
  <2>. QED BY <1>2, <2>1, FreshInv, TerminateGood, HandleGood, InPlace DEF TuTerminateLate
<1>3. CASE TuStopRetransmit
  <2>1. Still(Fresh, Cancel(Fresh, "rt"))
    BY FreshInv, CancelStill DEF Timers
  <2>. QED BY <1>3, <2>1, FreshInv, StillGood, TuCallOwed DEF TuStopRetransmit
<1>4. CASE TuSetTimeout
  <2>1. TsxInv(tsx') /\ tsx'.status = tsx.status
    BY <1>4, FreshInv, SetTimeoutStill, StillInv DEF TuSetTimeout
  <2>. QED BY <1>4, <2>1, InPlace DEF TuSetTimeout, Inv, TypeOK
<1>. QED BY <1>1, <1>2, <1>3, <1>4 DEF TuOther

\* The shutdown keeps the invariant.
LEMMA LayerStopOwed ==
  ASSUME Inv, LayerStop
  PROVE  Owed
<1>1. Good(Fresh, tsx')
  BY FreshInv, StopGood DEF LayerStop
<1>2. \A w \in Workers : at[w].pc # "final"
  BY DEF LayerStop, Idle
<1>. QED BY <1>1, <1>2, FreshInv, InPlace DEF LayerStop, Good

\* A transport that disconnects keeps the invariant.
LEMMA DisconnectOwed ==
  ASSUME Inv, NEW w \in Workers, NEW e \in Env, Disconnect(w, e)
  PROVE  Owed
<1>1. Good(Fresh, TransportDown(Fresh, e))
  BY FreshInv, TransportDownGood
<1>2. stopped' \in BOOLEAN
  BY DEF Disconnect, Inv, TypeOK
<1>. QED BY <1>1, <1>2, HandleGood, InPlace DEF Disconnect

-----------------------------------------------------------------------------
(* The workers *)

\* The places a worker is sent to.
LEMMA PlaceTyped ==
  /\ Idle \in Places /\ Idle.pc = "idle"
  /\ \A x \in Timers : /\ Place("popped", x) \in Places
                        /\ Place("timer", x) \in Places
  /\ \A m \in Messages : Place("rx", m) \in Places
  /\ Place("final", "none") \in Places /\ Place("txerr", "none") \in Places
  BY DEF Idle, Place, Places

\* Taking a timer from the heap keeps the invariant.
LEMMA PopOwed ==
  ASSUME Inv, NEW w \in Workers, NEW x \in Timers, Pop(w, x)
  PROVE  Owed
<1>1. TsxInv(tsx') /\ tsx'.status = tsx.status
  BY FreshInv, UnscheduleStill, StillInv DEF Pop
<1>2. Place("popped", x) \in Places /\ Place("popped", x).pc = "popped"
  BY PlaceTyped DEF Place
<1>. QED BY <1>1, <1>2, Moved DEF Pop, Become, Sending

\* The start of tsx_timer_callback keeps the invariant.
LEMMA ExpireOwed ==
  ASSUME Inv, NEW w \in Workers, Expire(w)
  PROVE  Owed
<1>. DEFINE u == [Fresh EXCEPT !.armed = @ \ {at[w].arg}]
            p == Place("timer", at[w].arg)
<1>1. Still(Fresh, u)
  BY FreshInv DEF Still, AckHeld, Tsx
<1>2. Still(Fresh, Check(Fresh, FALSE, "dead"))
  BY FreshInv, CheckStill DEF Assertions
<1>3. tsx' = u \/ tsx' = Check(Fresh, FALSE, "dead")
  BY DEF Expire
<1>4. TsxInv(tsx') /\ tsx'.status = tsx.status
  BY <1>1, <1>2, <1>3, FreshInv, StillInv
<1>5. p \in Places /\ p.pc = "timer"
  BY DEF Place, Places, Inv, TypeOK
<1>. QED BY <1>4, <1>5, Moved DEF Expire, Become, Sending

\* A message that finds its transaction keeps the invariant.
LEMMA FindOwed ==
  ASSUME Inv, NEW w \in Workers, NEW m \in Messages, Find(w, m)
  PROVE  Owed
<1>1. TsxInv(tsx') /\ tsx'.status = tsx.status
  BY FreshInv DEF Find
<1>2. Place("rx", m) \in Places /\ Place("rx", m).pc = "rx"
  BY PlaceTyped DEF Place
<1>. QED BY <1>1, <1>2, Moved DEF Find, Become, Sending

\* A transport that is through with a message keeps the invariant.
LEMMA SendEndsOwed ==
  ASSUME Inv, NEW w \in Workers, NEW m \in Messages, NEW ok \in BOOLEAN,
         SendEnds(w, m, ok)
  PROVE  Owed
<1>. DEFINE p == IF ok THEN Idle ELSE Place("txerr", "none")
<1>1. Still(Fresh, tsx')
  BY FreshInv DEF SendEnds, Still, AckHeld, Tsx
<1>2. TsxInv(tsx') /\ tsx'.status = tsx.status
  BY <1>1, FreshInv, StillInv
<1>3. p \in Places /\ p.pc \notin Sending /\ p.pc # "final"
  BY PlaceTyped DEF Place, Sending
<1>4. Move(w, p) /\ UNCHANGED <<servers, stopped>>
  BY DEF SendEnds
<1>. HIDE DEF p
<1>. QED BY <1>2, <1>3, <1>4, Moved

\* The timer's handler keeps the invariant, and a final status final.
LEMMA FireOwed ==
  ASSUME Inv, NEW w \in Workers, NEW e \in Env, Fire(w, e)
  PROVE  Owed
<1>1. Good(Fresh, OnTimer(Fresh, at[w].arg, e))
  BY FreshInv, OnTimerGood
<1>2. Idle.pc \notin Sending /\ Idle.pc # "final"
  BY PlaceTyped DEF Sending
<1>. QED BY <1>1, <1>2, HandleGood, PlaceTyped, Moved DEF Fire

\* transport_callback keeps the invariant, whatever the state.
LEMMA TransportCallbackOwed ==
  ASSUME Inv, NEW w \in Workers, NEW e \in Env, TransportCallback(w, e)
  PROVE  Owed
<1>1. Good(Fresh, TransportError(Fresh, e))
  BY FreshInv, TransportErrorGood
<1>2. Idle.pc \notin Sending /\ Idle.pc # "final"
  BY PlaceTyped DEF Sending
<1>. QED BY <1>1, <1>2, HandleGood, PlaceTyped, Moved DEF TransportCallback

\* After the first half of a rejection the status is one.
LEMMA ReceiveOwed ==
  ASSUME Inv, NEW w \in Workers, NEW e \in Env, Receive(w, e)
  PROVE  Owed
<1>. DEFINE m == at[w].arg
            u == OnRx(Fresh, m, e)
            half == /\ tsx.alive /\ tsx.role = "UAC" /\ Final3xx(tsx, m)
                    /\ ~SendErr(UacRejected(IF tsx.state = "CALLING"
                                            THEN CallingPrelude(Fresh, m)
                                            ELSE Fresh, m, e))
            p == IF half THEN Place("final", "none") ELSE Idle
<1>1. Handle(u) /\ Move(w, p) /\ UNCHANGED <<servers, stopped>>
  BY DEF Receive
<1>2. Good(Fresh, u)
  BY FreshInv, OnRxGood
<1>3. half => tsx' = UacRx(Fresh, m, e) /\ Final3xx(Fresh, m)
  <2>1. HAVE half
  <2>2. Final3xx(Fresh, m) /\ Fresh.role = "UAC"
    BY <2>1 DEF Final3xx, Fresh, Inv, TypeOK, Tsx
  <2>3. ~(Rank(Fresh.state) >= Rank("TERMINATED"))
    BY <2>2 DEF Final3xx, Rank
  <2>. QED BY <1>1, <2>1, <2>2, <2>3 DEF OnRx, Handle
<1>4. half => tsx'.status \in Rejected
  BY <1>3, FreshInv, UacRxGood
<1>5. p \in Places /\ p.pc \notin Sending /\ (p.pc = "final" => half)
  BY PlaceTyped DEF Sending, Place
<1>. HIDE DEF u, half, p
<1>. QED BY <1>1, <1>2, <1>4, <1>5, HandleGood, Moved

\* The second half of a rejection keeps the invariant: the status calls
\* for the ACK it keeps.
LEMMA ReceiveRestOwed ==
  ASSUME Inv, NEW w \in Workers, ReceiveRest(w)
  PROVE  Owed
<1>1. tsx.status \in Rejected
  BY DEF ReceiveRest, Inv, RestIsRejection
<1>2. Good(Fresh, tsx') /\ tsx'.status = tsx.status
  BY <1>1, FreshInv, UacStartTimerDGood DEF ReceiveRest
<1>3. Idle.pc \notin Sending /\ Idle.pc # "final"
  BY PlaceTyped DEF Sending
<1>. QED BY <1>2, <1>3, FreshInv, PlaceTyped, Moved DEF ReceiveRest, Good

\* The end of a stateless send keeps the invariant: an ACK it puts on the wire
\* was held before.
LEMMA WiredOwed ==
  ASSUME Inv, NEW w \in Workers, NEW o \in {"sent", "retried", "failed"}, Wired(w, o)
  PROVE  Owed
<1>. DEFINE p == Place("wired", o)
<1>1. Fresh.pending = tsx.pending /\ tsx.pending \in Messages
  BY DEF Wired, Fresh, Inv, TypeOK, Tsx
<1>2. Quiet(Fresh, Emit(Fresh, tsx.pending, FALSE), tsx.pending)
  BY <1>1, FreshInv, EmitQuiet
<1>3. Quiet(Fresh, Emit(Fresh, tsx.pending, FALSE), "req")
  BY <1>1, <1>2, QuietHeld DEF AckHeld
<1>4. Emit(Fresh, tsx.pending, FALSE).status = tsx.status
  BY FreshInv DEF Emit, Tsx
<1>5. TsxInv(tsx') /\ tsx'.status = tsx.status
  BY <1>3, <1>4, FreshInv, QuietReqGood DEF Wired, Good
<1>6. p \in Places /\ p.pc = "wired" /\ p.arg = o
  BY DEF Place, Places
<1>7. /\ at' \in [Workers -> Places] /\ at'[w] = p
      /\ \A v \in Workers : v # w => at'[v] = at[v] /\ at[v].pc \notin Sending
  BY <1>6 DEF Wired, Become, Move, Inv, TypeOK, Sending
<1>8. o = "retried" => servers > 0
  BY DEF Wired
<1>9. UNCHANGED <<servers, stopped>>
  BY DEF Wired
<1>. HIDE DEF p
<1>10. Inv'
  BY <1>5, <1>6, <1>7, <1>8, <1>9
     DEF Inv, TypeOK, TsxInv, RestIsRejection, OneSender, RetryHasServer
<1>. QED BY <1>5, <1>10 DEF Owed

\* The start of send_msg_callback keeps the invariant.
LEMMA CalledOwed ==
  ASSUME Inv, NEW w \in Workers, Called(w)
  PROVE  Owed
<1>. DEFINE p == IF tsx.pending = "none" THEN Idle ELSE Place("sendcb", at[w].arg)
<1>1. Still(Fresh, tsx')
  BY FreshInv DEF Called, Still, AckHeld, Tsx
<1>2. TsxInv(tsx') /\ tsx'.status = tsx.status
  BY <1>1, FreshInv, StillInv
<1>3. p \in Places /\ (p.pc \in Sending => p.arg = at[w].arg) /\ p.pc # "final"
  BY DEF Place, Places, Idle, Sending, Inv, TypeOK
<1>4. /\ at' \in [Workers -> Places] /\ at'[w] = p
      /\ \A v \in Workers : v # w => at'[v] = at[v]
  BY <1>3 DEF Called, Become, Move, Inv, TypeOK
<1>5. at[w].pc \in Sending
  BY DEF Called, Sending
<1>6. UNCHANGED <<servers, stopped>>
  BY DEF Called
<1>. HIDE DEF p
<1>7. Inv'
  BY <1>2, <1>3, <1>4, <1>5, <1>6
     DEF Inv, TypeOK, TsxInv, RestIsRejection, OneSender, RetryHasServer
<1>. QED BY <1>2, <1>7 DEF Owed

\* send_msg_callback keeps the invariant, also when it sends last_tx or tries
\* another server.
LEMMA SendCallbackOwed ==
  ASSUME Inv, NEW w \in Workers, NEW e \in Env, SendCallback(w, e)
  PROVE  Owed
<1>. DEFINE u == IF at[w].arg = "sent" THEN SendDone(Fresh, e)
                 ELSE IF at[w].arg = "failed" \/ "DESTROY" \in tsx.flags
                      THEN SendFailed(Fresh, e)
                      ELSE SendRetried(Fresh, "req")
<1>1. Handle(u) /\ Move(w, Idle) /\ UNCHANGED stopped
      /\ servers' = IF at[w].arg = "retried" THEN servers - 1 ELSE servers
  BY DEF SendCallback
<1>2. /\ Quiet(Fresh, SendDone(Fresh, e), "req")
      /\ Quiet(Fresh, SendFailed(Fresh, e), "req")
      /\ Quiet(Fresh, SendRetried(Fresh, "req"), "req")
  BY FreshInv, SendDoneQuiet, SendFailedQuiet, SendRetriedQuiet DEF Messages, Requests
<1>3. Good(Fresh, u)
  BY <1>2, FreshInv, QuietReqGood
<1>. HIDE DEF u
<1>4. /\ TsxInv(tsx') /\ (tsx.status >= 200 => tsx'.status >= 200)
      /\ \A v \in Workers : at[v].pc # "final"
  BY <1>1, <1>3, HandleGood
<1>5. at[w].pc \in Sending
  BY DEF SendCallback, Sending
<1>6. servers' \in 0..MaxServers
  BY <1>1, <1>5, BoundsAssumption DEF Inv, TypeOK, RetryHasServer
<1>7. /\ at' \in [Workers -> Places] /\ at'[w].pc = "idle"
      /\ \A v \in Workers : v # w => at'[v] = at[v] /\ at[v].pc \notin Sending
  BY <1>1, <1>5, PlaceTyped DEF Move, Inv, TypeOK, OneSender
<1>8. Inv'
  BY <1>1, <1>4, <1>6, <1>7
     DEF Inv, TypeOK, TsxInv, RestIsRejection, OneSender, RetryHasServer, Sending
<1>. QED BY <1>4, <1>8 DEF Owed

-----------------------------------------------------------------------------
(* The theorems *)

\* Every step keeps the invariant, and a final status final.
LEMMA NextOwed ==
  ASSUME Inv, Next
  PROVE  Owed
<1>1. CASE TuOther
  BY <1>1, TuOtherOwed
<1>2. CASE LayerStop
  BY <1>2, LayerStopOwed
<1>3. ASSUME NEW e \in Env, Tu(e)
      PROVE  Owed
  BY <1>3, TuOwed
<1>4. ASSUME NEW e \in Env, NEW w \in Workers, Work(w, e) \/ Disconnect(w, e)
      PROVE  Owed
  BY <1>4, FireOwed, ReceiveOwed, SendCallbackOwed, TransportCallbackOwed,
     DisconnectOwed DEF Work
<1>5. ASSUME NEW w \in Workers, Take(w)
      PROVE  Owed
  BY <1>5, PopOwed, FindOwed, WiredOwed, SendEndsOwed DEF Take
<1>6. ASSUME NEW w \in Workers, WorkOn(w)
      PROVE  Owed
  BY <1>6, ExpireOwed, ReceiveRestOwed, CalledOwed DEF WorkOn
<1>. QED BY <1>1, <1>2, <1>3, <1>4, <1>5, <1>6 DEF Next

\* A step that changes nothing keeps the invariant, and a final status final.
LEMMA StutterOwed ==
  ASSUME Inv, UNCHANGED vars
  PROVE  Owed
  BY DEF vars, Owed, Inv, TypeOK, TsxInv, RestIsRejection, OneSender, RetryHasServer

\* Inv is an invariant of every step of every thread.
THEOREM Invariance == Spec => []Inv
<1>1. Inv /\ [Next]_vars => Inv'
  BY NextOwed, StutterOwed DEF Owed
<1>. QED BY InitInv, <1>1, PTL DEF Spec

\* Every variable keeps its type, with any number of workers: no handler makes
\* up a state, a status or a timer, and a stateless request falls back on no
\* address beyond the list (SendRetried).
THEOREM TypeCorrect == Spec => []TypeOK
<1>1. Inv => TypeOK
  BY DEF Inv
<1>. QED BY Invariance, <1>1, PTL

\* With any number of workers, a transaction with an ACK on the wire was
\* rejected, whichever thread sent it and however late.
THEOREM AckCorrect == Spec => []AckOnlyRejection
<1>1. Inv => AckOnlyRejection
  BY DEF Inv, TsxInv, Justified, AckHeld, AckOnlyRejection, Rejected, Local
<1>. QED BY Invariance, <1>1, PTL

\* With any number of workers, no step takes a final status back.
THEOREM StatusCorrect == Spec => StatusFinal
<1>1. Inv /\ [Next]_vars => [tsx.status >= 200 => tsx'.status >= 200]_vars
  BY NextOwed DEF Owed
<1>. QED BY Invariance, <1>1, PTL DEF Spec, StatusFinal

-----------------------------------------------------------------------------
(***************************************************************************)
(* The timers: a state that only a timeout ends has its timeout coming,    *)
(* what has to be repeated goes on being repeated, and a rejection of an   *)
(* INVITE is acknowledged.                                                 *)
(*                                                                         *)
(* What a transaction needs is a predicate of the record (NeedsTo,         *)
(* NeedsRt), and so is what it has (Timed, Repeated, Acked).  Keeps is the *)
(* contract of the helpers, After that of the handlers.                    *)
(***************************************************************************)

\* Nothing but the timeout timer is certain to end these states.
NeedsTo(t) ==
    \/ t.state \in {"COMPLETED", "CONFIRMED", "TERMINATED"}
    \/ t.role = "UAC" /\ t.state = "CALLING"
    \/ t.role = "UAC" /\ ~t.invite /\ t.state = "PROCEEDING"

Timed(t) == t.due["to"] # "off" \/ t.state = "DESTROYED"

\* What was sent in these states must be repeated until it is answered.
NeedsRt(t) ==
    /\ ~t.reliable
    /\ \/ t.role = "UAC" /\ ~t.invite /\ t.state \in {"CALLING", "PROCEEDING"}
       \/ t.role = "UAS" /\ t.invite /\ t.state = "COMPLETED"

Repeated(t) ==
    \/ t.reliable \/ t.state \in Ended \/ t.due["rt"] # "off"
    \/ {"RESCHED", "TRANSPORT"} \subseteq t.flags

\* The ACK waits for the transport.
Asked(t) == {"SEND", "TRANSPORT"} \subseteq t.flags

Acked(t) == t.state \in Ended \/ "ack" \in t.wire \/ (Asked(t) /\ t.last = "ack")

\* A rejection of an INVITE that is kept and not acknowledged.
Owing(t) == t.role = "UAC" /\ t.invite /\ t.state = "COMPLETED" /\ ~Acked(t)

\* A client that has sent found its server, or is looking for it.
Found(t) == t.state \in Ended \/ "RESOLVED" \in t.flags \/ "TRANSPORT" \in t.flags

Known(t) == t.role = "UAC" /\ t.transport => "RESOLVED" \in t.flags

\* There is something to repeat.
Lasting(t) ==
    (t.role = "UAC" \/ t.state = "COMPLETED") /\ t.state \notin Ended => t.last # "none"

TimersKept(t) == /\ Known(t) /\ Lasting(t)
                 /\ t.role = "UAC" /\ t.state # "NULL" => Found(t)

\* Timer x has left the heap and not reached its handler.
On(x) == {Place("popped", x), Place("timer", x)}

ToKept == tsx.alive /\ ~stopped /\ NeedsTo(tsx) /\ ~Timed(tsx) =>
             \E w \in Workers : at[w].pc = "final" \/ at[w] \in On("to")

RtKept == tsx.alive /\ ~stopped /\ NeedsRt(tsx) /\ ~Repeated(tsx) =>
             \E w \in Workers : at[w] \in On("rt")

AckKept == Owing(tsx) => Asked(tsx) /\ \E w \in Workers : at[w].pc = "final"

\* A worker between the heap and a handler has a timer.
Carried == \A w \in Workers : at[w].pc \in {"popped", "timer"} => at[w].arg \in Timers

\* With Inv and Carried, the inductive invariant.
KInv == TimersKept(tsx) /\ ToKept /\ RtKept /\ AckKept

-----------------------------------------------------------------------------
(* The contract of the helpers *)

Same(t, u) ==
    /\ u.state = t.state /\ u.last = t.last
    /\ t.reliable => u.reliable
    /\ Timed(t) => Timed(u)
    /\ Repeated(t) => Repeated(u)
    /\ Found(t) => Found(u)
    /\ Acked(t) => Acked(u)

Over(u) == u.state \in Ended /\ Timed(u)

Keeps(t, u) ==
    /\ u \in Tsx
    /\ u.role = t.role /\ u.invite = t.invite
    /\ Known(t) => Known(u)
    /\ Over(u) \/ Same(t, u)

\* The fields that the contract looks at, but what was sent.
Alike(t, u) ==
    /\ u \in Tsx
    /\ u.role = t.role /\ u.invite = t.invite
    /\ u.state = t.state /\ u.last = t.last /\ u.reliable = t.reliable
    /\ u.transport = t.transport /\ u.flags = t.flags
    /\ u.due = t.due /\ t.wire \subseteq u.wire

\* To do nothing keeps everything.
LEMMA KeepsRefl ==
  ASSUME NEW t \in Tsx
  PROVE  Keeps(t, t)
  BY DEF Keeps, Same

\* Two helpers, one after the other: the second leaves an ended transaction ended.
LEMMA KeepsTrans ==
  ASSUME NEW t, NEW u, NEW v, Keeps(t, u), Keeps(u, v)
  PROVE  Keeps(t, v)
  BY DEF Keeps, Same, Over

\* A status is set.
LEMMA StatusAlike ==
  ASSUME NEW t \in Tsx, NEW c \in Codes
  PROVE  Alike(t, [t EXCEPT !.status = c])
  BY DEF Alike, Tsx

\* What does not touch those fields keeps everything.
LEMMA AlikeKeeps ==
  ASSUME NEW t, NEW u, Alike(t, u)
  PROVE  Keeps(t, u)
  BY DEF Alike, Keeps, Same, Timed, Repeated, Found, Acked, Asked, Known

\* A transaction that has ended with its last timer set.
LEMMA OverKeeps ==
  ASSUME NEW t, NEW u \in Tsx, u.role = t.role, u.invite = t.invite,
         Known(t) => Known(u), Over(u)
  PROVE  Keeps(t, u)
  BY DEF Keeps

-----------------------------------------------------------------------------
(* Timers *)

\* An assertion keeps everything.
LEMMA CheckAlike ==
  ASSUME NEW t \in Tsx, NEW holds, NEW name \in Assertions
  PROVE  Alike(t, Check(t, holds, name))
  BY DEF Check, Alike, Tsx

\* A timer that is scheduled runs, also when it did before.
LEMMA ScheduleFields ==
  ASSUME NEW t \in Tsx, NEW x \in Timers, NEW d \in Delays, d # "off"
  PROVE  LET u == Schedule(t, x, d)
         IN  /\ u \in Tsx
             /\ u.role = t.role /\ u.invite = t.invite /\ u.state = t.state
             /\ u.last = t.last /\ u.reliable = t.reliable /\ u.transport = t.transport
             /\ u.flags = t.flags /\ u.wire = t.wire
             /\ u.due[x] # "off" /\ \A y \in Timers : t.due[y] # "off" => u.due[y] # "off"
<1>. DEFINE u == Schedule(t, x, d)
<1>1. u \in Tsx
  BY ScheduleStill DEF Still
<1>2. /\ u.role = t.role /\ u.invite = t.invite /\ u.state = t.state /\ u.last = t.last
      /\ u.reliable = t.reliable /\ u.transport = t.transport /\ u.flags = t.flags
      /\ u.wire = t.wire
  BY DEF Schedule, Tsx
<1>3. u.due[x] # "off" /\ \A y \in Timers : t.due[y] # "off" => u.due[y] # "off"
  BY DEF Schedule, Tsx
<1>. QED BY <1>1, <1>2, <1>3

\* Nothing is lost by it.
LEMMA ScheduleKeeps ==
  ASSUME NEW t \in Tsx, NEW x \in Timers, NEW d \in Delays, d # "off"
  PROVE  Keeps(t, Schedule(t, x, d)) /\ Schedule(t, x, d).due[x] # "off"
<1>. DEFINE u == Schedule(t, x, d)
<1>1. /\ u \in Tsx
      /\ u.role = t.role /\ u.invite = t.invite /\ u.state = t.state
      /\ u.last = t.last /\ u.reliable = t.reliable /\ u.transport = t.transport
      /\ u.flags = t.flags /\ u.wire = t.wire
      /\ u.due[x] # "off" /\ \A y \in Timers : t.due[y] # "off" => u.due[y] # "off"
  BY ScheduleFields
<1>. HIDE DEF u
<1>2. Keeps(t, u)
  BY <1>1 DEF Keeps, Same, Timed, Repeated, Found, Acked, Asked, Known, Timers
<1>. QED BY <1>1, <1>2 DEF u

\* A timer that stops changes nothing but that timer.
Stops(t, u, x) ==
    /\ u \in Tsx
    /\ u.role = t.role /\ u.invite = t.invite
    /\ u.state = t.state /\ u.last = t.last /\ u.reliable = t.reliable
    /\ u.transport = t.transport /\ u.flags = t.flags /\ u.wire = t.wire
    /\ \A y \in Timers \ {x} : u.due[y] = t.due[y]

\* Cancelled or taken from the heap, a timer stops.
LEMMA CancelStops ==
  ASSUME NEW t \in Tsx, NEW x \in Timers
  PROVE  Stops(t, Cancel(t, x), x) /\ Stops(t, Unschedule(t, x), x)
<1>1. Cancel(t, x) \in Tsx /\ Unschedule(t, x) \in Tsx
  BY CancelStill, UnscheduleStill DEF Still
<1>2. Stops(t, Cancel(t, x), x)
  BY <1>1 DEF Stops, Cancel, Tsx
<1>3. Stops(t, Unschedule(t, x), x)
  BY <1>1 DEF Stops, Unschedule, Tsx
<1>. QED BY <1>2, <1>3

\* The timeout that is set again keeps everything.
LEMMA AgainKeeps ==
  ASSUME NEW t \in Tsx, NEW u, Stops(t, u, "to"), NEW d \in Delays, d # "off"
  PROVE  Keeps(t, Schedule(u, "to", d)) /\ Timed(Schedule(u, "to", d))
<1>. DEFINE v == Schedule(u, "to", d)
<1>1. Keeps(u, v) /\ v.due["to"] # "off"
  BY ScheduleKeeps DEF Stops, Timers
<1>2. u.due["rt"] = t.due["rt"]
  BY DEF Stops, Timers
<1>. HIDE DEF v
<1>3. Timed(v)
  BY <1>1 DEF Timed
<1>4. Keeps(t, v)
  BY <1>1, <1>2, <1>3
     DEF Keeps, Same, Over, Repeated, Found, Acked, Asked, Known, Stops
<1>. QED BY <1>3, <1>4 DEF v

\* Arming the retransmission timer, or leaving it to send_msg_callback, keeps
\* everything and repeats.
LEMMA ArmRetransmitKeeps ==
  ASSUME NEW t \in Tsx, NEW d \in Delays, d # "off"
  PROVE  Keeps(t, ArmRetransmit(t, d)) /\ Repeated(ArmRetransmit(t, d))
<1>. DEFINE a == ArmRetransmit(t, d)
<1>1. CASE "TRANSPORT" \in t.flags
  <2>1. a = [t EXCEPT !.flags = @ \cup {"RESCHED"}]
    BY <1>1 DEF ArmRetransmit
  <2>2. a \in Tsx /\ a.role = t.role /\ a.invite = t.invite /\ a.state = t.state
        /\ a.last = t.last /\ a.reliable = t.reliable /\ a.due = t.due
        /\ a.flags = t.flags \cup {"RESCHED"} /\ a.wire = t.wire /\ a.transport = t.transport
    BY <2>1 DEF Tsx, Flags
  <2>. HIDE DEF a
  <2>3. Keeps(t, a) /\ Repeated(a)
    BY <1>1, <2>2 DEF Keeps, Same, Timed, Repeated, Found, Acked, Asked, Known
  <2>. QED BY <2>3 DEF a
<1>2. CASE "TRANSPORT" \notin t.flags
  <2>1. a = Schedule(t, "rt", d)
    BY <1>2 DEF ArmRetransmit
  <2>. HIDE DEF a
  <2>2. Keeps(t, a) /\ Repeated(a)
    BY <2>1, ScheduleKeeps DEF Timers, Repeated
  <2>. QED BY <2>2 DEF a
<1>. QED BY <1>1, <1>2

\* pjsip_tsx_set_timeout keeps everything.
LEMMA SetTimeoutKeeps ==
  ASSUME NEW t \in Tsx
  PROVE  Keeps(t, SetTimeout(t))
  BY KeepsRefl, CancelStops, AgainKeeps DEF SetTimeout, Timers, Delays

-----------------------------------------------------------------------------
(* The state *)

\* tsx_set_state's work after TERMINATED sets the timer that destroys.
LEMMA ReapTimed ==
  ASSUME NEW t \in Tsx, t.state \in Ended
  PROVE  Keeps(t, Reap(t)) /\ Over(Reap(t))
<1>. DEFINE u == IF "TRANSPORT" \in t.flags
                 THEN [Clear(t, "TRANSPORT") EXCEPT !.pending = "none"]
                 ELSE t
            v == Cancel(u, "to")
            r == Schedule(v, "to", "zero")
<1>1. Reap(t) = r
  BY DEF Reap
<1>2. /\ u \in Tsx /\ u.role = t.role /\ u.invite = t.invite
      /\ u.state = t.state /\ u.transport = t.transport
      /\ "RESOLVED" \in t.flags => "RESOLVED" \in u.flags
  BY DEF Clear, Tsx
<1>. HIDE DEF u
<1>3. Keeps(u, r) /\ Timed(r)
  BY <1>2, CancelStops, AgainKeeps DEF Timers, Delays
<1>. HIDE DEF v, r
<1>4. Over(r)
  BY <1>2, <1>3 DEF Keeps, Same, Over
<1>5. Keeps(t, r)
  BY <1>2, <1>3, <1>4 DEF Keeps, Known
<1>. QED BY <1>1, <1>4, <1>5

\* tsx_destroy leaves a destroyed transaction without a transport.
LEMMA DestroyEnds ==
  ASSUME NEW t \in Tsx
  PROVE  /\ Destroy(t) \in Tsx /\ Destroy(t).role = t.role /\ Destroy(t).invite = t.invite
         /\ Destroy(t).state = t.state /\ ~Destroy(t).transport
<1>. DEFINE a == Cancel(t, "to")
            b == Cancel(a, "rt")
            u == [b EXCEPT !.transport = FALSE, !.last = "none",
                           !.flags = @ \ {"RESCHED", "SEND"}]
<1>1. Stops(t, a, "to")
  BY CancelStops DEF Timers
<1>. HIDE DEF a
<1>2. Stops(a, b, "rt")
  BY <1>1, CancelStops DEF Timers, Stops
<1>. HIDE DEF b
<1>3. u \in Tsx /\ u.role = t.role /\ u.invite = t.invite /\ u.state = t.state /\ ~u.transport
  BY <1>1, <1>2, ZenonT(60) DEF Stops, Tsx
<1>4. Destroy(t) = IF "TRANSPORT" \in u.flags
                   THEN [u EXCEPT !.flags = @ \cup {"DESTROY"}]
                   ELSE [u EXCEPT !.alive = FALSE]
  BY DEF Destroy, a, b
<1>. DEFINE p == [u EXCEPT !.flags = @ \cup {"DESTROY"}]
            q == [u EXCEPT !.alive = FALSE]
<1>. HIDE DEF u
<1>5. p \in Tsx /\ p.role = u.role /\ p.invite = u.invite /\ p.state = u.state
      /\ p.transport = u.transport
  BY <1>3 DEF Tsx, Flags
<1>6. q \in Tsx /\ q.role = u.role /\ q.invite = u.invite /\ q.state = u.state
      /\ q.transport = u.transport
  BY <1>3 DEF Tsx
<1>7. Destroy(t) \in {p, q}
  BY <1>4
<1>. HIDE DEF p, q
<1>. QED BY <1>3, <1>5, <1>6, <1>7

\* Entering a state touches nothing else.
LEMMA EnterFields ==
  ASSUME NEW t \in Tsx, NEW s \in States
  PROVE  /\ Enter(t, s) \in Tsx /\ Enter(t, s).state = s
         /\ Enter(t, s).role = t.role /\ Enter(t, s).invite = t.invite
         /\ Enter(t, s).last = t.last /\ Enter(t, s).reliable = t.reliable
         /\ Enter(t, s).transport = t.transport /\ Enter(t, s).flags = t.flags
         /\ Enter(t, s).due = t.due /\ Enter(t, s).wire = t.wire
         /\ Enter(t, s).status = t.status
  BY DEF Enter, Check, Tsx, Assertions

\* With the lock pjsip_tsx_terminate ends the transaction, with a timer.
LEMMA ForceTerminateEnds ==
  ASSUME NEW t \in Tsx
  PROVE  Keeps(t, ForceTerminate(t)) /\ Over(ForceTerminate(t))
<1>. DEFINE n == Enter(t, "TERMINATED")
            u == [n EXCEPT !.status = 487]
<1>1. /\ n \in Tsx /\ n.state = "TERMINATED" /\ n.role = t.role /\ n.invite = t.invite
      /\ n.transport = t.transport /\ n.flags = t.flags
  BY EnterFields DEF States
<1>. HIDE DEF n
<1>2. /\ u \in Tsx /\ u.state = "TERMINATED" /\ u.role = t.role /\ u.invite = t.invite
      /\ u.transport = t.transport /\ u.flags = t.flags
  BY <1>1 DEF Tsx, Codes
<1>3. ForceTerminate(t) = Reap(u)
  BY DEF ForceTerminate, n
<1>. HIDE DEF u
<1>4. Keeps(u, Reap(u)) /\ Over(Reap(u))
  BY <1>2, ReapTimed DEF Ended
<1>. QED BY <1>2, <1>3, <1>4 DEF Keeps, Known

\* The test before it.
LEMMA TerminateKeeps ==
  ASSUME NEW t \in Tsx
  PROVE  Keeps(t, Terminate(t))
  BY ForceTerminateEnds, KeepsRefl DEF Terminate

\* tsx_set_state to an end.
LEMMA SetStateEnds ==
  ASSUME NEW t \in Tsx, NEW s \in Ended, NEW e \in Env
  PROVE  Keeps(t, SetState(t, s, e)) /\ Over(SetState(t, s, e))
<1>. DEFINE u == Enter(t, s)
            w == [u EXCEPT !.registered = FALSE]
            r == SetState(t, s, e)
<1>1. /\ u \in Tsx /\ u.state = s /\ u.role = t.role /\ u.invite = t.invite
      /\ u.transport = t.transport /\ u.flags = t.flags
  BY EnterFields DEF States, Ended
<1>2. Terminate(u) = u
  BY <1>1 DEF Terminate, Rank, Ended
<1>3. r = IF s = "TERMINATED" THEN Reap(u) ELSE Destroy(w)
  BY <1>2 DEF SetState, Ended
<1>. HIDE DEF u, r
<1>4. CASE s = "TERMINATED"
  <2>1. Keeps(u, Reap(u)) /\ Over(Reap(u))
    BY <1>1, ReapTimed
  <2>2. Keeps(t, r) /\ Over(r)
    BY <1>1, <1>3, <1>4, <2>1 DEF Keeps, Known
  <2>. QED BY <2>2 DEF r
<1>5. CASE s = "DESTROYED"
  <2>1. w \in Tsx /\ w.state = s /\ w.role = t.role /\ w.invite = t.invite
    BY <1>1 DEF Tsx
  <2>. HIDE DEF w
  <2>2. r \in Tsx /\ r.state = s /\ r.role = t.role /\ r.invite = t.invite /\ ~r.transport
    BY <1>3, <1>5, <2>1, DestroyEnds
  <2>3. Over(r) /\ Known(r)
    BY <1>5, <2>2 DEF Over, Known, Timed
  <2>4. Keeps(t, r)
    BY <2>2, <2>3, OverKeeps
  <2>. QED BY <2>3, <2>4 DEF r
<1>. QED BY <1>4, <1>5 DEF Ended

\* tsx_set_state to another state, unless the TU terminates the transaction.
LEMMA SetStateKeeps ==
  ASSUME NEW t \in Tsx, NEW s \in States \ Ended, NEW e \in Env
  PROVE  /\ Keeps(Enter(t, s), SetState(t, s, e))
         /\ SetState(t, s, e) = Enter(t, s) \/ Over(SetState(t, s, e))
<1>. DEFINE u == Enter(t, s)
            r == SetState(t, s, e)
<1>1. u \in Tsx /\ u.state = s
  BY EnterFields
<1>2. r = u \/ r = Terminate(u)
  BY DEF SetState, Ended
<1>3. ~(Rank(s) >= Rank("TERMINATED"))
  BY RankEnded
<1>4. Terminate(u) = ForceTerminate(u)
  BY <1>1, <1>3 DEF Terminate
<1>. HIDE DEF u, r
<1>5. Keeps(u, r) /\ (r = u \/ Over(r))
  BY <1>1, <1>2, <1>4, KeepsRefl, ForceTerminateEnds
<1>. QED BY <1>5 DEF u, r

\* An error ends the transaction.
LEMMA FailTimed ==
  ASSUME NEW t \in Tsx, NEW code \in Local, NEW e \in Env
  PROVE  Keeps(t, Fail(t, code, e)) /\ Over(Fail(t, code, e))
<1>. DEFINE u == [t EXCEPT !.status = code]
<1>1. Alike(t, u)
  <2>. code \in Codes
    BY DEF Codes, Local
  <2>. QED BY StatusAlike
<1>2. Fail(t, code, e) = SetState(u, "TERMINATED", e)
  BY DEF Fail
<1>. HIDE DEF u
<1>3. Keeps(u, Fail(t, code, e)) /\ Over(Fail(t, code, e))
  BY <1>1, <1>2, SetStateEnds DEF Ended, Alike
<1>. QED BY <1>1, <1>3, AlikeKeeps, KeepsTrans

-----------------------------------------------------------------------------
(* Sending *)

\* What a contract says of one property at a time.
LEMMA KeepsEach ==
  ASSUME NEW t, NEW u, Keeps(t, u)
  PROVE  /\ u \in Tsx /\ u.role = t.role /\ u.invite = t.invite
         /\ Known(t) => Known(u)
         /\ Timed(t) => Timed(u)
         /\ Repeated(t) => Repeated(u)
         /\ Found(t) => Found(u)
         /\ Acked(t) => Acked(u)
  BY DEF Keeps, Same, Over, Repeated, Found, Acked

\* A message on the wire.
LEMMA EmitAlike ==
  ASSUME NEW t \in Tsx, NEW m \in Messages, NEW queued \in BOOLEAN
  PROVE  Alike(t, Emit(t, m, queued)) /\ m \in Emit(t, m, queued).wire
  BY DEF Emit, Alike, Tsx

\* tsx_resched_retransmission.
LEMMA ReschedKeeps ==
  ASSUME NEW t \in Tsx
  PROVE  Keeps(t, Resched(t)) /\ Resched(t).due["rt"] # "off"
<1>. DEFINE a == "TRANSPORT" \notin t.flags
            u == Check(t, a, "resched_pending")
            b == t.role = "UAC" => t.status < 200
            v == Check(u, b, "resched_status")
            d == CASE t.role = "UAC" /\ t.status >= 100 -> "T2"
                   [] t.role = "UAS" /\ t.status < 200  -> "1xx"
                   [] OTHER                             -> "backoff"
<1>1. Keeps(t, u) /\ u \in Tsx
  BY CheckAlike, AlikeKeeps DEF Assertions, Alike
<1>2. Keeps(u, v) /\ v \in Tsx
  BY <1>1, CheckAlike, AlikeKeeps DEF Assertions, Alike
<1>3. Resched(t) = Schedule(v, "rt", d)
  BY DEF Resched
<1>4. d \in Delays /\ d # "off"
  BY DEF Delays
<1>. HIDE DEF u, v, d
<1>5. Keeps(v, Resched(t)) /\ Resched(t).due["rt"] # "off"
  BY <1>2, <1>3, <1>4, ScheduleKeeps DEF Timers
<1>. QED BY <1>1, <1>2, <1>5, KeepsTrans

\* The attempt over the transport; once the server is known it ends in success
\* or ends the transaction.
LEMMA SendViaKeeps ==
  ASSUME NEW t \in Tsx, NEW m \in Messages, NEW e \in Env
  PROVE  /\ Keeps(t, SendVia(t, m, e))
         /\ "RESOLVED" \in t.flags => \/ SendVia(t, m, e).state \in Ended
                                      \/ m \in SendVia(t, m, e).wire
<1>. DEFINE a == t.transport => m \notin t.sends
            c == Check(t, a, "tx_pending")
            u == [c EXCEPT !.transport = FALSE]
            w == Check(u, t.transport, "send_status")
            x == Emit(t, m, e.net = "queued")
            r == SendVia(t, m, e)
<1>1. Alike(t, c) /\ c \in Tsx
  BY CheckAlike DEF Assertions, Alike
<1>2. r = x \/ (r = IF "RESOLVED" \in t.flags THEN Fail(w, 503, e) ELSE u)
  BY DEF SendVia
<1>. HIDE DEF c, r
<1>3. Keeps(t, u) /\ u \in Tsx
  BY <1>1, ZenonT(60) DEF Alike, Keeps, Same, Timed, Repeated, Found, Acked, Asked, Known, Tsx
<1>. HIDE DEF u
<1>4. Keeps(u, w) /\ w \in Tsx
  BY <1>3, CheckAlike, AlikeKeeps DEF Assertions, Alike
<1>. HIDE DEF w
<1>5. Alike(t, x) /\ m \in x.wire
  BY EmitAlike
<1>6. Keeps(t, x)
  BY <1>5, AlikeKeeps
<1>. HIDE DEF x
<1>7. Keeps(w, Fail(w, 503, e)) /\ Over(Fail(w, 503, e))
  BY <1>4, FailTimed DEF Local
<1>8. Keeps(t, Fail(w, 503, e))
  BY <1>3, <1>4, <1>7, KeepsTrans
<1>9. Keeps(t, r) /\ ("RESOLVED" \in t.flags => r.state \in Ended \/ m \in r.wire)
  BY <1>2, <1>3, <1>5, <1>6, <1>7, <1>8 DEF Over
<1>. QED BY <1>9 DEF r

\* Taking back the request to start the retransmission timer.
LEMMA ClearResched ==
  ASSUME NEW t \in Tsx
  PROVE  LET c == Clear(t, "RESCHED")
         IN  /\ c \in Tsx /\ c.role = t.role /\ c.invite = t.invite
             /\ c.state = t.state /\ c.last = t.last /\ c.reliable = t.reliable
             /\ c.due = t.due /\ c.transport = t.transport
             /\ Known(t) => Known(c)
             /\ Found(t) => Found(c)
             /\ Acked(t) => Acked(c)
<1>. DEFINE c == Clear(t, "RESCHED")
<1>1. c \in Tsx
  BY ClearStill DEF Still
<1>2. /\ c.role = t.role /\ c.invite = t.invite
      /\ c.state = t.state /\ c.last = t.last /\ c.reliable = t.reliable
      /\ c.due = t.due /\ c.transport = t.transport /\ c.wire = t.wire
      /\ c.flags = t.flags \ {"RESCHED"}
  BY DEF Clear, Tsx
<1>. HIDE DEF c
<1>3. (Known(t) => Known(c)) /\ (Found(t) => Found(c)) /\ (Acked(t) => Acked(c))
  BY <1>2 DEF Known, Found, Acked, Asked
<1>. QED BY <1>1, <1>2, <1>3 DEF c

\* send_msg_callback after a success: what waited for the transport is sent and
\* the timer that waited for it started.
LEMMA SendDoneKeeps ==
  ASSUME NEW t \in Tsx, NEW e \in Env
  PROVE  Keeps(t, SendDone(t, e)) /\ Found(SendDone(t, e))
<1>. DEFINE u == [t EXCEPT !.transport = TRUE,
                           !.reliable = @ \/ e.rel,
                           !.flags = (@ \ {"TRANSPORT"}) \cup {"RESOLVED"}]
            s == Clear(u, "SEND")
            k == Check(s, FALSE, "no_last_tx")
            v == IF "SEND" \notin u.flags THEN u
                 ELSE IF u.last = "none" THEN k ELSE SendVia(s, u.last, e)
            c == Clear(v, "RESCHED")
            r == SendDone(t, e)
<1>1. /\ u \in Tsx /\ u.role = t.role /\ u.invite = t.invite /\ u.state = t.state
      /\ u.last = t.last /\ (t.reliable => u.reliable) /\ u.due = t.due /\ u.wire = t.wire
      /\ u.flags = (t.flags \ {"TRANSPORT"}) \cup {"RESOLVED"}
  BY DEF Tsx, Flags, Env
<1>2. r = IF "DESTROY" \in t.flags THEN SetState(u, "DESTROYED", e)
          ELSE IF "RESCHED" \notin t.flags THEN v
          ELSE IF v.reliable THEN c ELSE Resched(c)
  BY DEF SendDone
<1>. HIDE DEF u, r
<1>3. s \in Tsx /\ s.role = u.role /\ s.invite = u.invite /\ s.state = u.state
      /\ s.last = u.last /\ s.reliable = u.reliable /\ s.due = u.due /\ s.wire = u.wire
      /\ s.flags = u.flags \ {"SEND"}
  <2>1. s \in Tsx
    BY <1>1, ClearStill DEF Still
  <2>. QED BY <1>1, <2>1 DEF Clear, Tsx
<1>. HIDE DEF s
<1>4. Alike(s, k)
  BY <1>3, CheckAlike DEF Assertions
<1>. HIDE DEF k
<1>5. u.last # "none" => Keeps(s, SendVia(s, u.last, e))
                         /\ (SendVia(s, u.last, e).state \in Ended
                             \/ u.last \in SendVia(s, u.last, e).wire)
  <2>1. HAVE u.last # "none"
  <2>2. u.last \in Messages /\ "RESOLVED" \in s.flags
    BY <1>1, <1>3, <2>1 DEF Tsx
  <2>. QED BY <1>3, <2>2, SendViaKeeps
<1>6. Known(s) /\ Found(s)
  BY <1>1, <1>3 DEF Known, Found
<1>7. CASE "DESTROY" \in t.flags
  <2>1. Keeps(u, r) /\ Over(r)
    BY <1>1, <1>2, <1>7, SetStateEnds DEF Ended
  <2>2. Known(u) /\ Found(u)
    BY <1>1 DEF Known, Found
  <2>3. Found(r) /\ Known(r)
    BY <2>1, <2>2, KeepsEach
  <2>4. Keeps(t, r)
    BY <1>1, <2>1, <2>3, OverKeeps DEF Keeps
  <2>. QED BY <2>3, <2>4 DEF r
<1>. DEFINE Halfway == \/ Over(v)
                       \/ /\ v.state = t.state /\ v.last = t.last /\ (t.reliable => v.reliable)
                          /\ Timed(t) => Timed(v)
                          /\ "RESCHED" \notin t.flags /\ Repeated(t) => Repeated(v)
                          /\ Acked(t) => Acked(v)
<1>8. v \in Tsx /\ v.role = t.role /\ v.invite = t.invite /\ Known(v) /\ Found(v) /\ Halfway
  <2>1. CASE v = u /\ "SEND" \notin u.flags
    BY <1>1, <2>1 DEF Known, Found, Timed, Repeated, Acked, Asked
  <2>2. CASE v = k /\ u.last = "none"
    <3>1. Known(v) /\ Found(v)
      BY <1>4, <1>6, <2>2 DEF Alike, Known, Found
    <3>2. Halfway
      BY <1>1, <1>3, <1>4, <2>2 DEF Alike, Timed, Repeated, Acked, Asked
    <3>. QED BY <1>1, <1>3, <1>4, <2>2, <3>1, <3>2 DEF Alike
  <2>3. CASE v = SendVia(s, u.last, e) /\ u.last # "none"
    <3>1. Keeps(s, v) /\ (v.state \in Ended \/ u.last \in v.wire)
      BY <1>5, <2>3
    <3>. HIDE DEF v
    <3>2. Known(v) /\ Found(v) /\ v \in Tsx /\ v.role = t.role /\ v.invite = t.invite
      BY <1>1, <1>3, <1>6, <3>1, KeepsEach
    <3>3. CASE Over(v)
      BY <3>2, <3>3
    <3>4. CASE Same(s, v)
      <4>1. v.state = t.state /\ v.last = t.last /\ (t.reliable => v.reliable)
        BY <1>1, <1>3, <3>4 DEF Same
      <4>2. Timed(t) => Timed(v)
        BY <1>1, <1>3, <3>4 DEF Same, Timed
      <4>3. "RESCHED" \notin t.flags /\ Repeated(t) => Repeated(v)
        <5>1. "RESCHED" \notin t.flags /\ Repeated(t) => Repeated(s)
          BY <1>1, <1>3 DEF Repeated
        <5>. QED BY <3>4, <5>1 DEF Same
      <4>4. Acked(t) => Acked(v)
        <5>1. CASE t.state \in Ended \/ "ack" \in t.wire
          BY <1>1, <1>3, <3>4, <5>1 DEF Same, Acked
        <5>2. CASE t.last = "ack"
          BY <1>1, <3>1, <5>2 DEF Acked
        <5>. QED BY <5>1, <5>2 DEF Acked
      <4>. QED BY <3>2, <4>1, <4>2, <4>3, <4>4
    <3>. QED BY <3>1, <3>3, <3>4 DEF Keeps
  <2>. QED BY <2>1, <2>2, <2>3
<1>. HIDE DEF v
<1>9. CASE r = v /\ "RESCHED" \notin t.flags
  <2>1. Keeps(t, r)
    BY <1>8, <1>9 DEF Keeps, Same
  <2>. QED BY <1>8, <1>9, <2>1 DEF r
<1>10. /\ c \in Tsx /\ c.role = v.role /\ c.invite = v.invite
       /\ c.state = v.state /\ c.last = v.last /\ c.reliable = v.reliable /\ c.due = v.due
       /\ Known(c) /\ Found(c) /\ (Acked(v) => Acked(c))
  BY <1>8, ClearResched
<1>. HIDE DEF c
<1>11. (Timed(v) => Timed(c)) /\ (Over(v) => Over(c))
  BY <1>10 DEF Timed, Over
<1>12. CASE r = c /\ v.reliable
  <2>1. Repeated(c)
    BY <1>10, <1>12 DEF Repeated
  <2>2. Keeps(t, r)
    BY <1>8, <1>10, <1>11, <1>12, <2>1 DEF Keeps, Same
  <2>. QED BY <1>10, <1>12, <2>2 DEF r
<1>13. CASE r = Resched(c)
  <2>1. Keeps(c, r) /\ r.due["rt"] # "off"
    BY <1>10, <1>13, ReschedKeeps
  <2>2. Found(r) /\ Known(r) /\ Repeated(r) /\ r \in Tsx
        /\ r.role = t.role /\ r.invite = t.invite
    BY <1>8, <1>10, <2>1, KeepsEach DEF Repeated
  <2>3. Over(r) \/ (Same(c, r) /\ ~Over(c))
    BY <2>1, <1>10 DEF Keeps, Over, Same
  <2>4. Over(r) \/ Same(t, r)
    BY <1>8, <1>10, <1>11, <2>2, <2>3 DEF Same
  <2>5. Keeps(t, r)
    BY <2>2, <2>4 DEF Keeps
  <2>. QED BY <2>2, <2>5 DEF r
<1>. QED BY <1>2, <1>7, <1>9, <1>12, <1>13

\* send_msg_callback after a failure ends the transaction, if it has not ended.
LEMMA SendFailedKeeps ==
  ASSUME NEW t \in Tsx, NEW e \in Env
  PROVE  Keeps(t, SendFailed(t, e)) /\ Found(SendFailed(t, e))
<1>. DEFINE a == [t EXCEPT !.transport = FALSE]
            b == [a EXCEPT !.status = 503]
            u == [b EXCEPT !.flags = (@ \ {"TRANSPORT"}) \cup {"RESOLVED"}]
            r == SendFailed(t, e)
<1>1. a \in Tsx /\ a.role = t.role /\ a.invite = t.invite /\ a.state = t.state
      /\ a.last = t.last /\ a.reliable = t.reliable /\ a.due = t.due
  BY DEF Tsx
<1>2. r = IF Rank(u.state) < Rank("TERMINATED") THEN SetState(u, "TERMINATED", e)
          ELSE IF "DESTROY" \in u.flags THEN SetState(u, "DESTROYED", e) ELSE u
  BY DEF SendFailed
<1>. HIDE DEF a, r
<1>3. b \in Tsx /\ b.role = t.role /\ b.invite = t.invite /\ b.state = t.state
      /\ b.last = t.last /\ b.reliable = t.reliable /\ b.due = t.due
  BY <1>1 DEF Tsx, Codes
<1>. HIDE DEF b
<1>4. u \in Tsx /\ u.role = t.role /\ u.invite = t.invite /\ u.state = t.state
      /\ u.last = t.last /\ u.reliable = t.reliable /\ u.due = t.due /\ "RESOLVED" \in u.flags
  BY <1>3 DEF Tsx, Flags
<1>. HIDE DEF u
<1>5. Found(u) /\ Known(u)
  BY <1>4 DEF Found, Known
<1>6. CASE r = u /\ ~(Rank(u.state) < Rank("TERMINATED"))
  <2>1. u.state \in Ended
    BY <1>4, <1>6 DEF Tsx, States, Rank, Ended
  <2>2. Same(t, u)
    BY <1>4, <1>5, <2>1 DEF Same, Timed, Repeated, Acked
  <2>3. Keeps(t, r)
    BY <1>4, <1>5, <1>6, <2>2 DEF Keeps
  <2>. QED BY <1>5, <1>6, <2>3 DEF r
<1>7. CASE r \in {SetState(u, "TERMINATED", e), SetState(u, "DESTROYED", e)}
  <2>1. Keeps(u, r) /\ Over(r)
    BY <1>4, <1>7, SetStateEnds DEF Ended
  <2>2. Found(r) /\ Known(r)
    BY <1>5, <2>1, KeepsEach
  <2>3. Keeps(t, r)
    BY <1>4, <2>1, <2>2, OverKeeps DEF Keeps
  <2>. QED BY <2>2, <2>3 DEF r
<1>. QED BY <1>2, <1>6, <1>7

\* send_msg_callback with another server to try: the timeout starts again.
LEMMA SendRetriedKeeps ==
  ASSUME NEW t \in Tsx, NEW m \in Messages
  PROVE  Keeps(t, SendRetried(t, m))
<1>. DEFINE u == [t EXCEPT !.transport = FALSE, !.pending = m]
            r == SendRetried(t, m)
<1>1. u \in Tsx /\ u.role = t.role /\ u.invite = t.invite /\ u.state = t.state
      /\ u.last = t.last /\ u.reliable = t.reliable /\ u.due = t.due
      /\ u.flags = t.flags /\ u.wire = t.wire /\ ~u.transport
  BY DEF Tsx
<1>2. r = u \/ r = Schedule(Cancel(u, "to"), "to", "64T1")
  BY DEF SendRetried
<1>. HIDE DEF u, r
<1>3. Keeps(t, u)
  BY <1>1 DEF Keeps, Same, Timed, Repeated, Found, Acked, Asked, Known
<1>4. Keeps(u, Schedule(Cancel(u, "to"), "to", "64T1"))
  BY <1>1, CancelStops, AgainKeeps DEF Timers, Delays
<1>5. Keeps(t, r)
  BY <1>2, <1>3, <1>4, KeepsTrans
<1>. QED BY <1>5 DEF r

\* tsx_send_msg with no stateless send in progress.
LEMMA SendNowKeeps ==
  ASSUME NEW t \in Tsx, NEW m \in Messages, NEW e \in Env
  PROVE  /\ Keeps(t, SendNow(t, m, e))
         /\ t.role = "UAC" /\ Known(t) => Found(SendNow(t, m, e))
         /\ "RESOLVED" \in t.flags => \/ SendNow(t, m, e).state \in Ended
                                      \/ m \in SendNow(t, m, e).wire
<1>. DEFINE u == SendVia(t, m, e)
            v == [u EXCEPT !.flags = @ \cup {"TRANSPORT"}]
            p == [v EXCEPT !.pending = m]
            n == Emit(v, m, FALSE)
            r == SendNow(t, m, e)
<1>1. Keeps(t, u) /\ ("RESOLVED" \in t.flags => u.state \in Ended \/ m \in u.wire)
  BY SendViaKeeps
<1>2. IF Resolves(t, m, e) THEN r \in {p, SendFailed(v, e), SendDone(n, e)} ELSE r = u
  BY DEF SendNow
<1>3. ~Resolves(t, m, e) => "RESOLVED" \in t.flags \/ t.transport
  BY DEF Resolves, Accepted
<1>4. Resolves(t, m, e) => "RESOLVED" \notin t.flags
  BY DEF Resolves
<1>. HIDE DEF u, r
<1>5. u \in Tsx
  BY <1>1 DEF Keeps
<1>6. v \in Tsx /\ v.role = u.role /\ v.invite = u.invite /\ v.state = u.state
      /\ v.last = u.last /\ v.reliable = u.reliable /\ v.due = u.due
      /\ v.flags = u.flags \cup {"TRANSPORT"} /\ v.wire = u.wire /\ v.transport = u.transport
  BY <1>5 DEF Tsx, Flags
<1>. HIDE DEF v
<1>7. Keeps(u, v) /\ Found(v)
  BY <1>6 DEF Keeps, Same, Timed, Repeated, Found, Acked, Asked, Known
<1>8. Alike(v, p)
  BY <1>6 DEF Alike, Tsx
<1>9. Alike(v, n)
  BY <1>6, EmitAlike
<1>. HIDE DEF p, n
<1>10. Keeps(v, p) /\ Keeps(v, n) /\ n \in Tsx
  BY <1>8, <1>9, AlikeKeeps DEF Alike
<1>11. Found(p)
  BY <1>7, <1>10, KeepsEach
<1>12. /\ Keeps(n, SendDone(n, e)) /\ Found(SendDone(n, e))
       /\ Keeps(v, SendFailed(v, e)) /\ Found(SendFailed(v, e))
  BY <1>6, <1>10, SendDoneKeeps, SendFailedKeeps
<1>13. Keeps(t, v)
  BY <1>1, <1>7, KeepsTrans
<1>14. Keeps(t, p) /\ Keeps(t, SendFailed(v, e)) /\ Keeps(t, n)
  BY <1>10, <1>12, <1>13, KeepsTrans
<1>15. Keeps(t, SendDone(n, e))
  BY <1>12, <1>14, KeepsTrans
<1>16. CASE Resolves(t, m, e)
  <2>1. Keeps(t, r) /\ Found(r)
    BY <1>2, <1>11, <1>12, <1>14, <1>15, <1>16
  <2>. QED BY <1>4, <1>16, <2>1 DEF r
<1>17. CASE ~Resolves(t, m, e)
  <2>1. r = u
    BY <1>2, <1>17
  <2>2. t.role = "UAC" /\ Known(t) => Found(u)
    <3>1. t.role = "UAC" /\ Known(t) => Found(t)
      BY <1>3, <1>17 DEF Known, Found
    <3>. QED BY <1>1, <3>1, KeepsEach
  <2>. QED BY <1>1, <2>1, <2>2 DEF r
<1>. QED BY <1>16, <1>17

\* What is left to send_msg_callback.
LEMMA PostponeKeeps ==
  ASSUME NEW t \in Tsx
  PROVE  Keeps(t, Postpone(t)) /\ Postpone(t).flags = t.flags \cup {"SEND"}
<1>. DEFINE u == Postpone(t)
<1>1. u \in Tsx /\ u.role = t.role /\ u.invite = t.invite /\ u.state = t.state
      /\ u.last = t.last /\ u.reliable = t.reliable /\ u.due = t.due
      /\ u.flags = t.flags \cup {"SEND"} /\ u.wire = t.wire /\ u.transport = t.transport
  BY DEF Postpone, Tsx, Flags
<1>. HIDE DEF u
<1>2. Keeps(t, u)
  BY <1>1 DEF Keeps, Same, Timed, Repeated, Found, Acked, Asked, Known
<1>. QED BY <1>1, <1>2 DEF u

\* tsx_send_msg: a message to a server that is known or looked for is sent, or
\* will be, or the transaction has ended.
LEMMA SendMsgKeeps ==
  ASSUME NEW t \in Tsx, NEW m \in Messages, NEW e \in Env
  PROVE  /\ Keeps(t, SendMsg(t, m, e))
         /\ t.role = "UAC" /\ Known(t) => Found(SendMsg(t, m, e))
         /\ Found(t) => \/ SendMsg(t, m, e).state \in Ended
                        \/ m \in SendMsg(t, m, e).wire
                        \/ Asked(SendMsg(t, m, e))
<1>. DEFINE r == SendMsg(t, m, e)
<1>1. CASE "TRANSPORT" \in t.flags
  <2>1. r = Postpone(t)
    BY <1>1 DEF SendMsg
  <2>. HIDE DEF r
  <2>2. Keeps(t, r) /\ r.flags = t.flags \cup {"SEND"}
    BY <2>1, PostponeKeeps
  <2>3. Found(r) /\ Asked(r)
    BY <1>1, <2>2 DEF Found, Asked
  <2>. QED BY <2>2, <2>3 DEF r
<1>2. CASE "TRANSPORT" \notin t.flags
  <2>1. r = SendNow(t, m, e)
    BY <1>2 DEF SendMsg
  <2>. HIDE DEF r
  <2>2. Keeps(t, r)
    BY <2>1, SendNowKeeps
  <2>3. t.role = "UAC" /\ Known(t) => Found(r)
    BY <2>1, SendNowKeeps
  <2>4. "RESOLVED" \in t.flags => r.state \in Ended \/ m \in r.wire
    BY <2>1, SendNowKeeps
  <2>5. t.state \in Ended => r.state \in Ended
    BY <2>2 DEF Keeps, Same, Over
  <2>6. Found(t) => r.state \in Ended \/ m \in r.wire
    BY <1>2, <2>4, <2>5 DEF Found
  <2>. QED BY <2>2, <2>3, <2>6 DEF r
<1>. QED BY <1>1, <1>2

\* tsx_retransmit: what is repeated for the timer is repeated again.
LEMMA RetransmitKeeps ==
  ASSUME NEW t \in Tsx, NEW resched, NEW e \in Env
  PROVE  /\ Keeps(t, Retransmit(t, resched, e))
         /\ resched /\ t.last # "none" => Repeated(Retransmit(t, resched, e))
<1>1. CASE t.last = "none"
  <2>. DEFINE u == [t EXCEPT !.failed = @ \cup {"no_last_tx"}]
  <2>1. Alike(t, u)
    BY DEF Alike, Tsx, Assertions
  <2>2. Retransmit(t, resched, e) = u
    BY <1>1 DEF Retransmit
  <2>. HIDE DEF u
  <2>. QED BY <1>1, <2>1, <2>2, AlikeKeeps
<1>2. CASE t.last # "none"
  <2>. DEFINE p == [t EXCEPT !.flags = @ \cup {"RESCHED"}]
              u == IF ~resched THEN t
                   ELSE IF "TRANSPORT" \in t.flags THEN p ELSE Resched(t)
              r == Retransmit(t, resched, e)
  <2>1. p \in Tsx /\ p.role = t.role /\ p.invite = t.invite /\ p.state = t.state
        /\ p.last = t.last /\ p.reliable = t.reliable /\ p.due = t.due
        /\ p.flags = t.flags \cup {"RESCHED"} /\ p.wire = t.wire /\ p.transport = t.transport
    BY DEF Tsx, Flags
  <2>. HIDE DEF p
  <2>2. Keeps(t, p) /\ ("TRANSPORT" \in t.flags => Repeated(p))
    BY <2>1 DEF Keeps, Same, Timed, Repeated, Found, Acked, Asked, Known
  <2>3. Keeps(t, Resched(t)) /\ Repeated(Resched(t))
    BY ReschedKeeps DEF Repeated
  <2>4. Keeps(t, u) /\ (resched => Repeated(u))
    BY <2>2, <2>3, KeepsRefl
  <2>5. r = SendMsg(u, t.last, e) /\ t.last \in Messages
    BY <1>2 DEF Retransmit, Tsx, p
  <2>. HIDE DEF u, r
  <2>6. Keeps(u, r)
    BY <2>4, <2>5, SendMsgKeeps DEF Keeps
  <2>7. Keeps(t, r) /\ (resched => Repeated(r))
    BY <2>4, <2>6, KeepsTrans, KeepsEach
  <2>. QED BY <2>7 DEF r
<1>. QED BY <1>1, <1>2

-----------------------------------------------------------------------------
(* The contract of the handlers *)

\* What u needs it has, or t did not have it either.
After(t, u) ==
    /\ u \in Tsx
    /\ u.role = t.role /\ u.invite = t.invite
    /\ TimersKept(u)
    /\ NeedsTo(u) => Timed(u) \/ (NeedsTo(t) /\ ~Timed(t))
    /\ NeedsRt(u) => Repeated(u) \/ (NeedsRt(t) /\ ~Repeated(t))
    /\ Owing(u) => Owing(t)

\* It has what timer x would have seen to.
Steady(u, x) == IF x = "to" THEN NeedsTo(u) => Timed(u) ELSE NeedsRt(u) => Repeated(u)

\* A rejection of which the second half is to come.
Rejecting(u) == /\ u \in Tsx
                /\ u.role = "UAC" /\ u.state = "COMPLETED"
                /\ TimersKept(u)
                /\ u.invite => "ack" \in u.wire \/ Asked(u)

\* A helper that ends a handler.
LEMMA AfterKeeps ==
  ASSUME NEW t, NEW u, NEW v, After(t, u), Keeps(u, v)
  PROVE  After(t, v)
<1>1. /\ v \in Tsx /\ v.role = u.role /\ v.invite = u.invite
      /\ Known(v) /\ (Found(u) => Found(v))
  BY KeepsEach DEF After, TimersKept
<1>2. CASE Over(v)
  BY <1>1, <1>2 DEF After, TimersKept, Over, Lasting, NeedsRt, Owing, Ended, Found
<1>3. CASE Same(u, v)
  <2>1. TimersKept(v)
    BY <1>1, <1>3 DEF After, TimersKept, Same, Lasting
  <2>2. NeedsTo(v) => NeedsTo(u) /\ (Timed(u) => Timed(v))
    BY <1>1, <1>3 DEF Same, NeedsTo
  <2>3. NeedsRt(v) => NeedsRt(u) /\ (Repeated(u) => Repeated(v))
    BY <1>1, <1>3 DEF Same, NeedsRt
  <2>4. Owing(v) => Owing(u)
    BY <1>1, <1>3 DEF Same, Owing
  <2>. QED BY <1>1, <2>1, <2>2, <2>3, <2>4 DEF After
<1>. QED BY <1>2, <1>3 DEF Keeps

\* A handler that only uses helpers.
LEMMA KeepsAfter ==
  ASSUME NEW t \in Tsx, TimersKept(t), NEW u, Keeps(t, u)
  PROVE  After(t, u)
<1>1. After(t, t)
  BY DEF After
<1>. QED BY <1>1, AfterKeeps

\* A handler that ends the transaction.
LEMMA OverAfter ==
  ASSUME NEW t, NEW u \in Tsx, u.role = t.role, u.invite = t.invite, Known(u), Over(u)
  PROVE  After(t, u) /\ Steady(u, "to") /\ Steady(u, "rt")
  BY DEF After, TimersKept, Over, Lasting, NeedsRt, Owing, Ended, Found, Steady

\* A handler that ends the transaction by helpers.
LEMMA OverKeepsAfter ==
  ASSUME NEW t, Known(t), NEW u, Keeps(t, u), Over(u)
  PROVE  After(t, u) /\ Steady(u, "to") /\ Steady(u, "rt")
  BY OverAfter, KeepsEach

\* A handler that ends with tsx_set_state.
LEMMA SetStateAfter ==
  ASSUME NEW t, NEW u \in Tsx, NEW s \in States \ Ended, NEW e \in Env,
         After(t, Enter(u, s))
  PROVE  After(t, SetState(u, s, e))
  BY SetStateKeeps, AfterKeeps

\* After tsx_set_state the needs are those of the state that was entered.
LEMMA SetStateSteady ==
  ASSUME NEW u \in Tsx, NEW s \in States \ Ended, NEW e \in Env, NEW x,
         Steady(Enter(u, s), x)
  PROVE  Steady(SetState(u, s, e), x)
<1>. DEFINE n == Enter(u, s)
            r == SetState(u, s, e)
<1>1. r = n \/ Over(r)
  BY SetStateKeeps
<1>2. Steady(n, x)
  OBVIOUS
<1>. HIDE DEF n, r
<1>3. Steady(r, x)
  BY <1>1, <1>2 DEF Steady, Over, NeedsRt, Ended
<1>. QED BY <1>3 DEF r

-----------------------------------------------------------------------------
(* The handlers of a client *)

\* The request.
LEMMA UacSendAfter ==
  ASSUME NEW t \in Tsx, TimersKept(t), t.role = "UAC", t.state = "NULL", NEW e \in Env
  PROVE  After(t, UacSend(t, e))
<1>. DEFINE u == SendMsg(t, "req", e)
            v == Schedule(u, "to", "64T1")
            a == ArmRetransmit(v, "T1")
            w == IF v.reliable THEN v ELSE a
            r == UacSend(t, e)
<1>1. Keeps(t, u)
  BY SendMsgKeeps DEF Messages, Requests
<1>2. Found(u)
  BY SendMsgKeeps DEF Messages, Requests, TimersKept
<1>3. r = IF SendErr(u) THEN u ELSE SetState(w, "CALLING", e)
  BY DEF UacSend
<1>. HIDE DEF u, r
<1>4. u \in Tsx /\ u.role = "UAC" /\ Known(u)
  BY <1>1, KeepsEach DEF TimersKept
<1>5. CASE Over(u)
  <2>1. r = u
    BY <1>3, <1>4, <1>5, SendErrEnded DEF Over
  <2>2. After(t, r)
    BY <1>1, <1>5, <2>1, OverKeepsAfter DEF TimersKept
  <2>. QED BY <2>2 DEF r
<1>6. CASE ~Over(u)
  <2>1. u.state = "NULL" /\ u.last # "none" /\ u.invite = t.invite
    BY <1>1, <1>6 DEF Keeps, Same, TimersKept, Lasting, Ended
  <2>2. r = SetState(w, "CALLING", e)
    BY <1>3, <1>4, <2>1, SendErrEnded DEF Ended
  <2>3. Keeps(u, v) /\ v.due["to"] # "off"
    BY <1>4, ScheduleKeeps DEF Timers, Delays
  <2>. HIDE DEF v
  <2>4. /\ v \in Tsx /\ v.role = "UAC" /\ v.invite = t.invite /\ Known(v) /\ Found(v)
        /\ v.state = "NULL" /\ v.last # "none"
    <3>1. v.state = u.state /\ v.last = u.last
      BY <1>4, ScheduleFields DEF v, Timers, Delays
    <3>2. v \in Tsx /\ v.role = u.role /\ v.invite = u.invite /\ Known(v) /\ Found(v)
      BY <1>2, <1>4, <2>3, KeepsEach
    <3>. QED BY <1>4, <2>1, <3>1, <3>2
  <2>5. /\ a \in Tsx /\ a.role = "UAC" /\ a.invite = t.invite /\ Known(a) /\ Found(a)
        /\ a.state = "NULL" /\ a.last # "none" /\ Timed(a) /\ Repeated(a)
    <3>1. Keeps(v, a) /\ Repeated(a)
      BY <2>4, ArmRetransmitKeeps DEF Delays
    <3>2. a.state = "NULL"
      BY <2>4, ArmRetransmitStill DEF Still, Delays
    <3>. HIDE DEF a
    <3>3. a.last = v.last /\ (Timed(v) => Timed(a))
      BY <3>1, <3>2 DEF Keeps, Over, Same, Ended
    <3>. QED BY <2>3, <2>4, <3>1, <3>2, <3>3, KeepsEach DEF Timed
  <2>. HIDE DEF a
  <2>6. /\ w \in Tsx /\ w.role = "UAC" /\ w.invite = t.invite /\ Known(w) /\ Found(w)
        /\ w.state = "NULL" /\ w.last # "none" /\ Timed(w) /\ Repeated(w)
    BY <2>3, <2>4, <2>5 DEF Timed, Repeated
  <2>. HIDE DEF w
  <2>. DEFINE n == Enter(w, "CALLING")
  <2>7. /\ n \in Tsx /\ n.state = "CALLING" /\ n.role = "UAC" /\ n.invite = t.invite
        /\ n.last = w.last /\ n.reliable = w.reliable /\ n.transport = w.transport
        /\ n.flags = w.flags /\ n.due = w.due
    BY <2>6, EnterFields DEF States
  <2>. HIDE DEF n
  <2>8. Known(n) /\ Lasting(n) /\ ~Owing(n)
    BY <2>6, <2>7 DEF Known, Lasting, Owing
  <2>9. Timed(n) /\ Repeated(n)
    BY <2>6, <2>7 DEF Timed, Repeated, Ended
  <2>10. Found(n)
    BY <2>6, <2>7 DEF Found, Ended
  <2>11. After(t, n)
    BY <2>7, <2>8, <2>9, <2>10 DEF After, TimersKept
  <2>12. After(t, r)
    BY <2>2, <2>6, <2>11, SetStateAfter DEF States, Ended, n
  <2>. QED BY <2>12 DEF r
<1>. QED BY <1>5, <1>6

\* Calling stops the timers that a response makes obsolete.
LEMMA CallingPreludeStops ==
  ASSUME NEW t \in Tsx, NEW m
  PROVE  LET p == CallingPrelude(t, m)
         IN  /\ p \in Tsx /\ p.role = t.role /\ p.invite = t.invite
             /\ p.state = t.state /\ p.last = t.last /\ p.reliable = t.reliable
             /\ p.transport = t.transport
             /\ Known(t) => Known(p)
             /\ Found(t) => Found(p)
             /\ Code(m) < 200 /\ ~t.invite =>
                   /\ p.due["to"] = t.due["to"]
                   /\ p.reliable \/ p.due["rt"] # "off"
<1>. DEFINE u == Cancel(t, "rt")
            s == Schedule(u, "rt", "T2")
            v == IF Code(m) >= 200 THEN Cancel(u, "to")
                 ELSE IF t.invite THEN Unschedule(u, "to")
                 ELSE IF u.reliable THEN u ELSE s
            p == CallingPrelude(t, m)
<1>1. Stops(t, u, "rt")
  BY CancelStops DEF Timers
<1>2. p = Clear(v, "RESCHED")
  BY DEF CallingPrelude
<1>. HIDE DEF u, p
<1>3. Stops(u, Cancel(u, "to"), "to") /\ Stops(u, Unschedule(u, "to"), "to")
  BY <1>1, CancelStops DEF Timers, Stops
<1>4. /\ s \in Tsx /\ s.role = u.role /\ s.invite = u.invite /\ s.state = u.state
      /\ s.last = u.last /\ s.reliable = u.reliable /\ s.transport = u.transport
      /\ s.flags = u.flags /\ s.wire = u.wire /\ s.due["to"] = u.due["to"]
      /\ s.due["rt"] # "off"
  <2>1. u \in Tsx
    BY <1>1 DEF Stops
  <2>2. s \in Tsx /\ s.due["rt"] # "off"
    BY <2>1, ScheduleKeeps DEF Timers, Delays, Keeps
  <2>. QED BY <2>1, <2>2 DEF Schedule, Tsx
<1>. HIDE DEF s
<1>5. /\ v \in Tsx /\ v.role = t.role /\ v.invite = t.invite /\ v.state = t.state
      /\ v.last = t.last /\ v.reliable = t.reliable /\ v.transport = t.transport
      /\ v.flags = t.flags
      /\ Code(m) < 200 /\ ~t.invite =>
            v.due["to"] = t.due["to"] /\ (v.reliable \/ v.due["rt"] # "off")
  <2>1. CASE Code(m) >= 200
    <3>1. v = Cancel(u, "to") /\ ~(Code(m) < 200)
      BY <2>1, CodeTyped DEF Codes
    <3>. QED BY <1>1, <1>3, <3>1 DEF Stops
  <2>2. CASE ~(Code(m) >= 200) /\ t.invite
    <3>1. v = Unschedule(u, "to")
      BY <2>2
    <3>. QED BY <1>1, <1>3, <2>2, <3>1 DEF Stops
  <2>3. CASE ~(Code(m) >= 200) /\ ~t.invite
    <3>1. v = IF u.reliable THEN u ELSE s
      BY <2>3
    <3>. QED BY <1>1, <1>4, <3>1 DEF Stops, Timers
  <2>. QED BY <2>1, <2>2, <2>3
<1>. HIDE DEF v
<1>6. Known(t) => Known(v)
  BY <1>5 DEF Known
<1>7. Found(t) => Found(v)
  BY <1>5 DEF Found
<1>8. /\ p \in Tsx /\ p.role = v.role /\ p.invite = v.invite
      /\ p.state = v.state /\ p.last = v.last /\ p.reliable = v.reliable
      /\ p.due = v.due /\ p.transport = v.transport
      /\ Known(v) => Known(p)
      /\ Found(v) => Found(p)
  BY <1>2, <1>5, ClearResched
<1>. QED BY <1>5, <1>6, <1>7, <1>8 DEF p

\* A rejection up to the TU's callback: the timers have stopped, and the ACK
\* is out or asked for.
LEMMA UacRejectedAfter ==
  ASSUME NEW t \in Tsx, t.role = "UAC", Known(t), Found(t), t.last # "none",
         NEW m, NEW e \in Env
  PROVE  LET u == UacRejected(t, m, e)
         IN  /\ u \in Tsx /\ u.role = t.role /\ u.invite = t.invite
             /\ Known(u) /\ Found(u)
             /\ \/ Over(u)
                \/ /\ u.state = t.state /\ u.last = t.last
                   /\ u.invite => u.state \in Ended \/ "ack" \in u.wire \/ Asked(u)
<1>. DEFINE s == [t EXCEPT !.status = Code(m)]
            c == Cancel(s, "rt")
            a == [c EXCEPT !.armed = @ \ {"to"}]
            v == Unschedule(a, "to")
            u == UacRejected(t, m, e)
<1>1. Alike(t, s)
  <2>. Code(m) \in Codes
    BY CodeTyped DEF Codes
  <2>. QED BY StatusAlike
<1>2. u = IF t.invite THEN SendMsg(v, "ack", e) ELSE v
  BY DEF UacRejected
<1>. HIDE DEF s, u
<1>3. Stops(s, c, "rt")
  BY <1>1, CancelStops DEF Alike, Timers
<1>. HIDE DEF c
<1>4. Alike(c, a)
  BY <1>3 DEF Stops, Alike, Tsx
<1>. HIDE DEF a
<1>5. Stops(a, v, "to")
  BY <1>4, CancelStops DEF Alike, Timers
<1>. HIDE DEF v
<1>6. /\ v \in Tsx /\ v.role = t.role /\ v.invite = t.invite
      /\ v.state = t.state /\ v.last = t.last
      /\ v.transport = t.transport /\ v.flags = t.flags
  BY <1>1, <1>3, <1>4, <1>5 DEF Alike, Stops
<1>7. Known(v) /\ Found(v)
  BY <1>6 DEF Known, Found
<1>8. CASE ~t.invite
  BY <1>2, <1>6, <1>7, <1>8 DEF u
<1>9. CASE t.invite
  <2>1. u = SendMsg(v, "ack", e) /\ "ack" \in Messages
    BY <1>2, <1>9 DEF Messages, Requests
  <2>2. Keeps(v, u)
    BY <1>6, <2>1, SendMsgKeeps
  <2>3. u.state \in Ended \/ "ack" \in u.wire \/ Asked(u)
    BY <1>6, <1>7, <2>1, SendMsgKeeps
  <2>4. u \in Tsx /\ u.role = t.role /\ u.invite = t.invite /\ Known(u) /\ Found(u)
    BY <1>6, <1>7, <2>2, KeepsEach
  <2>5. Over(u) \/ (u.state = t.state /\ u.last = t.last)
    BY <1>6, <2>2 DEF Keeps, Same
  <2>. QED BY <2>3, <2>4, <2>5 DEF u
<1>. QED BY <1>8, <1>9

\* A rejection with the callback: it has ended the transaction, or the second
\* half is to come.
LEMMA UacRejectionAfter ==
  ASSUME NEW t \in Tsx, t.role = "UAC", Known(t), Found(t), t.last # "none",
         t.state \notin Ended, NEW m, NEW e \in Env
  PROVE  LET r == UacRejection(t, m, e)
         IN  \/ r \in Tsx /\ r.role = t.role /\ r.invite = t.invite /\ Known(r) /\ Over(r)
             \/ /\ ~SendErr(UacRejected(t, m, e))
                /\ Rejecting(r) /\ r.invite = t.invite
<1>. DEFINE u == UacRejected(t, m, e)
            n == Enter(u, "COMPLETED")
            r == UacRejection(t, m, e)
<1>1. /\ u \in Tsx /\ u.role = t.role /\ u.invite = t.invite
      /\ Known(u) /\ Found(u)
      /\ \/ Over(u)
         \/ /\ u.state = t.state /\ u.last = t.last
            /\ u.invite => u.state \in Ended \/ "ack" \in u.wire \/ Asked(u)
  BY UacRejectedAfter
<1>2. r = IF SendErr(u) THEN u ELSE SetState(u, "COMPLETED", e)
  BY DEF UacRejection
<1>. HIDE DEF u, r
<1>3. SendErr(u) <=> u.state \in Ended
  BY <1>1, SendErrEnded
<1>4. CASE Over(u)
  BY <1>1, <1>2, <1>3, <1>4 DEF Over, r
<1>5. CASE ~Over(u)
  <2>1. u.state = t.state /\ u.last # "none" /\ ~SendErr(u)
        /\ (u.invite => "ack" \in u.wire \/ Asked(u))
    BY <1>1, <1>3, <1>5
  <2>2. r = SetState(u, "COMPLETED", e)
    BY <1>2, <2>1
  <2>3. /\ n \in Tsx /\ n.state = "COMPLETED" /\ n.role = u.role /\ n.invite = u.invite
        /\ n.last = u.last /\ n.transport = u.transport /\ n.flags = u.flags
        /\ n.wire = u.wire
    BY <1>1, EnterFields DEF States
  <2>4. Keeps(n, r) /\ (r = n \/ Over(r))
    BY <1>1, <2>2, SetStateKeeps DEF States, Ended
  <2>. HIDE DEF n
  <2>5. Known(n) /\ Found(n)
    BY <1>1, <2>1, <2>3 DEF Known, Found
  <2>6. CASE Over(r)
    <3>1. r \in Tsx /\ r.role = t.role /\ r.invite = t.invite /\ Known(r)
      BY <1>1, <2>3, <2>4, <2>5, KeepsEach
    <3>. QED BY <2>6, <3>1 DEF r
  <2>7. CASE r = n
    <3>1. Rejecting(r) /\ r.invite = t.invite
      BY <1>1, <2>1, <2>3, <2>5, <2>7 DEF Rejecting, TimersKept, Lasting, Asked
    <3>. QED BY <2>1, <3>1 DEF r, u
  <2>. QED BY <2>4, <2>6, <2>7
<1>. QED BY <1>4, <1>5

\* A provisional response: what runs goes on running.
LEMMA UacProvisionalAfter ==
  ASSUME NEW t \in Tsx, TimersKept(t), t.role = "UAC", t.state \in {"CALLING", "PROCEEDING"},
         NEW u \in Tsx, u.role = t.role, u.invite = t.invite, u.last = t.last,
         Known(u), Found(u), u.state \notin Ended,
         ~t.invite => u.due["to"] = t.due["to"],
         ~t.invite => Repeated(u) \/ (~t.reliable /\ ~Repeated(t)),
         NEW m, NEW e \in Env
  PROVE  After(t, UacProvisional(u, m, e))
<1>. DEFINE s == [u EXCEPT !.status = Code(m)]
            n == Enter(s, "PROCEEDING")
<1>1. Alike(u, s)
  <2>. Code(m) \in Codes
    BY CodeTyped DEF Codes
  <2>. QED BY StatusAlike
<1>. HIDE DEF s
<1>2. s \in Tsx
  BY <1>1 DEF Alike
<1>3. /\ n \in Tsx /\ n.state = "PROCEEDING" /\ n.role = u.role /\ n.invite = u.invite
      /\ n.last = u.last /\ n.transport = u.transport /\ n.flags = u.flags
      /\ n.due = u.due /\ n.reliable = u.reliable
  <2>1. /\ n \in Tsx /\ n.state = "PROCEEDING" /\ n.role = s.role /\ n.invite = s.invite
        /\ n.last = s.last /\ n.transport = s.transport /\ n.flags = s.flags
        /\ n.due = s.due /\ n.reliable = s.reliable
    BY <1>2, EnterFields DEF States
  <2>. QED BY <1>1, <2>1 DEF Alike
<1>. HIDE DEF n
<1>4. Known(n) /\ Found(n) /\ Lasting(n) /\ ~Owing(n)
  BY <1>3 DEF Known, Found, Lasting, Owing, TimersKept, Ended
<1>5. NeedsTo(n) => NeedsTo(t) /\ (Timed(t) => Timed(n))
  BY <1>3 DEF NeedsTo, Timed
<1>6. NeedsRt(n) => Repeated(n) \/ (NeedsRt(t) /\ ~Repeated(t))
  BY <1>3 DEF NeedsRt, Repeated, Ended
<1>7. After(t, n)
  BY <1>3, <1>4, <1>5, <1>6 DEF After, TimersKept
<1>8. UacProvisional(u, m, e) = SetState(s, "PROCEEDING", e)
  BY DEF UacProvisional, s
<1>. QED BY <1>2, <1>7, <1>8, SetStateAfter DEF n, States, Ended

\* A success: timer K runs, or the transaction has ended.
LEMMA UacSuccessAfter ==
  ASSUME NEW t \in Tsx, t.role = "UAC", Known(t), Found(t), t.last # "none",
         t.state \notin Ended, NEW m, NEW e \in Env, NEW o,
         o.role = t.role, o.invite = t.invite
  PROVE  After(o, UacSuccess(t, m, e))
<1>. DEFINE s == [t EXCEPT !.status = Code(m)]
            u == Unschedule(s, "to")
            d == IF u.reliable THEN "zero" ELSE "T4"
            k == Schedule(u, "to", d)
            v == Cancel(k, "rt")
            n == Enter(v, "COMPLETED")
            r == UacSuccess(t, m, e)
<1>1. Alike(t, s)
  <2>. Code(m) \in Codes
    BY CodeTyped DEF Codes
  <2>. QED BY StatusAlike
<1>2. r = IF t.invite THEN SetState(u, "TERMINATED", e) ELSE SetState(v, "COMPLETED", e)
  BY DEF UacSuccess
<1>. HIDE DEF s, r
<1>3. Stops(s, u, "to")
  BY <1>1, CancelStops DEF Alike, Timers
<1>. HIDE DEF u
<1>4. u \in Tsx /\ u.role = t.role /\ u.invite = t.invite /\ u.last = t.last
      /\ u.transport = t.transport /\ u.flags = t.flags /\ u.state = t.state
  BY <1>1, <1>3 DEF Alike, Stops
<1>5. CASE t.invite
  <2>1. Known(u)
    BY <1>4 DEF Known
  <2>2. Keeps(u, r) /\ Over(r)
    BY <1>2, <1>4, <1>5, SetStateEnds DEF Ended
  <2>3. r \in Tsx /\ r.role = o.role /\ r.invite = o.invite /\ Known(r)
    BY <1>4, <2>1, <2>2, KeepsEach
  <2>4. After(o, r)
    BY <2>2, <2>3, OverAfter
  <2>. QED BY <2>4 DEF r
<1>6. CASE ~t.invite
  <2>1. d \in Delays /\ d # "off"
    BY DEF Delays
  <2>. HIDE DEF d
  <2>2. /\ k \in Tsx /\ k.role = u.role /\ k.invite = u.invite /\ k.state = u.state
        /\ k.last = u.last /\ k.transport = u.transport /\ k.flags = u.flags
        /\ k.due["to"] # "off"
    BY <1>4, <2>1, ScheduleFields DEF Timers
  <2>. HIDE DEF k
  <2>3. Stops(k, v, "rt")
    BY <2>2, CancelStops DEF Timers
  <2>. HIDE DEF v
  <2>4. /\ v \in Tsx /\ v.role = t.role /\ v.invite = t.invite /\ v.last = t.last
        /\ v.transport = t.transport /\ v.flags = t.flags /\ v.due["to"] # "off"
    BY <1>4, <2>2, <2>3 DEF Stops, Timers
  <2>5. /\ n \in Tsx /\ n.state = "COMPLETED" /\ n.role = v.role /\ n.invite = v.invite
        /\ n.last = v.last /\ n.transport = v.transport /\ n.flags = v.flags
        /\ n.due = v.due
    BY <2>4, EnterFields DEF States
  <2>. HIDE DEF n
  <2>6. Known(n) /\ Found(n) /\ Lasting(n) /\ Timed(n) /\ ~NeedsRt(n) /\ ~Owing(n)
    BY <1>6, <2>4, <2>5 DEF Known, Found, Lasting, Timed, NeedsRt, Owing
  <2>7. After(o, n)
    BY <2>4, <2>5, <2>6 DEF After, TimersKept
  <2>8. r = SetState(v, "COMPLETED", e)
    BY <1>2, <1>6
  <2>9. After(o, r)
    BY <2>4, <2>7, <2>8, SetStateAfter DEF n, States, Ended
  <2>. QED BY <2>9 DEF r
<1>. QED BY <1>5, <1>6

\* The second half of a rejection: timer D or K runs and the ACK is kept.
LEMMA UacStartTimerDAfter ==
  ASSUME NEW t \in Tsx, TimersKept(t), Owing(t) => Asked(t)
  PROVE  After(t, UacStartTimerD(t)) /\ Timed(UacStartTimerD(t))
         /\ ~Owing(UacStartTimerD(t))
<1>. DEFINE u == IF t.invite THEN [t EXCEPT !.last = "ack"] ELSE t
            d == IF t.reliable THEN "zero" ELSE IF t.invite THEN "TD" ELSE "T4"
            v == IF "to" \in u.armed THEN Unschedule(u, "to") ELSE u
            r == UacStartTimerD(t)
<1>1. r = Schedule(v, "to", d)
  BY DEF UacStartTimerD
<1>2. d \in Delays /\ d # "off"
  BY DEF Delays
<1>. HIDE DEF d, r
<1>3. /\ u \in Tsx /\ u.role = t.role /\ u.invite = t.invite /\ u.state = t.state
      /\ u.reliable = t.reliable /\ u.transport = t.transport /\ u.flags = t.flags
      /\ u.wire = t.wire /\ u.due = t.due
      /\ u.last = IF t.invite THEN "ack" ELSE t.last
  BY DEF Tsx, Messages, Requests
<1>. HIDE DEF u
<1>4. Stops(u, v, "to")
  BY <1>3, CancelStops DEF Timers, Stops
<1>5. Keeps(u, r) /\ Timed(r)
  BY <1>1, <1>2, <1>3, <1>4, AgainKeeps
<1>. HIDE DEF v
<1>6. ~Owing(u) /\ TimersKept(u)
  <2>1. ~Owing(u)
    BY <1>3 DEF Owing, Acked, Asked
  <2>2. TimersKept(u)
    BY <1>3 DEF TimersKept, Known, Found, Lasting
  <2>. QED BY <2>1, <2>2
<1>7. After(t, u)
  BY <1>3, <1>6 DEF After, NeedsTo, NeedsRt, Timed, Repeated
<1>8. After(t, r)
  BY <1>5, <1>7, AfterKeeps
<1>9. After(u, r)
  BY <1>3, <1>5, <1>6, KeepsAfter
<1>. QED BY <1>5, <1>6, <1>8, <1>9 DEF r, After

\* A response in every state.
LEMMA UacRxAfter ==
  ASSUME NEW t \in Tsx, TimersKept(t), t.role = "UAC", NEW m, NEW e \in Env
  PROVE  LET u == IF t.state = "CALLING" THEN CallingPrelude(t, m) ELSE t
             r == UacRx(t, m, e)
         IN  \/ After(t, r)
             \/ /\ Final3xx(t, m) /\ ~SendErr(UacRejected(u, m, e))
                /\ Rejecting(r) /\ r.invite = t.invite
<1>. DEFINE u == IF t.state = "CALLING" THEN CallingPrelude(t, m) ELSE t
            r == UacRx(t, m, e)
<1>1. CASE t.state \in {"CALLING", "PROCEEDING"}
  <2>0. t.state # "NULL" /\ t.state \notin Ended /\ t.state # "COMPLETED"
    BY <1>1 DEF Ended
  <2>1. Known(t) /\ Found(t) /\ t.last # "none"
    BY <2>0 DEF TimersKept, Lasting
  <2>2. /\ u \in Tsx /\ u.role = t.role /\ u.invite = t.invite
        /\ u.state = t.state /\ u.last = t.last /\ u.reliable = t.reliable
        /\ Known(u) /\ Found(u)
    BY <2>1, CallingPreludeStops
  <2>3. Code(m) < 200 /\ ~t.invite =>
           u.due["to"] = t.due["to"]
           /\ (Repeated(u) \/ (~t.reliable /\ ~Repeated(t)))
    <3>1. CASE t.state = "CALLING"
      <4>1. u = CallingPrelude(t, m)
        BY <3>1
      <4>2. Code(m) < 200 /\ ~t.invite =>
               u.due["to"] = t.due["to"] /\ (u.reliable \/ u.due["rt"] # "off")
        BY <4>1, CallingPreludeStops
      <4>. QED BY <4>2 DEF Repeated
    <3>2. CASE t.state # "CALLING"
      <4>1. u = t
        BY <3>2
      <4>. QED BY <4>1 DEF Repeated
    <3>. QED BY <3>1, <3>2
  <2>4. r = IF Final3xx(t, m) THEN UacRejection(u, m, e)
            ELSE IF m = "r2xx" THEN UacSuccess(u, m, e) ELSE UacProvisional(u, m, e)
    BY <1>1, <2>0 DEF UacRx, Final3xx
  <2>. HIDE DEF u, r
  <2>5. CASE Final3xx(t, m)
    <3>1. \/ r \in Tsx /\ r.role = u.role /\ r.invite = u.invite /\ Known(r) /\ Over(r)
          \/ /\ ~SendErr(UacRejected(u, m, e))
             /\ Rejecting(r) /\ r.invite = u.invite
      BY <2>0, <2>1, <2>2, <2>4, <2>5, UacRejectionAfter
    <3>2. CASE r \in Tsx /\ r.role = u.role /\ r.invite = u.invite /\ Known(r) /\ Over(r)
      <4>1. After(t, r)
        BY <2>2, <3>2, OverAfter
      <4>. QED BY <4>1 DEF r
    <3>. QED BY <2>2, <2>5, <3>1, <3>2 DEF r, u
  <2>6. CASE ~Final3xx(t, m) /\ m = "r2xx"
    <3>1. After(t, UacSuccess(u, m, e))
      BY <2>0, <2>1, <2>2, UacSuccessAfter
    <3>. QED BY <2>4, <2>6, <3>1 DEF r
  <2>7. CASE ~Final3xx(t, m) /\ m # "r2xx"
    <3>1. Code(m) < 200
      BY <1>1, <2>7 DEF Final3xx, Code
    <3>2. /\ ~t.invite => u.due["to"] = t.due["to"]
          /\ ~t.invite => Repeated(u) \/ (~t.reliable /\ ~Repeated(t))
      BY <2>3, <3>1
    <3>3. u.state \notin Ended
      BY <2>0, <2>2
    <3>4. After(t, UacProvisional(u, m, e))
      BY <1>1, <2>2, <3>2, <3>3, UacProvisionalAfter
    <3>. QED BY <2>4, <2>7, <3>4 DEF r
  <2>. QED BY <2>5, <2>6, <2>7
<1>2. CASE t.state \notin {"CALLING", "PROCEEDING"}
  <2>1. r \in {UacCompletedRx(t, m, e), Check(t, FALSE, "null_event"), t}
    BY <1>2 DEF UacRx, Final3xx
  <2>2. Keeps(t, Check(t, FALSE, "null_event")) /\ Keeps(t, t)
    BY CheckAlike, AlikeKeeps, KeepsRefl DEF Assertions
  <2>3. Keeps(t, Retransmit(t, FALSE, e))
    BY RetransmitKeeps
  <2>4. Keeps(t, r)
    BY <2>1, <2>2, <2>3 DEF UacCompletedRx
  <2>. HIDE DEF r
  <2>5. After(t, r)
    BY <2>4, KeepsAfter
  <2>. QED BY <2>5 DEF r
<1>. QED BY <1>1, <1>2

\* A timer in every state: what timer x sees to is seen to.
LEMMA UacTimerAfter ==
  ASSUME NEW t \in Tsx, TimersKept(t), t.role = "UAC", NEW x \in Timers, NEW e \in Env
  PROVE  After(t, UacTimer(t, x, e)) /\ Steady(UacTimer(t, x, e), x)
<1>. DEFINE c == Clear(Cancel(t, "rt"), "RESCHED")
            k == Check(t, x = "to", "completed_timer")
            n == Check(t, FALSE, "null_event")
            r == UacTimer(t, x, e)
<1>1. CASE t.state = "NULL"
  <2>1. r = n
    BY <1>1 DEF UacTimer
  <2>2. Alike(t, n)
    BY CheckAlike DEF Assertions
  <2>. HIDE DEF n, r
  <2>3. After(t, r)
    BY <2>1, <2>2, AlikeKeeps, KeepsAfter
  <2>4. Steady(r, x)
    BY <1>1, <2>1, <2>2 DEF Alike, Steady, NeedsTo, NeedsRt
  <2>. QED BY <2>3, <2>4 DEF r
<1>2. CASE t.state \in {"CALLING", "PROCEEDING"} /\ x = "rt"
  <2>1. r = Retransmit(t, TRUE, e)
    BY <1>2 DEF UacTimer
  <2>2. t.last # "none"
    BY <1>2 DEF TimersKept, Lasting, Ended
  <2>. HIDE DEF r
  <2>3. Keeps(t, r)
    BY <2>1, RetransmitKeeps
  <2>4. Repeated(r)
    BY <2>1, <2>2, RetransmitKeeps
  <2>5. After(t, r) /\ Steady(r, x)
    BY <1>2, <2>3, <2>4, KeepsAfter DEF Steady
  <2>. QED BY <2>5 DEF r
<1>3. CASE t.state \in {"CALLING", "PROCEEDING"} /\ x # "rt"
  <2>1. r \in {Fail(c, 408, e), Fail(t, 408, e)}
    BY <1>3 DEF UacTimer
  <2>2. c \in Tsx /\ c.role = t.role /\ c.invite = t.invite /\ (Known(t) => Known(c))
    <3>. DEFINE a == Cancel(t, "rt")
    <3>1. Stops(t, a, "rt")
      BY CancelStops DEF Timers
    <3>. HIDE DEF a
    <3>2. a \in Tsx /\ a.role = t.role /\ a.invite = t.invite /\ (Known(t) => Known(a))
      BY <3>1 DEF Stops, Known
    <3>3. Clear(a, "RESCHED") \in Tsx /\ Clear(a, "RESCHED").role = a.role
          /\ Clear(a, "RESCHED").invite = a.invite
          /\ (Known(a) => Known(Clear(a, "RESCHED")))
      BY <3>2, ClearResched
    <3>. QED BY <3>2, <3>3 DEF a
  <2>. HIDE DEF c, r
  <2>3. Keeps(c, Fail(c, 408, e)) /\ Over(Fail(c, 408, e))
        /\ Keeps(t, Fail(t, 408, e)) /\ Over(Fail(t, 408, e))
    BY <2>2, FailTimed DEF Local
  <2>4. r \in Tsx /\ r.role = t.role /\ r.invite = t.invite /\ Known(r) /\ Over(r)
    BY <2>1, <2>2, <2>3, KeepsEach DEF TimersKept
  <2>5. After(t, r) /\ Steady(r, x)
    BY <2>4, OverAfter DEF Timers
  <2>. QED BY <2>5 DEF r
<1>4. CASE t.state \notin {"NULL", "CALLING", "PROCEEDING"}
  <2>1. r = SetState(k, "TERMINATED", e)
    BY <1>4 DEF UacTimer
  <2>2. Alike(t, k)
    BY CheckAlike DEF Assertions
  <2>. HIDE DEF k, r
  <2>3. Keeps(k, r) /\ Over(r)
    BY <2>1, <2>2, SetStateEnds DEF Alike, Ended
  <2>4. Keeps(t, r)
    BY <2>2, <2>3, AlikeKeeps, KeepsTrans
  <2>5. After(t, r) /\ Steady(r, x)
    BY <2>3, <2>4, OverKeepsAfter DEF Timers, TimersKept
  <2>. QED BY <2>5 DEF r
<1>. QED BY <1>1, <1>2, <1>3, <1>4

-----------------------------------------------------------------------------
(* The handlers of a server *)

\* Before its final response a server needs no timer.
LEMMA UasEarlyAfter ==
  ASSUME NEW t, NEW u \in Tsx, u.role = t.role, u.invite = t.invite, t.role = "UAS",
         NEW s \in {"TRYING", "PROCEEDING"}, NEW e \in Env
  PROVE  After(t, SetState(u, s, e)) /\ \A x \in Timers : Steady(SetState(u, s, e), x)
<1>. DEFINE n == Enter(u, s)
<1>1. n \in Tsx /\ n.state = s /\ n.role = "UAS" /\ n.invite = t.invite
  BY EnterFields DEF States
<1>. HIDE DEF n
<1>2. /\ Known(n) /\ Lasting(n) /\ ~NeedsTo(n) /\ ~NeedsRt(n) /\ ~Owing(n)
  BY <1>1 DEF Known, Lasting, NeedsTo, NeedsRt, Owing
<1>3. After(t, n)
  BY <1>1, <1>2 DEF After, TimersKept
<1>4. \A x \in Timers : Steady(n, x)
  BY <1>2 DEF Steady
<1>. QED BY <1>3, <1>4, SetStateAfter, SetStateSteady DEF n, States, Ended

\* A provisional response that was sent.
LEMMA UasProvisionalAfter ==
  ASSUME NEW t, NEW u \in Tsx, u.role = t.role, u.invite = t.invite, t.role = "UAS",
         NEW m \in Messages, NEW e \in Env
  PROVE  After(t, UasProvisional(u, m, e))
<1>. DEFINE l == [u EXCEPT !.last = m]
            s == SetState(l, "PROCEEDING", e)
            c == Cancel(s, "rt")
            a == ArmRetransmit(c, "1xx")
            r == UasProvisional(u, m, e)
<1>1. l \in Tsx /\ l.role = t.role /\ l.invite = t.invite
  BY DEF Tsx
<1>2. r = IF u.invite /\ s.status > 100 THEN a ELSE s
  BY DEF UasProvisional, Tsx
<1>. HIDE DEF l, r
<1>3. After(t, s)
  BY <1>1, UasEarlyAfter
<1>4. s \in Tsx /\ s.role = "UAS" /\ s.invite = t.invite
      /\ (s.state = "PROCEEDING" \/ Over(s))
  <2>. DEFINE n == Enter(l, "PROCEEDING")
  <2>1. s = n \/ Over(s)
    BY <1>1, SetStateKeeps DEF States, Ended
  <2>2. n.state = "PROCEEDING"
    BY <1>1, EnterFields DEF States
  <2>. QED BY <1>3, <2>1, <2>2 DEF After
<1>. HIDE DEF s
<1>5. Stops(s, c, "rt")
  BY <1>4, CancelStops DEF Timers
<1>. HIDE DEF c
<1>6. /\ c \in Tsx /\ c.role = "UAS" /\ c.invite = t.invite /\ c.state = s.state
      /\ (Over(s) => Over(c))
  BY <1>4, <1>5 DEF Stops, Over, Timed, Timers
<1>7. Keeps(c, a)
  BY <1>6, ArmRetransmitKeeps DEF Delays
<1>8. After(t, c)
  <2>1. Known(c) /\ ~Owing(c)
    BY <1>6 DEF Known, Owing
  <2>2. CASE Over(s)
    BY <1>6, <2>1, <2>2, OverAfter
  <2>3. CASE s.state = "PROCEEDING"
    BY <1>6, <2>1, <2>3 DEF After, TimersKept, Lasting, NeedsTo, NeedsRt
  <2>. QED BY <1>4, <2>2, <2>3
<1>9. After(t, a)
  BY <1>7, <1>8, AfterKeeps
<1>10. After(t, r)
  BY <1>2, <1>3, <1>9
<1>. QED BY <1>10 DEF r


\* A final response that was sent: it ends the transaction, or timers H or J run,
\* and G if it has to be repeated.
LEMMA UasFinalAfter ==
  ASSUME NEW t, NEW u \in Tsx, u.role = t.role, u.invite = t.invite, t.role = "UAS",
         u.state \notin Ended, NEW m \in Messages, NEW e \in Env
  PROVE  After(t, UasFinal(u, m, e))
<1>. DEFINE c == Cancel(u, "rt")
            again == u.invite /\ (m = "r2xx" \/ ~u.reliable)
            a == ArmRetransmit(c, "T1")
            v == IF again THEN a ELSE c
            l == [v EXCEPT !.last = m]
            k == Schedule(l, "to", FinalTimeout(u))
            n == Enter(k, "COMPLETED")
            r == UasFinal(u, m, e)
<1>1. Stops(u, c, "rt")
  BY CancelStops DEF Timers
<1>2. r = IF m = "r2xx" /\ u.invite /\ ~u.own200 THEN SetState(c, "TERMINATED", e)
          ELSE SetState(k, "COMPLETED", e)
  BY DEF UasFinal
<1>. HIDE DEF c, r
<1>3. Keeps(c, a) /\ Repeated(a) /\ a.state = c.state /\ a.reliable = c.reliable
  <2>1. c \in Tsx
    BY <1>1 DEF Stops
  <2>2. Keeps(c, a) /\ Repeated(a)
    BY <2>1, ArmRetransmitKeeps DEF Delays
  <2>3. a.state = c.state
    BY <2>1, ArmRetransmitStill DEF Still, Delays
  <2>4. a.reliable = c.reliable
    BY <2>1, ScheduleFields DEF ArmRetransmit, Timers, Delays, Tsx
  <2>. QED BY <2>2, <2>3, <2>4
<1>. HIDE DEF a
<1>4. v \in Tsx /\ v.role = "UAS" /\ v.invite = t.invite /\ v.state = u.state
  BY <1>1, <1>3 DEF Stops, Keeps
<1>5. v.invite /\ ~v.reliable => Repeated(v)
  <2>1. CASE again
    BY <1>3, <2>1
  <2>2. CASE ~again
    BY <1>1, <2>2 DEF Stops
  <2>. QED BY <2>1, <2>2
<1>. HIDE DEF v
<1>6. CASE r = SetState(c, "TERMINATED", e)
  <2>1. c \in Tsx /\ c.role = "UAS" /\ c.invite = t.invite
    BY <1>1 DEF Stops
  <2>2. Keeps(c, r) /\ Over(r)
    BY <1>6, <2>1, SetStateEnds DEF Ended
  <2>3. r \in Tsx /\ r.role = t.role /\ r.invite = t.invite /\ Known(r)
    BY <2>1, <2>2, KeepsEach DEF Known
  <2>4. After(t, r)
    BY <2>2, <2>3, OverAfter
  <2>. QED BY <2>4 DEF r
<1>7. CASE r = SetState(k, "COMPLETED", e)
  <2>1. l \in Tsx /\ l.role = v.role /\ l.invite = v.invite /\ l.state = v.state
        /\ l.last = m /\ l.reliable = v.reliable /\ l.due = v.due /\ l.flags = v.flags
    BY <1>4 DEF Tsx
  <2>. HIDE DEF l
  <2>2. FinalTimeout(u) \in Delays /\ FinalTimeout(u) # "off"
    BY DEF FinalTimeout, Delays
  <2>3. /\ k \in Tsx /\ k.role = l.role /\ k.invite = l.invite /\ k.state = l.state
        /\ k.last = l.last /\ k.reliable = l.reliable /\ k.flags = l.flags
        /\ k.due["to"] # "off" /\ (l.due["rt"] # "off" => k.due["rt"] # "off")
    BY <2>1, <2>2, ScheduleFields DEF Timers
  <2>. HIDE DEF k
  <2>4. /\ n \in Tsx /\ n.state = "COMPLETED" /\ n.role = "UAS" /\ n.invite = t.invite
        /\ n.last = m /\ n.reliable = v.reliable /\ n.flags = v.flags
        /\ n.due["to"] # "off" /\ (v.due["rt"] # "off" => n.due["rt"] # "off")
    <3>1. /\ n \in Tsx /\ n.state = "COMPLETED" /\ n.role = k.role /\ n.invite = k.invite
          /\ n.last = k.last /\ n.reliable = k.reliable /\ n.flags = k.flags
          /\ n.due = k.due
      BY <2>3, EnterFields DEF States
    <3>. HIDE DEF n
    <3>. QED BY <1>4, <2>1, <2>3, <3>1
  <2>. HIDE DEF n
  <2>5. Known(n) /\ Lasting(n) /\ Timed(n) /\ ~Owing(n)
    BY <2>4 DEF Known, Lasting, Timed, Owing, Messages, Requests, Responses
  <2>6. NeedsRt(n) => Repeated(n)
    BY <1>4, <1>5, <2>4 DEF NeedsRt, Repeated
  <2>7. r = SetState(k, "COMPLETED", e)
    BY <1>7
  <2>8. After(t, n)
    BY <2>4, <2>5, <2>6 DEF After, TimersKept
  <2>9. After(t, r)
    BY <2>3, <2>7, <2>8, SetStateAfter DEF n, States, Ended
  <2>. QED BY <2>9 DEF r
<1>. QED BY <1>2, <1>6, <1>7

\* A response of the TU.
LEMMA UasSendAfter ==
  ASSUME NEW t \in Tsx, t.role = "UAS", t.state \in {"TRYING", "PROCEEDING"},
         NEW m \in Responses, NEW e \in Env
  PROVE  After(t, UasSend(t, m, e))
<1>. DEFINE s == [t EXCEPT !.status = Code(m)]
            l == [s EXCEPT !.last = "none"]
            u == SendMsg(l, m, e)
            r == UasSend(t, m, e)
<1>1. Alike(t, s)
  <2>. Code(m) \in Codes
    BY CodeTyped DEF Codes
  <2>. QED BY StatusAlike
<1>2. r = IF SendErr(u) THEN u
          ELSE IF Code(m) < 200 THEN UasProvisional(u, m, e) ELSE UasFinal(u, m, e)
  <2>1. l = [t EXCEPT !.status = Code(m), !.last = "none"]
    OBVIOUS
  <2>. QED BY <2>1 DEF UasSend
<1>. HIDE DEF s, r
<1>3. l \in Tsx /\ l.role = "UAS" /\ l.invite = t.invite /\ l.state = t.state
  BY <1>1 DEF Alike, Tsx
<1>. HIDE DEF l
<1>4. m \in Messages
  BY DEF Messages
<1>5. Keeps(l, u)
  BY <1>3, <1>4, SendMsgKeeps
<1>. HIDE DEF u
<1>6. u \in Tsx /\ u.role = t.role /\ u.invite = t.invite /\ (Over(u) \/ u.state = t.state)
  BY <1>3, <1>5 DEF Keeps, Same
<1>7. SendErr(u) <=> u.state \in Ended
  BY <1>6, SendErrEnded
<1>8. CASE Over(u)
  <2>1. r = u
    BY <1>2, <1>7, <1>8 DEF Over
  <2>2. Known(u)
    BY <1>6 DEF Known
  <2>3. After(t, u)
    BY <1>6, <1>8, <2>2, OverAfter
  <2>. QED BY <2>1, <2>3 DEF r
<1>9. CASE u.state = t.state
  <2>1. u.state \notin Ended
    BY <1>9 DEF Ended
  <2>2. After(t, UasProvisional(u, m, e)) /\ After(t, UasFinal(u, m, e))
    BY <1>4, <1>6, <2>1, UasProvisionalAfter, UasFinalAfter
  <2>3. After(t, r)
    BY <1>2, <1>7, <2>1, <2>2
  <2>. QED BY <2>3 DEF r
<1>. QED BY <1>6, <1>8, <1>9

\* The ACK: timer I runs.
LEMMA UasAckedAfter ==
  ASSUME NEW t \in Tsx, t.role = "UAS", NEW e \in Env
  PROVE  After(t, UasAcked(t, e))
<1>. DEFINE c == Cancel(t, "rt")
            l == Clear(c, "RESCHED")
            u == Unschedule(l, "to")
            d == IF u.reliable THEN "T4" ELSE "zero"
            k == Schedule(u, "to", d)
            n == Enter(k, "CONFIRMED")
            r == UasAcked(t, e)
<1>1. Stops(t, c, "rt")
  BY CancelStops DEF Timers
<1>2. r = SetState(k, "CONFIRMED", e)
  BY DEF UasAcked
<1>. HIDE DEF c, r
<1>3. l \in Tsx /\ l.role = "UAS" /\ l.invite = t.invite
  BY <1>1, ClearResched DEF Stops
<1>. HIDE DEF l
<1>4. u \in Tsx /\ u.role = "UAS" /\ u.invite = t.invite
  BY <1>3, CancelStops DEF Timers, Stops
<1>. HIDE DEF u
<1>5. d \in Delays /\ d # "off"
  BY DEF Delays
<1>. HIDE DEF d
<1>6. k \in Tsx /\ k.role = "UAS" /\ k.invite = t.invite /\ k.due["to"] # "off"
  BY <1>4, <1>5, ScheduleFields DEF Timers
<1>. HIDE DEF k
<1>7. n \in Tsx /\ n.role = "UAS" /\ n.invite = t.invite /\ n.due = k.due
      /\ n.state = "CONFIRMED"
  BY <1>6, EnterFields DEF States
<1>. HIDE DEF n
<1>8. After(t, n)
  BY <1>6, <1>7 DEF After, TimersKept, Known, Lasting, Timed, NeedsRt, Owing
<1>9. After(t, r)
  BY <1>2, <1>6, <1>8, SetStateAfter DEF n, States, Ended
<1>. QED BY <1>9 DEF r

\* A request in every state.
LEMMA UasRxAfter ==
  ASSUME NEW t \in Tsx, TimersKept(t), t.role = "UAS", NEW m, NEW e \in Env
  PROVE  After(t, UasRx(t, m, e))
<1>. DEFINE n == Check(t, FALSE, "no_last_tx")
            r == UasRx(t, m, e)
<1>1. r \in {SetState(t, "TRYING", e), n, Retransmit(t, FALSE, e), UasAcked(t, e), t}
      \/ (r = SendMsg(t, t.last, e) /\ t.last # "none")
  BY DEF UasRx
<1>2. Keeps(t, n) /\ Keeps(t, t) /\ Keeps(t, Retransmit(t, FALSE, e))
  BY CheckAlike, AlikeKeeps, KeepsRefl, RetransmitKeeps DEF Assertions
<1>3. t.last # "none" => Keeps(t, SendMsg(t, t.last, e))
  BY SendMsgKeeps DEF Tsx
<1>4. After(t, SetState(t, "TRYING", e)) /\ After(t, UasAcked(t, e))
  BY UasEarlyAfter, UasAckedAfter
<1>. HIDE DEF n, r
<1>5. After(t, n) /\ After(t, t) /\ After(t, Retransmit(t, FALSE, e))
      /\ (t.last # "none" => After(t, SendMsg(t, t.last, e)))
  BY <1>2, <1>3, KeepsAfter
<1>6. After(t, r)
  BY <1>1, <1>4, <1>5
<1>. QED BY <1>6 DEF r

\* A timer in every state: what timer x sees to is seen to.
LEMMA UasTimerAfter ==
  ASSUME NEW t \in Tsx, TimersKept(t), t.role = "UAS", NEW x \in Timers, NEW e \in Env
  PROVE  After(t, UasTimer(t, x, e)) /\ Steady(UasTimer(t, x, e), x)
<1>. DEFINE a == Check(t, FALSE, "null_event")
            b == Check(t, "TRANSPORT" \notin t.flags, "uas_pending_timer")
            c == Check(t, FALSE, "uas_timeout")
            d == Check(t, x = "to", "confirmed_timer")
            r == UasTimer(t, x, e)
<1>1. Alike(t, a) /\ Alike(t, b) /\ Alike(t, c) /\ Alike(t, d)
  BY CheckAlike DEF Assertions
<1>2. Keeps(t, a) /\ Keeps(t, b) /\ Keeps(t, c) /\ Keeps(t, d)
  BY <1>1, AlikeKeeps
<1>3. \/ r = SetState(a, "TRYING", e)
      \/ r = t /\ t.state = "TRYING"
      \/ r = Retransmit(b, TRUE, e) /\ t.state = "PROCEEDING" /\ x = "rt"
      \/ r = Retransmit(t, TRUE, e) /\ t.state = "COMPLETED" /\ x = "rt"
      \/ r \in {Fail(c, 408, e), Fail(t, 408, e), SetState(d, "TERMINATED", e),
                SetState(t, "TERMINATED", e)}
  <2>1. CASE t.state = "NULL"
    BY <2>1 DEF UasTimer
  <2>2. CASE t.state = "TRYING"
    BY <2>2 DEF UasTimer
  <2>3. CASE t.state = "PROCEEDING" /\ x = "rt"
    BY <2>3 DEF UasTimer
  <2>4. CASE t.state = "PROCEEDING" /\ x # "rt"
    BY <2>4 DEF UasTimer
  <2>5. CASE t.state = "COMPLETED" /\ x = "rt"
    BY <2>5 DEF UasTimer
  <2>6. CASE t.state \notin {"NULL", "TRYING", "PROCEEDING"}
             /\ ~(t.state = "COMPLETED" /\ x = "rt")
    <3>1. r \in {Fail(t, 408, e), SetState(d, "TERMINATED", e), SetState(t, "TERMINATED", e)}
      BY <2>6 DEF UasTimer
    <3>. QED BY <3>1
  <2>. QED BY <2>1, <2>2, <2>3, <2>4, <2>5, <2>6
<1>. HIDE DEF a, b, c, d, r
<1>4. CASE r = SetState(a, "TRYING", e)
  <2>1. After(t, r) /\ Steady(r, x)
    BY <1>1, <1>4, UasEarlyAfter DEF Alike
  <2>. QED BY <2>1 DEF r
<1>5. CASE r = t /\ t.state = "TRYING"
  <2>1. After(t, r)
    BY <1>5, KeepsRefl, KeepsAfter
  <2>2. Steady(r, x)
    BY <1>5 DEF Steady, NeedsTo, NeedsRt
  <2>. QED BY <2>1, <2>2 DEF r
<1>6. CASE r = Retransmit(b, TRUE, e) /\ t.state = "PROCEEDING" /\ x = "rt"
  <2>1. Keeps(b, r)
    BY <1>1, <1>6, RetransmitKeeps DEF Alike
  <2>2. After(t, r)
    BY <1>2, <2>1, KeepsTrans, KeepsAfter
  <2>3. r.role = "UAS" /\ (r.state = "PROCEEDING" \/ r.state \in Ended)
    BY <1>1, <1>6, <2>1 DEF Alike, Keeps, Same, Over
  <2>4. Steady(r, x)
    BY <1>6, <2>3 DEF Steady, NeedsRt, Ended
  <2>. QED BY <2>2, <2>4 DEF r
<1>7. CASE r = Retransmit(t, TRUE, e) /\ t.state = "COMPLETED" /\ x = "rt"
  <2>1. t.last # "none"
    BY <1>7 DEF TimersKept, Lasting, Ended
  <2>2. Keeps(t, r)
    BY <1>7, RetransmitKeeps
  <2>3. Repeated(r)
    BY <1>7, <2>1, RetransmitKeeps
  <2>4. After(t, r) /\ Steady(r, x)
    BY <1>7, <2>2, <2>3, KeepsAfter DEF Steady
  <2>. QED BY <2>4 DEF r
<1>8. CASE r \in {Fail(c, 408, e), Fail(t, 408, e), SetState(d, "TERMINATED", e),
                  SetState(t, "TERMINATED", e)}
  <2>1. PICK u \in {c, d, t} : r \in {Fail(u, 408, e), SetState(u, "TERMINATED", e)}
    BY <1>8
  <2>2. Keeps(t, u) /\ u \in Tsx
    BY <1>2, <2>1, KeepsRefl DEF Keeps
  <2>3. Keeps(u, r) /\ Over(r)
    BY <2>1, <2>2, FailTimed, SetStateEnds DEF Local, Ended
  <2>4. Keeps(t, r)
    BY <2>2, <2>3, KeepsTrans
  <2>5. After(t, r) /\ Steady(r, x)
    BY <2>3, <2>4, OverKeepsAfter DEF Timers, TimersKept
  <2>. QED BY <2>5 DEF r
<1>. QED BY <1>3, <1>4, <1>5, <1>6, <1>7, <1>8

-----------------------------------------------------------------------------
(* Dispatch *)

\* A message through the state's handler.
LEMMA OnRxAfter ==
  ASSUME NEW t \in Tsx, TimersKept(t), NEW m, NEW e \in Env
  PROVE  LET u == IF t.state = "CALLING" THEN CallingPrelude(t, m) ELSE t
             r == OnRx(t, m, e)
         IN  \/ After(t, r)
             \/ /\ t.role = "UAC" /\ Final3xx(t, m) /\ ~SendErr(UacRejected(u, m, e))
                /\ Rejecting(r) /\ r.invite = t.invite
<1>. DEFINE n == Check(t, t.state = "TERMINATED", "dead")
            r == OnRx(t, m, e)
<1>1. \/ r = n
      \/ r = UacRx(t, m, e) /\ t.role = "UAC"
      \/ r = UasRx(t, m, e) /\ t.role = "UAS"
  BY DEF OnRx, Tsx
<1>2. After(t, n)
  BY CheckAlike, AlikeKeeps, KeepsAfter DEF Assertions
<1>. HIDE DEF n, r
<1>3. CASE r = UasRx(t, m, e) /\ t.role = "UAS"
  <2>1. After(t, r)
    BY <1>3, UasRxAfter
  <2>. QED BY <2>1 DEF r
<1>4. CASE r = UacRx(t, m, e) /\ t.role = "UAC"
  BY <1>4, UacRxAfter DEF r
<1>. QED BY <1>1, <1>2, <1>3, <1>4 DEF r

\* A timer through the state's handler.
LEMMA OnTimerAfter ==
  ASSUME NEW t \in Tsx, TimersKept(t), NEW x \in Timers, NEW e \in Env
  PROVE  After(t, OnTimer(t, x, e)) /\ Steady(OnTimer(t, x, e), x)
<1>. DEFINE n == Check(t, FALSE, "dead")
            r == OnTimer(t, x, e)
<1>1. \/ r = n /\ t.state = "DESTROYED"
      \/ r = SetState(t, "DESTROYED", e)
      \/ r = UacTimer(t, x, e) /\ t.role = "UAC"
      \/ r = UasTimer(t, x, e) /\ t.role = "UAS"
  BY DEF OnTimer, Tsx
<1>2. Alike(t, n)
  BY CheckAlike DEF Assertions
<1>. HIDE DEF n, r
<1>3. CASE r = n /\ t.state = "DESTROYED"
  <2>1. After(t, r)
    BY <1>2, <1>3, AlikeKeeps, KeepsAfter
  <2>2. Steady(r, x)
    BY <1>2, <1>3 DEF Alike, Steady, NeedsTo, NeedsRt
  <2>. QED BY <2>1, <2>2 DEF r
<1>4. CASE r = SetState(t, "DESTROYED", e)
  <2>1. After(t, r) /\ Steady(r, x)
    BY <1>4, SetStateEnds, OverKeepsAfter DEF Timers, TimersKept, Ended
  <2>. QED BY <2>1 DEF r
<1>5. CASE r \in {UacTimer(t, x, e), UasTimer(t, x, e)} /\ ~(r = n /\ t.state = "DESTROYED")
            /\ r # SetState(t, "DESTROYED", e)
  <2>1. After(t, r) /\ Steady(r, x)
    BY <1>1, <1>5, UacTimerAfter, UasTimerAfter
  <2>. QED BY <2>1 DEF r
<1>. QED BY <1>1, <1>3, <1>4, <1>5

\* An error or the end of a transport.
LEMMA TransportAfter ==
  ASSUME NEW t \in Tsx, TimersKept(t), NEW e \in Env
  PROVE  After(t, TransportError(t, e)) /\ After(t, TransportDown(t, e))
<1>. DEFINE u == [t EXCEPT !.transport = FALSE]
            r == Fail(u, 503, e)
<1>1. u \in Tsx /\ u.role = t.role /\ u.invite = t.invite /\ Known(u)
  BY DEF Known, Tsx
<1>2. TransportError(t, e) = r
  BY DEF TransportError
<1>. HIDE DEF u
<1>3. Keeps(u, r) /\ Over(r)
  BY <1>1, FailTimed DEF Local
<1>. HIDE DEF r
<1>4. r \in Tsx /\ r.role = t.role /\ r.invite = t.invite /\ Known(r)
  BY <1>1, <1>3, KeepsEach
<1>5. After(t, r)
  BY <1>3, <1>4, OverAfter
<1>6. Keeps(t, TransportDown(t, e))
  BY FailTimed, KeepsRefl DEF TransportDown, Local
<1>7. After(t, TransportDown(t, e))
  BY <1>6, KeepsAfter
<1>. QED BY <1>2, <1>5, <1>7

-----------------------------------------------------------------------------
(* The steps *)

\* A new transaction needs nothing yet.
LEMMA InitKInv == Init => KInv
<1>. SUFFICES ASSUME Init PROVE KInv
  OBVIOUS
<1>1. tsx \in Tsx
  BY InitInv DEF Inv, TypeOK
<1>2. tsx.state = "NULL" /\ (tsx.role = "UAC" => tsx.last = "req" /\ ~tsx.transport)
  <2>1. ASSUME NEW i \in BOOLEAN, NEW r \in BOOLEAN, tsx = NewUac(i, r)
        PROVE  tsx.state = "NULL" /\ tsx.last = "req" /\ ~tsx.transport
    BY <2>1 DEF NewUac
  <2>2. ASSUME NEW i \in BOOLEAN, NEW r \in BOOLEAN, NEW tp \in BOOLEAN, NEW own \in BOOLEAN,
               tsx = NewUas(i, r, tp, own)
        PROVE  tsx.state = "NULL" /\ tsx.role = "UAS"
    BY <2>2 DEF NewUas, NewUac
  <2>. QED BY <2>1, <2>2 DEF Init
<1>. QED
  BY <1>2 DEF KInv, TimersKept, Known, Lasting, ToKept, RtKept, AckKept, NeedsTo, NeedsRt, Owing

\* A step starts from a transaction like the last one.
LEMMA FreshAfter ==
  ASSUME Inv, KInv
  PROVE  /\ Fresh \in Tsx /\ TimersKept(Fresh) /\ Alike(tsx, Fresh) /\ Fresh.alive = tsx.alive
         /\ Owing(Fresh) => Owing(tsx)
         /\ \A u : After(Fresh, u) => After(tsx, u)
<1>1. Alike(tsx, Fresh) /\ Fresh.wire = tsx.wire /\ Fresh.alive = tsx.alive
  BY FreshInv DEF Fresh, Alike, Inv, TypeOK, Tsx
<1>2. TimersKept(Fresh)
  BY <1>1 DEF KInv, TimersKept, Alike, Known, Lasting, Found
<1>3. /\ NeedsTo(Fresh) <=> NeedsTo(tsx)
      /\ Timed(Fresh) <=> Timed(tsx)
      /\ NeedsRt(Fresh) <=> NeedsRt(tsx)
      /\ Repeated(Fresh) <=> Repeated(tsx)
      /\ Owing(Fresh) <=> Owing(tsx)
  BY <1>1 DEF Alike, NeedsTo, Timed, NeedsRt, Repeated, Owing, Acked, Asked
<1>4. ASSUME NEW u, After(Fresh, u)
      PROVE  After(tsx, u)
  BY <1>1, <1>3, <1>4 DEF After, Alike
<1>. QED BY <1>1, <1>2, <1>3, <1>4 DEF Alike

\* What helpers do from there.
LEMMA FreshKeeps ==
  ASSUME Inv, KInv, NEW u, Keeps(Fresh, u)
  PROVE  After(tsx, u)
  BY FreshAfter, KeepsAfter

\* What a step owes is kept when no timer gets lost between the heap and its
\* handler, and no rejection between its two halves.
LEMMA StepKInv ==
  ASSUME KInv, After(tsx, tsx'), tsx'.alive => tsx.alive, ~stopped' => ~stopped,
         \/ \A w \in Workers : at[w].pc # "final"
         \/ /\ tsx'.flags = tsx.flags
            /\ \A w \in Workers : at[w].pc = "final" => at'[w] = at[w]
         \/ Timed(tsx') /\ ~Owing(tsx'),
         \A x \in Timers, w \in Workers :
            at[w] \in On(x) => at'[w] \in On(x) \/ (tsx'.alive => Steady(tsx', x))
  PROVE  KInv'
<1>1. TimersKept(tsx')
  BY DEF After
<1>2. ASSUME tsx'.alive, ~stopped', NeedsTo(tsx'), ~Timed(tsx')
      PROVE  \E w \in Workers : at'[w].pc = "final" \/ at'[w] \in On("to")
  <2>1. tsx.alive /\ ~stopped /\ NeedsTo(tsx) /\ ~Timed(tsx)
    BY <1>2 DEF After
  <2>2. PICK w \in Workers : at[w].pc = "final" \/ at[w] \in On("to")
    BY <2>1 DEF KInv, ToKept
  <2>3. CASE at[w].pc = "final"
    BY <1>2, <2>2, <2>3
  <2>4. CASE at[w] \in On("to")
    BY <1>2, <2>2, <2>4 DEF Steady, Timers
  <2>. QED BY <2>2, <2>3, <2>4
<1>3. ASSUME tsx'.alive, ~stopped', NeedsRt(tsx'), ~Repeated(tsx')
      PROVE  \E w \in Workers : at'[w] \in On("rt")
  <2>1. tsx.alive /\ ~stopped /\ NeedsRt(tsx) /\ ~Repeated(tsx)
    BY <1>3 DEF After
  <2>2. PICK w \in Workers : at[w] \in On("rt")
    BY <2>1 DEF KInv, RtKept
  <2>. QED BY <1>3, <2>2 DEF Steady, Timers
<1>4. ASSUME Owing(tsx')
      PROVE  Asked(tsx') /\ \E w \in Workers : at'[w].pc = "final"
  <2>1. Owing(tsx)
    BY <1>4 DEF After
  <2>2. Asked(tsx) /\ \E w \in Workers : at[w].pc = "final"
    BY <2>1 DEF KInv, AckKept
  <2>. QED BY <1>4, <2>2 DEF Asked
<1>. QED BY <1>1, <1>2, <1>3, <1>4 DEF KInv, ToKept, RtKept, AckKept, On

\* A handler with the lock.
LEMMA HandleAfter ==
  ASSUME Inv, KInv, NEW u, After(Fresh, u), Handle(u)
  PROVE  /\ After(tsx, tsx') /\ (tsx'.alive => tsx.alive /\ tsx' = u)
         /\ \A w \in Workers : at[w].pc # "final"
<1>. DEFINE n == Check(Fresh, FALSE, "dead")
<1>1. Keeps(Fresh, n)
  BY FreshAfter, CheckAlike, AlikeKeeps DEF Assertions
<1>2. n.alive = Fresh.alive
  BY FreshAfter DEF Check, Tsx
<1>3. After(tsx, n) /\ After(tsx, u)
  BY <1>1, FreshKeeps, FreshAfter
<1>4. tsx' = IF tsx.alive THEN u ELSE n
  BY DEF Handle
<1>5. \A w \in Workers : at[w].pc # "final"
  BY DEF Handle, LockFree
<1>. HIDE DEF n
<1>. QED BY <1>2, <1>3, <1>4, <1>5, FreshAfter

\* A handler that is not a worker's.
LEMMA InPlaceKInv ==
  ASSUME Inv, KInv, NEW u, After(Fresh, u), Handle(u), UNCHANGED <<at, stopped>>
  PROVE  KInv'
<1>1. /\ After(tsx, tsx') /\ (tsx'.alive => tsx.alive)
      /\ \A w \in Workers : at[w].pc # "final"
  BY HandleAfter
<1>2. /\ ~stopped' => ~stopped
      /\ \A x \in Timers, w \in Workers : at[w] \in On(x) => at'[w] \in On(x)
  OBVIOUS
<1>. QED BY <1>1, <1>2, StepKInv

\* Where the workers are when w has moved.
LEMMA MoveTo ==
  ASSUME Inv, NEW w \in Workers, NEW p, Move(w, p)
  PROVE  at'[w] = p /\ \A v \in Workers : v # w => at'[v] = at[v]
  BY DEF Move, Inv, TypeOK

\* A handler of worker w: if it was for a timer, what the timer sees to is seen to.
LEMMA HandledKInv ==
  ASSUME Inv, KInv, NEW u, After(Fresh, u), Handle(u),
         NEW w \in Workers, NEW p, Move(w, p), UNCHANGED stopped,
         \A x \in Timers : at[w] \in On(x) => Steady(u, x)
  PROVE  KInv'
<1>1. /\ After(tsx, tsx') /\ (tsx'.alive => tsx.alive /\ tsx' = u)
      /\ \A v \in Workers : at[v].pc # "final"
  BY HandleAfter
<1>2. ASSUME NEW x \in Timers, NEW v \in Workers, at[v] \in On(x)
      PROVE  at'[v] \in On(x) \/ (tsx'.alive => Steady(tsx', x))
  BY <1>1, <1>2, MoveTo
<1>. QED BY <1>1, <1>2, StepKInv

\* A worker takes something else than a timer, or takes a timer to its handler.
LEMMA TakenKInv ==
  ASSUME Inv, KInv, Alike(tsx, tsx'), tsx'.alive => tsx.alive,
         NEW w \in Workers, NEW p, Move(w, p), UNCHANGED stopped, at[w].pc # "final",
         \A x \in Timers : at[w] \in On(x) => p \in On(x)
  PROVE  KInv'
<1>1. After(tsx, tsx')
  BY AlikeKeeps, KeepsAfter DEF Inv, TypeOK, KInv
<1>2. /\ tsx'.flags = tsx.flags
      /\ \A v \in Workers : at[v].pc = "final" => at'[v] = at[v]
  BY MoveTo DEF Alike
<1>3. \A x \in Timers, v \in Workers : at[v] \in On(x) => at'[v] \in On(x)
  BY MoveTo
<1>. QED BY <1>1, <1>2, <1>3, StepKInv

-----------------------------------------------------------------------------
(* The TU and the transport's own steps *)

\* The TU's calls that send.
LEMMA TuKInv ==
  ASSUME Inv, KInv, NEW e \in Env, Tu(e)
  PROVE  KInv'
<1>1. /\ Fresh \in Tsx /\ TimersKept(Fresh)
      /\ Fresh.role = tsx.role /\ Fresh.state = tsx.state /\ Fresh.last = tsx.last
  BY FreshAfter DEF Alike
<1>2. CASE TuRequest(e)
  <2>1. Fresh.role = "UAC" /\ Fresh.state = "NULL"
    BY <1>1, <1>2 DEF TuRequest
  <2>2. After(Fresh, UacSend(Fresh, e))
    BY <1>1, <2>1, UacSendAfter
  <2>. QED BY <1>2, <2>2, InPlaceKInv DEF TuRequest, TuCall
<1>3. CASE TuAccept(e)
  <2>1. Fresh.role = "UAS"
    BY <1>1, <1>3 DEF TuAccept
  <2>2. After(Fresh, UasRx(Fresh, "req", e))
    BY <1>1, <2>1, UasRxAfter
  <2>. QED BY <1>3, <2>2, InPlaceKInv DEF TuAccept, TuCall
<1>4. CASE TuRetransmit(e)
  <2>1. tsx.last \in Messages
    BY <1>4 DEF TuRetransmit, Inv, TypeOK, Tsx
  <2>2. After(Fresh, SendMsg(Fresh, tsx.last, e))
    BY <1>1, <2>1, SendMsgKeeps, KeepsAfter
  <2>. QED BY <1>4, <2>2, InPlaceKInv DEF TuRetransmit, TuCall
<1>5. ASSUME NEW m \in Responses, TuRespond(m, e)
      PROVE  KInv'
  <2>1. Fresh.role = "UAS" /\ Fresh.state \in {"TRYING", "PROCEEDING"}
    BY <1>1, <1>5 DEF TuRespond
  <2>2. After(Fresh, UasSend(Fresh, m, e))
    BY <1>1, <2>1, UasSendAfter
  <2>. QED BY <1>5, <2>2, InPlaceKInv DEF TuRespond, TuCall
<1>. QED BY <1>2, <1>3, <1>4, <1>5 DEF Tu

\* The TU's calls that do not send.
LEMMA TuOtherKInv ==
  ASSUME Inv, KInv, TuOther
  PROVE  KInv'
<1>1. /\ Fresh \in Tsx /\ TimersKept(Fresh) /\ Alike(tsx, Fresh) /\ Fresh.alive = tsx.alive
  BY FreshAfter
<1>2. CASE TuTerminate
  <2>1. After(Fresh, Terminate(Fresh))
    BY <1>1, TerminateKeeps, KeepsAfter
  <2>. QED BY <1>2, <2>1, InPlaceKInv DEF TuTerminate, TuCall
<1>3. CASE TuTerminateLate
  <2>1. After(Fresh, ForceTerminate(Fresh))
    BY <1>1, ForceTerminateEnds, KeepsAfter
  <2>. QED BY <1>3, <2>1, InPlaceKInv DEF TuTerminateLate
<1>4. CASE TuStopRetransmit
  <2>. DEFINE u == Cancel(Fresh, "rt")
  <2>1. Stops(Fresh, u, "rt")
    BY <1>1, CancelStops DEF Timers
  <2>2. Fresh.role = "UAC" /\ Fresh.invite
    BY <1>1, <1>4 DEF TuStopRetransmit, Alike
  <2>. HIDE DEF u
  <2>3. After(Fresh, u)
    BY <1>1, <2>1, <2>2
       DEF Stops, After, TimersKept, Known, Lasting, Found, NeedsTo, Timed, NeedsRt, Owing, Acked,
           Asked, Timers
  <2>. QED BY <1>4, <2>3, InPlaceKInv DEF TuStopRetransmit, TuCall, u
<1>5. CASE TuSetTimeout
  <2>1. After(tsx, tsx')
    BY <1>1, <1>5, SetTimeoutKeeps, FreshKeeps DEF TuSetTimeout
  <2>2. SetTimeout(Fresh).flags = Fresh.flags
    BY <1>1 DEF SetTimeout, Schedule, Cancel, Tsx
  <2>3. /\ tsx'.flags = tsx.flags /\ (tsx'.alive => tsx.alive)
        /\ UNCHANGED <<at, stopped>>
    BY <1>1, <1>5, <2>2 DEF TuSetTimeout, Alike
  <2>4. /\ ~stopped' => ~stopped
        /\ \A w \in Workers : at[w].pc = "final" => at'[w] = at[w]
        /\ \A x \in Timers, w \in Workers : at[w] \in On(x) => at'[w] \in On(x)
    BY <2>3
  <2>. QED BY <2>1, <2>3, <2>4, StepKInv
<1>. QED BY <1>2, <1>3, <1>4, <1>5 DEF TuOther

\* The shutdown: no timer is needed any more, and nobody is in the transaction.
LEMMA LayerStopKInv ==
  ASSUME Inv, KInv, LayerStop
  PROVE  KInv'
<1>. DEFINE a == Terminate(Fresh)
            u == [a EXCEPT !.registered = FALSE]
<1>1. Fresh \in Tsx /\ TimersKept(Fresh)
  BY FreshAfter
<1>2. a \in Tsx /\ a.state \in Ended
  <2>1. Fresh.state \in States
    BY <1>1 DEF Tsx
  <2>2. Rank(Fresh.state) >= Rank("TERMINATED") => Fresh.state \in Ended
    BY <2>1 DEF States, Rank, Ended
  <2>3. ForceTerminate(Fresh) \in Tsx /\ ForceTerminate(Fresh).state \in Ended
    BY <1>1, ForceTerminateEnds DEF Keeps, Over
  <2>. QED BY <1>1, <2>2, <2>3 DEF Terminate
<1>. HIDE DEF a
<1>3. u \in Tsx /\ u.state = a.state
  BY <1>2 DEF Tsx
<1>4. tsx' = Destroy(u) /\ stopped'
  BY DEF LayerStop, Stop, u, a
<1>. HIDE DEF u
<1>5. tsx'.state \in Ended /\ ~tsx'.transport
  BY <1>2, <1>3, <1>4, DestroyEnds
<1>. QED BY <1>4, <1>5
       DEF KInv, TimersKept, Known, Lasting, Found, ToKept, RtKept, AckKept, Owing, Ended

\* A transport that disconnects.
LEMMA DisconnectKInv ==
  ASSUME Inv, KInv, NEW w \in Workers, NEW e \in Env, Disconnect(w, e)
  PROVE  KInv'
<1>1. After(Fresh, TransportDown(Fresh, e))
  BY FreshAfter, TransportAfter
<1>. QED BY <1>1, InPlaceKInv DEF Disconnect

-----------------------------------------------------------------------------
(* The workers *)

\* An idle worker holds no timer.
LEMMA IdleFree == \A w \in Workers : at[w].pc \notin {"popped", "timer"} =>
                     \A x \in Timers : at[w] \notin On(x)
  BY DEF On, Place

\* A timer taken from the heap: the worker that has it sees to it.
LEMMA PopKInv ==
  ASSUME Inv, KInv, NEW w \in Workers, NEW x \in Timers, Pop(w, x)
  PROVE  KInv'
<1>1. /\ Fresh \in Tsx /\ TimersKept(Fresh) /\ Alike(tsx, Fresh) /\ Fresh.alive = tsx.alive
  BY FreshAfter
<1>2. Stops(Fresh, tsx', x)
  BY <1>1, CancelStops DEF Pop
<1>3. tsx'.alive = tsx.alive
  BY <1>1 DEF Pop, Unschedule, Tsx
<1>4. at'[w] = Place("popped", x) /\ \A v \in Workers : v # w => at'[v] = at[v]
  BY MoveTo DEF Pop, Become
<1>5. at[w].pc = "idle" /\ UNCHANGED stopped
  BY DEF Pop, Idle
<1>6. \A v \in Workers, y \in Timers : at[v] \in On(y) => at'[v] \in On(y)
  BY <1>4, <1>5, IdleFree
<1>7. \A v \in Workers : at[v].pc = "final" => at'[v].pc = "final"
  BY <1>4, <1>5
<1>8. at'[w] \in On(x)
  BY <1>4 DEF On
<1>9. TimersKept(tsx')
  BY <1>1, <1>2 DEF Stops, TimersKept, Known, Lasting, Found
<1>10. tsx'.state = tsx.state /\ tsx'.role = tsx.role /\ tsx'.invite = tsx.invite
       /\ tsx'.reliable = tsx.reliable /\ tsx'.flags = tsx.flags
       /\ tsx'.last = tsx.last /\ (Acked(tsx) => Acked(tsx'))
       /\ \A y \in Timers \ {x} : tsx'.due[y] = tsx.due[y]
  BY <1>1, <1>2 DEF Stops, Alike, Acked, Asked
<1>11. ToKept'
  BY <1>3, <1>5, <1>6, <1>7, <1>8, <1>10 DEF KInv, ToKept, NeedsTo, Timed, Timers, On
<1>12. RtKept'
  BY <1>3, <1>5, <1>6, <1>8, <1>10 DEF KInv, RtKept, NeedsRt, Repeated, Timers, On
<1>13. AckKept'
  BY <1>7, <1>10 DEF KInv, AckKept, Owing, Asked
<1>. QED BY <1>9, <1>11, <1>12, <1>13 DEF KInv

\* The start of tsx_timer_callback: the timer goes to its handler.
LEMMA ExpireKInv ==
  ASSUME Inv, KInv, NEW w \in Workers, Expire(w)
  PROVE  KInv'
<1>. DEFINE u == [Fresh EXCEPT !.armed = @ \ {at[w].arg}]
            n == Check(Fresh, FALSE, "dead")
            p == Place("timer", at[w].arg)
<1>1. /\ Fresh \in Tsx /\ Alike(tsx, Fresh) /\ Fresh.alive = tsx.alive
  BY FreshAfter
<1>2. Alike(Fresh, u) /\ u.alive = Fresh.alive
  BY <1>1 DEF Alike, Tsx
<1>3. Alike(Fresh, n)
  BY <1>1, CheckAlike DEF Assertions
<1>4. n.alive = Fresh.alive
  BY <1>1 DEF Check, Tsx
<1>5. tsx' = u \/ tsx' = n
  BY DEF Expire
<1>6. Move(w, p) /\ UNCHANGED stopped /\ at[w].pc = "popped"
  BY DEF Expire, Become
<1>7. \A x \in Timers : at[w] \in On(x) => p \in On(x)
  BY <1>6 DEF On, Place
<1>. HIDE DEF u, n, p
<1>8. Alike(tsx, tsx') /\ (tsx'.alive => tsx.alive)
  BY <1>1, <1>2, <1>3, <1>4, <1>5 DEF Alike
<1>. QED BY <1>6, <1>7, <1>8, TakenKInv

\* A message finds its transaction.
LEMMA FindKInv ==
  ASSUME Inv, KInv, NEW w \in Workers, NEW m \in Messages, Find(w, m)
  PROVE  KInv'
<1>1. Alike(tsx, tsx') /\ (tsx'.alive => tsx.alive)
  BY FreshAfter DEF Find
<1>2. Move(w, Place("rx", m)) /\ UNCHANGED stopped /\ at[w].pc = "idle"
  BY DEF Find, Become, Idle
<1>. QED BY <1>1, <1>2, IdleFree, TakenKInv

\* A stateless send comes to its end.
LEMMA WiredKInv ==
  ASSUME Inv, KInv, NEW w \in Workers, NEW o \in {"sent", "retried", "failed"}, Wired(w, o)
  PROVE  KInv'
<1>. DEFINE u == Emit(Fresh, tsx.pending, FALSE)
<1>1. Fresh \in Tsx /\ Alike(tsx, Fresh) /\ Fresh.alive = tsx.alive
  BY FreshAfter
<1>2. tsx.pending \in Messages
  BY DEF Wired, Inv, TypeOK, Tsx
<1>3. Alike(Fresh, u)
  BY <1>1, <1>2, EmitAlike
<1>4. u.alive = Fresh.alive
  BY <1>1 DEF Emit, Tsx
<1>5. tsx' = u \/ tsx' = Fresh
  BY DEF Wired
<1>6. Move(w, Place("wired", o)) /\ UNCHANGED stopped /\ at[w].pc = "idle"
  BY DEF Wired, Become, Idle
<1>. HIDE DEF u
<1>7. Alike(tsx, tsx') /\ (tsx'.alive => tsx.alive)
  BY <1>1, <1>3, <1>4, <1>5 DEF Alike
<1>. QED BY <1>6, <1>7, IdleFree, TakenKInv

\* The start of send_msg_callback.
LEMMA CalledKInv ==
  ASSUME Inv, KInv, NEW w \in Workers, Called(w)
  PROVE  KInv'
<1>. DEFINE p == IF tsx.pending = "none" THEN Idle ELSE Place("sendcb", at[w].arg)
<1>1. Fresh \in Tsx /\ Alike(tsx, Fresh) /\ Fresh.alive = tsx.alive
  BY FreshAfter
<1>2. Alike(Fresh, tsx') /\ tsx'.alive = Fresh.alive
  BY <1>1 DEF Called, Alike, Tsx
<1>3. Move(w, p) /\ UNCHANGED stopped /\ at[w].pc = "wired"
  BY DEF Called, Become
<1>4. Alike(tsx, tsx') /\ (tsx'.alive => tsx.alive)
  BY <1>1, <1>2 DEF Alike
<1>. HIDE DEF p
<1>. QED BY <1>3, <1>4, IdleFree, TakenKInv

\* A transport is through with a message.
LEMMA SendEndsKInv ==
  ASSUME Inv, KInv, NEW w \in Workers, NEW m \in Messages, NEW ok \in BOOLEAN,
         SendEnds(w, m, ok)
  PROVE  KInv'
<1>. DEFINE p == IF ok THEN Idle ELSE Place("txerr", "none")
<1>1. Fresh \in Tsx /\ Alike(tsx, Fresh) /\ Fresh.alive = tsx.alive
  BY FreshAfter
<1>2. Alike(Fresh, tsx') /\ tsx'.alive = Fresh.alive
  BY <1>1 DEF SendEnds, Alike, Tsx
<1>3. Move(w, p) /\ UNCHANGED stopped /\ at[w].pc = "idle"
  BY DEF SendEnds, Idle
<1>4. Alike(tsx, tsx') /\ (tsx'.alive => tsx.alive)
  BY <1>1, <1>2 DEF Alike
<1>. HIDE DEF p
<1>. QED BY <1>3, <1>4, IdleFree, TakenKInv

\* The timer's handler sees to what the timer was for.
LEMMA FireKInv ==
  ASSUME Inv, Carried, KInv, NEW w \in Workers, NEW e \in Env, Fire(w, e)
  PROVE  KInv'
<1>. DEFINE u == OnTimer(Fresh, at[w].arg, e)
<1>1. Handle(u) /\ Move(w, Idle) /\ UNCHANGED stopped
  BY DEF Fire
<1>2. \A x \in Timers : at[w] \in On(x) => at[w].arg = x
  BY DEF On, Place
<1>3. at[w].arg \in Timers
  BY DEF Fire, Carried
<1>4. After(Fresh, u) /\ Steady(u, at[w].arg)
  BY <1>3, FreshAfter, OnTimerAfter
<1>5. \A x \in Timers : at[w] \in On(x) => Steady(u, x)
  BY <1>2, <1>4
<1>. HIDE DEF u
<1>. QED BY <1>1, <1>4, <1>5, HandledKInv

\* An error that a transport reports.
LEMMA TransportCallbackKInv ==
  ASSUME Inv, KInv, NEW w \in Workers, NEW e \in Env, TransportCallback(w, e)
  PROVE  KInv'
<1>. DEFINE u == TransportError(Fresh, e)
<1>1. Handle(u) /\ Move(w, Idle) /\ UNCHANGED stopped /\ at[w].pc = "txerr"
  BY DEF TransportCallback
<1>2. After(Fresh, u)
  BY FreshAfter, TransportAfter
<1>3. \A x \in Timers : at[w] \in On(x) => Steady(u, x)
  BY <1>1, IdleFree
<1>. HIDE DEF u
<1>. QED BY <1>1, <1>2, <1>3, HandledKInv

\* send_msg_callback, also when it sends last_tx or tries another server.
LEMMA SendCallbackKInv ==
  ASSUME Inv, KInv, NEW w \in Workers, NEW e \in Env, SendCallback(w, e)
  PROVE  KInv'
<1>. DEFINE u == IF at[w].arg = "sent" THEN SendDone(Fresh, e)
                 ELSE IF at[w].arg = "failed" \/ "DESTROY" \in tsx.flags
                      THEN SendFailed(Fresh, e)
                      ELSE SendRetried(Fresh, "req")
<1>1. Handle(u) /\ Move(w, Idle) /\ UNCHANGED stopped /\ at[w].pc = "sendcb"
  BY DEF SendCallback
<1>2. Keeps(Fresh, SendDone(Fresh, e)) /\ Keeps(Fresh, SendFailed(Fresh, e))
      /\ Keeps(Fresh, SendRetried(Fresh, "req"))
  BY FreshAfter, SendDoneKeeps, SendFailedKeeps, SendRetriedKeeps DEF Messages, Requests
<1>3. Keeps(Fresh, u)
  BY <1>2
<1>. HIDE DEF u
<1>4. After(Fresh, u)
  BY <1>3, FreshAfter, KeepsAfter
<1>5. \A x \in Timers : at[w] \in On(x) => Steady(u, x)
  BY <1>1, IdleFree
<1>. QED BY <1>1, <1>4, <1>5, HandledKInv

\* The second half of a rejection: the timeout runs, the ACK is kept.
LEMMA ReceiveRestKInv ==
  ASSUME Inv, KInv, NEW w \in Workers, ReceiveRest(w)
  PROVE  KInv'
<1>1. /\ Fresh \in Tsx /\ TimersKept(Fresh) /\ Alike(tsx, Fresh) /\ Fresh.alive = tsx.alive
      /\ (Owing(Fresh) => Owing(tsx))
      /\ \A u : After(Fresh, u) => After(tsx, u)
  BY FreshAfter
<1>2. Owing(Fresh) => Asked(Fresh)
  BY <1>1 DEF KInv, AckKept, Asked, Alike
<1>3. tsx' = UacStartTimerD(Fresh)
  BY DEF ReceiveRest
<1>4. After(tsx, tsx') /\ Timed(tsx') /\ ~Owing(tsx')
  BY <1>1, <1>2, <1>3, UacStartTimerDAfter
<1>5. tsx'.alive => tsx.alive
  BY <1>1, <1>3 DEF UacStartTimerD, Schedule, Unschedule, Tsx
<1>6. Move(w, Idle) /\ UNCHANGED stopped /\ at[w].pc = "final"
  BY DEF ReceiveRest
<1>7. \A x \in Timers, v \in Workers : at[v] \in On(x) => at'[v] \in On(x)
  BY <1>6, IdleFree, MoveTo
<1>8. ~stopped' => ~stopped
  BY <1>6
<1>. QED BY <1>4, <1>5, <1>7, <1>8, StepKInv

\* A message: a rejection leaves the worker to complete it.
LEMMA ReceiveKInv ==
  ASSUME Inv, KInv, NEW w \in Workers, NEW e \in Env, Receive(w, e)
  PROVE  KInv'
<1>. DEFINE m == at[w].arg
            u == OnRx(Fresh, m, e)
            n == Check(Fresh, FALSE, "dead")
            half == /\ tsx.alive /\ tsx.role = "UAC" /\ Final3xx(tsx, m)
                    /\ ~SendErr(UacRejected(IF tsx.state = "CALLING"
                                            THEN CallingPrelude(Fresh, m)
                                            ELSE Fresh, m, e))
            p == IF half THEN Place("final", "none") ELSE Idle
<1>1. Handle(u) /\ Move(w, p) /\ UNCHANGED stopped /\ at[w].pc = "rx"
  BY DEF Receive
<1>2. /\ Fresh \in Tsx /\ TimersKept(Fresh) /\ Alike(tsx, Fresh) /\ Fresh.alive = tsx.alive
  BY FreshAfter
<1>3. After(Fresh, u) \/ (Rejecting(u) /\ (tsx.alive => half))
  <2>1. /\ Fresh.role = tsx.role /\ Fresh.state = tsx.state
        /\ Final3xx(Fresh, m) => Final3xx(tsx, m)
    BY <1>2 DEF Alike, Final3xx
  <2>. QED BY <1>2, <2>1, OnRxAfter
<1>4. After(Fresh, n)
  BY <1>2, CheckAlike, AlikeKeeps, KeepsAfter DEF Assertions
<1>5. tsx' = IF tsx.alive THEN u ELSE n
  BY <1>1 DEF Handle
<1>6. half => p.pc = "final"
  BY DEF Place
<1>. HIDE DEF u, n, half, p, m
<1>7. at'[w] = p /\ \A v \in Workers : v # w => at'[v] = at[v]
  BY <1>1, MoveTo
<1>8. \A x \in Timers : at[w] \notin On(x)
  BY <1>1, IdleFree
<1>9. CASE After(Fresh, u)
  BY <1>1, <1>8, <1>9, HandledKInv
<1>10. CASE ~tsx.alive
  <2>1. Handle(n)
    BY <1>1, <1>5, <1>10 DEF Handle, n
  <2>. QED BY <1>1, <1>4, <1>8, <2>1, HandledKInv
<1>11. CASE ~After(Fresh, u) /\ Rejecting(u) /\ tsx.alive
  <2>1. tsx' = u /\ at'[w].pc = "final"
    BY <1>3, <1>5, <1>6, <1>7, <1>11
  <2>. QED BY <1>11, <2>1
         DEF Rejecting, KInv, ToKept, RtKept, AckKept, NeedsRt, Owing, Acked
<1>. QED BY <1>3, <1>9, <1>10, <1>11

-----------------------------------------------------------------------------
(* The theorems *)

\* Only a timer gets to the places of a timer.
LEMMA CarriedKept ==
  ASSUME Inv, Carried, [Next]_vars
  PROVE  Carried'
<1>1. ASSUME NEW w \in Workers, NEW p, Move(w, p),
             p.pc \in {"popped", "timer"} => p.arg \in Timers
      PROVE  Carried'
  BY <1>1, MoveTo DEF Carried
<1>2. CASE UNCHANGED at
  BY <1>2 DEF Carried
<1>3. ASSUME NEW e \in Env, Tu(e)
      PROVE  Carried'
  BY <1>2, <1>3 DEF Tu, TuRequest, TuAccept, TuRetransmit, TuRespond, TuCall
<1>4. CASE TuOther \/ LayerStop
  BY <1>2, <1>4 DEF TuOther, TuTerminate, TuTerminateLate, TuStopRetransmit, TuSetTimeout,
                    LayerStop, TuCall
<1>5. ASSUME NEW w \in Workers, NEW e \in Env, Work(w, e) \/ Disconnect(w, e)
      PROVE  Carried'
  <2>1. UNCHANGED at \/ Move(w, Idle) \/ Move(w, Place("final", "none"))
    BY <1>5 DEF Work, Disconnect, Fire, Receive, SendCallback, TransportCallback
  <2>. QED BY <1>1, <1>2, <2>1 DEF Idle, Place
<1>6. ASSUME NEW w \in Workers, Take(w)
      PROVE  Carried'
  <2>1. \/ Move(w, Idle) \/ Move(w, Place("txerr", "none"))
        \/ \E x \in Timers : Move(w, Place("popped", x))
        \/ \E m \in Messages : Move(w, Place("rx", m))
        \/ \E o \in {"sent", "retried", "failed"} : Move(w, Place("wired", o))
    BY <1>6 DEF Take, Pop, Find, Wired, SendEnds, Become
  <2>. QED BY <1>1, <2>1 DEF Idle, Place
<1>7. ASSUME NEW w \in Workers, WorkOn(w)
      PROVE  Carried'
  <2>1. \/ Move(w, Idle) \/ Move(w, Place("sendcb", at[w].arg))
        \/ Move(w, Place("timer", at[w].arg)) /\ at[w].pc = "popped"
    BY <1>7 DEF WorkOn, Expire, ReceiveRest, Called, Become
  <2>2. at[w].pc = "popped" => at[w].arg \in Timers
    BY DEF Carried
  <2>. QED BY <1>1, <2>1, <2>2 DEF Idle, Place
<1>. QED BY <1>2, <1>3, <1>4, <1>5, <1>6, <1>7 DEF Next, vars

\* Every step keeps what the transaction needs.
LEMMA NextKInv ==
  ASSUME Inv, Carried, KInv, Next
  PROVE  KInv'
<1>1. CASE TuOther
  BY <1>1, TuOtherKInv
<1>2. CASE LayerStop
  BY <1>2, LayerStopKInv
<1>3. ASSUME NEW e \in Env, Tu(e)
      PROVE  KInv'
  BY <1>3, TuKInv
<1>4. ASSUME NEW e \in Env, NEW w \in Workers, Work(w, e) \/ Disconnect(w, e)
      PROVE  KInv'
  BY <1>4, FireKInv, ReceiveKInv, SendCallbackKInv, TransportCallbackKInv, DisconnectKInv
     DEF Work
<1>5. ASSUME NEW w \in Workers, Take(w)
      PROVE  KInv'
  BY <1>5, PopKInv, FindKInv, WiredKInv, SendEndsKInv DEF Take
<1>6. ASSUME NEW w \in Workers, WorkOn(w)
      PROVE  KInv'
  BY <1>6, ExpireKInv, ReceiveRestKInv, CalledKInv DEF WorkOn
<1>. QED BY <1>1, <1>2, <1>3, <1>4, <1>5, <1>6 DEF Next

\* A step that changes nothing keeps it too.
LEMMA StutterKInv ==
  ASSUME KInv, UNCHANGED vars
  PROVE  KInv'
  BY DEF vars, KInv, TimersKept, Known, Lasting, Found, ToKept, NeedsTo, Timed, RtKept, NeedsRt,
         Repeated, AckKept, Owing, Acked, Asked

\* Inv, Carried and KInv hold in every state, with any number of workers.
THEOREM TimersInvariance == Spec => [](Inv /\ Carried /\ KInv)
<1>1. Init => Inv /\ Carried /\ KInv
  <2>1. Init => Carried
    BY DEF Init, Carried, Idle
  <2>. QED BY <2>1, InitInv, InitKInv
<1>2. Inv /\ Carried /\ KInv /\ [Next]_vars => (Inv /\ Carried /\ KInv)'
  BY NextOwed, StutterOwed, CarriedKept, NextKInv, StutterKInv DEF Owed
<1>. QED BY <1>1, <1>2, PTL DEF Spec

\* With any number of workers, a transaction in a state that only a timeout ends
\* has its timeout coming, in the heap or on its way from the heap to the handler.
THEOREM TimeoutComes == Spec => []NeverOrphaned
<1>1. KInv => NeverOrphaned
  BY DEF KInv, ToKept, NeedsTo, Timed, On, NeverOrphaned, NeedsTimeout, Waiting, LockFree,
         Ticking
<1>. QED BY TimersInvariance, <1>1, PTL

\* With any number of workers, over an unreliable transport, what has to be
\* repeated goes on being repeated: by the timer, or once a transport is found.
THEOREM RetransmissionGoesOn == Spec => []RetransmissionKept
<1>1. Inv /\ KInv => RetransmissionKept
  BY DEF KInv, RtKept, NeedsRt, Repeated, On, RetransmissionKept, NeedsRetransmit, Waiting,
         Ticking, Ended
<1>. QED BY TimersInvariance, <1>1, PTL

\* Both, whichever thread stops a timer and whichever starts it.
THEOREM NothingIsForgotten == Spec => []NothingForgotten
  BY TimeoutComes, RetransmissionGoesOn, PTL DEF NothingForgotten

\* With any number of workers, a client transaction that keeps a rejection of
\* its INVITE has acknowledged it, or does once the transport is found.
THEOREM AckIsSent == Spec => []AckGoesOut
<1>1. KInv => AckGoesOut
  BY DEF KInv, AckKept, Owing, Acked, Asked, Ended, AckGoesOut
<1>. QED BY TimersInvariance, <1>1, PTL

-----------------------------------------------------------------------------
(***************************************************************************)
(* One thread polls the endpoint and the TU runs in it, for every bound:   *)
(* no assertion fails but three, a stateless send and the transaction      *)
(* agree, the heap holds no timer of a destroyed transaction, the states   *)
(* go forward, and no message follows the one that replaced it.            *)
(*                                                                         *)
(* AloneInv, the inductive invariant, says what a live transaction looks   *)
(* like in each state (Client, Server), what is left of one that has ended *)
(* (Gone), and what the thread has in hand (Held).                         *)
(***************************************************************************)

\* One polling thread, and the TU in it.
Alone == ~TuThread /\ \A v, w \in Workers : v = w

Harmless    == {"uas_pending_timer", "tx_pending", "dead"}
Provisional == {"r100", "r1xx"}
Decisive    == {"r2xx", "r3xx"}
Early       == {"NULL", "TRYING", "PROCEEDING"}

\* A timer that runs has its id set.
Armed(t) == \A x \in Timers : t.due[x] # "off" => x \in t.armed

Sound(t) == Armed(t) /\ t.failed \subseteq Harmless /\ "DESTROY" \notin t.flags

\* A message is left to the background only while a transport is looked for.
Half(t) == "TRANSPORT" \in t.flags \/ t.pending = "none"

Paired(t) == t.pending # "none" <=> "TRANSPORT" \in t.flags

\* What is left of a transaction.
Gone(t) == /\ t.state \in Ended
           /\ "TRANSPORT" \notin t.flags /\ t.pending = "none"
           /\ t.alive => t.state = "TERMINATED"
           /\ ~t.alive => \A x \in Timers : t.due[x] = "off"

\* The flags of a live transaction.
Flagged(t) == /\ "TRANSPORT" \in t.flags => "RESOLVED" \notin t.flags
              /\ "RESOLVED" \in t.flags => t.transport
              /\ {"SEND", "RESCHED"} \cap t.flags # {} => "TRANSPORT" \in t.flags
              /\ "RESCHED" \in t.flags => t.due["rt"] = "off"

Client(t) ==
    /\ t.state \in {"NULL", "CALLING", "PROCEEDING", "COMPLETED"}
    /\ "SEND" \notin t.flags
    /\ "TRANSPORT" \in t.flags => t.state = "CALLING" /\ t.due["rt"] = "off"
    /\ t.state = "NULL" => /\ t.wire = {} /\ ~t.transport /\ t.status = 0
                           /\ \A x \in Timers : t.due[x] = "off"
    /\ t.state # "NULL" => {"TRANSPORT", "RESOLVED"} \cap t.flags # {}
    /\ t.state = "COMPLETED" => t.due["rt"] = "off"
    /\ t.wire \subseteq Requests /\ t.last \in Requests /\ t.pending \in {"none", "req"}

Server(t) ==
    /\ t.state \in {"NULL", "TRYING", "PROCEEDING", "COMPLETED", "CONFIRMED"}
    /\ t.state \in Early =>
         t.due["to"] = "off" /\ (t.wire \cup {t.pending}) \cap Decisive = {}
    /\ t.state \in {"NULL", "TRYING"} => t.due["rt"] = "off" /\ "TRANSPORT" \notin t.flags
    /\ t.state = "PROCEEDING" => t.last \in Provisional
    /\ t.state \in {"COMPLETED", "CONFIRMED"} => t.last \in Decisive
    /\ t.pending \in Provisional => t.wire \cap Decisive = {}
    /\ t.state = "CONFIRMED" => t.due["rt"] = "off" /\ "RESCHED" \notin t.flags

Live(t) == /\ t.state \notin Ended /\ t.alive
           /\ Flagged(t)
           /\ IF t.role = "UAC" THEN Client(t) ELSE Server(t)

-----------------------------------------------------------------------------
(* The contracts of the helpers *)

\* u is t with other timers.
Clock(t, u) ==
    /\ u \in Tsx
    /\ u.role = t.role /\ u.invite = t.invite /\ u.state = t.state /\ u.status = t.status
    /\ u.reliable = t.reliable /\ u.transport = t.transport /\ u.flags = t.flags
    /\ u.pending = t.pending /\ u.last = t.last /\ u.alive = t.alive
    /\ u.out = t.out /\ u.wire = t.wire /\ u.failed = t.failed
    /\ Armed(u)

\* u is t, terminated.
Ends(t, u) ==
    /\ u \in Tsx
    /\ u.role = t.role /\ u.invite = t.invite /\ u.alive = t.alive
    /\ u.out = t.out /\ u.due["rt"] = t.due["rt"]
    /\ Sound(u)
    /\ u.state = "TERMINATED" /\ "TRANSPORT" \notin u.flags /\ u.pending = "none"

\* A timer that is cancelled, behind the test of its id.
LEMMA CancelClock ==
  ASSUME NEW t \in Tsx, NEW x \in Timers, Armed(t)
  PROVE  LET u == Cancel(t, x)
         IN  Clock(t, u) /\ u.due[x] = "off" /\ \A y \in Timers \ {x} : u.due[y] = t.due[y]
<1>. DEFINE u == Cancel(t, x)
<1>1. u \in Tsx
  BY CancelStill DEF Still
<1>2. CASE x \in t.armed
  <2>1. u = [t EXCEPT !.armed = @ \ {x}, !.due[x] = "off"]
    BY <1>2 DEF Cancel
  <2>. QED BY <1>1, <2>1 DEF Clock, Armed, Tsx
<1>3. CASE x \notin t.armed
  BY <1>1, <1>3 DEF Cancel, Clock, Armed
<1>. QED BY <1>2, <1>3

\* A timer that is taken from the heap keeps its id.
LEMMA UnscheduleClock ==
  ASSUME NEW t \in Tsx, NEW x \in Timers, Armed(t)
  PROVE  LET u == Unschedule(t, x)
         IN  Clock(t, u) /\ u.due[x] = "off" /\ \A y \in Timers \ {x} : u.due[y] = t.due[y]
<1>1. Unschedule(t, x) \in Tsx
  BY UnscheduleStill DEF Still
<1>. QED BY <1>1 DEF Unschedule, Clock, Armed, Tsx

\* A timer that does not run is scheduled.
LEMMA ScheduleClock ==
  ASSUME NEW t \in Tsx, NEW x \in Timers, NEW d \in Delays, Armed(t), t.due[x] = "off"
  PROVE  LET u == Schedule(t, x, d)
         IN  Clock(t, u) /\ u.due[x] = d /\ \A y \in Timers \ {x} : u.due[y] = t.due[y]
<1>. DEFINE u == Schedule(t, x, d)
<1>1. u \in Tsx
  BY ScheduleStill DEF Still
<1>2. u = [[t EXCEPT !.armed = @ \cup {x}] EXCEPT !.due[x] = d]
  BY DEF Schedule, Tsx
<1>. QED BY <1>1, <1>2 DEF Clock, Armed, Tsx

\* One change of timers after another.
LEMMA ClockTrans ==
  ASSUME NEW t, NEW u, NEW v, Clock(t, u), Clock(u, v)
  PROVE  Clock(t, v)
  BY DEF Clock

\* A timer that is set anew, whether it ran or not.
LEMMA RestartClock ==
  ASSUME NEW t \in Tsx, NEW x \in Timers, NEW d \in Delays, Armed(t)
  PROVE  LET u == Schedule(Cancel(t, x), x, d)
         IN  Clock(t, u) /\ u.due[x] = d /\ \A y \in Timers \ {x} : u.due[y] = t.due[y]
<1>. DEFINE v == Cancel(t, x)
            u == Schedule(v, x, d)
<1>1. Clock(t, v) /\ v.due[x] = "off" /\ \A y \in Timers \ {x} : v.due[y] = t.due[y]
  BY CancelClock
<1>. HIDE DEF v
<1>2. v \in Tsx /\ Armed(v)
  BY <1>1 DEF Clock
<1>3. Clock(v, u) /\ u.due[x] = d /\ \A y \in Timers \ {x} : u.due[y] = v.due[y]
  BY <1>1, <1>2, ScheduleClock
<1>. HIDE DEF u
<1>4. Clock(t, u)
  BY <1>1, <1>3, ClockTrans
<1>5. \A y \in Timers \ {x} : u.due[y] = t.due[y]
  BY <1>1, <1>3
<1>. QED BY <1>3, <1>4, <1>5 DEF u, v

-----------------------------------------------------------------------------
(* The state *)

\* The end of a transaction starts its last timer and lets go of its message.
LEMMA ReapEnds ==
  ASSUME NEW t \in Tsx, Sound(t), Half(t), t.state = "TERMINATED"
  PROVE  Ends(t, Reap(t))
<1>. DEFINE u == IF "TRANSPORT" \in t.flags
                 THEN [Clear(t, "TRANSPORT") EXCEPT !.pending = "none"]
                 ELSE t
            r == Schedule(Cancel(u, "to"), "to", "zero")
<1>1. u \in Tsx /\ Sound(u) /\ u.pending = "none" /\ "TRANSPORT" \notin u.flags
      /\ u.role = t.role /\ u.invite = t.invite /\ u.alive = t.alive
      /\ u.out = t.out /\ u.state = t.state /\ u.due = t.due
  BY ZenonT(60) DEF Clear, Sound, Armed, Half, Tsx
<1>. HIDE DEF u
<1>2. Clock(u, r) /\ r.due["rt"] = u.due["rt"]
  BY <1>1, RestartClock DEF Sound, Timers, Delays
<1>3. Reap(t) = r
  BY DEF Reap, u
<1>. HIDE DEF r
<1>. QED BY <1>1, <1>2, <1>3 DEF Ends, Sound, Clock

\* A state no earlier than the last.
LEMMA EnterExact ==
  ASSUME NEW t \in Tsx, NEW s \in States, Rank(t.state) <= Rank(s)
  PROVE  Enter(t, s) = [t EXCEPT !.state = s] /\ Enter(t, s) \in Tsx
<1>1. Rank(t.state) \in Nat /\ Rank(s) \in Nat
  BY DEF Rank
<1>2. Check(t, Rank(s) >= Rank(t.state), "state_order") = t
  BY <1>1 DEF Check
<1>. QED BY <1>2 DEF Enter, Tsx

\* What is not destroyed may be terminated.
LEMMA RankTerminated ==
  ASSUME NEW s \in States
  PROVE  /\ Rank(s) \in Nat
         /\ s # "DESTROYED" => Rank(s) <= Rank("TERMINATED")
         /\ s \notin Ended => ~(Rank(s) >= Rank("TERMINATED"))
         /\ s \in Ended => Rank(s) >= Rank("TERMINATED")
  BY DEF States, Rank, Ended

\* pjsip_tsx_terminate ends the transaction.
LEMMA ForceEnds ==
  ASSUME NEW t \in Tsx, Sound(t), Half(t), t.state # "DESTROYED"
  PROVE  Ends(t, ForceTerminate(t))
<1>. DEFINE n == Enter(t, "TERMINATED")
            u == [n EXCEPT !.status = 487]
<1>1. n = [t EXCEPT !.state = "TERMINATED"] /\ n \in Tsx
  <2>1. t.state \in States /\ "TERMINATED" \in States
    BY DEF Tsx, States
  <2>2. Rank(t.state) <= Rank("TERMINATED")
    BY <2>1, RankTerminated
  <2>. QED BY <2>1, <2>2, EnterExact
<1>2. u \in Tsx /\ Sound(u) /\ Half(u) /\ u.state = "TERMINATED"
      /\ u.role = t.role /\ u.invite = t.invite /\ u.alive = t.alive
      /\ u.out = t.out /\ u.due = t.due
  BY <1>1 DEF Sound, Armed, Half, Tsx, Codes
<1>3. ForceTerminate(t) = Reap(u)
  BY DEF ForceTerminate
<1>. HIDE DEF n, u
<1>4. Ends(u, Reap(u))
  BY <1>2, ReapEnds
<1>. QED BY <1>2, <1>3, <1>4 DEF Ends

\* tsx_set_state enters the state, or the TU ends the transaction meanwhile.
LEMMA SetStateExact ==
  ASSUME NEW t \in Tsx, Sound(t), Half(t), NEW s \in States \ Ended, NEW e \in Env,
         Rank(t.state) <= Rank(s)
  PROVE  SetState(t, s, e) = [t EXCEPT !.state = s] \/ Ends(t, SetState(t, s, e))
<1>. DEFINE u == Enter(t, s)
            w == [t EXCEPT !.state = s]
<1>1. u = w /\ u \in Tsx
  BY EnterExact
<1>2. SetState(t, s, e) = IF e.tu = "terminate" THEN Terminate(u) ELSE u
  BY DEF SetState, Ended
<1>. HIDE DEF u
<1>3. Sound(w) /\ Half(w) /\ w.state = s /\ w \in Tsx
      /\ w.role = t.role /\ w.invite = t.invite /\ w.alive = t.alive
      /\ w.out = t.out /\ w.due = t.due
  BY <1>1 DEF Sound, Armed, Half, Tsx
<1>. HIDE DEF w
<1>4. w.state # "DESTROYED" /\ ~(Rank(w.state) >= Rank("TERMINATED"))
  BY <1>3, RankTerminated DEF Ended
<1>5. Terminate(w) = ForceTerminate(w)
  BY <1>4 DEF Terminate
<1>6. Ends(w, ForceTerminate(w))
  BY <1>3, <1>4, ForceEnds
<1>7. Ends(t, Terminate(w))
  BY <1>3, <1>5, <1>6 DEF Ends
<1>. QED BY <1>1, <1>2, <1>7 DEF w

\* tsx_set_state to Terminated ends the transaction.
LEMMA TerminatedEnds ==
  ASSUME NEW t \in Tsx, Sound(t), Half(t), t.state # "DESTROYED", NEW e \in Env
  PROVE  Ends(t, SetState(t, "TERMINATED", e))
<1>. DEFINE u == Enter(t, "TERMINATED")
            v == IF e.tu = "terminate" THEN Terminate(u) ELSE u
<1>1. u = [t EXCEPT !.state = "TERMINATED"] /\ u \in Tsx
  <2>1. t.state \in States /\ "TERMINATED" \in States
    BY DEF Tsx, States
  <2>2. Rank(t.state) <= Rank("TERMINATED")
    BY <2>1, RankTerminated
  <2>. QED BY <2>1, <2>2, EnterExact
<1>2. u.state = "TERMINATED" /\ Sound(u) /\ Half(u)
      /\ u.role = t.role /\ u.invite = t.invite /\ u.alive = t.alive
      /\ u.out = t.out /\ u.due = t.due
  BY <1>1 DEF Sound, Armed, Half, Tsx
<1>3. v = u
  <2>1. Rank(u.state) >= Rank("TERMINATED")
    BY <1>2 DEF Rank
  <2>. QED BY <2>1 DEF Terminate
<1>4. SetState(t, "TERMINATED", e) = Reap(u)
  BY <1>3 DEF SetState
<1>. HIDE DEF u, v
<1>5. Ends(u, Reap(u))
  BY <1>1, <1>2, ReapEnds
<1>. QED BY <1>2, <1>4, <1>5 DEF Ends

\* An error ends the transaction.
LEMMA FailEnds ==
  ASSUME NEW t \in Tsx, Sound(t), Half(t), t.state # "DESTROYED",
         NEW code \in Codes, NEW e \in Env
  PROVE  Ends(t, Fail(t, code, e))
<1>. DEFINE u == [t EXCEPT !.status = code]
<1>1. u \in Tsx /\ Sound(u) /\ Half(u) /\ u.state = t.state
      /\ u.role = t.role /\ u.invite = t.invite /\ u.alive = t.alive
      /\ u.out = t.out /\ u.due = t.due
  BY DEF Sound, Armed, Half, Tsx
<1>2. Fail(t, code, e) = SetState(u, "TERMINATED", e)
  BY DEF Fail
<1>. HIDE DEF u
<1>3. Ends(u, SetState(u, "TERMINATED", e))
  BY <1>1, TerminatedEnds
<1>. QED BY <1>1, <1>2, <1>3 DEF Ends

\* u is t, destroyed.
Freed(t, u) ==
    /\ u \in Tsx
    /\ u.role = t.role /\ u.invite = t.invite /\ ~u.alive
    /\ u.out = t.out
    /\ Sound(u)
    /\ u.state = t.state /\ "TRANSPORT" \notin u.flags /\ u.pending = "none"
    /\ \A x \in Timers : u.due[x] = "off"

\* tsx_destroy of a transaction that waits for nothing.
LEMMA DestroyFrees ==
  ASSUME NEW t \in Tsx, Sound(t), "TRANSPORT" \notin t.flags, t.pending = "none"
  PROVE  Freed(t, Destroy(t))
<1>. DEFINE a == Cancel(t, "to")
            b == Cancel(a, "rt")
            u == [b EXCEPT !.transport = FALSE, !.last = "none",
                           !.flags = @ \ {"RESCHED", "SEND"}]
<1>1. Clock(t, a) /\ a.due["to"] = "off"
  BY CancelClock DEF Sound, Timers
<1>. HIDE DEF a
<1>2. a \in Tsx /\ Armed(a)
  BY <1>1 DEF Clock
<1>3. Clock(a, b) /\ b.due["rt"] = "off" /\ b.due["to"] = a.due["to"]
  BY <1>2, CancelClock DEF Timers
<1>. HIDE DEF b
<1>4. Clock(t, b) /\ \A x \in Timers : b.due[x] = "off"
  BY <1>1, <1>3, ClockTrans DEF Timers
<1>5. "TRANSPORT" \notin u.flags
  BY <1>4 DEF Clock, Tsx
<1>6. Destroy(t) = [u EXCEPT !.alive = FALSE]
  BY <1>5 DEF Destroy, a, b
<1>7. b \in Tsx /\ Sound(b) /\ b.pending = "none"
  BY <1>4 DEF Clock, Sound
<1>8. /\ u \in Tsx /\ Sound(u) /\ u.pending = b.pending /\ u.role = b.role
      /\ u.invite = b.invite /\ u.out = b.out /\ u.state = b.state /\ u.due = b.due
  BY <1>7 DEF Sound, Armed, Tsx
<1>. DEFINE v == [u EXCEPT !.alive = FALSE]
<1>. HIDE DEF u
<1>9. /\ v \in Tsx /\ Sound(v) /\ ~v.alive /\ v.pending = u.pending /\ v.role = u.role
      /\ v.invite = u.invite /\ v.out = u.out /\ v.state = u.state /\ v.due = u.due
      /\ v.flags = u.flags
  BY <1>8 DEF Sound, Armed, Tsx
<1>. HIDE DEF v
<1>10. Freed(t, v)
  BY <1>4, <1>5, <1>7, <1>8, <1>9 DEF Freed, Clock
<1>. QED BY <1>6, <1>10 DEF v

\* tsx_set_state to Destroyed, once the last timer of a terminated one has fired.
LEMMA DestroyedFrees ==
  ASSUME NEW t \in Tsx, Sound(t), "TRANSPORT" \notin t.flags, t.pending = "none",
         NEW e \in Env
  PROVE  LET u == SetState(t, "DESTROYED", e)
         IN  Freed([t EXCEPT !.state = "DESTROYED"], u)
<1>. DEFINE n == Enter(t, "DESTROYED")
            w == [t EXCEPT !.state = "DESTROYED"]
            v == IF e.tu = "terminate" THEN Terminate(n) ELSE n
            d == [n EXCEPT !.registered = FALSE]
<1>1. n = w /\ n \in Tsx
  <2>1. t.state \in States /\ "DESTROYED" \in States
    BY DEF Tsx, States
  <2>2. Rank(t.state) <= Rank("DESTROYED")
    BY <2>1 DEF States, Rank
  <2>. QED BY <2>1, <2>2, EnterExact
<1>2. n.state = "DESTROYED" /\ Sound(n) /\ "TRANSPORT" \notin n.flags /\ n.pending = "none"
  BY <1>1 DEF Sound, Armed, Tsx
<1>3. v = n
  <2>1. Rank(n.state) >= Rank("TERMINATED")
    BY <1>2 DEF Rank
  <2>. QED BY <2>1 DEF Terminate
<1>4. SetState(t, "DESTROYED", e) = Destroy(d)
  BY <1>3 DEF SetState
<1>. HIDE DEF n, v, w
<1>5. d \in Tsx /\ Sound(d) /\ "TRANSPORT" \notin d.flags /\ d.pending = "none"
      /\ d.role = n.role /\ d.invite = n.invite /\ d.out = n.out /\ d.state = n.state
  BY <1>1, <1>2 DEF Sound, Armed, Tsx
<1>. HIDE DEF d
<1>6. Freed(d, Destroy(d))
  BY <1>5, DestroyFrees
<1>7. Freed(w, Destroy(d))
  BY <1>1, <1>5, <1>6 DEF Freed
<1>. QED BY <1>4, <1>7 DEF w

-----------------------------------------------------------------------------
(* Sending *)

\* What sending leaves alone.
Base(t, u) ==
    /\ u \in Tsx
    /\ u.role = t.role /\ u.invite = t.invite /\ u.alive = t.alive
    /\ u.state = t.state /\ u.last = t.last /\ u.due = t.due
    /\ Sound(u)

\* What becomes of message m: it is left to a stateless send that is under way,
\* is sent, finds its transport at once, or begins to look for it.
Postponed(t, u) ==
    /\ "TRANSPORT" \in t.flags /\ u.flags = t.flags \cup {"SEND"}
    /\ u.transport = t.transport /\ u.pending = t.pending
    /\ u.out = t.out /\ u.wire = t.wire

Emitted(t, u, m) ==
    /\ "TRANSPORT" \notin t.flags
    /\ (u.flags = t.flags /\ t.transport) \/ u.flags = t.flags \cup {"RESOLVED"}
    /\ u.transport /\ u.pending = t.pending
    /\ u.out = t.out \cup {m} /\ u.wire = t.wire \cup {m}

Searches(t, u, m) ==
    /\ {"TRANSPORT", "RESOLVED"} \cap t.flags = {}
    /\ u.flags = t.flags \cup {"TRANSPORT"} /\ u.pending = m
    /\ u.out = t.out /\ u.wire = t.wire

Sent(t, u, m) == Base(t, u) /\ (Postponed(t, u) \/ Emitted(t, u, m) \/ Searches(t, u, m))

\* Before a message is sent.
Sendable(t) == /\ t \in Tsx
               /\ Sound(t) /\ Flagged(t) /\ Paired(t) /\ t.state \notin Ended

\* A message on the wire.
LEMMA EmitBase ==
  ASSUME NEW t \in Tsx, Sound(t), NEW m \in Messages, NEW queued \in BOOLEAN
  PROVE  LET u == Emit(t, m, queued)
         IN  /\ Base(t, u) /\ u.flags = t.flags /\ u.transport = t.transport
             /\ u.pending = t.pending /\ u.status = t.status /\ u.reliable = t.reliable
             /\ u.out = t.out \cup {m} /\ u.wire = t.wire \cup {m}
<1>1. Emit(t, m, queued) \in Tsx
  BY EmitQuiet DEF Quiet, Moves
<1>. QED BY <1>1 DEF Emit, Base, Sound, Armed, Tsx

\* tsx_send_msg with no stateless send in progress: over the transport, or with
\* an error that ends the transaction, or not yet.
LEMMA SendViaCases ==
  ASSUME NEW t \in Tsx, Sound(t), t.state # "DESTROYED", t.pending = "none",
         "RESOLVED" \in t.flags => t.transport,
         NEW m \in Messages, NEW e \in Env
  PROVE  LET u == SendVia(t, m, e)
         IN  /\ Accepted(t, m, e) => u = Emit(t, m, e.net = "queued") /\ t.transport
             /\ ~Accepted(t, m, e) /\ "RESOLVED" \in t.flags => Ends(t, u)
             /\ ~Accepted(t, m, e) /\ "RESOLVED" \notin t.flags =>
                  /\ Base(t, u) /\ u.flags = t.flags /\ u.pending = "none"
                  /\ u.out = t.out /\ u.wire = t.wire /\ u.sends = t.sends
<1>. DEFINE h == t.transport => m \notin t.sends
            c == Check(t, h, "tx_pending")
            u == [c EXCEPT !.transport = FALSE]
            r == SendVia(t, m, e)
<1>1. c \in Tsx /\ c.failed \subseteq t.failed \cup {"tx_pending"} /\ Base(t, c)
      /\ c.flags = t.flags /\ c.pending = t.pending /\ c.out = t.out /\ c.wire = t.wire
      /\ c.sends = t.sends
  BY DEF Check, Base, Sound, Armed, Harmless, Tsx, Assertions
<1>2. r = IF Accepted(t, m, e) THEN Emit(t, m, e.net = "queued")
          ELSE IF "RESOLVED" \in t.flags THEN Fail(Check(u, t.transport, "send_status"), 503, e)
          ELSE u
  BY DEF SendVia
<1>. HIDE DEF c
<1>3. u \in Tsx /\ Base(t, u)
      /\ u.flags = t.flags /\ u.pending = t.pending /\ u.out = t.out /\ u.wire = t.wire
      /\ u.sends = t.sends
  BY <1>1 DEF Base, Sound, Armed, Tsx
<1>. HIDE DEF u
<1>4. CASE "RESOLVED" \in t.flags
  <2>1. Check(u, t.transport, "send_status") = u
    BY <1>4 DEF Check
  <2>2. Sound(u) /\ Half(u) /\ u.state # "DESTROYED" /\ 503 \in Codes
    BY <1>3 DEF Base, Half, Codes
  <2>3. Ends(u, Fail(u, 503, e))
    BY <1>3, <2>2, FailEnds
  <2>4. Ends(t, Fail(u, 503, e))
    BY <1>3, <2>3 DEF Ends, Base
  <2>. QED BY <1>2, <1>4, <2>1, <2>4 DEF Accepted
<1>5. CASE "RESOLVED" \notin t.flags
  BY <1>2, <1>3, <1>5 DEF Accepted
<1>. QED BY <1>4, <1>5

\* send_msg_callback after a failure there is no other server for ends the
\* transaction.
LEMMA SendFailedEnds ==
  ASSUME NEW t \in Tsx, Sound(t), t.state \notin Ended, t.pending = "none", NEW e \in Env
  PROVE  Ends(t, SendFailed(t, e))
<1>. DEFINE a == [t EXCEPT !.transport = FALSE]
            b == [a EXCEPT !.status = 503]
            u == [b EXCEPT !.flags = (@ \ {"TRANSPORT"}) \cup {"RESOLVED"}]
<1>1. a \in Tsx /\ Sound(a) /\ a.pending = "none" /\ a.state = t.state /\ a.flags = t.flags
      /\ a.role = t.role /\ a.invite = t.invite /\ a.alive = t.alive /\ a.out = t.out
      /\ a.due = t.due
  BY DEF Sound, Armed, Tsx
<1>. HIDE DEF a
<1>2. b \in Tsx /\ Sound(b) /\ b.pending = "none" /\ b.state = t.state /\ b.flags = t.flags
      /\ b.role = t.role /\ b.invite = t.invite /\ b.alive = t.alive /\ b.out = t.out
      /\ b.due = t.due
  BY <1>1 DEF Sound, Armed, Tsx, Codes
<1>. HIDE DEF b
<1>3. u \in Tsx /\ Sound(u) /\ u.pending = "none" /\ u.state = t.state
      /\ u.role = t.role /\ u.invite = t.invite /\ u.alive = t.alive /\ u.out = t.out
      /\ u.due = t.due
  BY <1>2 DEF Sound, Armed, Tsx, Flags
<1>4. u = [t EXCEPT !.transport = FALSE, !.status = 503,
                    !.flags = (@ \ {"TRANSPORT"}) \cup {"RESOLVED"}]
  BY DEF a, b, Tsx
<1>5. Rank(t.state) < Rank("TERMINATED")
  <2>1. t.state \in States
    BY DEF Tsx
  <2>. QED BY <2>1 DEF States, Ended, Rank
<1>6. SendFailed(t, e) = SetState(u, "TERMINATED", e)
  <2>. HIDE DEF u
  <2>. QED BY <1>3, <1>4, <1>5 DEF SendFailed
<1>. HIDE DEF u
<1>7. Ends(u, SetState(u, "TERMINATED", e))
  BY <1>3, TerminatedEnds DEF Half, Ended
<1>. QED BY <1>3, <1>6, <1>7 DEF Ends

\* The first part of send_msg_callback after a success.
Resolved(t, e) == [t EXCEPT !.transport = TRUE, !.reliable = @ \/ e.rel,
                            !.flags = (@ \ {"TRANSPORT"}) \cup {"RESOLVED"}]

\* The transport is known.
LEMMA ResolvedBase ==
  ASSUME NEW t \in Tsx, Sound(t), NEW e \in Env
  PROVE  LET u == Resolved(t, e)
         IN  /\ Base(t, u) /\ u.transport /\ u.pending = t.pending /\ u.status = t.status
             /\ u.flags = (t.flags \ {"TRANSPORT"}) \cup {"RESOLVED"}
             /\ u.out = t.out /\ u.wire = t.wire
<1>. DEFINE r == t.reliable \/ e.rel
            a == [t EXCEPT !.transport = TRUE]
            b == [a EXCEPT !.reliable = r]
            u == [b EXCEPT !.flags = (@ \ {"TRANSPORT"}) \cup {"RESOLVED"}]
<1>1. r \in BOOLEAN
  BY DEF Env, Tsx
<1>2. Resolved(t, e) = u
  BY DEF Resolved, Tsx
<1>. HIDE DEF r
<1>3. b \in Tsx /\ Base(t, b) /\ b.transport /\ b.pending = t.pending /\ b.status = t.status
      /\ b.flags = t.flags /\ b.out = t.out /\ b.wire = t.wire
  BY <1>1 DEF Base, Sound, Armed, Tsx
<1>. HIDE DEF b
<1>4. /\ Base(t, u) /\ u.transport /\ u.pending = t.pending /\ u.status = t.status
      /\ u.flags = (t.flags \ {"TRANSPORT"}) \cup {"RESOLVED"}
      /\ u.out = t.out /\ u.wire = t.wire
  BY <1>3 DEF Base, Sound, Armed, Tsx, Flags
<1>. QED BY <1>2, <1>4

\* tsx_send_msg with no stateless send in progress.
LEMMA SendNowSent ==
  ASSUME NEW t, Sendable(t), "TRANSPORT" \notin t.flags, NEW m \in Messages, NEW e \in Env
  PROVE  Sent(t, SendNow(t, m, e), m) \/ Ends(t, SendNow(t, m, e))
<1>. DEFINE u == SendVia(t, m, e)
            v == [u EXCEPT !.flags = @ \cup {"TRANSPORT"}]
            w == [v EXCEPT !.pending = m]
            x == Emit(v, m, FALSE)
            r == SendNow(t, m, e)
<1>1. /\ t \in Tsx /\ Sound(t) /\ t.state \notin Ended /\ t.pending = "none"
      /\ "RESOLVED" \in t.flags => t.transport
      /\ {"SEND", "RESCHED", "DESTROY", "TRANSPORT"} \cap t.flags = {}
  BY DEF Sendable, Flagged, Paired, Sound
<1>2. t.state # "DESTROYED"
  BY <1>1 DEF Ended
<1>3. r = IF ~Resolves(t, m, e) THEN u
          ELSE IF e.net \in {"queued", "waits"} THEN w
          ELSE IF e.net = "failed" \/ m \in t.sends THEN SendFailed(v, e)
          ELSE SendDone(x, e)
  BY DEF SendNow
<1>4. /\ Accepted(t, m, e) => u = Emit(t, m, e.net = "queued") /\ t.transport
      /\ ~Accepted(t, m, e) /\ "RESOLVED" \in t.flags => Ends(t, u)
      /\ ~Accepted(t, m, e) /\ "RESOLVED" \notin t.flags =>
           /\ Base(t, u) /\ u.flags = t.flags /\ u.pending = "none"
           /\ u.out = t.out /\ u.wire = t.wire /\ u.sends = t.sends
  BY <1>1, <1>2, SendViaCases
<1>. HIDE DEF u
<1>5. CASE Accepted(t, m, e)
  <2>. DEFINE q == e.net = "queued"
              p == Emit(t, m, q)
  <2>1. r = p /\ t.transport
    BY <1>3, <1>4, <1>5 DEF Resolves
  <2>2. q \in BOOLEAN
    OBVIOUS
  <2>. HIDE DEF q
  <2>3. /\ Base(t, p) /\ p.flags = t.flags /\ p.transport = t.transport
        /\ p.pending = t.pending /\ p.out = t.out \cup {m} /\ p.wire = t.wire \cup {m}
    BY <1>1, <2>2, EmitBase
  <2>. HIDE DEF p, r
  <2>4. Sent(t, r, m)
    BY <1>1, <2>1, <2>3 DEF Sent, Emitted
  <2>. QED BY <2>4 DEF r
<1>6. CASE ~Accepted(t, m, e) /\ "RESOLVED" \in t.flags
  BY <1>3, <1>4, <1>6 DEF Resolves
<1>7. CASE ~Accepted(t, m, e) /\ "RESOLVED" \notin t.flags
  <2>1. /\ Base(t, u) /\ u.flags = t.flags /\ u.pending = "none"
        /\ u.out = t.out /\ u.wire = t.wire
    BY <1>4, <1>7
  <2>2. /\ v \in Tsx /\ Base(t, v) /\ v.flags = t.flags \cup {"TRANSPORT"}
        /\ v.pending = "none" /\ v.out = t.out /\ v.wire = t.wire
    BY <2>1 DEF Base, Sound, Armed, Tsx, Flags
  <2>. HIDE DEF v
  <2>3. CASE r = w
    <3>1. /\ Base(t, w) /\ w.flags = t.flags \cup {"TRANSPORT"}
          /\ w.pending = m /\ w.out = t.out /\ w.wire = t.wire
      BY <2>2 DEF Base, Sound, Armed, Tsx
    <3>. HIDE DEF w, r
    <3>2. Sent(t, r, m)
      BY <1>1, <1>7, <2>3, <3>1 DEF Sent, Searches
    <3>. QED BY <3>2 DEF r
  <2>4. CASE r = SendFailed(v, e)
    <3>1. Sound(v) /\ v.state \notin Ended
      BY <1>1, <2>2 DEF Base
    <3>2. Ends(v, r)
      BY <2>2, <2>4, <3>1, SendFailedEnds
    <3>. HIDE DEF r
    <3>3. Ends(t, r)
      BY <2>2, <3>2 DEF Ends, Base
    <3>. QED BY <3>3 DEF r
  <2>5. CASE r = SendDone(x, e)
    <3>1. Sound(v)
      BY <2>2 DEF Base
    <3>2. /\ Base(v, x) /\ x.flags = v.flags /\ x.pending = v.pending
          /\ x.out = v.out \cup {m} /\ x.wire = v.wire \cup {m}
      BY <2>2, <3>1, EmitBase
    <3>. HIDE DEF x
    <3>. DEFINE y == Resolved(x, e)
    <3>3. x \in Tsx /\ Sound(x)
      BY <3>2 DEF Base
    <3>4. /\ Base(x, y) /\ y.transport /\ y.pending = x.pending
          /\ y.flags = (x.flags \ {"TRANSPORT"}) \cup {"RESOLVED"}
          /\ y.out = x.out /\ y.wire = x.wire
      BY <3>3, ResolvedBase
    <3>5. {"SEND", "RESCHED", "DESTROY"} \cap x.flags = {}
      BY <1>1, <2>2, <3>2
    <3>6. "SEND" \notin y.flags
      <4>. HIDE DEF y
      <4>. QED BY <3>4, <3>5
    <3>7. SendDone(x, e) = y
      BY <3>5, <3>6 DEF SendDone, Resolved
    <3>. HIDE DEF y, r
    <3>8. Base(t, y) /\ y.transport /\ y.pending = t.pending
          /\ y.flags = t.flags \cup {"RESOLVED"}
          /\ y.out = t.out \cup {m} /\ y.wire = t.wire \cup {m}
      BY <1>1, <2>2, <3>2, <3>4 DEF Base
    <3>9. Sent(t, r, m)
      BY <1>1, <2>5, <3>7, <3>8 DEF Sent, Emitted
    <3>. QED BY <3>9 DEF r
  <2>. QED BY <1>3, <1>7, <2>3, <2>4, <2>5 DEF Resolves
<1>. QED BY <1>5, <1>6, <1>7

\* tsx_send_msg.
LEMMA SendMsgSent ==
  ASSUME NEW t, Sendable(t), NEW m \in Messages, NEW e \in Env
  PROVE  Sent(t, SendMsg(t, m, e), m) \/ Ends(t, SendMsg(t, m, e))
<1>1. CASE "TRANSPORT" \in t.flags
  <2>. DEFINE u == Postpone(t)
  <2>1. /\ Base(t, u) /\ u.flags = t.flags \cup {"SEND"} /\ u.transport = t.transport
        /\ u.pending = t.pending /\ u.out = t.out /\ u.wire = t.wire
    BY DEF Sendable, Postpone, Base, Sound, Armed, Tsx, Flags
  <2>2. SendMsg(t, m, e) = u
    BY <1>1 DEF SendMsg
  <2>. HIDE DEF u
  <2>3. Sent(t, u, m)
    BY <1>1, <2>1 DEF Sent, Postponed
  <2>. QED BY <2>2, <2>3
<1>2. CASE "TRANSPORT" \notin t.flags
  BY <1>2, SendNowSent DEF SendMsg
<1>. QED BY <1>1, <1>2

\* tsx_resched_retransmission, of a timer that does not run.
LEMMA ReschedClock ==
  ASSUME NEW t \in Tsx, Armed(t), "TRANSPORT" \notin t.flags, t.due["rt"] = "off",
         t.role = "UAC" => t.status < 200
  PROVE  Clock(t, Resched(t)) /\ Resched(t).due["to"] = t.due["to"]
<1>. DEFINE u == Check(t, "TRANSPORT" \notin t.flags, "resched_pending")
            v == Check(u, t.role = "UAC" => t.status < 200, "resched_status")
            d == CASE t.role = "UAC" /\ t.status >= 100 -> "T2"
                   [] t.role = "UAS" /\ t.status < 200  -> "1xx"
                   [] OTHER                             -> "backoff"
<1>1. u = t
  BY DEF Check
<1>2. v = u
  BY DEF Check
<1>3. d \in Delays
  BY DEF Delays
<1>4. Resched(t) = Schedule(t, "rt", d)
  <2>1. Resched(t) = Schedule(v, "rt", d)
    BY DEF Resched
  <2>. QED BY <1>1, <1>2, <2>1
<1>. HIDE DEF d
<1>. QED BY <1>3, <1>4, ScheduleClock DEF Timers

\* A flag that is taken back.
LEMMA ClearBase ==
  ASSUME NEW t \in Tsx, Sound(t), NEW f
  PROVE  LET u == Clear(t, f)
         IN  /\ Base(t, u) /\ u.flags = t.flags \ {f} /\ u.transport = t.transport
             /\ u.pending = t.pending /\ u.status = t.status /\ u.reliable = t.reliable
             /\ u.out = t.out /\ u.wire = t.wire
<1>1. Clear(t, f) \in Tsx
  BY ClearStill DEF Still
<1>. QED BY <1>1 DEF Clear, Base, Sound, Armed, Tsx

\* A stateless send has ended, and the transaction has not let go of it.
Awaits(t) ==
    /\ t \in Tsx
    /\ Sound(t) /\ t.state \notin Ended
    /\ "TRANSPORT" \in t.flags /\ "RESOLVED" \notin t.flags /\ t.pending = "none"
    /\ "RESCHED" \in t.flags => t.due["rt"] = "off"
    /\ "SEND" \in t.flags => t.last # "none"
    /\ t.role = "UAC" => "SEND" \notin t.flags /\ t.status < 200

\* What send_msg_callback sends.
Late(t) == IF "SEND" \in t.flags THEN {t.last} ELSE {}

\* The transport is known, and nothing waits any more.
Done(t, u) ==
    /\ u \in Tsx
    /\ u.role = t.role /\ u.invite = t.invite /\ u.alive = t.alive
    /\ Sound(u)
    /\ "TRANSPORT" \notin u.flags /\ u.pending = "none"
    /\ u.out \subseteq t.out \cup Late(t)
    /\ \/ u.state = "TERMINATED"
       \/ /\ u.state = t.state /\ u.last = t.last /\ u.transport
          /\ {"SEND", "RESCHED"} \cap u.flags = {} /\ "RESOLVED" \in u.flags
          /\ u.wire \subseteq t.wire \cup Late(t)
          /\ u.due["to"] = t.due["to"]
          /\ "RESCHED" \notin t.flags => u.due["rt"] = t.due["rt"]

\* send_msg_callback after a success, before it restarts the retransmissions.
LEMMA SendLastDone ==
  ASSUME NEW t, Awaits(t), NEW e \in Env
  PROVE  LET u == Resolved(t, e)
             s == Clear(u, "SEND")
             v == IF "SEND" \notin u.flags THEN u
                  ELSE IF u.last = "none" THEN Check(s, FALSE, "no_last_tx")
                                          ELSE SendVia(s, u.last, e)
         IN  /\ v \in Tsx
             /\ v.role = t.role /\ v.invite = t.invite /\ v.alive = t.alive
             /\ Sound(v)
             /\ "TRANSPORT" \notin v.flags /\ v.pending = "none"
             /\ v.out \subseteq t.out \cup Late(t)
             /\ v.due["rt"] = t.due["rt"]
             /\ v.role = "UAC" => v.status < 200
             /\ \/ v.state = "TERMINATED"
                \/ /\ v.state = t.state /\ v.last = t.last /\ v.transport /\ v.due = t.due
                   /\ v.flags = (t.flags \ {"TRANSPORT", "SEND"}) \cup {"RESOLVED"}
                   /\ v.wire \subseteq t.wire \cup Late(t)
<1>. DEFINE u == Resolved(t, e)
            s == Clear(u, "SEND")
            v == IF "SEND" \notin u.flags THEN u
                 ELSE IF u.last = "none" THEN Check(s, FALSE, "no_last_tx")
                                         ELSE SendVia(s, u.last, e)
<1>1. /\ Base(t, u) /\ u.transport /\ u.pending = "none" /\ u.status = t.status
      /\ u.flags = (t.flags \ {"TRANSPORT"}) \cup {"RESOLVED"}
      /\ u.out = t.out /\ u.wire = t.wire
  BY ResolvedBase DEF Awaits
<1>. HIDE DEF u
<1>2. u \in Tsx /\ Sound(u) /\ u.last = t.last /\ ("SEND" \in u.flags <=> "SEND" \in t.flags)
  BY <1>1 DEF Base
<1>3. CASE "SEND" \notin t.flags
  <2>1. v = u
    BY <1>2, <1>3
  <2>. HIDE DEF v
  <2>2. (t.flags \ {"TRANSPORT"}) = t.flags \ {"TRANSPORT", "SEND"}
    BY <1>3
  <2>3. t.role = "UAC" => t.status < 200
    BY DEF Awaits
  <2>4. u.role = "UAC" => u.status < 200
    BY <1>1, <2>3 DEF Base
  <2>5. /\ u.role = t.role /\ u.invite = t.invite /\ u.alive = t.alive
        /\ u.state = t.state /\ u.due = t.due /\ "TRANSPORT" \notin u.flags
    BY <1>1 DEF Base
  <2>. QED BY <1>1, <1>2, <2>1, <2>2, <2>4, <2>5 DEF u, v
<1>4. CASE "SEND" \in t.flags
  <2>1. t.last # "none" /\ t.last \in Messages /\ t.role # "UAC"
    BY <1>4 DEF Awaits, Tsx
  <2>2. v = SendVia(s, t.last, e)
    BY <1>2, <1>4, <2>1
  <2>3. /\ Base(u, s) /\ s.flags = u.flags \ {"SEND"} /\ s.transport = u.transport
        /\ s.pending = u.pending /\ s.out = u.out /\ s.wire = u.wire
    BY <1>2, ClearBase
  <2>. HIDE DEF s, v
  <2>4. s \in Tsx /\ Sound(s) /\ s.state # "DESTROYED" /\ s.pending = "none" /\ s.transport
        /\ "RESOLVED" \in s.flags
    BY <1>1, <2>3 DEF Base, Awaits, Ended
  <2>5. /\ Accepted(s, t.last, e) => v = Emit(s, t.last, e.net = "queued")
        /\ ~Accepted(s, t.last, e) => Ends(s, v)
    BY <2>1, <2>2, <2>4, SendViaCases
  <2>6. /\ s.role = t.role /\ s.invite = t.invite /\ s.alive = t.alive /\ s.state = t.state
        /\ s.due = t.due /\ s.last = t.last /\ s.out = t.out /\ s.wire = t.wire
        /\ s.flags = (t.flags \ {"TRANSPORT", "SEND"}) \cup {"RESOLVED"}
    BY <1>1, <2>3 DEF Base
  <2>7. CASE Accepted(s, t.last, e)
    <3>. DEFINE q == e.net = "queued"
    <3>1. v = Emit(s, t.last, q)
      BY <2>5, <2>7
    <3>2. q \in BOOLEAN
      OBVIOUS
    <3>. HIDE DEF q
    <3>. DEFINE l == t.last
                p == Emit(s, l, q)
    <3>3. s \in Tsx /\ Sound(s) /\ l \in Messages
      BY <2>1, <2>4
    <3>. HIDE DEF l
    <3>4. /\ Base(s, p) /\ p.flags = s.flags /\ p.transport = s.transport
          /\ p.pending = s.pending
          /\ p.out = s.out \cup {l} /\ p.wire = s.wire \cup {l}
      BY <3>2, <3>3, EmitBase
    <3>. HIDE DEF p
    <3>5. /\ Base(s, v) /\ v.flags = s.flags /\ v.transport = s.transport
          /\ v.pending = s.pending
          /\ v.out = s.out \cup {t.last} /\ v.wire = s.wire \cup {t.last}
      BY <3>1, <3>4 DEF p, l
    <3>6. Late(t) = {t.last}
      BY <1>4 DEF Late
    <3>7. v \in Tsx /\ Sound(v) /\ v.role # "UAC" /\ v.pending = "none" /\ v.transport
      BY <2>1, <2>4, <2>6, <3>5 DEF Base
    <3>8. /\ v.role = t.role /\ v.invite = t.invite /\ v.alive = t.alive /\ v.due = t.due
          /\ v.state = t.state /\ v.last = t.last
          /\ v.flags = (t.flags \ {"TRANSPORT", "SEND"}) \cup {"RESOLVED"}
          /\ v.out = t.out \cup Late(t) /\ v.wire = t.wire \cup Late(t)
      BY <2>6, <3>5, <3>6 DEF Base
    <3>. QED BY <3>7, <3>8 DEF v, s, u
  <2>8. CASE ~Accepted(s, t.last, e)
    <3>1. Ends(s, v)
      BY <2>5, <2>8
    <3>2. /\ v \in Tsx /\ Sound(v) /\ v.role = t.role /\ v.invite = t.invite
          /\ v.alive = t.alive /\ v.out = t.out /\ v.due["rt"] = t.due["rt"]
          /\ v.state = "TERMINATED" /\ "TRANSPORT" \notin v.flags /\ v.pending = "none"
      BY <2>6, <3>1 DEF Ends
    <3>. QED BY <2>1, <3>2 DEF v, s, u
  <2>. QED BY <2>7, <2>8
<1>. QED BY <1>3, <1>4

\* send_msg_callback after a success.
LEMMA SendDoneDone ==
  ASSUME NEW t, Awaits(t), NEW e \in Env
  PROVE  Done(t, SendDone(t, e))
<1>. DEFINE u == Resolved(t, e)
            s == Clear(u, "SEND")
            v == IF "SEND" \notin u.flags THEN u
                 ELSE IF u.last = "none" THEN Check(s, FALSE, "no_last_tx")
                                         ELSE SendVia(s, u.last, e)
            c == Clear(v, "RESCHED")
            r == SendDone(t, e)
<1>1. r = IF "RESCHED" \notin t.flags THEN v ELSE IF v.reliable THEN c ELSE Resched(c)
  <2>1. "DESTROY" \notin t.flags
    BY DEF Awaits, Sound
  <2>. QED BY <2>1 DEF SendDone, Resolved
<1>2. /\ v \in Tsx
      /\ v.role = t.role /\ v.invite = t.invite /\ v.alive = t.alive
      /\ Sound(v)
      /\ "TRANSPORT" \notin v.flags /\ v.pending = "none"
      /\ v.out \subseteq t.out \cup Late(t)
      /\ v.due["rt"] = t.due["rt"]
      /\ v.role = "UAC" => v.status < 200
      /\ \/ v.state = "TERMINATED"
         \/ /\ v.state = t.state /\ v.last = t.last /\ v.transport /\ v.due = t.due
            /\ v.flags = (t.flags \ {"TRANSPORT", "SEND"}) \cup {"RESOLVED"}
            /\ v.wire \subseteq t.wire \cup Late(t)
  BY SendLastDone
<1>. HIDE DEF v
<1>3. CASE "RESCHED" \notin t.flags
  <2>. HIDE DEF r
  <2>1. Done(t, r)
    BY <1>1, <1>2, <1>3 DEF Done
  <2>. QED BY <2>1 DEF r
<1>4. CASE "RESCHED" \in t.flags
  <2>1. /\ Base(v, c) /\ c.flags = v.flags \ {"RESCHED"} /\ c.transport = v.transport
        /\ c.pending = v.pending /\ c.status = v.status /\ c.out = v.out /\ c.wire = v.wire
    BY <1>2, ClearBase
  <2>. HIDE DEF c
  <2>2. c \in Tsx /\ Armed(c) /\ "TRANSPORT" \notin c.flags /\ c.due["rt"] = "off"
        /\ (c.role = "UAC" => c.status < 200)
    BY <1>2, <1>4, <2>1 DEF Base, Sound, Awaits
  <2>3. Clock(c, Resched(c)) /\ Resched(c).due["to"] = c.due["to"]
    BY <2>2, ReschedClock
  <2>. HIDE DEF r
  <2>4. r = c \/ (Clock(c, r) /\ r.due["to"] = c.due["to"])
    BY <1>1, <1>4, <2>3
  <2>5. /\ r \in Tsx /\ Sound(r) /\ r.role = c.role /\ r.invite = c.invite
        /\ r.alive = c.alive /\ r.state = c.state /\ r.last = c.last
        /\ r.transport = c.transport /\ r.flags = c.flags /\ r.pending = c.pending
        /\ r.out = c.out /\ r.wire = c.wire /\ r.due["to"] = c.due["to"]
    BY <2>1, <2>2, <2>4 DEF Clock, Base, Sound
  <2>6. Done(t, r)
    BY <1>2, <1>4, <2>1, <2>5 DEF Done, Base
  <2>. QED BY <2>6 DEF r
<1>. QED BY <1>3, <1>4

\* send_msg_callback after a failure that leaves another server to try.
LEMMA SendRetriedClock ==
  ASSUME NEW t \in Tsx, Sound(t), NEW m \in Messages
  PROVE  LET u == SendRetried(t, m)
         IN  /\ Clock([t EXCEPT !.transport = FALSE, !.pending = m], u)
             /\ u.due["rt"] = t.due["rt"]
<1>. DEFINE u == [t EXCEPT !.transport = FALSE, !.pending = m]
            r == SendRetried(t, m)
<1>1. u \in Tsx /\ Armed(u) /\ u.due = t.due /\ u.armed = t.armed
  BY DEF Sound, Armed, Tsx
<1>2. r = IF "to" \in u.armed THEN Schedule(Cancel(u, "to"), "to", "64T1") ELSE u
  BY DEF SendRetried
<1>. HIDE DEF u
<1>3. CASE "to" \in u.armed
  <2>1. Clock(u, r) /\ r.due["rt"] = u.due["rt"]
    BY <1>1, <1>2, <1>3, RestartClock DEF Timers, Delays
  <2>. QED BY <1>1, <1>3, <2>1 DEF u
<1>4. CASE "to" \notin u.armed
  <2>1. Clock(u, u)
    BY <1>1 DEF Clock
  <2>. QED BY <1>1, <1>2, <1>4, <2>1 DEF u
<1>. QED BY <1>3, <1>4

\* The retransmission timer starts, or is left to the end of a stateless send.
LEMMA ArmRetransmitArms ==
  ASSUME NEW t \in Tsx, Sound(t), t.due["rt"] = "off", NEW d \in Delays
  PROVE  LET u == ArmRetransmit(t, d)
         IN  /\ u \in Tsx /\ Sound(u)
             /\ u.role = t.role /\ u.invite = t.invite /\ u.alive = t.alive
             /\ u.state = t.state /\ u.last = t.last /\ u.transport = t.transport
             /\ u.pending = t.pending /\ u.out = t.out /\ u.wire = t.wire
             /\ u.due["to"] = t.due["to"]
             /\ \/ "TRANSPORT" \notin t.flags /\ u.flags = t.flags
                \/ /\ "TRANSPORT" \in t.flags /\ u.flags = t.flags \cup {"RESCHED"}
                   /\ u.due["rt"] = "off"
<1>. DEFINE u == ArmRetransmit(t, d)
<1>1. CASE "TRANSPORT" \in t.flags
  <2>. DEFINE f == t.flags \cup {"RESCHED"}
              x == [t EXCEPT !.flags = f]
  <2>1. f \in SUBSET Flags /\ "DESTROY" \notin f
    BY DEF Sound, Tsx, Flags
  <2>2. u = x
    BY <1>1 DEF ArmRetransmit
  <2>. HIDE DEF f
  <2>3. /\ x \in Tsx /\ Sound(x) /\ x.role = t.role /\ x.invite = t.invite
        /\ x.alive = t.alive /\ x.state = t.state /\ x.last = t.last
        /\ x.transport = t.transport /\ x.pending = t.pending /\ x.out = t.out
        /\ x.wire = t.wire /\ x.due = t.due /\ x.flags = f
    BY <2>1 DEF Sound, Armed, Tsx
  <2>. HIDE DEF u, x
  <2>. QED BY <1>1, <2>2, <2>3 DEF f, u
<1>2. CASE "TRANSPORT" \notin t.flags
  <2>1. u = Schedule(t, "rt", d)
    BY <1>2 DEF ArmRetransmit
  <2>2. Clock(t, u) /\ u.due["to"] = t.due["to"]
    BY <2>1, ScheduleClock DEF Sound, Timers
  <2>. HIDE DEF u
  <2>. QED BY <1>2, <2>2 DEF Clock, Sound, u
<1>. QED BY <1>1, <1>2

-----------------------------------------------------------------------------
(* What a handler owes *)

\* A transaction no handler is in the middle of.
Whole(t) == t \in Tsx /\ Sound(t) /\ Paired(t) /\ (Gone(t) \/ Live(t))

\* A client transaction that looks for a transport has not sent its request, and
\* in Completed it holds the ACK.
Calm(t) == t.role = "UAC" /\ t.state \notin Ended =>
             /\ "TRANSPORT" \in t.flags => "req" \notin t.wire
             /\ t.invite /\ t.state = "COMPLETED" => t.last = "ack"

\* The messages a step may send.
Proper(t, out) == /\ t.role = "UAC" /\ t.state = "COMPLETED" => "req" \notin out
                  /\ t.wire \cap Decisive # {} => out \cap Provisional = {}

\* u is what a step may make of t, but that it may still hold its request.
Near(t, u) == /\ u.role = t.role /\ u.invite = t.invite
              /\ Rank(t.state) <= Rank(u.state)
              /\ Proper(t, u.out)
              /\ Whole(u)

Fit(t, u) == Near(t, u) /\ Calm(u)

\* Before a handler.
Poised(t) == Whole(t) /\ Live(t) /\ Calm(t) /\ t.out = {}

\* A live transaction may send.
LEMMA PoisedSendable ==
  ASSUME NEW t, Poised(t)
  PROVE  /\ Sendable(t) /\ t \in Tsx /\ Sound(t) /\ Half(t) /\ t.alive
         /\ t.state \notin Ended /\ t.state # "DESTROYED" /\ t.state \in States
  BY DEF Poised, Whole, Live, Paired, Half, Sendable, Ended, Tsx

\* The states in their order.
LEMMA RankOrder ==
  /\ \A s \in States : Rank(s) \in Nat /\ Rank(s) <= Rank(s) /\ Rank("NULL") <= Rank(s)
  /\ \A s \in States \ {"DESTROYED"} : Rank(s) <= Rank("TERMINATED")
  /\ \A s \in States : Rank(s) <= Rank("DESTROYED")
  BY DEF States, Rank

\* What has ended is whole, and calm.
LEMMA EndsWhole ==
  ASSUME NEW t, NEW u, t.alive, Ends(t, u)
  PROVE  Whole(u) /\ Calm(u)
  BY DEF Ends, Whole, Calm, Gone, Paired, Ended

\* The end of t, or of what a handler has made of it so far.
LEMMA EndsFit ==
  ASSUME NEW t \in Tsx, NEW v, NEW u, v.alive, v.role = t.role, v.invite = t.invite,
         t.state # "DESTROYED", Proper(t, v.out), Ends(v, u)
  PROVE  Fit(t, u)
<1>1. Whole(u) /\ Calm(u)
  BY EndsWhole
<1>2. t.state \in States \ {"DESTROYED"}
  BY DEF Tsx
<1>3. Rank(t.state) <= Rank("TERMINATED")
  BY <1>2, RankOrder
<1>4. u.role = t.role /\ u.invite = t.invite /\ u.out = v.out /\ u.state = "TERMINATED"
  BY DEF Ends
<1>. QED BY <1>1, <1>3, <1>4 DEF Fit, Near

\* A handler that ends with tsx_set_state.
LEMMA SetStateNear ==
  ASSUME NEW t \in Tsx, NEW w \in Tsx, Sound(w), Half(w), w.alive,
         w.role = t.role, w.invite = t.invite, t.state # "DESTROYED", Proper(t, w.out),
         NEW s \in States \ Ended, NEW e \in Env,
         Rank(t.state) <= Rank(s), Rank(w.state) <= Rank(s),
         Paired(w), Live([w EXCEPT !.state = s])
  PROVE  LET u == SetState(w, s, e)
         IN  /\ Near(t, u) /\ u.alive
             /\ Calm([w EXCEPT !.state = s]) => Calm(u)
             /\ u = [w EXCEPT !.state = s] \/ u.state = "TERMINATED"
<1>. DEFINE u == SetState(w, s, e)
            x == [w EXCEPT !.state = s]
<1>1. u = x \/ Ends(w, u)
  BY SetStateExact
<1>. HIDE DEF u
<1>2. CASE u = x
  <2>1. x \in Tsx /\ x.state = s /\ x.role = w.role /\ x.invite = w.invite /\ x.out = w.out
        /\ Sound(x) /\ Paired(x) /\ x.alive
    BY DEF Sound, Armed, Paired, Tsx
  <2>. HIDE DEF x
  <2>2. Near(t, x)
    BY <2>1 DEF Near, Whole, x
  <2>. QED BY <1>2, <2>1, <2>2 DEF u, x
<1>3. CASE Ends(w, u)
  <2>1. Fit(t, u)
    BY <1>3, EndsFit
  <2>2. u.state = "TERMINATED" /\ u.alive
    BY <1>3 DEF Ends
  <2>. QED BY <2>1, <2>2 DEF Fit, u
<1>. QED BY <1>1, <1>2, <1>3

\* A handler that ends with tsx_set_state, and leaves a transaction in order.
LEMMA SetStateFit ==
  ASSUME NEW t \in Tsx, NEW w \in Tsx, Sound(w), Half(w), w.alive,
         w.role = t.role, w.invite = t.invite, t.state # "DESTROYED", Proper(t, w.out),
         NEW s \in States \ Ended, NEW e \in Env,
         Rank(t.state) <= Rank(s), Rank(w.state) <= Rank(s),
         Paired(w), Live([w EXCEPT !.state = s]), Calm([w EXCEPT !.state = s])
  PROVE  Fit(t, SetState(w, s, e))
  BY SetStateNear DEF Fit

\* tsx_set_state to Terminated, at the end of a handler.
LEMMA TerminatedFit ==
  ASSUME NEW t, Poised(t), NEW w \in Tsx, Sound(w), Half(w), w.alive,
         w.role = t.role, w.invite = t.invite, w.state # "DESTROYED", Proper(t, w.out),
         NEW e \in Env
  PROVE  Fit(t, SetState(w, "TERMINATED", e))
<1>1. Ends(w, SetState(w, "TERMINATED", e))
  BY TerminatedEnds
<1>. QED BY <1>1, PoisedSendable, EndsFit

\* An error, at the end of a handler.
LEMMA FailFit ==
  ASSUME NEW t, Poised(t), NEW w \in Tsx, Sound(w), Half(w), w.alive,
         w.role = t.role, w.invite = t.invite, w.state # "DESTROYED", Proper(t, w.out),
         NEW code \in Codes, NEW e \in Env
  PROVE  Fit(t, Fail(w, code, e))
<1>1. Ends(w, Fail(w, code, e))
  BY FailEnds
<1>. QED BY <1>1, PoisedSendable, EndsFit

\* Timers may change while they stay within what the state allows.
LEMMA ClockLive ==
  ASSUME NEW t \in Tsx, NEW u, Live(t), Clock(t, u),
         u.due["rt"] \in {"off", t.due["rt"]},
         t.state # "NULL" \/ u.due["to"] = t.due["to"],
         t.role = "UAC" \/ u.due["to"] \in {"off", t.due["to"]}
  PROVE  Live(u)
<1>1. Flagged(u)
  BY DEF Live, Flagged, Clock
<1>2. t.role = "UAC" => Client(u)
  <2>1. HAVE t.role = "UAC"
  <2>2. t.state = "NULL" => \A x \in Timers : u.due[x] = "off"
    BY <2>1 DEF Live, Client, Timers
  <2>. QED BY <2>1, <2>2 DEF Live, Client, Clock
<1>3. t.role # "UAC" => Server(u)
  BY DEF Live, Server, Clock
<1>4. u.role = t.role /\ u.state = t.state /\ u.alive = t.alive
  BY DEF Clock
<1>. QED BY <1>1, <1>2, <1>3, <1>4 DEF Live

\* A handler that only moves timers.
LEMMA ClockFit ==
  ASSUME NEW t, Whole(t), Calm(t), t.out = {}, NEW u, Clock(t, u),
         Gone(t) => Gone(u), Live(t) => Live(u)
  PROVE  Fit(t, u)
<1>1. t \in Tsx /\ t.state \in States
  BY DEF Whole, Tsx
<1>2. Rank(t.state) <= Rank(u.state)
  BY <1>1, RankOrder DEF Clock
<1>3. Whole(u)
  BY DEF Whole, Clock, Sound, Paired
<1>4. Calm(u)
  BY DEF Calm, Clock
<1>5. u.role = t.role /\ u.invite = t.invite /\ u.out = {}
  BY DEF Clock
<1>6. Proper(t, u.out)
  BY <1>5 DEF Proper
<1>. QED BY <1>2, <1>3, <1>4, <1>5, <1>6 DEF Fit, Near

\* A handler that does nothing.
LEMMA SameFit ==
  ASSUME NEW t, Whole(t), Calm(t), t.out = {}
  PROVE  Fit(t, t)
<1>1. Clock(t, t)
  BY DEF Clock, Whole, Sound
<1>. QED BY <1>1, ClockFit

-----------------------------------------------------------------------------
(* Messages that are repeated *)

\* w is t, but for timers, flags and assertions.
Twin(t, w) == /\ Poised(t) /\ Poised(w)
              /\ w.role = t.role /\ w.invite = t.invite
              /\ w.state = t.state /\ w.wire = t.wire

\* The message m is the one that the state of t repeats.
Repeats(t, m) ==
    /\ t.role = "UAC" => /\ "TRANSPORT" \notin t.flags /\ t.state # "NULL"
                         /\ m \in Requests
                         /\ t.state = "COMPLETED" => m = "ack"
    /\ t.role = "UAS" => \/ t.state = "PROCEEDING" /\ m \in Provisional
                         \/ t.state = "COMPLETED" /\ m \in Decisive

\* A message that is repeated leaves the transaction in order.
LEMMA SentLive ==
  ASSUME NEW t, Poised(t), NEW m \in Messages, Repeats(t, m), NEW u, Sent(t, u, m)
  PROVE  Live(u) /\ Paired(u) /\ Calm(u)
<1>1. /\ t \in Tsx /\ Live(t) /\ Calm(t) /\ Paired(t) /\ t.role \in {"UAC", "UAS"}
      /\ Flagged(t)
  BY DEF Poised, Whole, Live, Tsx
<1>2. /\ u.role = t.role /\ u.invite = t.invite /\ u.alive = t.alive
      /\ u.state = t.state /\ u.last = t.last /\ u.due = t.due
  BY DEF Sent, Base
<1>3. Postponed(t, u) \/ Emitted(t, u, m) \/ Searches(t, u, m)
  BY DEF Sent
<1>4. u.state \notin Ended /\ u.alive
  BY <1>1, <1>2 DEF Live
<1>5. m # "none"
  BY DEF Messages, Requests, Responses
<1>6. Paired(u)
  BY <1>1, <1>3, <1>5 DEF Paired, Postponed, Emitted, Searches
<1>7. CASE t.role = "UAC"
  <2>1. Client(t) /\ "TRANSPORT" \notin t.flags /\ "RESOLVED" \in t.flags /\ m \in Requests
        /\ t.state # "NULL" /\ t.transport
    BY <1>1, <1>7 DEF Live, Client, Repeats, Flagged
  <2>2. Emitted(t, u, m)
    BY <1>3, <2>1 DEF Postponed, Searches
  <2>3. /\ u.flags = t.flags /\ u.transport /\ u.pending = t.pending
        /\ u.wire = t.wire \cup {m}
    BY <2>1, <2>2 DEF Emitted
  <2>4. Flagged(u)
    BY <1>1, <1>2, <2>3 DEF Flagged
  <2>5. Client(u)
    BY <1>2, <2>1, <2>3 DEF Client
  <2>6. Calm(u)
    BY <1>1, <1>2, <2>1, <2>3 DEF Calm
  <2>. QED BY <1>2, <1>4, <1>6, <1>7, <2>4, <2>5, <2>6 DEF Live
<1>8. CASE t.role = "UAS"
  <2>1. Server(t)
    BY <1>1, <1>8 DEF Live
  <2>2. \/ t.state = "PROCEEDING" /\ m \in Provisional
        \/ t.state = "COMPLETED" /\ m \in Decisive
    BY <1>8 DEF Repeats
  <2>3. Flagged(u)
    BY <1>1, <1>2, <1>3 DEF Flagged, Postponed, Emitted, Searches
  <2>4. Server(u)
    <3>1. u.wire \subseteq t.wire \cup {m} /\ u.pending \in {t.pending, m}
      BY <1>3 DEF Postponed, Emitted, Searches
    <3>2. u.pending \in Provisional => u.wire \cap Decisive = {}
      <4>1. CASE t.state = "PROCEEDING"
        BY <2>1, <2>2, <3>1, <4>1 DEF Server, Early, Provisional, Decisive
      <4>2. CASE t.state = "COMPLETED"
        <5>1. m \in Decisive /\ m \notin Provisional
          BY <2>2, <4>2 DEF Provisional, Decisive
        <5>2. CASE Emitted(t, u, m)
          <6>1. "TRANSPORT" \notin u.flags
            BY <5>2, <1>1 DEF Emitted
          <6>2. u.pending = "none"
            BY <1>6, <6>1 DEF Paired
          <6>. QED BY <6>2 DEF Provisional
        <5>3. CASE Postponed(t, u)
          BY <2>1, <5>3 DEF Postponed, Server
        <5>4. CASE Searches(t, u, m)
          BY <5>1, <5>4 DEF Searches
        <5>. QED BY <1>3, <5>2, <5>3, <5>4
      <4>. QED BY <2>2, <4>1, <4>2
    <3>3. u.state \in Early => (u.wire \cup {u.pending}) \cap Decisive = {}
      BY <1>2, <2>1, <2>2, <3>1 DEF Server, Early, Provisional, Decisive
    <3>. QED BY <1>2, <2>1, <2>2, <3>2, <3>3 DEF Server, Early
  <2>5. Calm(u)
    BY <1>2, <1>8 DEF Calm
  <2>. QED BY <1>2, <1>4, <1>6, <1>8, <2>3, <2>4, <2>5 DEF Live
<1>. QED BY <1>1, <1>7, <1>8

\* tsx_send_msg, of a message that is repeated.
LEMMA RepeatFit ==
  ASSUME NEW t, NEW w, Twin(t, w), NEW m \in Messages, Repeats(w, m), NEW e \in Env
  PROVE  Fit(t, SendMsg(w, m, e))
<1>. DEFINE u == SendMsg(w, m, e)
<1>1. /\ Poised(w) /\ Poised(t) /\ w.out = {}
      /\ w.role = t.role /\ w.invite = t.invite /\ w.state = t.state /\ w.wire = t.wire
  BY DEF Twin, Poised
<1>2. /\ Sendable(w) /\ w \in Tsx /\ w.alive /\ w.state \notin Ended
      /\ w.state # "DESTROYED" /\ w.state \in States
  BY <1>1, PoisedSendable
<1>3. t \in Tsx /\ t.state # "DESTROYED"
  BY <1>1, PoisedSendable
<1>4. Sent(w, u, m) \/ Ends(w, u)
  BY <1>2, SendMsgSent
<1>. HIDE DEF u
<1>5. CASE Ends(w, u)
  <2>1. Proper(t, w.out)
    BY <1>1 DEF Proper
  <2>2. Fit(t, u)
    BY <1>1, <1>2, <1>3, <1>5, <2>1, EndsFit
  <2>. QED BY <2>2 DEF u
<1>6. CASE Sent(w, u, m)
  <2>1. Live(u) /\ Paired(u) /\ Calm(u)
    BY <1>1, <1>6, SentLive
  <2>2. Base(w, u)
    BY <1>6 DEF Sent
  <2>3. Whole(u)
    BY <2>1, <2>2 DEF Whole, Base
  <2>4. u.out \subseteq {m}
    BY <1>1, <1>6 DEF Sent, Postponed, Emitted, Searches
  <2>5. Proper(w, {m})
    <3>1. Live(w) /\ w.role \in {"UAC", "UAS"}
      BY <1>1, <1>2 DEF Poised, Tsx
    <3>2. CASE w.role = "UAC"
      BY <3>2 DEF Repeats, Proper, Provisional, Requests
    <3>3. CASE w.role = "UAS"
      <4>1. Server(w)
        BY <3>1, <3>3 DEF Live
      <4>. QED BY <3>3, <4>1 DEF Repeats, Proper, Server, Early, Provisional, Decisive
    <3>. QED BY <3>1, <3>2, <3>3
  <2>6. Proper(t, u.out)
    BY <1>1, <2>4, <2>5 DEF Proper
  <2>7. Rank(t.state) <= Rank(u.state)
    BY <1>1, <1>2, <2>2, RankOrder DEF Base
  <2>8. u.role = t.role /\ u.invite = t.invite
    BY <1>1, <2>2 DEF Base
  <2>9. Fit(t, u)
    BY <2>1, <2>3, <2>6, <2>7, <2>8 DEF Fit, Near
  <2>. QED BY <2>9 DEF u
<1>. QED BY <1>4, <1>5, <1>6

\* A transaction is its own twin, also with other timers.
LEMMA SelfTwin == \A t : Poised(t) => Twin(t, t)
  BY DEF Twin

\* Timers that move make a twin.
LEMMA ClockTwin ==
  ASSUME NEW t, Poised(t), NEW u, Clock(t, u), Live(u)
  PROVE  Twin(t, u)
<1>1. Whole(u) /\ Calm(u) /\ u.out = {}
  BY DEF Poised, Whole, Calm, Clock, Sound, Paired
<1>. QED BY <1>1 DEF Twin, Poised, Clock

\* tsx_retransmit.
LEMMA RetransmitFit ==
  ASSUME NEW t, NEW w, Twin(t, w), NEW resched \in BOOLEAN,
         w.last \in Messages, Repeats(w, w.last), NEW e \in Env,
         resched => /\ w.due["rt"] = "off"
                    /\ w.role = "UAC" => w.state # "COMPLETED"
                    /\ w.role = "UAC" => w.status < 200
  PROVE  Fit(t, Retransmit(w, resched, e))
<1>. DEFINE x == IF ~resched THEN w
                 ELSE IF "TRANSPORT" \in w.flags
                      THEN [w EXCEPT !.flags = @ \cup {"RESCHED"}]
                      ELSE Resched(w)
            m == w.last
<1>1. m # "none"
  BY DEF Messages, Requests, Responses
<1>2. Retransmit(w, resched, e) = SendMsg(x, m, e)
  BY <1>1 DEF Retransmit
<1>3. Poised(t) /\ Poised(w) /\ w \in Tsx /\ Sound(w) /\ Live(w) /\ Whole(w) /\ Calm(w)
      /\ w.out = {} /\ w.role = t.role /\ w.invite = t.invite /\ w.state = t.state
      /\ w.wire = t.wire
  BY DEF Twin, Poised, Whole
<1>4. Twin(t, x) /\ Repeats(x, m)
  <2>1. CASE ~resched
    BY <2>1
  <2>2. CASE resched /\ "TRANSPORT" \in w.flags
    <3>. DEFINE f == [w EXCEPT !.flags = @ \cup {"RESCHED"}]
    <3>1. x = f
      BY <2>2
    <3>2. /\ f \in Tsx /\ Sound(f) /\ f.role = w.role /\ f.invite = w.invite
          /\ f.state = w.state /\ f.wire = w.wire /\ f.out = w.out /\ f.due = w.due
          /\ f.pending = w.pending /\ f.last = w.last /\ f.alive = w.alive
          /\ f.transport = w.transport /\ f.status = w.status
          /\ f.flags = w.flags \cup {"RESCHED"}
      BY <1>3 DEF Sound, Armed, Tsx, Flags
    <3>. HIDE DEF f, x
    <3>3. w.role # "UAC" /\ w.role \in {"UAC", "UAS"}
      BY <1>3, <2>2 DEF Repeats, Tsx
    <3>4. Flagged(f)
      BY <1>3, <2>2, <3>2 DEF Live, Flagged
    <3>5. Server(f)
      <4>1. Server(w) /\ w.state \in {"PROCEEDING", "COMPLETED"}
        BY <1>3, <3>3 DEF Live, Repeats
      <4>. QED BY <3>2, <4>1 DEF Server
    <3>6. Live(f)
      BY <1>3, <3>2, <3>3, <3>4, <3>5 DEF Live
    <3>7. Poised(f)
      BY <1>3, <2>2, <3>2, <3>3, <3>6 DEF Poised, Whole, Paired, Calm
    <3>8. Twin(t, f)
      BY <1>3, <3>2, <3>7 DEF Twin
    <3>9. Repeats(f, m)
      BY <3>2, <3>3 DEF Repeats
    <3>. QED BY <3>1, <3>8, <3>9
  <2>3. CASE resched /\ "TRANSPORT" \notin w.flags
    <3>. DEFINE r == Resched(w)
    <3>1. x = r
      BY <2>3
    <3>2. Clock(w, r) /\ r.due["to"] = w.due["to"]
      BY <1>3, <2>3, ReschedClock DEF Sound
    <3>. HIDE DEF r, x
    <3>3. Live(r)
      <4>1. Flagged(r)
        BY <1>3, <2>3, <3>2 DEF Live, Flagged, Clock
      <4>2. w.role = "UAC" => Client(r)
        <5>1. HAVE w.role = "UAC"
        <5>2. w.state # "COMPLETED" /\ w.state # "NULL"
          BY <2>3, <5>1 DEF Repeats
        <5>. QED BY <1>3, <2>3, <3>2, <5>1, <5>2 DEF Live, Client, Clock
      <4>3. w.role # "UAC" => Server(r)
        <5>1. HAVE w.role # "UAC"
        <5>2. w.role = "UAS"
          BY <1>3, <5>1 DEF Tsx
        <5>. QED BY <1>3, <2>3, <3>2, <5>2 DEF Live, Server, Clock, Repeats
      <4>. QED BY <1>3, <3>2, <4>1, <4>2, <4>3 DEF Live, Clock
    <3>4. Twin(w, r)
      BY <1>3, <3>2, <3>3, ClockTwin
    <3>5. Twin(t, r)
      BY <1>3, <3>4 DEF Twin
    <3>6. Repeats(r, m)
      BY <3>2 DEF Repeats, Clock
    <3>. QED BY <3>1, <3>5, <3>6
  <2>. QED BY <2>1, <2>2, <2>3
<1>. HIDE DEF x
<1>5. m \in Messages
  OBVIOUS
<1>. HIDE DEF m
<1>6. Fit(t, SendMsg(x, m, e))
  BY <1>4, <1>5, RepeatFit
<1>. QED BY <1>2, <1>6

-----------------------------------------------------------------------------
(* The client *)

\* u is t with another status and other timers, and may have sent the ACK.
Kept(t, u) ==
    /\ u \in Tsx /\ Sound(u)
    /\ u.role = t.role /\ u.invite = t.invite /\ u.alive = t.alive /\ u.state = t.state
    /\ u.transport = t.transport /\ u.flags = t.flags
    /\ u.pending = t.pending /\ u.last = t.last
    /\ u.out \subseteq t.out \cup {"ack"} /\ u.wire \subseteq t.wire \cup {"ack"}

\* One change after another.
LEMMA KeptTrans ==
  ASSUME NEW t, NEW u, NEW v, Kept(t, u), Kept(u, v)
  PROVE  Kept(t, v)
  BY DEF Kept

\* Another status.
LEMMA StatusKept ==
  ASSUME NEW t \in Tsx, Sound(t), NEW c \in Codes
  PROVE  LET u == [t EXCEPT !.status = c]
         IN  Kept(t, u) /\ u.status = c /\ u.due = t.due /\ u.armed = t.armed
  BY DEF Kept, Sound, Armed, Tsx

\* Other timers.
LEMMA ClockKept ==
  ASSUME NEW t \in Tsx, Sound(t), NEW u, Clock(t, u)
  PROVE  Kept(t, u)
  BY DEF Kept, Clock, Sound

\* A client that has sent its request and waits for the answer.
Waits(t) == /\ Poised(t) /\ t.role = "UAC"
            /\ t.state \in {"CALLING", "PROCEEDING"} /\ "TRANSPORT" \notin t.flags

\* The next state of a client that waits.
LEMMA ClientSetState ==
  ASSUME NEW t, Waits(t), NEW w, Kept(t, w), NEW s \in {"PROCEEDING", "COMPLETED"},
         s = "COMPLETED" => w.due["rt"] = "off", NEW e \in Env
  PROVE  LET u == SetState(w, s, e)
         IN  /\ Near(t, u) /\ u.alive /\ u.state \in {s, "TERMINATED"}
             /\ (t.invite => s # "COMPLETED") => Calm(u)
<1>. DEFINE x == [w EXCEPT !.state = s]
<1>1. /\ Poised(t) /\ t.role = "UAC" /\ "TRANSPORT" \notin t.flags
      /\ t.state \in {"CALLING", "PROCEEDING"}
  BY DEF Waits
<1>2. /\ t \in Tsx /\ Sound(t) /\ t.alive /\ t.state # "DESTROYED" /\ t.state \in States
      /\ Live(t) /\ Paired(t) /\ t.out = {}
  BY <1>1, PoisedSendable DEF Poised, Whole
<1>3. Client(t) /\ Flagged(t) /\ "RESOLVED" \in t.flags /\ t.transport
  BY <1>1, <1>2 DEF Live, Client, Flagged
<1>4. w \in Tsx /\ Sound(w) /\ w.alive /\ w.role = t.role /\ w.invite = t.invite
      /\ w.state = t.state /\ w.flags = t.flags /\ w.pending = t.pending
      /\ w.transport /\ w.last = t.last
      /\ w.out \subseteq {"ack"} /\ w.wire \subseteq t.wire \cup {"ack"}
  BY <1>2, <1>3 DEF Kept
<1>5. Paired(w) /\ Half(w)
  BY <1>2, <1>4 DEF Paired, Half
<1>6. Proper(t, w.out)
  BY <1>4 DEF Proper, Provisional
<1>7. s \in States \ Ended
  BY DEF States, Ended
<1>8. Rank(t.state) <= Rank(s) /\ Rank(w.state) <= Rank(s)
  BY <1>1, <1>4 DEF Rank
<1>9. x.role = "UAC" /\ x.invite = t.invite /\ x.alive /\ x.state = s /\ x.flags = t.flags
      /\ x.pending = t.pending /\ x.transport /\ x.last = t.last
      /\ x.wire \subseteq t.wire \cup {"ack"} /\ x.due = w.due
  BY <1>1, <1>4 DEF Tsx
<1>10. x = [w EXCEPT !.state = s]
  OBVIOUS
<1>. HIDE DEF x
<1>11. Flagged(x)
  BY <1>1, <1>3, <1>9 DEF Flagged
<1>12. Client(x)
  BY <1>1, <1>3, <1>9 DEF Client, Requests
<1>13. Live(x)
  BY <1>7, <1>9, <1>11, <1>12 DEF Live
<1>14. (t.invite => s # "COMPLETED") => Calm(x)
  BY <1>1, <1>9 DEF Calm
<1>15. Live([w EXCEPT !.state = s])
  BY <1>10, <1>13
<1>16. LET u == SetState(w, s, e)
       IN  /\ Near(t, u) /\ u.alive
           /\ Calm([w EXCEPT !.state = s]) => Calm(u)
           /\ u = [w EXCEPT !.state = s] \/ u.state = "TERMINATED"
  BY <1>2, <1>4, <1>5, <1>6, <1>7, <1>8, <1>15, SetStateNear
<1>. QED BY <1>9, <1>10, <1>14, <1>16

\* The request: tsx_on_state_null.
LEMMA UacSendFit ==
  ASSUME NEW t, Poised(t), t.role = "UAC", t.state = "NULL", NEW e \in Env
  PROVE  Fit(t, UacSend(t, e))
<1>. DEFINE u == SendMsg(t, "req", e)
            v == Schedule(u, "to", "64T1")
            a == ArmRetransmit(v, "T1")
            w == IF v.reliable THEN v ELSE a
            x == [w EXCEPT !.state = "CALLING"]
<1>1. /\ t \in Tsx /\ Sound(t) /\ t.alive /\ t.state # "DESTROYED" /\ Sendable(t)
      /\ Client(t) /\ Flagged(t) /\ Paired(t) /\ t.out = {}
  BY PoisedSendable DEF Poised, Whole, Live
<1>2. /\ "TRANSPORT" \notin t.flags /\ t.wire = {} /\ ~t.transport /\ t.pending = "none"
      /\ t.due["rt"] = "off" /\ t.due["to"] = "off" /\ t.flags \cap {"SEND", "RESCHED"} = {}
      /\ "RESOLVED" \notin t.flags /\ t.last \in Requests
  BY <1>1 DEF Client, Flagged, Paired, Timers
<1>3. Sent(t, u, "req") \/ Ends(t, u)
  BY <1>1, SendMsgSent DEF Messages, Requests
<1>4. UacSend(t, e) = IF SendErr(u) THEN u ELSE SetState(w, "CALLING", e)
  BY DEF UacSend
<1>. HIDE DEF u
<1>5. CASE Ends(t, u)
  <2>1. u.state = "TERMINATED" /\ u \in Tsx
    BY <1>5 DEF Ends
  <2>2. SendErr(u)
    BY <2>1, SendErrEnded DEF Ended
  <2>3. Proper(t, t.out)
    BY <1>1 DEF Proper
  <2>4. Fit(t, u)
    BY <1>1, <1>5, <2>3, EndsFit
  <2>. QED BY <1>4, <2>2, <2>4
<1>6. CASE Sent(t, u, "req")
  <2>1. /\ u \in Tsx /\ Sound(u) /\ u.role = t.role /\ u.invite = t.invite /\ u.alive
        /\ u.state = "NULL" /\ u.last = t.last /\ u.due = t.due
    BY <1>1, <1>6 DEF Sent, Base
  <2>2. ~SendErr(u)
    BY <2>1, SendErrEnded DEF Ended
  <2>3. \/ /\ u.flags = t.flags \cup {"RESOLVED"} /\ u.transport /\ u.pending = "none"
           /\ u.out = {"req"} /\ u.wire = {"req"}
        \/ /\ u.flags = t.flags \cup {"TRANSPORT"} /\ u.pending = "req"
           /\ u.out = {} /\ u.wire = {}
    BY <1>1, <1>2, <1>6 DEF Sent, Postponed, Emitted, Searches
  <2>4. Clock(u, v) /\ v.due["rt"] = "off"
    BY <1>2, <2>1, ScheduleClock DEF Sound, Timers, Delays
  <2>. HIDE DEF v
  <2>5. /\ v \in Tsx /\ Sound(v) /\ v.role = "UAC" /\ v.invite = t.invite /\ v.alive
        /\ v.state = "NULL" /\ v.last = t.last /\ v.flags = u.flags
        /\ v.transport = u.transport /\ v.pending = u.pending /\ v.out = u.out
        /\ v.wire = u.wire
    BY <2>1, <2>4 DEF Clock, Sound
  <2>6. /\ w \in Tsx /\ Sound(w) /\ w.role = "UAC" /\ w.invite = t.invite /\ w.alive
        /\ w.state = "NULL" /\ w.last = t.last /\ w.transport = u.transport
        /\ w.pending = u.pending /\ w.out = u.out /\ w.wire = u.wire
        /\ w.flags = u.flags \/ ("TRANSPORT" \in u.flags /\ w.flags = u.flags \cup {"RESCHED"})
        /\ "TRANSPORT" \in u.flags => w.due["rt"] = "off"
    <3>1. CASE w = v
      <4>. HIDE DEF w
      <4>. QED BY <2>4, <2>5, <3>1
    <3>2. CASE w = a
      <4>1. /\ a \in Tsx /\ Sound(a)
            /\ a.role = v.role /\ a.invite = v.invite /\ a.alive = v.alive
            /\ a.state = v.state /\ a.last = v.last /\ a.transport = v.transport
            /\ a.pending = v.pending /\ a.out = v.out /\ a.wire = v.wire
            /\ \/ "TRANSPORT" \notin v.flags /\ a.flags = v.flags
               \/ /\ "TRANSPORT" \in v.flags /\ a.flags = v.flags \cup {"RESCHED"}
                  /\ a.due["rt"] = "off"
        BY <2>4, <2>5, ArmRetransmitArms, ZenonT(60) DEF Delays
      <4>. HIDE DEF a, w
      <4>. QED BY <2>5, <3>2, <4>1
    <3>. QED BY <3>1, <3>2
  <2>7. UacSend(t, e) = SetState(w, "CALLING", e)
    BY <1>4, <2>2
  <2>. HIDE DEF w
  <2>8. Paired(w) /\ Half(w)
    BY <1>2, <2>3, <2>6 DEF Paired, Half
  <2>9. /\ x.role = "UAC" /\ x.invite = t.invite /\ x.alive /\ x.state = "CALLING"
        /\ x.last = t.last /\ x.transport = u.transport /\ x.pending = u.pending
        /\ x.wire = u.wire /\ x.flags = w.flags /\ x.due = w.due
    BY <2>6 DEF Tsx
  <2>10. x = [w EXCEPT !.state = "CALLING"]
    OBVIOUS
  <2>. HIDE DEF x
  <2>11. Flagged(x)
    BY <1>2, <2>3, <2>6, <2>9 DEF Flagged
  <2>12. Client(x)
    BY <1>1, <1>2, <2>3, <2>6, <2>9 DEF Client, Requests
  <2>13. Live(x) /\ Calm(x)
    BY <1>2, <2>3, <2>6, <2>9, <2>11, <2>12 DEF Live, Calm, Ended
  <2>14. Live([w EXCEPT !.state = "CALLING"]) /\ Calm([w EXCEPT !.state = "CALLING"])
    BY <2>10, <2>13
  <2>15. Proper(t, w.out)
    BY <1>2 DEF Proper
  <2>16. "CALLING" \in States \ Ended
    BY DEF States, Ended
  <2>17. Rank(t.state) <= Rank("CALLING") /\ Rank(w.state) <= Rank("CALLING")
    BY <2>6 DEF Rank
  <2>18. w.role = t.role
    BY <2>6
  <2>19. Fit(t, SetState(w, "CALLING", e))
    BY <1>1, <2>6, <2>8, <2>14, <2>15, <2>16, <2>17, <2>18, SetStateFit
  <2>. QED BY <2>7, <2>19
<1>. QED BY <1>3, <1>5, <1>6

\* Calling stops timers.
LEMMA CallingPreludeClock ==
  ASSUME NEW t \in Tsx, Armed(t), "RESCHED" \notin t.flags, NEW m
  PROVE  Clock(t, CallingPrelude(t, m))
<1>. DEFINE u == Cancel(t, "rt")
            v == IF Code(m) >= 200 THEN Cancel(u, "to")
                 ELSE IF t.invite THEN Unschedule(u, "to")
                 ELSE IF u.reliable THEN u
                 ELSE Schedule(u, "rt", "T2")
            r == Clear(v, "RESCHED")
<1>1. Clock(t, u) /\ u.due["rt"] = "off"
  BY CancelClock DEF Timers
<1>2. CallingPrelude(t, m) = r
  BY DEF CallingPrelude
<1>. HIDE DEF u
<1>3. u \in Tsx /\ Armed(u)
  BY <1>1 DEF Clock
<1>4. /\ Clock(u, Cancel(u, "to"))
      /\ Clock(u, Unschedule(u, "to"))
      /\ Clock(u, Schedule(u, "rt", "T2"))
  BY <1>1, <1>3, CancelClock, UnscheduleClock, ScheduleClock DEF Timers, Delays
<1>5. Clock(u, u)
  BY <1>3 DEF Clock
<1>6. v \in {Cancel(u, "to"), Unschedule(u, "to"), u, Schedule(u, "rt", "T2")}
  OBVIOUS
<1>. HIDE DEF v
<1>7. Clock(u, v)
  BY <1>4, <1>5, <1>6
<1>8. Clock(t, v)
  BY <1>1, <1>7, ClockTrans
<1>9. v \in Tsx /\ Armed(v) /\ v.flags \subseteq Flags
  BY <1>8 DEF Clock, Tsx
<1>. DEFINE f == v.flags \ {"RESCHED"}
<1>10. f = t.flags /\ f = v.flags /\ f \subseteq Flags
  BY <1>8, <1>9 DEF Clock
<1>11. r = [v EXCEPT !.flags = f]
  BY DEF Clear
<1>. HIDE DEF f, r
<1>12. Clock(v, r)
  BY <1>9, <1>10, <1>11 DEF Clock, Armed, Tsx
<1>13. Clock(t, r)
  BY <1>8, <1>12, ClockTrans
<1>. QED BY <1>2, <1>13 DEF r

\* What a client that waits brings to its handlers.
LEMMA WaitsFacts ==
  ASSUME NEW t, Waits(t)
  PROVE  /\ t \in Tsx /\ Sound(t) /\ t.alive /\ t.pending = "none" /\ t.out = {}
         /\ "RESCHED" \notin t.flags /\ "RESOLVED" \in t.flags /\ t.transport
         /\ Half(t) /\ t.role = "UAC" /\ t.state # "DESTROYED"
         /\ t.state \in {"CALLING", "PROCEEDING"} /\ Kept(t, t)
<1>1. Live(t) /\ t \in Tsx /\ Sound(t) /\ Paired(t) /\ t.out = {}
  BY DEF Waits, Poised, Whole
<1>2. Client(t) /\ Flagged(t) /\ t.alive
  BY <1>1 DEF Waits, Live
<1>. QED BY <1>1, <1>2 DEF Waits, Client, Flagged, Paired, Half, Kept

\* A provisional response.
LEMMA UacProvisionalFit ==
  ASSUME NEW t, Waits(t), NEW w, Kept(t, w), NEW m, NEW e \in Env
  PROVE  Fit(t, UacProvisional(w, m, e))
<1>. DEFINE c == Code(m)
            x == [w EXCEPT !.status = c]
<1>1. w \in Tsx /\ Sound(w)
  BY DEF Kept
<1>2. c \in Codes
  BY CodeTyped DEF Codes
<1>. HIDE DEF c
<1>3. Kept(w, x)
  BY <1>1, <1>2, StatusKept
<1>4. UacProvisional(w, m, e) = SetState(x, "PROCEEDING", e)
  BY DEF UacProvisional, c
<1>. HIDE DEF x
<1>5. Kept(t, x)
  BY <1>3, KeptTrans
<1>6. Near(t, SetState(x, "PROCEEDING", e)) /\ Calm(SetState(x, "PROCEEDING", e))
  BY <1>5, ClientSetState
<1>. QED BY <1>4, <1>6 DEF Fit

\* A 2xx.
LEMMA UacSuccessFit ==
  ASSUME NEW t, Waits(t), NEW w, Kept(t, w), NEW m, NEW e \in Env
  PROVE  Fit(t, UacSuccess(w, m, e))
<1>. DEFINE c == Code(m)
            x == [w EXCEPT !.status = c]
            u == Unschedule(x, "to")
            d == IF u.reliable THEN "zero" ELSE "T4"
            a == Schedule(u, "to", d)
            v == Cancel(a, "rt")
<1>1. w \in Tsx /\ Sound(w) /\ w.invite = t.invite
  BY DEF Kept
<1>2. c \in Codes
  BY CodeTyped DEF Codes
<1>3. UacSuccess(w, m, e) = IF w.invite THEN SetState(u, "TERMINATED", e)
                                        ELSE SetState(v, "COMPLETED", e)
  BY DEF UacSuccess
<1>. HIDE DEF c
<1>4. Kept(w, x)
  BY <1>1, <1>2, StatusKept
<1>. HIDE DEF x
<1>5. x \in Tsx /\ Sound(x)
  BY <1>4 DEF Kept
<1>6. Clock(x, u) /\ u.due["to"] = "off"
  BY <1>5, UnscheduleClock DEF Sound, Timers
<1>. HIDE DEF u
<1>7. Kept(x, u)
  BY <1>5, <1>6, ClockKept
<1>8. Kept(t, u)
  BY <1>4, <1>7, KeptTrans
<1>9. u \in Tsx /\ Sound(u) /\ d \in Delays
  BY <1>7 DEF Kept, Delays
<1>10. CASE w.invite
  <2>1. /\ Poised(t) /\ Half(u) /\ u.alive /\ u.role = t.role /\ u.invite = t.invite
        /\ u.state # "DESTROYED" /\ u.out \subseteq {"ack"}
    BY <1>8, WaitsFacts DEF Kept, Waits, Half
  <2>2. Proper(t, u.out)
    BY <2>1 DEF Proper, Provisional
  <2>3. Fit(t, SetState(u, "TERMINATED", e))
    BY <1>9, <2>1, <2>2, TerminatedFit
  <2>. QED BY <1>3, <1>10, <2>3
<1>11. CASE ~w.invite
  <2>. HIDE DEF d
  <2>1. Clock(u, a)
    BY <1>6, <1>9, ScheduleClock DEF Sound, Timers
  <2>. HIDE DEF a
  <2>2. a \in Tsx /\ Armed(a)
    BY <2>1 DEF Clock
  <2>3. Clock(a, v) /\ v.due["rt"] = "off"
    BY <2>2, CancelClock DEF Timers
  <2>. HIDE DEF v
  <2>4. Clock(u, v)
    BY <2>1, <2>3, ClockTrans
  <2>5. Kept(u, v)
    BY <1>9, <2>4, ClockKept
  <2>6. Kept(t, v)
    BY <1>8, <2>5, KeptTrans
  <2>7. ~t.invite
    BY <1>1, <1>11
  <2>8. Near(t, SetState(v, "COMPLETED", e)) /\ Calm(SetState(v, "COMPLETED", e))
    BY <2>3, <2>6, <2>7, ClientSetState
  <2>. QED BY <1>3, <1>11, <2>8 DEF Fit
<1>. QED BY <1>10, <1>11

\* A rejection, up to the notification: the timers stop, and the ACK goes out,
\* or the transaction ends.
LEMMA UacRejectedKept ==
  ASSUME NEW t, Waits(t), NEW w, Kept(t, w), NEW m, NEW e \in Env
  PROVE  LET u == UacRejected(w, m, e)
         IN  \/ Fit(t, u) /\ SendErr(u)
             \/ Kept(t, u) /\ ~SendErr(u) /\ u.due["rt"] = "off"
<1>. DEFINE c == Code(m)
            x == [w EXCEPT !.status = c]
            a == Cancel(x, "rt")
            b == [a EXCEPT !.armed = @ \ {"to"}]
            v == Unschedule(b, "to")
            r == SendMsg(v, "ack", e)
<1>1. w \in Tsx /\ Sound(w) /\ w.invite = t.invite
  BY DEF Kept
<1>2. c \in Codes
  BY CodeTyped DEF Codes
<1>3. UacRejected(w, m, e) = IF w.invite THEN r ELSE v
  BY DEF UacRejected
<1>. HIDE DEF c
<1>4. Kept(w, x)
  BY <1>1, <1>2, StatusKept
<1>. HIDE DEF x
<1>5. x \in Tsx /\ Sound(x)
  BY <1>4 DEF Kept
<1>6. Clock(x, a) /\ a.due["rt"] = "off"
  BY <1>5, CancelClock DEF Sound, Timers
<1>. HIDE DEF a
<1>7. Kept(x, a)
  BY <1>5, <1>6, ClockKept
<1>8. a \in Tsx /\ Armed(a) /\ Sound(a)
  BY <1>7 DEF Kept, Sound
<1>9. Clock(a, v) /\ v.due["rt"] = "off"
  <2>. DEFINE A == a.armed \ {"to"}
  <2>1. A \subseteq Timers /\ \A y \in Timers : y \in A <=> (y \in a.armed /\ y # "to")
    BY <1>8 DEF Tsx
  <2>2. b = [a EXCEPT !.armed = A]
    OBVIOUS
  <2>. HIDE DEF A
  <2>3. v = [[a EXCEPT !.armed = A] EXCEPT !.due["to"] = "off"]
    BY <2>2 DEF Unschedule
  <2>. HIDE DEF v
  <2>4. v \in Tsx /\ v.armed = A /\ v.due = [a.due EXCEPT !["to"] = "off"]
        /\ v.role = a.role /\ v.invite = a.invite /\ v.state = a.state /\ v.status = a.status
        /\ v.reliable = a.reliable /\ v.transport = a.transport /\ v.flags = a.flags
        /\ v.pending = a.pending /\ v.last = a.last /\ v.alive = a.alive
        /\ v.out = a.out /\ v.wire = a.wire /\ v.failed = a.failed
    BY <1>8, <2>1, <2>3 DEF Tsx, Delays
  <2>5. Armed(v) /\ v.due["rt"] = "off"
    BY <1>6, <1>8, <2>1, <2>4 DEF Armed, Tsx, Timers
  <2>. QED BY <2>4, <2>5 DEF Clock
<1>. HIDE DEF v
<1>10. Kept(a, v)
  BY <1>8, <1>9, ClockKept
<1>11. Kept(t, v)
  BY <1>4, <1>7, <1>10, KeptTrans
<1>12. /\ v \in Tsx /\ Sound(v) /\ v.alive /\ v.pending = "none" /\ v.role = t.role
       /\ v.invite = t.invite /\ v.state = t.state /\ v.flags = t.flags
       /\ v.transport /\ "RESOLVED" \in v.flags /\ "TRANSPORT" \notin v.flags
       /\ v.out \subseteq {"ack"} /\ v.state \notin Ended
  BY <1>11, WaitsFacts DEF Kept, Waits, Ended
<1>13. CASE ~w.invite
  <2>1. ~SendErr(v)
    BY <1>12, SendErrEnded
  <2>. QED BY <1>3, <1>9, <1>11, <1>13, <2>1
<1>14. CASE w.invite
  <2>1. Sendable(v)
    <3>1. Flagged(t) /\ {"SEND", "RESCHED"} \cap t.flags = {}
      BY DEF Waits, Poised, Live, Flagged
    <3>2. Flagged(v) /\ Paired(v)
      BY <1>12, <3>1 DEF Flagged, Paired
    <3>. QED BY <1>12, <3>2 DEF Sendable
  <2>2. Sent(v, r, "ack") \/ Ends(v, r)
    BY <2>1, SendMsgSent DEF Messages, Requests
  <2>. HIDE DEF r
  <2>3. CASE Ends(v, r)
    <3>1. Proper(t, v.out)
      BY <1>12 DEF Proper, Provisional
    <3>2. t \in Tsx /\ t.state # "DESTROYED"
      BY WaitsFacts
    <3>3. Fit(t, r)
      BY <1>12, <2>3, <3>1, <3>2, EndsFit
    <3>4. SendErr(r)
      BY <2>3, SendErrEnded DEF Ends, Ended
    <3>. QED BY <1>3, <1>14, <3>3, <3>4
  <2>4. CASE Sent(v, r, "ack")
    <3>1. Base(v, r) /\ Emitted(v, r, "ack")
      BY <1>12, <2>4 DEF Sent, Postponed, Searches
    <3>2. r.flags = v.flags /\ r.transport = v.transport
      BY <1>12, <3>1 DEF Emitted
    <3>3. /\ r \in Tsx /\ Sound(r) /\ r.role = v.role /\ r.invite = v.invite
          /\ r.alive = v.alive /\ r.state = v.state /\ r.last = v.last /\ r.due = v.due
          /\ r.pending = v.pending /\ r.out = v.out \cup {"ack"}
          /\ r.wire = v.wire \cup {"ack"}
      BY <3>1 DEF Base, Emitted
    <3>4. ~SendErr(r)
      BY <1>12, <3>3, SendErrEnded
    <3>5. Kept(t, r)
      BY <1>11, <3>2, <3>3 DEF Kept
    <3>. QED BY <1>3, <1>9, <1>14, <3>3, <3>4, <3>5
  <2>. QED BY <2>2, <2>3, <2>4
<1>. QED BY <1>13, <1>14

\* A rejection, with the notification of the TU.
LEMMA UacRejectionNear ==
  ASSUME NEW t, Waits(t), NEW w, Kept(t, w), NEW m, NEW e \in Env
  PROVE  LET u == UacRejection(w, m, e)
         IN  /\ Near(t, u)
             /\ SendErr(UacRejected(w, m, e)) => Calm(u)
             /\ ~SendErr(UacRejected(w, m, e)) =>
                  u.alive /\ u.state \in {"COMPLETED", "TERMINATED"}
<1>. DEFINE r == UacRejected(w, m, e)
            u == UacRejection(w, m, e)
<1>1. u = IF SendErr(r) THEN r ELSE SetState(r, "COMPLETED", e)
  BY DEF UacRejection
<1>2. \/ Fit(t, r) /\ SendErr(r)
      \/ Kept(t, r) /\ ~SendErr(r) /\ r.due["rt"] = "off"
  BY UacRejectedKept
<1>. HIDE DEF r
<1>3. CASE SendErr(r)
  BY <1>1, <1>2, <1>3 DEF Fit, r
<1>4. CASE ~SendErr(r)
  <2>. DEFINE v == SetState(r, "COMPLETED", e)
  <2>1. Kept(t, r) /\ r.due["rt"] = "off"
    BY <1>2, <1>4
  <2>2. Near(t, v) /\ v.alive /\ v.state \in {"COMPLETED", "TERMINATED"}
    BY <2>1, ClientSetState
  <2>. HIDE DEF v
  <2>3. u = v
    BY <1>1, <1>4 DEF v
  <2>. HIDE DEF u
  <2>. QED BY <1>4, <2>2, <2>3 DEF r, u
<1>. QED BY <1>3, <1>4

\* A transaction whose TU has just heard of the rejection.
Heard(t) == /\ Whole(t) /\ t.out = {} /\ t.alive
            /\ t.role = "UAC" /\ t.state \in {"COMPLETED", "TERMINATED"}

\* After the notification the ACK takes the place of the request.
LEMMA UacStartTimerDFit ==
  ASSUME NEW t, Heard(t)
  PROVE  Fit(t, UacStartTimerD(t))
<1>. DEFINE u == IF t.invite THEN [t EXCEPT !.last = "ack"] ELSE t
            d == IF t.reliable THEN "zero" ELSE IF t.invite THEN "TD" ELSE "T4"
            v == IF "to" \in u.armed THEN Unschedule(u, "to") ELSE u
            r == Schedule(v, "to", d)
<1>1. UacStartTimerD(t) = r
  BY DEF UacStartTimerD
<1>2. t \in Tsx /\ Sound(t) /\ Paired(t) /\ t.alive /\ t.role = "UAC" /\ t.out = {}
      /\ t.state \in {"COMPLETED", "TERMINATED"} /\ (Gone(t) \/ Live(t))
  BY DEF Heard, Whole
<1>3. d \in Delays
  BY DEF Delays
<1>. HIDE DEF d
<1>4. /\ u \in Tsx /\ Sound(u) /\ u.role = t.role /\ u.invite = t.invite
      /\ u.alive = t.alive /\ u.state = t.state /\ u.flags = t.flags
      /\ u.transport = t.transport /\ u.pending = t.pending /\ u.out = t.out
      /\ u.wire = t.wire /\ u.due = t.due
      /\ u.last = IF t.invite THEN "ack" ELSE t.last
  BY <1>2 DEF Sound, Armed, Tsx, Messages, Requests
<1>. HIDE DEF u
<1>5. Clock(u, v) /\ v.due["to"] = "off" /\ v.due["rt"] = u.due["rt"]
  <2>1. CASE "to" \in u.armed
    BY <1>4, <2>1, UnscheduleClock DEF Sound, Timers
  <2>2. CASE "to" \notin u.armed
    <3>1. v = u
      BY <2>2
    <3>. HIDE DEF v
    <3>. QED BY <1>4, <2>2, <3>1 DEF Clock, Sound, Armed, Timers
  <2>. QED BY <2>1, <2>2
<1>. HIDE DEF v
<1>6. v \in Tsx /\ Armed(v)
  BY <1>5 DEF Clock
<1>7. Clock(v, r) /\ r.due["rt"] = v.due["rt"]
  BY <1>3, <1>5, <1>6, ScheduleClock DEF Timers
<1>. HIDE DEF r
<1>8. Clock(u, r) /\ r.due["rt"] = t.due["rt"]
  BY <1>4, <1>5, <1>7, ClockTrans
<1>9. /\ r \in Tsx /\ Sound(r) /\ r.role = t.role /\ r.invite = t.invite
      /\ r.alive = t.alive /\ r.state = t.state /\ r.flags = t.flags
      /\ r.transport = t.transport /\ r.pending = t.pending /\ r.out = {}
      /\ r.wire = t.wire /\ r.due["rt"] = t.due["rt"]
      /\ r.last = IF t.invite THEN "ack" ELSE t.last
  BY <1>2, <1>4, <1>8 DEF Clock, Sound
<1>10. Gone(t) => Gone(r)
  BY <1>2, <1>9 DEF Gone
<1>11. Live(t) => Live(r)
  <2>1. HAVE Live(t)
  <2>2. Client(t) /\ Flagged(t) /\ t.state = "COMPLETED"
    BY <1>2, <2>1 DEF Live, Ended
  <2>3. Client(r)
    BY <1>9, <2>2 DEF Client, Requests
  <2>4. Flagged(r)
    BY <1>9, <2>2 DEF Flagged
  <2>. QED BY <1>2, <1>9, <2>1, <2>3, <2>4 DEF Live
<1>12. Whole(r)
  BY <1>2, <1>9, <1>10, <1>11 DEF Whole, Paired
<1>13. Calm(r)
  <2>1. CASE r.state \in Ended
    BY <2>1 DEF Calm
  <2>2. CASE r.state \notin Ended
    <3>1. Live(t)
      BY <1>2, <1>9, <2>2 DEF Gone
    <3>2. Client(t) /\ t.state = "COMPLETED"
      BY <1>2, <3>1 DEF Live, Ended
    <3>. QED BY <1>9, <3>2 DEF Calm, Client
  <2>. QED BY <2>1, <2>2
<1>14. Rank(t.state) <= Rank(r.state)
  BY <1>2, <1>9, RankOrder DEF Tsx
<1>15. Proper(t, r.out)
  BY <1>9 DEF Proper
<1>16. Fit(t, r)
  BY <1>9, <1>12, <1>13, <1>14, <1>15 DEF Fit, Near
<1>. QED BY <1>1, <1>16 DEF r

\* A response in Completed.
LEMMA UacCompletedRxFit ==
  ASSUME NEW t, Poised(t), t.role = "UAC", t.state = "COMPLETED", NEW m, NEW e \in Env
  PROVE  Fit(t, UacCompletedRx(t, m, e))
<1>1. CASE t.invite /\ Code(m) >= 200
  <2>1. UacCompletedRx(t, m, e) = Retransmit(t, FALSE, e)
    BY <1>1 DEF UacCompletedRx
  <2>2. t.last = "ack" /\ "TRANSPORT" \notin t.flags
    BY <1>1 DEF Poised, Calm, Live, Client, Ended
  <2>3. t.last \in Messages
    BY <2>2 DEF Messages, Requests
  <2>4. Repeats(t, t.last)
    BY <2>2 DEF Repeats, Requests
  <2>5. Fit(t, Retransmit(t, FALSE, e))
    <3>. DEFINE b == FALSE
    <3>1. b \in BOOLEAN /\ ~b
      OBVIOUS
    <3>. HIDE DEF b
    <3>2. Twin(t, t)
      BY SelfTwin
    <3>3. b => /\ t.due["rt"] = "off"
               /\ t.role = "UAC" => t.state # "COMPLETED"
               /\ t.role = "UAC" => t.status < 200
      BY <3>1
    <3>4. Fit(t, Retransmit(t, b, e))
      BY <2>3, <2>4, <3>1, <3>2, <3>3, RetransmitFit
    <3>. QED BY <3>4 DEF b
  <2>. QED BY <2>1, <2>5
<1>2. CASE ~(t.invite /\ Code(m) >= 200)
  BY <1>2, SameFit DEF UacCompletedRx, Poised
<1>. QED BY <1>1, <1>2

\* What UacRx gives the handlers of Calling and Proceeding.
Begun(t, m) == IF t.state = "CALLING" THEN CallingPrelude(t, m) ELSE t

\* A response to a request that is out.
LEMMA UacRxFit ==
  ASSUME NEW t, Poised(t), t.role = "UAC", "req" \in t.wire,
         NEW m \in Responses, NEW e \in Env
  PROVE  LET u == UacRx(t, m, e)
             half == Final3xx(t, m) /\ ~SendErr(UacRejected(Begun(t, m), m, e))
         IN  /\ Near(t, u)
             /\ half => u.alive /\ u.state \in {"COMPLETED", "TERMINATED"}
             /\ ~half => Calm(u)
<1>. DEFINE u == UacRx(t, m, e)
            w == Begun(t, m)
<1>1. t \in Tsx /\ Sound(t) /\ t.state \notin Ended /\ Client(t) /\ Calm(t) /\ Flagged(t)
  BY PoisedSendable DEF Poised, Live
<1>2. "TRANSPORT" \notin t.flags /\ t.state \in {"CALLING", "PROCEEDING", "COMPLETED"}
  BY <1>1 DEF Client, Calm
<1>3. CASE t.state = "COMPLETED"
  <2>1. u = UacCompletedRx(t, m, e) /\ ~Final3xx(t, m)
    BY <1>3 DEF UacRx, Final3xx
  <2>. QED BY <1>3, <2>1, UacCompletedRxFit DEF Fit
<1>4. CASE t.state \in {"CALLING", "PROCEEDING"}
  <2>1. Waits(t)
    BY <1>2, <1>4 DEF Waits
  <2>2. "RESCHED" \notin t.flags
    BY <2>1, WaitsFacts
  <2>3. Kept(t, w)
    <3>1. Clock(t, CallingPrelude(t, m))
      BY <1>1, <2>2, CallingPreludeClock DEF Sound
    <3>2. Kept(t, CallingPrelude(t, m))
      BY <1>1, <3>1, ClockKept
    <3>. QED BY <2>1, <3>2, WaitsFacts DEF Begun
  <2>4. CASE m = "r3xx"
    <3>1. u = UacRejection(w, m, e) /\ Final3xx(t, m)
      BY <1>4, <2>4 DEF UacRx, Final3xx, Begun
    <3>. HIDE DEF w, u
    <3>2. LET r == UacRejection(w, m, e)
          IN  /\ Near(t, r)
              /\ SendErr(UacRejected(w, m, e)) => Calm(r)
              /\ ~SendErr(UacRejected(w, m, e)) =>
                   r.alive /\ r.state \in {"COMPLETED", "TERMINATED"}
      BY <2>1, <2>3, UacRejectionNear
    <3>. QED BY <3>1, <3>2 DEF w, u
  <2>5. CASE m = "r2xx"
    <3>1. u = UacSuccess(w, m, e) /\ ~Final3xx(t, m)
      BY <1>4, <2>5 DEF UacRx, Final3xx, Begun
    <3>. HIDE DEF w, u
    <3>2. Fit(t, UacSuccess(w, m, e))
      BY <2>1, <2>3, UacSuccessFit
    <3>. QED BY <3>1, <3>2 DEF Fit, u
  <2>6. CASE m \notin {"r2xx", "r3xx"}
    <3>1. u = UacProvisional(w, m, e) /\ ~Final3xx(t, m)
      BY <1>4, <2>6 DEF UacRx, Final3xx, Begun
    <3>. HIDE DEF w, u
    <3>2. Fit(t, UacProvisional(w, m, e))
      BY <2>1, <2>3, UacProvisionalFit
    <3>. QED BY <3>1, <3>2 DEF Fit, u
  <2>. QED BY <2>4, <2>5, <2>6
<1>. QED BY <1>2, <1>3, <1>4

\* A timer that has been taken from the heap.
Ready(t, x) ==
    /\ x \in Timers /\ t.due[x] = "off"
    /\ x = "rt" => \/ /\ t.role = "UAC" /\ t.state \in {"CALLING", "PROCEEDING"}
                      /\ "TRANSPORT" \notin t.flags
                   \/ t.role = "UAS" /\ t.state \in {"PROCEEDING", "COMPLETED"}
    /\ x = "to" => \/ t.role = "UAC" /\ t.state # "NULL"
                   \/ t.role = "UAS" /\ t.state \in {"COMPLETED", "CONFIRMED"}
    /\ "RESCHED" \in t.flags => x # "rt"

\* A timer of a client.
LEMMA UacTimerFit ==
  ASSUME NEW t, Poised(t), t.role = "UAC", NEW x, Ready(t, x), NEW e \in Env,
         t.state \in {"CALLING", "PROCEEDING"} => t.status < 200
  PROVE  Fit(t, UacTimer(t, x, e))
<1>1. /\ t \in Tsx /\ Sound(t) /\ Client(t) /\ Half(t) /\ t.alive /\ t.out = {}
      /\ t.state # "DESTROYED"
  BY PoisedSendable DEF Poised, Live
<1>2. Proper(t, t.out)
  BY <1>1 DEF Proper
<1>3. x \in {"rt", "to"}
  BY DEF Ready, Timers
<1>4. CASE x = "rt"
  <2>1. t.state \in {"CALLING", "PROCEEDING"} /\ "TRANSPORT" \notin t.flags
        /\ t.due["rt"] = "off"
    BY <1>4 DEF Ready
  <2>2. t.last \in Messages /\ Repeats(t, t.last)
    BY <1>1, <2>1 DEF Client, Repeats, Messages
  <2>. DEFINE b == TRUE
  <2>3. b \in BOOLEAN
    OBVIOUS
  <2>4. UacTimer(t, x, e) = Retransmit(t, b, e)
    BY <1>4, <2>1 DEF UacTimer
  <2>. HIDE DEF b
  <2>5. Twin(t, t)
    BY SelfTwin
  <2>6. b => /\ t.due["rt"] = "off"
             /\ t.role = "UAC" => t.state # "COMPLETED"
             /\ t.role = "UAC" => t.status < 200
    BY <2>1
  <2>7. Fit(t, Retransmit(t, b, e))
    BY <2>2, <2>3, <2>5, <2>6, RetransmitFit
  <2>. QED BY <2>4, <2>7
<1>5. CASE x = "to"
  <2>1. t.state \in {"CALLING", "PROCEEDING", "COMPLETED"}
    BY <1>1, <1>5 DEF Ready, Client
  <2>2. CASE t.state = "CALLING"
    <3>. DEFINE a == Cancel(t, "rt")
                w == Clear(a, "RESCHED")
    <3>1. Clock(t, a)
      BY <1>1, CancelClock DEF Sound, Timers
    <3>. HIDE DEF a
    <3>2. a \in Tsx /\ Sound(a)
      BY <1>1, <3>1 DEF Clock, Sound
    <3>3. Base(a, w) /\ w.flags = a.flags \ {"RESCHED"} /\ w.pending = a.pending
          /\ w.out = a.out
      BY <3>2, ClearBase
    <3>4. UacTimer(t, x, e) = Fail(w, 408, e)
      BY <1>5, <2>2 DEF UacTimer, a
    <3>. HIDE DEF w
    <3>5. /\ w \in Tsx /\ Sound(w) /\ Half(w) /\ w.alive /\ w.role = t.role
          /\ w.invite = t.invite /\ w.state # "DESTROYED" /\ Proper(t, w.out)
      BY <1>1, <1>2, <3>1, <3>3 DEF Base, Clock, Half
    <3>6. Fit(t, Fail(w, 408, e))
      BY <3>5, FailFit DEF Codes
    <3>. QED BY <3>4, <3>6
  <2>3. CASE t.state = "PROCEEDING"
    <3>1. UacTimer(t, x, e) = Fail(t, 408, e)
      BY <1>5, <2>3 DEF UacTimer
    <3>2. Fit(t, Fail(t, 408, e))
      BY <1>1, <1>2, FailFit DEF Codes
    <3>. QED BY <3>1, <3>2
  <2>4. CASE t.state = "COMPLETED"
    <3>1. UacTimer(t, x, e) = SetState(Check(t, x = "to", "completed_timer"), "TERMINATED", e)
      BY <2>4 DEF UacTimer
    <3>2. Check(t, x = "to", "completed_timer") = t
      BY <1>5 DEF Check
    <3>3. Fit(t, SetState(t, "TERMINATED", e))
      BY <1>1, <1>2, TerminatedFit
    <3>. QED BY <3>1, <3>2, <3>3
  <2>. QED BY <2>1, <2>2, <2>3, <2>4
<1>. QED BY <1>3, <1>4, <1>5

-----------------------------------------------------------------------------
(* The server *)

\* What a server brings to its handlers.
LEMMA ServerFacts ==
  ASSUME NEW t, Poised(t), t.role = "UAS"
  PROVE  /\ t \in Tsx /\ Sound(t) /\ t.alive /\ Half(t) /\ Paired(t) /\ Flagged(t) /\ Server(t)
         /\ t.out = {} /\ t.state # "DESTROYED" /\ t.state \in States
         /\ Proper(t, {}) /\ Proper(t, t.out)
<1>1. Proper(t, {}) /\ Proper(t, t.out)
  BY DEF Proper, Poised
<1>. QED BY <1>1, PoisedSendable DEF Poised, Whole, Live

\* The request that creates a server transaction.
LEMMA UasFirstFit ==
  ASSUME NEW t, Poised(t), t.role = "UAS", t.state = "NULL", NEW e \in Env
  PROVE  Fit(t, SetState(t, "TRYING", e))
<1>. DEFINE x == [t EXCEPT !.state = "TRYING"]
<1>1. /\ t \in Tsx /\ Sound(t) /\ t.alive /\ Half(t) /\ Paired(t) /\ Flagged(t) /\ Server(t)
      /\ t.state # "DESTROYED" /\ Proper(t, t.out)
  BY ServerFacts
<1>2. x.role = "UAS" /\ x.alive /\ x.state = "TRYING" /\ x.flags = t.flags
      /\ x.transport = t.transport /\ x.due = t.due /\ x.wire = t.wire
      /\ x.pending = t.pending
  BY <1>1 DEF Tsx
<1>3. x = [t EXCEPT !.state = "TRYING"]
  OBVIOUS
<1>. HIDE DEF x
<1>4. Flagged(x)
  BY <1>1, <1>2 DEF Flagged
<1>5. Server(x)
  BY <1>1, <1>2 DEF Server, Early
<1>6. Live(x) /\ Calm(x)
  BY <1>2, <1>4, <1>5 DEF Live, Calm, Ended
<1>7. Live([t EXCEPT !.state = "TRYING"]) /\ Calm([t EXCEPT !.state = "TRYING"])
  BY <1>3, <1>6
<1>8. "TRYING" \in States \ Ended /\ Rank(t.state) <= Rank("TRYING")
  BY DEF States, Ended, Rank
<1>. QED BY <1>1, <1>7, <1>8, SetStateFit

\* The ACK.
LEMMA UasAckedFit ==
  ASSUME NEW t, Poised(t), t.role = "UAS", t.state = "COMPLETED", NEW e \in Env
  PROVE  Fit(t, UasAcked(t, e))
<1>. DEFINE a == Cancel(t, "rt")
            b == Clear(a, "RESCHED")
            u == Unschedule(b, "to")
            d == IF u.reliable THEN "T4" ELSE "zero"
            w == Schedule(u, "to", d)
            x == [w EXCEPT !.state = "CONFIRMED"]
<1>1. /\ t \in Tsx /\ Sound(t) /\ t.alive /\ Half(t) /\ Paired(t) /\ Flagged(t) /\ Server(t)
      /\ t.state # "DESTROYED" /\ Proper(t, t.out)
  BY ServerFacts
<1>2. UasAcked(t, e) = SetState(w, "CONFIRMED", e) /\ d \in Delays
  BY DEF UasAcked, Delays
<1>3. Clock(t, a) /\ a.due["rt"] = "off"
  BY <1>1, CancelClock DEF Sound, Timers
<1>. HIDE DEF a
<1>4. a \in Tsx /\ Sound(a)
  BY <1>1, <1>3 DEF Clock, Sound
<1>5. /\ Base(a, b) /\ b.flags = a.flags \ {"RESCHED"} /\ b.transport = a.transport
      /\ b.pending = a.pending /\ b.out = a.out /\ b.wire = a.wire
  BY <1>4, ClearBase
<1>. HIDE DEF b
<1>6. b \in Tsx /\ Armed(b) /\ Sound(b) /\ b.due["rt"] = "off"
  BY <1>3, <1>5 DEF Base, Sound
<1>7. Clock(b, u) /\ u.due["to"] = "off" /\ u.due["rt"] = b.due["rt"]
  BY <1>6, UnscheduleClock DEF Timers
<1>. HIDE DEF u
<1>8. u \in Tsx /\ Armed(u)
  BY <1>7 DEF Clock
<1>. HIDE DEF d
<1>9. Clock(u, w) /\ w.due["rt"] = u.due["rt"]
  BY <1>2, <1>7, <1>8, ScheduleClock DEF Timers
<1>. HIDE DEF w
<1>10. /\ w \in Tsx /\ Sound(w) /\ w.role = t.role /\ w.invite = t.invite /\ w.alive
       /\ w.state = "COMPLETED" /\ w.last = t.last /\ w.transport = t.transport
       /\ w.pending = t.pending /\ w.out = t.out /\ w.wire = t.wire
       /\ w.flags = t.flags \ {"RESCHED"} /\ w.due["rt"] = "off"
  <2>1. Clock(b, w)
    BY <1>7, <1>9, ClockTrans
  <2>2. /\ b.role = t.role /\ b.invite = t.invite /\ b.alive /\ b.state = "COMPLETED"
        /\ b.last = t.last /\ b.transport = t.transport /\ b.pending = t.pending
        /\ b.out = t.out /\ b.wire = t.wire /\ b.flags = t.flags \ {"RESCHED"}
    BY <1>1, <1>3, <1>5 DEF Base, Clock
  <2>. QED BY <1>6, <1>7, <1>9, <2>1, <2>2 DEF Clock, Sound
<1>11. Paired(w) /\ Half(w)
  BY <1>1, <1>10 DEF Paired, Half
<1>12. /\ x.role = "UAS" /\ x.alive /\ x.state = "CONFIRMED" /\ x.last = t.last
       /\ x.transport = t.transport /\ x.pending = t.pending /\ x.wire = t.wire
       /\ x.flags = t.flags \ {"RESCHED"} /\ x.due["rt"] = "off"
  BY <1>10 DEF Tsx
<1>13. x = [w EXCEPT !.state = "CONFIRMED"]
  OBVIOUS
<1>. HIDE DEF x
<1>14. Flagged(x)
  BY <1>1, <1>12 DEF Flagged
<1>15. Server(x)
  BY <1>1, <1>12 DEF Server, Early
<1>16. Live(x) /\ Calm(x)
  BY <1>12, <1>14, <1>15 DEF Live, Calm, Ended
<1>17. Live([w EXCEPT !.state = "CONFIRMED"]) /\ Calm([w EXCEPT !.state = "CONFIRMED"])
  BY <1>13, <1>16
<1>18. /\ "CONFIRMED" \in States \ Ended /\ Rank(t.state) <= Rank("CONFIRMED")
       /\ Rank(w.state) <= Rank("CONFIRMED")
  BY <1>10 DEF States, Ended, Rank
<1>19. Proper(t, w.out)
  BY <1>1, <1>10
<1>20. Fit(t, SetState(w, "CONFIRMED", e))
  BY <1>1, <1>10, <1>11, <1>17, <1>18, <1>19, SetStateFit
<1>. QED BY <1>2, <1>20

\* The response that a server repeats.
LEMMA ServerRepeats ==
  ASSUME NEW t, Poised(t), t.role = "UAS", t.state \in {"PROCEEDING", "COMPLETED"}
  PROVE  t.last \in Messages /\ t.last # "none" /\ Repeats(t, t.last)
<1>1. Server(t)
  BY ServerFacts
<1>. QED BY <1>1 DEF Server, Repeats, Provisional, Decisive, Messages, Responses

\* A request, in every state.
LEMMA UasRxFit ==
  ASSUME NEW t, Poised(t), t.role = "UAS", NEW m, NEW e \in Env
  PROVE  Fit(t, UasRx(t, m, e))
<1>1. t.state \in {"NULL", "TRYING", "PROCEEDING", "COMPLETED", "CONFIRMED"}
  BY ServerFacts DEF Server
<1>2. Fit(t, t)
  BY SameFit DEF Poised
<1>3. CASE t.state = "NULL"
  <2>1. UasRx(t, m, e) = SetState(t, "TRYING", e)
    BY <1>3 DEF UasRx
  <2>. QED BY <1>3, <2>1, UasFirstFit
<1>4. CASE t.state = "PROCEEDING"
  <2>. DEFINE l == t.last
  <2>1. l \in Messages /\ l # "none" /\ Repeats(t, l)
    BY <1>4, ServerRepeats
  <2>2. UasRx(t, m, e) = SendMsg(t, l, e)
    BY <1>4, <2>1 DEF UasRx
  <2>. HIDE DEF l
  <2>3. Twin(t, t)
    BY SelfTwin
  <2>. QED BY <2>1, <2>2, <2>3, RepeatFit
<1>5. CASE t.state = "COMPLETED" /\ m = "req"
  <2>. DEFINE b == FALSE
  <2>1. UasRx(t, m, e) = Retransmit(t, b, e)
    BY <1>5 DEF UasRx
  <2>2. b \in BOOLEAN /\ ~b
    OBVIOUS
  <2>. HIDE DEF b
  <2>3. t.last \in Messages /\ Repeats(t, t.last)
    BY <1>5, ServerRepeats
  <2>4. Twin(t, t)
    BY SelfTwin
  <2>5. b => /\ t.due["rt"] = "off"
             /\ t.role = "UAC" => t.state # "COMPLETED"
             /\ t.role = "UAC" => t.status < 200
    BY <2>2
  <2>6. Fit(t, Retransmit(t, b, e))
    BY <2>2, <2>3, <2>4, <2>5, RetransmitFit
  <2>. QED BY <2>1, <2>6
<1>6. CASE t.state = "COMPLETED" /\ m # "req" /\ t.invite
  <2>1. UasRx(t, m, e) = UasAcked(t, e)
    BY <1>6 DEF UasRx
  <2>. QED BY <1>6, <2>1, UasAckedFit
<1>7. CASE \/ t.state \in {"TRYING", "CONFIRMED"}
           \/ t.state = "COMPLETED" /\ m # "req" /\ ~t.invite
  <2>1. UasRx(t, m, e) = t
    BY <1>7 DEF UasRx
  <2>. QED BY <1>2, <2>1
<1>. QED BY <1>1, <1>3, <1>4, <1>5, <1>6, <1>7

\* A timer of a server.
LEMMA UasTimerFit ==
  ASSUME NEW t, Poised(t), t.role = "UAS", NEW x, Ready(t, x), NEW e \in Env
  PROVE  Fit(t, UasTimer(t, x, e))
<1>1. /\ t \in Tsx /\ Sound(t) /\ t.alive /\ Half(t) /\ Paired(t) /\ Flagged(t) /\ Server(t)
      /\ t.state # "DESTROYED" /\ Proper(t, t.out) /\ Live(t) /\ t.out = {}
  BY ServerFacts DEF Poised
<1>2. x \in {"rt", "to"} /\ t.due[x] = "off"
  BY DEF Ready, Timers
<1>3. CASE x = "rt"
  <2>1. t.state \in {"PROCEEDING", "COMPLETED"} /\ t.due["rt"] = "off"
    BY <1>3 DEF Ready
  <2>. DEFINE b == TRUE
              h == "TRANSPORT" \notin t.flags
              c == Check(t, h, "uas_pending_timer")
              w == IF t.state = "PROCEEDING" THEN c ELSE t
  <2>2. UasTimer(t, x, e) = Retransmit(w, b, e)
    BY <1>3, <2>1 DEF UasTimer
  <2>3. b \in BOOLEAN
    OBVIOUS
  <2>. HIDE DEF b
  <2>4. /\ c \in Tsx /\ Sound(c) /\ c.role = t.role /\ c.invite = t.invite /\ c.alive = t.alive
        /\ c.state = t.state /\ c.transport = t.transport /\ c.flags = t.flags
        /\ c.pending = t.pending /\ c.last = t.last /\ c.out = t.out /\ c.wire = t.wire
        /\ c.due = t.due
    BY <1>1 DEF Check, Sound, Armed, Harmless, Tsx, Assertions
  <2>. HIDE DEF c
  <2>5. Flagged(c)
    BY <1>1, <2>4 DEF Flagged
  <2>6. Server(c)
    BY <1>1, <2>4 DEF Server, Early
  <2>7. Live(c) /\ Calm(c)
    BY <1>1, <2>4, <2>5, <2>6 DEF Live, Calm
  <2>8. Poised(c)
    BY <1>1, <2>4, <2>7 DEF Poised, Whole, Paired
  <2>9. Twin(t, c) /\ Twin(t, t)
    BY <2>4, <2>8, SelfTwin DEF Twin
  <2>10. Twin(t, w) /\ Poised(w) /\ w.role = "UAS" /\ w.state = t.state /\ w.due["rt"] = "off"
    BY <2>1, <2>4, <2>8, <2>9
  <2>. HIDE DEF w
  <2>11. w.last \in Messages /\ Repeats(w, w.last)
    BY <2>1, <2>10, ServerRepeats
  <2>12. b => /\ w.due["rt"] = "off"
              /\ w.role = "UAC" => w.state # "COMPLETED"
              /\ w.role = "UAC" => w.status < 200
    BY <2>10
  <2>13. Fit(t, Retransmit(w, b, e))
    BY <2>3, <2>10, <2>11, <2>12, RetransmitFit
  <2>. QED BY <2>2, <2>13
<1>4. CASE x = "to"
  <2>1. t.state \in {"COMPLETED", "CONFIRMED"}
    BY <1>4 DEF Ready
  <2>2. Fit(t, Fail(t, 408, e))
    BY <1>1, FailFit DEF Codes
  <2>3. Fit(t, SetState(t, "TERMINATED", e))
    BY <1>1, TerminatedFit
  <2>4. CASE t.state = "COMPLETED"
    BY <1>4, <2>2, <2>3, <2>4 DEF UasTimer
  <2>5. CASE t.state = "CONFIRMED"
    <3>1. UasTimer(t, x, e) = SetState(Check(t, x = "to", "confirmed_timer"), "TERMINATED", e)
      BY <2>5 DEF UasTimer
    <3>2. Check(t, x = "to", "confirmed_timer") = t
      BY <1>4 DEF Check
    <3>. QED BY <2>3, <3>1, <3>2
  <2>. QED BY <2>1, <2>4, <2>5
<1>. QED BY <1>2, <1>3, <1>4

\* The response m of the TU has been handed to tsx_send_msg, or waits for the
\* transport.
Said(t, u, m) ==
    /\ u \in Tsx /\ Sound(u) /\ Flagged(u) /\ Paired(u)
    /\ u.role = t.role /\ u.invite = t.invite /\ u.alive = t.alive
    /\ u.state = t.state /\ u.due = t.due
    /\ u.out \subseteq {m} /\ u.wire \subseteq t.wire \cup {m}
    /\ u.pending \in {"none", t.pending, m}
    /\ u.pending # m => u.wire = t.wire \/ u.pending = "none"

\* A server to which the TU gives a response.
Answers(t) == Poised(t) /\ t.role = "UAS" /\ t.state \in {"TRYING", "PROCEEDING"}

\* What a server that answers brings along.
LEMMA AnswersFacts ==
  ASSUME NEW t, Answers(t)
  PROVE  /\ t \in Tsx /\ t.alive /\ t.role = "UAS" /\ t.state # "DESTROYED"
         /\ t.due["to"] = "off" /\ (t.wire \cup {t.pending}) \cap Decisive = {}
         /\ \A out : Proper(t, out)
<1>1. Server(t) /\ t \in Tsx /\ t.alive /\ t.state # "DESTROYED"
  BY ServerFacts DEF Answers
<1>2. t.due["to"] = "off" /\ (t.wire \cup {t.pending}) \cap Decisive = {}
  BY <1>1 DEF Server, Early, Answers
<1>. QED BY <1>1, <1>2 DEF Proper, Answers

\* The response is sent, or the transaction ends.
LEMMA UasSendSaid ==
  ASSUME NEW t, Answers(t), NEW m \in Responses, NEW e \in Env
  PROVE  LET u == SendMsg([t EXCEPT !.status = Code(m), !.last = "none"], m, e)
         IN  \/ Fit(t, u) /\ SendErr(u)
             \/ Said(t, u, m) /\ ~SendErr(u)
<1>. DEFINE c == Code(m)
            b == [t EXCEPT !.status = c]
            a == [b EXCEPT !.last = "none"]
            u == SendMsg(a, m, e)
<1>1. /\ t \in Tsx /\ Sound(t) /\ t.alive /\ Paired(t) /\ Flagged(t)
      /\ t.state # "DESTROYED" /\ t.state \notin Ended /\ t.out = {}
  BY ServerFacts DEF Answers, Ended
<1>2. c \in Codes
  BY CodeTyped DEF Codes
<1>3. a = [t EXCEPT !.status = Code(m), !.last = "none"]
  BY DEF Tsx
<1>. HIDE DEF c
<1>4. /\ a \in Tsx /\ Sound(a) /\ a.role = t.role /\ a.invite = t.invite /\ a.alive = t.alive
      /\ a.state = t.state /\ a.due = t.due /\ a.transport = t.transport
      /\ a.flags = t.flags /\ a.pending = t.pending /\ a.out = t.out /\ a.wire = t.wire
  <2>1. b \in Tsx /\ Sound(b) /\ b.role = t.role /\ b.invite = t.invite /\ b.alive = t.alive
        /\ b.state = t.state /\ b.due = t.due /\ b.transport = t.transport
        /\ b.flags = t.flags /\ b.pending = t.pending /\ b.out = t.out /\ b.wire = t.wire
    BY <1>1, <1>2 DEF Sound, Armed, Tsx
  <2>. HIDE DEF b
  <2>. QED BY <2>1 DEF Sound, Armed, Tsx
<1>. HIDE DEF a
<1>5. Flagged(a) /\ Paired(a)
  BY <1>1, <1>4 DEF Flagged, Paired
<1>6. Sendable(a) /\ m \in Messages
  BY <1>1, <1>4, <1>5 DEF Sendable, Messages
<1>7. Sent(a, u, m) \/ Ends(a, u)
  BY <1>6, SendMsgSent
<1>. HIDE DEF u
<1>8. CASE Ends(a, u)
  <2>1. Fit(t, u)
    BY <1>1, <1>4, <1>8, AnswersFacts, EndsFit
  <2>2. SendErr(u)
    BY <1>8, SendErrEnded DEF Ends, Ended
  <2>. QED BY <1>3, <2>1, <2>2 DEF u
<1>9. CASE Sent(a, u, m)
  <2>1. /\ u \in Tsx /\ Sound(u) /\ u.role = t.role /\ u.invite = t.invite
        /\ u.alive = t.alive /\ u.state = t.state /\ u.due = t.due
    BY <1>4, <1>9 DEF Sent, Base
  <2>2. ~SendErr(u)
    BY <1>1, <2>1, SendErrEnded
  <2>3. m # "none" /\ m \in Messages
    BY DEF Messages, Responses
  <2>4. Flagged(u)
    BY <1>4, <1>5, <1>9, <2>1 DEF Flagged, Sent, Postponed, Emitted, Searches
  <2>5. Paired(u)
    BY <1>5, <1>9, <2>3 DEF Paired, Sent, Postponed, Emitted, Searches
  <2>6. /\ u.out \subseteq {m} /\ u.wire \subseteq t.wire \cup {m}
        /\ u.pending \in {t.pending, m}
    BY <1>1, <1>4, <1>9 DEF Sent, Postponed, Emitted, Searches
  <2>7. u.pending # m => u.wire = t.wire \/ u.pending = "none"
    BY <1>4, <1>5, <1>9 DEF Paired, Sent, Postponed, Emitted, Searches
  <2>. QED BY <1>3, <2>1, <2>2, <2>4, <2>5, <2>6, <2>7 DEF Said, u
<1>. QED BY <1>7, <1>8, <1>9

\* The retransmission timer of a server that goes on, or has just been ended.
LEMMA RearmFit ==
  ASSUME NEW t, NEW v, Fit(t, v), v.alive, v.role = "UAS",
         v.state \in {"PROCEEDING", "TERMINATED"}, NEW d \in Delays
  PROVE  Fit(t, ArmRetransmit(Cancel(v, "rt"), d))
<1>. DEFINE a == Cancel(v, "rt")
            r == ArmRetransmit(a, d)
<1>1. /\ v \in Tsx /\ Sound(v) /\ Paired(v) /\ (Gone(v) \/ Live(v)) /\ Calm(v)
      /\ v.role = t.role /\ v.invite = t.invite /\ Rank(t.state) <= Rank(v.state)
      /\ Proper(t, v.out)
  BY DEF Fit, Near, Whole
<1>2. Clock(v, a) /\ a.due["rt"] = "off" /\ a.due["to"] = v.due["to"]
  BY <1>1, CancelClock DEF Sound, Timers
<1>. HIDE DEF a
<1>3. a \in Tsx /\ Sound(a)
  BY <1>1, <1>2 DEF Clock, Sound
<1>4. /\ r \in Tsx /\ Sound(r)
      /\ r.role = a.role /\ r.invite = a.invite /\ r.alive = a.alive
      /\ r.state = a.state /\ r.last = a.last /\ r.transport = a.transport
      /\ r.pending = a.pending /\ r.out = a.out /\ r.wire = a.wire
      /\ r.due["to"] = a.due["to"]
      /\ \/ "TRANSPORT" \notin a.flags /\ r.flags = a.flags
         \/ /\ "TRANSPORT" \in a.flags /\ r.flags = a.flags \cup {"RESCHED"}
            /\ r.due["rt"] = "off"
  BY <1>2, <1>3, ArmRetransmitArms
<1>. HIDE DEF r
<1>5. /\ r.role = "UAS" /\ r.invite = v.invite /\ r.alive /\ r.state = v.state
      /\ r.last = v.last /\ r.transport = v.transport /\ r.pending = v.pending
      /\ r.out = v.out /\ r.wire = v.wire /\ r.due["to"] = v.due["to"]
      /\ \/ "TRANSPORT" \notin v.flags /\ r.flags = v.flags
         \/ /\ "TRANSPORT" \in v.flags /\ r.flags = v.flags \cup {"RESCHED"}
            /\ r.due["rt"] = "off"
  BY <1>2, <1>4 DEF Clock
<1>6. Paired(r)
  BY <1>1, <1>5 DEF Paired
<1>7. Gone(v) => Gone(r)
  BY <1>5 DEF Gone
<1>8. Live(v) => Live(r)
  <2>1. HAVE Live(v)
  <2>2. Server(v) /\ Flagged(v) /\ v.state = "PROCEEDING"
    BY <2>1 DEF Live, Ended
  <2>3. Flagged(r)
    BY <1>5, <2>2 DEF Flagged
  <2>4. Server(r)
    BY <1>5, <2>2 DEF Server
  <2>. QED BY <1>5, <2>2, <2>3, <2>4 DEF Live, Ended
<1>9. Whole(r) /\ Calm(r)
  BY <1>1, <1>4, <1>5, <1>6, <1>7, <1>8 DEF Whole, Calm
<1>10. Fit(t, r)
  BY <1>1, <1>5, <1>9 DEF Fit, Near
<1>. QED BY <1>10 DEF r, a

\* A provisional response.
LEMMA UasProvisionalFit ==
  ASSUME NEW t, Answers(t), NEW m \in Responses, Code(m) < 200, NEW u, Said(t, u, m),
         NEW e \in Env
  PROVE  Fit(t, UasProvisional(u, m, e))
<1>. DEFINE a == [u EXCEPT !.last = m]
            v == SetState(a, "PROCEEDING", e)
            x == [a EXCEPT !.state = "PROCEEDING"]
            r == ArmRetransmit(Cancel(v, "rt"), "1xx")
<1>1. UasProvisional(u, m, e) = IF u.invite /\ v.status > 100 THEN r ELSE v
  BY DEF UasProvisional
<1>2. m \in Provisional /\ m \notin Decisive /\ m \in Messages /\ m # "none"
  BY DEF Code, Responses, Provisional, Decisive, Messages
<1>3. /\ t \in Tsx /\ t.alive /\ t.role = "UAS" /\ t.state # "DESTROYED"
      /\ t.due["to"] = "off" /\ (t.wire \cup {t.pending}) \cap Decisive = {}
      /\ \A out : Proper(t, out)
  BY AnswersFacts
<1>4. /\ u \in Tsx /\ Sound(u) /\ Flagged(u) /\ Paired(u)
      /\ u.role = t.role /\ u.invite = t.invite /\ u.alive = t.alive
      /\ u.state = t.state /\ u.due = t.due
      /\ (u.wire \cup {u.pending}) \cap Decisive = {}
  <2>1. "none" \notin Decisive
    BY DEF Decisive
  <2>. QED BY <1>2, <1>3, <2>1 DEF Said
<1>5. /\ a \in Tsx /\ Sound(a) /\ a.role = u.role /\ a.invite = u.invite /\ a.alive = u.alive
      /\ a.state = u.state /\ a.due = u.due /\ a.transport = u.transport
      /\ a.flags = u.flags /\ a.pending = u.pending /\ a.wire = u.wire /\ a.last = m
  BY <1>2, <1>4 DEF Sound, Armed, Tsx
<1>. HIDE DEF a
<1>6. Paired(a) /\ Half(a)
  BY <1>4, <1>5 DEF Paired, Half
<1>7. /\ x.role = "UAS" /\ x.alive /\ x.state = "PROCEEDING"
      /\ x.due = u.due /\ x.transport = u.transport
      /\ x.flags = u.flags /\ x.pending = u.pending /\ x.wire = u.wire /\ x.last = m
  BY <1>3, <1>4, <1>5 DEF Tsx
<1>8. x = [a EXCEPT !.state = "PROCEEDING"]
  OBVIOUS
<1>. HIDE DEF x
<1>9. Flagged(x)
  BY <1>4, <1>7 DEF Flagged
<1>10. Server(x)
  BY <1>2, <1>3, <1>4, <1>7 DEF Server
<1>11. Live(x) /\ Calm(x)
  BY <1>7, <1>9, <1>10 DEF Live, Calm, Ended
<1>12. Live([a EXCEPT !.state = "PROCEEDING"]) /\ Calm([a EXCEPT !.state = "PROCEEDING"])
  BY <1>8, <1>11
<1>13. /\ "PROCEEDING" \in States \ Ended /\ Rank(t.state) <= Rank("PROCEEDING")
       /\ Rank(a.state) <= Rank("PROCEEDING")
  BY <1>4, <1>5 DEF States, Ended, Rank, Answers
<1>14. Proper(t, a.out)
  BY <1>3
<1>15. a.role = t.role /\ a.invite = t.invite /\ a.alive
  BY <1>3, <1>4, <1>5
<1>16. LET s == SetState(a, "PROCEEDING", e)
       IN  /\ Near(t, s) /\ s.alive
           /\ Calm([a EXCEPT !.state = "PROCEEDING"]) => Calm(s)
           /\ s = [a EXCEPT !.state = "PROCEEDING"] \/ s.state = "TERMINATED"
  BY <1>3, <1>5, <1>6, <1>12, <1>13, <1>14, <1>15, SetStateNear
<1>17. Fit(t, v) /\ v.alive /\ (v = x \/ v.state = "TERMINATED")
  BY <1>8, <1>12, <1>16 DEF Fit
<1>. HIDE DEF v
<1>18. v.role = "UAS" /\ v.state \in {"PROCEEDING", "TERMINATED"}
  BY <1>3, <1>7, <1>17 DEF Fit, Near
<1>19. Fit(t, r)
  BY <1>17, <1>18, RearmFit DEF Delays
<1>. QED BY <1>1, <1>17, <1>19

\* A final response.
LEMMA UasFinalFit ==
  ASSUME NEW t, Answers(t), NEW m \in Responses, Code(m) >= 200, NEW u, Said(t, u, m),
         NEW e \in Env
  PROVE  Fit(t, UasFinal(u, m, e))
<1>. DEFINE a == Cancel(u, "rt")
            again == u.invite /\ (m = "r2xx" \/ ~u.reliable)
            b == ArmRetransmit(a, "T1")
            v == IF again THEN b ELSE a
            l == [v EXCEPT !.last = m]
            d == FinalTimeout(u)
            w == Schedule(l, "to", d)
            x == [w EXCEPT !.state = "COMPLETED"]
<1>1. UasFinal(u, m, e) = IF m = "r2xx" /\ u.invite /\ ~u.own200
                          THEN SetState(a, "TERMINATED", e)
                          ELSE SetState(w, "COMPLETED", e)
  BY DEF UasFinal
<1>2. m \in Decisive /\ m \notin Provisional /\ m \in Messages /\ m # "none"
  BY DEF Code, Responses, Provisional, Decisive, Messages
<1>3. /\ t \in Tsx /\ t.alive /\ t.role = "UAS" /\ t.state # "DESTROYED"
      /\ t.due["to"] = "off" /\ (t.wire \cup {t.pending}) \cap Decisive = {}
      /\ \A out : Proper(t, out)
  BY AnswersFacts
<1>4. /\ u \in Tsx /\ Sound(u) /\ Flagged(u) /\ Paired(u)
      /\ u.role = "UAS" /\ u.invite = t.invite /\ u.alive
      /\ u.state = t.state /\ u.due["to"] = "off"
      /\ u.pending \in Provisional => u.wire \cap Decisive = {}
  <2>1. "none" \notin Provisional
    BY DEF Provisional
  <2>2. u.pending \in Provisional => u.wire = t.wire
    BY <1>2, <2>1 DEF Said
  <2>. QED BY <1>3, <2>2 DEF Said
<1>5. Clock(u, a) /\ a.due["rt"] = "off" /\ a.due["to"] = "off"
  BY <1>4, CancelClock DEF Sound, Timers
<1>. HIDE DEF a
<1>6. /\ a \in Tsx /\ Sound(a) /\ a.role = "UAS" /\ a.invite = t.invite /\ a.alive
      /\ a.state = t.state /\ a.transport = u.transport /\ a.flags = u.flags
      /\ a.pending = u.pending /\ a.wire = u.wire
  BY <1>4, <1>5 DEF Clock, Sound
<1>7. Paired(a) /\ Half(a)
  BY <1>4, <1>6 DEF Paired, Half
<1>8. CASE m = "r2xx" /\ u.invite /\ ~u.own200
  <2>1. Fit(t, SetState(a, "TERMINATED", e))
    BY <1>3, <1>6, <1>7, TerminatedFit DEF Answers
  <2>. QED BY <1>1, <1>8, <2>1
<1>9. CASE ~(m = "r2xx" /\ u.invite /\ ~u.own200)
  <2>1. d \in Delays
    BY DEF FinalTimeout, Delays
  <2>2. UasFinal(u, m, e) = SetState(w, "COMPLETED", e)
    BY <1>1, <1>9
  <2>. HIDE DEF d
  <2>3. /\ b \in Tsx /\ Sound(b)
        /\ b.role = a.role /\ b.invite = a.invite /\ b.alive = a.alive
        /\ b.state = a.state /\ b.last = a.last /\ b.transport = a.transport
        /\ b.pending = a.pending /\ b.out = a.out /\ b.wire = a.wire
        /\ b.due["to"] = a.due["to"]
        /\ \/ "TRANSPORT" \notin a.flags /\ b.flags = a.flags
           \/ /\ "TRANSPORT" \in a.flags /\ b.flags = a.flags \cup {"RESCHED"}
              /\ b.due["rt"] = "off"
    BY <1>5, <1>6, ArmRetransmitArms DEF Delays
  <2>. HIDE DEF b, again
  <2>4. /\ v \in Tsx /\ Sound(v) /\ v.role = "UAS" /\ v.invite = t.invite /\ v.alive
        /\ v.state = t.state /\ v.transport = u.transport /\ v.pending = u.pending
        /\ v.wire = u.wire /\ v.due["to"] = "off"
        /\ \/ v.flags = u.flags /\ ("TRANSPORT" \in u.flags => v.due["rt"] = "off")
           \/ /\ "TRANSPORT" \in u.flags /\ v.flags = u.flags \cup {"RESCHED"}
              /\ v.due["rt"] = "off"
    <3>1. CASE again
      <4>1. v = b
        BY <3>1
      <4>. HIDE DEF v
      <4>. QED BY <1>5, <1>6, <2>3, <4>1
    <3>2. CASE ~again
      <4>1. v = a
        BY <3>2
      <4>. HIDE DEF v
      <4>. QED BY <1>5, <1>6, <4>1
    <3>. QED BY <3>1, <3>2
  <2>. HIDE DEF v
  <2>5. /\ l \in Tsx /\ Sound(l) /\ l.role = "UAS" /\ l.invite = t.invite /\ l.alive
        /\ l.state = t.state /\ l.transport = u.transport /\ l.pending = u.pending
        /\ l.wire = u.wire /\ l.due = v.due /\ l.flags = v.flags /\ l.last = m
    BY <1>2, <2>4 DEF Sound, Armed, Tsx
  <2>. HIDE DEF l
  <2>6. Clock(l, w) /\ w.due["rt"] = l.due["rt"]
    BY <2>1, <2>4, <2>5, ScheduleClock DEF Sound, Timers
  <2>. HIDE DEF w
  <2>7. /\ w \in Tsx /\ Sound(w) /\ w.role = t.role /\ w.invite = t.invite /\ w.alive
        /\ w.state = t.state /\ w.transport = u.transport /\ w.pending = u.pending
        /\ w.wire = u.wire /\ w.flags = v.flags /\ w.last = m /\ w.due["rt"] = v.due["rt"]
    BY <1>3, <2>5, <2>6 DEF Clock, Sound
  <2>8. Paired(w) /\ Half(w)
    BY <1>4, <2>4, <2>7 DEF Paired, Half
  <2>9. /\ x.role = "UAS" /\ x.alive /\ x.state = "COMPLETED"
        /\ x.transport = u.transport /\ x.pending = u.pending /\ x.wire = u.wire
        /\ x.flags = v.flags /\ x.last = m /\ x.due["rt"] = v.due["rt"]
    BY <1>3, <2>7 DEF Tsx
  <2>10. x = [w EXCEPT !.state = "COMPLETED"]
    OBVIOUS
  <2>. HIDE DEF x
  <2>11. Flagged(x)
    BY <1>4, <2>4, <2>9 DEF Flagged
  <2>12. Server(x)
    BY <1>2, <1>4, <2>9 DEF Server, Early
  <2>13. Live(x) /\ Calm(x)
    BY <2>9, <2>11, <2>12 DEF Live, Calm, Ended
  <2>14. Live([w EXCEPT !.state = "COMPLETED"]) /\ Calm([w EXCEPT !.state = "COMPLETED"])
    BY <2>10, <2>13
  <2>15. /\ "COMPLETED" \in States \ Ended /\ Rank(t.state) <= Rank("COMPLETED")
         /\ Rank(w.state) <= Rank("COMPLETED")
    BY <2>7 DEF States, Ended, Rank, Answers
  <2>16. Proper(t, w.out)
    BY <1>3
  <2>17. Fit(t, SetState(w, "COMPLETED", e))
    BY <1>3, <2>7, <2>8, <2>14, <2>15, <2>16, SetStateFit
  <2>. QED BY <2>2, <2>17
<1>. QED BY <1>8, <1>9

\* A response of the TU.
LEMMA UasSendFit ==
  ASSUME NEW t, Answers(t), NEW m \in Responses, NEW e \in Env
  PROVE  Fit(t, UasSend(t, m, e))
<1>. DEFINE u == SendMsg([t EXCEPT !.status = Code(m), !.last = "none"], m, e)
<1>1. UasSend(t, m, e) = IF SendErr(u) THEN u
                         ELSE IF Code(m) < 200 THEN UasProvisional(u, m, e)
                         ELSE UasFinal(u, m, e)
  BY DEF UasSend
<1>2. \/ Fit(t, u) /\ SendErr(u)
      \/ Said(t, u, m) /\ ~SendErr(u)
  BY UasSendSaid
<1>. HIDE DEF u
<1>3. Said(t, u, m) => Fit(t, IF Code(m) < 200 THEN UasProvisional(u, m, e)
                                               ELSE UasFinal(u, m, e))
  <2>1. Code(m) < 200 \/ Code(m) >= 200
    BY CodeTyped
  <2>. QED BY <2>1, UasProvisionalFit, UasFinalFit, CodeTyped
<1>. QED BY <1>1, <1>2, <1>3

-----------------------------------------------------------------------------
(* The calls from outside *)

\* Before a call: a transaction in order, with nothing on the wire yet.
Rested(t) == Whole(t) /\ Calm(t) /\ t.out = {}

\* A transaction is alive and active, or what is left of one.
LEMMA RestedCases ==
  ASSUME NEW t, Rested(t)
  PROVE  /\ Gone(t) \/ Poised(t)
         /\ t \in Tsx /\ Sound(t) /\ Half(t) /\ Paired(t) /\ t.out = {} /\ Fit(t, t)
<1>1. Fit(t, t)
  BY SameFit DEF Rested
<1>. QED BY <1>1 DEF Rested, Poised, Whole, Paired, Half

\* What is gone stays gone when a callback is surprised by it.
LEMMA DeadFit ==
  ASSUME NEW t, Rested(t), Gone(t)
  PROVE  Fit(t, Check(t, FALSE, "dead"))
<1>. DEFINE u == Check(t, FALSE, "dead")
<1>1. t \in Tsx /\ Sound(t) /\ Paired(t) /\ t.out = {}
  BY RestedCases
<1>2. u = [t EXCEPT !.failed = @ \cup {"dead"}]
  BY DEF Check
<1>. HIDE DEF u
<1>3. /\ u \in Tsx /\ Sound(u) /\ u.role = t.role /\ u.invite = t.invite
      /\ u.state = t.state /\ u.alive = t.alive /\ u.flags = t.flags
      /\ u.pending = t.pending /\ u.due = t.due /\ u.out = {}
  BY <1>1, <1>2 DEF Sound, Armed, Harmless, Tsx, Assertions
<1>4. Gone(u) /\ Paired(u)
  BY <1>1, <1>3 DEF Gone, Paired
<1>5. Whole(u) /\ Calm(u)
  BY <1>3, <1>4 DEF Whole, Calm, Gone
<1>6. Rank(t.state) <= Rank(u.state) /\ Proper(t, u.out)
  BY <1>1, <1>3, RankOrder DEF Tsx, Proper
<1>. QED BY <1>3, <1>5, <1>6 DEF Fit, Near, u

\* What has been freed is in order.
LEMMA FreedFit ==
  ASSUME NEW t, Rested(t), NEW v, v.state \in Ended, v.role = t.role, v.invite = t.invite,
         v.out = {}, Rank(t.state) <= Rank(v.state), NEW u, Freed(v, u)
  PROVE  Fit(t, u)
<1>1. Gone(u) /\ Paired(u)
  BY DEF Freed, Gone, Paired
<1>2. Whole(u) /\ Calm(u)
  BY <1>1 DEF Freed, Whole, Calm
<1>3. Proper(t, u.out)
  BY DEF Freed, Proper
<1>. QED BY <1>2, <1>3 DEF Fit, Near, Freed

\* tsx_timer_callback.
LEMMA OnTimerFit ==
  ASSUME NEW t, Rested(t), t.alive, NEW x, Live(t) => Ready(t, x), NEW e \in Env,
         t.state \in {"CALLING", "PROCEEDING"} /\ t.role = "UAC" => t.status < 200
  PROVE  Fit(t, OnTimer(t, x, e))
<1>1. CASE Gone(t)
  <2>. DEFINE v == [t EXCEPT !.state = "DESTROYED"]
  <2>1. t \in Tsx /\ Sound(t) /\ "TRANSPORT" \notin t.flags /\ t.pending = "none"
        /\ t.state = "TERMINATED" /\ t.out = {}
    BY <1>1, RestedCases DEF Gone
  <2>2. OnTimer(t, x, e) = SetState(t, "DESTROYED", e)
    BY <2>1 DEF OnTimer
  <2>3. Freed(v, SetState(t, "DESTROYED", e))
    BY <2>1, DestroyedFrees
  <2>4. v.state = "DESTROYED" /\ v.role = t.role /\ v.invite = t.invite /\ v.out = {}
    BY <2>1 DEF Tsx
  <2>. HIDE DEF v
  <2>5. Rank(t.state) <= Rank(v.state)
    BY <2>1, <2>4 DEF Rank
  <2>6. Fit(t, SetState(t, "DESTROYED", e))
    BY <2>3, <2>4, <2>5, FreedFit DEF Ended
  <2>. QED BY <2>2, <2>6
<1>2. CASE Poised(t)
  <2>1. Ready(t, x) /\ t.state \notin Ended /\ t.role \in {"UAC", "UAS"}
    BY <1>2 DEF Poised, Live, Whole, Tsx
  <2>2. OnTimer(t, x, e) = IF t.role = "UAC" THEN UacTimer(t, x, e) ELSE UasTimer(t, x, e)
    BY <2>1 DEF OnTimer, Ended
  <2>3. CASE t.role = "UAC"
    BY <1>2, <2>1, <2>2, <2>3, UacTimerFit
  <2>4. CASE t.role = "UAS"
    BY <1>2, <2>1, <2>2, <2>4, UasTimerFit
  <2>. QED BY <2>1, <2>3, <2>4
<1>. QED BY <1>1, <1>2, RestedCases

\* A message for a transaction that has ended.
LEMMA OnRxGone ==
  ASSUME NEW t, Rested(t), Gone(t), NEW m, NEW e
  PROVE  Fit(t, OnRx(t, m, e)) /\ ~Final3xx(t, m)
<1>1. t.state \in Ended /\ t.state \in States /\ Fit(t, t)
  BY RestedCases DEF Gone, Tsx
<1>2. OnRx(t, m, e) = Check(t, t.state = "TERMINATED", "dead")
  BY <1>1, RankTerminated DEF OnRx
<1>3. Check(t, t.state = "TERMINATED", "dead") \in {t, Check(t, FALSE, "dead")}
  BY DEF Check
<1>4. Fit(t, OnRx(t, m, e))
  BY <1>1, <1>2, <1>3, DeadFit
<1>. QED BY <1>1, <1>4 DEF Final3xx, Ended

\* A message from the network, for a server.
LEMMA ServerRxFit ==
  ASSUME NEW t, Rested(t), t.role = "UAS", NEW m, NEW e \in Env
  PROVE  Fit(t, OnRx(t, m, e))
<1>1. CASE Poised(t)
  <2>1. t.state \in States /\ t.state \notin Ended
    BY <1>1, PoisedSendable
  <2>2. OnRx(t, m, e) = UasRx(t, m, e)
    BY <2>1, RankTerminated DEF OnRx
  <2>. QED BY <1>1, <2>2, UasRxFit
<1>. QED BY <1>1, OnRxGone, RestedCases

\* A message from the network, for a client.
LEMMA ClientRxNear ==
  ASSUME NEW t, Rested(t), t.role = "UAC", NEW m \in Responses, "req" \in t.wire, NEW e \in Env
  PROVE  LET u == OnRx(t, m, e)
             half == Final3xx(t, m) /\ ~SendErr(UacRejected(Begun(t, m), m, e))
         IN  /\ Near(t, u)
             /\ half => u.alive /\ u.state \in {"COMPLETED", "TERMINATED"}
             /\ ~half => Calm(u)
<1>1. CASE Gone(t)
  BY <1>1, OnRxGone DEF Fit
<1>2. CASE Poised(t)
  <2>1. t.state \in States /\ t.state \notin Ended
    BY <1>2, PoisedSendable
  <2>2. OnRx(t, m, e) = UacRx(t, m, e)
    BY <2>1, RankTerminated DEF OnRx
  <2>. QED BY <1>2, <2>2, UacRxFit
<1>. QED BY <1>1, <1>2, RestedCases

\* transport_callback with an error.
LEMMA TransportErrorFit ==
  ASSUME NEW t, Rested(t), t.alive, NEW e \in Env
  PROVE  Fit(t, TransportError(t, e))
<1>. DEFINE w == [t EXCEPT !.transport = FALSE]
<1>1. t \in Tsx /\ Sound(t) /\ Half(t) /\ t.state # "DESTROYED" /\ t.out = {}
  BY RestedCases, PoisedSendable DEF Gone
<1>2. w \in Tsx /\ Sound(w) /\ Half(w) /\ w.state = t.state
      /\ w.role = t.role /\ w.invite = t.invite /\ w.alive /\ w.out = {}
  BY <1>1 DEF Sound, Armed, Half, Tsx
<1>3. TransportError(t, e) = Fail(w, 503, e)
  BY DEF TransportError
<1>. HIDE DEF w
<1>4. Ends(w, Fail(w, 503, e))
  BY <1>1, <1>2, FailEnds DEF Codes
<1>5. Proper(t, w.out)
  BY <1>2 DEF Proper
<1>6. Fit(t, Fail(w, 503, e))
  BY <1>1, <1>2, <1>4, <1>5, EndsFit
<1>. QED BY <1>3, <1>6

\* A transport that disconnects.
LEMMA TransportDownFit ==
  ASSUME NEW t, Rested(t), NEW e \in Env
  PROVE  Fit(t, TransportDown(t, e))
<1>1. CASE Gone(t)
  <2>1. t.state \in States /\ t.state \in Ended /\ Fit(t, t)
    BY <1>1, RestedCases DEF Gone, Tsx
  <2>2. ~(Rank(t.state) < Rank("TERMINATED"))
    BY <2>1 DEF Ended, Rank
  <2>. QED BY <2>1, <2>2 DEF TransportDown
<1>2. CASE Poised(t)
  <2>1. /\ t \in Tsx /\ Sound(t) /\ Half(t) /\ t.alive /\ t.state # "DESTROYED" /\ t.out = {}
        /\ Fit(t, t)
    BY <1>2, PoisedSendable, RestedCases
  <2>2. Proper(t, t.out)
    BY <2>1 DEF Proper
  <2>3. Fit(t, Fail(t, 503, e))
    BY <1>2, <2>1, <2>2, FailFit DEF Codes
  <2>. QED BY <2>1, <2>3 DEF TransportDown
<1>. QED BY <1>1, <1>2, RestedCases

\* pjsip_tsx_terminate, of a transaction that is active.
LEMMA TerminateFit ==
  ASSUME NEW t, Poised(t)
  PROVE  Fit(t, Terminate(t)) /\ Ends(t, Terminate(t))
<1>1. /\ t \in Tsx /\ Sound(t) /\ Half(t) /\ t.alive /\ t.state # "DESTROYED"
      /\ t.state \notin Ended /\ t.state \in States /\ t.out = {}
  BY PoisedSendable DEF Poised
<1>2. Terminate(t) = ForceTerminate(t)
  BY <1>1, RankTerminated DEF Terminate
<1>3. Ends(t, ForceTerminate(t))
  BY <1>1, ForceEnds
<1>4. Proper(t, t.out)
  BY <1>1 DEF Proper
<1>5. Fit(t, ForceTerminate(t))
  BY <1>1, <1>3, <1>4, EndsFit
<1>. QED BY <1>2, <1>3, <1>5

\* mod_tsx_layer_stop.
LEMMA StopFit ==
  ASSUME NEW t, Rested(t)
  PROVE  Fit(t, Stop(t))
<1>. DEFINE v == Terminate(t)
            w == [v EXCEPT !.registered = FALSE]
<1>1. /\ v \in Tsx /\ Sound(v) /\ v.state \in Ended /\ "TRANSPORT" \notin v.flags
      /\ v.pending = "none" /\ v.role = t.role /\ v.invite = t.invite /\ v.out = {}
      /\ Rank(t.state) <= Rank(v.state)
  <2>1. CASE Gone(t)
    <3>1. t \in Tsx /\ Sound(t) /\ t.state \in States /\ t.state \in Ended /\ t.out = {}
      BY <2>1, RestedCases DEF Gone, Tsx
    <3>2. v = t
      BY <3>1, RankTerminated DEF Terminate
    <3>. HIDE DEF v
    <3>. QED BY <2>1, <3>1, <3>2, RankOrder DEF Gone
  <2>2. CASE Poised(t)
    <3>1. Fit(t, v) /\ Ends(t, v) /\ t.out = {}
      BY <2>2, TerminateFit DEF Poised
    <3>. HIDE DEF v
    <3>. QED BY <3>1 DEF Ends, Ended, Fit, Near
  <2>. QED BY <2>1, <2>2, RestedCases
<1>2. Stop(t) = Destroy(w)
  BY DEF Stop
<1>. HIDE DEF v
<1>3. /\ w \in Tsx /\ Sound(w) /\ w.state = v.state /\ "TRANSPORT" \notin w.flags
      /\ w.pending = "none" /\ w.role = t.role /\ w.invite = t.invite /\ w.out = {}
  BY <1>1 DEF Sound, Armed, Tsx
<1>. HIDE DEF w
<1>4. Freed(w, Destroy(w))
  BY <1>3, DestroyFrees
<1>5. Fit(t, Destroy(w))
  BY <1>1, <1>3, <1>4, FreedFit
<1>. QED BY <1>2, <1>5

\* pjsip_tsx_set_timeout, of a client whose request has been sent.
LEMMA SetTimeoutFit ==
  ASSUME NEW t, Rested(t), t.role = "UAC", t.alive, t.status >= 100
  PROVE  Fit(t, SetTimeout(t))
<1>. DEFINE u == Schedule(Cancel(t, "to"), "to", "user")
<1>1. t \in Tsx /\ Sound(t) /\ Fit(t, t)
  BY RestedCases
<1>2. SetTimeout(t) \in {t, u}
  BY DEF SetTimeout
<1>3. Clock(t, u) /\ u.due["rt"] = t.due["rt"]
  BY <1>1, RestartClock DEF Sound, Timers, Delays
<1>. HIDE DEF u
<1>4. Gone(t) => Gone(u)
  BY <1>3 DEF Gone, Clock
<1>5. Live(t) => Live(u)
  <2>1. HAVE Live(t)
  <2>2. t.state # "NULL"
    BY <2>1 DEF Live, Client
  <2>. QED BY <1>1, <1>3, <2>1, <2>2, ClockLive
<1>6. Fit(t, u)
  BY <1>3, <1>4, <1>5, ClockFit DEF Rested
<1>. QED BY <1>1, <1>2, <1>6

\* pjsip_tsx_stop_retransmit.
LEMMA StopRetransmitFit ==
  ASSUME NEW t, Poised(t)
  PROVE  Fit(t, Cancel(t, "rt"))
<1>. DEFINE u == Cancel(t, "rt")
<1>1. t \in Tsx /\ Sound(t) /\ Live(t) /\ Whole(t) /\ Calm(t) /\ t.out = {}
  BY PoisedSendable DEF Poised
<1>2. Clock(t, u) /\ u.due["rt"] = "off" /\ u.due["to"] = t.due["to"]
  BY <1>1, CancelClock DEF Sound, Timers
<1>. HIDE DEF u
<1>3. Live(u)
  BY <1>1, <1>2, ClockLive
<1>4. ~Gone(t)
  BY <1>1 DEF Live, Gone
<1>5. Fit(t, u)
  BY <1>1, <1>2, <1>3, <1>4, ClockFit
<1>. QED BY <1>5 DEF u

-----------------------------------------------------------------------------
(* The end of a stateless send *)

\* A transaction whose stateless send is over, before send_msg_callback tells it.
Told(t) == t \in Tsx /\ Sound(t) /\ Live(t) /\ "TRANSPORT" \in t.flags /\ t.pending = "none"

\* send_msg_callback after a success.
LEMMA SendDoneFit ==
  ASSUME NEW t, Told(t), t.out = {}, t.role = "UAC" => t.status < 200, NEW e \in Env
  PROVE  Fit(t, SendDone(t, e))
<1>. DEFINE u == SendDone(t, e)
<1>1. /\ t \in Tsx /\ Sound(t) /\ Live(t) /\ t.alive /\ t.state \notin Ended /\ Flagged(t)
      /\ "TRANSPORT" \in t.flags /\ t.pending = "none" /\ t.role \in {"UAC", "UAS"}
      /\ t.state \in States
  BY DEF Told, Live, Tsx
<1>2. t.role = "UAC" => Client(t) /\ "SEND" \notin t.flags /\ t.state = "CALLING"
  BY <1>1 DEF Live, Client
<1>3. t.role = "UAS" =>
        /\ Server(t) /\ t.state \in {"PROCEEDING", "COMPLETED", "CONFIRMED"}
        /\ t.last \in IF t.state = "PROCEEDING" THEN Provisional ELSE Decisive
  BY <1>1 DEF Live, Server
<1>4. t.role = "UAS" => t.last # "none"
  BY <1>3 DEF Provisional, Decisive
<1>5. Awaits(t)
  BY <1>1, <1>2, <1>4 DEF Awaits, Flagged
<1>6. Done(t, u)
  BY <1>5, SendDoneDone
<1>. HIDE DEF u
<1>7. Proper(t, u.out)
  <2>1. u.out \subseteq Late(t)
    BY <1>6 DEF Done
  <2>2. CASE t.role = "UAC"
    BY <1>2, <2>1, <2>2 DEF Late, Proper
  <2>3. CASE t.role = "UAS"
    BY <1>3, <2>1, <2>3 DEF Late, Proper, Server, Early, Provisional, Decisive
  <2>. QED BY <1>1, <2>2, <2>3
<1>8. /\ u \in Tsx /\ Sound(u) /\ u.role = t.role /\ u.invite = t.invite /\ u.alive
      /\ "TRANSPORT" \notin u.flags /\ u.pending = "none"
  BY <1>1, <1>6 DEF Done
<1>9. Paired(u)
  BY <1>8 DEF Paired
<1>10. CASE u.state = "TERMINATED"
  <2>1. Gone(u) /\ Calm(u)
    BY <1>8, <1>10 DEF Gone, Ended, Calm
  <2>2. t.state \in States \ {"DESTROYED"}
    BY <1>1 DEF Ended
  <2>3. Rank(t.state) <= Rank(u.state)
    BY <1>10, <2>2, RankOrder
  <2>4. Fit(t, u)
    BY <1>7, <1>8, <1>9, <2>1, <2>3 DEF Fit, Near, Whole
  <2>. QED BY <2>4 DEF u
<1>11. CASE u.state # "TERMINATED"
  <2>1. /\ u.state = t.state /\ u.last = t.last /\ u.transport
        /\ {"SEND", "RESCHED"} \cap u.flags = {} /\ "RESOLVED" \in u.flags
        /\ u.wire \subseteq t.wire \cup Late(t)
        /\ u.due["to"] = t.due["to"]
        /\ "RESCHED" \notin t.flags => u.due["rt"] = t.due["rt"]
    BY <1>6, <1>11 DEF Done
  <2>2. Flagged(u)
    BY <1>8, <2>1 DEF Flagged
  <2>3. ASSUME t.role = "UAC"
        PROVE  Live(u)
    <3>1. Late(t) = {}
      BY <1>2, <2>3 DEF Late
    <3>2. Client(u)
      BY <1>2, <1>8, <2>1, <2>3, <3>1 DEF Client
    <3>. QED BY <1>1, <1>8, <2>1, <2>2, <2>3, <3>2 DEF Live
  <2>4. ASSUME t.role = "UAS"
        PROVE  Live(u)
    <3>1. Server(t)
      BY <1>3, <2>4
    <3>2. t.state = "PROCEEDING" => u.wire \cap Decisive = {}
      <4>1. HAVE t.state = "PROCEEDING"
      <4>2. t.wire \cap Decisive = {}
        BY <3>1, <4>1 DEF Server, Early
      <4>3. Late(t) \cap Decisive = {}
        BY <1>3, <2>4, <4>1 DEF Late, Provisional, Decisive
      <4>. QED BY <2>1, <4>2, <4>3
    <3>3. "none" \notin Decisive /\ "none" \notin Provisional
      BY DEF Decisive, Provisional
    <3>4. u.due["to"] = "off" \/ t.state # "PROCEEDING"
      BY <2>1, <3>1 DEF Server, Early
    <3>5. t.state = "CONFIRMED" => u.due["rt"] = "off"
      BY <2>1, <3>1 DEF Server
    <3>6. u.state \in {"PROCEEDING", "COMPLETED", "CONFIRMED"}
      BY <1>3, <2>1, <2>4
    <3>7. u.state \in Early => u.due["to"] = "off" /\ (u.wire \cup {u.pending}) \cap Decisive = {}
      BY <1>8, <2>1, <3>2, <3>3, <3>4, <3>6 DEF Early
    <3>8. u.state = "PROCEEDING" => u.last \in Provisional
      BY <1>3, <2>1, <2>4
    <3>9. u.state \in {"COMPLETED", "CONFIRMED"} => u.last \in Decisive
      BY <1>3, <2>1, <2>4
    <3>10. Server(u)
      BY <1>8, <2>1, <3>3, <3>5, <3>6, <3>7, <3>8, <3>9 DEF Server
    <3>. QED BY <1>1, <1>8, <2>1, <2>2, <2>4, <3>10 DEF Live
  <2>5. Live(u)
    BY <1>1, <2>3, <2>4
  <2>6. Calm(u)
    BY <1>2, <1>8, <2>1 DEF Calm
  <2>7. Rank(t.state) <= Rank(u.state)
    BY <1>1, <2>1, RankOrder
  <2>8. Fit(t, u)
    BY <1>7, <1>8, <1>9, <2>5, <2>6, <2>7 DEF Fit, Near, Whole
  <2>. QED BY <2>8 DEF u
<1>. QED BY <1>10, <1>11

\* send_msg_callback after the last failure.
LEMMA SendFailedFit ==
  ASSUME NEW t, Told(t), t.out = {}, NEW e \in Env
  PROVE  Fit(t, SendFailed(t, e))
<1>1. /\ t \in Tsx /\ Sound(t) /\ t.alive /\ t.state \notin Ended /\ t.pending = "none"
      /\ t.state # "DESTROYED"
  BY DEF Told, Live, Ended
<1>2. Ends(t, SendFailed(t, e))
  BY <1>1, SendFailedEnds
<1>3. Proper(t, t.out)
  BY DEF Proper
<1>. QED BY <1>1, <1>2, <1>3, EndsFit

\* send_msg_callback after a failure that leaves another server to try.
LEMMA SendRetriedFit ==
  ASSUME NEW t, Told(t), t.out = {}, t.role = "UAC", Calm(t)
  PROVE  Fit(t, SendRetried(t, "req"))
<1>. DEFINE p == [t EXCEPT !.transport = FALSE, !.pending = "req"]
            u == SendRetried(t, "req")
<1>1. /\ t \in Tsx /\ Sound(t) /\ t.alive /\ Client(t) /\ Flagged(t) /\ t.state = "CALLING"
      /\ "TRANSPORT" \in t.flags
  BY DEF Told, Live, Client
<1>2. Clock(p, u) /\ u.due["rt"] = t.due["rt"]
  BY <1>1, SendRetriedClock DEF Messages, Requests
<1>3. /\ p.role = t.role /\ p.invite = t.invite /\ p.state = t.state /\ p.flags = t.flags
      /\ p.pending = "req" /\ p.last = t.last /\ p.alive = t.alive /\ p.out = t.out
      /\ p.wire = t.wire /\ p.failed = t.failed /\ ~p.transport
  BY <1>1 DEF Tsx
<1>. HIDE DEF p, u
<1>4. /\ u \in Tsx /\ Sound(u) /\ u.role = "UAC" /\ u.invite = t.invite
      /\ u.state = "CALLING" /\ u.flags = t.flags /\ u.pending = "req" /\ u.last = t.last
      /\ u.alive /\ u.out = {} /\ u.wire = t.wire
  BY <1>1, <1>2, <1>3 DEF Clock, Sound
<1>5. Flagged(u)
  BY <1>1, <1>2, <1>4 DEF Flagged
<1>6. Client(u)
  BY <1>1, <1>2, <1>4 DEF Client
<1>7. Live(u) /\ Calm(u) /\ Paired(u)
  BY <1>1, <1>4, <1>5, <1>6 DEF Live, Calm, Paired, Ended
<1>8. Proper(t, u.out) /\ Rank(t.state) <= Rank(u.state)
  BY <1>1, <1>4, RankOrder DEF Proper, States
<1>9. Fit(t, u)
  BY <1>4, <1>7, <1>8 DEF Fit, Near, Whole
<1>. QED BY <1>9 DEF u

\* A stateless send that gets through.
LEMMA WiredNear ==
  ASSUME NEW t, Poised(t), t.pending # "none"
  PROVE  LET u == Emit(t, t.pending, FALSE)
         IN  Near(t, u) /\ Live(u) /\ u.pending = t.pending
<1>. DEFINE m == t.pending
            u == Emit(t, m, FALSE)
<1>1. /\ t \in Tsx /\ Sound(t) /\ Live(t) /\ Paired(t) /\ t.alive /\ t.out = {}
      /\ t.state \notin Ended /\ t.state \in States /\ t.role \in {"UAC", "UAS"}
      /\ m \in Messages
  BY PoisedSendable DEF Poised, Whole, Tsx
<1>2. Flagged(t) /\ "TRANSPORT" \in t.flags
  BY <1>1 DEF Live, Paired
<1>. DEFINE q == FALSE
<1>3. q \in BOOLEAN
  OBVIOUS
<1>. DEFINE r == Emit(t, m, q)
<1>. HIDE DEF q
<1>4. \A n \in Messages :
        LET v == Emit(t, n, q)
        IN  /\ Base(t, v) /\ v.flags = t.flags /\ v.transport = t.transport
            /\ v.pending = t.pending /\ v.status = t.status /\ v.reliable = t.reliable
            /\ v.out = t.out \cup {n} /\ v.wire = t.wire \cup {n}
  BY <1>1, <1>3, EmitBase
<1>5. /\ Base(t, r) /\ r.flags = t.flags /\ r.transport = t.transport
      /\ r.pending = m /\ r.out = {m} /\ r.wire = t.wire \cup {m}
  BY <1>1, <1>4
<1>. HIDE DEF r, m
<1>6. /\ r \in Tsx /\ Sound(r) /\ r.role = t.role /\ r.invite = t.invite /\ r.alive
      /\ r.state = t.state /\ r.last = t.last /\ r.due = t.due
  BY <1>1, <1>5 DEF Base
<1>7. m = t.pending
  BY DEF m
<1>8. Flagged(r) /\ Paired(r)
  BY <1>1, <1>2, <1>5, <1>6, <1>7 DEF Flagged, Paired
<1>9. ASSUME t.role = "UAC"
      PROVE  Live(r) /\ Proper(t, r.out)
  <2>1. Client(t) /\ t.state = "CALLING" /\ m = "req"
    BY <1>1, <1>2, <1>7, <1>9 DEF Live, Client
  <2>2. Client(r)
    BY <1>5, <1>6, <2>1 DEF Client, Requests
  <2>3. Proper(t, r.out)
    BY <1>5, <2>1 DEF Proper, Provisional
  <2>. QED BY <1>1, <1>6, <1>8, <1>9, <2>2, <2>3 DEF Live
<1>10. ASSUME t.role = "UAS"
       PROVE  Live(r) /\ Proper(t, r.out)
  <2>1. Server(t)
    BY <1>1, <1>10 DEF Live
  <2>2. Proper(t, r.out)
    BY <1>5, <1>7, <1>10, <2>1 DEF Proper, Server
  <2>3. Server(r)
    BY <1>5, <1>6, <1>7, <2>1 DEF Server, Provisional, Decisive, Early
  <2>. QED BY <1>1, <1>6, <1>8, <1>10, <2>2, <2>3 DEF Live
<1>11. Live(r) /\ Proper(t, r.out)
  BY <1>1, <1>9, <1>10
<1>12. Rank(t.state) <= Rank(r.state)
  BY <1>1, <1>6, RankOrder
<1>13. Near(t, r)
  BY <1>6, <1>8, <1>11, <1>12 DEF Near, Whole
<1>. QED BY <1>5, <1>7, <1>11, <1>13 DEF r, q, m

-----------------------------------------------------------------------------
(* The thread *)

\* What the thread has in hand.  Wherever it waits for the lock nothing can
\* come before it: the transaction is as the thread has left it.
Held(t, p) ==
    /\ p.pc \in {"idle", "txerr"} => Whole(t) /\ Calm(t)
    /\ p.pc \in {"popped", "timer"} =>
         /\ Whole(t) /\ Calm(t) /\ t.alive
         /\ p.arg \in Timers /\ t.due[p.arg] = "off"
         /\ Live(t) => Ready(t, p.arg)
    /\ p.pc = "rx" => /\ Whole(t) /\ Calm(t)
                      /\ t.role = "UAC" => p.arg \in Responses /\ "req" \in t.wire
    /\ p.pc \in {"wired", "sendcb"} => p.arg \in {"sent", "retried", "failed"}
    /\ p.pc = "wired" => /\ Whole(t) /\ Live(t) /\ t.pending # "none"
                         /\ p.arg # "sent" => Calm(t)
                         /\ p.arg = "retried" => t.role = "UAC"
    /\ p.pc = "sendcb" => /\ Told(t)
                          /\ p.arg # "sent" => Calm(t)
                          /\ p.arg = "retried" => t.role = "UAC"
    /\ p.pc = "final" => /\ Whole(t) /\ t.alive /\ t.role = "UAC"
                         /\ t.state \in {"COMPLETED", "TERMINATED"}

AloneInv == \A w \in Workers : Held(tsx, at[w])

\* What a step owes, with one thread: the invariant, a state that is no earlier,
\* and messages that the ones before allow.
AloneOwed == /\ AloneInv'
             /\ Rank(tsx.state) <= Rank(tsx'.state)
             /\ Proper(tsx, tsx'.out)

\* The transaction before a step, with nothing sent yet.
LEMMA FreshTyped ==
  ASSUME Inv
  PROVE  /\ tsx \in Tsx /\ Fresh \in Tsx /\ Fresh.out = {}
         /\ Fresh.role = tsx.role /\ Fresh.invite = tsx.invite /\ Fresh.state = tsx.state
         /\ Fresh.status = tsx.status /\ Fresh.flags = tsx.flags
         /\ Fresh.reliable = tsx.reliable /\ Fresh.transport = tsx.transport
         /\ Fresh.pending = tsx.pending /\ Fresh.last = tsx.last
         /\ Fresh.alive = tsx.alive /\ Fresh.wire = tsx.wire /\ Fresh.due = tsx.due
         /\ Fresh.armed = tsx.armed /\ Fresh.failed = tsx.failed /\ Fresh.sends = tsx.sends
<1>1. tsx \in Tsx
  BY DEF Inv, TypeOK
<1>. QED BY <1>1 DEF Fresh, Tsx

\* What the thread has in hand does not depend on what was sent before.
LEMMA FreshHeld ==
  ASSUME Inv, NEW p, Held(tsx, p)
  PROVE  Held(Fresh, p)
<1>. DEFINE f == Fresh
            t == tsx
<1>1. /\ t \in Tsx /\ f \in Tsx
      /\ f.role = t.role /\ f.invite = t.invite /\ f.state = t.state
      /\ f.status = t.status /\ f.flags = t.flags
      /\ f.reliable = t.reliable /\ f.transport = t.transport
      /\ f.pending = t.pending /\ f.last = t.last
      /\ f.alive = t.alive /\ f.wire = t.wire /\ f.due = t.due
      /\ f.armed = t.armed /\ f.failed = t.failed
  BY FreshTyped
<1>2. Held(t, p)
  OBVIOUS
<1>. HIDE DEF f, t
<1>3. Sound(t) => Sound(f)
  BY <1>1 DEF Sound, Armed
<1>4. Paired(t) => Paired(f)
  BY <1>1 DEF Paired
<1>5. Gone(t) => Gone(f)
  BY <1>1 DEF Gone
<1>6. Flagged(t) => Flagged(f)
  BY <1>1 DEF Flagged
<1>7. Client(t) => Client(f)
  BY <1>1 DEF Client
<1>8. Server(t) => Server(f)
  BY <1>1 DEF Server
<1>9. Live(t) => Live(f)
  BY <1>1, <1>6, <1>7, <1>8 DEF Live
<1>10. Live(f) => Live(t)
  <2>1. Flagged(f) => Flagged(t)
    BY <1>1 DEF Flagged
  <2>2. Client(f) => Client(t)
    BY <1>1 DEF Client
  <2>3. Server(f) => Server(t)
    BY <1>1 DEF Server
  <2>. QED BY <1>1, <2>1, <2>2, <2>3 DEF Live
<1>11. Calm(t) => Calm(f)
  BY <1>1 DEF Calm
<1>12. Whole(t) => Whole(f)
  BY <1>1, <1>3, <1>4, <1>5, <1>9 DEF Whole
<1>13. Told(t) => Told(f)
  BY <1>1, <1>3, <1>9 DEF Told
<1>14. \A x : Ready(t, x) => Ready(f, x)
  BY <1>1 DEF Ready
<1>15. Held(f, p)
  BY <1>1, <1>2, <1>9, <1>10, <1>11, <1>12, <1>13, <1>14 DEF Held
<1>. QED BY <1>15 DEF f

\* Before every step, the thread has the fresh transaction in hand.
LEMMA InHand ==
  ASSUME Inv, AloneInv, NEW w \in Workers
  PROVE  Held(Fresh, at[w])
  BY FreshHeld DEF AloneInv

\* Between events the transaction is in order.
LEMMA AtRest ==
  ASSUME Inv, AloneInv, NEW w \in Workers, at[w].pc \in {"idle", "popped", "timer", "rx", "txerr"}
  PROVE  Rested(Fresh)
  BY InHand, FreshTyped DEF Held, Rested

\* The place named idle.
LEMMA IdlePlace ==
  /\ Idle.pc = "idle"
  /\ \A p, a : Place(p, a).pc = p /\ Place(p, a).arg = a
  BY DEF Idle, Place

\* The only thread takes the only place.
LEMMA AloneStep ==
  ASSUME Alone, Inv, NEW w \in Workers, NEW p,
         Move(w, p) \/ (UNCHANGED at /\ at[w] = p),
         Rank(tsx.state) <= Rank(tsx'.state), Proper(Fresh, tsx'.out), Held(tsx', p)
  PROVE  AloneOwed
<1>1. at'[w] = p
  BY DEF Move, Inv, TypeOK
<1>2. \A v \in Workers : v = w
  BY DEF Alone
<1>3. AloneInv'
  BY <1>1, <1>2 DEF AloneInv
<1>4. Proper(tsx, tsx'.out)
  BY FreshTyped DEF Proper
<1>. QED BY <1>3, <1>4 DEF AloneOwed

\* The same for a step that leaves the transaction in order, but for its request.
LEMMA NearStep ==
  ASSUME Alone, Inv, NEW w \in Workers, NEW p,
         Move(w, p) \/ (UNCHANGED at /\ at[w] = p),
         Near(Fresh, tsx'), Held(tsx', p)
  PROVE  AloneOwed
<1>1. Rank(tsx.state) <= Rank(tsx'.state) /\ Proper(Fresh, tsx'.out)
  BY FreshTyped DEF Near
<1>. QED BY <1>1, AloneStep

\* A step that leaves the thread idle, or with an error to report.
LEMMA IdleStep ==
  ASSUME Alone, Inv, NEW w \in Workers, NEW p, p.pc \in {"idle", "txerr"},
         Move(w, p) \/ (UNCHANGED at /\ at[w] = p),
         Fit(Fresh, tsx')
  PROVE  AloneOwed
<1>1. Near(Fresh, tsx') /\ Whole(tsx') /\ Calm(tsx')
  BY DEF Fit, Near
<1>2. Held(tsx', p)
  BY <1>1 DEF Held
<1>. QED BY <1>1, <1>2, NearStep

\* A handler with the lock, on a transaction that may be gone.
LEMMA HandleFit ==
  ASSUME Inv, Rested(Fresh), NEW u, Handle(u), Fresh.alive => Fit(Fresh, u)
  PROVE  Fit(Fresh, tsx')
<1>1. CASE Fresh.alive
  BY <1>1, FreshTyped DEF Handle
<1>2. CASE ~Fresh.alive
  <2>1. Gone(Fresh)
    BY <1>2, RestedCases DEF Poised, Live
  <2>2. Fit(Fresh, Check(Fresh, FALSE, "dead"))
    BY <2>1, DeadFit
  <2>. QED BY <1>2, <2>2, FreshTyped DEF Handle
<1>. QED BY <1>1, <1>2

\* A step of the thread on the transaction that leaves it idle.
LEMMA HandleStep ==
  ASSUME Alone, Inv, NEW w \in Workers, Rested(Fresh),
         Move(w, Idle) \/ (UNCHANGED at /\ at[w] = Idle),
         NEW u, Handle(u), Fresh.alive => Fit(Fresh, u)
  PROVE  AloneOwed
<1>1. Fit(Fresh, tsx')
  BY HandleFit
<1>. QED BY <1>1, IdlePlace, IdleStep

-----------------------------------------------------------------------------
(* The TU *)

\* The TU runs only while the thread is idle.
LEMMA TuIdle ==
  ASSUME Alone, Inv, AloneInv, TuRuns
  PROVE  Rested(Fresh) /\ \E w \in Workers : at[w] = Idle
<1>1. PICK w \in Workers : at[w] = Idle
  BY DEF Alone, TuRuns
<1>2. Rested(Fresh)
  BY <1>1, IdlePlace, AtRest
<1>. QED BY <1>1, <1>2

\* A call of the TU.
LEMMA TuStep ==
  ASSUME Alone, Inv, AloneInv, NEW u, TuCall(u), Fit(Fresh, u)
  PROVE  AloneOwed
<1>1. Rested(Fresh) /\ \E w \in Workers : at[w] = Idle
  BY TuIdle DEF TuCall
<1>2. Handle(u) /\ UNCHANGED at
  BY DEF TuCall
<1>. QED BY <1>1, <1>2, HandleStep

\* An active transaction is poised for the calls of the TU.
LEMMA TuPoised ==
  ASSUME Alone, Inv, AloneInv, TuRuns, tsx.state \notin Ended
  PROVE  Poised(Fresh) /\ Fresh.state = tsx.state /\ Fresh.role = tsx.role
<1>1. Rested(Fresh)
  BY TuIdle
<1>2. ~Gone(Fresh)
  BY FreshTyped DEF Gone
<1>. QED BY <1>1, <1>2, RestedCases, FreshTyped

\* pjsip_tsx_send_msg and pjsip_tsx_recv_msg.
LEMMA TuAlone ==
  ASSUME Alone, Inv, AloneInv, NEW e \in Env, Tu(e)
  PROVE  AloneOwed
<1>1. CASE TuRequest(e)
  <2>1. TuCall(UacSend(Fresh, e)) /\ TuRuns /\ tsx.role = "UAC" /\ tsx.state = "NULL"
    BY <1>1 DEF TuRequest, TuCall
  <2>2. Poised(Fresh) /\ Fresh.role = "UAC" /\ Fresh.state = "NULL"
    BY <2>1, TuPoised DEF Ended
  <2>3. Fit(Fresh, UacSend(Fresh, e))
    BY <2>2, UacSendFit
  <2>. QED BY <2>1, <2>3, TuStep
<1>2. CASE TuAccept(e)
  <2>1. TuCall(UasRx(Fresh, "req", e)) /\ TuRuns /\ tsx.role = "UAS" /\ tsx.state = "NULL"
    BY <1>2 DEF TuAccept, TuCall
  <2>2. Poised(Fresh) /\ Fresh.role = "UAS"
    BY <2>1, TuPoised DEF Ended
  <2>3. Fit(Fresh, UasRx(Fresh, "req", e))
    BY <2>2, UasRxFit
  <2>. QED BY <2>1, <2>3, TuStep
<1>3. CASE TuRetransmit(e)
  <2>1. /\ TuCall(SendMsg(Fresh, tsx.last, e)) /\ TuRuns /\ tsx.role = "UAS"
        /\ tsx.state \in {"PROCEEDING", "COMPLETED"}
    BY <1>3 DEF TuRetransmit, TuCall, Alone
  <2>2. /\ Poised(Fresh) /\ Fresh.role = "UAS"
        /\ Fresh.state \in {"PROCEEDING", "COMPLETED"}
    BY <2>1, TuPoised DEF Ended
  <2>3. Fresh.last \in Messages /\ Repeats(Fresh, Fresh.last) /\ Twin(Fresh, Fresh)
    BY <2>2, ServerRepeats, SelfTwin
  <2>4. Fit(Fresh, SendMsg(Fresh, Fresh.last, e))
    BY <2>3, RepeatFit
  <2>5. Fresh.last = tsx.last
    BY FreshTyped
  <2>. QED BY <2>1, <2>4, <2>5, TuStep
<1>4. ASSUME NEW m \in Responses, TuRespond(m, e)
      PROVE  AloneOwed
  <2>1. /\ TuCall(UasSend(Fresh, m, e)) /\ TuRuns /\ tsx.role = "UAS"
        /\ tsx.state \in {"TRYING", "PROCEEDING"}
    BY <1>4 DEF TuRespond, TuCall
  <2>2. Answers(Fresh)
    BY <2>1, TuPoised DEF Ended, Answers
  <2>3. Fit(Fresh, UasSend(Fresh, m, e))
    BY <2>2, UasSendFit
  <2>. QED BY <2>1, <2>3, TuStep
<1>. QED BY <1>1, <1>2, <1>3, <1>4 DEF Tu

\* The TU's other calls.
LEMMA TuOtherAlone ==
  ASSUME Alone, Inv, AloneInv, TuOther
  PROVE  AloneOwed
<1>1. CASE TuTerminate
  <2>1. TuCall(Terminate(Fresh)) /\ TuRuns /\ Rank(tsx.state) < Rank("TERMINATED")
    BY <1>1 DEF TuTerminate, TuCall
  <2>2. tsx.state \notin Ended
    BY <2>1 DEF Ended, Rank
  <2>3. Fit(Fresh, Terminate(Fresh))
    BY <2>1, <2>2, TuPoised, TerminateFit
  <2>. QED BY <2>1, <2>3, TuStep
<1>2. CASE TuTerminateLate
  BY <1>2 DEF TuTerminateLate, Alone
<1>3. CASE TuStopRetransmit
  <2>1. TuCall(Cancel(Fresh, "rt")) /\ TuRuns /\ tsx.state \in {"CALLING", "PROCEEDING"}
    BY <1>3 DEF TuStopRetransmit, TuCall
  <2>2. Fit(Fresh, Cancel(Fresh, "rt"))
    BY <2>1, TuPoised, StopRetransmitFit DEF Ended
  <2>. QED BY <2>1, <2>2, TuStep
<1>4. CASE TuSetTimeout
  <2>1. /\ TuRuns /\ UNCHANGED at /\ tsx' = SetTimeout(Fresh)
        /\ Fresh.role = "UAC" /\ Fresh.alive /\ Fresh.status >= 100
    BY <1>4, FreshTyped DEF TuSetTimeout
  <2>2. Rested(Fresh)
    BY <2>1, TuIdle
  <2>3. Fit(Fresh, tsx')
    BY <2>1, <2>2, SetTimeoutFit
  <2>4. PICK w \in Workers : at[w] = Idle
    BY <2>1, TuIdle
  <2>. QED BY <2>1, <2>3, <2>4, IdlePlace, IdleStep
<1>. QED BY <1>1, <1>2, <1>3, <1>4 DEF TuOther

-----------------------------------------------------------------------------
(* Timers *)

\* A timer taken from the heap is one its state expects.
LEMMA PopAlone ==
  ASSUME Alone, Inv, AloneInv, NEW w \in Workers, NEW x \in Timers, Pop(w, x)
  PROVE  AloneOwed
<1>. DEFINE t == Fresh
            u == Unschedule(Fresh, x)
            p == Place("popped", x)
<1>1. tsx' = u /\ Move(w, p) /\ at[w] = Idle
  BY DEF Pop, Become
<1>2. Rested(t)
  BY <1>1, IdlePlace, AtRest
<1>3. t.due[x] # "off" /\ t \in Tsx /\ t.role \in {"UAC", "UAS"}
  BY FreshTyped DEF Pop, Tsx
<1>4. Sound(t) /\ (Gone(t) \/ Poised(t))
  BY <1>2, RestedCases
<1>5. Clock(t, u) /\ u.due[x] = "off" /\ \A y \in Timers \ {x} : u.due[y] = t.due[y]
  BY <1>3, <1>4, UnscheduleClock DEF Sound
<1>6. p.pc = "popped" /\ p.arg = x
  BY IdlePlace
<1>. HIDE DEF t, u, p
<1>7. t.alive
  BY <1>3, <1>4 DEF Gone, Poised, Live
<1>8. Gone(t) => Gone(u)
  BY <1>5, <1>7 DEF Gone, Clock
<1>9. x \in {"rt", "to"} /\ u.due["rt"] \in {"off", t.due["rt"]}
      /\ u.due["to"] \in {"off", t.due["to"]}
  BY <1>5 DEF Timers
<1>10. ASSUME Live(t)
       PROVE  Live(u) /\ Ready(u, x)
  <2>1. Flagged(t) /\ (t.role = "UAC" => Client(t)) /\ (t.role = "UAS" => Server(t))
    BY <1>10 DEF Live
  <2>2. t.state # "NULL"
    BY <1>3, <1>9, <2>1 DEF Client, Server, Early
  <2>3. Live(u)
    BY <1>3, <1>5, <1>9, <1>10, <2>2, ClockLive
  <2>4. x = "rt" => \/ /\ t.role = "UAC" /\ t.state \in {"CALLING", "PROCEEDING"}
                       /\ "TRANSPORT" \notin t.flags
                    \/ t.role = "UAS" /\ t.state \in {"PROCEEDING", "COMPLETED"}
    BY <1>3, <2>1, <2>2 DEF Client, Server
  <2>5. x = "to" => \/ t.role = "UAC" /\ t.state # "NULL"
                    \/ t.role = "UAS" /\ t.state \in {"COMPLETED", "CONFIRMED"}
    BY <1>3, <2>1, <2>2 DEF Server, Early
  <2>6. "RESCHED" \in t.flags => x # "rt"
    BY <1>3, <2>1 DEF Flagged
  <2>7. u.role = t.role /\ u.state = t.state /\ u.flags = t.flags
    BY <1>5 DEF Clock
  <2>. QED BY <1>5, <2>3, <2>4, <2>5, <2>6, <2>7 DEF Ready
<1>11. Fit(t, u)
  BY <1>2, <1>5, <1>8, <1>10, ClockFit DEF Rested
<1>12. Live(u) => Live(t)
  BY <1>4, <1>8 DEF Live, Gone, Poised
<1>13. u.alive
  BY <1>5, <1>7 DEF Clock
<1>14. Near(t, u) /\ Whole(u) /\ Calm(u)
  BY <1>11 DEF Fit, Near
<1>15. Held(u, p)
  BY <1>5, <1>6, <1>10, <1>12, <1>13, <1>14 DEF Held
<1>. QED BY <1>1, <1>14, <1>15, NearStep DEF t

\* The entry's id goes before the lock is taken.
LEMMA ExpireAlone ==
  ASSUME Alone, Inv, AloneInv, NEW w \in Workers, Expire(w)
  PROVE  AloneOwed
<1>. DEFINE t == Fresh
            x == at[w].arg
            u == [Fresh EXCEPT !.armed = @ \ {at[w].arg}]
            p == Place("timer", at[w].arg)
<1>1. Held(t, at[w]) /\ at[w].pc = "popped" /\ Move(w, p)
  BY InHand DEF Expire, Become
<1>2. /\ Whole(t) /\ Calm(t) /\ t.alive /\ x \in Timers /\ t.due[x] = "off"
      /\ Live(t) => Ready(t, x)
  BY <1>1 DEF Held
<1>3. t \in Tsx /\ t.out = {} /\ t.alive = tsx.alive
  BY FreshTyped
<1>4. tsx' = u
  BY <1>2, <1>3 DEF Expire
<1>5. p.pc = "timer" /\ p.arg = x
  BY IdlePlace
<1>6. Clock(t, u) /\ u.due = t.due
  <2>1. u = [t EXCEPT !.armed = @ \ {x}]
    OBVIOUS
  <2>. HIDE DEF t, u, x
  <2>. QED BY <1>2, <1>3, <2>1 DEF Clock, Whole, Sound, Armed, Tsx
<1>. HIDE DEF t, u, p, x
<1>7. Gone(t) => Gone(u)
  BY <1>6 DEF Gone, Clock
<1>8. Live(t) => Live(u)
  BY <1>3, <1>6, ClockLive
<1>9. Fit(t, u)
  BY <1>2, <1>3, <1>6, <1>7, <1>8, ClockFit
<1>10. Live(u) => Ready(u, x)
  <2>1. Live(u) => Live(t)
    BY <1>2, <1>7 DEF Whole, Live, Gone
  <2>. QED BY <1>2, <1>6, <2>1 DEF Ready, Clock
<1>11. u.alive /\ u.due[x] = "off"
  BY <1>2, <1>6 DEF Clock
<1>12. Near(t, u) /\ Whole(u) /\ Calm(u)
  BY <1>9 DEF Fit, Near
<1>13. Held(u, p)
  BY <1>2, <1>5, <1>10, <1>11, <1>12 DEF Held
<1>. QED BY <1>1, <1>4, <1>12, <1>13, NearStep DEF t

\* tsx_timer_callback.
LEMMA FireAlone ==
  ASSUME Alone, Inv, AloneInv, NEW w \in Workers, NEW e \in Env, Fire(w, e)
  PROVE  AloneOwed
<1>. DEFINE t == Fresh
            x == at[w].arg
<1>1. at[w].pc = "timer" /\ Handle(OnTimer(t, x, e)) /\ Move(w, Idle)
  BY DEF Fire
<1>2. Rested(t) /\ t.alive /\ (Live(t) => Ready(t, x))
  BY <1>1, InHand, AtRest DEF Held
<1>3. t.state \in {"CALLING", "PROCEEDING"} => t.status < 200
  BY FreshInv DEF TsxInv, Settled, Undecided
<1>. HIDE DEF t, x
<1>4. Fit(t, OnTimer(t, x, e))
  BY <1>2, <1>3, OnTimerFit
<1>. QED BY <1>1, <1>2, <1>4, HandleStep DEF t

-----------------------------------------------------------------------------
(* Messages from the network *)

\* The hash table gives up a transaction that expects the message.
LEMMA FindAlone ==
  ASSUME Alone, Inv, AloneInv, NEW w \in Workers, NEW m \in Messages, Find(w, m)
  PROVE  AloneOwed
<1>. DEFINE p == Place("rx", m)
<1>1. tsx' = Fresh /\ Move(w, p) /\ at[w] = Idle
  BY DEF Find, Become
<1>2. Rested(Fresh)
  BY <1>1, IdlePlace, AtRest
<1>3. p.pc = "rx" /\ p.arg = m
  BY IdlePlace
<1>4. Fresh.role = "UAC" => m \in Responses /\ "req" \in Fresh.wire
  BY FreshTyped DEF Find, Arrives
<1>. HIDE DEF p
<1>5. Held(Fresh, p)
  BY <1>2, <1>3, <1>4 DEF Held, Rested
<1>6. Near(Fresh, Fresh)
  BY <1>2, RestedCases DEF Fit
<1>. QED BY <1>1, <1>5, <1>6, NearStep

\* pjsip_tsx_recv_msg; after a rejection the lock is held while the TU is told.
LEMMA ReceiveAlone ==
  ASSUME Alone, Inv, AloneInv, NEW w \in Workers, NEW e \in Env, Receive(w, e)
  PROVE  AloneOwed
<1>. DEFINE t == Fresh
            m == at[w].arg
            u == OnRx(Fresh, m, e)
            r == UacRejected(Begun(Fresh, m), m, e)
            half == /\ tsx.alive /\ tsx.role = "UAC" /\ Final3xx(tsx, m)
                    /\ ~SendErr(UacRejected(IF tsx.state = "CALLING"
                                            THEN CallingPrelude(Fresh, m)
                                            ELSE Fresh, m, e))
            heard == Final3xx(t, m) /\ ~SendErr(r)
            p == IF half THEN Place("final", "none") ELSE Idle
<1>1. at[w].pc = "rx" /\ Handle(u) /\ Move(w, p)
  BY DEF Receive
<1>2. Rested(t) /\ (t.role = "UAC" => m \in Responses /\ "req" \in t.wire)
  BY <1>1, InHand, AtRest DEF Held
<1>3. /\ t.alive = tsx.alive /\ t.role = tsx.role /\ t.state = tsx.state
      /\ t \in Tsx /\ t.role \in {"UAC", "UAS"}
  BY FreshTyped DEF Tsx
<1>4. half <=> t.alive /\ t.role = "UAC" /\ heard
  BY <1>3 DEF Begun, Final3xx
<1>5. (half => p.pc = "final") /\ (~half => p = Idle /\ p.pc = "idle")
  BY IdlePlace
<1>6. t.role = "UAS" => Fit(t, u)
  BY <1>2, ServerRxFit
<1>7. t.role = "UAC" => /\ Near(t, u)
                        /\ heard => u.alive /\ u.state \in {"COMPLETED", "TERMINATED"}
                        /\ ~heard => Calm(u)
  BY <1>2, ClientRxNear
<1>8. Handle(u) => tsx' = IF tsx.alive THEN u ELSE Check(t, FALSE, "dead")
  BY DEF Handle
<1>. HIDE DEF u, half, heard, p, m, r
<1>9. CASE half
  <2>1. Near(t, u) /\ u.alive /\ u.state \in {"COMPLETED", "TERMINATED"} /\ t.role = "UAC"
    BY <1>4, <1>7, <1>9
  <2>2. tsx' = u /\ u.role = "UAC" /\ Whole(u)
    BY <1>1, <1>3, <1>4, <1>8, <1>9, <2>1 DEF Near
  <2>3. Held(tsx', p)
    BY <1>5, <1>9, <2>1, <2>2 DEF Held
  <2>. QED BY <1>1, <2>1, <2>2, <2>3, NearStep
<1>10. CASE ~half
  <2>1. t.alive => Fit(t, u)
    BY <1>3, <1>4, <1>6, <1>7, <1>10 DEF Fit
  <2>. QED BY <1>1, <1>2, <1>5, <1>10, <2>1, HandleStep
<1>. QED BY <1>9, <1>10

\* The rest of it: the TU has been told.
LEMMA ReceiveRestAlone ==
  ASSUME Alone, Inv, AloneInv, NEW w \in Workers, ReceiveRest(w)
  PROVE  AloneOwed
<1>1. Held(Fresh, at[w]) /\ at[w].pc = "final" /\ Move(w, Idle)
      /\ tsx' = UacStartTimerD(Fresh)
  BY InHand DEF ReceiveRest
<1>2. Heard(Fresh)
  BY <1>1, FreshTyped DEF Held, Heard
<1>3. Fit(Fresh, tsx')
  BY <1>1, <1>2, UacStartTimerDFit
<1>. QED BY <1>1, <1>3, IdlePlace, IdleStep

-----------------------------------------------------------------------------
(* Transports *)

\* A stateless send comes to its end.
LEMMA WiredAlone ==
  ASSUME Alone, Inv, AloneInv, NEW w \in Workers, NEW o \in {"sent", "retried", "failed"},
         Wired(w, o)
  PROVE  AloneOwed
<1>. DEFINE t == Fresh
            u == Emit(Fresh, Fresh.pending, FALSE)
            p == Place("wired", o)
<1>1. at[w] = Idle /\ Move(w, p) /\ t.pending # "none" /\ (o = "retried" => t.role = "UAC")
      /\ tsx' = IF o = "sent" THEN u ELSE t
  BY FreshTyped DEF Wired, Become
<1>2. Rested(t)
  BY <1>1, IdlePlace, AtRest
<1>3. Poised(t) /\ Near(t, t)
  BY <1>1, <1>2, RestedCases DEF Gone, Fit
<1>4. Near(t, u) /\ Live(u) /\ u.pending = t.pending
  BY <1>1, <1>3, WiredNear
<1>5. p.pc = "wired" /\ p.arg = o
  BY IdlePlace
<1>. HIDE DEF u, p, t
<1>6. CASE o = "sent"
  <2>1. Whole(u)
    BY <1>4 DEF Near
  <2>2. Held(u, p)
    BY <1>1, <1>4, <1>5, <1>6, <2>1 DEF Held
  <2>. QED BY <1>1, <1>4, <1>6, <2>2, NearStep DEF t
<1>7. CASE o # "sent"
  <2>1. Held(t, p)
    BY <1>1, <1>3, <1>5 DEF Held, Poised
  <2>. QED BY <1>1, <1>3, <1>7, <2>1, NearStep DEF t
<1>. QED BY <1>6, <1>7

\* send_msg_callback finds the transaction that waits for it.
LEMMA CalledAlone ==
  ASSUME Alone, Inv, AloneInv, NEW w \in Workers, Called(w)
  PROVE  AloneOwed
<1>. DEFINE t == Fresh
            u == [Fresh EXCEPT !.pending = "none"]
            o == at[w].arg
            p == Place("sendcb", at[w].arg)
<1>1. Held(t, at[w]) /\ at[w].pc = "wired" /\ tsx' = u /\ t.pending = tsx.pending
  BY InHand, FreshTyped DEF Called
<1>2. /\ Whole(t) /\ Live(t) /\ t.pending # "none" /\ o \in {"sent", "retried", "failed"}
      /\ (o # "sent" => Calm(t)) /\ (o = "retried" => t.role = "UAC")
  BY <1>1 DEF Held
<1>3. Move(w, p)
  BY <1>1, <1>2 DEF Called, Become
<1>4. p.pc = "sendcb" /\ p.arg = o
  BY IdlePlace
<1>5. t \in Tsx /\ t.out = {} /\ t.state = tsx.state /\ t.state \in States
  BY FreshTyped DEF Tsx
<1>6. /\ u \in Tsx /\ u.pending = "none" /\ u.out = {}
      /\ u.role = t.role /\ u.invite = t.invite /\ u.state = t.state /\ u.status = t.status
      /\ u.flags = t.flags /\ u.transport = t.transport /\ u.last = t.last
      /\ u.alive = t.alive /\ u.wire = t.wire /\ u.due = t.due
      /\ u.armed = t.armed /\ u.failed = t.failed
  <2>1. u = [t EXCEPT !.pending = "none"]
    OBVIOUS
  <2>. HIDE DEF t, u
  <2>. QED BY <1>5, <2>1 DEF Tsx
<1>. HIDE DEF t, u, p, o
<1>7. Sound(t) /\ "TRANSPORT" \in t.flags /\ Flagged(t) /\ t.role \in {"UAC", "UAS"}
  BY <1>2, <1>5 DEF Whole, Paired, Live, Tsx
<1>8. Sound(u) /\ Flagged(u)
  BY <1>6, <1>7 DEF Sound, Armed, Flagged
<1>9. Client(t) => Client(u)
  BY <1>6 DEF Client
<1>10. Server(t) => Server(u)
  BY <1>6 DEF Server, Decisive, Provisional
<1>11. Live(u)
  BY <1>2, <1>6, <1>8, <1>9, <1>10 DEF Live
<1>12. Told(u)
  BY <1>6, <1>7, <1>8, <1>11 DEF Told
<1>13. Calm(t) => Calm(u)
  BY <1>6 DEF Calm
<1>14. Held(u, p)
  BY <1>2, <1>4, <1>6, <1>12, <1>13 DEF Held
<1>15. Rank(tsx.state) <= Rank(u.state)
  BY <1>5, <1>6, RankOrder
<1>16. Proper(t, u.out)
  BY <1>6 DEF Proper
<1>. QED BY <1>1, <1>3, <1>14, <1>15, <1>16, AloneStep DEF t

\* send_msg_callback with the lock.
LEMMA SendCallbackAlone ==
  ASSUME Alone, Inv, AloneInv, NEW w \in Workers, NEW e \in Env, SendCallback(w, e)
  PROVE  AloneOwed
<1>. DEFINE t == Fresh
            o == at[w].arg
            give_up == o = "failed" \/ "DESTROY" \in tsx.flags
            u == IF o = "sent" THEN SendDone(Fresh, e)
                 ELSE IF give_up THEN SendFailed(Fresh, e)
                 ELSE SendRetried(Fresh, "req")
<1>1. Held(t, at[w]) /\ at[w].pc = "sendcb" /\ Handle(u) /\ Move(w, Idle)
  BY InHand DEF SendCallback
<1>2. Told(t) /\ (o # "sent" => Calm(t)) /\ (o = "retried" => t.role = "UAC")
  BY <1>1 DEF Held
<1>3. t.out = {} /\ t.flags = tsx.flags /\ t.alive = tsx.alive
  BY FreshTyped
<1>4. t.role = "UAC" => t.status < 200
  <2>1. Settled(t)
    BY FreshInv DEF TsxInv
  <2>. HIDE DEF t
  <2>2. t.role = "UAC" => t.state = "CALLING"
    BY <1>2 DEF Told, Live, Client
  <2>. QED BY <2>1, <2>2 DEF Settled, Undecided
<1>5. o \in {"sent", "retried", "failed"}
  BY <1>1 DEF Held
<1>6. "DESTROY" \notin tsx.flags /\ t.alive
  BY <1>2, <1>3 DEF Told, Sound, Live
<1>7. u = IF o = "sent" THEN SendDone(t, e)
          ELSE IF o = "failed" THEN SendFailed(t, e) ELSE SendRetried(t, "req")
  BY <1>6
<1>8. tsx' = u
  BY <1>1, <1>3, <1>6 DEF Handle
<1>. HIDE DEF t, o, u
<1>9. Fit(t, u)
  BY <1>2, <1>3, <1>4, <1>5, <1>7, SendDoneFit, SendFailedFit, SendRetriedFit
<1>. QED BY <1>1, <1>8, <1>9, IdlePlace, IdleStep DEF t

\* A transport is through with a queued message.
LEMMA SendEndsAlone ==
  ASSUME Alone, Inv, AloneInv, NEW w \in Workers, NEW m \in Messages, NEW ok \in BOOLEAN,
         SendEnds(w, m, ok)
  PROVE  AloneOwed
<1>. DEFINE t == Fresh
            u == [Fresh EXCEPT !.sends = @ \ {m}]
            p == IF ok THEN Idle ELSE Place("txerr", "none")
<1>1. at[w] = Idle /\ tsx' = u /\ Move(w, p)
  BY DEF SendEnds
<1>2. p.pc \in {"idle", "txerr"}
  BY IdlePlace
<1>3. Rested(t) /\ t \in Tsx
  BY <1>1, IdlePlace, AtRest, FreshTyped
<1>4. Whole(t) /\ Calm(t) /\ t.out = {} /\ Sound(t)
  BY <1>3 DEF Rested, Whole
<1>5. Clock(t, u) /\ u.due = t.due
  <2>1. u = [t EXCEPT !.sends = @ \ {m}]
    OBVIOUS
  <2>. HIDE DEF t, u
  <2>. QED BY <1>3, <1>4, <2>1 DEF Clock, Sound, Armed, Tsx
<1>. HIDE DEF t, u, p
<1>6. Gone(t) => Gone(u)
  BY <1>5 DEF Gone, Clock
<1>7. Live(t) => Live(u)
  BY <1>3, <1>5, ClockLive
<1>8. Fit(t, u)
  BY <1>4, <1>5, <1>6, <1>7, ClockFit
<1>. QED BY <1>1, <1>2, <1>8, IdleStep DEF t

\* transport_callback, of a transaction that may have gone.
LEMMA TransportCallbackAlone ==
  ASSUME Alone, Inv, AloneInv, NEW w \in Workers, NEW e \in Env, TransportCallback(w, e)
  PROVE  AloneOwed
<1>1. at[w].pc = "txerr" /\ Handle(TransportError(Fresh, e)) /\ Move(w, Idle)
  BY DEF TransportCallback
<1>2. Rested(Fresh)
  BY <1>1, AtRest
<1>3. Fresh.alive => Fit(Fresh, TransportError(Fresh, e))
  BY <1>2, TransportErrorFit
<1>. QED BY <1>1, <1>2, <1>3, HandleStep

\* A transport that disconnects.
LEMMA DisconnectAlone ==
  ASSUME Alone, Inv, AloneInv, NEW w \in Workers, NEW e \in Env, Disconnect(w, e)
  PROVE  AloneOwed
<1>1. at[w] = Idle /\ Handle(TransportDown(Fresh, e)) /\ UNCHANGED at
  BY DEF Disconnect
<1>2. Rested(Fresh)
  BY <1>1, IdlePlace, AtRest
<1>3. Fit(Fresh, TransportDown(Fresh, e))
  BY <1>2, TransportDownFit
<1>. QED BY <1>1, <1>2, <1>3, HandleStep

\* mod_tsx_layer_stop.
LEMMA LayerStopAlone ==
  ASSUME Alone, Inv, AloneInv, LayerStop
  PROVE  AloneOwed
<1>1. PICK w \in Workers : at[w] = Idle
  BY WorkersAssumption DEF LayerStop
<1>2. Rested(Fresh)
  BY <1>1, IdlePlace, AtRest
<1>3. Fit(Fresh, tsx')
  BY <1>2, StopFit DEF LayerStop
<1>. QED BY <1>1, <1>3, IdlePlace, IdleStep DEF LayerStop

-----------------------------------------------------------------------------
(* The theorems *)

\* A new transaction is in order.
LEMMA NewWhole ==
  ASSUME Init
  PROVE  Whole(tsx) /\ Calm(tsx)
<1>1. tsx \in Tsx
  BY InitInv DEF Inv, TypeOK
<1>2. /\ tsx.state = "NULL" /\ tsx.status = 0 /\ tsx.flags = {} /\ tsx.pending = "none"
      /\ tsx.due = [x \in Timers |-> "off"] /\ tsx.alive /\ tsx.wire = {} /\ tsx.failed = {}
      /\ tsx.role = "UAC" => ~tsx.transport /\ tsx.last = "req"
  <2>. DEFINE New(t) ==
         /\ t.state = "NULL" /\ t.status = 0 /\ t.flags = {} /\ t.pending = "none"
         /\ t.due = [x \in Timers |-> "off"] /\ t.alive /\ t.wire = {} /\ t.failed = {}
         /\ t.role = "UAC" => ~t.transport /\ t.last = "req"
  <2>1. \A inv, rel \in BOOLEAN : New(NewUac(inv, rel))
    BY DEF NewUac
  <2>2. \A inv, rel, tp, own \in BOOLEAN : New(NewUas(inv, rel, tp, own))
    BY DEF NewUas, NewUac
  <2>. HIDE DEF New
  <2>3. New(tsx)
    BY <2>1, <2>2 DEF Init
  <2>. QED BY <2>3 DEF New
<1>3. Sound(tsx) /\ Paired(tsx) /\ Flagged(tsx)
  BY <1>2 DEF Sound, Armed, Paired, Flagged
<1>4. tsx.role = "UAC" => Client(tsx)
  BY <1>2 DEF Client, Requests
<1>5. tsx.role # "UAC" => Server(tsx)
  BY <1>2 DEF Server, Early, Decisive, Provisional, Timers
<1>6. Live(tsx)
  BY <1>2, <1>3, <1>4, <1>5 DEF Live, Ended
<1>7. Calm(tsx)
  BY <1>2 DEF Calm
<1>. QED BY <1>1, <1>3, <1>6, <1>7 DEF Whole

\* The initial states satisfy the invariant.
LEMMA InitAlone ==
  ASSUME Init
  PROVE  AloneInv
<1>1. \A w \in Workers : at[w].pc = "idle"
  BY IdlePlace DEF Init
<1>. QED BY <1>1, NewWhole DEF AloneInv, Held

\* Every step keeps the invariant, moves forward and sends what it may.
LEMMA NextAlone ==
  ASSUME Alone, Inv, AloneInv, Next
  PROVE  AloneOwed
<1>1. CASE TuOther
  BY <1>1, TuOtherAlone
<1>2. CASE LayerStop
  BY <1>2, LayerStopAlone
<1>3. ASSUME NEW e \in Env, Tu(e)
      PROVE  AloneOwed
  BY <1>3, TuAlone
<1>4. ASSUME NEW e \in Env, NEW w \in Workers, Work(w, e) \/ Disconnect(w, e)
      PROVE  AloneOwed
  BY <1>4, FireAlone, ReceiveAlone, SendCallbackAlone, TransportCallbackAlone,
     DisconnectAlone DEF Work
<1>5. ASSUME NEW w \in Workers, Take(w)
      PROVE  AloneOwed
  BY <1>5, PopAlone, FindAlone, WiredAlone, SendEndsAlone DEF Take
<1>6. ASSUME NEW w \in Workers, WorkOn(w)
      PROVE  AloneOwed
  BY <1>6, ExpireAlone, ReceiveRestAlone, CalledAlone DEF WorkOn
<1>. QED BY <1>1, <1>2, <1>3, <1>4, <1>5, <1>6 DEF Next

\* With one thread, in every state the transaction is as its state says and the
\* thread has in hand what it may.
THEOREM AloneInvariance == Spec => [](Alone => Inv /\ AloneInv)
<1>1. Init => (Alone => Inv /\ AloneInv)
  BY InitInv, InitAlone
<1>2. (Alone => Inv /\ AloneInv) /\ [Next]_vars => (Alone => Inv /\ AloneInv)'
  <2>1. SUFFICES ASSUME Alone, Inv, AloneInv, [Next]_vars
                 PROVE  Inv' /\ AloneInv'
    BY DEF Alone
  <2>2. CASE Next
    BY <2>1, <2>2, NextOwed, NextAlone DEF Owed, AloneOwed
  <2>3. CASE UNCHANGED vars
    <3>1. AloneInv'
      BY <2>1, <2>3 DEF AloneInv, vars
    <3>. QED BY <2>1, <2>3, <3>1, StutterOwed DEF Owed
  <2>. QED BY <2>1, <2>2, <2>3
<1>. QED BY <1>1, <1>2, PTL DEF Spec

\* What the invariant says wherever the thread is.
LEMMA AloneFacts ==
  ASSUME Inv, AloneInv
  PROVE  /\ Sound(tsx) /\ (Gone(tsx) \/ Live(tsx))
         /\ \/ Paired(tsx)
            \/ /\ tsx.pending = "none"
               /\ \E w \in Workers : at[w].pc = "sendcb"
<1>1. PICK w \in Workers : TRUE
  BY WorkersAssumption
<1>2. Held(tsx, at[w]) /\ at[w] \in Places
  BY DEF AloneInv, Inv, TypeOK
<1>3. CASE at[w].pc = "sendcb"
  <2>1. Told(tsx)
    BY <1>2, <1>3 DEF Held
  <2>. QED BY <1>3, <2>1 DEF Told
<1>4. CASE at[w].pc # "sendcb"
  <2>1. Whole(tsx)
    BY <1>2, <1>4 DEF Held, Places
  <2>. QED BY <2>1 DEF Whole
<1>. QED BY <1>3, <1>4

\* With one thread, a stateless send and the transaction agree: the message's
\* callback finds a live transaction that waits for it, and a transaction that
\* waits has a callback coming.
THEOREM PendingIsAnswered == Spec => [](Alone => PendingAnswered)
<1>1. Inv /\ AloneInv => PendingAnswered
  <2>1. SUFFICES ASSUME Inv, AloneInv PROVE PendingAnswered
    OBVIOUS
  <2>. QED BY <2>1, AloneFacts DEF Gone, Live, Paired, PendingAnswered
<1>. QED BY AloneInvariance, <1>1, PTL

\* With one thread, the heap holds no timer of a destroyed transaction, although
\* tsx_destroy cancels a timer only if its id is set.
THEOREM NoTimerDangles == Spec => [](Alone => NoDanglingTimer)
<1>1. Inv /\ AloneInv => NoDanglingTimer
  <2>1. SUFFICES ASSUME Inv, AloneInv PROVE NoDanglingTimer
    OBVIOUS
  <2>. QED BY <2>1, AloneFacts DEF Gone, Live, NoDanglingTimer
<1>. QED BY AloneInvariance, <1>1, PTL

\* With one thread, no assertion of sip_transaction.c fails but three, whatever
\* the transports, the TU and the peer do.
THEOREM AssertionsAreHeld == Spec => [](Alone => AssertionsHold)
<1>1. Inv /\ AloneInv => AssertionsHold
  <2>1. SUFFICES ASSUME Inv, AloneInv PROVE AssertionsHold
    OBVIOUS
  <2>. QED BY <2>1, AloneFacts DEF Sound, Harmless, AssertionsHold
<1>. QED BY AloneInvariance, <1>1, PTL

\* The number of threads does not change.
LEMMA AlwaysAlone == Alone => []Alone
<1>1. Alone => Alone'
  BY DEF Alone
<1>. QED BY <1>1, PTL

\* With one thread, the transaction moves only forward through its states.
THEOREM MovesForward == Spec => (Alone => Forward)
<1>1. /\ Alone => Inv /\ AloneInv
      /\ Alone
      /\ [Next]_vars
      => [Rank(tsx.state) <= Rank(tsx'.state)]_vars
  BY NextAlone DEF AloneOwed
<1>. QED BY AloneInvariance, AlwaysAlone, <1>1, PTL DEF Spec, Forward

\* With one thread, no provisional response follows a final one, whether a timer,
\* a repeated request or the end of a stateless send puts it on the wire.
THEOREM FinalIsLast == Spec => (Alone => NoProvisionalAfterFinal)
<1>1. /\ Alone => Inv /\ AloneInv
      /\ Alone
      /\ [Next]_vars
      => [tsx.wire \cap {"r2xx", "r3xx"} # {} => tsx'.out \cap {"r100", "r1xx"} = {}]_vars
  BY NextAlone DEF AloneOwed, Proper, Decisive, Provisional
<1>. QED BY AloneInvariance, AlwaysAlone, <1>1, PTL DEF Spec, NoProvisionalAfterFinal

\* With one thread, a client that has its final response does not send the
\* request again.
THEOREM RequestStops == Spec => (Alone => NoRequestAfterFinal)
<1>1. /\ Alone => Inv /\ AloneInv
      /\ Alone
      /\ [Next]_vars
      => [tsx.role = "UAC" /\ tsx.state = "COMPLETED" => "req" \notin tsx'.out]_vars
  BY NextAlone DEF AloneOwed, Proper
<1>. QED BY AloneInvariance, AlwaysAlone, <1>1, PTL DEF Spec, NoRequestAfterFinal
=============================================================================
