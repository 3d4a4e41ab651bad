----------------------------- MODULE InvSession -----------------------------
(***************************************************************************)
(* The invite sessions of pjsip/src/pjsip-ua/sip_inv.c at the two ends of  *)
(* a call, each with the part of its dialog (sip_dialog.c) that a session  *)
(* depends on.  A handler runs with the dialog's lock held and is one      *)
(* step; it is an operator on the world w of both ends and of what is      *)
(* between them, which Call makes into actions.                            *)
(*                                                                         *)
(* A transaction is seen from its two sides; SipTsx models what is inside  *)
(* of one.                                                                 *)
(*                                                                         *)
(* Left out: challenges (401, 407), redirection, forking, 100rel, session  *)
(* timer negotiation, and an application that sends ACK itself.            *)
(***************************************************************************)
EXTENDS SdpNeg, Sequences

Ends == {"caller", "callee"}

Peer(u) == IF u = "caller" THEN "callee" ELSE "caller"

States == {"NULL", "CALLING", "INCOMING", "EARLY", "CONNECTING", "CONFIRMED", "DISCONNECTED"}

\* invite_tsx: a transaction, or 0.  last_ack_cseq: the INVITE that the cached
\* ACK is for, and last_ack the description in it.  prov: the pool that
\* pool_prov is.  remote_cseq: that of the dialog.
Sessions(tsxs, sdps) ==
    [state : States, invite_tsx : tsxs, pending_cancel : BOOLEAN, hungup : BOOLEAN,
     last_ack_cseq : tsxs, last_ack : sdps, prov : {"A", "B"}, remote_cseq : tsxs]

NoSession == [state |-> "NULL", invite_tsx |-> 0, pending_cancel |-> FALSE, hungup |-> FALSE,
              last_ack_cseq |-> 0, last_ack |-> 0, prov |-> "A", remote_cseq |-> 0]

\* from: the client; sdp: what the request carries, or 0; of: the INVITE that a
\* CANCEL is for.  The client has the state client, its status_code is code and
\* done its sdp_done, expires a timeout set by pjsip_tsx_set_timeout; the server
\* has state server, sent status and body last, and answered is its sdp_done.
Transactions(tsxs, sdps) ==
    [method : {"INVITE", "UPDATE", "BYE", "CANCEL"}, from : Ends, sdp : sdps, of : tsxs,
     client : {"calling", "completed", "terminated"},
     code : Nat, done : BOOLEAN, expires : BOOLEAN,
     server : {"none", "trying", "proceeding", "completed", "terminated"},
     status : Nat, body : sdps, answered : BOOLEAN]

-----------------------------------------------------------------------------
(* Sending, and the state of a session *)

\* The end that a response to transaction t is for, and the one it is from.
Client(w, t) == w.tsx[t].from
Server(w, t) == Peer(w.tsx[t].from)

\* pjsip_dlg_send_request of anything but an ACK.  A re-INVITE becomes the
\* invite_tsx when its transaction gets to CALLING, if the session still lives.
SendRequest(w, u, method, sdp, of) ==
    LET t == Len(w.tsx) + 1
        request == [method |-> method, from |-> u, sdp |-> sdp, of |-> of,
                    client |-> "calling", code |-> 0, done |-> FALSE, expires |-> FALSE,
                    server |-> "none", status |-> 0, body |-> 0, answered |-> FALSE]
    IN  [w EXCEPT !.tsx = Append(@, request),
                  !.inv[u].invite_tsx = IF method = "INVITE" THEN t ELSE @]

SendBye(w, u) == SendRequest(w, u, "BYE", 0, 0)

\* pjsip_dlg_send_response.  A final response to anything but an INVITE ends
\* the server transaction, since its timer J concerns no session.
SendResponse(w, t, status, body) ==
    [w EXCEPT !.tsx[t].status = status, !.tsx[t].body = body,
              !.tsx[t].server = IF status < 200 THEN "proceeding"
                                ELSE IF w.tsx[t].method = "INVITE" THEN "completed"
                                ELSE "terminated"]

SetState(w, u, state) == [w EXCEPT !.inv[u].state = state]

\* inv_set_state to DISCONNECTED.  The cached ACK goes, and the pools, without
\* which the negotiator is of no use.
Disconnect(w, u) ==
    [w EXCEPT !.inv[u] = [NoSession EXCEPT !.state = "DISCONNECTED",
                                           !.invite_tsx = w.inv[u].invite_tsx,
                                           !.remote_cseq = w.inv[u].remote_cseq],
              !.neg[u] = NoNegotiator]

\* inv_set_state to CONFIRMED: a call without an agreement is ended instead.
Confirm(w, u) ==
    IF w.neg[u].state = "DONE" THEN SetState(w, u, "CONFIRMED") ELSE SendBye(w, u)

\* mod_inv_on_tsx_state forgets an invite_tsx that has ended.
Forget(w, u, t) ==
    [w EXCEPT !.inv[u].invite_tsx = IF @ = t THEN 0 ELSE @]

Over(w, u) == w.inv[u].state = "DISCONNECTED"

-----------------------------------------------------------------------------
(* Offers and answers *)

\* Mutant of Negotiate: the pool that holds the result is emptied.
NegotiateUnswapped(w, u, fits) ==
    LET result == NegotiateSdp(w.neg[u], fits, w.inv[u].prov)
    IN  [w EXCEPT !.neg[u] = PoolReset(result, w.inv[u].prov)]

\* inv_negotiate_sdp: what was agreed on moves with its pool, and the other
\* pool is emptied for the next negotiation.
Negotiate(w, u, fits) ==
    LET prov   == w.inv[u].prov
        active == IF prov = "A" THEN "B" ELSE "A"
        result == NegotiateSdp(w.neg[u], fits, prov)
    IN  IF fits THEN [w EXCEPT !.neg[u] = PoolReset(result, active), !.inv[u].prov = active]
                ELSE [w EXCEPT !.neg[u] = PoolReset(result, prov)]

\* What the application does with an offer: it gives an answer, one that has
\* no media in common with the offer, or none.
Choices == {"answer", "mismatch", "decline"}

\* pjmedia_sdp_neg_set_local_answer with a new description.
AnswerOffer(w, u) ==
    [w EXCEPT !.neg[u] = LocalAnswer(@, w.sdps + 1, w.inv[u].prov), !.sdps = @ + 1]

\* inv_check_sdp_in_incoming_msg of a description that the negotiator takes for
\* an offer: on_rx_offer asks the application for the answer.
RxOffer(w, u, sdp, choice) ==
    LET pool  == IF w.neg[u].state = "NULL" THEN "long" ELSE w.inv[u].prov
        asked == [w EXCEPT !.neg[u] = RemoteOffer(@, sdp, pool)]
    IN  IF choice = "decline" THEN asked ELSE AnswerOffer(asked, u)

RxAnswer(w, u, sdp) ==
    Negotiate([w EXCEPT !.neg[u] = RemoteAnswer(@, sdp, w.inv[u].prov)], u, TRUE)

\* inv_check_sdp_in_incoming_msg, at the client and at the server of t.
CheckSdpClient(w, t, sdp, choice) ==
    LET u == Client(w, t) IN
    IF sdp = 0 \/ w.tsx[t].done THEN w
    ELSE IF w.neg[u].state \in {"NULL", "DONE"} THEN RxOffer(w, u, sdp, choice)
    ELSE IF w.neg[u].state = "LOCAL_OFFER"
         THEN [RxAnswer(w, u, sdp) EXCEPT !.tsx[t].done = TRUE]
    ELSE w

CheckSdpServer(w, t, sdp, choice) ==
    LET u == Server(w, t) IN
    IF sdp = 0 \/ w.tsx[t].answered THEN w
    ELSE IF w.neg[u].state \in {"NULL", "DONE"} THEN RxOffer(w, u, sdp, choice)
    ELSE IF w.neg[u].state = "LOCAL_OFFER"
         THEN [RxAnswer(w, u, sdp) EXCEPT !.tsx[t].answered = TRUE]
    ELSE w

\* Mutant of Withdraw: the offer stays open.
WithdrawNever(w, u) == w

\* A local offer that got no answer is withdrawn.
Withdraw(w, u) ==
    IF w.neg[u].state = "LOCAL_OFFER" THEN [w EXCEPT !.neg[u] = CancelOffer(@)] ELSE w

\* process_answer, without a new description: the response to INVITE t, and
\* the description in it.  It fails when the negotiation does.
Respond(w, t, status, fits) ==
    LET u == Server(w, t)
        agreed == [Negotiate(w, u, fits) EXCEPT !.tsx[t].answered = fits]
    IN  IF w.neg[u].state = "LOCAL_OFFER"
        THEN SendResponse(w, t, status, w.neg[u].local.sdp)
        ELSE IF HasLocalAnswer(w.neg[u])
        THEN IF fits THEN SendResponse(agreed, t, status, agreed.neg[u].active_local.sdp)
                     ELSE SendResponse(agreed, t, 500, 0)
        ELSE SendResponse(w, t, status, w.tsx[t].body)

\* Mutant of AckSent: a call that has ended is confirmed, too.
AckSentAnyway(w, u) == SetState(w, u, "CONFIRMED")

\* The end of inv_send_ack: the first ACK confirms the call.
AckSent(w, u) ==
    IF w.inv[u].state \in {"CONFIRMED", "DISCONNECTED"} THEN w ELSE Confirm(w, u)

\* inv_send_ack for INVITE t: the cached ACK again, or a new one with the
\* answer that inv_has_pending_answer finds.
SendAck(w, t, choice) ==
    LET u       == Client(w, t)
        i       == w.inv[u].invite_tsx
        answers == HasLocalAnswer(w.neg[u])
        agreed  == IF ~answers THEN w
                   ELSE LET n == Negotiate(w, u, choice # "mismatch")
                        IN  IF i = 0 THEN n ELSE [n EXCEPT !.tsx[i].done = @ \/ choice # "mismatch"]
        sdp     == IF answers /\ choice # "mismatch" THEN agreed.neg[u].active_local.sdp ELSE 0
        created == IF w.inv[u].last_ack_cseq = t THEN w
                   ELSE [agreed EXCEPT !.inv[u].last_ack_cseq = t, !.inv[u].last_ack = sdp]
        sent    == [created EXCEPT !.acks = @ \cup {[t |-> t, sdp |-> created.inv[u].last_ack]}]
    IN  AckSent(sent, u)

-----------------------------------------------------------------------------
(* Events of client transactions *)

\* handle_uac_tsx_response: the peer has no call, or does not answer.
Lost(w, u, t) ==
    /\ ~Over(w, u)
    /\ \/ w.tsx[t].code = 481 /\ w.tsx[t].method # "CANCEL"
       \/ w.tsx[t].code = 408

\* What is done then, and otherwise.
UnlessLost(w, u, t, otherwise) ==
    IF Lost(w, u, t) THEN SendBye(Disconnect(w, u), u) ELSE otherwise

\* The client transaction enters a state with a status code.
ClientEnters(w, t, client, code) ==
    [w EXCEPT !.tsx[t].client = client, !.tsx[t].code = code]

\* pjsip_inv_end_session by the caller of a call that is not answered.
SendCancel(w, u) ==
    LET t == w.inv[u].invite_tsx
    IN  SendRequest([w EXCEPT !.tsx[t].expires = TRUE], u, "CANCEL", 0, t)

\* A provisional response to the first INVITE; the first response of any kind
\* lets a CANCEL go that waits for it.
OnProgress(w, t, choice) ==
    LET u  == Client(w, t)
        w1 == ClientEnters(w, t, "calling", w.tsx[t].status)
        w2 == IF w.inv[u].pending_cancel /\ w.inv[u].state = "CALLING"
              THEN SendCancel([w1 EXCEPT !.inv[u].pending_cancel = FALSE], u) ELSE w1
    IN  IF Over(w, u) \/ w.tsx[t].status = 100 THEN w2
        ELSE CheckSdpClient(SetState(w2, u, "EARLY"), t, w.tsx[t].body, choice)

\* A 2xx response to an INVITE, which ends the client transaction.
OnInviteOk(w, t, choice) ==
    LET u  == Client(w, t)
        w1 == ClientEnters(w, t, "terminated", 200)
        checked == CheckSdpClient(w1, t, w.tsx[t].body, choice)
    IN  Forget(CASE w.inv[u].state \in {"CALLING", "EARLY"} ->
                      SendAck(SetState(checked, u, "CONNECTING"), t, choice)
                 [] w.inv[u].state = "CONFIRMED" -> SendAck(Withdraw(checked, u), t, choice)
                 [] OTHER -> w1, u, t)

\* An INVITE fails: it gets a final response, has got one a while ago (its timer
\* D fires), or none (408).  The first INVITE ends the call then; the failure of
\* a re-INVITE withdraws the local offer, whichever request carried that.
OnInviteFailure(w, t, client, code) ==
    LET u  == Client(w, t)
        w1 == ClientEnters(w, t, client, code)
        w2 == CASE w.inv[u].state \in {"CALLING", "EARLY"} -> Disconnect(w1, u)
                [] w.inv[u].state = "CONFIRMED" ->
                      UnlessLost(w1, u, t, Forget(Withdraw(w1, u), u, t))
                [] OTHER -> w1
    IN  IF client = "terminated" THEN Forget(w2, u, t) ELSE w2

\* inv_handle_update_response: the answer in a 2xx response.  Anything else, the
\* end of the transaction included, withdraws the local offer once if the
\* transaction has seen no answer.
UpdateResponse(w, t, body, choice) ==
    LET u == Client(w, t)
    IN  IF body # 0 THEN CheckSdpClient(w, t, body, choice)
        ELSE IF w.tsx[t].done \/ w.neg[u].state # "LOCAL_OFFER" THEN w
        ELSE [Withdraw(w, u) EXCEPT !.tsx[t].done = TRUE]

OnUpdate(w, t, client, code, body, choice) ==
    LET u  == Client(w, t)
        w1 == ClientEnters(w, t, client, code)
        w2 == UpdateResponse(w1, t, body, choice)
    IN  CASE w.inv[u].state = "EARLY" -> w2
          [] w.inv[u].state \in {"CONNECTING", "CONFIRMED"} -> UnlessLost(w1, u, t, w2)
          [] OTHER -> w1

\* A BYE is answered or not: inv_handle_bye_response.
OnBye(w, t, code) ==
    LET u == Client(w, t)
    IN  Disconnect(ClientEnters(w, t, "terminated", code), u)

\* Mutant of OnCancel: an answered CANCEL is taken for the end of the INVITE.
OnCancelForgets(w, t, code) ==
    Forget(ClientEnters(w, t, "terminated", code), Client(w, t), w.tsx[t].of)

OnCancel(w, t, code) ==
    LET u  == Client(w, t)
        w1 == ClientEnters(w, t, "terminated", code)
    IN  IF w.inv[u].state = "CALLING" /\ code = 408 THEN Disconnect(w1, u)
        ELSE UnlessLost(w1, u, t, w1)

-----------------------------------------------------------------------------
(* Requests that the dialog gives to the session *)

\* The session claims the request and answers nothing.
Ignore(w, t) == [w EXCEPT !.tsx[t].server = "trying"]

\* pjsip_inv_create_uas and pjsip_inv_initial_answer with 100.
RxFirstInvite(w, t) ==
    LET u   == Server(w, t)
        sdp == w.tsx[t].sdp
        w1  == IF sdp = 0 THEN w ELSE [w EXCEPT !.neg[u] = RemoteOffer(@, sdp, "long")]
    IN  SendResponse([w1 EXCEPT !.inv[u].state = "INCOMING", !.inv[u].invite_tsx = t], t, 100, 0)

\* A re-INVITE is answered at once.
RxReinvite(w, t, choice) ==
    LET u     == Server(w, t)
        i     == w.inv[u].invite_tsx
        sdp   == w.tsx[t].sdp
        mine  == [w EXCEPT !.inv[u].invite_tsx = t]
        asked == CheckSdpServer(mine, t, sdp, choice)
        offer == [mine EXCEPT !.neg[u] = ActiveOffer(@, w.inv[u].prov)]
    IN  IF w.inv[u].state # "CONFIRMED" THEN Ignore(w, t)
        ELSE IF i # 0 THEN SendResponse(w, t, IF w.tsx[i].from = u THEN 491 ELSE 500, 0)
        ELSE IF w.neg[u].state # "DONE" THEN SendResponse(mine, t, 491, 0)
        ELSE IF sdp = 0 THEN Respond(offer, t, 200, TRUE)
        ELSE IF asked.neg[u].state # "WAIT_NEGO"
             THEN SendResponse([asked EXCEPT !.neg[u] = CancelOffer(@)], t, 488, 0)
        ELSE Respond(asked, t, 200, choice = "answer")

\* Mutant of RxUpdate: the negotiator's state is not looked at, so that an offer
\* which crosses a local one is taken for its answer.
RxUpdateUnchecked(w, t, choice) ==
    LET u      == Server(w, t)
        asked  == CheckSdpServer(w, t, w.tsx[t].sdp, choice)
        agreed == IF HasLocalAnswer(asked.neg[u]) THEN Negotiate(asked, u, TRUE) ELSE asked
    IN  IF w.inv[u].state \notin {"EARLY", "CONNECTING", "CONFIRMED"} THEN SendResponse(w, t, 500, 0)
        ELSE SendResponse(agreed, t, 200, agreed.neg[u].active_local.sdp)

\* inv_respond_incoming_update; a session that is not up to it leaves the
\* request to the dialog, which refuses it.
RxUpdate(w, t, choice) ==
    LET u      == Server(w, t)
        state  == w.neg[u].state
        asked  == CheckSdpServer(w, t, w.tsx[t].sdp, choice)
        agreed == Negotiate(asked, u, choice = "answer")
    IN  IF w.inv[u].state \notin {"EARLY", "CONNECTING", "CONFIRMED"} THEN SendResponse(w, t, 500, 0)
        ELSE IF state = "LOCAL_OFFER" THEN SendResponse(w, t, 491, 0)
        ELSE IF state \in {"REMOTE_OFFER", "WAIT_NEGO"} THEN SendResponse(w, t, 500, 0)
        ELSE IF w.tsx[t].sdp = 0 THEN SendResponse(w, t, 200, 0)
        ELSE IF asked.neg[u].state # "WAIT_NEGO"
             THEN SendResponse([asked EXCEPT !.neg[u] = CancelOffer(@)], t, 488, 0)
        ELSE IF choice = "answer"
             THEN SendResponse(agreed, t, 200, agreed.neg[u].active_local.sdp)
        ELSE SendResponse(agreed, t, 488, 0)

\* Mutant of RxBye: the BYE is answered, and the session goes on.
RxByeAnswers(w, t) == SendResponse(w, t, 200, 0)

\* inv_respond_incoming_bye.  The BYE may overtake the 2xx response that it
\* follows: the caller gives that response some time, then.  The callee of a
\* call that is not answered yet answers it.
RxBye(w, t) ==
    LET u     == Server(w, t)
        i     == w.inv[u].invite_tsx
        ended == Disconnect(SendResponse(w, t, 200, 0), u)
    IN  CASE w.inv[u].state \in {"NULL", "CALLING", "INCOMING"} -> Ignore(w, t)
          [] w.inv[u].state = "EARLY" ->
                IF w.tsx[i].from = u THEN [ended EXCEPT !.tsx[i].expires = TRUE]
                ELSE SendResponse(ended, i, 487, 0)
          [] OTHER -> ended

\* inv_respond_incoming_cancel.
RxCancel(w, t) ==
    LET u == Server(w, t)
        i == w.tsx[t].of
        responded == SendResponse(w, t, IF w.tsx[i].server = "terminated" THEN 481 ELSE 200, 0)
    IN  IF w.inv[u].state \in {"INCOMING", "EARLY"} /\ w.tsx[i].server = "proceeding"
        THEN Disconnect(SendResponse(responded, i, 487, 0), u)
        ELSE responded

RxRequest(w, t, choice) ==
    CASE w.tsx[t].method = "INVITE" -> IF w.inv[Server(w, t)].state = "NULL"
                                       THEN RxFirstInvite(w, t) ELSE RxReinvite(w, t, choice)
      [] w.tsx[t].method = "UPDATE" -> RxUpdate(w, t, choice)
      [] w.tsx[t].method = "BYE"    -> RxBye(w, t)
      [] OTHER                      -> RxCancel(w, t)

\* mod_inv_on_rx_request, of the ACK for the 2xx response to INVITE t.
RxAck(w, t, sdp, choice) ==
    LET u  == Server(w, t)
        w1 == IF Over(w, u) THEN w ELSE CheckSdpServer(w, t, sdp, choice)
        w2 == IF w.inv[u].state = "CONFIRMED" THEN Withdraw(w1, u) ELSE w1
        w3 == Forget([w2 EXCEPT !.tsx[t].server = "terminated"], u, t)
    IN  IF w.inv[u].invite_tsx # t \/ w.tsx[t].server # "completed" THEN w
        ELSE IF w.inv[u].state = "CONNECTING" THEN Confirm(w3, u) ELSE w3

\* The server transaction of INVITE t ends, acknowledged or not.
ServerEnds(w, t) == Forget([w EXCEPT !.tsx[t].server = "terminated"], Server(w, t), t)

\* No ACK came: a call that it would have confirmed is ended.
OnNoAck(w, t) ==
    LET u == Server(w, t)
    IN  ServerEnds(IF w.inv[u].state = "CONNECTING" /\ w.inv[u].invite_tsx = t
                   THEN SendBye(w, u) ELSE w, t)

=============================================================================
