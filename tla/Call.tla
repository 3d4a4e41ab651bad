-------------------------------- MODULE Call --------------------------------
(***************************************************************************)
(* A call between two ends: the invite sessions of InvSession, what their  *)
(* applications do, and the network between them.                          *)
(*                                                                         *)
(* Retransmissions make a lost copy harmless: a request or a response may  *)
(* arrive for as long as its receiver waits, in any order, and a timer     *)
(* that fires says that all copies were lost.  An ACK is a message of its  *)
(* own: it can be lost, and a retransmitted 2xx asks for another.          *)
(***************************************************************************)
EXTENDS InvSession, FiniteSets

CONSTANTS Patient,    \* the applications wait: see MayOffer, EndSession and Final
          Refresh,    \* the session timer sends UPDATE without SDP
          LateTimers, \* timers D and K may fire while their end negotiates again
          Budget      \* bound on re-INVITEs and UPDATEs sent, timers that fire and
                      \* ACKs that are lost, together

ASSUME SwitchAssumption == {Patient, Refresh, LateTimers} \subseteq BOOLEAN
ASSUME BoundAssumption == Budget \in Nat

VARIABLES inv,    \* the session of each end
          neg,    \* its negotiator
          tsx,    \* the transactions, in the order of their requests
          acks,   \* the ACKs for 2xx responses in the network
          sdps,   \* session descriptions made so far
          lost    \* losses so far

vars == <<inv, neg, tsx, acks, sdps, lost>>

MaxTsx == Budget + 8

MaxSdps == 2 * Budget + 4

TypeOK ==
    /\ inv \in [Ends -> Sessions(0..MaxTsx, 0..MaxSdps)]
    /\ neg \in [Ends -> Negotiators(0..MaxSdps)]
    /\ tsx \in Seq(Transactions(0..MaxTsx, 0..MaxSdps)) /\ Len(tsx) <= MaxTsx
    /\ acks \subseteq [t : 1..MaxTsx, sdp : 0..MaxSdps]
    /\ sdps \in 0..MaxSdps
    /\ lost \in 0..Budget

Init ==
    /\ inv = [u \in Ends |-> NoSession]
    /\ neg = [u \in Ends |-> NoNegotiator]
    /\ tsx = <<>>
    /\ acks = {}
    /\ sdps = 0
    /\ lost = 0

World == [inv |-> inv, neg |-> neg, tsx |-> tsx, acks |-> acks, sdps |-> sdps]

\* Nobody looks at a transaction again that has ended at both ends.
Tidy(x) == IF x.client = "terminated" /\ x.server = "terminated"
           THEN [x EXCEPT !.sdp = 0, !.body = 0, !.done = FALSE, !.answered = FALSE,
                          !.expires = FALSE, !.status = 0]
           ELSE x

\* The next state is the world that a handler leaves.
Becomes(world) ==
    \E w \in {world} : /\ inv' = w.inv /\ neg' = w.neg
                       /\ tsx' = [t \in 1..Len(w.tsx) |-> Tidy(w.tsx[t])]
                       /\ acks' = w.acks /\ sdps' = w.sdps

\* What a call has used of its bound beyond the first INVITE.
Spent == Cardinality({t \in 2..Len(tsx) : tsx[t].method \in {"INVITE", "UPDATE"}}) + lost

-----------------------------------------------------------------------------
(* The application *)

\* What an application that waits starts an offer after.
MayOffer(u) ==
    /\ Spent < Budget
    /\ Patient => /\ \A t \in 1..Len(tsx) : tsx[t].from = u => tsx[t].client = "terminated"
                  /\ inv[u].invite_tsx = 0 /\ neg[u].state = "DONE" /\ ~inv[u].hungup

\* pjsip_inv_create_uac with or without an offer, and pjsip_inv_invite.
Invite(offer) ==
    LET w    == World
        made == IF offer THEN [w EXCEPT !.sdps = 1, !.neg["caller"] = LocalOffer(@, 1, "long")]
                         ELSE w
    IN  /\ inv["caller"].state = "NULL"
        /\ Becomes(SetState(SendRequest(made, "caller", "INVITE", made.neg["caller"].local.sdp, 0),
                            "caller", "CALLING"))
        /\ UNCHANGED lost

\* pjsip_inv_reinvite and pjsip_inv_send_msg.  With an offer there has to be an
\* active description to modify: pjmedia_sdp_neg_modify_local_offer does not ask.
Reinvite(u, offer) ==
    LET w     == World
        state == neg[u].state
        next  == w.sdps + 1
        pool  == inv[u].prov
        made  == IF ~offer \/ state \in {"LOCAL_OFFER", "WAIT_NEGO"} THEN w
                 ELSE IF state = "REMOTE_OFFER" THEN AnswerOffer(w, u)
                 ELSE [w EXCEPT !.sdps = next, !.neg[u] = LocalOffer(@, next, pool)]
        n     == made.neg[u]
        sdp   == IF n.state = "LOCAL_OFFER" \/ HasLocalAnswer(n) THEN n.local.sdp ELSE 0
    IN  /\ inv[u].state = "CONFIRMED" /\ inv[u].invite_tsx = 0
        /\ MayOffer(u)
        /\ offer => neg[u].active_local # NoCopy
        /\ Becomes(SendRequest(made, u, "INVITE", sdp, 0))
        /\ UNCHANGED lost

\* pjsip_inv_update and pjsip_inv_send_msg; timer_cb of sip_timer.c when there
\* is no offer.
Update(u, offer) ==
    LET w    == World
        next == w.sdps + 1
        made == [w EXCEPT !.sdps = next, !.neg[u] = LocalOffer(@, next, w.inv[u].prov)]
    IN  /\ inv[u].state \in {"EARLY", "CONNECTING", "CONFIRMED"}
        /\ MayOffer(u)
        /\ IF offer THEN neg[u].state = "DONE" /\ neg[u].active_local # NoCopy ELSE Refresh
        /\ Becomes(IF offer THEN SendRequest(made, u, "UPDATE", next, 0)
                            ELSE SendRequest(w, u, "UPDATE", 0, 0))
        /\ UNCHANGED lost

\* pjsip_inv_answer to the first INVITE, with a description if there is none
\* yet and the application gives one, as it does for a 200.
Answer(status, give) ==
    LET u     == "callee"
        w     == World
        t     == inv[u].invite_tsx
        state == neg[u].state
        given == IF ~give THEN w
                 ELSE IF state = "REMOTE_OFFER" THEN AnswerOffer(w, u)
                 ELSE [w EXCEPT !.sdps = @ + 1, !.neg[u] = LocalOffer(@, w.sdps + 1, "long")]
    IN  /\ inv[u].state \in {"INCOMING", "EARLY"} /\ t # 0
        /\ status = 183 => tsx[t].status = 100
        /\ give => state \in {"NULL", "REMOTE_OFFER"} /\ status < 300
        /\ status = 200 /\ state \in {"NULL", "REMOTE_OFFER"} => give
        /\ Becomes(CASE status = 183 -> SetState(Respond(given, t, 183, TRUE), u, "EARLY")
                     [] status = 200 -> SetState(Respond(given, t, 200, TRUE), u, "CONNECTING")
                     [] OTHER        -> Disconnect(SendResponse(w, t, status, 0), u))
        /\ UNCHANGED lost

\* ... which waits for the first response, or BYE.  The callee of a call that
\* is not answered gives a final response: see Answer.
EndSession(u) ==
    LET w == [World EXCEPT !.inv[u].hungup = TRUE]
    IN  /\ \/ /\ inv[u].state \in {"CALLING", "EARLY"} /\ u = "caller" /\ ~inv[u].hungup
              /\ Becomes(IF tsx[inv[u].invite_tsx].code < 100
                         THEN [w EXCEPT !.inv[u].pending_cancel = TRUE]
                         ELSE SendCancel(w, u))
           \/ /\ inv[u].state \in {"CONNECTING", "CONFIRMED"}
              /\ Patient => inv[u].state = "CONFIRMED"
              /\ \A t \in 1..Len(tsx) : tsx[t].method = "BYE" => tsx[t].from # u
              /\ Becomes(SendBye(World, u))
        /\ UNCHANGED lost

-----------------------------------------------------------------------------
(* The network and the timers *)

\* A request that only its arrival can bring on.
Waits(t) == tsx[t].client = "calling"

\* The dialog of an end is destroyed when its session is over and it has no
\* transactions ...
MayBeGone(u) ==
    /\ inv[u].state = "DISCONNECTED"
    /\ \A t \in 1..Len(tsx) :
          IF tsx[t].from = u THEN tsx[t].client = "terminated"
                             ELSE tsx[t].server \in {"none", "terminated"}

\* ... and a transaction other than an INVITE lingers for timer J or K.
MayLinger(u) ==
    MayBeGone(u) => \E t \in 1..Len(tsx) : /\ tsx[t].method # "INVITE"
                                           /\ tsx[t].from = u \/ tsx[t].server = "terminated"

\* pjsip_dlg_on_rx_request: a request that others overtook is refused, or there
\* is no dialog any more.
Receive(t, choice) ==
    LET u == Server(World, t)
        cseq == IF tsx[t].method = "CANCEL" THEN tsx[t].of ELSE t
        w == [World EXCEPT !.inv[u].remote_cseq = cseq]
    IN  /\ tsx[t].server = "none" /\ Waits(t)
        /\ \/ MayLinger(u) /\ Becomes(IF cseq <= inv[u].remote_cseq /\ tsx[t].method # "CANCEL"
                      THEN ServerEnds(SendResponse(World, t, 500, 0), t)
                      ELSE RxRequest(w, t, choice))
           \/ MayBeGone(u) /\ Becomes(ServerEnds(SendResponse(World, t, 481, 0), t))
        /\ UNCHANGED lost

Progress(t, choice) ==
    /\ tsx[t].server = "proceeding" /\ Waits(t) /\ tsx[t].code # tsx[t].status
    /\ Becomes(OnProgress(World, t, choice))
    /\ UNCHANGED lost

Final(t, choice) ==
    LET code == tsx[t].status
        w    == World
    IN  /\ Waits(t) /\ code >= 200
        /\ Patient => choice # "decline"
        /\ Becomes(CASE tsx[t].method = "INVITE" -> IF code < 300 THEN OnInviteOk(w, t, choice)
                                                    ELSE OnInviteFailure(w, t, "completed", code)
                     [] tsx[t].method = "UPDATE" ->
                           OnUpdate(w, t, "completed", code, tsx[t].body, choice)
                     [] tsx[t].method = "BYE"    -> OnBye(w, t, code)
                     [] OTHER                    -> OnCancel(w, t, code))
        /\ UNCHANGED lost

\* Timers D and K: a completed client transaction ends.
ClientEnds(t) ==
    /\ tsx[t].client = "completed"
    /\ LateTimers \/ neg[tsx[t].from].state # "LOCAL_OFFER"
    /\ Becomes(IF tsx[t].method = "INVITE"
               THEN OnInviteFailure(World, t, "terminated", tsx[t].code)
               ELSE OnUpdate(World, t, "terminated", tsx[t].code, 0, "decline"))
    /\ UNCHANGED lost

\* Something is lost for good.
Lose == Spent < Budget /\ lost' = lost + 1

\* A timer fires, for want of an event that may still be on its way or not.
Fires(hopeless) == IF hopeless THEN UNCHANGED lost ELSE Lose

\* Timers B and F, and the timeout of an INVITE that is cancelled: it is
\* hopeless if the peer ignores the request, or rings on and got no CANCEL.
Timeout(t) ==
    /\ Waits(t)
    /\ tsx[t].method = "INVITE" => tsx[t].code < 100 \/ tsx[t].expires
    /\ Fires(\/ tsx[t].server = "trying"
             \/ /\ tsx[t].server = "proceeding" /\ tsx[t].expires
                /\ \A c \in 1..Len(tsx) : tsx[c].of = t => ~Waits(c))
    /\ Becomes(CASE tsx[t].method = "INVITE" -> OnInviteFailure(World, t, "terminated", 408)
                 [] tsx[t].method = "UPDATE" -> OnUpdate(World, t, "terminated", 408, 0, "decline")
                 [] tsx[t].method = "BYE"    -> OnBye(World, t, 408)
                 [] OTHER                    -> OnCancel(World, t, 408))

ReceiveAck(ack, choice) ==
    LET u == Server(World, ack.t)
    IN  /\ Becomes(RxAck([World EXCEPT !.acks = @ \ {ack}, !.inv[u].remote_cseq = ack.t],
                         ack.t, ack.sdp, choice))
        /\ UNCHANGED lost

LoseAck(ack) ==
    /\ Lose
    /\ acks' = acks \ {ack}
    /\ UNCHANGED <<inv, neg, tsx, sdps>>

\* The transaction layer acknowledges a refusal.
ReceiveNack(t) ==
    /\ tsx[t].method = "INVITE" /\ tsx[t].server = "completed" /\ tsx[t].status >= 300
    /\ tsx[t].code = tsx[t].status
    /\ Becomes(ServerEnds(World, t))
    /\ UNCHANGED lost

\* A 2xx response is sent again to a client that is done: mod_inv_on_rx_response.
Again(t) ==
    LET u == tsx[t].from
    IN  /\ tsx[t].method = "INVITE" /\ tsx[t].server = "completed" /\ tsx[t].status = 200
        /\ tsx[t].client = "terminated" /\ \A ack \in acks : ack.t # t
        /\ inv[u].invite_tsx = 0 /\ MayLinger(u)
        /\ Becomes(SendAck(World, t, "answer"))
        /\ UNCHANGED lost

\* Timer H: no ACK comes, and none can when the client is gone.
NoAck(t) ==
    /\ tsx[t].method = "INVITE" /\ tsx[t].server = "completed"
    /\ Fires(tsx[t].client = "terminated" /\ tsx[t].code # tsx[t].status /\ MayBeGone(tsx[t].from))
    /\ Becomes(OnNoAck(World, t))

-----------------------------------------------------------------------------

Application ==
    \/ \E offer \in BOOLEAN : Invite(offer)
    \/ \E status \in {183, 200, 486}, give \in BOOLEAN : Answer(status, give)
    \/ \E u \in Ends : EndSession(u) \/ \E offer \in BOOLEAN : Reinvite(u, offer) \/ Update(u, offer)

Network ==
    \/ \E t \in 1..Len(tsx) :
          \/ \E choice \in Choices : Receive(t, choice) \/ Progress(t, choice) \/ Final(t, choice)
          \/ ClientEnds(t) \/ Timeout(t) \/ ReceiveNack(t) \/ Again(t) \/ NoAck(t)
    \/ \E ack \in acks, choice \in Choices : ReceiveAck(ack, choice)
    \/ \E ack \in acks : LoseAck(ack)

Next == Application \/ Network

Spec == Init /\ [][Next]_vars

(* Properties *)

\* Nothing is under way any more, though the callee may still ring.
Quiet ==
    /\ acks = {}
    /\ \A t \in 1..Len(tsx) :
          /\ "completed" \notin {tsx[t].client, tsx[t].server}
          /\ tsx[t].client = "calling" => tsx[t].server = "proceeding" /\ ~tsx[t].expires

\* Once everything has arrived, each end of a call sends what the other one
\* expects: the offers of re-INVITEs and UPDATEs that cross, the answers in
\* responses and ACKs and the early answer in a 183 leave one agreement
\* (inv_check_sdp_in_incoming_msg, inv_negotiate_sdp).
MediaAgree ==
    Quiet /\ (\A u \in Ends : inv[u].state = "CONFIRMED" /\ neg[u].state = "DONE")
    => /\ neg["caller"].active_local.sdp = neg["callee"].active_remote.sdp
       /\ neg["callee"].active_local.sdp = neg["caller"].active_remote.sdp

\* An offer does not stay open: when its request is over, it was answered or
\* withdrawn (pjmedia_sdp_neg_cancel_offer and its callers), or the session
\* could never offer anything again.  This holds only where no ACK was lost
\* and no timer gave up a request (lost = 0): an offer whose answer was in a
\* lost ACK stays open for good.
OffersSettle ==
    Quiet /\ lost = 0 => \A u \in Ends : inv[u].state = "CONFIRMED" => neg[u].state = "DONE"

\* When one end is done with the call, so is the other, unless the one gave up
\* waiting for the answer to a request (on_tsx_state of each session state,
\* with CANCEL, BYE, refusals and 481 crossing each other).
CallsEndTogether ==
    Quiet => \A u \in Ends :
        inv[u].state = "DISCONNECTED" =>
            \/ inv[Peer(u)].state \notin {"CALLING", "CONNECTING", "CONFIRMED"}
            \/ \E t \in 1..Len(tsx) : tsx[t].from = u /\ tsx[t].code = 408

\* A session that is not answered yet has the INVITE that it dereferences when
\* a BYE or CANCEL arrives or the application hangs up (inv->invite_tsx in
\* inv_on_state_early and pjsip_inv_end_session).
InviteTsxAlive ==
    \A u \in Ends : inv[u].state \in {"CALLING", "INCOMING", "EARLY"} => inv[u].invite_tsx # 0

\* Neither of the descriptions that are being negotiated, and neither of the
\* active ones, is in a pool that was reset: inv_negotiate_sdp swaps the pools
\* whenever a negotiation succeeds.  Of initial_sdp it does not hold: see
\* OriginAlive.
SdpAlive ==
    \A u \in Ends :
        "stale" \notin {neg[u].local.pool, neg[u].remote.pool,
                        neg[u].active_local.pool, neg[u].active_remote.pool}

\* The end u gives an answer, whether it is negotiated at once or not.
GivesAnswer(u) ==
    /\ sdps' # sdps /\ sdps' \in {neg'[u].local.sdp, neg'[u].active_local.sdp}
    /\ neg'[u].state # "LOCAL_OFFER"

\* An answer takes its origin from a description that is there: "these pool's
\* lifetime is synchronized to the SDP offer-answer negotiation" (sip_inv.h:346),
\* but initial_sdp (sdp_neg.c:432) outlives the pool that it was cloned into.
OriginAlive ==
    [][\A u \in Ends : GivesAnswer(u) => neg[u].initial # "stale"]_vars

\* A call that has ended stays so, whatever arrives late: a 2xx response to a
\* cancelled INVITE, its retransmission, or the end of a transaction.
StaysDisconnected ==
    [][\A u \in Ends : inv[u].state = "DISCONNECTED" => inv'[u].state = "DISCONNECTED"]_vars

\* The end u withdraws its offer: nothing new was agreed on.
Withdraws(u) ==
    /\ neg[u].state = "LOCAL_OFFER" /\ neg'[u].state = "DONE"
    /\ neg'[u].active_local.sdp = neg[u].active_local.sdp

\* Only the request that carried an offer withdraws it: "Prevent from us
\* cancelling different offer!" (inv_handle_update_response).
OwnOfferOnly ==
    [][\A u \in Ends, t \in 1..Len(tsx) :
          Withdraws(u) /\ tsx[t].from = u /\ tsx'[t].client # tsx[t].client
          => tsx[t].sdp = neg[u].local.sdp]_vars

=============================================================================
