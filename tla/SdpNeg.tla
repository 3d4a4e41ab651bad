------------------------------- MODULE SdpNeg -------------------------------
(***************************************************************************)
(* The SDP negotiator of pjmedia/src/pjmedia/sdp_neg.c as operators on its *)
(* record.  A session description is a number; each copy of one that the   *)
(* negotiator keeps says which memory pool it was cloned into, since the   *)
(* invite session resets its pools while the negotiator lives on.          *)
(* Left out: the descriptions themselves (media lines, codecs, origin) and *)
(* answer_was_remote.                                                      *)
(***************************************************************************)
EXTENDS Naturals

\* "long" is inv->pool, which lives as long as the session; A and B are the
\* flip-flop pools.  The copies in a pool that is reset are "stale".
Pools == {"long", "A", "B"}

Copy(sdp, pool) == [sdp |-> sdp, pool |-> pool]

NoCopy == Copy(0, "none")

Copies(sdps) == [sdp : sdps, pool : Pools \cup {"none", "stale"}]

NegStates == {"NULL", "LOCAL_OFFER", "REMOTE_OFFER", "WAIT_NEGO", "DONE"}

\* local, remote: neg_local_sdp and neg_remote_sdp; active_local and
\* active_remote: what the two ends agreed on last.  initial: the pool of
\* initial_sdp, of which only the origin is read, when an answer is given.
Negotiators(sdps) ==
    [state : NegStates, local : Copies(sdps), remote : Copies(sdps),
     active_local : Copies(sdps), active_remote : Copies(sdps),
     initial : Pools \cup {"none", "stale"}, has_remote_answer : BOOLEAN]

\* The session has no negotiator yet.
NoNegotiator ==
    [state |-> "NULL", local |-> NoCopy, remote |-> NoCopy,
     active_local |-> NoCopy, active_remote |-> NoCopy, initial |-> "none",
     has_remote_answer |-> FALSE]

\* pjmedia_sdp_neg_create_w_local_offer, pjmedia_sdp_neg_modify_local_offer
LocalOffer(neg, sdp, pool) ==
    [neg EXCEPT !.state = "LOCAL_OFFER", !.local = Copy(sdp, pool), !.initial = pool]

\* Mutant of RemoteOffer: the description stays in the pool of its message.
RemoteOfferUncloned(neg, sdp, pool) ==
    [neg EXCEPT !.state = "REMOTE_OFFER", !.remote = Copy(sdp, "message")]

\* pjmedia_sdp_neg_create_w_remote_offer, pjmedia_sdp_neg_set_remote_offer
RemoteOffer(neg, sdp, pool) ==
    [neg EXCEPT !.state = "REMOTE_OFFER", !.remote = Copy(sdp, pool)]

\* pjmedia_sdp_neg_send_local_offer: the active description is offered again.
\* initial_sdp stays what it was.
ActiveOffer(neg, pool) ==
    [neg EXCEPT !.state = "LOCAL_OFFER", !.local = Copy(neg.active_local.sdp, pool)]

\* pjmedia_sdp_neg_set_remote_answer
RemoteAnswer(neg, sdp, pool) ==
    [neg EXCEPT !.state = "WAIT_NEGO", !.remote = Copy(sdp, pool),
                !.has_remote_answer = TRUE]

\* pjmedia_sdp_neg_set_local_answer: the first answer becomes initial_sdp, and
\* later ones take their origin from it.
LocalAnswer(neg, sdp, pool) ==
    [neg EXCEPT !.state = "WAIT_NEGO", !.local = Copy(sdp, pool),
                !.initial = IF @ = "none" THEN pool ELSE @]

HasLocalAnswer(neg) == neg.state = "WAIT_NEGO" /\ ~neg.has_remote_answer

\* What negotiating and withdrawing an offer leave alike: the state is DONE
\* and nothing is being negotiated.
Settled(neg) ==
    [neg EXCEPT !.state = "DONE", !.local = NoCopy, !.remote = NoCopy,
                !.has_remote_answer = FALSE]

\* pjmedia_sdp_neg_cancel_offer
CancelOffer(neg) ==
    IF neg.state \in {"LOCAL_OFFER", "REMOTE_OFFER"} THEN Settled(neg) ELSE neg

\* pjmedia_sdp_neg_negotiate, of descriptions that have media in common or
\* have not.  The local one is cloned, the remote one is kept where it is.
NegotiateSdp(neg, fits, pool) ==
    IF fits THEN [Settled(neg) EXCEPT !.active_local = Copy(neg.local.sdp, pool),
                                      !.active_remote = neg.remote]
            ELSE Settled(neg)

\* pj_pool_reset: the copies in the pool are lost.
PoolReset(neg, pool) ==
    LET After(copy) == IF copy.pool = pool THEN [copy EXCEPT !.pool = "stale"] ELSE copy
    IN  [neg EXCEPT !.local = After(@), !.remote = After(@),
                    !.active_local = After(@), !.active_remote = After(@),
                    !.initial = IF @ = pool THEN "stale" ELSE @]

=============================================================================
