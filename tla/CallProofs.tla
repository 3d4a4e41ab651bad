----------------------------- MODULE CallProofs -----------------------------
(***************************************************************************)
(* Theorems about Call, for any Budget and any of its switches: a session  *)
(* that is not answered has its INVITE, no description is used whose pool  *)
(* was emptied, and a call that has ended stays so.  A handler composes    *)
(* operators on the world; each has a lemma that says that the world it    *)
(* leaves is sound (Sound) and what it may have changed of the course of   *)
(* the call (Tame), so that a step is followed through its handler.        *)
(***************************************************************************)
EXTENDS Call, TLAPS

\* The worlds, without the bounds that Call has on transactions and descriptions.
Worlds == [inv : [Ends -> Sessions(Nat, Nat)], neg : [Ends -> Negotiators(Nat)],
           tsx : Seq(Transactions(Nat, Nat)), acks : SUBSET [t : Nat, sdp : Nat], sdps : Nat]

\* What refers to a transaction refers to one that there is.
Typed(w) ==
    /\ w \in Worlds
    /\ \A u \in Ends : w.inv[u].invite_tsx \in 0..Len(w.tsx)
    /\ \A t \in 1..Len(w.tsx) : w.tsx[t].method = "CANCEL" => w.tsx[t].of \in 1..Len(w.tsx)
    /\ \A ack \in w.acks : ack.t \in 1..Len(w.tsx)

Other(pool) == IF pool = "A" THEN "B" ELSE "A"

\* What is being negotiated is in the provisional pool or in one that stays, what
\* was agreed on in the other one or in one that stays.
Fits(n, prov) ==
    /\ {n.local.pool, n.remote.pool} \subseteq {"none", "long", prov}
    /\ {n.active_local.pool, n.active_remote.pool} \subseteq {"none", "long", Other(prov)}

Pooled(w) == \A u \in Ends : Fits(w.neg[u], w.inv[u].prov)

Sound(w) == Typed(w) /\ Pooled(w)

\* The states of a session that is not answered.
Ringing == {"CALLING", "INCOMING", "EARLY"}

\* The course of a call.  The first transaction is the caller's INVITE, and the
\* only one that is ever proceeding.  It is the invite_tsx of each end until the
\* end is done with it; an end sends no other INVITE before that, and only the
\* caller cancels.
Course(w) ==
    /\ w.inv["caller"].state = "NULL" => Len(w.tsx) = 0
    /\ Len(w.tsx) = 0 => w.inv["callee"].state = "NULL"
    /\ Len(w.tsx) > 0 => w.tsx[1].method = "INVITE" /\ w.tsx[1].from = "caller"
    /\ \A t \in 1..Len(w.tsx) : /\ w.tsx[t].server = "proceeding" => t = 1
                                /\ w.tsx[t].method = "CANCEL" => w.tsx[t].from = "caller"
    /\ w.inv["caller"].state # "INCOMING"
    /\ w.inv["caller"].state \in {"CALLING", "EARLY"} =>
          w.inv["caller"].invite_tsx = 1 /\ w.tsx[1].client = "calling"
    /\ Len(w.tsx) > 0 /\ w.tsx[1].client = "calling" =>
          w.inv["caller"].state \in {"CALLING", "EARLY", "DISCONNECTED"}
    /\ w.inv["callee"].state # "CALLING"
    /\ w.inv["callee"].state \in {"INCOMING", "EARLY"} =>
          w.inv["callee"].invite_tsx = 1 /\ w.tsx[1].server = "proceeding"
    /\ w.inv["callee"].state = "NULL" =>
          /\ w.inv["caller"].state \in {"NULL", "CALLING", "DISCONNECTED"}
          /\ Len(w.tsx) > 0 => w.tsx[1].server # "proceeding" /\ w.tsx[1].status \notin 200..299
          /\ \A t \in 2..Len(w.tsx) : w.tsx[t].method # "INVITE"
    /\ \A u \in Ends : w.inv[u].state \in Ringing \cup {"NULL"} =>
          \A t \in 2..Len(w.tsx) : w.tsx[t].method = "INVITE" => w.tsx[t].from # u

\* The inductive invariant.
IInv == Sound(World) /\ Course(World)

\* What a handler does with the negotiators and the pools leaves the rest alone.
Media(w, v) ==
    /\ Sound(v)
    /\ Len(v.tsx) = Len(w.tsx) /\ v.acks = w.acks
    /\ \A u \in Ends : /\ v.inv[u].state = w.inv[u].state
                       /\ v.inv[u].invite_tsx = w.inv[u].invite_tsx
                       /\ v.inv[u].remote_cseq = w.inv[u].remote_cseq
    /\ \A t \in 1..Len(w.tsx) : /\ v.tsx[t].method = w.tsx[t].method
                                /\ v.tsx[t].from = w.tsx[t].from
                                /\ v.tsx[t].of = w.tsx[t].of
                                /\ v.tsx[t].client = w.tsx[t].client
                                /\ v.tsx[t].code = w.tsx[t].code
                                /\ v.tsx[t].server = w.tsx[t].server
                                /\ v.tsx[t].status = w.tsx[t].status

\* What else a handler does, but for the few that take a call further: an end
\* may be done with the call, or it confirms it, and what an end that is not
\* answered relies on stays.
Tame(w, v) ==
    /\ Sound(v)
    /\ Len(v.tsx) >= Len(w.tsx)
    /\ \A u \in Ends :
          /\ \/ v.inv[u].state \in {w.inv[u].state, "DISCONNECTED"}
             \/ w.inv[u].state = "CONNECTING" /\ v.inv[u].state = "CONFIRMED"
          /\ v.inv[u].state \in Ringing => v.inv[u].invite_tsx = w.inv[u].invite_tsx
    /\ \A t \in 1..Len(w.tsx) : /\ v.tsx[t].method = w.tsx[t].method
                                /\ v.tsx[t].from = w.tsx[t].from
                                /\ v.tsx[t].of = w.tsx[t].of
    /\ \A t \in 1..Len(v.tsx) : t > Len(w.tsx) =>
          /\ v.tsx[t].server # "proceeding" /\ v.tsx[t].method # "INVITE"
          /\ v.tsx[t].method = "CANCEL" => v.tsx[t].from = "caller"
    /\ \A t \in 1..Len(w.tsx) :
          v.tsx[t].server = "proceeding" => w.tsx[t].server = "proceeding"
    /\ Len(w.tsx) > 0 =>
          /\ \/ v.tsx[1].client = w.tsx[1].client
             \/ /\ v.tsx[1].client # "calling"
                /\ v.inv["caller"].state \notin {"CALLING", "EARLY"}
          /\ \/ v.tsx[1].server = w.tsx[1].server
             \/ /\ v.tsx[1].server # "proceeding"
                /\ v.inv["callee"].state \notin {"INCOMING", "EARLY"}
          /\ \/ v.tsx[1].status \in {w.tsx[1].status} \cup (Nat \ 200..299)
             \/ v.inv["callee"].state # "NULL"

\* A call that has ended stays so.
StayOver(w, v) ==
    \A u \in Ends : w.inv[u].state = "DISCONNECTED" => v.inv[u].state = "DISCONNECTED"

\* A call that was begun, and what may become of it.
Begun(w) == Sound(w) /\ Course(w) /\ Len(w.tsx) > 0

Follows(w, v) == Begun(v) /\ StayOver(w, v)

-----------------------------------------------------------------------------
(* Worlds, one part at a time *)

\* The session of one end changes.
LEMMA PutInv ==
  ASSUME NEW w \in Worlds, NEW u \in Ends, NEW r \in Sessions(Nat, Nat)
  PROVE  LET v == [w EXCEPT !.inv[u] = r]
         IN  /\ v \in Worlds
             /\ v.inv[u] = r /\ \A x \in Ends \ {u} : v.inv[x] = w.inv[x]
             /\ v.neg = w.neg /\ v.tsx = w.tsx /\ v.acks = w.acks /\ v.sdps = w.sdps
BY DEF Worlds

\* The negotiator of one end changes.
LEMMA PutNeg ==
  ASSUME NEW w \in Worlds, NEW u \in Ends, NEW n \in Negotiators(Nat)
  PROVE  LET v == [w EXCEPT !.neg[u] = n]
         IN  /\ v \in Worlds
             /\ v.neg[u] = n /\ \A x \in Ends \ {u} : v.neg[x] = w.neg[x]
             /\ v.inv = w.inv /\ v.tsx = w.tsx /\ v.acks = w.acks /\ v.sdps = w.sdps
BY DEF Worlds

\* A transaction changes.
LEMMA PutTsx ==
  ASSUME NEW w \in Worlds, NEW t \in 1..Len(w.tsx), NEW x \in Transactions(Nat, Nat)
  PROVE  LET v == [w EXCEPT !.tsx[t] = x]
         IN  /\ v \in Worlds
             /\ v.tsx = [w.tsx EXCEPT ![t] = x]
             /\ Len(v.tsx) = Len(w.tsx)
             /\ v.tsx[t] = x /\ \A i \in 1..Len(w.tsx) \ {t} : v.tsx[i] = w.tsx[i]
             /\ v.neg = w.neg /\ v.inv = w.inv /\ v.acks = w.acks /\ v.sdps = w.sdps
<1> DEFINE v == [w EXCEPT !.tsx[t] = x]
<1>0. w.tsx \in Seq(Transactions(Nat, Nat))
  BY DEF Worlds
<1>1. v.tsx = [w.tsx EXCEPT ![t] = x]
  BY DEF Worlds
<1>3. \A i \in 1..Len(w.tsx) \ {t} : v.tsx[i] = w.tsx[i]
  BY <1>0, <1>1
<1>4. v.tsx[t] = x
  BY <1>0, <1>1
<1>2. Len(v.tsx) = Len(w.tsx)
  BY <1>0, <1>1
<1>8. v.tsx \in Seq(Transactions(Nat, Nat))
  BY <1>0, <1>1
<1>5. v.neg = w.neg /\ v.inv = w.inv /\ v.acks = w.acks /\ v.sdps = w.sdps
  BY DEF Worlds
<1>6. v \in Worlds
  BY <1>8 DEF Worlds
<1>7. QED
  BY <1>1, <1>2, <1>3, <1>4, <1>5, <1>6

\* pjsip_dlg_send_response changes the server's side of its transaction.
LEMMA SendResponseEffect ==
  ASSUME NEW w \in Worlds, NEW t \in 1..Len(w.tsx), NEW status \in Nat, NEW body \in Nat
  PROVE  LET v == SendResponse(w, t, status, body)
             server == IF status < 200 THEN "proceeding"
                       ELSE IF w.tsx[t].method = "INVITE" THEN "completed" ELSE "terminated"
         IN  /\ v \in Worlds
             /\ Len(v.tsx) = Len(w.tsx)
             /\ v.tsx[t].method = w.tsx[t].method /\ v.tsx[t].from = w.tsx[t].from
             /\ v.tsx[t].of = w.tsx[t].of /\ v.tsx[t].client = w.tsx[t].client
             /\ v.tsx[t].status = status /\ v.tsx[t].server = server
             /\ \A i \in 1..Len(w.tsx) \ {t} : v.tsx[i] = w.tsx[i]
             /\ v.neg = w.neg /\ v.inv = w.inv /\ v.acks = w.acks /\ v.sdps = w.sdps
<1> DEFINE server == IF status < 200 THEN "proceeding"
                     ELSE IF w.tsx[t].method = "INVITE" THEN "completed" ELSE "terminated"
           x == w.tsx[t]
           y == [x EXCEPT !.status = status]
           z == [y EXCEPT !.body = body]
           q == [z EXCEPT !.server = server]
           a == [w EXCEPT !.tsx[t] = y]
           b == [a EXCEPT !.tsx[t] = z]
           c == [b EXCEPT !.tsx[t] = q]
<1>1. x \in Transactions(Nat, Nat)
  BY DEF Worlds
<1>2. y \in Transactions(Nat, Nat) /\ z \in Transactions(Nat, Nat) /\ q \in Transactions(Nat, Nat)
  BY <1>1 DEF Transactions
<1>3. /\ q.method = x.method /\ q.from = x.from /\ q.of = x.of /\ q.client = x.client
      /\ q.status = status /\ q.server = server
  BY <1>1 DEF Transactions
<1>4. ASSUME a.tsx[t] = y, b.tsx[t] = z
      PROVE  SendResponse(w, t, status, body) = c
  BY <1>4 DEF SendResponse
<1> HIDE DEF x, y, z, q, server
<1>5. /\ a \in Worlds /\ a.tsx[t] = y /\ Len(a.tsx) = Len(w.tsx)
      /\ \A i \in 1..Len(w.tsx) \ {t} : a.tsx[i] = w.tsx[i]
      /\ a.neg = w.neg /\ a.inv = w.inv /\ a.acks = w.acks /\ a.sdps = w.sdps
  BY <1>2, PutTsx
<1> HIDE DEF a
<1>6. /\ b \in Worlds /\ b.tsx[t] = z /\ Len(b.tsx) = Len(w.tsx)
      /\ \A i \in 1..Len(w.tsx) \ {t} : b.tsx[i] = a.tsx[i]
      /\ b.neg = w.neg /\ b.inv = w.inv /\ b.acks = w.acks /\ b.sdps = w.sdps
  BY <1>2, <1>5, PutTsx
<1> HIDE DEF b
<1>7. /\ c \in Worlds /\ c.tsx[t] = q /\ Len(c.tsx) = Len(w.tsx)
      /\ \A i \in 1..Len(w.tsx) \ {t} : c.tsx[i] = b.tsx[i]
      /\ c.neg = w.neg /\ c.inv = w.inv /\ c.acks = w.acks /\ c.sdps = w.sdps
  BY <1>2, <1>6, PutTsx
<1>8. SendResponse(w, t, status, body) = c
  BY <1>5, <1>6, <1>4
<1>9. QED
  BY <1>5, <1>6, <1>7, <1>8, <1>3 DEF server, x

-----------------------------------------------------------------------------
(* The negotiator *)

\* pjmedia_sdp_neg_*: what is being negotiated goes to a pool that fits.
LEMMA NegotiatorFits ==
  ASSUME NEW n \in Negotiators(Nat), NEW prov \in {"A", "B"}, Fits(n, prov),
         NEW sdp \in Nat, NEW pool \in {"long", prov}
  PROVE  /\ LocalOffer(n, sdp, pool) \in Negotiators(Nat) /\ Fits(LocalOffer(n, sdp, pool), prov)
         /\ RemoteOffer(n, sdp, pool) \in Negotiators(Nat) /\ Fits(RemoteOffer(n, sdp, pool), prov)
         /\ RemoteAnswer(n, sdp, pool) \in Negotiators(Nat)
         /\ Fits(RemoteAnswer(n, sdp, pool), prov)
         /\ LocalAnswer(n, sdp, pool) \in Negotiators(Nat) /\ Fits(LocalAnswer(n, sdp, pool), prov)
         /\ CancelOffer(n) \in Negotiators(Nat) /\ Fits(CancelOffer(n), prov)
<1>1. LocalOffer(n, sdp, pool) \in Negotiators(Nat) /\ Fits(LocalOffer(n, sdp, pool), prov)
  BY DEF LocalOffer, Negotiators, Copies, Copy, Fits, NegStates, Pools
<1>2. RemoteOffer(n, sdp, pool) \in Negotiators(Nat) /\ Fits(RemoteOffer(n, sdp, pool), prov)
  BY DEF RemoteOffer, Negotiators, Copies, Copy, Fits, NegStates, Pools
<1>3. RemoteAnswer(n, sdp, pool) \in Negotiators(Nat) /\ Fits(RemoteAnswer(n, sdp, pool), prov)
  BY DEF RemoteAnswer, Negotiators, Copies, Copy, Fits, NegStates, Pools
<1>4. LocalAnswer(n, sdp, pool) \in Negotiators(Nat) /\ Fits(LocalAnswer(n, sdp, pool), prov)
  <2> DEFINE first == IF n.initial = "none" THEN pool ELSE n.initial
  <2>1. /\ n.initial \in Pools \cup {"none", "stale"} /\ pool \in Pools
        /\ Copy(sdp, pool) \in Copies(Nat) /\ Copy(sdp, pool).pool = pool
    BY DEF Negotiators, Copies, Copy, Pools
  <2>2. first \in Pools \cup {"none", "stale"}
    BY <2>1
  <2>3. LocalAnswer(n, sdp, pool) = [n EXCEPT !.state = "WAIT_NEGO", !.local = Copy(sdp, pool),
                                              !.initial = first]
    BY DEF LocalAnswer
  <2> HIDE DEF first
  <2>4. LocalAnswer(n, sdp, pool) \in Negotiators(Nat)
    BY <2>1, <2>2, <2>3 DEF Negotiators, NegStates
  <2>5. /\ LocalAnswer(n, sdp, pool).local = Copy(sdp, pool)
        /\ LocalAnswer(n, sdp, pool).remote = n.remote
        /\ LocalAnswer(n, sdp, pool).active_local = n.active_local
        /\ LocalAnswer(n, sdp, pool).active_remote = n.active_remote
    BY <2>3 DEF Negotiators
  <2>6. QED
    BY <2>1, <2>4, <2>5 DEF Fits
<1>5. CancelOffer(n) \in Negotiators(Nat) /\ Fits(CancelOffer(n), prov)
  <2>1. Settled(n) \in Negotiators(Nat) /\ Fits(Settled(n), prov)
    <3>1. NoCopy \in Copies(Nat) /\ NoCopy.pool = "none"
      BY DEF NoCopy, Copies, Copy, Pools
    <3>2. Settled(n) \in Negotiators(Nat)
      BY <3>1 DEF Settled, Negotiators, NegStates
    <3>3. /\ Settled(n).local.pool = "none" /\ Settled(n).remote.pool = "none"
          /\ Settled(n).active_local = n.active_local
          /\ Settled(n).active_remote = n.active_remote
      BY <3>1 DEF Settled, Negotiators
    <3>4. QED
      BY <3>2, <3>3 DEF Fits
  <2>2. QED
    BY <2>1 DEF CancelOffer
<1>6. QED
  BY <1>1, <1>2, <1>3, <1>4, <1>5

\* pjmedia_sdp_neg_send_local_offer: so does the active description that is
\* offered again.
LEMMA ActiveOfferFits ==
  ASSUME NEW n \in Negotiators(Nat), NEW prov \in {"A", "B"}, Fits(n, prov)
  PROVE  ActiveOffer(n, prov) \in Negotiators(Nat) /\ Fits(ActiveOffer(n, prov), prov)
<1>1. n.active_local.sdp \in Nat
  BY DEF Negotiators, Copies
<1>2. QED
  BY <1>1 DEF ActiveOffer, Negotiators, Copies, Copy, Fits, NegStates, Pools

\* pj_pool_reset loses the copies in the pool, and no others.
LEMMA PoolResetLoses ==
  ASSUME NEW n \in Negotiators(Nat), NEW pool \in {"A", "B"}
  PROVE  LET m == PoolReset(n, pool)
             After(p) == IF p = pool THEN "stale" ELSE p
         IN  /\ m \in Negotiators(Nat)
             /\ m.local.pool = After(n.local.pool)
             /\ m.remote.pool = After(n.remote.pool)
             /\ m.active_local.pool = After(n.active_local.pool)
             /\ m.active_remote.pool = After(n.active_remote.pool)
<1> DEFINE A(copy) == IF copy.pool = pool THEN [copy EXCEPT !.pool = "stale"] ELSE copy
<1>1. ASSUME NEW c \in Copies(Nat)
      PROVE  A(c) \in Copies(Nat) /\ A(c).pool = IF c.pool = pool THEN "stale" ELSE c.pool
  BY DEF Copies
<1> DEFINE first == IF n.initial = pool THEN "stale" ELSE n.initial
<1>2. PoolReset(n, pool) =
        [n EXCEPT !.local = A(n.local), !.remote = A(n.remote),
                  !.active_local = A(n.active_local), !.active_remote = A(n.active_remote),
                  !.initial = first]
  BY DEF PoolReset, Negotiators
<1>3. /\ n.local \in Copies(Nat) /\ n.remote \in Copies(Nat)
      /\ n.active_local \in Copies(Nat) /\ n.active_remote \in Copies(Nat)
      /\ first \in Pools \cup {"none", "stale"}
  BY DEF Negotiators
<1> HIDE DEF A, first
<1>4. PoolReset(n, pool) \in Negotiators(Nat)
  <2>1. /\ A(n.local) \in Copies(Nat) /\ A(n.remote) \in Copies(Nat)
        /\ A(n.active_local) \in Copies(Nat) /\ A(n.active_remote) \in Copies(Nat)
    BY <1>1, <1>3
  <2>2. QED
    BY <1>2, <1>3, <2>1 DEF Negotiators
<1>5. LET m == PoolReset(n, pool)
      IN  /\ m.local = A(n.local) /\ m.remote = A(n.remote)
          /\ m.active_local = A(n.active_local) /\ m.active_remote = A(n.active_remote)
  BY <1>2 DEF Negotiators
<1>6. QED
  BY <1>1, <1>3, <1>4, <1>5

\* A successful negotiation moves what was agreed on to the provisional pool, which
\* becomes the active one, and the other one can be emptied; so can the
\* provisional pool after a negotiation that failed.
LEMMA NegotiationFits ==
  ASSUME NEW n \in Negotiators(Nat), NEW prov \in {"A", "B"}, Fits(n, prov)
  PROVE  LET m == PoolReset(NegotiateSdp(n, TRUE, prov), Other(prov))
             k == PoolReset(NegotiateSdp(n, FALSE, prov), prov)
         IN  /\ m \in Negotiators(Nat) /\ Fits(m, Other(prov))
             /\ k \in Negotiators(Nat) /\ Fits(k, prov)
<1> DEFINE m == NegotiateSdp(n, TRUE, prov)
           k == NegotiateSdp(n, FALSE, prov)
<1>1. /\ m \in Negotiators(Nat)
      /\ m.local.pool = "none" /\ m.remote.pool = "none"
      /\ m.active_local.pool = prov /\ m.active_remote.pool = n.remote.pool
  BY DEF NegotiateSdp, Settled, NoCopy, Negotiators, Copies, Copy, NegStates, Pools
<1>2. /\ k \in Negotiators(Nat)
      /\ k.local.pool = "none" /\ k.remote.pool = "none"
      /\ k.active_local.pool = n.active_local.pool /\ k.active_remote.pool = n.active_remote.pool
  BY DEF NegotiateSdp, Settled, NoCopy, Negotiators, Copies, Copy, NegStates, Pools
<1>3. Other(prov) \in {"A", "B"} /\ Other(prov) # prov /\ Other(Other(prov)) = prov
  BY DEF Other
<1> HIDE DEF m, k
<1>4. /\ PoolReset(m, Other(prov)) \in Negotiators(Nat)
      /\ Fits(PoolReset(m, Other(prov)), Other(prov))
  BY <1>1, <1>3, PoolResetLoses DEF Fits
<1>5. PoolReset(k, prov) \in Negotiators(Nat) /\ Fits(PoolReset(k, prov), prov)
  BY <1>2, <1>3, PoolResetLoses DEF Fits
<1>6. QED
  BY <1>4, <1>5 DEF m, k

-----------------------------------------------------------------------------
(* Offers and answers *)

\* Nothing is done.
LEMMA MediaRefl ==
  ASSUME NEW w, Sound(w)
  PROVE  Media(w, w)
BY DEF Media

\* One thing is done after another.
LEMMA MediaTrans ==
  ASSUME NEW w, NEW v, NEW x, Media(w, v), Media(v, x)
  PROVE  Media(w, x)
BY DEF Media

\* What there is in a sound world.
LEMMA SoundParts ==
  ASSUME NEW w, Sound(w)
  PROVE  /\ w \in Worlds /\ Len(w.tsx) \in Nat
         /\ w.tsx \in Seq(Transactions(Nat, Nat)) /\ w.sdps \in Nat
         /\ \A u \in Ends : /\ w.inv[u] \in Sessions(Nat, Nat) /\ w.inv[u].prov \in {"A", "B"}
                            /\ w.inv[u].invite_tsx \in 0..Len(w.tsx)
                            /\ w.neg[u] \in Negotiators(Nat) /\ Fits(w.neg[u], w.inv[u].prov)
                            /\ w.neg[u].local.sdp \in Nat /\ w.neg[u].active_local.sdp \in Nat
         /\ \A t \in 1..Len(w.tsx) : /\ w.tsx[t] \in Transactions(Nat, Nat)
                                     /\ w.tsx[t].sdp \in Nat /\ w.tsx[t].body \in Nat
                                     /\ w.tsx[t].from \in Ends /\ Client(w, t) \in Ends
                                     /\ Server(w, t) \in Ends /\ w.tsx[t].status \in Nat
<1>1. /\ w \in Worlds /\ w.tsx \in Seq(Transactions(Nat, Nat)) /\ w.sdps \in Nat
      /\ w.inv \in [Ends -> Sessions(Nat, Nat)] /\ w.neg \in [Ends -> Negotiators(Nat)]
  BY DEF Sound, Typed, Worlds
<1>2. ASSUME NEW u \in Ends
      PROVE  /\ w.inv[u] \in Sessions(Nat, Nat) /\ w.inv[u].prov \in {"A", "B"}
             /\ w.inv[u].invite_tsx \in 0..Len(w.tsx)
             /\ w.neg[u] \in Negotiators(Nat) /\ Fits(w.neg[u], w.inv[u].prov)
             /\ w.neg[u].local.sdp \in Nat /\ w.neg[u].active_local.sdp \in Nat
  <2>1. w.inv[u] \in Sessions(Nat, Nat) /\ w.neg[u] \in Negotiators(Nat)
    BY <1>1
  <2>2. w.inv[u].prov \in {"A", "B"}
    BY <2>1 DEF Sessions
  <2>3. w.neg[u].local.sdp \in Nat /\ w.neg[u].active_local.sdp \in Nat
    BY <2>1 DEF Negotiators, Copies
  <2>4. QED
    BY <2>1, <2>2, <2>3 DEF Sound, Typed, Pooled
<1>3. ASSUME NEW t \in 1..Len(w.tsx)
      PROVE  /\ w.tsx[t] \in Transactions(Nat, Nat)
             /\ w.tsx[t].sdp \in Nat /\ w.tsx[t].body \in Nat
             /\ w.tsx[t].from \in Ends /\ Client(w, t) \in Ends
             /\ Server(w, t) \in Ends /\ w.tsx[t].status \in Nat
  <2>1. w.tsx[t] \in Transactions(Nat, Nat)
    BY <1>1
  <2>2. /\ w.tsx[t].sdp \in Nat /\ w.tsx[t].body \in Nat /\ w.tsx[t].status \in Nat
        /\ w.tsx[t].from \in Ends
    BY <2>1 DEF Transactions
  <2>3. QED
    BY <2>1, <2>2 DEF Client, Server, Peer, Ends
<1>4. QED
  BY <1>1, <1>2, <1>3

\* A negotiator changes and keeps to its pools.
LEMMA PutNegMedia ==
  ASSUME NEW w, Sound(w), NEW u \in Ends, NEW n \in Negotiators(Nat), Fits(n, w.inv[u].prov)
  PROVE  /\ Media(w, [w EXCEPT !.neg[u] = n])
         /\ [w EXCEPT !.neg[u] = n].neg[u] = n
<1> DEFINE v == [w EXCEPT !.neg[u] = n]
<1>1. w \in Worlds
  BY SoundParts
<1>2. /\ v \in Worlds
      /\ v.neg[u] = n /\ \A x \in Ends \ {u} : v.neg[x] = w.neg[x]
      /\ v.inv = w.inv /\ v.tsx = w.tsx /\ v.acks = w.acks /\ v.sdps = w.sdps
  BY <1>1, PutNeg
<1> HIDE DEF v
<1>3. Sound(v)
  BY <1>2 DEF Sound, Typed, Pooled
<1>4. QED
  BY <1>2, <1>3 DEF Media, v

\* Descriptions are made.
LEMMA PutSdpsMedia ==
  ASSUME NEW w, Sound(w), NEW k \in Nat
  PROVE  /\ Media(w, [w EXCEPT !.sdps = k])
         /\ [w EXCEPT !.sdps = k].neg = w.neg
<1> DEFINE v == [w EXCEPT !.sdps = k]
<1>1. w \in Worlds
  BY SoundParts
<1>2. /\ v \in Worlds
      /\ v.inv = w.inv /\ v.neg = w.neg /\ v.tsx = w.tsx /\ v.acks = w.acks
  BY <1>1 DEF Worlds
<1> HIDE DEF v
<1>3. Sound(v)
  BY <1>2 DEF Sound, Typed, Pooled
<1>4. QED
  BY <1>2, <1>3 DEF Media, v

\* A transaction changes in what the course of a call does not depend on.
LEMMA PutTsxMedia ==
  ASSUME NEW w, Sound(w), NEW t \in 1..Len(w.tsx), NEW x \in Transactions(Nat, Nat),
         x.method = w.tsx[t].method, x.from = w.tsx[t].from, x.of = w.tsx[t].of,
         x.client = w.tsx[t].client, x.server = w.tsx[t].server, x.status = w.tsx[t].status,
         x.code = w.tsx[t].code
  PROVE  /\ Media(w, [w EXCEPT !.tsx[t] = x])
         /\ [w EXCEPT !.tsx[t] = x].neg = w.neg
         /\ [w EXCEPT !.tsx[t] = x].inv = w.inv
         /\ [w EXCEPT !.tsx[t] = x].sdps = w.sdps
<1> DEFINE v == [w EXCEPT !.tsx[t] = x]
<1>1. w \in Worlds
  BY SoundParts
<1>2. /\ v \in Worlds /\ Len(v.tsx) = Len(w.tsx)
      /\ v.tsx[t] = x /\ \A i \in 1..Len(w.tsx) \ {t} : v.tsx[i] = w.tsx[i]
      /\ v.neg = w.neg /\ v.inv = w.inv /\ v.acks = w.acks /\ v.sdps = w.sdps
  BY <1>1, PutTsx
<1> HIDE DEF v
<1>3. Sound(v)
  BY <1>2 DEF Sound, Typed, Pooled
<1>4. QED
  BY <1>2, <1>3 DEF Media, v

\* The marks sdp_done of a transaction's two sides, and a timeout that is set.
LEMMA MarksMedia ==
  ASSUME NEW w, Sound(w), NEW t \in 1..Len(w.tsx), NEW b \in BOOLEAN
  PROVE  /\ Media(w, [w EXCEPT !.tsx[t].done = b]) /\ Media(w, [w EXCEPT !.tsx[t].answered = b])
         /\ Media(w, [w EXCEPT !.tsx[t].expires = b])
         /\ [w EXCEPT !.tsx[t].done = b].neg = w.neg
         /\ [w EXCEPT !.tsx[t].answered = b].neg = w.neg
         /\ [w EXCEPT !.tsx[t].expires = b].neg = w.neg
<1> DEFINE x == [w.tsx[t] EXCEPT !.done = b]
           y == [w.tsx[t] EXCEPT !.answered = b]
           z == [w.tsx[t] EXCEPT !.expires = b]
<1>1. w.tsx[t] \in Transactions(Nat, Nat)
  BY SoundParts
<1>2. /\ x \in Transactions(Nat, Nat) /\ y \in Transactions(Nat, Nat)
      /\ z \in Transactions(Nat, Nat)
      /\ \A q \in {x, y, z} :
            /\ q.method = w.tsx[t].method /\ q.from = w.tsx[t].from /\ q.of = w.tsx[t].of
            /\ q.client = w.tsx[t].client /\ q.server = w.tsx[t].server
            /\ q.status = w.tsx[t].status /\ q.code = w.tsx[t].code
  BY <1>1 DEF Transactions
<1> HIDE DEF x, y, z
<1>3. /\ Media(w, [w EXCEPT !.tsx[t] = x]) /\ [w EXCEPT !.tsx[t] = x].neg = w.neg
      /\ Media(w, [w EXCEPT !.tsx[t] = y]) /\ [w EXCEPT !.tsx[t] = y].neg = w.neg
      /\ Media(w, [w EXCEPT !.tsx[t] = z]) /\ [w EXCEPT !.tsx[t] = z].neg = w.neg
  BY <1>2, PutTsxMedia
<1>4. QED
  BY <1>3 DEF x, y, z

\* inv_negotiate_sdp: the pools are swapped.
LEMMA NegotiateMedia ==
  ASSUME NEW w, Sound(w), NEW u \in Ends, NEW fits \in BOOLEAN
  PROVE  Media(w, Negotiate(w, u, fits))
<1> DEFINE prov   == w.inv[u].prov
           m == PoolReset(NegotiateSdp(w.neg[u], TRUE, prov), Other(prov))
           k == PoolReset(NegotiateSdp(w.neg[u], FALSE, prov), prov)
           r == [w.inv[u] EXCEPT !.prov = Other(prov)]
           a == [w EXCEPT !.neg[u] = m]
           v == [a EXCEPT !.inv[u] = r]
<1>1. /\ w \in Worlds /\ w.inv[u] \in Sessions(Nat, Nat) /\ prov \in {"A", "B"}
      /\ w.neg[u] \in Negotiators(Nat) /\ Fits(w.neg[u], prov)
  BY SoundParts
<1>2. /\ m \in Negotiators(Nat) /\ Fits(m, Other(prov))
      /\ k \in Negotiators(Nat) /\ Fits(k, prov)
  BY <1>1, NegotiationFits
<1>3. CASE fits = FALSE
  <2>1. Negotiate(w, u, fits) = [w EXCEPT !.neg[u] = k]
    BY <1>3 DEF Negotiate
  <2> HIDE DEF k
  <2>2. QED
    BY <1>1, <1>2, <2>1, PutNegMedia
<1>4. CASE fits = TRUE
  <2>1. r \in Sessions(Nat, Nat) /\ r.prov = Other(prov)
        /\ r.state = w.inv[u].state /\ r.invite_tsx = w.inv[u].invite_tsx
        /\ r.remote_cseq = w.inv[u].remote_cseq
    <3>1. Other(prov) \in {"A", "B"}
      BY DEF Other
    <3>2. QED
      BY <1>1, <3>1 DEF Sessions
  <2>2. ASSUME a.inv[u] = w.inv[u]
        PROVE  Negotiate(w, u, fits) = v
    <3>1. Negotiate(w, u, TRUE) = [a EXCEPT !.inv[u].prov = Other(prov)]
      BY DEF Negotiate, Other
    <3>2. [a EXCEPT !.inv[u].prov = Other(prov)] = v
      BY <2>2
    <3>3. QED
      BY <1>4, <3>1, <3>2
  <2> HIDE DEF m, r
  <2>3. /\ a \in Worlds
        /\ a.neg[u] = m /\ \A x \in Ends \ {u} : a.neg[x] = w.neg[x]
        /\ a.inv = w.inv /\ a.tsx = w.tsx /\ a.acks = w.acks
    BY <1>1, <1>2, PutNeg
  <2> HIDE DEF a
  <2>4. /\ v \in Worlds
        /\ v.inv[u] = r /\ \A x \in Ends \ {u} : v.inv[x] = w.inv[x]
        /\ v.neg = a.neg /\ v.tsx = w.tsx /\ v.acks = w.acks
    BY <2>1, <2>3, PutInv
  <2> HIDE DEF v
  <2>5. Sound(v)
    BY <1>2, <2>1, <2>3, <2>4 DEF Sound, Typed, Pooled
  <2>6. Negotiate(w, u, fits) = v
    BY <2>2, <2>3
  <2>7. QED
    BY <2>1, <2>4, <2>5, <2>6 DEF Media
<1>5. QED
  BY <1>3, <1>4

\* pjmedia_sdp_neg_set_local_answer with a description that is new.
LEMMA AnswerOfferMedia ==
  ASSUME NEW w, Sound(w), NEW u \in Ends
  PROVE  Media(w, AnswerOffer(w, u))
<1> DEFINE n == LocalAnswer(w.neg[u], w.sdps + 1, w.inv[u].prov)
           a == [w EXCEPT !.neg[u] = n]
<1>1. /\ w.sdps + 1 \in Nat /\ w.inv[u].prov \in {"A", "B"}
      /\ w.neg[u] \in Negotiators(Nat) /\ Fits(w.neg[u], w.inv[u].prov)
  BY SoundParts
<1>2. n \in Negotiators(Nat) /\ Fits(n, w.inv[u].prov)
  BY <1>1, NegotiatorFits
<1>3. AnswerOffer(w, u) = [a EXCEPT !.sdps = w.sdps + 1]
  <2>1. a.sdps = w.sdps
    BY SoundParts DEF Worlds
  <2>2. QED
    BY <2>1 DEF AnswerOffer
<1> HIDE DEF n
<1>4. Media(w, a)
  BY <1>2, PutNegMedia
<1> HIDE DEF a
<1>5. Media(a, [a EXCEPT !.sdps = w.sdps + 1])
  BY <1>1, <1>4, PutSdpsMedia DEF Media
<1>6. QED
  BY <1>3, <1>4, <1>5, MediaTrans

\* on_rx_offer, whatever the application does with the offer.
LEMMA RxOfferMedia ==
  ASSUME NEW w, Sound(w), NEW u \in Ends, NEW sdp \in Nat, NEW choice
  PROVE  Media(w, RxOffer(w, u, sdp, choice))
<1>1. /\ w.inv[u].prov \in {"A", "B"}
      /\ w.neg[u] \in Negotiators(Nat) /\ Fits(w.neg[u], w.inv[u].prov)
  BY SoundParts
<1> DEFINE pool == IF w.neg[u].state = "NULL" THEN "long" ELSE w.inv[u].prov
           n == RemoteOffer(w.neg[u], sdp, pool)
           a == [w EXCEPT !.neg[u] = n]
<1>2. n \in Negotiators(Nat) /\ Fits(n, w.inv[u].prov)
  BY <1>1, NegotiatorFits
<1>3. RxOffer(w, u, sdp, choice) = IF choice = "decline" THEN a ELSE AnswerOffer(a, u)
  BY DEF RxOffer
<1> HIDE DEF n
<1>4. Media(w, a)
  BY <1>2, PutNegMedia
<1> HIDE DEF a
<1>5. Media(a, AnswerOffer(a, u))
  BY <1>4, AnswerOfferMedia DEF Media
<1>6. QED
  BY <1>3, <1>4, <1>5, MediaTrans

\* An answer is negotiated.
LEMMA RxAnswerMedia ==
  ASSUME NEW w, Sound(w), NEW u \in Ends, NEW sdp \in Nat
  PROVE  Media(w, RxAnswer(w, u, sdp))
<1>1. /\ w.inv[u].prov \in {"A", "B"}
      /\ w.neg[u] \in Negotiators(Nat) /\ Fits(w.neg[u], w.inv[u].prov)
  BY SoundParts
<1> DEFINE n == RemoteAnswer(w.neg[u], sdp, w.inv[u].prov)
           a == [w EXCEPT !.neg[u] = n]
<1>2. n \in Negotiators(Nat) /\ Fits(n, w.inv[u].prov)
  BY <1>1, NegotiatorFits
<1>3. RxAnswer(w, u, sdp) = Negotiate(a, u, TRUE)
  BY DEF RxAnswer
<1> HIDE DEF n
<1>4. Media(w, a)
  BY <1>2, PutNegMedia
<1> HIDE DEF a
<1>5. Sound(a) /\ \A fits \in BOOLEAN : Media(a, Negotiate(a, u, fits))
  BY <1>4, NegotiateMedia DEF Media
<1>6. Media(a, Negotiate(a, u, TRUE))
  BY <1>5
<1>7. QED
  BY <1>3, <1>4, <1>6, MediaTrans

\* inv_check_sdp_in_incoming_msg at either side of a transaction.
LEMMA CheckSdpMedia ==
  ASSUME NEW w, Sound(w), NEW t \in 1..Len(w.tsx), NEW sdp \in Nat, NEW choice
  PROVE  /\ Media(w, CheckSdpClient(w, t, sdp, choice))
         /\ Media(w, CheckSdpServer(w, t, sdp, choice))
<1>1. Client(w, t) \in Ends /\ Server(w, t) \in Ends
  BY SoundParts
<1>2. ASSUME NEW u \in Ends
      PROVE  /\ Media(w, [RxAnswer(w, u, sdp) EXCEPT !.tsx[t].done = TRUE])
             /\ Media(w, [RxAnswer(w, u, sdp) EXCEPT !.tsx[t].answered = TRUE])
  <2> DEFINE a == RxAnswer(w, u, sdp)
  <2>1. Media(w, a)
    BY RxAnswerMedia
  <2> HIDE DEF a
  <2>2. t \in 1..Len(a.tsx) /\ Sound(a)
    BY <2>1 DEF Media
  <2>3. Media(a, [a EXCEPT !.tsx[t].done = TRUE]) /\ Media(a, [a EXCEPT !.tsx[t].answered = TRUE])
    BY <2>2, MarksMedia
  <2>4. QED
    BY <2>1, <2>3, MediaTrans DEF a
<1>3. Media(w, CheckSdpClient(w, t, sdp, choice))
  BY <1>1, <1>2, MediaRefl, RxOfferMedia DEF CheckSdpClient
<1>4. Media(w, CheckSdpServer(w, t, sdp, choice))
  BY <1>1, <1>2, MediaRefl, RxOfferMedia DEF CheckSdpServer
<1>5. QED
  BY <1>3, <1>4

\* pjmedia_sdp_neg_cancel_offer.
LEMMA WithdrawMedia ==
  ASSUME NEW w, Sound(w), NEW u \in Ends
  PROVE  /\ Media(w, Withdraw(w, u))
         /\ Media(w, [w EXCEPT !.neg[u] = CancelOffer(@)])
<1> DEFINE n == CancelOffer(w.neg[u])
<1>1. /\ w.inv[u].prov \in {"A", "B"}
      /\ w.neg[u] \in Negotiators(Nat) /\ Fits(w.neg[u], w.inv[u].prov)
  BY SoundParts
<1>2. n \in Negotiators(Nat) /\ Fits(n, w.inv[u].prov)
  BY <1>1, NegotiatorFits
<1> HIDE DEF n
<1>3. Media(w, [w EXCEPT !.neg[u] = n])
  BY <1>2, PutNegMedia
<1>4. QED
  BY <1>3, MediaRefl DEF Withdraw, n

-----------------------------------------------------------------------------
(* The course of a call *)

\* What concerns the media only is tame.
LEMMA MediaTame ==
  ASSUME NEW w, Sound(w), NEW v, Media(w, v)
  PROVE  Tame(w, v)
<1>1. Len(w.tsx) \in Nat /\ Len(v.tsx) \in Nat
  BY SoundParts DEF Media
<1>2. QED
  BY <1>1 DEF Media, Tame

\* Two tame changes, one after the other, are tame.
LEMMA TameTrans ==
  ASSUME NEW w, Sound(w), NEW v, NEW x, Tame(w, v), Tame(v, x)
  PROVE  Tame(w, x)
<1>1. Len(w.tsx) \in Nat /\ Len(v.tsx) \in Nat /\ Len(x.tsx) \in Nat
  BY SoundParts DEF Tame
<1>2. \A t \in 1..Len(w.tsx) : t \in 1..Len(v.tsx) /\ t \in 1..Len(x.tsx)
  BY <1>1 DEF Tame
<1>3. \A t \in 1..Len(v.tsx) : t \in 1..Len(x.tsx) /\ (t \in 1..Len(w.tsx) \/ t > Len(w.tsx))
  BY <1>1 DEF Tame
<1>4. Sound(x) /\ Len(x.tsx) >= Len(w.tsx)
  BY <1>1 DEF Tame
<1>5. ASSUME NEW u \in Ends
      PROVE  /\ \/ x.inv[u].state \in {w.inv[u].state, "DISCONNECTED"}
                \/ w.inv[u].state = "CONNECTING" /\ x.inv[u].state = "CONFIRMED"
             /\ x.inv[u].state \in Ringing => x.inv[u].invite_tsx = w.inv[u].invite_tsx
  <2>1. /\ \/ v.inv[u].state \in {w.inv[u].state, "DISCONNECTED"}
           \/ w.inv[u].state = "CONNECTING" /\ v.inv[u].state = "CONFIRMED"
        /\ v.inv[u].state \in Ringing => v.inv[u].invite_tsx = w.inv[u].invite_tsx
    BY DEF Tame
  <2>2. /\ \/ x.inv[u].state \in {v.inv[u].state, "DISCONNECTED"}
           \/ v.inv[u].state = "CONNECTING" /\ x.inv[u].state = "CONFIRMED"
        /\ x.inv[u].state \in Ringing => x.inv[u].invite_tsx = v.inv[u].invite_tsx
    BY DEF Tame
  <2>3. QED
    BY <2>1, <2>2 DEF Ringing
<1>6. ASSUME NEW t \in 1..Len(w.tsx)
      PROVE  /\ x.tsx[t].method = w.tsx[t].method /\ x.tsx[t].from = w.tsx[t].from
             /\ x.tsx[t].of = w.tsx[t].of
             /\ x.tsx[t].server = "proceeding" => w.tsx[t].server = "proceeding"
  BY <1>2 DEF Tame
<1>7. ASSUME NEW t \in 1..Len(x.tsx), t > Len(w.tsx)
      PROVE  /\ x.tsx[t].server # "proceeding" /\ x.tsx[t].method # "INVITE"
             /\ x.tsx[t].method = "CANCEL" => x.tsx[t].from = "caller"
  <2>1. CASE t \in 1..Len(v.tsx)
    <3>1. /\ v.tsx[t].server # "proceeding" /\ v.tsx[t].method # "INVITE"
          /\ v.tsx[t].method = "CANCEL" => v.tsx[t].from = "caller"
      BY <1>7, <2>1 DEF Tame
    <3>2. /\ x.tsx[t].method = v.tsx[t].method /\ x.tsx[t].from = v.tsx[t].from
          /\ x.tsx[t].server = "proceeding" => v.tsx[t].server = "proceeding"
      BY <2>1 DEF Tame
    <3>3. QED
      BY <3>1, <3>2
  <2>2. CASE t > Len(v.tsx)
    BY <2>2 DEF Tame
  <2>3. QED
    BY <1>1, <2>1, <2>2
<1>8. ASSUME Len(w.tsx) > 0
      PROVE  /\ \/ x.tsx[1].client = w.tsx[1].client
                \/ /\ x.tsx[1].client # "calling"
                   /\ x.inv["caller"].state \notin {"CALLING", "EARLY"}
             /\ \/ x.tsx[1].server = w.tsx[1].server
                \/ /\ x.tsx[1].server # "proceeding"
                   /\ x.inv["callee"].state \notin {"INCOMING", "EARLY"}
             /\ \/ x.tsx[1].status \in {w.tsx[1].status} \cup (Nat \ 200..299)
                \/ x.inv["callee"].state # "NULL"
  <2>1. Len(v.tsx) > 0 /\ "caller" \in Ends /\ "callee" \in Ends
    <3>1. 1 \in 1..Len(w.tsx)
      BY <1>1, <1>8
    <3>2. 1 \in 1..Len(v.tsx)
      BY <1>2, <3>1
    <3>3. QED
      BY <1>1, <3>2 DEF Ends
  <2>2. \/ x.tsx[1].client = w.tsx[1].client
        \/ x.tsx[1].client # "calling" /\ x.inv["caller"].state \notin {"CALLING", "EARLY"}
    BY <1>8, <2>1 DEF Tame
  <2>3. \/ x.tsx[1].server = w.tsx[1].server
        \/ x.tsx[1].server # "proceeding" /\ x.inv["callee"].state \notin {"INCOMING", "EARLY"}
    BY <1>8, <2>1 DEF Tame
  <2>4. \/ x.tsx[1].status \in {w.tsx[1].status} \cup (Nat \ 200..299)
        \/ x.inv["callee"].state # "NULL"
    BY <1>8, <2>1 DEF Tame
  <2>5. QED
    BY <2>2, <2>3, <2>4
<1>9. QED
  BY <1>4, <1>5, <1>6, <1>7, <1>8 DEF Tame

\* A tame change of a call that was begun keeps its course.
LEMMA TameCourse ==
  ASSUME NEW w, Sound(w), Course(w), Len(w.tsx) > 0, NEW v, Tame(w, v)
  PROVE  Course(v) /\ StayOver(w, v) /\ Len(v.tsx) > 0
<1>1. /\ Len(w.tsx) \in Nat /\ Len(v.tsx) \in Nat /\ Len(v.tsx) >= Len(w.tsx)
      /\ "caller" \in Ends /\ "callee" \in Ends
  BY SoundParts DEF Tame, Ends
<1>2. 1 \in 1..Len(w.tsx) /\ \A t \in 1..Len(v.tsx) : t \in 1..Len(w.tsx) \/ t > Len(w.tsx)
  BY <1>1
<1>3. v.inv["caller"].state # "NULL"
  BY <1>1 DEF Tame, Course
<1>4. v.tsx[1].method = "INVITE" /\ v.tsx[1].from = "caller"
  BY <1>2 DEF Tame, Course
<1>5. ASSUME NEW t \in 1..Len(v.tsx)
      PROVE  /\ v.tsx[t].server = "proceeding" => t = 1
             /\ v.tsx[t].method = "CANCEL" => v.tsx[t].from = "caller"
  BY <1>2 DEF Tame, Course
<1>6. v.inv["caller"].state # "INCOMING" /\ v.inv["callee"].state # "CALLING"
  BY <1>1 DEF Tame, Course
<1>7. v.inv["caller"].state \in {"CALLING", "EARLY"} =>
        v.inv["caller"].invite_tsx = 1 /\ v.tsx[1].client = "calling"
  BY <1>1 DEF Tame, Course, Ringing
<1>8. v.tsx[1].client = "calling" =>
        v.inv["caller"].state \in {"CALLING", "EARLY", "DISCONNECTED"}
  BY <1>1 DEF Tame, Course
<1>9. v.inv["callee"].state \in {"INCOMING", "EARLY"} =>
        v.inv["callee"].invite_tsx = 1 /\ v.tsx[1].server = "proceeding"
  BY <1>1 DEF Tame, Course, Ringing
<1>10. ASSUME NEW t \in 2..Len(v.tsx), v.tsx[t].method = "INVITE"
       PROVE  t \in 2..Len(w.tsx) /\ w.tsx[t].method = "INVITE" /\ v.tsx[t].from = w.tsx[t].from
  <2>1. t \in 1..Len(v.tsx) /\ ~(t > Len(w.tsx))
    BY <1>1, <1>10 DEF Tame
  <2>2. t \in 2..Len(w.tsx) /\ t \in 1..Len(w.tsx)
    BY <1>1, <2>1
  <2>3. QED
    BY <1>10, <2>2 DEF Tame
<1>11. ASSUME v.inv["callee"].state = "NULL"
       PROVE  /\ v.inv["caller"].state \in {"NULL", "CALLING", "DISCONNECTED"}
              /\ v.tsx[1].server # "proceeding" /\ v.tsx[1].status \notin 200..299
              /\ \A t \in 2..Len(v.tsx) : v.tsx[t].method # "INVITE"
  <2>1. w.inv["callee"].state = "NULL"
    BY <1>1, <1>11 DEF Tame
  <2>2. v.inv["caller"].state \in {"NULL", "CALLING", "DISCONNECTED"}
    BY <1>1, <2>1 DEF Tame, Course
  <2>3. w.tsx[1].server # "proceeding" /\ w.tsx[1].status \notin 200..299
    BY <2>1 DEF Course
  <2>4. v.tsx[1].server # "proceeding"
    BY <1>2, <2>3 DEF Tame
  <2>5. v.tsx[1].status \in {w.tsx[1].status} \cup (Nat \ 200..299)
    BY <1>11 DEF Tame
  <2>6. \A t \in 2..Len(w.tsx) : w.tsx[t].method # "INVITE"
    BY <2>1 DEF Course
  <2>7. v.tsx[1].status \notin 200..299
    BY <2>3, <2>5
  <2>8. \A t \in 2..Len(v.tsx) : v.tsx[t].method # "INVITE"
    BY <1>10, <2>6
  <2>9. QED
    BY <2>2, <2>4, <2>7, <2>8
<1>12. ASSUME NEW u \in Ends, v.inv[u].state \in Ringing \cup {"NULL"},
              NEW t \in 2..Len(v.tsx), v.tsx[t].method = "INVITE"
       PROVE  v.tsx[t].from # u
  <2>1. w.inv[u].state \in Ringing \cup {"NULL"}
    BY <1>12 DEF Tame, Ringing
  <2>2. QED
    BY <1>10, <1>12, <2>1 DEF Course
<1>13. Course(v)
  BY <1>1, <1>3, <1>4, <1>5, <1>6, <1>7, <1>8, <1>9, <1>11, <1>12 DEF Course
<1>14. StayOver(w, v)
  BY DEF Tame, StayOver
<1>15. QED
  BY <1>1, <1>13, <1>14

-----------------------------------------------------------------------------
(* Requests and responses *)

\* pjsip_dlg_send_request adds a transaction, which is the invite_tsx if it is an
\* INVITE.
LEMMA SendRequestEffect ==
  ASSUME NEW w, Sound(w), NEW u \in Ends, NEW method \in {"INVITE", "UPDATE", "BYE", "CANCEL"},
         NEW sdp \in Nat, NEW of \in 0..Len(w.tsx), method = "CANCEL" => of > 0
  PROVE  LET v == SendRequest(w, u, method, sdp, of)
             n == Len(w.tsx) + 1
         IN  /\ Sound(v)
             /\ Len(v.tsx) = n
             /\ \A t \in 1..Len(w.tsx) : v.tsx[t] = w.tsx[t]
             /\ v.tsx[n].method = method /\ v.tsx[n].from = u /\ v.tsx[n].server = "none"
             /\ v.tsx[n].client = "calling" /\ v.tsx[n].status = 0
             /\ v.neg = w.neg /\ \A x \in Ends : v.inv[x].state = w.inv[x].state
             /\ \A x \in Ends \ {u} : v.inv[x] = w.inv[x]
             /\ v.inv[u].invite_tsx = IF method = "INVITE" THEN n ELSE w.inv[u].invite_tsx
<1> DEFINE n == Len(w.tsx) + 1
           q == [method |-> method, from |-> u, sdp |-> sdp, of |-> of,
                 client |-> "calling", code |-> 0, done |-> FALSE, expires |-> FALSE,
                 server |-> "none", status |-> 0, body |-> 0, answered |-> FALSE]
           s == Append(w.tsx, q)
           r == [w.inv[u] EXCEPT !.invite_tsx = IF method = "INVITE" THEN n
                                                ELSE w.inv[u].invite_tsx]
           a == [w EXCEPT !.tsx = s]
           v == [a EXCEPT !.inv[u] = r]
<1>1. /\ w \in Worlds /\ w.inv[u] \in Sessions(Nat, Nat) /\ Len(w.tsx) \in Nat
      /\ w.tsx \in Seq(Transactions(Nat, Nat)) /\ w.inv[u].invite_tsx \in 0..Len(w.tsx)
  BY SoundParts
<1>2. /\ q \in Transactions(Nat, Nat)
      /\ q.method = method /\ q.from = u /\ q.server = "none" /\ q.client = "calling"
      /\ q.status = 0 /\ q.of = of
  BY <1>1 DEF Transactions
<1>3. /\ r \in Sessions(Nat, Nat) /\ r.state = w.inv[u].state /\ r.prov = w.inv[u].prov
      /\ r.invite_tsx = IF method = "INVITE" THEN n ELSE w.inv[u].invite_tsx
  <2> DEFINE i == IF method = "INVITE" THEN n ELSE w.inv[u].invite_tsx
  <2>1. i \in Nat /\ r = [w.inv[u] EXCEPT !.invite_tsx = i]
    BY <1>1
  <2> HIDE DEF i, r
  <2>2. /\ r \in Sessions(Nat, Nat) /\ r.state = w.inv[u].state /\ r.prov = w.inv[u].prov
        /\ r.invite_tsx = i
    BY <1>1, <2>1 DEF Sessions
  <2>3. QED
    BY <2>2 DEF i
<1>4. ASSUME a.inv[u] = w.inv[u]
      PROVE  SendRequest(w, u, method, sdp, of) = v
  BY <1>4 DEF SendRequest
<1> HIDE DEF q, r
<1>5. s \in Seq(Transactions(Nat, Nat)) /\ Len(s) = n /\ s[n] = q
      /\ \A t \in 1..Len(w.tsx) : s[t] = w.tsx[t]
  BY <1>1, <1>2
<1> HIDE DEF s
<1>6. /\ a \in Worlds /\ a.tsx = s
      /\ a.inv = w.inv /\ a.neg = w.neg /\ a.acks = w.acks /\ a.sdps = w.sdps
  BY <1>1, <1>5 DEF Worlds
<1> HIDE DEF a
<1>7. /\ v \in Worlds
      /\ v.inv[u] = r /\ \A x \in Ends \ {u} : v.inv[x] = w.inv[x]
      /\ v.neg = w.neg /\ v.tsx = s /\ v.acks = w.acks
  BY <1>3, <1>6, PutInv
<1> HIDE DEF v
<1>8. Typed(v)
  <2>1. \A x \in Ends : v.inv[x].invite_tsx \in 0..n
    BY <1>1, <1>3, <1>7 DEF Sound, Typed
  <2>2. ASSUME NEW t \in 1..n, s[t].method = "CANCEL"
        PROVE  s[t].of \in 1..n
    <3>1. CASE t = n
      BY <1>1, <1>2, <1>5, <2>2, <3>1
    <3>2. CASE t \in 1..Len(w.tsx)
      <4>1. s[t] = w.tsx[t]
        BY <1>5, <3>2
      <4>2. s[t].of \in 1..Len(w.tsx)
        BY <2>2, <3>2, <4>1 DEF Sound, Typed
      <4>3. QED
        BY <1>1, <4>2
    <3>3. QED
      BY <1>1, <3>1, <3>2
  <2>3. \A ack \in v.acks : ack.t \in 1..n
    BY <1>1, <1>7 DEF Sound, Typed
  <2>4. QED
    BY <1>5, <1>7, <2>1, <2>2, <2>3 DEF Typed
<1>9. Pooled(v)
  BY <1>3, <1>7 DEF Sound, Pooled
<1>10. SendRequest(w, u, method, sdp, of) = v
  BY <1>4, <1>6
<1>11. QED
  BY <1>2, <1>3, <1>5, <1>7, <1>8, <1>9, <1>10 DEF Sound

\* A request other than an INVITE is tame.
LEMMA SendRequestTame ==
  ASSUME NEW w, Sound(w), NEW u \in Ends, NEW method \in {"UPDATE", "BYE", "CANCEL"},
         NEW sdp \in Nat, NEW of \in 0..Len(w.tsx),
         method = "CANCEL" => of > 0 /\ u = "caller"
  PROVE  Tame(w, SendRequest(w, u, method, sdp, of))
<1> DEFINE v == SendRequest(w, u, method, sdp, of)
           n == Len(w.tsx) + 1
<1>1. /\ Sound(v) /\ Len(v.tsx) = n
      /\ \A t \in 1..Len(w.tsx) : v.tsx[t] = w.tsx[t]
      /\ v.tsx[n].method = method /\ v.tsx[n].from = u /\ v.tsx[n].server = "none"
      /\ \A x \in Ends : v.inv[x].state = w.inv[x].state
      /\ \A x \in Ends : v.inv[x].invite_tsx = w.inv[x].invite_tsx
  <2>1. /\ method \in {"INVITE", "UPDATE", "BYE", "CANCEL"} /\ method # "INVITE"
        /\ method = "CANCEL" => of > 0
    OBVIOUS
  <2>2. Sound(v) /\ Len(v.tsx) = n
    BY <2>1, SendRequestEffect
  <2>3. /\ \A t \in 1..Len(w.tsx) : v.tsx[t] = w.tsx[t]
        /\ v.tsx[n].method = method /\ v.tsx[n].from = u /\ v.tsx[n].server = "none"
    BY <2>1, SendRequestEffect, SMTT(60)
  <2>4. \A x \in Ends : v.inv[x].state = w.inv[x].state
    BY <2>1, SendRequestEffect
  <2>5. v.inv[u].invite_tsx = w.inv[u].invite_tsx
    BY <2>1, SendRequestEffect
  <2>6. \A x \in Ends \ {u} : v.inv[x] = w.inv[x]
    BY <2>1, SendRequestEffect
  <2> HIDE DEF v, n
  <2>7. \A x \in Ends : v.inv[x].invite_tsx = w.inv[x].invite_tsx
    BY <2>5, <2>6
  <2>8. QED
    BY <2>2, <2>3, <2>4, <2>7
<1>2. Len(w.tsx) \in Nat
  BY SoundParts
<1> HIDE DEF v
<1>3. \A t \in 1..n : t > Len(w.tsx) => t = n
  BY <1>2
<1>4. Tame(w, v)
  <2>1. \A t \in 1..Len(v.tsx) : t > Len(w.tsx) =>
           /\ v.tsx[t].server # "proceeding" /\ v.tsx[t].method # "INVITE"
           /\ v.tsx[t].method = "CANCEL" => v.tsx[t].from = "caller"
    <3>1. /\ v.tsx[n].server # "proceeding" /\ v.tsx[n].method # "INVITE"
          /\ v.tsx[n].method = "CANCEL" => v.tsx[n].from = "caller"
      BY <1>1
    <3>2. QED
      BY <1>1, <1>3, <3>1
  <2>2. Len(v.tsx) >= Len(w.tsx) /\ (Len(w.tsx) > 0 => 1 \in 1..Len(w.tsx))
    BY <1>1, <1>2
  <2> HIDE DEF n
  <2>3. QED
    BY <1>1, <2>1, <2>2 DEF Tame
<1>5. QED
  BY <1>4 DEF v

\* A BYE is tame.
LEMMA SendByeTame ==
  ASSUME NEW w, Sound(w), NEW u \in Ends
  PROVE  Tame(w, SendBye(w, u)) /\ SendBye(w, u).inv[u].state = w.inv[u].state
<1>1. 0 \in 0..Len(w.tsx)
  BY SoundParts
<1>2. QED
  BY <1>1, SendRequestTame, SendRequestEffect DEF SendBye

\* A final response is tame, unless it takes the INVITE from an end that relies on it.
LEMMA SendResponseTame ==
  ASSUME NEW w, Sound(w), NEW t \in 1..Len(w.tsx), NEW status \in Nat, NEW body \in Nat,
         status >= 200,
         t = 1 => /\ w.inv["callee"].state \notin {"INCOMING", "EARLY"}
                  /\ status \notin 200..299 \/ w.inv["callee"].state # "NULL"
  PROVE  LET v == SendResponse(w, t, status, body)
         IN  /\ Tame(w, v) /\ v.inv = w.inv /\ v.neg = w.neg /\ v.acks = w.acks
             /\ Len(v.tsx) = Len(w.tsx) /\ v.tsx[t].server # "proceeding"
             /\ v.tsx[t].status = status
             /\ \A i \in 1..Len(w.tsx) \ {t} : v.tsx[i] = w.tsx[i]
<1> DEFINE v == SendResponse(w, t, status, body)
<1>1. w \in Worlds /\ w.tsx[t] \in Transactions(Nat, Nat) /\ Len(w.tsx) \in Nat
  BY SoundParts
<1>2. /\ v \in Worlds /\ Len(v.tsx) = Len(w.tsx)
      /\ \A i \in 1..Len(w.tsx) \ {t} : v.tsx[i] = w.tsx[i]
      /\ v.neg = w.neg /\ v.inv = w.inv /\ v.acks = w.acks /\ v.sdps = w.sdps
  BY <1>1, SendResponseEffect
<1>3. /\ v.tsx[t].method = w.tsx[t].method /\ v.tsx[t].from = w.tsx[t].from
      /\ v.tsx[t].of = w.tsx[t].of
      /\ v.tsx[t].client = w.tsx[t].client /\ v.tsx[t].status = status
  BY <1>1, SendResponseEffect
<1>4. v.tsx[t].server # "proceeding"
  BY <1>1, SendResponseEffect
<1> HIDE DEF v
<1>5. Sound(v)
  BY <1>2, <1>3 DEF Sound, Typed, Pooled
<1>6. \A i \in 1..Len(w.tsx) : /\ v.tsx[i].method = w.tsx[i].method
                               /\ v.tsx[i].from = w.tsx[i].from
                               /\ v.tsx[i].of = w.tsx[i].of
                               /\ v.tsx[i].client = w.tsx[i].client
                               /\ v.tsx[i].server = "proceeding" =>
                                     i # t /\ w.tsx[i].server = "proceeding"
  BY <1>2, <1>3, <1>4
<1>7. /\ \/ v.tsx[1].server = w.tsx[1].server
         \/ v.tsx[1].server # "proceeding" /\ w.inv["callee"].state \notin {"INCOMING", "EARLY"}
      /\ \/ v.tsx[1].status \in {w.tsx[1].status} \cup (Nat \ 200..299)
         \/ w.inv["callee"].state # "NULL"
  <2>1. 1 \in 1..Len(w.tsx)
    BY <1>1
  <2>2. CASE t = 1
    BY <1>2, <1>3, <1>4, <2>2
  <2>3. CASE t # 1
    BY <1>2, <2>1, <2>3
  <2>4. QED
    BY <2>2, <2>3
<1>8. Tame(w, v)
  <2>1. \A i \in 1..Len(v.tsx) : ~(i > Len(w.tsx))
    BY <1>1, <1>2
  <2>2. Len(w.tsx) > 0 => 1 \in 1..Len(w.tsx)
    BY <1>1
  <2>3. /\ Len(v.tsx) >= Len(w.tsx)
        /\ \A i \in 1..Len(w.tsx) : /\ v.tsx[i].method = w.tsx[i].method
                                    /\ v.tsx[i].from = w.tsx[i].from
                                    /\ v.tsx[i].of = w.tsx[i].of
        /\ \A i \in 1..Len(w.tsx) :
              v.tsx[i].server = "proceeding" => w.tsx[i].server = "proceeding"
    BY <1>1, <1>2, <1>6
  <2>4. ASSUME Len(w.tsx) > 0
        PROVE  /\ v.tsx[1].client = w.tsx[1].client
               /\ \/ v.tsx[1].server = w.tsx[1].server
                  \/ /\ v.tsx[1].server # "proceeding"
                     /\ v.inv["callee"].state \notin {"INCOMING", "EARLY"}
               /\ \/ v.tsx[1].status \in {w.tsx[1].status} \cup (Nat \ 200..299)
                  \/ v.inv["callee"].state # "NULL"
    BY <1>2, <1>6, <1>7, <2>2, <2>4
  <2>5. QED
    BY <1>2, <1>5, <2>1, <2>3, <2>4, Zenon DEF Tame
<1>9. QED
  BY <1>2, <1>3, <1>4, <1>8 DEF v

-----------------------------------------------------------------------------
(* Sessions *)

\* A session changes and keeps its provisional pool.
LEMMA PutInvSound ==
  ASSUME NEW w, Sound(w), NEW u \in Ends, NEW r \in Sessions(Nat, Nat),
         r.prov = w.inv[u].prov, r.invite_tsx \in 0..Len(w.tsx)
  PROVE  LET v == [w EXCEPT !.inv[u] = r]
         IN  /\ Sound(v) /\ v.inv[u] = r /\ \A x \in Ends \ {u} : v.inv[x] = w.inv[x]
             /\ v.neg = w.neg /\ v.tsx = w.tsx /\ v.acks = w.acks
<1> DEFINE v == [w EXCEPT !.inv[u] = r]
<1>1. w \in Worlds
  BY SoundParts
<1>2. /\ v \in Worlds
      /\ v.inv[u] = r /\ \A x \in Ends \ {u} : v.inv[x] = w.inv[x]
      /\ v.neg = w.neg /\ v.tsx = w.tsx /\ v.acks = w.acks
  BY <1>1, PutInv
<1> HIDE DEF v
<1>3. Sound(v)
  BY <1>2 DEF Sound, Typed, Pooled
<1>4. QED
  BY <1>2, <1>3 DEF v

\* Its state and its INVITE do.
LEMMA PutInvTame ==
  ASSUME NEW w, Sound(w), NEW u \in Ends, NEW r \in Sessions(Nat, Nat),
         r.prov = w.inv[u].prov, r.invite_tsx \in 0..Len(w.tsx),
         \/ r.state = w.inv[u].state
         \/ w.inv[u].state = "CONNECTING" /\ r.state = "CONFIRMED",
         r.state \in Ringing => r.invite_tsx = w.inv[u].invite_tsx
  PROVE  Tame(w, [w EXCEPT !.inv[u] = r])
<1> DEFINE v == [w EXCEPT !.inv[u] = r]
<1>1. /\ Sound(v) /\ v.inv[u] = r /\ \A x \in Ends \ {u} : v.inv[x] = w.inv[x]
      /\ v.neg = w.neg /\ v.tsx = w.tsx /\ v.acks = w.acks
  BY PutInvSound
<1>2. Len(w.tsx) \in Nat
  BY SoundParts
<1> HIDE DEF v
<1>3. Tame(w, v)
  BY <1>1, <1>2 DEF Tame
<1>4. QED
  BY <1>3 DEF v

\* Nothing that the course of a call depends on does.
LEMMA PutInvMedia ==
  ASSUME NEW w, Sound(w), NEW u \in Ends, NEW r \in Sessions(Nat, Nat),
         r.prov = w.inv[u].prov, r.invite_tsx = w.inv[u].invite_tsx, r.state = w.inv[u].state,
         r.remote_cseq = w.inv[u].remote_cseq
  PROVE  /\ Media(w, [w EXCEPT !.inv[u] = r])
         /\ [w EXCEPT !.inv[u] = r].neg = w.neg /\ [w EXCEPT !.inv[u] = r].tsx = w.tsx
<1> DEFINE v == [w EXCEPT !.inv[u] = r]
<1>1. r.invite_tsx \in 0..Len(w.tsx)
  BY SoundParts
<1>2. /\ Sound(v) /\ v.inv[u] = r /\ \A x \in Ends \ {u} : v.inv[x] = w.inv[x]
      /\ v.neg = w.neg /\ v.tsx = w.tsx /\ v.acks = w.acks
  BY <1>1, PutInvSound
<1> HIDE DEF v
<1>3. Media(w, v)
  BY <1>2 DEF Media
<1>4. QED
  BY <1>2, <1>3 DEF v

\* The session notes that it was hung up, or that a CANCEL waits.
LEMMA NotesMedia ==
  ASSUME NEW w, Sound(w), NEW u \in Ends, NEW b \in BOOLEAN
  PROVE  /\ Media(w, [w EXCEPT !.inv[u].hungup = b])
         /\ Media(w, [w EXCEPT !.inv[u].pending_cancel = b])
         /\ [w EXCEPT !.inv[u].hungup = b].tsx = w.tsx
         /\ [w EXCEPT !.inv[u].pending_cancel = b].tsx = w.tsx
<1> DEFINE x == [w.inv[u] EXCEPT !.hungup = b]
           y == [w.inv[u] EXCEPT !.pending_cancel = b]
<1>1. w.inv[u] \in Sessions(Nat, Nat)
  BY SoundParts
<1>2. /\ x \in Sessions(Nat, Nat) /\ y \in Sessions(Nat, Nat)
      /\ \A q \in {x, y} : /\ q.prov = w.inv[u].prov /\ q.state = w.inv[u].state
                           /\ q.invite_tsx = w.inv[u].invite_tsx
                           /\ q.remote_cseq = w.inv[u].remote_cseq
  BY <1>1 DEF Sessions
<1> HIDE DEF x, y
<1>3. /\ Media(w, [w EXCEPT !.inv[u] = x]) /\ [w EXCEPT !.inv[u] = x].tsx = w.tsx
      /\ Media(w, [w EXCEPT !.inv[u] = y]) /\ [w EXCEPT !.inv[u] = y].tsx = w.tsx
  BY <1>2, PutInvMedia
<1>4. QED
  BY <1>3 DEF x, y

\* The dialog notes the CSeq of a request from its peer.
LEMMA CSeqTame ==
  ASSUME NEW w, Sound(w), NEW u \in Ends, NEW k \in Nat
  PROVE  LET v == [w EXCEPT !.inv[u].remote_cseq = k]
         IN  /\ Tame(w, v) /\ v.tsx = w.tsx /\ v.neg = w.neg /\ v.acks = w.acks
             /\ v.sdps = w.sdps /\ v.inv[u].remote_cseq = k
             /\ \A x \in Ends \ {u} : v.inv[x] = w.inv[x]
             /\ \A x \in Ends : /\ v.inv[x].state = w.inv[x].state
                               /\ v.inv[x].invite_tsx = w.inv[x].invite_tsx
<1> DEFINE z == [w.inv[u] EXCEPT !.remote_cseq = k]
           v == [w EXCEPT !.inv[u] = z]
<1>1. w.inv[u] \in Sessions(Nat, Nat) /\ w.inv[u].invite_tsx \in 0..Len(w.tsx) /\ w \in Worlds
  BY SoundParts
<1>2. /\ z \in Sessions(Nat, Nat) /\ z.prov = w.inv[u].prov /\ z.state = w.inv[u].state
      /\ z.invite_tsx = w.inv[u].invite_tsx /\ z.remote_cseq = k
  BY <1>1 DEF Sessions
<1> HIDE DEF z
<1>3. Tame(w, v)
  BY <1>1, <1>2, PutInvTame
<1>4. /\ v.inv[u] = z /\ \A x \in Ends \ {u} : v.inv[x] = w.inv[x]
      /\ v.neg = w.neg /\ v.tsx = w.tsx /\ v.acks = w.acks /\ v.sdps = w.sdps
  BY <1>1, <1>2, PutInv, ZenonT(60)
<1>5. QED
  BY <1>2, <1>3, <1>4 DEF z

\* inv_set_state, to any state but DISCONNECTED.
LEMMA SetStateEffect ==
  ASSUME NEW w, Sound(w), NEW u \in Ends, NEW s \in States
  PROVE  LET v == SetState(w, u, s)
         IN  /\ Sound(v) /\ v.tsx = w.tsx /\ v.acks = w.acks /\ v.neg = w.neg
             /\ v.inv[u].state = s /\ v.inv[u].invite_tsx = w.inv[u].invite_tsx
             /\ \A x \in Ends \ {u} : v.inv[x] = w.inv[x]
             /\ \/ s = w.inv[u].state
                \/ s = "CONFIRMED" /\ w.inv[u].state = "CONNECTING"
                => Tame(w, v)
<1> DEFINE r == [w.inv[u] EXCEPT !.state = s]
<1>1. w.inv[u] \in Sessions(Nat, Nat) /\ w.inv[u].invite_tsx \in 0..Len(w.tsx)
  BY SoundParts
<1>2. /\ r \in Sessions(Nat, Nat) /\ r.prov = w.inv[u].prov /\ r.state = s
      /\ r.invite_tsx = w.inv[u].invite_tsx
  BY <1>1 DEF Sessions
<1>3. SetState(w, u, s) = [w EXCEPT !.inv[u] = r]
  BY DEF SetState
<1> HIDE DEF r
<1>4. QED
  BY <1>1, <1>2, <1>3, PutInvSound, PutInvTame

\* inv_set_state to DISCONNECTED.
LEMMA DisconnectEffect ==
  ASSUME NEW w, Sound(w), NEW u \in Ends
  PROVE  LET v == Disconnect(w, u)
         IN  /\ Sound(v) /\ Tame(w, v) /\ v.tsx = w.tsx /\ v.acks = w.acks
             /\ v.inv[u].state = "DISCONNECTED" /\ v.inv[u].invite_tsx = w.inv[u].invite_tsx
             /\ \A x \in Ends \ {u} : v.inv[x] = w.inv[x]
<1> DEFINE r == [NoSession EXCEPT !.state = "DISCONNECTED", !.invite_tsx = w.inv[u].invite_tsx,
                                  !.remote_cseq = w.inv[u].remote_cseq]
           a == [w EXCEPT !.inv[u] = r]
           v == [a EXCEPT !.neg[u] = NoNegotiator]
<1>1. /\ w \in Worlds /\ w.inv[u] \in Sessions(Nat, Nat) /\ Len(w.tsx) \in Nat
      /\ w.inv[u].invite_tsx \in 0..Len(w.tsx)
  BY SoundParts
<1>2. /\ r \in Sessions(Nat, Nat) /\ r.prov = "A" /\ r.state = "DISCONNECTED"
      /\ r.invite_tsx = w.inv[u].invite_tsx
  BY <1>1 DEF Sessions, NoSession, States
<1>3. NoNegotiator \in Negotiators(Nat) /\ Fits(NoNegotiator, "A")
  BY DEF NoNegotiator, Negotiators, NoCopy, Copy, Copies, Pools, NegStates, Fits
<1>4. Disconnect(w, u) = v
  BY DEF Disconnect
<1> HIDE DEF r
<1>5. /\ a \in Worlds
      /\ a.inv[u] = r /\ \A x \in Ends \ {u} : a.inv[x] = w.inv[x]
      /\ a.neg = w.neg /\ a.tsx = w.tsx /\ a.acks = w.acks
  BY <1>1, <1>2, PutInv
<1> HIDE DEF a
<1>6. /\ v \in Worlds
      /\ v.neg[u] = NoNegotiator /\ \A x \in Ends \ {u} : v.neg[x] = w.neg[x]
      /\ v.inv = a.inv /\ v.tsx = w.tsx /\ v.acks = w.acks
  BY <1>3, <1>5, PutNeg
<1> HIDE DEF v
<1>7. Sound(v)
  BY <1>2, <1>3, <1>5, <1>6 DEF Sound, Typed, Pooled
<1>8. Tame(w, v)
  BY <1>1, <1>2, <1>5, <1>6, <1>7 DEF Tame, Ringing
<1>9. QED
  BY <1>2, <1>4, <1>5, <1>6, <1>7, <1>8

\* An end forgets its INVITE, which it does not rely on.
LEMMA ForgetTame ==
  ASSUME NEW w, Sound(w), NEW u \in Ends, NEW t,
         w.inv[u].state \in Ringing => w.inv[u].invite_tsx # t
  PROVE  /\ Tame(w, Forget(w, u, t)) /\ Forget(w, u, t).tsx = w.tsx
         /\ \A x \in Ends : Forget(w, u, t).inv[x].state = w.inv[x].state
<1> DEFINE i == IF w.inv[u].invite_tsx = t THEN 0 ELSE w.inv[u].invite_tsx
           r == [w.inv[u] EXCEPT !.invite_tsx = i]
<1>1. w.inv[u] \in Sessions(Nat, Nat) /\ w.inv[u].invite_tsx \in 0..Len(w.tsx)
      /\ Len(w.tsx) \in Nat
  BY SoundParts
<1>2. i \in 0..Len(w.tsx) /\ i \in Nat /\ (w.inv[u].invite_tsx # t => i = w.inv[u].invite_tsx)
  BY <1>1
<1>3. Forget(w, u, t) = [w EXCEPT !.inv[u] = r]
  BY DEF Forget
<1> HIDE DEF i
<1>4. /\ r \in Sessions(Nat, Nat) /\ r.prov = w.inv[u].prov /\ r.state = w.inv[u].state
      /\ r.invite_tsx = i
  BY <1>1, <1>2 DEF Sessions
<1> HIDE DEF r
<1>5. QED
  BY <1>2, <1>3, <1>4, PutInvSound, PutInvTame

-----------------------------------------------------------------------------
(* Transactions *)

\* A transaction changes in its state at the one or the other side.
LEMMA PutTsxSound ==
  ASSUME NEW w, Sound(w), NEW t \in 1..Len(w.tsx), NEW x \in Transactions(Nat, Nat),
         x.method = w.tsx[t].method, x.of = w.tsx[t].of
  PROVE  LET v == [w EXCEPT !.tsx[t] = x]
         IN  /\ Sound(v) /\ Len(v.tsx) = Len(w.tsx)
             /\ v.tsx[t] = x /\ \A i \in 1..Len(w.tsx) \ {t} : v.tsx[i] = w.tsx[i]
             /\ v.neg = w.neg /\ v.inv = w.inv /\ v.acks = w.acks
<1> DEFINE v == [w EXCEPT !.tsx[t] = x]
<1>1. w \in Worlds
  BY SoundParts
<1>2. /\ v \in Worlds /\ Len(v.tsx) = Len(w.tsx)
      /\ v.tsx[t] = x /\ \A i \in 1..Len(w.tsx) \ {t} : v.tsx[i] = w.tsx[i]
      /\ v.neg = w.neg /\ v.inv = w.inv /\ v.acks = w.acks /\ v.sdps = w.sdps
  BY <1>1, PutTsx
<1> HIDE DEF v
<1>3. Sound(v)
  BY <1>2 DEF Sound, Typed, Pooled
<1>4. QED
  BY <1>2, <1>3 DEF v

\* The client transaction enters a state.
LEMMA ClientEntersEffect ==
  ASSUME NEW w, Sound(w), NEW t \in 1..Len(w.tsx),
         NEW client \in {"calling", "completed", "terminated"}, NEW code \in Nat
  PROVE  LET v == ClientEnters(w, t, client, code)
         IN  /\ Sound(v) /\ Len(v.tsx) = Len(w.tsx)
             /\ \A i \in 1..Len(w.tsx) \ {t} : v.tsx[i] = w.tsx[i]
             /\ v.tsx[t].method = w.tsx[t].method /\ v.tsx[t].from = w.tsx[t].from
             /\ v.tsx[t].of = w.tsx[t].of /\ v.tsx[t].server = w.tsx[t].server
             /\ v.tsx[t].status = w.tsx[t].status /\ v.tsx[t].client = client
             /\ v.tsx[t].sdp = w.tsx[t].sdp /\ v.tsx[t].body = w.tsx[t].body
             /\ v.neg = w.neg /\ v.inv = w.inv /\ v.acks = w.acks
<1> DEFINE y == [w.tsx[t] EXCEPT !.client = client]
           z == [y EXCEPT !.code = code]
           a == [w EXCEPT !.tsx[t] = y]
           v == [a EXCEPT !.tsx[t] = z]
<1>1. w.tsx[t] \in Transactions(Nat, Nat)
  BY SoundParts
<1>2. /\ y \in Transactions(Nat, Nat) /\ z \in Transactions(Nat, Nat)
      /\ y.method = w.tsx[t].method /\ y.of = w.tsx[t].of
      /\ z.method = w.tsx[t].method /\ z.from = w.tsx[t].from /\ z.of = w.tsx[t].of
      /\ z.server = w.tsx[t].server /\ z.status = w.tsx[t].status
      /\ z.sdp = w.tsx[t].sdp /\ z.body = w.tsx[t].body /\ z.client = client
  BY <1>1 DEF Transactions
<1>3. ASSUME a.tsx[t] = y
      PROVE  ClientEnters(w, t, client, code) = v
  BY <1>3 DEF ClientEnters
<1> HIDE DEF y, z
<1>4. /\ Sound(a) /\ Len(a.tsx) = Len(w.tsx)
      /\ a.tsx[t] = y /\ \A i \in 1..Len(w.tsx) \ {t} : a.tsx[i] = w.tsx[i]
      /\ a.neg = w.neg /\ a.inv = w.inv /\ a.acks = w.acks
  BY <1>2, PutTsxSound
<1> HIDE DEF a
<1>5. /\ Sound(v) /\ Len(v.tsx) = Len(w.tsx)
      /\ v.tsx[t] = z /\ \A i \in 1..Len(w.tsx) \ {t} : v.tsx[i] = a.tsx[i]
      /\ v.neg = w.neg /\ v.inv = w.inv /\ v.acks = w.acks
  BY <1>2, <1>4, PutTsxSound
<1>6. ClientEnters(w, t, client, code) = v
  BY <1>3, <1>4
<1>7. QED
  BY <1>2, <1>4, <1>5, <1>6

\* That is tame, unless the INVITE of a caller that relies on it ends, and then it
\* is if the caller is disconnected.
LEMMA ClientEntersTame ==
  ASSUME NEW w, Sound(w), NEW t \in 1..Len(w.tsx),
         NEW client \in {"calling", "completed", "terminated"}, NEW code \in Nat
  PROVE  LET v == ClientEnters(w, t, client, code)
         IN  /\ \/ t # 1 \/ client = w.tsx[t].client
                \/ client # "calling" /\ w.inv["caller"].state \notin {"CALLING", "EARLY"}
                => Tame(w, v)
             /\ client # "calling" /\ (t = 1 => w.tsx[t].from = "caller")
                => Tame(w, Disconnect(v, Client(w, t)))
<1> DEFINE v == ClientEnters(w, t, client, code)
<1>1. /\ Sound(v) /\ Len(v.tsx) = Len(w.tsx)
      /\ \A i \in 1..Len(w.tsx) \ {t} : v.tsx[i] = w.tsx[i]
      /\ v.tsx[t].method = w.tsx[t].method /\ v.tsx[t].from = w.tsx[t].from
      /\ v.tsx[t].of = w.tsx[t].of /\ v.tsx[t].server = w.tsx[t].server
      /\ v.tsx[t].status = w.tsx[t].status /\ v.tsx[t].client = client
      /\ v.neg = w.neg /\ v.inv = w.inv /\ v.acks = w.acks
  BY ClientEntersEffect
<1> HIDE DEF v
<1>2. Len(w.tsx) \in Nat /\ "caller" \in Ends /\ Client(w, t) \in Ends
  BY SoundParts DEF Ends
<1>3. ASSUME NEW x, Sound(x), x.tsx = v.tsx, \A u \in Ends :
                /\ x.inv[u].invite_tsx = w.inv[u].invite_tsx
                /\ x.inv[u].state \in {w.inv[u].state, "DISCONNECTED"},
             \/ t # 1 \/ client = w.tsx[t].client
             \/ client # "calling" /\ x.inv["caller"].state \notin {"CALLING", "EARLY"}
      PROVE  Tame(w, x)
  <2>1. \A i \in 1..Len(w.tsx) : /\ x.tsx[i].method = w.tsx[i].method
                                 /\ x.tsx[i].from = w.tsx[i].from
                                 /\ x.tsx[i].of = w.tsx[i].of
                                 /\ x.tsx[i].server = w.tsx[i].server
                                 /\ x.tsx[i].status = w.tsx[i].status
                                 /\ i # t => x.tsx[i].client = w.tsx[i].client
    BY <1>1, <1>3
  <2>2. \A i \in 1..Len(x.tsx) : ~(i > Len(w.tsx))
    BY <1>1, <1>2, <1>3
  <2>3. Len(w.tsx) > 0 => 1 \in 1..Len(w.tsx)
    BY <1>2
  <2>4. Len(x.tsx) >= Len(w.tsx)
    BY <1>1, <1>2, <1>3
  <2>5. QED
    BY <1>1, <1>3, <2>1, <2>2, <2>3, <2>4 DEF Tame
<1>4. ASSUME \/ t # 1 \/ client = w.tsx[t].client
             \/ client # "calling" /\ w.inv["caller"].state \notin {"CALLING", "EARLY"}
      PROVE  Tame(w, v)
  BY <1>1, <1>3, <1>4
<1>5. ASSUME client # "calling", t = 1 => w.tsx[t].from = "caller"
      PROVE  Tame(w, Disconnect(v, Client(w, t)))
  <2> DEFINE x == Disconnect(v, Client(w, t))
  <2>1. /\ Sound(x) /\ x.tsx = v.tsx
        /\ x.inv[Client(w, t)].state = "DISCONNECTED"
        /\ x.inv[Client(w, t)].invite_tsx = v.inv[Client(w, t)].invite_tsx
        /\ \A y \in Ends \ {Client(w, t)} : x.inv[y] = v.inv[y]
    BY <1>1, <1>2, DisconnectEffect, ZenonT(60)
  <2> HIDE DEF x
  <2>2. t = 1 => x.inv["caller"].state \notin {"CALLING", "EARLY"}
    BY <1>5, <2>1 DEF Client
  <2>3. Tame(w, x)
    BY <1>1, <1>3, <1>5, <2>1, <2>2
  <2>4. QED
    BY <2>3 DEF x
<1>6. QED
  BY <1>4, <1>5 DEF v

\* The server transaction comes to a state that is not final for its INVITE.
LEMMA ServerMarkTame ==
  ASSUME NEW w, Sound(w), NEW t \in 1..Len(w.tsx), NEW s \in {"trying", "terminated"},
         t = 1 => w.inv["callee"].state \notin {"INCOMING", "EARLY"}
  PROVE  LET v == [w EXCEPT !.tsx[t].server = s]
         IN  /\ Tame(w, v) /\ v.inv = w.inv /\ v.neg = w.neg
             /\ Len(v.tsx) = Len(w.tsx)
<1> DEFINE x == [w.tsx[t] EXCEPT !.server = s]
           v == [w EXCEPT !.tsx[t] = x]
<1>1. w.tsx[t] \in Transactions(Nat, Nat) /\ Len(w.tsx) \in Nat
  BY SoundParts
<1>2. /\ x \in Transactions(Nat, Nat) /\ x.server = s
      /\ x.method = w.tsx[t].method /\ x.of = w.tsx[t].of /\ x.from = w.tsx[t].from
      /\ x.client = w.tsx[t].client /\ x.status = w.tsx[t].status
  BY <1>1 DEF Transactions
<1>3. v = [w EXCEPT !.tsx[t].server = s]
  OBVIOUS
<1> HIDE DEF x
<1>4. /\ Sound(v) /\ Len(v.tsx) = Len(w.tsx)
      /\ v.tsx[t] = x /\ \A i \in 1..Len(w.tsx) \ {t} : v.tsx[i] = w.tsx[i]
      /\ v.neg = w.neg /\ v.inv = w.inv /\ v.acks = w.acks
  BY <1>2, PutTsxSound
<1> HIDE DEF v
<1>5. \A i \in 1..Len(w.tsx) : /\ v.tsx[i].method = w.tsx[i].method
                               /\ v.tsx[i].from = w.tsx[i].from
                               /\ v.tsx[i].of = w.tsx[i].of
                               /\ v.tsx[i].client = w.tsx[i].client
                               /\ v.tsx[i].status = w.tsx[i].status
                               /\ i # t => v.tsx[i].server = w.tsx[i].server
                               /\ i = t => v.tsx[i].server # "proceeding"
  BY <1>2, <1>4
<1>6. Len(w.tsx) > 0 => 1 \in 1..Len(w.tsx)
  BY <1>1
<1>7. \A i \in 1..Len(v.tsx) : ~(i > Len(w.tsx))
  BY <1>1, <1>4
<1>8. Tame(w, v)
  BY <1>1, <1>4, <1>5, <1>6, <1>7 DEF Tame
<1>9. QED
  BY <1>3, <1>4, <1>8

\* The confirmation of a call that waits for it.
LEMMA ConfirmTame ==
  ASSUME NEW w, Sound(w), NEW u \in Ends, w.inv[u].state = "CONNECTING"
  PROVE  Tame(w, Confirm(w, u))
<1>1. "CONFIRMED" \in States
  BY DEF States
<1>2. QED
  BY <1>1, SetStateEffect, SendByeTame DEF Confirm

-----------------------------------------------------------------------------
(* ACKs *)

\* ACKs come to the network or leave it.
LEMMA PutAcksTame ==
  ASSUME NEW w, Sound(w), NEW A \in SUBSET [t : Nat, sdp : Nat],
         \A ack \in A : ack.t \in 1..Len(w.tsx)
  PROVE  LET v == [w EXCEPT !.acks = A]
         IN  /\ Tame(w, v) /\ v.inv = w.inv /\ v.tsx = w.tsx /\ v.neg = w.neg
<1> DEFINE v == [w EXCEPT !.acks = A]
<1>1. w \in Worlds /\ Len(w.tsx) \in Nat
  BY SoundParts
<1>2. v \in Worlds /\ v.acks = A /\ v.inv = w.inv /\ v.tsx = w.tsx /\ v.neg = w.neg
  BY <1>1 DEF Worlds
<1> HIDE DEF v
<1>3. Sound(v)
  BY <1>2 DEF Sound, Typed, Pooled
<1>4. Tame(w, v)
  BY <1>1, <1>2, <1>3 DEF Tame
<1>5. QED
  BY <1>2, <1>4 DEF v

\* The session keeps the ACK that it sends.
LEMMA CacheAckMedia ==
  ASSUME NEW w, Sound(w), NEW u \in Ends, NEW t \in Nat, NEW sdp \in Nat
  PROVE  Media(w, [w EXCEPT !.inv[u].last_ack_cseq = t, !.inv[u].last_ack = sdp])
<1> DEFINE y == [w.inv[u] EXCEPT !.last_ack_cseq = t]
           z == [y EXCEPT !.last_ack = sdp]
           a == [w EXCEPT !.inv[u] = y]
           v == [a EXCEPT !.inv[u] = z]
<1>1. w.inv[u] \in Sessions(Nat, Nat) /\ w.inv[u].invite_tsx \in 0..Len(w.tsx)
  BY SoundParts
<1>2. /\ y \in Sessions(Nat, Nat) /\ z \in Sessions(Nat, Nat)
      /\ y.prov = w.inv[u].prov /\ y.invite_tsx = w.inv[u].invite_tsx
      /\ y.state = w.inv[u].state /\ y.remote_cseq = w.inv[u].remote_cseq
      /\ z.prov = w.inv[u].prov /\ z.invite_tsx = w.inv[u].invite_tsx
      /\ z.state = w.inv[u].state /\ z.remote_cseq = w.inv[u].remote_cseq
  BY <1>1 DEF Sessions
<1>3. ASSUME a.inv[u] = y
      PROVE  [w EXCEPT !.inv[u].last_ack_cseq = t, !.inv[u].last_ack = sdp] = v
  BY <1>3
<1> HIDE DEF y, z
<1>4. /\ Sound(a) /\ a.inv[u] = y /\ Media(w, a)
  <2>1. y.invite_tsx \in 0..Len(w.tsx)
    BY <1>1, <1>2
  <2>2. Sound(a) /\ a.inv[u] = y
    BY <1>2, <2>1, PutInvSound, SMTT(60)
  <2>3. Media(w, a)
    BY <1>1, <1>2, PutInvMedia
  <2>4. QED
    BY <2>2, <2>3
<1> HIDE DEF a
<1>5. Media(a, v)
  BY <1>2, <1>4, PutInvMedia
<1>6. QED
  BY <1>3, <1>4, <1>5, MediaTrans

\* The end of inv_send_ack, at an end whose call was answered.
LEMMA AckSentTame ==
  ASSUME NEW w, Sound(w), NEW u \in Ends, w.inv[u].state \notin Ringing \cup {"NULL"}
  PROVE  Tame(w, AckSent(w, u))
<1>1. w.inv[u].state \in States
  <2>1. w.inv[u] \in Sessions(Nat, Nat)
    BY SoundParts
  <2>2. QED
    BY <2>1 DEF Sessions
<1>2. w.inv[u].state \in {"CONNECTING", "CONFIRMED", "DISCONNECTED"}
  BY <1>1 DEF Ringing, States
<1>3. QED
  BY <1>2, ConfirmTame, MediaRefl, MediaTame DEF AckSent

\* inv_send_ack, at an end whose call was answered.
LEMMA SendAckTame ==
  ASSUME NEW w, Sound(w), NEW t \in 1..Len(w.tsx), NEW choice,
         w.inv[Client(w, t)].state \notin Ringing \cup {"NULL"}
  PROVE  Tame(w, SendAck(w, t, choice))
<1> DEFINE u == Client(w, t)
           i == w.inv[u].invite_tsx
           fits == choice # "mismatch"
           answers == HasLocalAnswer(w.neg[u])
           n == Negotiate(w, u, fits)
           agreed == IF ~answers THEN w
                     ELSE IF i = 0 THEN n ELSE [n EXCEPT !.tsx[i].done = @ \/ fits]
           sdp == IF answers /\ fits THEN agreed.neg[u].active_local.sdp ELSE 0
           created == IF w.inv[u].last_ack_cseq = t THEN w
                      ELSE [agreed EXCEPT !.inv[u].last_ack_cseq = t, !.inv[u].last_ack = sdp]
           ack == [t |-> t, sdp |-> created.inv[u].last_ack]
           sent == [created EXCEPT !.acks = @ \cup {ack}]
<1>1. u \in Ends /\ i \in 0..Len(w.tsx) /\ Len(w.tsx) \in Nat
  BY SoundParts
<1>2. SendAck(w, t, choice) = AckSent(sent, u)
  BY DEF SendAck
<1>3. Media(w, agreed)
  <2>1. Media(w, n)
    <3>1. fits \in BOOLEAN
      OBVIOUS
    <3> HIDE DEF fits
    <3>2. QED
      BY <1>1, <3>1, NegotiateMedia
  <2> HIDE DEF n
  <2>2. ASSUME i # 0
        PROVE  Media(w, [n EXCEPT !.tsx[i].done = @ \/ fits])
    <3> DEFINE b == n.tsx[i].done \/ fits
    <3>1. i \in 1..Len(n.tsx) /\ Sound(n)
      BY <1>1, <2>1, <2>2 DEF Media
    <3>2. b \in BOOLEAN
      OBVIOUS
    <3> HIDE DEF b
    <3>3. Media(n, [n EXCEPT !.tsx[i].done = b])
      BY <3>1, <3>2, MarksMedia
    <3>4. QED
      BY <2>1, <3>3, MediaTrans DEF b
  <2>3. QED
    BY <2>1, <2>2, MediaRefl
<1> HIDE DEF agreed
<1>4. sdp \in Nat
  BY <1>1, <1>3, SoundParts DEF Media
<1> HIDE DEF sdp
<1>5. Media(w, created)
  <2>1. Media(agreed, [agreed EXCEPT !.inv[u].last_ack_cseq = t, !.inv[u].last_ack = sdp])
    <3> HIDE DEF u
    <3>1. Sound(agreed) /\ t \in Nat
      BY <1>1, <1>3 DEF Media
    <3>2. QED
      BY <1>1, <1>4, <3>1, CacheAckMedia
  <2>2. QED
    BY <1>3, <2>1, MediaRefl, MediaTrans
<1> HIDE DEF created
<1>6. Sound(created) /\ created.inv[u].state = w.inv[u].state /\ Len(created.tsx) = Len(w.tsx)
  BY <1>1, <1>5 DEF Media
<1>7. Tame(created, sent) /\ sent.inv = created.inv
  <2>1. created.inv[u] \in Sessions(Nat, Nat) /\ created \in Worlds
    BY <1>1, <1>6, SoundParts
  <2>2. ack \in [t : Nat, sdp : Nat] /\ ack.t = t
    BY <1>1, <2>1 DEF Sessions
  <2> HIDE DEF ack
  <2>3. /\ created.acks \in SUBSET [t : Nat, sdp : Nat]
        /\ \A a \in created.acks : a.t \in 1..Len(created.tsx)
    BY <1>6, <2>1 DEF Worlds, Sound, Typed
  <2> DEFINE A == created.acks \cup {ack}
  <2>4. A \in SUBSET [t : Nat, sdp : Nat] /\ \A a \in A : a.t \in 1..Len(created.tsx)
    BY <1>6, <2>2, <2>3
  <2>5. sent = [created EXCEPT !.acks = A]
    OBVIOUS
  <2> HIDE DEF A, sent
  <2>6. QED
    BY <1>6, <2>4, <2>5, PutAcksTame
<1> HIDE DEF sent
<1>8. Tame(sent, AckSent(sent, u))
  <2>1. Sound(sent) /\ sent.inv[u].state \notin Ringing \cup {"NULL"}
    BY <1>6, <1>7 DEF Tame
  <2>2. QED
    BY <1>1, <2>1, AckSentTame
<1>9. Tame(w, created) /\ Sound(sent)
  BY <1>5, <1>7, MediaTame, SMTT(60) DEF Tame
<1>10. QED
  BY <1>2, <1>6, <1>7, <1>8, <1>9, TameTrans

\* What is done when the peer has no call or does not answer.
LEMMA UnlessLostTame ==
  ASSUME NEW w, Sound(w), NEW u \in Ends, NEW t, NEW v, Tame(w, v)
  PROVE  Tame(w, UnlessLost(w, u, t, v))
<1> DEFINE a == Disconnect(w, u)
<1>1. Tame(w, a) /\ Sound(a)
  BY DisconnectEffect
<1> HIDE DEF a
<1>2. Tame(a, SendBye(a, u))
  BY <1>1, SendByeTame
<1>3. Tame(w, SendBye(a, u))
  BY <1>1, <1>2, TameTrans
<1>4. QED
  BY <1>3 DEF UnlessLost, a

-----------------------------------------------------------------------------
(* Events of client transactions *)

\* A tame change follows a call that was begun, and one may come after another.
LEMMA TameFollows ==
  ASSUME NEW w, Begun(w)
  PROVE  /\ \A v : Tame(w, v) => Follows(w, v)
         /\ \A v, x : Follows(w, v) /\ Tame(v, x) => Follows(w, x)
<1>1. \A y, v : Begun(y) /\ Tame(y, v) => Follows(y, v)
  <2>1. SUFFICES ASSUME NEW y, NEW v, Begun(y), Tame(y, v)
                 PROVE  Follows(y, v)
    OBVIOUS
  <2>2. Sound(y) /\ Course(y) /\ Len(y.tsx) > 0 /\ Sound(v)
    BY <2>1 DEF Begun, Tame
  <2>3. Course(v) /\ StayOver(y, v) /\ Len(v.tsx) > 0
    BY <2>1, <2>2, TameCourse
  <2>4. QED
    BY <2>2, <2>3 DEF Begun, Follows
<1>2. ASSUME NEW v, NEW x, Follows(w, v), Tame(v, x)
      PROVE  Follows(w, x)
  <2>1. Begun(x) /\ StayOver(v, x)
    BY <1>1, <1>2 DEF Follows
  <2>2. QED
    BY <1>2, <2>1 DEF Follows, StayOver
<1>3. QED
  BY <1>1, <1>2

\* Who is at either side of a transaction; the first is the caller's INVITE.
LEMMA Sides ==
  ASSUME NEW w, Begun(w), NEW t \in 1..Len(w.tsx)
  PROVE  /\ Client(w, t) \in Ends /\ Server(w, t) \in Ends /\ Len(w.tsx) \in Nat
         /\ w.tsx[t].from = Client(w, t) /\ Client(w, t) # Server(w, t)
         /\ t = 1 => /\ w.tsx[t].method = "INVITE"
                     /\ Client(w, t) = "caller" /\ Server(w, t) = "callee"
         /\ t # 1 => t \in 2..Len(w.tsx)
         /\ "caller" \in Ends /\ "callee" \in Ends
<1>1. Client(w, t) \in Ends /\ Server(w, t) \in Ends /\ Len(w.tsx) \in Nat
  BY SoundParts DEF Begun
<1>2. QED
  BY <1>1 DEF Begun, Course, Client, Server, Peer, Ends

\* inv_handle_bye_response.
LEMMA OnByeTame ==
  ASSUME NEW w, Begun(w), NEW t \in 1..Len(w.tsx), NEW code \in Nat, w.tsx[t].method # "INVITE"
  PROVE  Tame(w, OnBye(w, t, code))
<1>1. t # 1 /\ Sound(w)
  BY Sides DEF Begun
<1>2. QED
  BY <1>1, ClientEntersTame DEF OnBye

\* A CANCEL is answered or not.
LEMMA OnCancelTame ==
  ASSUME NEW w, Begun(w), NEW t \in 1..Len(w.tsx), NEW code \in Nat, w.tsx[t].method # "INVITE"
  PROVE  Tame(w, OnCancel(w, t, code))
<1> DEFINE v == ClientEnters(w, t, "terminated", code)
           u == Client(w, t)
<1>1. t # 1 /\ Sound(w) /\ u \in Ends
  BY Sides DEF Begun
<1>2. Tame(w, v) /\ Tame(w, Disconnect(v, u))
  BY <1>1, ClientEntersTame
<1> HIDE DEF v
<1>3. Sound(v) /\ Tame(v, v)
  BY <1>2, MediaRefl, MediaTame DEF Tame
<1>4. Tame(v, UnlessLost(v, u, t, v))
  BY <1>1, <1>3, UnlessLostTame
<1>5. Tame(w, UnlessLost(v, u, t, v))
  BY <1>1, <1>2, <1>4, TameTrans
<1>6. QED
  BY <1>2, <1>5 DEF OnCancel, v

\* inv_handle_update_response concerns the media.
LEMMA UpdateResponseMedia ==
  ASSUME NEW w, Sound(w), NEW t \in 1..Len(w.tsx), NEW body \in Nat, NEW choice
  PROVE  Media(w, UpdateResponse(w, t, body, choice))
<1> DEFINE u == Client(w, t)
           a == Withdraw(w, u)
<1>1. u \in Ends
  BY SoundParts
<1>2. Media(w, CheckSdpClient(w, t, body, choice)) /\ Media(w, a) /\ Media(w, w)
  BY <1>1, CheckSdpMedia, WithdrawMedia, MediaRefl
<1> HIDE DEF a
<1>3. Sound(a) /\ t \in 1..Len(a.tsx)
  BY <1>2 DEF Media
<1>4. Media(a, [a EXCEPT !.tsx[t].done = TRUE])
  BY <1>3, MarksMedia
<1>5. Media(w, [a EXCEPT !.tsx[t].done = TRUE])
  BY <1>2, <1>4, MediaTrans
<1>6. QED
  BY <1>2, <1>5 DEF UpdateResponse, a

\* An UPDATE is answered or not, and its transaction ends.
LEMMA OnUpdateTame ==
  ASSUME NEW w, Begun(w), NEW t \in 1..Len(w.tsx), w.tsx[t].method # "INVITE",
         NEW client \in {"completed", "terminated"}, NEW code \in Nat,
         NEW body \in Nat, NEW choice
  PROVE  Tame(w, OnUpdate(w, t, client, code, body, choice))
<1> DEFINE u == Client(w, t)
           v == ClientEnters(w, t, client, code)
           x == UpdateResponse(v, t, body, choice)
<1>1. t # 1 /\ Sound(w) /\ u \in Ends
  BY Sides DEF Begun
<1>2. Tame(w, v) /\ Sound(v) /\ Len(v.tsx) = Len(w.tsx)
  BY <1>1, ClientEntersTame, ClientEntersEffect
<1> HIDE DEF v
<1>3. Media(v, x)
  BY <1>2, UpdateResponseMedia
<1>4. Tame(v, x)
  BY <1>2, <1>3, MediaTame
<1> HIDE DEF x
<1>5. Tame(v, UnlessLost(v, u, t, x))
  BY <1>1, <1>2, <1>4, UnlessLostTame
<1>6. Tame(w, x) /\ Tame(w, UnlessLost(v, u, t, x))
  BY <1>1, <1>2, <1>4, <1>5, TameTrans
<1>7. OnUpdate(w, t, client, code, body, choice) \in {x, v, UnlessLost(v, u, t, x)}
  BY DEF OnUpdate, v, x
<1>8. QED
  BY <1>2, <1>6, <1>7

\* An INVITE fails.
LEMMA OnInviteFailureTame ==
  ASSUME NEW w, Begun(w), NEW t \in 1..Len(w.tsx),
         NEW client \in {"completed", "terminated"}, NEW code \in Nat
  PROVE  Tame(w, OnInviteFailure(w, t, client, code))
<1> DEFINE u  == Client(w, t)
           w1 == ClientEnters(w, t, client, code)
           a  == Withdraw(w1, u)
           f  == Forget(a, u, t)
           w2 == CASE w.inv[u].state \in {"CALLING", "EARLY"} -> Disconnect(w1, u)
                   [] w.inv[u].state = "CONFIRMED" -> UnlessLost(w1, u, t, f)
                   [] OTHER -> w1
<1>1. /\ Sound(w) /\ u \in Ends /\ "caller" \in Ends
      /\ t = 1 => u = "caller" /\ w.tsx[t].from = "caller"
      /\ w.tsx[t].from = u /\ client # "calling"
  BY Sides DEF Begun
<1>2. /\ Sound(w1) /\ w1.inv = w.inv /\ Len(w1.tsx) = Len(w.tsx)
      /\ Tame(w, Disconnect(w1, u))
      /\ w.inv[u].state \notin {"CALLING", "EARLY"} => Tame(w, w1)
  BY <1>1, ClientEntersEffect, ClientEntersTame
<1>3. w.inv[u].state = "CONFIRMED" =>
        Tame(w, UnlessLost(w1, u, t, f)) /\ UnlessLost(w1, u, t, f).inv[u].state \notin Ringing
  <2> SUFFICES ASSUME w.inv[u].state = "CONFIRMED"
               PROVE  /\ Tame(w, UnlessLost(w1, u, t, f))
                      /\ UnlessLost(w1, u, t, f).inv[u].state \notin Ringing
    OBVIOUS
  <2> HIDE DEF w1
  <2>1. Media(w1, a)
    BY <1>1, <1>2, WithdrawMedia
  <2> HIDE DEF a
  <2>2. Sound(a) /\ a.inv[u].state = "CONFIRMED" /\ Tame(w1, a)
    BY <1>1, <1>2, <2>1, MediaTame DEF Media
  <2>3. Tame(a, f)
    BY <1>1, <2>2, ForgetTame DEF Ringing
  <2> HIDE DEF f
  <2>4. Tame(w1, f)
    BY <1>2, <2>2, <2>3, TameTrans
  <2>5. Tame(w1, UnlessLost(w1, u, t, f))
    BY <1>1, <1>2, <2>4, UnlessLostTame
  <2>6. UnlessLost(w1, u, t, f).inv[u].state \notin Ringing
    <3> DEFINE x == UnlessLost(w1, u, t, f)
    <3>1. w1.inv[u].state = "CONFIRMED"
      BY <1>2
    <3> HIDE DEF x, u
    <3>2. \/ x.inv[u].state \in {w1.inv[u].state, "DISCONNECTED"}
          \/ w1.inv[u].state = "CONNECTING"
      BY <1>1, <2>5 DEF Tame, x
    <3>3. QED
      BY <3>1, <3>2 DEF Ringing, x
  <2>7. QED
    BY <1>1, <1>2, <2>5, <2>6, TameTrans
<1> HIDE DEF f, a
<1>4. Tame(w, w2)
  BY <1>2, <1>3
<1>5. w2.inv[u].state \in Ringing => w2.inv[u].invite_tsx # t
  <2>1. CASE w.inv[u].state \in {"CALLING", "EARLY"}
    <3>1. Disconnect(w1, u).inv[u].state = "DISCONNECTED"
      BY <1>1, <1>2, DisconnectEffect
    <3>2. QED
      BY <2>1, <3>1 DEF Ringing
  <2>2. CASE w.inv[u].state = "CONFIRMED"
    BY <1>3, <2>2
  <2>3. CASE w.inv[u].state \notin {"CALLING", "EARLY", "CONFIRMED"}
    <3>1. w2.inv = w.inv
      BY <1>2, <2>3
    <3> HIDE DEF w2
    <3>2. w.inv[u].state \in Ringing => w.inv[u].invite_tsx # t
      <4>1. CASE u = "callee"
        BY <1>1, <2>3, <4>1 DEF Begun, Course, Ringing
      <4>2. CASE u = "caller"
        BY <2>3, <4>2 DEF Begun, Course, Ringing
      <4>3. QED
        BY <1>1, <4>1, <4>2 DEF Ends
    <3>3. QED
      BY <3>1, <3>2
  <2>4. QED
    BY <2>1, <2>2, <2>3
<1>6. OnInviteFailure(w, t, client, code) = IF client = "terminated" THEN Forget(w2, u, t) ELSE w2
  BY DEF OnInviteFailure, f, a
<1> HIDE DEF w2
<1>7. Sound(w2)
  BY <1>4 DEF Tame
<1>8. Tame(w2, Forget(w2, u, t))
  BY <1>1, <1>5, <1>7, ForgetTame
<1>9. Tame(w, Forget(w2, u, t))
  BY <1>1, <1>4, <1>8, TameTrans
<1>10. QED
  BY <1>4, <1>6, <1>9

\* What the caller's end does with the 2xx response that answers its call.
Connected(w, choice) ==
    LET w1 == ClientEnters(w, 1, "terminated", 200)
    IN  SetState(CheckSdpClient(w1, 1, w.tsx[1].body, choice), "caller", "CONNECTING")

\* An answer takes a caller that waits for it to CONNECTING.
LEMMA Connects ==
  ASSUME NEW w, Begun(w), w.inv["caller"].state \in {"CALLING", "EARLY"},
         w.inv["callee"].state # "NULL", NEW choice
  PROVE  /\ Follows(w, Connected(w, choice))
         /\ Connected(w, choice).inv["caller"].state = "CONNECTING"
         /\ Connected(w, choice).tsx[1].from = "caller"
<1> DEFINE w1 == ClientEnters(w, 1, "terminated", 200)
           x == CheckSdpClient(w1, 1, w.tsx[1].body, choice)
           v == SetState(x, "caller", "CONNECTING")
<1>1. /\ Sound(w) /\ Len(w.tsx) \in Nat /\ 1 \in 1..Len(w.tsx) /\ w.tsx[1].body \in Nat
      /\ "caller" \in Ends /\ "callee" \in Ends /\ "CONNECTING" \in States
      /\ \A u \in Ends \ {"caller"} : u = "callee"
  BY SoundParts DEF Begun, Ends, States
<1>2. /\ Sound(w1) /\ Len(w1.tsx) = Len(w.tsx) /\ w1.inv = w.inv
      /\ \A t \in 1..Len(w.tsx) \ {1} : w1.tsx[t] = w.tsx[t]
      /\ w1.tsx[1].method = w.tsx[1].method /\ w1.tsx[1].from = w.tsx[1].from
      /\ w1.tsx[1].server = w.tsx[1].server /\ w1.tsx[1].client = "terminated"
  BY <1>1, ClientEntersEffect
<1> HIDE DEF w1
<1>3. Media(w1, x)
  BY <1>1, <1>2, CheckSdpMedia
<1> HIDE DEF x
<1>4. Sound(x)
  BY <1>3 DEF Media
<1>5. /\ Sound(v) /\ v.tsx = x.tsx /\ v.inv["caller"].state = "CONNECTING"
      /\ v.inv["callee"] = x.inv["callee"]
  BY <1>1, <1>4, SetStateEffect, "caller" # "callee"
<1> HIDE DEF v
<1>6. /\ Len(v.tsx) = Len(w.tsx)
      /\ \A t \in 1..Len(w.tsx) : /\ v.tsx[t].method = w.tsx[t].method
                                  /\ v.tsx[t].from = w.tsx[t].from
                                  /\ v.tsx[t].server = w.tsx[t].server
      /\ v.tsx[1].client = "terminated"
      /\ v.inv["callee"].state = w.inv["callee"].state
      /\ v.inv["callee"].invite_tsx = w.inv["callee"].invite_tsx
  BY <1>1, <1>2, <1>3, <1>5 DEF Media
<1>7. \A u \in Ends : v.inv[u].state \in Ringing \cup {"NULL"} =>
         /\ w.inv[u].state \in Ringing \cup {"NULL"}
         /\ v.inv[u].state = w.inv[u].state
  BY <1>1, <1>5, <1>6 DEF Ringing
<1>8. Course(v)
  <2>1. Len(w.tsx) > 0 /\ w.tsx[1].method = "INVITE" /\ w.tsx[1].from = "caller"
    BY DEF Begun, Course
  <2>2. \A t \in 1..Len(v.tsx) : /\ v.tsx[t].server = "proceeding" => t = 1
                                 /\ v.tsx[t].method = "CANCEL" => v.tsx[t].from = "caller"
    BY <1>6 DEF Begun, Course
  <2>3. /\ v.inv["callee"].state # "CALLING" /\ v.inv["callee"].state # "NULL"
        /\ v.inv["callee"].state \in {"INCOMING", "EARLY"} =>
              v.inv["callee"].invite_tsx = 1 /\ v.tsx[1].server = "proceeding"
    BY <1>1, <1>6 DEF Begun, Course
  <2>4. \A u \in Ends : v.inv[u].state \in Ringing \cup {"NULL"} =>
           \A t \in 2..Len(v.tsx) : v.tsx[t].method = "INVITE" => v.tsx[t].from # u
    <3>1. \A t \in 2..Len(w.tsx) : t \in 1..Len(w.tsx)
      BY <1>1
    <3>2. QED
      BY <1>6, <1>7, <3>1 DEF Begun, Course
  <2>5. QED
    BY <1>1, <1>5, <1>6, <2>1, <2>2, <2>3, <2>4 DEF Course
<1>9. StayOver(w, v)
  BY <1>1, <1>6 DEF StayOver
<1>10. v.tsx[1].from = "caller"
  BY <1>1, <1>6 DEF Begun, Course
<1>11. Connected(w, choice) = v
  BY DEF Connected, v, x, w1
<1>12. QED
  BY <1>1, <1>5, <1>6, <1>8, <1>9, <1>10, <1>11 DEF Begun, Follows

\* A 2xx response to an INVITE.
LEMMA OnInviteOkFollows ==
  ASSUME NEW w, Begun(w), NEW t \in 1..Len(w.tsx), w.tsx[t].method = "INVITE",
         w.tsx[t].status \in 200..299, NEW choice
  PROVE  Follows(w, OnInviteOk(w, t, choice))
<1> DEFINE u  == Client(w, t)
           w1 == ClientEnters(w, t, "terminated", 200)
           x  == CheckSdpClient(w1, t, w.tsx[t].body, choice)
<1>1. /\ Sound(w) /\ u \in Ends /\ Len(w.tsx) \in Nat /\ w.tsx[t].from = u
      /\ t = 1 => u = "caller" /\ w.tsx[t].from = "caller"
      /\ t # 1 => t \in 2..Len(w.tsx)
      /\ w.tsx[t].body \in Nat
  BY Sides, SoundParts DEF Begun
<1>2. /\ Sound(w1) /\ w1.inv = w.inv /\ Len(w1.tsx) = Len(w.tsx)
      /\ w1.tsx[t].from = u
      /\ w.inv[u].state \notin {"CALLING", "EARLY"} => Tame(w, w1)
  BY <1>1, ClientEntersEffect, ClientEntersTame
<1>3. CASE w.inv[u].state \in {"CALLING", "EARLY"}
  <2> DEFINE v == Connected(w, choice)
             s == SendAck(v, 1, choice)
  <2>1. t = 1 /\ u = "caller" /\ u \in Ends
    BY <1>1, <1>3 DEF Begun, Course, Ringing
  <2>2. w.inv["callee"].state # "NULL" /\ w.inv["caller"].state \in {"CALLING", "EARLY"}
    BY <1>3, <2>1 DEF Begun, Course
  <2>3. Follows(w, v) /\ v.inv["caller"].state = "CONNECTING" /\ v.tsx[1].from = "caller"
    BY <2>2, Connects
  <2>4. OnInviteOk(w, t, choice) = Forget(s, "caller", 1)
    BY <1>3, <2>1 DEF OnInviteOk, Connected
  <2> HIDE DEF v, u, x, w1
  <2>5. Sound(v) /\ Client(v, 1) = "caller" /\ 1 \in 1..Len(v.tsx)
    BY <2>3, SoundParts DEF Follows, Begun, Client
  <2>6. Tame(v, s)
    <3>1. v.inv[Client(v, 1)].state \notin Ringing \cup {"NULL"}
      BY <2>3, <2>5 DEF Ringing
    <3>2. QED
      BY <2>5, <3>1, SendAckTame
  <2> HIDE DEF s
  <2>7. Sound(s) /\ s.inv["caller"].state \notin Ringing
    BY <2>1, <2>3, <2>6 DEF Tame, Ringing
  <2>8. Tame(s, Forget(s, "caller", 1))
    BY <2>1, <2>7, ForgetTame
  <2>9. QED
    BY <2>3, <2>4, <2>6, <2>8, TameFollows
<1>4. CASE w.inv[u].state = "CONFIRMED"
  <2> DEFINE a == Withdraw(x, u)
             s == SendAck(a, t, choice)
  <2>1. OnInviteOk(w, t, choice) = Forget(s, u, t)
    BY <1>4 DEF OnInviteOk
  <2>2. Tame(w, w1)
    BY <1>2, <1>4
  <2> HIDE DEF w1, u
  <2>3. Media(w1, x)
    BY <1>1, <1>2, CheckSdpMedia
  <2> HIDE DEF x
  <2>4. Media(x, a)
    <3>1. Sound(x) /\ u \in Ends
      BY <1>1, <2>3 DEF Media
    <3>2. QED
      BY <3>1, WithdrawMedia
  <2> HIDE DEF a
  <2>5. Media(w1, a)
    BY <2>3, <2>4, MediaTrans
  <2>6. /\ Sound(a) /\ Len(a.tsx) = Len(w.tsx) /\ a.tsx[t].from = u
        /\ a.inv[u].state = "CONFIRMED" /\ Tame(w1, a)
    BY <1>1, <1>2, <1>4, <2>5, MediaTame DEF Media
  <2>7. Tame(a, s)
    <3>1. Client(a, t) = u /\ t \in 1..Len(a.tsx)
      BY <2>6 DEF Client
    <3>2. QED
      BY <2>6, <3>1, SendAckTame DEF Ringing
  <2> HIDE DEF s
  <2>8. Sound(s) /\ s.inv[u].state \notin Ringing
    BY <1>1, <2>6, <2>7 DEF Tame, Ringing
  <2>9. Tame(s, Forget(s, u, t))
    BY <1>1, <2>8, ForgetTame
  <2>10. QED
    BY <2>1, <2>2, <2>6, <2>7, <2>9, TameFollows
<1>5. CASE w.inv[u].state \notin {"CALLING", "EARLY", "CONFIRMED"}
  <2>1. OnInviteOk(w, t, choice) = Forget(w1, u, t)
    BY <1>5 DEF OnInviteOk
  <2>2. Tame(w, w1)
    BY <1>2, <1>5
  <2> HIDE DEF w1
  <2>3. w.inv[u].state \in Ringing => w.inv[u].invite_tsx # t
    <3>1. CASE u = "callee"
      BY <1>1, <1>5, <3>1 DEF Begun, Course, Ringing
    <3>2. CASE u = "caller"
      BY <1>5, <3>2 DEF Begun, Course, Ringing
    <3>3. QED
      BY <1>1, <3>1, <3>2 DEF Ends
  <2>4. Tame(w1, Forget(w1, u, t))
    BY <1>1, <1>2, <2>3, ForgetTame
  <2>5. QED
    BY <2>1, <2>2, <2>4, TameFollows
<1>6. QED
  BY <1>3, <1>4, <1>5

\* A provisional response takes the caller to EARLY.
LEMMA Rings ==
  ASSUME NEW w, Begun(w), w.inv["caller"].state \in {"CALLING", "EARLY"},
         w.inv["callee"].state # "NULL"
  PROVE  Follows(w, SetState(w, "caller", "EARLY"))
<1> DEFINE v == SetState(w, "caller", "EARLY")
<1>1. /\ Sound(w) /\ "caller" \in Ends /\ "callee" \in Ends /\ "EARLY" \in States
      /\ \A u \in Ends \ {"caller"} : u = "callee"
  BY DEF Begun, Ends, States
<1>2. /\ Sound(v) /\ v.tsx = w.tsx /\ v.inv["caller"].state = "EARLY"
      /\ v.inv["caller"].invite_tsx = w.inv["caller"].invite_tsx
      /\ v.inv["callee"] = w.inv["callee"]
  BY <1>1, SetStateEffect, "caller" # "callee"
<1> HIDE DEF v
<1>3. Course(v)
  <2>1. \A u \in Ends : v.inv[u].state \in Ringing \cup {"NULL"} =>
           \A t \in 2..Len(v.tsx) : v.tsx[t].method = "INVITE" => v.tsx[t].from # u
    BY <1>1, <1>2 DEF Begun, Course, Ringing
  <2>2. QED
    BY <1>2, <2>1 DEF Begun, Course
<1>4. StayOver(w, v)
  BY <1>1, <1>2 DEF StayOver
<1>5. QED
  BY <1>2, <1>3, <1>4 DEF Follows, Begun, v

\* One thing follows, and then another.
LEMMA FollowsTrans ==
  ASSUME NEW w, NEW v, NEW x, Follows(w, v), Follows(v, x)
  PROVE  Follows(w, x)
BY DEF Follows, StayOver

\* What concerns the media only follows.
LEMMA MediaFollows ==
  ASSUME NEW w, Begun(w), NEW v, Media(w, v)
  PROVE  Follows(w, v)
BY MediaTame, TameFollows DEF Begun

\* pjsip_inv_end_session before the answer.
LEMMA SendCancelTame ==
  ASSUME NEW w, Begun(w), w.inv["caller"].state \in {"CALLING", "EARLY"}
  PROVE  LET v == SendCancel(w, "caller")
         IN  Tame(w, v) /\ \A u \in Ends : v.inv[u].state = w.inv[u].state
<1> DEFINE e == [w EXCEPT !.tsx[1].expires = TRUE]
           v == SendRequest(e, "caller", "CANCEL", 0, 1)
<1>1. /\ Sound(w) /\ w.inv["caller"].invite_tsx = 1 /\ Len(w.tsx) \in Nat
      /\ 1 \in 1..Len(w.tsx) /\ "caller" \in Ends
  BY SoundParts DEF Begun, Course, Ends
<1>2. SendCancel(w, "caller") = v
  BY <1>1 DEF SendCancel
<1>3. Media(w, e)
  BY <1>1, MarksMedia
<1> HIDE DEF e
<1>4. Sound(e) /\ 1 \in 0..Len(e.tsx) /\ \A u \in Ends : e.inv[u].state = w.inv[u].state
  BY <1>1, <1>3 DEF Media
<1>5. \A u \in Ends : v.inv[u].state = w.inv[u].state
  BY <1>1, <1>4, SendRequestEffect
<1>6. Tame(e, v)
  BY <1>1, <1>4, SendRequestTame
<1> HIDE DEF v
<1>7. Tame(w, v)
  BY <1>1, <1>3, <1>4, <1>6, MediaTame, TameTrans
<1>8. QED
  BY <1>2, <1>5, <1>7

\* A provisional response.
LEMMA OnProgressFollows ==
  ASSUME NEW w, Begun(w), NEW t \in 1..Len(w.tsx), w.tsx[t].server = "proceeding",
         w.tsx[t].client = "calling", NEW choice
  PROVE  Follows(w, OnProgress(w, t, choice))
<1> DEFINE w1 == ClientEnters(w, 1, "calling", w.tsx[1].status)
           p  == [w1 EXCEPT !.inv["caller"].pending_cancel = FALSE]
           w2 == IF w.inv["caller"].pending_cancel /\ w.inv["caller"].state = "CALLING"
                 THEN SendCancel(p, "caller") ELSE w1
           r  == SetState(w2, "caller", "EARLY")
           x  == CheckSdpClient(r, 1, w.tsx[1].body, choice)
<1>1. t = 1
  BY DEF Begun, Course
<1>2. /\ Sound(w) /\ 1 \in 1..Len(w.tsx) /\ Client(w, 1) = "caller" /\ "caller" \in Ends
      /\ "callee" \in Ends /\ w.tsx[1].status \in Nat /\ w.tsx[1].body \in Nat
  BY <1>1, Sides, SoundParts DEF Begun
<1>3. /\ w.inv["caller"].state \in {"CALLING", "EARLY", "DISCONNECTED"}
      /\ w.inv["callee"].state # "NULL"
  BY <1>1 DEF Begun, Course
<1>4. OnProgress(w, t, choice) =
         IF Over(w, "caller") \/ w.tsx[1].status = 100 THEN w2 ELSE x
  BY <1>1, <1>2 DEF OnProgress
<1>5. Tame(w, w1) /\ w1.inv = w.inv
  BY <1>1, <1>2, ClientEntersTame, ClientEntersEffect
<1> HIDE DEF w1
<1>6. Follows(w, w1) /\ Begun(w1)
  BY <1>5, TameFollows DEF Follows
<1>7. Follows(w, w2) /\ \A u \in Ends : w2.inv[u].state = w.inv[u].state
  <2>1. CASE w.inv["caller"].pending_cancel /\ w.inv["caller"].state = "CALLING"
    <3>1. Media(w1, p)
      BY <1>2, <1>6, NotesMedia DEF Begun
    <3> HIDE DEF p
    <3>2. Follows(w1, p) /\ Begun(p) /\ \A u \in Ends : p.inv[u].state = w.inv[u].state
      BY <1>5, <1>6, <3>1, MediaFollows DEF Follows, Media
    <3>3. /\ Tame(p, SendCancel(p, "caller"))
          /\ \A u \in Ends : SendCancel(p, "caller").inv[u].state = p.inv[u].state
      BY <1>2, <2>1, <3>2, SendCancelTame
    <3>4. w2 = SendCancel(p, "caller")
      BY <2>1
    <3> HIDE DEF w2
    <3>5. QED
      BY <1>6, <3>2, <3>3, <3>4, FollowsTrans, TameFollows
  <2>2. CASE ~(w.inv["caller"].pending_cancel /\ w.inv["caller"].state = "CALLING")
    BY <1>5, <1>6, <2>2
  <2>3. QED
    BY <2>1, <2>2
<1> HIDE DEF w2
<1>8. CASE Over(w, "caller") \/ w.tsx[1].status = 100
  BY <1>4, <1>7, <1>8
<1>9. CASE ~(Over(w, "caller") \/ w.tsx[1].status = 100)
  <2>1. Follows(w2, r)
    BY <1>2, <1>3, <1>7, <1>9, Rings DEF Follows, Over
  <2> HIDE DEF r
  <2>2. Sound(r) /\ Begun(r) /\ 1 \in 1..Len(r.tsx)
    BY <2>1, SoundParts DEF Follows, Begun
  <2>3. Media(r, x)
    BY <1>2, <2>2, CheckSdpMedia
  <2> HIDE DEF x
  <2>4. QED
    BY <1>4, <1>7, <1>9, <2>1, <2>2, <2>3, FollowsTrans, MediaFollows
<1>10. QED
  BY <1>8, <1>9

\* A response leaves a sound world.
LEMMA SendResponseSound ==
  ASSUME NEW w, Sound(w), NEW t \in 1..Len(w.tsx), NEW status \in Nat, NEW body \in Nat
  PROVE  LET v == SendResponse(w, t, status, body)
         IN  /\ Sound(v) /\ Len(v.tsx) = Len(w.tsx) /\ v.inv = w.inv
             /\ \A i \in 1..Len(w.tsx) : /\ v.tsx[i].method = w.tsx[i].method
                                         /\ v.tsx[i].from = w.tsx[i].from
                                         /\ v.tsx[i].of = w.tsx[i].of
                                         /\ v.tsx[i].client = w.tsx[i].client
             /\ status < 200 => v.tsx[t].server = "proceeding"
             /\ status >= 200 => v.tsx[t].server # "proceeding"
             /\ v.tsx[t].status = status
             /\ \A i \in 1..Len(w.tsx) \ {t} : v.tsx[i] = w.tsx[i]
<1> DEFINE v == SendResponse(w, t, status, body)
<1>1. w \in Worlds /\ w.tsx[t] \in Transactions(Nat, Nat) /\ Len(w.tsx) \in Nat
  BY SoundParts
<1>2. /\ v \in Worlds /\ Len(v.tsx) = Len(w.tsx)
      /\ \A i \in 1..Len(w.tsx) \ {t} : v.tsx[i] = w.tsx[i]
      /\ v.neg = w.neg /\ v.inv = w.inv /\ v.acks = w.acks /\ v.sdps = w.sdps
  BY <1>1, SendResponseEffect
<1>3. /\ v.tsx[t].method = w.tsx[t].method /\ v.tsx[t].from = w.tsx[t].from
      /\ v.tsx[t].of = w.tsx[t].of
      /\ v.tsx[t].client = w.tsx[t].client /\ v.tsx[t].status = status
  BY <1>1, SendResponseEffect
<1>4. /\ status < 200 => v.tsx[t].server = "proceeding"
      /\ status >= 200 => v.tsx[t].server # "proceeding"
  BY <1>1, SendResponseEffect
<1> HIDE DEF v
<1>5. Sound(v)
  BY <1>2, <1>3 DEF Sound, Typed, Pooled
<1>6. QED
  BY <1>2, <1>3, <1>4, <1>5 DEF v

\* The INVITE of a callee that relies on it is refused, and the call ends.
LEMMA RefuseTame ==
  ASSUME NEW w, Begun(w), NEW status \in Nat, status >= 300
  PROVE  Tame(w, Disconnect(SendResponse(w, 1, status, 0), "callee"))
<1> DEFINE r == SendResponse(w, 1, status, 0)
           v == Disconnect(r, "callee")
<1>1. /\ Sound(w) /\ 1 \in 1..Len(w.tsx) /\ Len(w.tsx) \in Nat /\ "callee" \in Ends
      /\ "caller" \in Ends /\ \A u \in Ends \ {"callee"} : u = "caller"
  BY SoundParts DEF Begun, Ends
<1>2. /\ Sound(r) /\ Len(r.tsx) = Len(w.tsx) /\ r.inv = w.inv
      /\ \A i \in 1..Len(w.tsx) : /\ r.tsx[i].method = w.tsx[i].method
                                  /\ r.tsx[i].from = w.tsx[i].from
                                  /\ r.tsx[i].of = w.tsx[i].of
                                  /\ r.tsx[i].client = w.tsx[i].client
      /\ r.tsx[1].server # "proceeding" /\ r.tsx[1].status = status
      /\ \A i \in 1..Len(w.tsx) \ {1} : r.tsx[i] = w.tsx[i]
  BY <1>1, SendResponseSound
<1> HIDE DEF r
<1>3. /\ Sound(v) /\ v.tsx = r.tsx /\ v.inv["callee"].state = "DISCONNECTED"
      /\ v.inv["caller"] = w.inv["caller"]
  BY <1>1, <1>2, DisconnectEffect, "caller" # "callee"
<1> HIDE DEF v
<1>4. \A t \in 1..Len(v.tsx) : ~(t > Len(w.tsx))
  BY <1>1, <1>2, <1>3
<1>5. \A u \in Ends : /\ v.inv[u].state \in {w.inv[u].state, "DISCONNECTED"}
                      /\ v.inv[u].state \in Ringing => v.inv[u].invite_tsx = w.inv[u].invite_tsx
  BY <1>1, <1>3 DEF Ringing
<1>6. \A t \in 1..Len(w.tsx) : v.tsx[t].server = "proceeding" => w.tsx[t].server = "proceeding"
  BY <1>2, <1>3
<1>7. Tame(w, v)
  BY <1>1, <1>2, <1>3, <1>4, <1>5, <1>6 DEF Tame
<1>8. QED
  BY <1>7 DEF v, r

\* A final response, to a request that the callee does not wait to answer, after the
\* media were seen to.
LEMMA RespondsTame ==
  ASSUME NEW w, Sound(w), NEW t \in 1..Len(w.tsx),
         t = 1 => w.inv["callee"].state \notin {"INCOMING", "EARLY", "NULL"},
         NEW v, Media(w, v), NEW status \in Nat, status >= 200, NEW body \in Nat
  PROVE  Tame(w, SendResponse(v, t, status, body))
<1>1. Tame(w, v)
  BY MediaTame
<1>2. /\ Sound(v) /\ t \in 1..Len(v.tsx)
      /\ t = 1 => v.inv["callee"].state \notin {"INCOMING", "EARLY", "NULL"}
  BY DEF Media, Ends
<1>3. Tame(v, SendResponse(v, t, status, body))
  BY <1>2, SendResponseTame
<1>4. QED
  BY <1>1, <1>3, TameTrans

\* A response is sent after the media were seen to, with the status unless the
\* negotiation failed.
Responds(w, t, status, fits, r) ==
    \E v : \E body \in Nat, s \in {status, 500} :
        /\ Media(w, v) /\ r = SendResponse(v, t, s, body)
        /\ fits = TRUE => s = status

\* process_answer sends a response after it has negotiated, perhaps.
LEMMA RespondEffect ==
  ASSUME NEW w, Sound(w), NEW t \in 1..Len(w.tsx), NEW status \in Nat, NEW fits \in BOOLEAN
  PROVE  Responds(w, t, status, fits, Respond(w, t, status, fits))
<1> DEFINE u == Server(w, t)
           n == Negotiate(w, u, fits)
           a == [n EXCEPT !.tsx[t].answered = fits]
<1>1. /\ u \in Ends /\ w.neg[u].local.sdp \in Nat /\ w.tsx[t].body \in Nat /\ Media(w, w)
  BY SoundParts, MediaRefl
<1>2. Media(w, n)
  BY <1>1, NegotiateMedia
<1>3. Respond(w, t, status, fits) =
         IF w.neg[u].state = "LOCAL_OFFER" THEN SendResponse(w, t, status, w.neg[u].local.sdp)
         ELSE IF HasLocalAnswer(w.neg[u])
         THEN IF fits THEN SendResponse(a, t, status, a.neg[u].active_local.sdp)
                      ELSE SendResponse(a, t, 500, 0)
         ELSE SendResponse(w, t, status, w.tsx[t].body)
  BY DEF Respond
<1> HIDE DEF n, u
<1>4. Media(n, a)
  <2>1. Sound(n) /\ t \in 1..Len(n.tsx)
    BY <1>2 DEF Media
  <2>2. QED
    BY <2>1, MarksMedia
<1> HIDE DEF a
<1>5. Media(w, a) /\ a.neg[u].active_local.sdp \in Nat
  BY <1>1, <1>2, <1>4, MediaTrans, SoundParts DEF Media
<1>6. CASE w.neg[u].state # "LOCAL_OFFER" /\ HasLocalAnswer(w.neg[u]) /\ fits = TRUE
  BY <1>3, <1>5, <1>6 DEF Responds
<1>7. CASE w.neg[u].state # "LOCAL_OFFER" /\ HasLocalAnswer(w.neg[u]) /\ fits = FALSE
  BY <1>3, <1>5, <1>7 DEF Responds
<1>8. CASE w.neg[u].state = "LOCAL_OFFER" \/ ~HasLocalAnswer(w.neg[u])
  BY <1>1, <1>3, <1>8 DEF Responds
<1>9. QED
  BY <1>6, <1>7, <1>8

\* So a final response is tame if the callee does not wait to answer.
LEMMA RespondTame ==
  ASSUME NEW w, Sound(w), NEW t \in 1..Len(w.tsx),
         t = 1 => w.inv["callee"].state \notin {"INCOMING", "EARLY", "NULL"},
         NEW v, Media(w, v), NEW fits \in BOOLEAN
  PROVE  Tame(w, Respond(v, t, 200, fits))
<1>1. Sound(v) /\ t \in 1..Len(v.tsx)
  BY DEF Media
<1>2. Responds(v, t, 200, fits, Respond(v, t, 200, fits))
  BY <1>1, RespondEffect
<1>3. PICK x : \E body \in Nat, s \in {200, 500} :
         Media(v, x) /\ Respond(v, t, 200, fits) = SendResponse(x, t, s, body)
  BY <1>2 DEF Responds
<1>4. PICK body \in Nat, s \in {200, 500} :
         Media(v, x) /\ Respond(v, t, 200, fits) = SendResponse(x, t, s, body)
  BY <1>3
<1>5. Media(w, x) /\ s \in Nat /\ s >= 200
  BY <1>4, MediaTrans
<1>6. Tame(w, SendResponse(x, t, s, body))
  BY <1>4, <1>5, RespondsTame
<1>7. QED
  BY <1>4, <1>6

\* A request that has not been looked at is not one that the callee waits to answer.
LEMMA FreshRequest ==
  ASSUME NEW w, Begun(w), NEW t \in 1..Len(w.tsx), w.tsx[t].server # "proceeding"
  PROVE  t = 1 => w.inv["callee"].state \notin {"INCOMING", "EARLY"}
BY DEF Begun, Course

\* The end that transaction t goes to does not rely on it, if it is not proceeding.
LEMMA ReliesOnOther ==
  ASSUME NEW w, Begun(w), NEW t \in 1..Len(w.tsx), w.tsx[t].server # "proceeding"
  PROVE  w.inv[Server(w, t)].state \in Ringing => w.inv[Server(w, t)].invite_tsx # t
<1>1. Server(w, t) \in Ends /\ (t = 1 => Server(w, t) = "callee")
  BY Sides
<1>2. CASE Server(w, t) = "callee"
  BY <1>2 DEF Begun, Course, Ringing
<1>3. CASE Server(w, t) = "caller"
  BY <1>1, <1>3 DEF Begun, Course, Ringing
<1>4. QED
  BY <1>1, <1>2, <1>3 DEF Ends

\* The server transaction ends.
LEMMA ServerEndsTame ==
  ASSUME NEW w, Begun(w), NEW t \in 1..Len(w.tsx), w.tsx[t].server # "proceeding"
  PROVE  Tame(w, ServerEnds(w, t))
<1> DEFINE u == Server(w, t)
           v == [w EXCEPT !.tsx[t].server = "terminated"]
<1>1. /\ Sound(w) /\ u \in Ends
      /\ w.inv[u].state \in Ringing => w.inv[u].invite_tsx # t
  BY Sides, ReliesOnOther DEF Begun
<1>2. Tame(w, v) /\ v.inv = w.inv
  BY <1>1, FreshRequest, ServerMarkTame
<1>3. ServerEnds(w, t) = Forget(v, u, t)
  BY DEF ServerEnds
<1> HIDE DEF v, u
<1>4. Sound(v)
  BY <1>2 DEF Tame
<1>5. Tame(v, Forget(v, u, t))
  BY <1>1, <1>2, <1>4, ForgetTame
<1>6. QED
  BY <1>1, <1>2, <1>3, <1>4, <1>5, TameTrans

\* A request that is refused before the session sees it.
LEMMA RefusedTame ==
  ASSUME NEW w, Begun(w), NEW t \in 1..Len(w.tsx), w.tsx[t].server # "proceeding",
         NEW status \in Nat, status >= 300
  PROVE  Tame(w, ServerEnds(SendResponse(w, t, status, 0), t))
<1> DEFINE v == SendResponse(w, t, status, 0)
<1>1. Tame(w, v) /\ v.tsx[t].server # "proceeding" /\ Len(v.tsx) = Len(w.tsx)
  <2>1. t = 1 => w.inv["callee"].state \notin {"INCOMING", "EARLY"}
    BY FreshRequest
  <2>2. /\ Sound(w) /\ status >= 200 /\ 0 \in Nat
        /\ status \notin 200..299 \/ w.inv["callee"].state # "NULL"
    BY DEF Begun
  <2>3. Tame(w, v) /\ v.tsx[t].server # "proceeding"
    BY <2>1, <2>2, SendResponseTame
  <2>4. Len(v.tsx) = Len(w.tsx)
    BY <2>1, <2>2, SendResponseTame
  <2>5. QED
    BY <2>3, <2>4
<1> HIDE DEF v
<1>2. Begun(v)
  BY <1>1, TameFollows DEF Follows
<1>3. Tame(v, ServerEnds(v, t))
  BY <1>1, <1>2, ServerEndsTame
<1>4. QED
  BY <1>1, <1>3, TameTrans DEF Begun, v

\* A request that is ignored.
LEMMA IgnoreTame ==
  ASSUME NEW w, Begun(w), NEW t \in 1..Len(w.tsx), w.tsx[t].server # "proceeding"
  PROVE  Tame(w, Ignore(w, t))
BY FreshRequest, ServerMarkTame DEF Ignore, Begun

\* The first INVITE.
LEMMA RxFirstInviteFollows ==
  ASSUME NEW w, Begun(w), NEW t \in 1..Len(w.tsx), w.tsx[t].method = "INVITE",
         w.inv[Server(w, t)].state = "NULL"
  PROVE  Follows(w, RxFirstInvite(w, t))
<1> DEFINE sdp == w.tsx[1].sdp
           w1  == IF sdp = 0 THEN w
                  ELSE [w EXCEPT !.neg["callee"] = RemoteOffer(@, sdp, "long")]
           q   == [w1.inv["callee"] EXCEPT !.state = "INCOMING"]
           r   == [q EXCEPT !.invite_tsx = 1]
           y   == [w1 EXCEPT !.inv["callee"] = q]
           x   == [y EXCEPT !.inv["callee"] = r]
           v   == SendResponse(x, 1, 100, 0)
<1>1. /\ Sound(w) /\ Len(w.tsx) \in Nat /\ "callee" \in Ends /\ "caller" \in Ends
      /\ \A u \in Ends \ {"callee"} : u = "caller"
      /\ 1 \in 1..Len(w.tsx) /\ sdp \in Nat
      /\ w.neg["callee"] \in Negotiators(Nat) /\ w.inv["callee"].prov \in {"A", "B"}
      /\ Fits(w.neg["callee"], w.inv["callee"].prov)
  BY SoundParts DEF Begun, Ends
<1>2. t = 1 /\ Server(w, t) = "callee" /\ w.inv["callee"].state = "NULL"
  <2>1. Server(w, t) = "callee"
    BY <1>1, Sides DEF Begun, Course
  <2>2. w.inv["callee"].state = "NULL"
    BY <2>1
  <2>3. \A i \in 2..Len(w.tsx) : w.tsx[i].method # "INVITE"
    BY <2>2 DEF Begun, Course
  <2>4. t = 1 \/ t \in 2..Len(w.tsx)
    BY <1>1
  <2>5. QED
    BY <2>1, <2>2, <2>3, <2>4
<1>3. Media(w, w1)
  <2>1. CASE sdp = 0
    BY <1>1, <2>1, MediaRefl
  <2>2. CASE sdp # 0
    <3> DEFINE n == RemoteOffer(w.neg["callee"], sdp, "long")
    <3>1. n \in Negotiators(Nat) /\ Fits(n, w.inv["callee"].prov)
      BY <1>1, NegotiatorFits
    <3> HIDE DEF n
    <3>2. Media(w, [w EXCEPT !.neg["callee"] = n])
      BY <1>1, <3>1, PutNegMedia
    <3>3. w1 = [w EXCEPT !.neg["callee"] = n]
      BY <2>2 DEF n
    <3>4. QED
      BY <3>2, <3>3
  <2>3. QED
    BY <2>1, <2>2
<1>4. ASSUME y.inv["callee"] = q
      PROVE  RxFirstInvite(w, t) = v
  BY <1>2, <1>4 DEF RxFirstInvite
<1>5. w1.tsx = w.tsx
  BY <1>1, SoundParts DEF Worlds
<1> HIDE DEF w1, sdp
<1>6. /\ Sound(w1) /\ w1.inv["callee"] \in Sessions(Nat, Nat) /\ 1 \in 0..Len(w1.tsx)
      /\ w1.inv["caller"].state = w.inv["caller"].state
      /\ w1.inv["caller"].invite_tsx = w.inv["caller"].invite_tsx
      /\ w1.inv["callee"].invite_tsx \in 0..Len(w1.tsx)
  BY <1>1, <1>3, <1>5, SoundParts DEF Media
<1>7. /\ q \in Sessions(Nat, Nat) /\ q.prov = w1.inv["callee"].prov
      /\ q.invite_tsx = w1.inv["callee"].invite_tsx
      /\ r \in Sessions(Nat, Nat) /\ r.prov = q.prov
      /\ r.invite_tsx = 1 /\ r.state = "INCOMING"
  BY <1>6 DEF Sessions, States
<1> HIDE DEF q, r
<1>8. /\ Sound(x) /\ x.inv["callee"] = r /\ x.inv["caller"] = w1.inv["caller"]
      /\ x.tsx = w.tsx /\ y.inv["callee"] = q
  <2>1. /\ Sound(y) /\ y.inv["callee"] = q /\ y.inv["caller"] = w1.inv["caller"]
        /\ y.tsx = w1.tsx
    <3>1. /\ Sound(w1) /\ "callee" \in Ends /\ "caller" \in Ends \ {"callee"}
          /\ q \in Sessions(Nat, Nat) /\ q.prov = w1.inv["callee"].prov
          /\ q.invite_tsx \in 0..Len(w1.tsx)
      BY <1>6, <1>7 DEF Ends
    <3>2. QED
      BY <3>1, PutInvSound
  <2> HIDE DEF y
  <2>2. r.prov = y.inv["callee"].prov /\ r.invite_tsx \in 0..Len(y.tsx)
    BY <1>6, <1>7, <2>1
  <2>3. /\ x.inv["callee"] = r /\ Sound(x) /\ x.tsx = y.tsx
        /\ \A u \in Ends \ {"callee"} : x.inv[u] = y.inv[u]
    <3>1. Sound(y) /\ "callee" \in Ends /\ r \in Sessions(Nat, Nat)
      BY <1>1, <1>7, <2>1
    <3>2. QED
      BY <2>2, <3>1, PutInvSound
  <2>4. QED
    BY <1>1, <1>5, <2>1, <2>3, "caller" # "callee"
<1> HIDE DEF x, y
<1>9. /\ Sound(v) /\ Len(v.tsx) = Len(w.tsx) /\ v.inv = x.inv
      /\ \A i \in 1..Len(w.tsx) : /\ v.tsx[i].method = w.tsx[i].method
                                  /\ v.tsx[i].from = w.tsx[i].from
                                  /\ v.tsx[i].client = w.tsx[i].client
      /\ v.tsx[1].server = "proceeding"
      /\ \A i \in 1..Len(w.tsx) \ {1} : v.tsx[i] = w.tsx[i]
  BY <1>1, <1>8, SendResponseSound
<1> HIDE DEF v
<1>10. /\ v.inv["callee"].state = "INCOMING" /\ v.inv["callee"].invite_tsx = 1
       /\ v.inv["caller"].state = w.inv["caller"].state
       /\ v.inv["caller"].invite_tsx = w.inv["caller"].invite_tsx
  BY <1>6, <1>7, <1>8, <1>9
<1>11. Course(v)
  <2>1. \A u \in Ends, i \in 2..Len(v.tsx) :
           v.inv[u].state \in Ringing \cup {"NULL"} /\ v.tsx[i].method = "INVITE"
           => v.tsx[i].from # u
    <3>1. \A i \in 2..Len(v.tsx) : i \in 2..Len(w.tsx) /\ i \in 1..Len(w.tsx) \ {1}
      BY <1>1, <1>9
    <3>2. \A u \in Ends : v.inv[u].state \in Ringing \cup {"NULL"} =>
             w.inv[u].state \in Ringing \cup {"NULL"}
      BY <1>1, <1>2, <1>10
    <3>3. QED
      BY <1>1, <1>9, <3>1, <3>2 DEF Begun, Course
  <2>2. \A i \in 1..Len(v.tsx) : /\ v.tsx[i].server = "proceeding" => i = 1
                                 /\ v.tsx[i].method = "CANCEL" => v.tsx[i].from = "caller"
    BY <1>9 DEF Begun, Course
  <2>3. QED
    BY <1>1, <1>9, <1>10, <2>1, <2>2 DEF Begun, Course
<1>12. StayOver(w, v)
  BY <1>1, <1>2, <1>10 DEF StayOver
<1>13. Begun(v)
  BY <1>1, <1>9, <1>11 DEF Begun
<1>14. QED
  BY <1>4, <1>8, <1>12, <1>13 DEF Follows

\* A re-INVITE.
LEMMA RxReinviteTame ==
  ASSUME NEW w, Begun(w), NEW t \in 1..Len(w.tsx), w.tsx[t].server # "proceeding",
         w.tsx[t].method = "INVITE", NEW choice
  PROVE  Tame(w, RxReinvite(w, t, choice))
<1> DEFINE u == Server(w, t)
           i == w.inv[u].invite_tsx
           sdp == w.tsx[t].sdp
           r == [w.inv[u] EXCEPT !.invite_tsx = t]
           mine == [w EXCEPT !.inv[u] = r]
           asked == CheckSdpServer(mine, t, sdp, choice)
           n == ActiveOffer(mine.neg[u], w.inv[u].prov)
           offer == [mine EXCEPT !.neg[u] = n]
           withdrawn == [asked EXCEPT !.neg[u] = CancelOffer(@)]
           fits == choice = "answer"
<1>1. CASE w.inv[u].state # "CONFIRMED"
  <2>1. RxReinvite(w, t, choice) = Ignore(w, t)
    BY <1>1 DEF RxReinvite
  <2>2. QED
    BY <2>1, IgnoreTame
<1>2. CASE w.inv[u].state = "CONFIRMED"
  <2>1. /\ Sound(w) /\ u \in Ends /\ sdp \in Nat /\ Media(w, w) /\ w \in Worlds
        /\ w.inv[u] \in Sessions(Nat, Nat) /\ Len(w.tsx) \in Nat
        /\ t = 1 => u = "callee"
        /\ t = 1 => w.inv["callee"].state \notin {"INCOMING", "EARLY", "NULL"}
    BY <1>2, Sides, SoundParts, MediaRefl DEF Begun
  <2>2. RxReinvite(w, t, choice) =
           IF i # 0 THEN SendResponse(w, t, IF w.tsx[i].from = u THEN 491 ELSE 500, 0)
           ELSE IF w.neg[u].state # "DONE" THEN SendResponse(mine, t, 491, 0)
           ELSE IF sdp = 0 THEN Respond(offer, t, 200, TRUE)
           ELSE IF asked.neg[u].state # "WAIT_NEGO" THEN SendResponse(withdrawn, t, 488, 0)
           ELSE Respond(asked, t, 200, fits)
    BY <1>2 DEF RxReinvite
  <2>3. /\ Tame(w, SendResponse(w, t, 491, 0)) /\ Tame(w, SendResponse(w, t, 500, 0))
    <3>1. /\ Sound(w) /\ Media(w, w)
          /\ t = 1 => w.inv["callee"].state \notin {"INCOMING", "EARLY", "NULL"}
          /\ 491 \in Nat /\ 491 >= 200 /\ 500 \in Nat /\ 500 >= 200 /\ 0 \in Nat
      BY <2>1
    <3>2. Tame(w, SendResponse(w, t, 491, 0))
      BY <3>1, RespondsTame
    <3>3. Tame(w, SendResponse(w, t, 500, 0))
      BY <3>1, RespondsTame
    <3>4. QED
      BY <3>2, <3>3
  <2>4. /\ r \in Sessions(Nat, Nat) /\ r.prov = w.inv[u].prov /\ r.state = w.inv[u].state
        /\ r.invite_tsx \in 0..Len(w.tsx) /\ r.state \notin Ringing
    BY <1>2, <2>1 DEF Sessions, Ringing
  <2>5. /\ Tame(w, mine) /\ Sound(mine) /\ mine.inv[u] = r /\ mine.tsx = w.tsx
        /\ \A x \in Ends \ {u} : mine.inv[x] = w.inv[x]
    <3> HIDE DEF r, u
    <3>1. Tame(w, mine)
      BY <2>1, <2>4, PutInvTame
    <3>2. QED
      BY <2>1, <2>4, <3>1, PutInvSound
  <2> HIDE DEF mine, r
  <2>6. t = 1 => mine.inv["callee"].state \notin {"INCOMING", "EARLY", "NULL"}
    BY <2>1, <2>4, <2>5
  <2>7. /\ t \in 1..Len(mine.tsx) /\ mine.inv[u].prov = w.inv[u].prov
        /\ mine.neg[u] \in Negotiators(Nat) /\ mine.inv[u].prov \in {"A", "B"}
        /\ mine.neg[u].active_local.sdp \in Nat /\ Fits(mine.neg[u], mine.inv[u].prov)
        /\ Media(mine, mine)
    BY <2>1, <2>4, <2>5, SoundParts, MediaRefl
  <2>8. Media(mine, asked)
    BY <2>1, <2>5, <2>7, CheckSdpMedia
  <2>9. Media(mine, offer)
    <3>1. n \in Negotiators(Nat) /\ Fits(n, mine.inv[u].prov)
      BY <2>7, ActiveOfferFits
    <3> HIDE DEF n, u
    <3>2. QED
      BY <2>1, <2>5, <3>1, PutNegMedia
  <2> HIDE DEF asked, offer, u
  <2>10. Media(mine, withdrawn)
    <3>1. Sound(asked)
      BY <2>8 DEF Media
    <3>2. Media(asked, withdrawn)
      BY <2>1, <3>1, WithdrawMedia
    <3>3. QED
      BY <2>8, <3>2, MediaTrans
  <2> HIDE DEF withdrawn
  <2>11. /\ Tame(mine, SendResponse(mine, t, 491, 0))
         /\ Tame(mine, SendResponse(withdrawn, t, 488, 0))
    <3>1. Sound(mine) /\ t \in 1..Len(mine.tsx) /\ Media(mine, mine)
      BY <2>5, <2>7
    <3>2. Tame(mine, SendResponse(mine, t, 491, 0))
      BY <2>6, <3>1, RespondsTame
    <3>3. Tame(mine, SendResponse(withdrawn, t, 488, 0))
      BY <2>6, <2>10, <3>1, RespondsTame
    <3>4. QED
      BY <3>2, <3>3
  <2>12. Tame(mine, Respond(offer, t, 200, TRUE)) /\ Tame(mine, Respond(asked, t, 200, fits))
    <3>1. fits \in BOOLEAN /\ TRUE \in BOOLEAN
      OBVIOUS
    <3> HIDE DEF fits
    <3>2. Sound(mine) /\ t \in 1..Len(mine.tsx)
      BY <2>5, <2>7
    <3>3. Tame(mine, Respond(offer, t, 200, TRUE))
      BY <2>6, <2>9, <3>1, <3>2, RespondTame
    <3>4. Tame(mine, Respond(asked, t, 200, fits))
      BY <2>6, <2>8, <3>1, <3>2, RespondTame
    <3>5. QED
      BY <3>3, <3>4
  <2> HIDE DEF fits, sdp, i
  <2>13. \A x : Tame(mine, x) => Tame(w, x)
    BY <2>1, <2>5, TameTrans
  <2>14. /\ Tame(w, SendResponse(mine, t, 491, 0)) /\ Tame(w, SendResponse(withdrawn, t, 488, 0))
         /\ Tame(w, Respond(offer, t, 200, TRUE)) /\ Tame(w, Respond(asked, t, 200, fits))
    <3> HIDE DEF n, u, r, asked, offer
    <3>1. Tame(w, SendResponse(mine, t, 491, 0)) /\ Tame(w, SendResponse(withdrawn, t, 488, 0))
      BY <2>11, <2>13
    <3>2. Tame(w, Respond(offer, t, 200, TRUE))
      BY <2>12, <2>13
    <3>3. Tame(w, Respond(asked, t, 200, fits))
      BY <2>12, <2>13
    <3>4. QED
      BY <3>1, <3>2, <3>3
  <2> HIDE DEF n, u
  <2>15. CASE i # 0
    <3>1. CASE w.tsx[i].from = u
      <4>1. RxReinvite(w, t, choice) = SendResponse(w, t, 491, 0)
        BY <2>2, <2>15, <3>1
      <4>2. QED
        BY <2>3, <4>1
    <3>2. CASE w.tsx[i].from # u
      <4>1. RxReinvite(w, t, choice) = SendResponse(w, t, 500, 0)
        BY <2>2, <2>15, <3>2
      <4>2. QED
        BY <2>3, <4>1
    <3>3. QED
      BY <3>1, <3>2
  <2>16. CASE i = 0
    <3>1. CASE w.neg[u].state # "DONE"
      BY <2>2, <2>14, <2>16, <3>1
    <3>2. CASE w.neg[u].state = "DONE" /\ sdp = 0
      BY <2>2, <2>14, <2>16, <3>2
    <3>3. CASE w.neg[u].state = "DONE" /\ sdp # 0 /\ asked.neg[u].state # "WAIT_NEGO"
      BY <2>2, <2>14, <2>16, <3>3
    <3>4. CASE w.neg[u].state = "DONE" /\ sdp # 0 /\ asked.neg[u].state = "WAIT_NEGO"
      BY <2>2, <2>14, <2>16, <3>4
    <3>5. QED
      BY <3>1, <3>2, <3>3, <3>4
  <2>17. QED
    BY <2>15, <2>16
<1>3. QED
  BY <1>1, <1>2

\* An UPDATE.
LEMMA RxUpdateTame ==
  ASSUME NEW w, Begun(w), NEW t \in 1..Len(w.tsx), w.tsx[t].method # "INVITE", NEW choice
  PROVE  Tame(w, RxUpdate(w, t, choice))
<1> DEFINE u == Server(w, t)
           asked == CheckSdpServer(w, t, w.tsx[t].sdp, choice)
           fits == choice = "answer"
           agreed == Negotiate(asked, u, fits)
           withdrawn == [asked EXCEPT !.neg[u] = CancelOffer(@)]
           body == agreed.neg[u].active_local.sdp
<1>1. /\ Sound(w) /\ u \in Ends /\ w.tsx[t].sdp \in Nat /\ Media(w, w) /\ t # 1
      /\ fits \in BOOLEAN
  BY Sides, SoundParts, MediaRefl DEF Begun
<1>2. RxUpdate(w, t, choice) \in
         { SendResponse(w, t, 500, 0), SendResponse(w, t, 491, 0), SendResponse(w, t, 200, 0),
           SendResponse(withdrawn, t, 488, 0), SendResponse(agreed, t, 200, body),
           SendResponse(agreed, t, 488, 0) }
  BY DEF RxUpdate
<1>3. Media(w, asked)
  BY <1>1, CheckSdpMedia
<1> HIDE DEF asked, u, fits
<1>4. Media(asked, agreed) /\ Media(asked, withdrawn)
  <2>1. Sound(asked)
    BY <1>3 DEF Media
  <2>2. QED
    BY <1>1, <2>1, NegotiateMedia, WithdrawMedia
<1> HIDE DEF agreed, withdrawn
<1>5. Media(w, agreed) /\ Media(w, withdrawn)
  BY <1>3, <1>4, MediaTrans
<1>6. body \in Nat
  BY <1>1, <1>5, SoundParts DEF Media
<1> HIDE DEF body
<1>7. \A v \in {SendResponse(w, t, 500, 0), SendResponse(w, t, 491, 0),
                SendResponse(w, t, 200, 0)} : Tame(w, v)
  BY <1>1, RespondsTame
<1>8. \A v \in {SendResponse(withdrawn, t, 488, 0), SendResponse(agreed, t, 200, body),
                SendResponse(agreed, t, 488, 0)} : Tame(w, v)
  BY <1>1, <1>5, <1>6, RespondsTame
<1>9. QED
  BY <1>2, <1>7, <1>8

\* A BYE.
LEMMA RxByeTame ==
  ASSUME NEW w, Begun(w), NEW t \in 1..Len(w.tsx), w.tsx[t].server # "proceeding",
         w.tsx[t].method = "BYE"
  PROVE  Tame(w, RxBye(w, t))
<1> DEFINE u     == Server(w, t)
           i     == w.inv[u].invite_tsx
           r     == SendResponse(w, t, 200, 0)
           ended == Disconnect(r, u)
<1>1. /\ Sound(w) /\ u \in Ends /\ t # 1 /\ Len(w.tsx) \in Nat /\ 1 \in 1..Len(w.tsx)
  BY Sides, SoundParts DEF Begun
<1>2. Tame(w, r) /\ Len(r.tsx) = Len(w.tsx) /\ \A j \in 1..Len(w.tsx) \ {t} : r.tsx[j] = w.tsx[j]
  BY <1>1, SendResponseTame
<1> HIDE DEF r, u
<1>3. Sound(r)
  BY <1>2 DEF Tame
<1>4. /\ Tame(r, ended) /\ Sound(ended) /\ ended.tsx = r.tsx
      /\ ended.inv[u].state = "DISCONNECTED"
  BY <1>1, <1>3, DisconnectEffect
<1> HIDE DEF ended
<1>5. Tame(w, ended) /\ 1 \in 1..Len(ended.tsx)
  BY <1>1, <1>2, <1>4, TameTrans
<1>6. CASE w.inv[u].state \in {"NULL", "CALLING", "INCOMING"}
  <2>1. RxBye(w, t) = Ignore(w, t)
    BY <1>6 DEF RxBye, u
  <2>2. QED
    BY <2>1, IgnoreTame
<1>7. CASE w.inv[u].state = "EARLY"
  <2>1. i = 1 /\ w.tsx[1].from = "caller"
    BY <1>1, <1>7 DEF Begun, Course, Ends
  <2>2. CASE u = "caller"
    <3>1. RxBye(w, t) = [ended EXCEPT !.tsx[1].expires = TRUE]
      BY <1>7, <2>1, <2>2 DEF RxBye, u, i, ended, r
    <3>2. Tame(ended, [ended EXCEPT !.tsx[1].expires = TRUE])
      BY <1>4, <1>5, MarksMedia, MediaTame
    <3>3. QED
      BY <1>1, <1>5, <3>1, <3>2, TameTrans
  <2>3. CASE u = "callee"
    <3>1. RxBye(w, t) = SendResponse(ended, 1, 487, 0)
      BY <1>7, <2>1, <2>3 DEF RxBye, u, i, ended, r
    <3>2. ended.inv["callee"].state = "DISCONNECTED"
      BY <1>4, <2>3
    <3>3. Tame(ended, SendResponse(ended, 1, 487, 0))
      BY <1>4, <1>5, <3>2, SendResponseTame
    <3>4. QED
      BY <1>1, <1>5, <3>1, <3>3, TameTrans
  <2>4. QED
    BY <1>1, <2>2, <2>3 DEF Ends
<1>8. CASE w.inv[u].state \notin {"NULL", "CALLING", "INCOMING", "EARLY"}
  <2>1. RxBye(w, t) = ended
    BY <1>8 DEF RxBye, u, ended, r
  <2>2. QED
    BY <1>5, <2>1
<1>9. QED
  BY <1>6, <1>7, <1>8

\* A CANCEL.
LEMMA RxCancelTame ==
  ASSUME NEW w, Begun(w), NEW t \in 1..Len(w.tsx), w.tsx[t].server # "proceeding",
         w.tsx[t].method = "CANCEL"
  PROVE  Tame(w, RxCancel(w, t))
<1> DEFINE u == Server(w, t)
           i == w.tsx[t].of
           status == IF w.tsx[i].server = "terminated" THEN 481 ELSE 200
           r == SendResponse(w, t, status, 0)
<1>1. /\ Sound(w) /\ u = "callee" /\ t # 1 /\ Len(w.tsx) \in Nat
      /\ i \in 1..Len(w.tsx) /\ status \in Nat /\ status >= 200
  <2>1. w.tsx[t].from = "caller" /\ i \in 1..Len(w.tsx)
    BY DEF Begun, Course, Sound, Typed
  <2>2. QED
    BY <2>1, Sides, SoundParts DEF Begun, Server, Peer
<1>2. RxCancel(w, t) =
         IF w.inv[u].state \in {"INCOMING", "EARLY"} /\ w.tsx[i].server = "proceeding"
         THEN Disconnect(SendResponse(r, i, 487, 0), u) ELSE r
  BY DEF RxCancel
<1> HIDE DEF u, status
<1>3. Tame(w, r)
  BY <1>1, SendResponseTame
<1> HIDE DEF r
<1>4. CASE w.inv[u].state \in {"INCOMING", "EARLY"} /\ w.tsx[i].server = "proceeding"
  <2>1. i = 1
    BY <1>1, <1>4 DEF Begun, Course
  <2>2. Begun(r)
    BY <1>3, TameFollows DEF Follows
  <2>3. Tame(r, Disconnect(SendResponse(r, 1, 487, 0), "callee"))
    BY <2>2, RefuseTame
  <2>4. QED
    BY <1>1, <1>2, <1>3, <1>4, <2>1, <2>3, TameTrans
<1>5. CASE ~(w.inv[u].state \in {"INCOMING", "EARLY"} /\ w.tsx[i].server = "proceeding")
  BY <1>2, <1>3, <1>5
<1>6. QED
  BY <1>4, <1>5

\* A request that the dialog gives to the session.
LEMMA RxRequestFollows ==
  ASSUME NEW w, Begun(w), NEW t \in 1..Len(w.tsx), w.tsx[t].server # "proceeding", NEW choice
  PROVE  Follows(w, RxRequest(w, t, choice))
<1>1. w.tsx[t].method \in {"INVITE", "UPDATE", "BYE", "CANCEL"}
  BY SoundParts DEF Begun, Transactions
<1>2. CASE w.tsx[t].method = "INVITE" /\ w.inv[Server(w, t)].state = "NULL"
  BY <1>2, RxFirstInviteFollows DEF RxRequest
<1>3. CASE w.tsx[t].method = "INVITE" /\ w.inv[Server(w, t)].state # "NULL"
  BY <1>3, RxReinviteTame, TameFollows DEF RxRequest
<1>4. CASE w.tsx[t].method = "UPDATE"
  BY <1>4, RxUpdateTame, TameFollows DEF RxRequest
<1>5. CASE w.tsx[t].method = "BYE"
  BY <1>5, RxByeTame, TameFollows DEF RxRequest
<1>6. CASE w.tsx[t].method = "CANCEL"
  BY <1>6, RxCancelTame, TameFollows DEF RxRequest
<1>7. QED
  BY <1>1, <1>2, <1>3, <1>4, <1>5, <1>6

\* The ACK for a 2xx response.
LEMMA RxAckTame ==
  ASSUME NEW w, Begun(w), NEW t \in 1..Len(w.tsx), NEW sdp \in Nat, NEW choice
  PROVE  Tame(w, RxAck(w, t, sdp, choice))
<1> DEFINE u  == Server(w, t)
           w1 == IF Over(w, u) THEN w ELSE CheckSdpServer(w, t, sdp, choice)
           w2 == IF w.inv[u].state = "CONFIRMED" THEN Withdraw(w1, u) ELSE w1
           m  == [w2 EXCEPT !.tsx[t].server = "terminated"]
           w3 == Forget(m, u, t)
<1>1. Sound(w) /\ u \in Ends /\ Tame(w, w) /\ Media(w, w)
  BY Sides, MediaRefl, MediaTame DEF Begun
<1>2. RxAck(w, t, sdp, choice) =
         IF w.inv[u].invite_tsx # t \/ w.tsx[t].server # "completed" THEN w
         ELSE IF w.inv[u].state = "CONNECTING" THEN Confirm(w3, u) ELSE w3
  BY DEF RxAck
<1>3. CASE w.inv[u].invite_tsx # t \/ w.tsx[t].server # "completed"
  BY <1>1, <1>2, <1>3
<1>4. CASE w.inv[u].invite_tsx = t /\ w.tsx[t].server = "completed"
  <2>1. /\ t = 1 => w.inv["callee"].state \notin {"INCOMING", "EARLY"}
        /\ w.inv[u].state \notin Ringing
    BY <1>4, FreshRequest, ReliesOnOther
  <2>2. Media(w, w1)
    BY <1>1, CheckSdpMedia
  <2> HIDE DEF w1, u
  <2>3. Media(w1, w2)
    <3>1. Sound(w1)
      BY <2>2 DEF Media
    <3>2. Media(w1, w1) /\ Media(w1, Withdraw(w1, u))
      BY <1>1, <3>1, WithdrawMedia, MediaRefl
    <3>3. CASE w.inv[u].state = "CONFIRMED"
      BY <3>2, <3>3
    <3>4. CASE w.inv[u].state # "CONFIRMED"
      BY <3>2, <3>4
    <3>5. QED
      BY <3>3, <3>4
  <2> HIDE DEF w2
  <2>4. Media(w, w2)
    BY <2>2, <2>3, MediaTrans
  <2>5. /\ Sound(w2) /\ t \in 1..Len(w2.tsx) /\ w2.inv[u].state = w.inv[u].state
        /\ t = 1 => w2.inv["callee"].state \notin {"INCOMING", "EARLY"}
    BY <1>1, <2>1, <2>4 DEF Media, Ends
  <2>6. Tame(w2, m) /\ m.inv = w2.inv
    BY <2>5, ServerMarkTame
  <2> HIDE DEF m
  <2>7. Sound(m) /\ m.inv[u].state \notin Ringing
    BY <2>1, <2>5, <2>6 DEF Tame
  <2>8. Tame(m, w3) /\ w3.inv[u].state = w.inv[u].state
    BY <1>1, <2>5, <2>6, <2>7, ForgetTame
  <2> HIDE DEF w3
  <2>9. Tame(w, w3) /\ Sound(w3)
    <3>1. Tame(w, w2)
      BY <1>1, <2>4, MediaTame
    <3>2. Tame(w, m)
      BY <1>1, <2>6, <3>1, TameTrans
    <3>3. Tame(w, w3)
      BY <1>1, <2>8, <3>2, TameTrans
    <3>4. QED
      BY <3>3 DEF Tame
  <2>10. w.inv[u].state = "CONNECTING" => Tame(w3, Confirm(w3, u))
    BY <1>1, <2>8, <2>9, ConfirmTame
  <2>11. QED
    BY <1>1, <1>2, <1>4, <2>9, <2>10, TameTrans
<1>5. QED
  BY <1>3, <1>4

\* No ACK comes.
LEMMA OnNoAckTame ==
  ASSUME NEW w, Begun(w), NEW t \in 1..Len(w.tsx), w.tsx[t].server # "proceeding"
  PROVE  Tame(w, OnNoAck(w, t))
<1> DEFINE u == Server(w, t)
           v == SendBye(w, u)
<1>1. Sound(w) /\ u \in Ends
  BY Sides DEF Begun
<1>2. CASE ~(w.inv[u].state = "CONNECTING" /\ w.inv[u].invite_tsx = t)
  BY <1>2, ServerEndsTame DEF OnNoAck
<1>3. CASE w.inv[u].state = "CONNECTING" /\ w.inv[u].invite_tsx = t
  <2>1. OnNoAck(w, t) = ServerEnds(v, t)
    BY <1>3 DEF OnNoAck
  <2>2. Tame(w, v)
    BY <1>1, SendByeTame
  <2>3. t \in 1..Len(v.tsx) /\ v.tsx[t] = w.tsx[t]
    <3>1. 0 \in 0..Len(w.tsx) /\ Len(w.tsx) \in Nat
      BY <1>1, SoundParts
    <3> HIDE DEF u
    <3>2. Len(v.tsx) = Len(w.tsx) + 1 /\ \A i \in 1..Len(w.tsx) : v.tsx[i] = w.tsx[i]
      BY <1>1, <3>1, SendRequestEffect DEF SendBye
    <3>3. QED
      BY <3>1, <3>2
  <2> HIDE DEF v
  <2>4. Begun(v)
    BY <2>2, TameFollows DEF Follows
  <2>5. Tame(v, ServerEnds(v, t))
    BY <2>3, <2>4, ServerEndsTame
  <2>6. QED
    BY <1>1, <2>1, <2>2, <2>5, TameTrans
<1>4. QED
  BY <1>2, <1>3

\* A world in which every transaction is tidied, as an action leaves it.
Tidied(w) == [w EXCEPT !.tsx = [t \in 1..Len(w.tsx) |-> Tidy(w.tsx[t])]]

\* What is left of a transaction that nobody looks at again.
LEMMA TidyKeeps ==
  ASSUME NEW x \in Transactions(Nat, Nat)
  PROVE  LET y == Tidy(x)
         IN  /\ y \in Transactions(Nat, Nat)
             /\ y.method = x.method /\ y.from = x.from /\ y.of = x.of
             /\ y.client = x.client /\ y.server = x.server /\ y.status \in {x.status, 0}
<1> DEFINE a == [x EXCEPT !.sdp = 0, !.body = 0]
           b == [a EXCEPT !.done = FALSE, !.answered = FALSE]
           c == [b EXCEPT !.expires = FALSE, !.status = 0]
<1>1. /\ a \in Transactions(Nat, Nat)
      /\ a.method = x.method /\ a.from = x.from /\ a.of = x.of
      /\ a.client = x.client /\ a.server = x.server
  BY DEF Transactions
<1>2. [x EXCEPT !.sdp = 0, !.body = 0, !.done = FALSE, !.answered = FALSE,
                !.expires = FALSE, !.status = 0] = c
  OBVIOUS
<1> HIDE DEF a
<1>3. /\ b \in Transactions(Nat, Nat)
      /\ b.method = x.method /\ b.from = x.from /\ b.of = x.of
      /\ b.client = x.client /\ b.server = x.server
  BY <1>1 DEF Transactions
<1> HIDE DEF b
<1>4. /\ c \in Transactions(Nat, Nat)
      /\ c.method = x.method /\ c.from = x.from /\ c.of = x.of
      /\ c.client = x.client /\ c.server = x.server /\ c.status = 0
  BY <1>3 DEF Transactions
<1> HIDE DEF c
<1>5. QED
  BY <1>2, <1>4 DEF Tidy

\* Tidying is tame.
LEMMA TidiedTame ==
  ASSUME NEW w, Sound(w)
  PROVE  Tame(w, Tidied(w))
<1> DEFINE q == [t \in 1..Len(w.tsx) |-> Tidy(w.tsx[t])]
           v == [w EXCEPT !.tsx = q]
<1>1. /\ w \in Worlds /\ Len(w.tsx) \in Nat
      /\ \A t \in 1..Len(w.tsx) : w.tsx[t] \in Transactions(Nat, Nat)
  BY SoundParts
<1>2. \A t \in 1..Len(w.tsx) :
         /\ q[t] \in Transactions(Nat, Nat)
         /\ q[t].method = w.tsx[t].method /\ q[t].from = w.tsx[t].from /\ q[t].of = w.tsx[t].of
         /\ q[t].client = w.tsx[t].client /\ q[t].server = w.tsx[t].server
         /\ q[t].status \in {w.tsx[t].status, 0}
  BY <1>1, TidyKeeps
<1>3. q \in Seq(Transactions(Nat, Nat)) /\ Len(q) = Len(w.tsx)
  <2> DEFINE S == Transactions(Nat, Nat)
             n == Len(w.tsx)
  <2>1. q \in [1..n -> S] /\ n \in Nat
    BY <1>1, <1>2
  <2> HIDE DEF q, S, n
  <2>2. q \in Seq(S) /\ Len(q) = n
    BY <2>1
  <2>3. QED
    BY <2>2 DEF S, n
<1> HIDE DEF q
<1>4. /\ v \in Worlds /\ v.tsx = q /\ v.inv = w.inv /\ v.neg = w.neg /\ v.acks = w.acks
      /\ v.sdps = w.sdps
  BY <1>1, <1>3 DEF Worlds
<1> HIDE DEF v
<1>5. Sound(v)
  BY <1>1, <1>2, <1>3, <1>4 DEF Sound, Typed, Pooled
<1>6. \A t \in 1..Len(v.tsx) : ~(t > Len(w.tsx))
  BY <1>1, <1>3, <1>4
<1>7. Len(w.tsx) > 0 =>
         /\ v.tsx[1].client = w.tsx[1].client /\ v.tsx[1].server = w.tsx[1].server
         /\ v.tsx[1].status \in {w.tsx[1].status} \cup (Nat \ 200..299)
  <2>1. Len(w.tsx) > 0 => 1 \in 1..Len(w.tsx)
    BY <1>1
  <2>2. 0 \in Nat \ 200..299
    OBVIOUS
  <2>3. SUFFICES ASSUME Len(w.tsx) > 0
                 PROVE  /\ q[1].client = w.tsx[1].client /\ q[1].server = w.tsx[1].server
                        /\ q[1].status \in {w.tsx[1].status} \cup (Nat \ 200..299)
    BY <1>4
  <2>4. 1 \in 1..Len(w.tsx)
    BY <2>1, <2>3
  <2>5. /\ q[1].client = w.tsx[1].client /\ q[1].server = w.tsx[1].server
        /\ q[1].status \in {w.tsx[1].status, 0}
    BY <1>2, <2>4
  <2>6. QED
    BY <2>2, <2>5
<1>8. Tame(w, v)
  <2>1. \A t \in 1..Len(w.tsx) : /\ v.tsx[t].method = w.tsx[t].method
                                 /\ v.tsx[t].from = w.tsx[t].from
                                 /\ v.tsx[t].of = w.tsx[t].of
                                 /\ v.tsx[t].server = w.tsx[t].server
    BY <1>2, <1>4
  <2>2. Len(v.tsx) >= Len(w.tsx) /\ v.inv = w.inv
    BY <1>1, <1>3, <1>4
  <2> HIDE DEF Ringing
  <2>3. QED
    BY <1>5, <1>6, <1>7, <2>1, <2>2 DEF Tame
<1>9. QED
  BY <1>8 DEF Tidied, v, q

\* An action leaves the world that its handler does, tidied.
LEMMA Becoming ==
  ASSUME NEW w, Sound(w), Becomes(w)
  PROVE  World' = Tidied(w)
<1>1. w \in Worlds
  BY SoundParts
<1>2. /\ inv' = w.inv /\ neg' = w.neg /\ acks' = w.acks /\ sdps' = w.sdps
      /\ tsx' = [t \in 1..Len(w.tsx) |-> Tidy(w.tsx[t])]
  BY DEF Becomes
<1>3. World' = [inv |-> w.inv, neg |-> w.neg,
                tsx |-> [t \in 1..Len(w.tsx) |-> Tidy(w.tsx[t])],
                acks |-> w.acks, sdps |-> w.sdps]
  BY <1>2 DEF World
<1> DEFINE q == [t \in 1..Len(w.tsx) |-> Tidy(w.tsx[t])]
<1>4. Tidied(w) = [w EXCEPT !.tsx = q]
  BY DEF Tidied
<1> HIDE DEF q
<1>5. [w EXCEPT !.tsx = q] = [inv |-> w.inv, neg |-> w.neg, tsx |-> q,
                              acks |-> w.acks, sdps |-> w.sdps]
  BY <1>1 DEF Worlds
<1>6. QED
  BY <1>3, <1>4, <1>5 DEF q

\* So a handler that follows keeps the invariant.
LEMMA Step ==
  ASSUME IInv, NEW w, Follows(World, w), Becomes(w)
  PROVE  IInv' /\ StayOver(World, World')
<1>1. Begun(w) /\ Sound(w)
  BY DEF Follows, Begun
<1>2. Follows(w, Tidied(w))
  BY <1>1, TidiedTame, TameFollows
<1>3. Follows(World, Tidied(w))
  BY <1>2, FollowsTrans
<1>4. World' = Tidied(w)
  BY <1>1, Becoming
<1>5. Begun(World') /\ StayOver(World, World')
  BY <1>3, <1>4 DEF Follows
<1>6. QED
  BY <1>5 DEF IInv, Begun

\* A session that has come to be, and is not over, has a request.
LEMMA HasBegun ==
  ASSUME NEW w, Sound(w), Course(w), NEW u \in Ends, w.inv[u].state \notin {"NULL", "DISCONNECTED"}
  PROVE  Begun(w)
<1>1. Len(w.tsx) \in Nat /\ w.inv["caller"].invite_tsx \in 0..Len(w.tsx)
  BY SoundParts DEF Ends
<1>2. Len(w.tsx) # 0
  <2>1. CASE u = "callee"
    BY <2>1 DEF Course
  <2>2. CASE u = "caller"
    BY <1>1, <2>2 DEF Course
  <2>3. QED
    BY <2>1, <2>2 DEF Ends
<1>3. QED
  BY <1>1, <1>2 DEF Begun

\* pjsip_inv_invite, after an offer is made or not.
LEMMA InviteFollows ==
  ASSUME NEW w, Sound(w), Course(w), w.inv["caller"].state = "NULL",
         NEW v, Media(w, v), NEW sdp \in Nat
  PROVE  Follows(w, SetState(SendRequest(v, "caller", "INVITE", sdp, 0), "caller", "CALLING"))
<1> DEFINE r == SendRequest(v, "caller", "INVITE", sdp, 0)
           x == SetState(r, "caller", "CALLING")
<1>1. /\ Len(w.tsx) = 0 /\ w.inv["callee"].state = "NULL"
      /\ "caller" \in Ends /\ "callee" \in Ends /\ "CALLING" \in States
      /\ \A u \in Ends \ {"caller"} : u = "callee"
  BY DEF Course, Ends, States
<1>2. Sound(v) /\ Len(v.tsx) = 0 /\ v.inv["callee"].state = "NULL" /\ 0 \in 0..Len(v.tsx)
  BY <1>1 DEF Media
<1>3. /\ Sound(r) /\ Len(r.tsx) = 1
      /\ r.tsx[1].method = "INVITE" /\ r.tsx[1].from = "caller" /\ r.tsx[1].server = "none"
      /\ r.tsx[1].client = "calling" /\ r.tsx[1].status = 0
      /\ r.inv["callee"].state = "NULL" /\ r.inv["caller"].invite_tsx = 1
  <2>1. Sound(v) /\ 0 \in 0..Len(v.tsx)
    BY <1>2
  <2>2. /\ Sound(r) /\ Len(r.tsx) = Len(v.tsx) + 1
        /\ r.tsx[Len(v.tsx) + 1].method = "INVITE" /\ r.tsx[Len(v.tsx) + 1].from = "caller"
        /\ r.tsx[Len(v.tsx) + 1].server = "none" /\ r.tsx[Len(v.tsx) + 1].client = "calling"
        /\ r.tsx[Len(v.tsx) + 1].status = 0
        /\ \A u \in Ends : r.inv[u].state = v.inv[u].state
        /\ r.inv["caller"].invite_tsx = Len(v.tsx) + 1
    BY <1>1, <2>1, SendRequestEffect
  <2>3. Len(v.tsx) + 1 = 1
    BY <1>2
  <2> HIDE DEF r
  <2>4. QED
    BY <1>1, <1>2, <2>2, <2>3
<1> HIDE DEF r
<1>4. /\ Sound(x) /\ x.tsx = r.tsx /\ x.inv["caller"].state = "CALLING"
      /\ x.inv["caller"].invite_tsx = 1 /\ x.inv["callee"].state = "NULL"
  BY <1>1, <1>3, SetStateEffect, "caller" # "callee"
<1> HIDE DEF x
<1>5. Course(x)
  <2>1. Len(x.tsx) = 1
    BY <1>3, <1>4
  <2>2. \A t \in 1..Len(x.tsx) : t = 1
    BY <2>1
  <2>3. \A t \in 2..Len(x.tsx) : x.tsx[t].method # "INVITE"
    BY <2>1
  <2>4. /\ x.tsx[1].method = "INVITE" /\ x.tsx[1].from = "caller" /\ x.tsx[1].server = "none"
        /\ x.tsx[1].client = "calling" /\ x.tsx[1].status = 0 /\ 0 \notin 200..299
    BY <1>3, <1>4
  <2>5. \A t \in 1..Len(x.tsx) : /\ x.tsx[t].server = "proceeding" => t = 1
                                 /\ x.tsx[t].method = "CANCEL" => x.tsx[t].from = "caller"
    BY <2>2, <2>4
  <2>6. QED
    BY <1>4, <2>1, <2>3, <2>4, <2>5 DEF Course
<1>6. StayOver(w, x)
  BY <1>1 DEF StayOver
<1>7. QED
  BY <1>3, <1>4, <1>5, <1>6 DEF Follows, Begun, x, r

\* A re-INVITE, after an offer is made or not.
LEMMA ReinviteFollows ==
  ASSUME NEW w, Begun(w), NEW u \in Ends, w.inv[u].state = "CONFIRMED",
         NEW v, Media(w, v), NEW sdp \in Nat
  PROVE  Follows(w, SendRequest(v, u, "INVITE", sdp, 0))
<1> DEFINE x == SendRequest(v, u, "INVITE", sdp, 0)
           n == Len(w.tsx) + 1
<1>1. /\ Sound(w) /\ Len(w.tsx) \in Nat /\ 1 \in 1..Len(w.tsx)
      /\ "caller" \in Ends /\ "callee" \in Ends
  BY SoundParts DEF Begun, Ends
<1>2. /\ Sound(v) /\ Len(v.tsx) = Len(w.tsx) /\ 0 \in 0..Len(v.tsx)
      /\ \A e \in Ends : /\ v.inv[e].state = w.inv[e].state
                         /\ v.inv[e].invite_tsx = w.inv[e].invite_tsx
  BY <1>1 DEF Media
<1>3. /\ Sound(x) /\ Len(x.tsx) = n
      /\ \A t \in 1..Len(w.tsx) : x.tsx[t] = v.tsx[t]
      /\ x.tsx[n].method = "INVITE" /\ x.tsx[n].from = u /\ x.tsx[n].server = "none"
      /\ \A e \in Ends : x.inv[e].state = w.inv[e].state
      /\ \A e \in Ends \ {u} : x.inv[e].invite_tsx = w.inv[e].invite_tsx
  <2>1. /\ Sound(x) /\ Len(x.tsx) = Len(v.tsx) + 1
        /\ \A t \in 1..Len(v.tsx) : x.tsx[t] = v.tsx[t]
        /\ x.tsx[Len(v.tsx) + 1].method = "INVITE" /\ x.tsx[Len(v.tsx) + 1].from = u
        /\ x.tsx[Len(v.tsx) + 1].server = "none"
        /\ \A e \in Ends : x.inv[e].state = v.inv[e].state
        /\ \A e \in Ends \ {u} : x.inv[e] = v.inv[e]
    BY <1>2, SendRequestEffect
  <2> HIDE DEF x
  <2>2. QED
    BY <1>2, <2>1
<1> HIDE DEF x
<1>4. /\ \A t \in 1..Len(w.tsx) : /\ x.tsx[t].method = w.tsx[t].method
                                  /\ x.tsx[t].from = w.tsx[t].from
                                  /\ x.tsx[t].client = w.tsx[t].client
                                  /\ x.tsx[t].server = w.tsx[t].server
                                  /\ x.tsx[t].status = w.tsx[t].status
      /\ \A t \in 1..Len(x.tsx) : t \in 1..Len(w.tsx) \/ t = n
      /\ \A t \in 2..Len(x.tsx) : (t \in 1..Len(w.tsx) /\ t \in 2..Len(w.tsx)) \/ t = n
  BY <1>1, <1>3 DEF Media
<1> HIDE DEF n
<1>5. w.inv["callee"].state # "NULL" /\ w.inv[u].state \notin Ringing \cup {"NULL"}
  BY DEF Begun, Course, Ringing, Ends
<1>6. \A e \in Ends : x.inv[e].state \in Ringing => x.inv[e].invite_tsx = w.inv[e].invite_tsx
  BY <1>3, <1>5
<1>7. Course(x)
  <2>1. \A t \in 1..Len(x.tsx) : /\ x.tsx[t].server = "proceeding" => t = 1
                                 /\ x.tsx[t].method = "CANCEL" => x.tsx[t].from = "caller"
    <3>1. \A t \in 1..Len(w.tsx) : /\ x.tsx[t].server = "proceeding" => t = 1
                                   /\ x.tsx[t].method = "CANCEL" => x.tsx[t].from = "caller"
      BY <1>4 DEF Begun, Course
    <3>2. x.tsx[n].server # "proceeding" /\ x.tsx[n].method # "CANCEL"
      BY <1>3
    <3>3. QED
      BY <1>4, <3>1, <3>2
  <2>2. \A e \in Ends : x.inv[e].state \in Ringing \cup {"NULL"} =>
           \A t \in 2..Len(x.tsx) : x.tsx[t].method = "INVITE" => x.tsx[t].from # e
    BY <1>3, <1>4, <1>5 DEF Begun, Course
  <2>3. /\ Len(x.tsx) > 0 /\ x.tsx[1].method = w.tsx[1].method /\ x.tsx[1].from = w.tsx[1].from
        /\ x.tsx[1].client = w.tsx[1].client /\ x.tsx[1].server = w.tsx[1].server
    BY <1>1, <1>3, <1>4 DEF n
  <2>4. /\ x.inv["caller"].state = w.inv["caller"].state
        /\ x.inv["callee"].state = w.inv["callee"].state
        /\ x.inv["caller"].state \in Ringing =>
              x.inv["caller"].invite_tsx = w.inv["caller"].invite_tsx
        /\ x.inv["callee"].state \in Ringing =>
              x.inv["callee"].invite_tsx = w.inv["callee"].invite_tsx
    BY <1>1, <1>3, <1>6
  <2>5. QED
    BY <1>1, <1>5, <2>1, <2>2, <2>3, <2>4 DEF Begun, Course, Ringing
<1>8. StayOver(w, x)
  BY <1>3 DEF StayOver
<1>9. Len(x.tsx) > 0
  BY <1>1, <1>3 DEF n
<1>10. QED
  BY <1>3, <1>7, <1>8, <1>9 DEF Follows, Begun, x

\* pjsip_inv_answer, when the call is to go on.
LEMMA AnswerFollows ==
  ASSUME NEW w, Begun(w), w.inv["callee"].state \in {"INCOMING", "EARLY"},
         NEW v, Media(w, v), NEW status \in Nat, NEW body \in Nat, NEW s,
         \/ status < 200 /\ s = "EARLY"
         \/ status >= 200 /\ s = "CONNECTING"
  PROVE  Follows(w, SetState(SendResponse(v, 1, status, body), "callee", s))
<1> DEFINE r == SendResponse(v, 1, status, body)
           x == SetState(r, "callee", s)
<1>1. /\ Sound(w) /\ Len(w.tsx) \in Nat /\ 1 \in 1..Len(w.tsx) /\ "callee" \in Ends
      /\ "caller" \in Ends /\ \A u \in Ends \ {"callee"} : u = "caller"
      /\ s \in States
  BY SoundParts DEF Begun, Ends, States
<1>2. /\ Sound(v) /\ 1 \in 1..Len(v.tsx) /\ Len(v.tsx) = Len(w.tsx)
      /\ v.inv["caller"].state = w.inv["caller"].state
      /\ v.inv["caller"].invite_tsx = w.inv["caller"].invite_tsx
      /\ v.inv["callee"].invite_tsx = w.inv["callee"].invite_tsx
  BY <1>1 DEF Media
<1>3. /\ Sound(r) /\ Len(r.tsx) = Len(v.tsx) /\ r.inv = v.inv
      /\ \A i \in 1..Len(v.tsx) : /\ r.tsx[i].method = v.tsx[i].method
                                  /\ r.tsx[i].from = v.tsx[i].from
                                  /\ r.tsx[i].client = v.tsx[i].client
      /\ status < 200 => r.tsx[1].server = "proceeding"
      /\ \A i \in 1..Len(v.tsx) \ {1} : r.tsx[i] = v.tsx[i]
  BY <1>2, SendResponseSound
<1> HIDE DEF r
<1>4. /\ Sound(x) /\ x.tsx = r.tsx /\ x.inv["callee"].state = s
      /\ x.inv["callee"].invite_tsx = r.inv["callee"].invite_tsx
      /\ x.inv["caller"] = r.inv["caller"]
  BY <1>1, <1>3, SetStateEffect, "caller" # "callee"
<1> HIDE DEF x
<1>5. /\ Len(x.tsx) = Len(w.tsx)
      /\ \A i \in 1..Len(w.tsx) : /\ x.tsx[i].method = w.tsx[i].method
                                  /\ x.tsx[i].from = w.tsx[i].from
                                  /\ x.tsx[i].client = w.tsx[i].client
                                  /\ i # 1 => x.tsx[i].server = w.tsx[i].server
      /\ x.inv["caller"].state = w.inv["caller"].state
      /\ x.inv["caller"].invite_tsx = w.inv["caller"].invite_tsx
  BY <1>1, <1>2, <1>3, <1>4 DEF Media
<1>6. /\ w.inv["callee"].invite_tsx = 1
      /\ x.inv["callee"].state = "EARLY" =>
            x.inv["callee"].invite_tsx = 1 /\ x.tsx[1].server = "proceeding"
      /\ x.inv["callee"].state \in {"EARLY", "CONNECTING"}
  BY <1>2, <1>3, <1>4 DEF Begun, Course
<1>7. Course(x)
  <2>1. \A i \in 1..Len(x.tsx) : /\ x.tsx[i].server = "proceeding" => i = 1
                                 /\ x.tsx[i].method = "CANCEL" => x.tsx[i].from = "caller"
    BY <1>5 DEF Begun, Course
  <2>2. \A u \in Ends : x.inv[u].state \in Ringing \cup {"NULL"} =>
           w.inv[u].state \in Ringing \cup {"NULL"}
    BY <1>1, <1>5 DEF Ringing
  <2>3. \A u \in Ends : x.inv[u].state \in Ringing \cup {"NULL"} =>
           \A i \in 2..Len(x.tsx) : x.tsx[i].method = "INVITE" => x.tsx[i].from # u
    <3>1. \A i \in 2..Len(x.tsx) : i \in 1..Len(w.tsx) /\ i \in 2..Len(w.tsx)
      BY <1>1, <1>5
    <3>2. QED
      BY <1>5, <2>2, <3>1 DEF Begun, Course
  <2>4. QED
    BY <1>1, <1>5, <1>6, <2>1, <2>3 DEF Begun, Course
<1>8. StayOver(w, x)
  BY <1>1, <1>5 DEF StayOver
<1>9. QED
  BY <1>1, <1>4, <1>5, <1>7, <1>8 DEF Follows, Begun, x, r

\* The variables are the parts of the world.
LEMMA WorldIs ==
  /\ World.inv = inv /\ World.neg = neg /\ World.tsx = tsx
  /\ World.acks = acks /\ World.sdps = sdps
BY DEF World

\* The application makes an offer.
LEMMA MakeOfferMedia ==
  ASSUME NEW w, Sound(w), NEW u \in Ends, NEW k \in Nat, NEW sdp \in Nat,
         NEW pool \in {"long", w.inv[u].prov}
  PROVE  Media(w, [w EXCEPT !.sdps = k, !.neg[u] = LocalOffer(@, sdp, pool)])
<1> DEFINE y == [w EXCEPT !.sdps = k]
           n == LocalOffer(y.neg[u], sdp, pool)
<1>1. [w EXCEPT !.sdps = k, !.neg[u] = LocalOffer(@, sdp, pool)] = [y EXCEPT !.neg[u] = n]
  OBVIOUS
<1>2. Media(w, y) /\ y.inv = w.inv
  BY PutSdpsMedia, SoundParts DEF Worlds
<1> HIDE DEF y
<1>3. Sound(y) /\ y.neg[u] \in Negotiators(Nat) /\ Fits(y.neg[u], y.inv[u].prov)
      /\ y.inv[u].prov \in {"A", "B"} /\ pool \in {"long", y.inv[u].prov}
  BY <1>2, SoundParts DEF Media
<1>4. n \in Negotiators(Nat) /\ Fits(n, y.inv[u].prov)
  BY <1>3, NegotiatorFits
<1> HIDE DEF n
<1>5. Media(y, [y EXCEPT !.neg[u] = n])
  BY <1>3, <1>4, PutNegMedia
<1>6. QED
  BY <1>1, <1>2, <1>5, MediaTrans

\* pjsip_inv_create_uac and pjsip_inv_invite.
LEMMA InviteStep ==
  ASSUME IInv, NEW offer \in BOOLEAN, Invite(offer)
  PROVE  IInv' /\ StayOver(World, World')
<1> DEFINE made == IF offer THEN [World EXCEPT !.sdps = 1,
                                               !.neg["caller"] = LocalOffer(@, 1, "long")]
                            ELSE World
           sdp  == made.neg["caller"].local.sdp
           v    == SetState(SendRequest(made, "caller", "INVITE", sdp, 0), "caller", "CALLING")
<1>1. Becomes(v)
  BY DEF Invite
<1>2. /\ World.inv["caller"].state = "NULL" /\ "caller" \in Ends
      /\ Sound(World) /\ Course(World)
  BY WorldIs DEF Invite, IInv, Ends
<1>3. Media(World, made)
  BY <1>2, MakeOfferMedia, MediaRefl
<1> HIDE DEF made
<1>4. sdp \in Nat
  BY <1>2, <1>3, SoundParts DEF Media
<1> HIDE DEF sdp
<1>5. Follows(World, v)
  BY <1>2, <1>3, <1>4, InviteFollows
<1> HIDE DEF v
<1>6. QED
  BY <1>1, <1>5, Step

\* pjsip_inv_reinvite.
LEMMA ReinviteStep ==
  ASSUME IInv, NEW u \in Ends, NEW offer \in BOOLEAN, Reinvite(u, offer)
  PROVE  IInv' /\ StayOver(World, World')
<1> DEFINE w     == World
           state == neg[u].state
           next  == w.sdps + 1
           pool  == inv[u].prov
           made  == IF ~offer \/ state \in {"LOCAL_OFFER", "WAIT_NEGO"} THEN w
                    ELSE IF state = "REMOTE_OFFER" THEN AnswerOffer(w, u)
                    ELSE [w EXCEPT !.sdps = next, !.neg[u] = LocalOffer(@, next, pool)]
           n     == made.neg[u]
           sdp   == IF n.state = "LOCAL_OFFER" \/ HasLocalAnswer(n) THEN n.local.sdp ELSE 0
           v     == SendRequest(made, u, "INVITE", sdp, 0)
<1>1. Becomes(v)
  BY DEF Reinvite
<1>2. World.inv[u].state = "CONFIRMED" /\ Sound(World) /\ Begun(World)
  BY WorldIs, HasBegun DEF Reinvite, IInv
<1>3. next \in Nat /\ pool \in {"long", World.inv[u].prov}
  BY <1>2, WorldIs, SoundParts
<1> HIDE DEF next, pool
<1>4. /\ Media(World, World) /\ Media(World, AnswerOffer(World, u))
      /\ Media(World, [World EXCEPT !.sdps = next, !.neg[u] = LocalOffer(@, next, pool)])
  BY <1>2, <1>3, MakeOfferMedia, MediaRefl, AnswerOfferMedia
<1>5. Media(World, made)
  BY <1>4
<1> HIDE DEF made
<1>6. sdp \in Nat
  BY <1>2, <1>5, SoundParts DEF Media
<1> HIDE DEF sdp
<1>7. Follows(World, v)
  BY <1>2, <1>5, <1>6, ReinviteFollows
<1> HIDE DEF v
<1>8. QED
  BY <1>1, <1>7, Step

\* pjsip_inv_update, or the session timer.
LEMMA UpdateStep ==
  ASSUME IInv, NEW u \in Ends, NEW offer \in BOOLEAN, Update(u, offer)
  PROVE  IInv' /\ StayOver(World, World')
<1> DEFINE w    == World
           next == w.sdps + 1
           made == [w EXCEPT !.sdps = next, !.neg[u] = LocalOffer(@, next, w.inv[u].prov)]
           v    == SendRequest(made, u, "UPDATE", next, 0)
           x    == SendRequest(w, u, "UPDATE", 0, 0)
<1>1. Becomes(IF offer THEN v ELSE x)
  BY DEF Update
<1>2. /\ Sound(World) /\ Begun(World) /\ 0 \in 0..Len(World.tsx) /\ next \in Nat
      /\ World.inv[u].prov \in {"long", World.inv[u].prov}
  <2>1. World.inv[u].state \in {"EARLY", "CONNECTING", "CONFIRMED"}
    BY WorldIs DEF Update
  <2>2. Sound(World) /\ Begun(World)
    BY <2>1, HasBegun DEF IInv
  <2>3. QED
    BY <2>2, SoundParts
<1> HIDE DEF next
<1>3. Media(World, made)
  BY <1>2, MakeOfferMedia
<1> HIDE DEF made
<1>4. Sound(made) /\ 0 \in 0..Len(made.tsx)
  BY <1>2, <1>3 DEF Media
<1>5. Tame(made, v) /\ Tame(World, x)
  BY <1>2, <1>4, SendRequestTame
<1>6. Follows(World, made)
  BY <1>2, <1>3, MediaFollows
<1> HIDE DEF v, x
<1>7. Follows(World, v) /\ Follows(World, x)
  BY <1>2, <1>5, <1>6, TameFollows
<1>8. Follows(World, IF offer THEN v ELSE x)
  BY <1>7
<1>9. QED
  BY <1>1, <1>8, Step
\* The INVITE is answered, with what the application gives.
Accept(w, t, status) == Respond(w, t, status, TRUE)

\* process_answer and the state that the callee comes to.
LEMMA AcceptFollows ==
  ASSUME NEW w, Begun(w), w.inv["callee"].state \in {"INCOMING", "EARLY"},
         NEW v, Media(w, v), NEW status \in Nat
  PROVE  LET r == Accept(v, 1, status)
         IN  /\ status < 200 => Follows(w, SetState(r, "callee", "EARLY"))
             /\ status >= 200 => Follows(w, SetState(r, "callee", "CONNECTING"))
<1>1. Sound(v) /\ 1 \in 1..Len(v.tsx)
  BY SoundParts DEF Begun, Media
<1>2. PICK fits \in BOOLEAN : fits = TRUE
  OBVIOUS
<1>3. Accept(v, 1, status) = Respond(v, 1, status, fits)
  BY <1>2 DEF Accept
<1>4. Responds(v, 1, status, fits, Respond(v, 1, status, fits))
  BY <1>1, RespondEffect
<1>5. PICK x : \E body \in Nat, k \in {status, 500} :
         /\ Media(v, x) /\ Respond(v, 1, status, fits) = SendResponse(x, 1, k, body)
         /\ fits = TRUE => k = status
  BY <1>4 DEF Responds
<1>6. PICK body \in Nat, k \in {status, 500} :
         /\ Media(v, x) /\ Respond(v, 1, status, fits) = SendResponse(x, 1, k, body)
         /\ fits = TRUE => k = status
  BY <1>5
<1>7. Media(w, x) /\ Accept(v, 1, status) = SendResponse(x, 1, status, body)
  BY <1>2, <1>3, <1>6, MediaTrans
<1>8. LET r == SendResponse(x, 1, status, body)
      IN  /\ status < 200 => Follows(w, SetState(r, "callee", "EARLY"))
          /\ status >= 200 => Follows(w, SetState(r, "callee", "CONNECTING"))
  BY <1>7, AnswerFollows
<1>9. QED
  BY <1>7, <1>8

\* The callee's application offers.
Offered(w, u) == [w EXCEPT !.sdps = @ + 1, !.neg[u] = LocalOffer(@, w.sdps + 1, "long")]

\* What the callee's application gives with its answer.
LEMMA GivenMedia ==
  ASSUME NEW w, Sound(w), NEW u \in Ends
  PROVE  Media(w, w) /\ Media(w, AnswerOffer(w, u)) /\ Media(w, Offered(w, u))
<1> DEFINE k == w.sdps + 1
<1>1. k \in Nat
  BY SoundParts
<1>2. Offered(w, u) = [w EXCEPT !.sdps = k, !.neg[u] = LocalOffer(@, k, "long")]
  BY DEF Offered
<1> HIDE DEF k
<1>3. Media(w, [w EXCEPT !.sdps = k, !.neg[u] = LocalOffer(@, k, "long")])
  BY <1>1, MakeOfferMedia
<1>4. QED
  BY <1>2, <1>3, MediaRefl, AnswerOfferMedia

\* pjsip_inv_answer.
LEMMA AnswerStep ==
  ASSUME IInv, NEW status \in {183, 200, 486}, NEW give \in BOOLEAN, Answer(status, give)
  PROVE  IInv' /\ StayOver(World, World')
<1> DEFINE t     == inv["callee"].invite_tsx
           given == IF ~give THEN World
                    ELSE IF neg["callee"].state = "REMOTE_OFFER"
                         THEN AnswerOffer(World, "callee") ELSE Offered(World, "callee")
<1>1. World.inv["callee"].state \in {"INCOMING", "EARLY"} /\ "callee" \in Ends
  BY WorldIs DEF Answer, Ends
<1>2. Sound(World) /\ Begun(World)
  BY <1>1, HasBegun DEF IInv
<1>3. t = 1
  BY <1>1, WorldIs DEF IInv, Course
<1>4. Becomes(CASE status = 183 -> SetState(Accept(given, t, 183), "callee", "EARLY")
                [] status = 200 -> SetState(Accept(given, t, 200), "callee", "CONNECTING")
                [] OTHER        -> Disconnect(SendResponse(World, t, status, 0), "callee"))
  BY DEF Answer, Offered, Accept
<1>5. Media(World, given)
  BY <1>1, <1>2, GivenMedia
<1> HIDE DEF given, t
<1>6. /\ Follows(World, SetState(Accept(given, 1, 183), "callee", "EARLY"))
      /\ Follows(World, SetState(Accept(given, 1, 200), "callee", "CONNECTING"))
  BY <1>1, <1>2, <1>5, AcceptFollows
<1>7. CASE status = 183
  <2>1. Becomes(SetState(Accept(given, 1, 183), "callee", "EARLY"))
    BY <1>3, <1>4, <1>7
  <2>2. QED
    BY <1>6, <2>1, Step
<1>8. CASE status = 200
  <2>1. Becomes(SetState(Accept(given, 1, 200), "callee", "CONNECTING"))
    BY <1>3, <1>4, <1>8
  <2>2. QED
    BY <1>6, <2>1, Step
<1>9. CASE status = 486
  <2>1. Tame(World, Disconnect(SendResponse(World, 1, 486, 0), "callee"))
    BY <1>2, RefuseTame
  <2>2. Follows(World, Disconnect(SendResponse(World, 1, 486, 0), "callee"))
    BY <1>2, <2>1, TameFollows
  <2>3. Becomes(Disconnect(SendResponse(World, 1, 486, 0), "callee"))
    BY <1>3, <1>4, <1>9
  <2>4. QED
    BY <2>2, <2>3, Step
<1>10. QED
  BY <1>7, <1>8, <1>9

\* pjsip_inv_end_session.
LEMMA EndSessionStep ==
  ASSUME IInv, NEW u \in Ends, EndSession(u)
  PROVE  IInv' /\ StayOver(World, World')
<1> DEFINE w == [World EXCEPT !.inv[u].hungup = TRUE]
           p == [w EXCEPT !.inv[u].pending_cancel = TRUE]
<1>1. World.inv[u].state \notin {"NULL", "DISCONNECTED"}
  BY WorldIs DEF EndSession
<1>2. Sound(World) /\ Begun(World)
  BY <1>1, HasBegun DEF IInv
<1>3. CASE /\ inv[u].state \in {"CALLING", "EARLY"} /\ u = "caller"
           /\ Becomes(IF tsx[inv[u].invite_tsx].code < 100 THEN p ELSE SendCancel(w, u))
  <2>1. Media(World, w)
    BY <1>2, NotesMedia
  <2> HIDE DEF w
  <2>2. /\ Sound(w) /\ Begun(w) /\ Follows(World, w)
        /\ w.inv["caller"].state \in {"CALLING", "EARLY"}
    BY <1>2, <1>3, <2>1, WorldIs, MediaFollows DEF Media, Follows
  <2>3. Follows(w, p)
    BY <2>2, NotesMedia, MediaFollows
  <2> HIDE DEF p
  <2>4. Follows(w, SendCancel(w, u))
    BY <1>3, <2>2, SendCancelTame, TameFollows
  <2>5. Follows(World, p) /\ Follows(World, SendCancel(w, u))
    BY <2>2, <2>3, <2>4, FollowsTrans
  <2>6. CASE tsx[inv[u].invite_tsx].code < 100
    <3>1. Becomes(p)
      BY <1>3, <2>6
    <3>2. QED
      BY <2>5, <3>1, Step
  <2>7. CASE ~(tsx[inv[u].invite_tsx].code < 100)
    <3>1. Becomes(SendCancel(w, u))
      BY <1>3, <2>7
    <3>2. QED
      BY <2>5, <3>1, Step
  <2>8. QED
    BY <2>6, <2>7
<1>4. CASE Becomes(SendBye(World, u))
  <2>1. Follows(World, SendBye(World, u))
    BY <1>2, SendByeTame, TameFollows
  <2>2. QED
    BY <1>4, <2>1, Step
<1>5. QED
  BY <1>3, <1>4 DEF EndSession

\* The application.
LEMMA ApplicationStep ==
  ASSUME IInv, Application
  PROVE  IInv' /\ StayOver(World, World')
BY InviteStep, ReinviteStep, UpdateStep, AnswerStep, EndSessionStep DEF Application

\* Every transaction in the network belongs to a call that was begun.
LEMMA Underway ==
  ASSUME IInv, NEW t \in 1..Len(tsx)
  PROVE  /\ Begun(World) /\ Sound(World) /\ t \in 1..Len(World.tsx)
         /\ t \in Nat /\ tsx[t].of \in Nat /\ tsx[t].code \in Nat /\ tsx[t].status \in Nat
         /\ tsx[t].body \in Nat /\ Server(World, t) \in Ends
         /\ tsx[t].method \in {"INVITE", "UPDATE", "BYE", "CANCEL"}
<1>1. /\ Sound(World) /\ World.tsx = tsx /\ Len(tsx) \in Nat
  BY WorldIs, SoundParts DEF IInv
<1>2. Begun(World) /\ t \in 1..Len(World.tsx)
  BY <1>1 DEF Begun, IInv
<1>3. World.tsx[t] \in Transactions(Nat, Nat) /\ Server(World, t) \in Ends
  BY <1>1, <1>2, SoundParts
<1>4. QED
  BY <1>1, <1>2, <1>3 DEF Transactions

\* pjsip_dlg_on_rx_request.
LEMMA ReceiveStep ==
  ASSUME IInv, NEW t \in 1..Len(tsx), NEW choice, Receive(t, choice)
  PROVE  IInv' /\ StayOver(World, World')
<1> DEFINE u    == Server(World, t)
           cseq == IF tsx[t].method = "CANCEL" THEN tsx[t].of ELSE t
           w    == [World EXCEPT !.inv[u].remote_cseq = cseq]
           late == ServerEnds(SendResponse(World, t, 500, 0), t)
           gone == ServerEnds(SendResponse(World, t, 481, 0), t)
           x    == RxRequest(w, t, choice)
<1>1. /\ Begun(World) /\ Sound(World) /\ t \in 1..Len(World.tsx) /\ u \in Ends /\ cseq \in Nat
  BY Underway
<1>2. World.tsx[t].server = "none"
  BY WorldIs DEF Receive
<1>3. Becomes(late) \/ Becomes(x) \/ Becomes(gone)
  BY DEF Receive
<1> HIDE DEF u, cseq
<1>4. Tame(World, w) /\ w.tsx = World.tsx
  BY <1>1, CSeqTame
<1> HIDE DEF w
<1>5. Follows(World, w) /\ Begun(w) /\ t \in 1..Len(w.tsx) /\ w.tsx[t].server # "proceeding"
  BY <1>1, <1>2, <1>4, TameFollows DEF Follows
<1>6. Follows(w, x)
  BY <1>5, RxRequestFollows
<1>7. Follows(World, late) /\ Follows(World, gone)
  <2>1. World.tsx[t].server # "proceeding"
    BY <1>2
  <2>2. Tame(World, late) /\ Tame(World, gone)
    BY <1>1, <2>1, RefusedTame
  <2> HIDE DEF late, gone
  <2>3. QED
    BY <1>1, <2>2, TameFollows
<1> HIDE DEF x, late, gone
<1>8. Follows(World, x)
  BY <1>5, <1>6, FollowsTrans
<1>9. QED
  BY <1>3, <1>7, <1>8, Step

\* A provisional response.
LEMMA ProgressStep ==
  ASSUME IInv, NEW t \in 1..Len(tsx), NEW choice, Progress(t, choice)
  PROVE  IInv' /\ StayOver(World, World')
<1>1. Begun(World) /\ t \in 1..Len(World.tsx)
  BY Underway
<1>2. /\ World.tsx[t].server = "proceeding" /\ World.tsx[t].client = "calling"
      /\ Becomes(OnProgress(World, t, choice))
  BY WorldIs DEF Progress, Waits
<1>3. QED
  BY <1>1, <1>2, OnProgressFollows, Step

\* A client transaction that is not an INVITE gets a final response or none.
LEMMA FinishesTame ==
  ASSUME IInv, NEW t \in 1..Len(tsx), tsx[t].method # "INVITE",
         NEW client \in {"completed", "terminated"}, NEW code \in Nat, NEW body \in Nat,
         NEW choice
  PROVE  /\ Follows(World, OnUpdate(World, t, client, code, body, choice))
         /\ Follows(World, OnBye(World, t, code)) /\ Follows(World, OnCancel(World, t, code))
<1>1. Begun(World) /\ t \in 1..Len(World.tsx) /\ World.tsx[t].method # "INVITE"
  BY Underway, WorldIs
<1>2. /\ Tame(World, OnUpdate(World, t, client, code, body, choice))
      /\ Tame(World, OnBye(World, t, code)) /\ Tame(World, OnCancel(World, t, code))
  BY <1>1, OnUpdateTame, OnByeTame, OnCancelTame
<1>3. QED
  BY <1>1, <1>2, TameFollows

\* A final response.
LEMMA FinalStep ==
  ASSUME IInv, NEW t \in 1..Len(tsx), NEW choice, Final(t, choice)
  PROVE  IInv' /\ StayOver(World, World')
<1> DEFINE code == tsx[t].status
           ok   == OnInviteOk(World, t, choice)
           no   == OnInviteFailure(World, t, "completed", code)
           upd  == OnUpdate(World, t, "completed", code, tsx[t].body, choice)
           bye  == OnBye(World, t, code)
           can  == OnCancel(World, t, code)
<1>1. Begun(World) /\ t \in 1..Len(World.tsx) /\ code \in Nat /\ tsx[t].body \in Nat
  BY Underway
<1>2. Becomes(CASE tsx[t].method = "INVITE" -> IF code < 300 THEN ok ELSE no
                [] tsx[t].method = "UPDATE" -> upd
                [] tsx[t].method = "BYE"    -> bye
                [] OTHER                    -> can)
  BY DEF Final
<1>3. tsx[t].method # "INVITE" => Follows(World, upd) /\ Follows(World, bye) /\ Follows(World, can)
  BY <1>1, FinishesTame
<1>4. Follows(World, no)
  BY <1>1, OnInviteFailureTame, TameFollows
<1>5. tsx[t].method = "INVITE" /\ code < 300 => Follows(World, ok)
  <2>1. World.tsx[t] = tsx[t]
    BY WorldIs
  <2>2. code < 300 => code \in 200..299
    <3>1. code \in Nat /\ code >= 200
      BY <1>1 DEF Final
    <3> HIDE DEF code
    <3>2. QED
      BY <3>1
  <2>3. QED
    BY <1>1, <2>1, <2>2, OnInviteOkFollows
<1> HIDE DEF ok, no, upd, bye, can, code
<1>6. CASE tsx[t].method = "INVITE" /\ code < 300
  <2>1. Becomes(ok)
    BY <1>2, <1>6
  <2>2. QED
    BY <1>5, <1>6, <2>1, Step
<1>7. CASE tsx[t].method = "INVITE" /\ ~(code < 300)
  <2>1. Becomes(no)
    BY <1>2, <1>7
  <2>2. QED
    BY <1>4, <2>1, Step
<1>8. CASE tsx[t].method # "INVITE"
  <2>1. Becomes(upd) \/ Becomes(bye) \/ Becomes(can)
    BY <1>2, <1>8
  <2>2. QED
    BY <1>3, <1>8, <2>1, Step
<1>9. QED
  BY <1>6, <1>7, <1>8

\* Timers D and K.
LEMMA ClientEndsStep ==
  ASSUME IInv, NEW t \in 1..Len(tsx), ClientEnds(t)
  PROVE  IInv' /\ StayOver(World, World')
<1> DEFINE no  == OnInviteFailure(World, t, "terminated", tsx[t].code)
           upd == OnUpdate(World, t, "terminated", tsx[t].code, 0, "decline")
<1>1. Begun(World) /\ t \in 1..Len(World.tsx) /\ tsx[t].code \in Nat
  BY Underway
<1>2. Becomes(IF tsx[t].method = "INVITE" THEN no ELSE upd)
  BY DEF ClientEnds
<1>3. Follows(World, no)
  BY <1>1, OnInviteFailureTame, TameFollows
<1>4. tsx[t].method # "INVITE" => Follows(World, upd)
  BY <1>1, FinishesTame
<1> HIDE DEF no, upd
<1>5. CASE tsx[t].method = "INVITE"
  <2>1. Becomes(no)
    BY <1>2, <1>5
  <2>2. QED
    BY <1>3, <2>1, Step
<1>6. CASE tsx[t].method # "INVITE"
  <2>1. Becomes(upd)
    BY <1>2, <1>6
  <2>2. QED
    BY <1>4, <1>6, <2>1, Step
<1>7. QED
  BY <1>5, <1>6

\* Timers B and F, and the timeout of an INVITE that is cancelled.
LEMMA TimeoutStep ==
  ASSUME IInv, NEW t \in 1..Len(tsx), Timeout(t)
  PROVE  IInv' /\ StayOver(World, World')
<1> DEFINE no  == OnInviteFailure(World, t, "terminated", 408)
           upd == OnUpdate(World, t, "terminated", 408, 0, "decline")
           bye == OnBye(World, t, 408)
           can == OnCancel(World, t, 408)
<1>1. Begun(World) /\ t \in 1..Len(World.tsx)
  BY Underway
<1>2. Becomes(CASE tsx[t].method = "INVITE" -> no
                [] tsx[t].method = "UPDATE" -> upd
                [] tsx[t].method = "BYE"    -> bye
                [] OTHER                    -> can)
  BY DEF Timeout
<1>3. Follows(World, no)
  BY <1>1, OnInviteFailureTame, TameFollows
<1>4. tsx[t].method # "INVITE" => Follows(World, upd) /\ Follows(World, bye) /\ Follows(World, can)
  BY FinishesTame
<1> HIDE DEF no, upd, bye, can
<1>5. CASE tsx[t].method = "INVITE"
  <2>1. Becomes(no)
    BY <1>2, <1>5
  <2>2. QED
    BY <1>3, <2>1, Step
<1>6. CASE tsx[t].method # "INVITE"
  <2>1. Becomes(upd) \/ Becomes(bye) \/ Becomes(can)
    BY <1>2, <1>6
  <2>2. QED
    BY <1>4, <1>6, <2>1, Step
<1>7. QED
  BY <1>5, <1>6

\* The ACK for a 2xx response.
LEMMA ReceiveAckStep ==
  ASSUME IInv, NEW ack \in acks, NEW choice, ReceiveAck(ack, choice)
  PROVE  IInv' /\ StayOver(World, World')
<1> DEFINE u == Server(World, ack.t)
           A == World.acks \ {ack}
           y == [World EXCEPT !.acks = A]
           w == [y EXCEPT !.inv[u].remote_cseq = ack.t]
           x == RxAck(w, ack.t, ack.sdp, choice)
<1>1. /\ Sound(World) /\ ack \in World.acks /\ ack.t \in 1..Len(World.tsx)
      /\ World.acks \in SUBSET [t : Nat, sdp : Nat]
      /\ \A a \in World.acks : a.t \in 1..Len(World.tsx)
  BY WorldIs DEF IInv, Sound, Typed, Worlds
<1>2. Begun(World) /\ u \in Ends /\ ack.t \in Nat /\ ack.sdp \in Nat
  BY <1>1, SoundParts DEF IInv, Begun
<1>3. A \in SUBSET [t : Nat, sdp : Nat] /\ \A a \in A : a.t \in 1..Len(World.tsx)
  BY <1>1
<1>4. ASSUME y.inv = World.inv
      PROVE  Becomes(x)
  <2>1. [World EXCEPT !.acks = @ \ {ack}, !.inv[u].remote_cseq = ack.t] = w
    BY <1>4
  <2>2. Becomes(RxAck([World EXCEPT !.acks = @ \ {ack}, !.inv[u].remote_cseq = ack.t],
                      ack.t, ack.sdp, choice))
    BY DEF ReceiveAck
  <2> HIDE DEF u, w
  <2>3. QED
    BY <2>1, <2>2
<1> HIDE DEF u, A
<1>5. Tame(World, y) /\ y.inv = World.inv /\ y.tsx = World.tsx
  BY <1>1, <1>3, PutAcksTame
<1> HIDE DEF y
<1>6. Follows(World, y) /\ Begun(y) /\ Sound(y)
  BY <1>2, <1>5, TameFollows DEF Follows, Begun
<1>7. Tame(y, w) /\ w.tsx = y.tsx
  BY <1>2, <1>6, CSeqTame
<1> HIDE DEF w
<1>8. Follows(y, w) /\ Begun(w) /\ ack.t \in 1..Len(w.tsx)
  BY <1>1, <1>5, <1>6, <1>7, TameFollows DEF Follows
<1>9. Follows(w, x)
  BY <1>2, <1>8, RxAckTame, TameFollows
<1> HIDE DEF x
<1>10. Follows(World, x)
  BY <1>6, <1>8, <1>9, FollowsTrans
<1>11. QED
  BY <1>4, <1>5, <1>10, Step

\* An ACK is lost.
LEMMA LoseAckStep ==
  ASSUME IInv, NEW ack \in acks, LoseAck(ack)
  PROVE  IInv' /\ StayOver(World, World')
<1> DEFINE A == World.acks \ {ack}
           y == [World EXCEPT !.acks = A]
<1>1. /\ Sound(World) /\ ack \in World.acks /\ ack.t \in 1..Len(World.tsx)
      /\ World.acks \in SUBSET [t : Nat, sdp : Nat]
      /\ \A a \in World.acks : a.t \in 1..Len(World.tsx)
  BY WorldIs DEF IInv, Sound, Typed, Worlds
<1>2. Begun(World)
  BY <1>1, SoundParts DEF IInv, Begun
<1>3. A \in SUBSET [t : Nat, sdp : Nat] /\ \A a \in A : a.t \in 1..Len(World.tsx)
  BY <1>1
<1>4. World' = y
  BY DEF World, LoseAck
<1> HIDE DEF A
<1>5. Tame(World, y)
  BY <1>1, <1>3, PutAcksTame
<1> HIDE DEF y
<1>6. Follows(World, y)
  BY <1>2, <1>5, TameFollows
<1>7. Begun(World') /\ StayOver(World, World')
  BY <1>4, <1>6 DEF Follows
<1>8. QED
  BY <1>7 DEF IInv, Begun

\* A refusal is acknowledged.
LEMMA ReceiveNackStep ==
  ASSUME IInv, NEW t \in 1..Len(tsx), ReceiveNack(t)
  PROVE  IInv' /\ StayOver(World, World')
<1>1. Begun(World) /\ t \in 1..Len(World.tsx)
  BY Underway
<1>2. World.tsx[t].server # "proceeding" /\ Becomes(ServerEnds(World, t))
  BY WorldIs DEF ReceiveNack
<1>3. QED
  BY <1>1, <1>2, ServerEndsTame, TameFollows, Step

\* A 2xx response comes again.
LEMMA AgainStep ==
  ASSUME IInv, NEW t \in 1..Len(tsx), Again(t)
  PROVE  IInv' /\ StayOver(World, World')
<1> DEFINE u == Client(World, t)
<1>1. /\ Begun(World) /\ Sound(World) /\ t \in 1..Len(World.tsx) /\ u \in Ends
      /\ World.tsx[t].from = u
      /\ t = 1 => u = "caller"
      /\ t # 1 => t \in 2..Len(World.tsx)
  BY Underway, Sides
<1>2. /\ World.tsx[t].method = "INVITE" /\ World.tsx[t].client = "terminated"
      /\ Becomes(SendAck(World, t, "answer"))
  BY WorldIs DEF Again
<1> HIDE DEF u
<1>3. World.inv[u].state \notin Ringing \cup {"NULL"}
  <2>1. CASE t = 1
    <3>1. u = "caller" /\ World.tsx[1].client = "terminated" /\ Len(World.tsx) > 0
      BY <1>1, <1>2, <2>1
    <3>2. World.inv["caller"].state \notin {"NULL", "INCOMING"}
      BY <1>1, <3>1 DEF Begun, Course
    <3>3. World.inv["caller"].state \notin {"CALLING", "EARLY"}
      BY <1>1, <3>1 DEF Begun, Course
    <3>4. QED
      BY <3>1, <3>2, <3>3 DEF Ringing
  <2>2. CASE t # 1
    BY <1>1, <1>2, <2>2 DEF Begun, Course
  <2>3. QED
    BY <2>1, <2>2
<1>4. Tame(World, SendAck(World, t, "answer"))
  BY <1>1, <1>3, SendAckTame DEF u
<1>5. QED
  BY <1>1, <1>2, <1>4, TameFollows, Step

\* No ACK comes.
LEMMA NoAckStep ==
  ASSUME IInv, NEW t \in 1..Len(tsx), NoAck(t)
  PROVE  IInv' /\ StayOver(World, World')
<1>1. Begun(World) /\ t \in 1..Len(World.tsx)
  BY Underway
<1>2. World.tsx[t].server # "proceeding" /\ Becomes(OnNoAck(World, t))
  BY WorldIs DEF NoAck
<1>3. QED
  BY <1>1, <1>2, OnNoAckTame, TameFollows, Step

\* The network and the timers.
LEMMA NetworkStep ==
  ASSUME IInv, Network
  PROVE  IInv' /\ StayOver(World, World')
<1>1. CASE \E ack \in acks : LoseAck(ack) \/ \E choice \in Choices : ReceiveAck(ack, choice)
  BY <1>1, LoseAckStep, ReceiveAckStep
<1>2. CASE \E t \in 1..Len(tsx), choice \in Choices :
              Receive(t, choice) \/ Progress(t, choice) \/ Final(t, choice)
  BY <1>2, ReceiveStep, ProgressStep, FinalStep
<1>3. CASE \E t \in 1..Len(tsx) :
              ClientEnds(t) \/ Timeout(t) \/ ReceiveNack(t) \/ Again(t) \/ NoAck(t)
  BY <1>3, ClientEndsStep, TimeoutStep, ReceiveNackStep, AgainStep, NoAckStep
<1>4. QED
  BY <1>1, <1>2, <1>3 DEF Network

-----------------------------------------------------------------------------
(* The theorems *)

\* There is no call at first.
LEMMA InitIInv ==
  ASSUME Init
  PROVE  IInv
<1> DEFINE w == World
<1>1. /\ w.inv = [u \in Ends |-> NoSession] /\ w.neg = [u \in Ends |-> NoNegotiator]
      /\ w.tsx = <<>> /\ w.acks = {} /\ w.sdps = 0
  BY WorldIs DEF Init
<1>2. NoSession \in Sessions(Nat, Nat) /\ NoNegotiator \in Negotiators(Nat)
  BY DEF NoSession, Sessions, States, NoNegotiator, Negotiators, NegStates, Copies, NoCopy, Copy
<1>3. World \in Worlds
  <2>1. /\ inv \in [Ends -> Sessions(Nat, Nat)] /\ neg \in [Ends -> Negotiators(Nat)]
        /\ tsx \in Seq(Transactions(Nat, Nat)) /\ acks \in SUBSET [t : Nat, sdp : Nat]
        /\ sdps \in Nat
    BY <1>2 DEF Init
  <2>2. QED
    BY <2>1 DEF World, Worlds
<1>4. Len(w.tsx) = 0 /\ \A t \in 1..Len(w.tsx) : FALSE
  BY <1>1
<1>5. \A u \in Ends : /\ w.inv[u].state = "NULL" /\ w.inv[u].invite_tsx = 0
                      /\ w.inv[u].prov = "A" /\ w.neg[u] = NoNegotiator
  BY <1>1 DEF NoSession
<1>6. Fits(NoNegotiator, "A")
  BY DEF Fits, NoNegotiator, NoCopy, Copy
<1> HIDE DEF w
<1>7. Sound(w)
  BY <1>1, <1>3, <1>4, <1>5, <1>6 DEF Sound, Typed, Pooled, w
<1>8. Course(w)
  <2>1. "caller" \in Ends /\ "callee" \in Ends
    BY DEF Ends
  <2>2. \A t \in 2..Len(w.tsx) : FALSE
    BY <1>4
  <2>3. QED
    BY <1>4, <1>5, <2>1, <2>2 DEF Course
<1>9. QED
  BY <1>7, <1>8 DEF IInv, w

\* Every step keeps the invariant, and calls that have ended over.
LEMMA NextStep ==
  ASSUME IInv, [Next]_vars
  PROVE  IInv' /\ StayOver(World, World')
<1>1. CASE UNCHANGED vars
  <2>1. World' = World
    BY <1>1 DEF vars, World
  <2>2. QED
    BY <2>1 DEF IInv, StayOver
<1>2. CASE Next
  BY <1>2, ApplicationStep, NetworkStep DEF Next
<1>3. QED
  BY <1>1, <1>2

\* The invariant that the others rest on, for any Budget and any switches: what
\* refers to a transaction refers to one that there is, the pools hold what they
\* should, and the call keeps to its course.
THEOREM Invariant == Spec => []IInv
<1>1. Init => IInv
  BY InitIInv
<1>2. IInv /\ [Next]_vars => IInv'
  BY NextStep
<1>3. QED
  BY <1>1, <1>2, PTL DEF Spec

\* A session that is not answered has the INVITE that it dereferences when a BYE or
\* CANCEL arrives or the application hangs up (inv->invite_tsx in
\* inv_on_state_early and pjsip_inv_end_session).
THEOREM InviteIsThere == Spec => []InviteTsxAlive
<1>1. IInv => InviteTsxAlive
  BY WorldIs DEF IInv, Course, InviteTsxAlive, Ends
<1>2. QED
  BY <1>1, Invariant, PTL

\* The descriptions that are being negotiated, and the active ones, are in no pool
\* that was reset (pool_prov and pool_active of sip_inv.h).  Nothing is said of
\* initial_sdp, which is: OriginAlive is violated.
THEOREM PoolsAlive == Spec => []SdpAlive
<1>1. ASSUME IInv
      PROVE  SdpAlive
  <2>1. SUFFICES ASSUME NEW u \in Ends
                 PROVE  "stale" \notin {neg[u].local.pool, neg[u].remote.pool,
                                        neg[u].active_local.pool, neg[u].active_remote.pool}
    BY DEF SdpAlive
  <2>2. Fits(neg[u], inv[u].prov) /\ inv[u].prov \in {"A", "B"}
    BY <1>1, WorldIs, SoundParts DEF IInv
  <2>3. QED
    BY <2>2 DEF Fits, Other
<1>2. QED
  BY <1>1, Invariant, PTL

\* A call that has ended stays so, whatever arrives late.
THEOREM OverStaysOver == Spec => StaysDisconnected
<1>1. IInv /\ [Next]_vars =>
         [\A u \in Ends : inv[u].state = "DISCONNECTED" => inv'[u].state = "DISCONNECTED"]_vars
  <2>1. SUFFICES ASSUME IInv, [Next]_vars
                 PROVE  \A u \in Ends :
                           inv[u].state = "DISCONNECTED" => inv'[u].state = "DISCONNECTED"
    OBVIOUS
  <2>2. StayOver(World, World')
    BY <2>1, NextStep
  <2>3. World.inv = inv /\ World'.inv = inv'
    BY DEF World
  <2>4. QED
    BY <2>2, <2>3 DEF StayOver
<1>2. QED
  BY <1>1, Invariant, PTL DEF Spec, StaysDisconnected

=============================================================================
