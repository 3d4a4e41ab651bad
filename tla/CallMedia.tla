------------------------------ MODULE CallMedia ------------------------------
(***************************************************************************)
(* The two ends of a call agree on its media, for any Budget, if the       *)
(* applications are patient and neither refreshes nor late timers          *)
(* interfere: the theorem MediaAgrees.                                     *)
(*                                                                         *)
(* Each handler of InvSession and SdpNeg is shown to take one of the steps *)
(* of CallOffers (the lemmas that end in Settles), and each action of Call *)
(* to end in what its handlers leave (those that end in Onward).           *)
(***************************************************************************)
EXTENDS CallOffers

(* What the operators that negotiate do *)

\* What inv_check_sdp_in_incoming_msg leaves of the negotiator of u, in which a
\* description was seen before or not.
Checks(w, v, u, sdp, seen, marked, choice) ==
    LET n == w.neg[u]
        m == v.neg[u]
    IN  \/ /\ sdp = 0 \/ seen \/ n.state \in {"REMOTE_OFFER", "WAIT_NEGO"}
           /\ m = n /\ marked = seen
        \/ /\ sdp # 0 /\ ~seen /\ n.state \in {"NULL", "DONE"} /\ marked = seen
           /\ m.state = (IF choice = "decline" THEN "REMOTE_OFFER" ELSE "WAIT_NEGO")
           /\ m.remote.sdp = sdp /\ (choice # "decline" => m.local.sdp = w.sdps + 1)
           /\ m.active_local = n.active_local /\ m.active_remote = n.active_remote
           /\ m.has_remote_answer = n.has_remote_answer
        \/ /\ sdp # 0 /\ ~seen /\ n.state = "LOCAL_OFFER" /\ marked
           /\ Done(w, v, u, n.local.sdp, sdp)

\* The end u negotiates in transaction t.
Deals2(w, v, u, t) ==
    /\ Frame(w, v, {u}, {t}) /\ v.acks = w.acks /\ SameSession(w.inv[u], v.inv[u])
    /\ v.tsx[t].sdp = w.tsx[t].sdp /\ v.tsx[t].client = w.tsx[t].client

\* It does so without a transaction.
LEMMA DealsDeals2 ==
  ASSUME NEW w, Sound(w), NEW u \in Ends, NEW t, NEW v, Deals(w, v, u)
  PROVE  /\ Deals2(w, v, u, t) /\ v.tsx = w.tsx /\ Sound(v)
<1>1. Frame(w, v, {u}, {}) /\ Sound(v)
  BY DEF Deals, Frame
<1>2. Frame(w, v, {u}, {t})
  BY <1>1, FrameWider
<1>3. QED
  BY <1>1, <1>2 DEF Deals, Deals2

\* A transaction is marked.
LEMMA Deals2Mark ==
  ASSUME NEW w, NEW u, NEW t, NEW v, Deals2(w, v, u, t), NEW x, Frame(v, x, {}, {t}),
         x.neg = v.neg, x.inv = v.inv, x.acks = v.acks,
         x.tsx[t].sdp = v.tsx[t].sdp, x.tsx[t].client = v.tsx[t].client
  PROVE  Deals2(w, x, u, t)
<1>1. Frame(v, x, {u}, {t})
  BY FrameWider
<1>2. Frame(w, v, {u}, {t})
  BY DEF Deals2
<1>3. Frame(w, x, {u}, {t})
  BY <1>1, <1>2, FrameTrans
<1>4. QED
  BY <1>3 DEF Deals2

\* A session description in a response.
LEMMA CheckClientDeals ==
  ASSUME NEW w, Sound(w), NEW t \in Indices(w), NEW sdp \in Nat, NEW choice
  PROVE  LET u == Client(w, t)
             v == CheckSdpClient(w, t, sdp, choice)
         IN  /\ Deals2(w, v, u, t) /\ SameServer(w.tsx[t], v.tsx[t])
             /\ Checks(w, v, u, sdp, w.tsx[t].done, v.tsx[t].done, choice)
<1> DEFINE u == Client(w, t)
           v == CheckSdpClient(w, t, sdp, choice)
           o == RxOffer(w, u, sdp, choice)
           a == RxAnswer(w, u, sdp)
           d == [a EXCEPT !.tsx[t].done = TRUE]
<1>1. /\ w.tsx[t] \in Transactions(Nat, Nat) /\ t \in 1..Len(w.tsx)
      /\ w.neg[u] \in Negotiators(Nat) /\ u \in Ends
  BY SoundParts DEF Indices, Transactions, Client
<1>2. w.neg[u].state \in {"NULL", "LOCAL_OFFER", "REMOTE_OFFER", "WAIT_NEGO", "DONE"}
  BY <1>1 DEF Negotiators, NegStates
<1>3. v = IF sdp = 0 \/ w.tsx[t].done THEN w
          ELSE IF w.neg[u].state \in {"NULL", "DONE"} THEN o
          ELSE IF w.neg[u].state = "LOCAL_OFFER" THEN d ELSE w
  BY DEF CheckSdpClient
<1> HIDE DEF u, v, o, a
<1>4. Deals2(w, w, u, t) /\ SameServer(w.tsx[t], w.tsx[t])
  <2>1. Frame(w, w, {u}, {t})
    BY FrameRefl
  <2>2. QED
    BY <2>1 DEF Deals2, SameServer, SameSession
<1>5. /\ Deals2(w, o, u, t) /\ o.tsx = w.tsx
      /\ o.neg[u].state = (IF choice = "decline" THEN "REMOTE_OFFER" ELSE "WAIT_NEGO")
      /\ o.neg[u].remote.sdp = sdp /\ (choice # "decline" => o.neg[u].local.sdp = w.sdps + 1)
      /\ o.neg[u].active_local = w.neg[u].active_local
      /\ o.neg[u].active_remote = w.neg[u].active_remote
      /\ o.neg[u].has_remote_answer = w.neg[u].has_remote_answer
  <2>1. Deals(w, o, u)
    BY <1>1, RxOfferDeals DEF o
  <2>2. Deals2(w, o, u, t) /\ o.tsx = w.tsx
    BY <1>1, <2>1, DealsDeals2
  <2>3. QED
    BY <1>1, <2>2, RxOfferDeals DEF o
<1>6. Deals(w, a, u) /\ Done(w, a, u, w.neg[u].local.sdp, sdp)
  BY <1>1, RxAnswerDeals DEF a
<1>7. Deals2(w, a, u, t) /\ a.tsx = w.tsx /\ Sound(a) /\ t \in Indices(a)
  BY <1>1, <1>6, DealsDeals2 DEF Indices
<1>8. /\ Frame(a, d, {}, {t}) /\ d.neg = a.neg /\ d.inv = a.inv /\ d.acks = a.acks
      /\ Twin([a.tsx[t] EXCEPT !.done = TRUE], d.tsx[t])
  BY <1>7, MarkFrame
<1> HIDE DEF d
<1>9. /\ d.tsx[t].sdp = a.tsx[t].sdp /\ d.tsx[t].client = a.tsx[t].client /\ d.tsx[t].done
      /\ SameServer(a.tsx[t], d.tsx[t])
  BY <1>1, <1>7, <1>8 DEF Twin, SameServer, Transactions
<1>10. Deals2(w, d, u, t)
  BY <1>7, <1>8, <1>9, Deals2Mark
<1>11. Done(w, d, u, w.neg[u].local.sdp, sdp) /\ SameServer(w.tsx[t], d.tsx[t])
  BY <1>6, <1>7, <1>8, <1>9 DEF Done
<1>12. CASE sdp = 0 \/ w.tsx[t].done \/ w.neg[u].state \in {"REMOTE_OFFER", "WAIT_NEGO"}
  BY <1>3, <1>4, <1>12 DEF Checks, u, v
<1>13. CASE sdp # 0 /\ ~w.tsx[t].done /\ w.neg[u].state \in {"NULL", "DONE"}
  <2>1. v = o
    BY <1>3, <1>13
  <2>2. SameServer(w.tsx[t], v.tsx[t]) /\ v.tsx[t].done = w.tsx[t].done
    BY <1>5, <2>1 DEF SameServer
  <2>3. Checks(w, v, u, sdp, w.tsx[t].done, v.tsx[t].done, choice)
    BY <1>5, <1>13, <2>1, <2>2 DEF Checks
  <2>4. QED
    BY <1>5, <2>1, <2>2, <2>3 DEF u, v
<1>14. CASE sdp # 0 /\ ~w.tsx[t].done /\ w.neg[u].state = "LOCAL_OFFER"
  <2>1. v = d
    BY <1>3, <1>14
  <2>2. Checks(w, v, u, sdp, w.tsx[t].done, v.tsx[t].done, choice)
    BY <1>9, <1>11, <1>14, <2>1 DEF Checks
  <2>3. QED
    BY <1>10, <1>11, <2>1, <2>2 DEF u, v
<1>15. QED
  BY <1>2, <1>12, <1>13, <1>14

\* A session description in a request.
LEMMA CheckServerDeals ==
  ASSUME NEW w, Sound(w), NEW t \in Indices(w), NEW sdp \in Nat, NEW choice
  PROVE  LET u == Server(w, t)
             v == CheckSdpServer(w, t, sdp, choice)
         IN  /\ Deals2(w, v, u, t) /\ SameClient(w.tsx[t], v.tsx[t])
             /\ v.tsx[t].server = w.tsx[t].server /\ v.tsx[t].status = w.tsx[t].status
             /\ v.tsx[t].body = w.tsx[t].body
             /\ Checks(w, v, u, sdp, w.tsx[t].answered, v.tsx[t].answered, choice)
<1> DEFINE u == Server(w, t)
           v == CheckSdpServer(w, t, sdp, choice)
           o == RxOffer(w, u, sdp, choice)
           a == RxAnswer(w, u, sdp)
           d == [a EXCEPT !.tsx[t].answered = TRUE]
<1>1. /\ w.tsx[t] \in Transactions(Nat, Nat) /\ t \in 1..Len(w.tsx)
      /\ w.neg[u] \in Negotiators(Nat) /\ u \in Ends
  <2>1. w.tsx[t] \in Transactions(Nat, Nat) /\ t \in 1..Len(w.tsx)
    BY SoundParts DEF Indices
  <2>2. u \in Ends
    BY DEF Server, Peer, Ends
  <2> HIDE DEF u
  <2>3. QED
    BY <2>1, <2>2, SoundParts
<1>2. w.neg[u].state \in {"NULL", "LOCAL_OFFER", "REMOTE_OFFER", "WAIT_NEGO", "DONE"}
  BY <1>1 DEF Negotiators, NegStates
<1>3. v = IF sdp = 0 \/ w.tsx[t].answered THEN w
          ELSE IF w.neg[u].state \in {"NULL", "DONE"} THEN o
          ELSE IF w.neg[u].state = "LOCAL_OFFER" THEN d ELSE w
  BY DEF CheckSdpServer
<1> HIDE DEF u, v, o, a
<1>4. Deals2(w, w, u, t) /\ SameClient(w.tsx[t], w.tsx[t])
  <2>1. Frame(w, w, {u}, {t})
    BY FrameRefl
  <2>2. QED
    BY <2>1 DEF Deals2, SameClient, SameSession
<1>5. /\ Deals2(w, o, u, t) /\ o.tsx = w.tsx
      /\ o.neg[u].state = (IF choice = "decline" THEN "REMOTE_OFFER" ELSE "WAIT_NEGO")
      /\ o.neg[u].remote.sdp = sdp /\ (choice # "decline" => o.neg[u].local.sdp = w.sdps + 1)
      /\ o.neg[u].active_local = w.neg[u].active_local
      /\ o.neg[u].active_remote = w.neg[u].active_remote
      /\ o.neg[u].has_remote_answer = w.neg[u].has_remote_answer
  <2>1. Deals(w, o, u)
    BY <1>1, RxOfferDeals DEF o
  <2>2. Deals2(w, o, u, t) /\ o.tsx = w.tsx
    BY <1>1, <2>1, DealsDeals2
  <2>3. QED
    BY <1>1, <2>2, RxOfferDeals DEF o
<1>6. Deals(w, a, u) /\ Done(w, a, u, w.neg[u].local.sdp, sdp)
  BY <1>1, RxAnswerDeals DEF a
<1>7. Deals2(w, a, u, t) /\ a.tsx = w.tsx /\ Sound(a) /\ t \in Indices(a)
  BY <1>1, <1>6, DealsDeals2 DEF Indices
<1>8. /\ Frame(a, d, {}, {t}) /\ d.neg = a.neg /\ d.inv = a.inv /\ d.acks = a.acks
      /\ Twin([a.tsx[t] EXCEPT !.answered = TRUE], d.tsx[t])
  BY <1>7, MarkFrame
<1> HIDE DEF d
<1>9. /\ d.tsx[t].sdp = a.tsx[t].sdp /\ d.tsx[t].client = a.tsx[t].client
      /\ d.tsx[t].answered /\ SameClient(a.tsx[t], d.tsx[t])
      /\ d.tsx[t].server = a.tsx[t].server /\ d.tsx[t].status = a.tsx[t].status
      /\ d.tsx[t].body = a.tsx[t].body
  BY <1>1, <1>7, <1>8 DEF Twin, SameClient, Transactions
<1>10. Deals2(w, d, u, t)
  BY <1>7, <1>8, <1>9, Deals2Mark
<1>11. Done(w, d, u, w.neg[u].local.sdp, sdp)
  BY <1>6, <1>7, <1>8, <1>9 DEF Done
<1>12. CASE sdp = 0 \/ w.tsx[t].answered \/ w.neg[u].state \in {"REMOTE_OFFER", "WAIT_NEGO"}
  BY <1>3, <1>4, <1>12 DEF Checks, u, v
<1>13. CASE sdp # 0 /\ ~w.tsx[t].answered /\ w.neg[u].state \in {"NULL", "DONE"}
  <2>1. v = o
    BY <1>3, <1>13
  <2>2. SameClient(w.tsx[t], v.tsx[t]) /\ v.tsx[t].answered = w.tsx[t].answered
    BY <1>5, <2>1 DEF SameClient
  <2>3. Checks(w, v, u, sdp, w.tsx[t].answered, v.tsx[t].answered, choice)
    BY <1>5, <1>13, <2>1, <2>2 DEF Checks
  <2>4. QED
    BY <1>5, <2>1, <2>2, <2>3 DEF u, v
<1>14. CASE sdp # 0 /\ ~w.tsx[t].answered /\ w.neg[u].state = "LOCAL_OFFER"
  <2>1. v = d
    BY <1>3, <1>14
  <2>2. Checks(w, v, u, sdp, w.tsx[t].answered, v.tsx[t].answered, choice)
    BY <1>9, <1>11, <1>14, <2>1 DEF Checks
  <2>3. QED
    BY <1>7, <1>9, <1>10, <2>1, <2>2 DEF u, v
<1>15. QED
  BY <1>2, <1>12, <1>13, <1>14

-----------------------------------------------------------------------------
(* The handlers of a call in which nobody has sent a BYE *)

Live(w) == Runs(w) /\ Dealing(w) /\ ~Parted(w)

\* What there is to know of a transaction.
LEMMA LiveParts ==
  ASSUME NEW w, Live(w), NEW t \in Indices(w)
  PROVE  /\ Sound(w) /\ t \in Nat /\ t # 0
         /\ w.tsx[t].method \in {"INVITE", "UPDATE", "CANCEL"}
         /\ w.tsx[t].from \in Ends /\ Client(w, t) = w.tsx[t].from
         /\ Server(w, t) = Peer(w.tsx[t].from) /\ Server(w, t) \in Ends
         /\ Server(w, t) # w.tsx[t].from /\ Peer(Server(w, t)) = w.tsx[t].from
         /\ w.tsx[t].sdp \in Nat /\ w.tsx[t].body \in Nat /\ w.tsx[t].status \in Nat
         /\ w.tsx[t].code \in Nat /\ w.tsx[t].done \in BOOLEAN /\ w.tsx[t].answered \in BOOLEAN
         /\ w.tsx[t].client \in {"calling", "completed", "terminated"}
         /\ w.tsx[t].server \in {"none", "trying", "proceeding", "completed", "terminated"}
         /\ w.tsx[t].method = "CANCEL" =>
               t # 1 /\ w.tsx[t].from = "caller" /\ w.tsx[t].of = 1
         /\ t # 1 /\ w.tsx[t].method # "CANCEL" =>
               w.inv[w.tsx[t].from].state = "CONFIRMED"
         /\ w.tsx[t].server = "none" => w.tsx[t].body = 0 /\ ~w.tsx[t].answered
         /\ w.tsx[t].server = "proceeding" => t = 1
<1>1. Sound(w) /\ Course(w) /\ Ending(w) /\ Runs(w) /\ Requests(w)
  BY DEF Live, Runs, Begun, Dealing
<1>2. w.tsx[t] \in Transactions(Nat, Nat) /\ t \in Nat /\ t # 0
  BY <1>1, SoundParts DEF Indices
<1>3. /\ w.tsx[t].method \in {"INVITE", "UPDATE", "BYE", "CANCEL"} /\ w.tsx[t].from \in Ends
      /\ w.tsx[t].sdp \in Nat /\ w.tsx[t].body \in Nat /\ w.tsx[t].status \in Nat
      /\ w.tsx[t].code \in Nat /\ w.tsx[t].done \in BOOLEAN /\ w.tsx[t].answered \in BOOLEAN
      /\ w.tsx[t].client \in {"calling", "completed", "terminated"}
      /\ w.tsx[t].server \in {"none", "trying", "proceeding", "completed", "terminated"}
  BY <1>2 DEF Transactions
<1>4. w.tsx[t].method # "BYE"
  BY DEF Live, Parted
<1>5. /\ Client(w, t) = w.tsx[t].from
      /\ Server(w, t) = Peer(w.tsx[t].from) /\ Server(w, t) \in Ends
      /\ Server(w, t) # w.tsx[t].from /\ Peer(Server(w, t)) = w.tsx[t].from
  BY <1>3 DEF Client, Server, Peer, Ends
<1>6. /\ w.tsx[t].method = "CANCEL" => t # 1 /\ w.tsx[t].from = "caller" /\ w.tsx[t].of = 1
      /\ w.tsx[t].server = "proceeding" => t = 1
  BY <1>1 DEF Course, Ending, Shape, Indices
<1>7. /\ t # 1 /\ w.tsx[t].method # "CANCEL" => w.inv[w.tsx[t].from].state = "CONFIRMED"
      /\ w.tsx[t].server = "none" => w.tsx[t].body = 0 /\ ~w.tsx[t].answered
  BY <1>1, <1>3, <1>4 DEF Requests
<1>8. QED
  BY <1>1, <1>2, <1>3, <1>4, <1>5, <1>6, <1>7

\* A step that concerns no offer.
LEMMA LittleSettles ==
  ASSUME NEW w, Live(w), NEW v, Little(w, v)
  PROVE  Settles(v)
<1>1. Dealing(v)
  BY LittleDealing DEF Live
<1>2. Sound(v)
  BY DEF Little
<1>3. QED
  BY <1>1, <1>2 DEF Settles

\* Then it is over.
LEMMA ByeParts ==
  ASSUME NEW w, Sound(w), NEW u \in Ends
  PROVE  /\ Sound(SendBye(w, u)) /\ Parted(SendBye(w, u))
         /\ Sound(SendBye(Disconnect(w, u), u)) /\ Parted(SendBye(Disconnect(w, u), u))
<1>1. ASSUME NEW x, Sound(x)
      PROVE  Sound(SendBye(x, u)) /\ Parted(SendBye(x, u))
  <2>1. 0 \in 0..Len(x.tsx)
    BY <1>1, SoundParts
  <2>2. "BYE" \in {"INVITE", "UPDATE", "BYE", "CANCEL"} /\ 0 \in Nat /\ ("BYE" = "CANCEL" => 0 > 0)
    OBVIOUS
  <2>3. Adds(x, SendRequest(x, u, "BYE", 0, 0), u, "BYE", 0)
    BY <1>1, <2>1, <2>2, RequestAdds
  <2>4. QED
    BY <2>3 DEF Adds, SendBye, Parted
<1>2. Sound(Disconnect(w, u))
  BY OverFrame DEF Frame
<1>3. QED
  BY <1>1, <1>2

\* A peer that has no call is told so.
LEMMA UnlessLostSettles ==
  ASSUME NEW w, Sound(w), NEW u \in Ends, NEW t, NEW v, ~Lost(w, u, t) => Settles(v)
  PROVE  Settles(UnlessLost(w, u, t, v))
BY ByeParts DEF UnlessLost, Settles

\* A client transaction gets on that carries no offer.
LEMMA TurnLittle ==
  ASSUME NEW w, Live(w), NEW t \in Indices(w),
         NEW client \in {"calling", "completed", "terminated"}, NEW code \in Nat,
         \/ w.tsx[t].client = client
         \/ w.tsx[t].client # "calling" /\ client = "terminated"
         \/ /\ w.tsx[t].client = "calling" /\ client # "calling"
            /\ w.tsx[t].method = "CANCEL" \/ (t = 1 /\ w.inv["caller"].state = "DISCONNECTED")
  PROVE  LET v == ClientEnters(w, t, client, code)
         IN  /\ Sound(v) /\ Little(w, v)
             /\ client # "calling" => Little(w, Forget(v, Client(w, t), t))
             /\ Frame(w, v, {}, {t}) /\ Minor(w, v, t)
<1> DEFINE v == ClientEnters(w, t, client, code)
           u == Client(w, t)
           x == Forget(v, u, t)
<1>1. Sound(w) /\ Runs(w) /\ u \in Ends /\ w.tsx[t].from = u
  BY LiveParts DEF Live
<1>2. /\ Frame(w, v, {}, {t}) /\ v.neg = w.neg /\ v.inv = w.inv /\ v.acks = w.acks
      /\ Twin([w.tsx[t] EXCEPT !.client = client], v.tsx[t])
  BY <1>1, EnterFrame
<1>3. w.tsx[t] \in Transactions(Nat, Nat)
  BY <1>1, SoundParts DEF Indices
<1> HIDE DEF v
<1>4. Minor(w, v, t) /\ v.tsx[t].client = client
  BY <1>2, <1>3 DEF Minor, Twin, Transactions
<1>5. Sound(v)
  BY <1>2 DEF Frame
<1>6. Little(w, v)
  <2>1. \A e \in Ends \cap {} : Idle(w, v, e)
    OBVIOUS
  <2>2. \A s \in Indices(w) \cap {t} : Minor(w, v, s)
    BY <1>4
  <2>3. v.acks \subseteq w.acks
    BY <1>2
  <2>4. QED
    BY <1>1, <1>2, <2>1, <2>2, <2>3, FrameLittle
<1>7. /\ Sits(v, x, u) /\ x.inv[u].state = v.inv[u].state
      /\ x.inv[u].invite_tsx = IF v.inv[u].invite_tsx = t THEN 0 ELSE v.inv[u].invite_tsx
      /\ x.inv[u].last_ack_cseq = v.inv[u].last_ack_cseq
      /\ x.inv[u].last_ack = v.inv[u].last_ack
  BY <1>1, <1>5, ForgetSits
<1> HIDE DEF x
<1>8. ASSUME client # "calling"
      PROVE  Little(w, x)
  <2>1. Frame(w, x, {u}, {t})
    <3>1. Frame(v, x, {u}, {t})
      BY <1>7, FrameWider DEF Sits
    <3>2. Frame(w, v, {u}, {t})
      BY <1>2, FrameWider
    <3>3. QED
      BY <3>1, <3>2, FrameTrans
  <2>2. x.neg = w.neg /\ x.acks = w.acks /\ x.tsx = v.tsx
    BY <1>2, <1>7 DEF Sits
  <2>3. Minor(w, x, t)
    BY <1>4, <2>2 DEF Minor
  <2>4. Idle(w, x, u)
    <3>1. Remembers(w, x, u)
      BY <1>1, <1>2, <1>4, <1>7, <1>8, <2>2 DEF Remembers
    <3>2. QED
      BY <1>2, <1>7, <2>2, <3>1 DEF Idle, Unoffered
  <2>5. \A e \in Ends \cap {u} : Idle(w, x, e)
    BY <2>4
  <2>6. \A s \in Indices(w) \cap {t} : Minor(w, x, s)
    BY <2>3
  <2>7. x.acks \subseteq w.acks
    BY <2>2
  <2>8. QED
    BY <1>1, <2>1, <2>5, <2>6, <2>7, FrameLittle
<1>9. QED
  BY <1>2, <1>4, <1>5, <1>6, <1>8 DEF v, x

\* ... and an end forgets the INVITE that is over.
LEMMA ForgetLittle ==
  ASSUME NEW w, Runs(w), NEW v, Little(w, v), NEW u \in Ends, NEW t \in Indices(w),
         \/ w.tsx[t].from = u /\ v.tsx[t].client # "calling"
         \/ w.tsx[t].from = Peer(u) /\ v.tsx[t].server = "terminated"
  PROVE  Little(w, Forget(v, u, t))
<1> DEFINE x == Forget(v, u, t)
<1>1. /\ Sound(v) /\ Len(v.tsx) >= Len(w.tsx) /\ v.acks \subseteq w.acks
      /\ \A e \in Ends : Idle(w, v, e)
      /\ \A s \in Indices(w) : Minor(w, v, s)
      /\ \A s \in Indices(v) : s > Len(w.tsx) =>
            v.tsx[s].method = "CANCEL" /\ v.tsx[s].body = 0 /\ ~v.tsx[s].answered
  BY DEF Little
<1>2. /\ Sits(v, x, u) /\ x.inv[u].state = v.inv[u].state
      /\ x.inv[u].invite_tsx = IF v.inv[u].invite_tsx = t THEN 0 ELSE v.inv[u].invite_tsx
      /\ x.inv[u].last_ack_cseq = v.inv[u].last_ack_cseq
      /\ x.inv[u].last_ack = v.inv[u].last_ack
  BY <1>1, ForgetSits
<1> HIDE DEF x
<1>3. /\ x.neg = v.neg /\ x.tsx = v.tsx /\ x.acks = v.acks /\ Sound(x)
      /\ \A e \in Ends \ {u} : SameSession(v.inv[e], x.inv[e])
  BY <1>2 DEF Sits, Frame
<1>4. ASSUME NEW e \in Ends
      PROVE  Idle(w, x, e)
  <2>1. Idle(w, v, e)
    BY <1>1
  <2>2. CASE e # u
    BY <1>3, <2>1, <2>2 DEF Idle, Remembers, SameSession
  <2>3. CASE e = u
    <3>1. Remembers(w, v, u)
      BY <2>1, <2>3 DEF Idle
    <3>2. Remembers(w, x, u)
      <4>1. CASE v.inv[u].invite_tsx # t
        BY <1>2, <1>3, <3>1, <4>1 DEF Remembers
      <4>2. CASE v.inv[u].invite_tsx = t
        <5>1. x.inv[u].invite_tsx = 0
          BY <1>2, <4>2
        <5>2. CASE w.inv[u].invite_tsx = t
          BY <1>3, <5>1, <5>2 DEF Remembers
        <5>3. CASE w.inv[u].invite_tsx # t
          <6>1. t # 0
            BY DEF Indices
          <6>2. w.inv[u].invite_tsx = 0
            BY <3>1, <4>2, <5>3, <6>1 DEF Remembers
          <6>3. QED
            BY <5>1, <6>2 DEF Remembers
        <5>4. QED
          BY <5>2, <5>3
      <4>3. QED
        BY <4>1, <4>2
    <3>3. QED
      BY <1>2, <1>3, <2>1, <2>3, <3>2 DEF Idle
  <2>4. QED
    BY <2>2, <2>3
<1>5. \A s \in Indices(w) : Minor(w, x, s)
  BY <1>1, <1>3 DEF Minor
<1>6. Indices(x) = Indices(v)
  BY <1>3 DEF Indices
<1>7. Little(w, x)
  BY <1>1, <1>3, <1>4, <1>5, <1>6 DEF Little
<1>8. QED
  BY <1>7 DEF x

\* What the client of a transaction does.
LEMMA ClientMoves ==
  ASSUME NEW w, Live(w), NEW t \in Indices(w), NEW u, w.tsx[t].from = u,
         NEW v, Frame(w, v, {u}, {t}), SameServer(w.tsx[t], v.tsx[t]),
         v.tsx[t].sdp = w.tsx[t].sdp,
         v.tsx[t].client = "calling" => w.tsx[t].client = "calling"
  PROVE  Moves(w, v, u, t) /\ Sound(v) /\ Indices(v) = Indices(w) /\ Len(v.tsx) = Len(w.tsx)
<1>1. Runs(w) /\ Dealing(w) /\ u \in Ends
  BY LiveParts DEF Live
<1>2. w.tsx[t].server = "none" => w.tsx[t].body = 0 /\ ~w.tsx[t].answered
  BY LiveParts
<1>3. Sound(v) /\ Indices(v) = Indices(w) /\ Len(v.tsx) = Len(w.tsx)
  BY DEF Frame, Indices
<1>4. ASSUME NEW s \in Indices(w) \cap {t}
      PROVE  /\ s = t \/ w.tsx[s].method = "CANCEL"
             /\ v.tsx[s].sdp = w.tsx[s].sdp
             /\ v.tsx[s].client = "calling" => w.tsx[s].client = "calling"
             /\ v.tsx[s].server = "none" => v.tsx[s].body = 0 /\ ~v.tsx[s].answered
             /\ w.tsx[s].method # "CANCEL" =>
                   IF w.tsx[s].from = u THEN SameServer(w.tsx[s], v.tsx[s])
                                        ELSE SameClient(w.tsx[s], v.tsx[s])
  BY <1>2, <1>4 DEF SameServer
<1>5. Moves(w, v, u, t)
  BY <1>1, <1>4, FrameMoves
<1>6. QED
  BY <1>3, <1>5

\* What its server does.
LEMMA ServerMoves ==
  ASSUME NEW w, Live(w), NEW t \in Indices(w), NEW u, Server(w, t) = u,
         NEW v, Frame(w, v, {u}, {t}), SameClient(w.tsx[t], v.tsx[t]),
         v.tsx[t].sdp = w.tsx[t].sdp, v.tsx[t].server # "none"
  PROVE  Moves(w, v, u, t) /\ Sound(v) /\ Indices(v) = Indices(w) /\ Len(v.tsx) = Len(w.tsx)
<1>1. Runs(w) /\ Dealing(w) /\ u \in Ends /\ w.tsx[t].from # u
  BY LiveParts DEF Live
<1>2. Sound(v) /\ Indices(v) = Indices(w) /\ Len(v.tsx) = Len(w.tsx)
  BY DEF Frame, Indices
<1>3. ASSUME NEW s \in Indices(w) \cap {t}
      PROVE  /\ s = t \/ w.tsx[s].method = "CANCEL"
             /\ v.tsx[s].sdp = w.tsx[s].sdp
             /\ v.tsx[s].client = "calling" => w.tsx[s].client = "calling"
             /\ v.tsx[s].server = "none" => v.tsx[s].body = 0 /\ ~v.tsx[s].answered
             /\ w.tsx[s].method # "CANCEL" =>
                   IF w.tsx[s].from = u THEN SameServer(w.tsx[s], v.tsx[s])
                                        ELSE SameClient(w.tsx[s], v.tsx[s])
  BY <1>1, <1>3 DEF SameClient
<1>4. Moves(w, v, u, t)
  BY <1>1, <1>3, FrameMoves
<1>5. QED
  BY <1>2, <1>4

\* A ringing end is done with the call, and may forget its INVITE.
LEMMA LeavesSettles ==
  ASSUME NEW w, Live(w), NEW u \in Ends, w.inv[u].state \in {"CALLING", "INCOMING", "EARLY"},
         NEW T, NEW x, Frame(w, x, {u}, T), x.acks = w.acks,
         \A s \in Indices(w) \cap T :
            /\ s = 1 \/ w.tsx[s].method = "CANCEL"
            /\ x.tsx[s].sdp = w.tsx[s].sdp
            /\ x.tsx[s].client = "calling" => w.tsx[s].client = "calling"
            /\ x.tsx[s].server = "none" => x.tsx[s].body = 0 /\ ~x.tsx[s].answered
            /\ w.tsx[s].method # "CANCEL" =>
                  IF w.tsx[s].from = u THEN SameServer(w.tsx[s], x.tsx[s])
                                       ELSE SameClient(w.tsx[s], x.tsx[s]),
         u = "callee" => x.tsx[1].status >= 300
  PROVE  LET v == Disconnect(x, u)
         IN  Settles(v) /\ \A t : Settles(Forget(v, u, t))
<1> DEFINE v == Disconnect(x, u)
<1>1. Runs(w) /\ Dealing(w) /\ Sound(x) /\ Len(x.tsx) = Len(w.tsx)
  BY DEF Live, Frame
<1>2. /\ Frame(x, v, {u}, {}) /\ v.tsx = x.tsx /\ v.acks = x.acks
      /\ v.inv[u].state = "DISCONNECTED" /\ v.inv[u].last_ack_cseq = 0
      /\ v.neg[u].state = "NULL" /\ ~v.neg[u].has_remote_answer
  BY <1>1, OverFrame
<1> HIDE DEF v
<1>3. ASSUME NEW y, Frame(v, y, {u}, {}), y.tsx = v.tsx, y.acks = v.acks, y.neg = v.neg,
             y.inv[u].state = "DISCONNECTED", y.inv[u].last_ack_cseq = 0
      PROVE  Settles(y)
  <2>1. Frame(w, y, {u}, T)
    <3>1. Frame(x, v, {u}, T)
      BY <1>2, FrameWider
    <3>2. Frame(v, y, {u}, T)
      BY <1>3, FrameWider
    <3>3. Frame(w, v, {u}, T)
      BY <3>1, FrameTrans
    <3>4. QED
      BY <3>2, <3>3, FrameTrans
  <2>2. y.tsx = x.tsx
    BY <1>2, <1>3
  <2>3. Moves(w, y, u, 1)
    BY <1>1, <2>1, <2>2, FrameMoves
  <2>4. Leaves(w, y, u)
    BY <1>1, <1>2, <1>3, <2>2 DEF Leaves
  <2>5. Dealing(y)
    BY <1>1, <2>3, <2>4, LeavesDealing
  <2>6. QED
    BY <2>1, <2>5 DEF Settles, Frame
<1>4. Sound(v)
  BY <1>2 DEF Frame
<1>5. Settles(v)
  <2>1. Frame(v, v, {u}, {})
    BY <1>4, FrameRefl
  <2>2. QED
    BY <1>2, <1>3, <2>1
<1>6. ASSUME NEW t
      PROVE  Settles(Forget(v, u, t))
  <2> DEFINE y == Forget(v, u, t)
  <2>1. /\ Sits(v, y, u) /\ y.inv[u].state = v.inv[u].state
        /\ y.inv[u].last_ack_cseq = v.inv[u].last_ack_cseq
    BY <1>4, ForgetSits
  <2> HIDE DEF y
  <2>2. Settles(y)
    BY <1>2, <1>3, <2>1 DEF Sits
  <2>3. QED
    BY <2>2 DEF y
<1>7. QED
  BY <1>5, <1>6 DEF v

\* inv_on_state_calling and the like, of the response to CANCEL.
LEMMA OnCancelSettles ==
  ASSUME NEW w, Live(w), NEW t \in Indices(w), w.tsx[t].method = "CANCEL",
         w.tsx[t].client = "calling", NEW code \in Nat
  PROVE  Settles(OnCancel(w, t, code))
<1> DEFINE u == Client(w, t)
           a == ClientEnters(w, t, "terminated", code)
<1>1. /\ Sound(w) /\ u \in Ends /\ w.tsx[t].from = u /\ u = "caller" /\ t # 1
      /\ w.tsx[t].server = "none" => w.tsx[t].body = 0 /\ ~w.tsx[t].answered
  BY LiveParts
<1>2. /\ Sound(a) /\ Little(w, a) /\ Frame(w, a, {}, {t})
  BY TurnLittle
<1>3. /\ a.acks = w.acks /\ Twin([w.tsx[t] EXCEPT !.client = "terminated"], a.tsx[t])
  BY <1>1, EnterFrame
<1>4. w.tsx[t] \in Transactions(Nat, Nat)
  BY <1>1, SoundParts DEF Indices
<1>5. CASE w.inv[u].state = "CALLING" /\ code = 408
  <2>1. /\ a.tsx[t].sdp = w.tsx[t].sdp /\ a.tsx[t].client = "terminated"
        /\ a.tsx[t].server = w.tsx[t].server /\ a.tsx[t].body = w.tsx[t].body
        /\ a.tsx[t].answered = w.tsx[t].answered
    BY <1>3, <1>4 DEF Twin, Transactions
  <2> HIDE DEF u, a
  <2>2. Frame(w, a, {u}, {t})
    BY <1>2, FrameWider
  <2>3. \A s \in Indices(w) \cap {t} :
            /\ s = 1 \/ w.tsx[s].method = "CANCEL"
            /\ a.tsx[s].sdp = w.tsx[s].sdp
            /\ a.tsx[s].client = "calling" => w.tsx[s].client = "calling"
            /\ a.tsx[s].server = "none" => a.tsx[s].body = 0 /\ ~a.tsx[s].answered
            /\ w.tsx[s].method # "CANCEL" =>
                  IF w.tsx[s].from = u THEN SameServer(w.tsx[s], a.tsx[s])
                                       ELSE SameClient(w.tsx[s], a.tsx[s])
    BY <1>1, <2>1
  <2>4. w.inv[u].state \in {"CALLING", "INCOMING", "EARLY"} /\ u # "callee"
    BY <1>1, <1>5
  <2>5. Settles(Disconnect(a, u))
    BY <1>1, <1>3, <2>2, <2>3, <2>4, LeavesSettles
  <2>6. QED
    BY <1>5, <2>5 DEF OnCancel, u, a
<1>6. CASE ~(w.inv[u].state = "CALLING" /\ code = 408)
  <2>1. Settles(a)
    BY <1>2, LittleSettles
  <2>2. Settles(UnlessLost(a, u, t, a))
    BY <1>1, <1>2, <2>1, UnlessLostSettles
  <2>3. QED
    BY <1>6, <2>2 DEF OnCancel
<1>7. QED
  BY <1>5, <1>6

\* The client of t gets on, and nothing else happens.
Enters(w, v, t, client) ==
    /\ Frame(w, v, {}, {t}) /\ v.neg = w.neg /\ v.inv = w.inv /\ v.acks = w.acks
    /\ SameServer(w.tsx[t], v.tsx[t]) /\ v.tsx[t].sdp = w.tsx[t].sdp
    /\ v.tsx[t].client = client /\ v.tsx[t].done = w.tsx[t].done
    /\ v.tsx[t].method = w.tsx[t].method /\ v.tsx[t].from = w.tsx[t].from

\* The server does not notice.
LEMMA EnterSame ==
  ASSUME NEW w, Sound(w), NEW t \in Indices(w),
         NEW client \in {"calling", "completed", "terminated"}, NEW code \in Nat
  PROVE  Enters(w, ClientEnters(w, t, client, code), t, client)
<1> DEFINE v == ClientEnters(w, t, client, code)
<1>1. /\ Frame(w, v, {}, {t}) /\ v.neg = w.neg /\ v.inv = w.inv /\ v.acks = w.acks
      /\ Twin([w.tsx[t] EXCEPT !.client = client], v.tsx[t])
  BY EnterFrame
<1>2. w.tsx[t] \in Transactions(Nat, Nat)
  BY SoundParts DEF Indices
<1> HIDE DEF v
<1>3. /\ SameServer(w.tsx[t], v.tsx[t]) /\ v.tsx[t].sdp = w.tsx[t].sdp
      /\ v.tsx[t].client = client /\ v.tsx[t].done = w.tsx[t].done
      /\ v.tsx[t].method = w.tsx[t].method /\ v.tsx[t].from = w.tsx[t].from
  BY <1>1, <1>2 DEF Twin, SameServer, Transactions
<1>4. QED
  BY <1>1, <1>3 DEF v, Enters

\* A call that is over is forgotten.
LEMMA ForgetParted ==
  ASSUME NEW v, Sound(v), Parted(v), NEW u \in Ends, NEW t
  PROVE  Settles(Forget(v, u, t))
<1> DEFINE x == Forget(v, u, t)
<1>1. Sits(v, x, u)
  BY ForgetSits
<1> HIDE DEF x
<1>2. Sound(x) /\ Parted(x)
  BY <1>1 DEF Sits, Frame, Parted, Indices
<1>3. QED
  BY <1>2 DEF Settles, x

\* What a request that is answered leaves.
LEMMA ConcludesSettles ==
  ASSUME NEW w, Live(w), NEW t \in Indices(w), NEW u, w.tsx[t].from = u, t # 1, Open(w, t, u),
         NEW v, Frame(w, v, {u}, {t}), SameServer(w.tsx[t], v.tsx[t]),
         v.tsx[t].sdp = w.tsx[t].sdp, v.tsx[t].client # "calling", Concludes(w, v, u, t)
  PROVE  Settles(v)
<1>1. Runs(w) /\ Dealing(w) /\ u \in Ends
  BY LiveParts DEF Live
<1>2. Moves(w, v, u, t) /\ Sound(v)
  BY ClientMoves
<1>3. Dealing(v)
  BY <1>1, <1>2, ConcludesDealing
<1>4. QED
  BY <1>2, <1>3 DEF Settles

\* Withdrawing a local offer, or not.
LEMMA WithdrawDeals ==
  ASSUME NEW w, Sound(w), NEW u \in Ends, w.neg[u].state \in {"DONE", "LOCAL_OFFER"},
         ~w.neg[u].has_remote_answer
  PROVE  LET v == Withdraw(w, u)
         IN  /\ Deals(w, v, u)
             /\ Done(w, v, u, w.neg[u].active_local.sdp, w.neg[u].active_remote.sdp)
<1> DEFINE v == [w EXCEPT !.neg[u] = CancelOffer(@)]
           n == w.neg[u]
<1>1. /\ Deals(w, v, u)
      /\ n.state \in {"LOCAL_OFFER", "REMOTE_OFFER"} =>
            Done(w, v, u, n.active_local.sdp, n.active_remote.sdp)
      /\ Withdraw(w, u) = IF n.state = "LOCAL_OFFER" THEN v ELSE w
  BY CancelDeals
<1> HIDE DEF v
<1>2. CASE n.state = "LOCAL_OFFER"
  BY <1>1, <1>2
<1>3. CASE n.state = "DONE"
  <2>1. Deals(w, w, u)
    BY FrameRefl DEF Deals, SameSession
  <2>2. Done(w, w, u, n.active_local.sdp, n.active_remote.sdp)
    BY <1>3 DEF Done
  <2>3. QED
    BY <1>1, <1>3, <2>1, <2>2
<1>4. QED
  BY <1>2, <1>3

\* The answer to an UPDATE.
LEMMA OnUpdateSettles ==
  ASSUME NEW w, Live(w), NEW t \in Indices(w), w.tsx[t].method = "UPDATE",
         NEW client \in {"calling", "completed", "terminated"}, client # "calling",
         NEW code \in Nat, NEW body \in Nat, NEW choice,
         \/ w.tsx[t].client = "calling" /\ (code = 408 \/ body = w.tsx[t].body)
         \/ /\ w.tsx[t].client = "completed" /\ client = "terminated" /\ body = 0
            /\ w.neg[w.tsx[t].from].state # "LOCAL_OFFER"
  PROVE  Settles(OnUpdate(w, t, client, code, body, choice))
<1> DEFINE u == Client(w, t)
           a == ClientEnters(w, t, client, code)
           b == UpdateResponse(a, t, body, choice)
<1>1. /\ Sound(w) /\ u \in Ends /\ w.tsx[t].from = u /\ t # 1 /\ w.inv[u].state = "CONFIRMED"
      /\ w.tsx[t].body \in Nat
  <2>1. w.tsx[1].method = "INVITE"
    BY Basics DEF Live
  <2>2. QED
    BY <2>1, LiveParts
<1>2. /\ Frame(w, a, {}, {t})
      /\ a.neg = w.neg /\ a.inv = w.inv /\ a.acks = w.acks
      /\ SameServer(w.tsx[t], a.tsx[t]) /\ a.tsx[t].sdp = w.tsx[t].sdp
      /\ a.tsx[t].client = client /\ a.tsx[t].done = w.tsx[t].done
      /\ a.tsx[t].method = w.tsx[t].method /\ a.tsx[t].from = w.tsx[t].from
  <2>1. Enters(w, a, t, client)
    BY <1>1, EnterSame
  <2>2. QED
    BY <2>1 DEF Enters
<1>3. a.tsx[t].code = code
  <2>1. Turns(w, a, t, client, code)
    BY <1>1, ClientTurns
  <2>2. QED
    BY <2>1 DEF Turns
<1>4. OnUpdate(w, t, client, code, body, choice) = UnlessLost(a, u, t, b)
  BY <1>1 DEF OnUpdate
<1>5. Client(a, t) = u
  BY <1>1, <1>2 DEF Client
<1>6. b = IF body # 0 THEN CheckSdpClient(a, t, body, choice)
          ELSE IF a.tsx[t].done \/ a.neg[u].state # "LOCAL_OFFER" THEN a
          ELSE [Withdraw(a, u) EXCEPT !.tsx[t].done = TRUE]
  BY <1>5 DEF UpdateResponse
<1> HIDE DEF a, b, u
<1>12. Sound(a) /\ t \in Indices(a)
  BY <1>2 DEF Frame, Indices
<1>7. ASSUME w.tsx[t].client = "calling", ~Lost(a, u, t)
      PROVE  Settles(b)
  <2>1. body = w.tsx[t].body
    <3>1. code # 408
      BY <1>1, <1>2, <1>3, <1>7 DEF Lost, Over
    <3>2. QED
      BY <1>7, <3>1
  <2>2. Open(w, t, u)
    BY <1>1, <1>7 DEF Open
  <2>3. /\ ~w.tsx[t].done /\ w.tsx[t].sdp # 0 /\ w.neg[u].state = "LOCAL_OFFER"
        /\ w.neg[u].local.sdp = w.tsx[t].sdp
    <3>1. AsksFor(w, t, u)
      BY <1>1, <2>2, OpenWhen DEF Live
    <3>2. QED
      BY <3>1 DEF AsksFor
  <2>4. ~w.neg[u].has_remote_answer
    BY <1>1 DEF Live, Dealing, Notes
  <2>5. Frame(w, a, {u}, {t})
    BY <1>2, FrameWider
  <2>6. ASSUME NEW x, Frame(a, x, {u}, {t}), x.acks = a.acks, SameSession(a.inv[u], x.inv[u]),
               SameServer(a.tsx[t], x.tsx[t]), x.tsx[t].sdp = a.tsx[t].sdp,
               x.tsx[t].client = a.tsx[t].client,
               \/ body # 0 /\ Done(a, x, u, w.tsx[t].sdp, body)
               \/ body = 0 /\ Done(a, x, u, w.neg[u].active_local.sdp,
                                            w.neg[u].active_remote.sdp)
        PROVE  Settles(x)
    <3>1. Frame(w, x, {u}, {t})
      BY <2>5, <2>6, FrameTrans
    <3>2. SameServer(w.tsx[t], x.tsx[t]) /\ x.tsx[t].sdp = w.tsx[t].sdp
          /\ x.tsx[t].client # "calling"
      BY <1>2, <2>6 DEF SameServer
    <3>3. Indices(x) = Indices(w)
      BY <3>1 DEF Frame, Indices
    <3>4. SameSession(w.inv[u], x.inv[u]) /\ x.acks = w.acks
      BY <1>2, <2>6
    <3>5. x.neg[u].state = "DONE" /\ ~x.neg[u].has_remote_answer
      BY <2>6 DEF Done
    <3>6. \/ /\ w.tsx[t].body # 0
             /\ x.neg[u].active_local.sdp = w.tsx[t].sdp
             /\ x.neg[u].active_remote.sdp = w.tsx[t].body
          \/ /\ w.tsx[t].body = 0
             /\ x.neg[u].active_local.sdp = w.neg[u].active_local.sdp
             /\ x.neg[u].active_remote.sdp = w.neg[u].active_remote.sdp
      BY <2>1, <2>6 DEF Done
    <3>7. Concludes(w, x, u, t)
      BY <1>1, <2>3, <3>2, <3>3, <3>4, <3>5, <3>6 DEF Concludes, SameSession
    <3>8. QED
      BY <1>1, <2>2, <3>1, <3>2, <3>7, ConcludesSettles
  <2>7. CASE body # 0
    <3> DEFINE x == CheckSdpClient(a, t, body, choice)
    <3>1. /\ Deals2(a, x, u, t) /\ SameServer(a.tsx[t], x.tsx[t])
          /\ Checks(a, x, u, body, a.tsx[t].done, x.tsx[t].done, choice)
      BY <1>5, <1>12, CheckClientDeals
    <3>2. b = x
      BY <1>6, <2>7
    <3> HIDE DEF x
    <3>3. Done(a, x, u, w.tsx[t].sdp, body)
      BY <1>2, <2>3, <2>7, <3>1 DEF Checks
    <3>4. Settles(x)
      BY <2>6, <2>7, <3>1, <3>3 DEF Deals2
    <3>5. QED
      BY <3>2, <3>4
  <2>8. CASE body = 0
    <3> DEFINE y == Withdraw(a, u)
               x == [y EXCEPT !.tsx[t].done = TRUE]
    <3>1. /\ Deals(a, y, u)
          /\ Done(a, y, u, w.neg[u].active_local.sdp, w.neg[u].active_remote.sdp)
      BY <1>1, <1>2, <1>12, <2>3, <2>4, WithdrawDeals
    <3>2. b = x
      BY <1>2, <1>6, <2>3, <2>8
    <3> HIDE DEF y
    <3>3. Deals2(a, y, u, t) /\ y.tsx = a.tsx /\ Sound(y) /\ t \in Indices(y)
      <4>1. Deals2(a, y, u, t) /\ y.tsx = a.tsx /\ Sound(y)
        BY <1>1, <1>12, <3>1, DealsDeals2
      <4>2. QED
        BY <1>12, <4>1 DEF Indices
    <3>4. /\ Frame(y, x, {}, {t}) /\ x.neg = y.neg /\ x.inv = y.inv /\ x.acks = y.acks
          /\ Twin([y.tsx[t] EXCEPT !.done = TRUE], x.tsx[t])
      BY <3>3, MarkFrame
    <3> HIDE DEF x
    <3>5. y.tsx[t] \in Transactions(Nat, Nat)
      BY <3>3, SoundParts DEF Indices
    <3>6. /\ x.tsx[t].sdp = y.tsx[t].sdp /\ x.tsx[t].client = y.tsx[t].client
          /\ SameServer(y.tsx[t], x.tsx[t])
      BY <3>4, <3>5 DEF Twin, SameServer, Transactions
    <3>7. Deals2(a, x, u, t)
      BY <3>3, <3>4, <3>6, Deals2Mark
    <3>8. Done(a, x, u, w.neg[u].active_local.sdp, w.neg[u].active_remote.sdp)
      BY <3>1, <3>4 DEF Done
    <3>9. SameServer(a.tsx[t], x.tsx[t])
      BY <3>3, <3>6
    <3>10. Settles(x)
      BY <2>6, <2>8, <3>7, <3>8, <3>9 DEF Deals2
    <3>11. QED
      BY <3>2, <3>10
  <2>9. QED
    BY <2>7, <2>8
<1>8. ASSUME w.tsx[t].client = "completed", client = "terminated", body = 0,
             w.neg[u].state # "LOCAL_OFFER"
      PROVE  Settles(b)
  <2>1. b = a
    BY <1>2, <1>6, <1>8
  <2>2. Little(w, a)
    BY <1>1, <1>8, TurnLittle DEF a
  <2>3. QED
    BY <2>1, <2>2, LittleSettles
<1>9. ~Lost(a, u, t) => Settles(b)
  BY <1>1, <1>7, <1>8
<1>10. Settles(UnlessLost(a, u, t, b))
  BY <1>1, <1>9, <1>12, UnlessLostSettles
<1>11. QED
  BY <1>4, <1>10 DEF a, b, u

\* An INVITE fails.
LEMMA OnInviteFailureSettles ==
  ASSUME NEW w, Live(w), NEW t \in Indices(w), w.tsx[t].method = "INVITE",
         NEW client \in {"calling", "completed", "terminated"}, client # "calling",
         NEW code \in Nat,
         \/ w.tsx[t].client = "calling" /\ (code = 408 \/ w.tsx[t].status >= 300)
         \/ /\ w.tsx[t].client = "completed" /\ client = "terminated"
            /\ w.neg[w.tsx[t].from].state # "LOCAL_OFFER"
  PROVE  Settles(OnInviteFailure(w, t, client, code))
<1> DEFINE u == Client(w, t)
           a == ClientEnters(w, t, client, code)
           d == Withdraw(a, u)
           c == Forget(d, u, t)
<1>1. /\ Sound(w) /\ Runs(w) /\ u \in Ends /\ w.tsx[t].from = u /\ Client(a, t) = Client(a, t)
      /\ w.tsx[t].status \in Nat /\ t # 0
      /\ t # 1 => w.inv[u].state = "CONFIRMED"
      /\ t = 1 => u = "caller"
      /\ w.tsx[t].server = "none" => w.tsx[t].body = 0 /\ ~w.tsx[t].answered
  <2>1. w.tsx[1].from = "caller" /\ Runs(w)
    BY Basics DEF Live
  <2>2. QED
    BY <2>1, LiveParts
<1>2. /\ Frame(w, a, {}, {t})
      /\ a.neg = w.neg /\ a.inv = w.inv /\ a.acks = w.acks
      /\ SameServer(w.tsx[t], a.tsx[t]) /\ a.tsx[t].sdp = w.tsx[t].sdp
      /\ a.tsx[t].client = client
      /\ a.tsx[t].method = w.tsx[t].method /\ a.tsx[t].from = w.tsx[t].from
  <2>1. Enters(w, a, t, client)
    BY <1>1, EnterSame
  <2>2. QED
    BY <2>1 DEF Enters
<1>3. a.tsx[t].code = code
  <2>1. Turns(w, a, t, client, code)
    BY <1>1, ClientTurns
  <2>2. QED
    BY <2>1 DEF Turns
<1>4. Sound(a) /\ t \in Indices(a) /\ Frame(w, a, {u}, {t})
  <2>1. Sound(a) /\ t \in Indices(a)
    BY <1>2 DEF Frame, Indices
  <2>2. QED
    BY <1>2, <2>1, FrameWider
<1>5. SUFFICES ASSUME NEW x,
                      x = (CASE w.inv[u].state \in {"CALLING", "EARLY"} -> Disconnect(a, u)
                             [] w.inv[u].state = "CONFIRMED" -> UnlessLost(a, u, t, c)
                             [] OTHER -> a)
               PROVE  Settles(x) /\ Settles(Forget(x, u, t))
  BY DEF OnInviteFailure
<1> HIDE DEF a, c, d, u
<1>6. CASE w.inv[u].state \in {"CALLING", "EARLY"}
  <2>1. t = 1
    BY <1>1, <1>6
  <2>2. /\ w.inv[u].state \in {"CALLING", "INCOMING", "EARLY"} /\ u # "callee"
    BY <1>1, <1>6, <2>1
  <2>3. \A s \in Indices(w) \cap {t} :
            /\ s = 1 \/ w.tsx[s].method = "CANCEL"
            /\ a.tsx[s].sdp = w.tsx[s].sdp
            /\ a.tsx[s].client = "calling" => w.tsx[s].client = "calling"
            /\ a.tsx[s].server = "none" => a.tsx[s].body = 0 /\ ~a.tsx[s].answered
            /\ w.tsx[s].method # "CANCEL" =>
                  IF w.tsx[s].from = u THEN SameServer(w.tsx[s], a.tsx[s])
                                       ELSE SameClient(w.tsx[s], a.tsx[s])
    BY <1>1, <1>2, <2>1 DEF SameServer
  <2>4. Settles(Disconnect(a, u)) /\ Settles(Forget(Disconnect(a, u), u, t))
    BY <1>1, <1>2, <1>4, <2>2, <2>3, LeavesSettles
  <2>5. x = Disconnect(a, u)
    BY <1>5, <1>6
  <2>6. QED
    BY <2>4, <2>5
<1>7. CASE w.inv[u].state = "CONFIRMED"
  <2>1. x = UnlessLost(a, u, t, c)
    BY <1>5, <1>7
  <2>2. CASE Lost(a, u, t)
    <3>1. x = SendBye(Disconnect(a, u), u)
      BY <2>1, <2>2 DEF UnlessLost
    <3>2. Sound(x) /\ Parted(x)
      BY <1>1, <1>4, <3>1, ByeParts
    <3>3. Settles(Forget(x, u, t))
      BY <1>1, <3>2, ForgetParted
    <3>4. QED
      BY <3>2, <3>3 DEF Settles
  <2>3. CASE ~Lost(a, u, t) /\ w.tsx[t].client = "calling"
    <3>1. x = c
      BY <2>1, <2>3 DEF UnlessLost
    <3>2. w.tsx[t].status >= 300
      <4>1. code # 408
        BY <1>2, <1>3, <1>7, <2>3 DEF Lost, Over
      <4>2. QED
        BY <2>3, <4>1
    <3>3. Open(w, t, u)
      BY <1>1, <2>3 DEF Open
    <3>4. t # 1 /\ AsksFor(w, t, u)
      BY <1>1, <1>7, <3>3, OpenWhen DEF Live
    <3>5. /\ w.inv[u].invite_tsx = t /\ w.neg[u].state \in {"DONE", "LOCAL_OFFER"}
          /\ ~w.neg[u].has_remote_answer
      <4>1. Steady(w, u) /\ Notes(w)
        BY <1>1, <1>7 DEF Live, Dealing
      <4>2. QED
        BY <1>1, <3>4, <4>1 DEF Steady, AsksFor, Notes
    <3>6. /\ Deals(a, d, u)
          /\ Done(a, d, u, w.neg[u].active_local.sdp, w.neg[u].active_remote.sdp)
      BY <1>1, <1>2, <1>4, <3>5, WithdrawDeals DEF d
    <3>7. ASSUME NEW y, Sits(d, y, u), y.inv[u].state = d.inv[u].state,
                 y.inv[u].invite_tsx = 0, y.inv[u].last_ack_cseq = d.inv[u].last_ack_cseq,
                 y.inv[u].last_ack = d.inv[u].last_ack
          PROVE  Settles(y)
      <4>1. /\ y.neg = d.neg /\ y.tsx = a.tsx /\ y.acks = w.acks /\ Frame(d, y, {u}, {})
        BY <1>2, <3>6, <3>7 DEF Sits, Deals
      <4>2. Frame(w, y, {u}, {t})
        <5>1. Frame(a, d, {u}, {t})
          BY <3>6, FrameWider DEF Deals
        <5>2. Frame(d, y, {u}, {t})
          BY <4>1, FrameWider
        <5>3. Frame(w, d, {u}, {t})
          BY <1>4, <5>1, FrameTrans
        <5>4. QED
          BY <5>2, <5>3, FrameTrans
      <4>3. Indices(y) = Indices(w)
        BY <4>2 DEF Frame, Indices
      <4>4. /\ y.inv[u].state = "CONFIRMED"
            /\ y.inv[u].last_ack_cseq = w.inv[u].last_ack_cseq
            /\ y.inv[u].last_ack = w.inv[u].last_ack
        BY <1>2, <1>7, <3>6, <3>7 DEF Deals, SameSession
      <4>5. /\ y.neg[u].state = "DONE" /\ ~y.neg[u].has_remote_answer
            /\ y.neg[u].active_local.sdp = w.neg[u].active_local.sdp
            /\ y.neg[u].active_remote.sdp = w.neg[u].active_remote.sdp
        BY <3>6, <4>1 DEF Done
      <4>6. SameServer(w.tsx[t], y.tsx[t]) /\ y.tsx[t].sdp = w.tsx[t].sdp
            /\ y.tsx[t].client # "calling"
        BY <1>2, <4>1
      <4>7. w.tsx[t].status \notin 200..299
        BY <1>1, <3>2
      <4>8. Concludes(w, y, u, t)
        BY <3>2, <3>7, <4>1, <4>3, <4>4, <4>5, <4>6, <4>7 DEF Concludes
      <4>9. QED
        BY <1>1, <3>3, <3>4, <4>2, <4>6, <4>8, ConcludesSettles
    <3>8. Sound(d) /\ d.inv[u].invite_tsx = t
      BY <1>2, <3>5, <3>6 DEF Deals, Frame, SameSession
    <3>9. /\ Sits(d, c, u) /\ c.inv[u].state = d.inv[u].state
          /\ c.inv[u].invite_tsx = 0
          /\ c.inv[u].last_ack_cseq = d.inv[u].last_ack_cseq
          /\ c.inv[u].last_ack = d.inv[u].last_ack
      BY <1>1, <3>8, ForgetSits DEF c
    <3>10. Sound(c)
      BY <3>9 DEF Sits, Frame
    <3> DEFINE e == Forget(c, u, t)
    <3>11. /\ Sits(c, e, u) /\ e.inv[u].state = c.inv[u].state
           /\ e.inv[u].invite_tsx = 0
           /\ e.inv[u].last_ack_cseq = c.inv[u].last_ack_cseq
           /\ e.inv[u].last_ack = c.inv[u].last_ack
      BY <1>1, <3>9, <3>10, ForgetSits
    <3> HIDE DEF e
    <3>12. Sits(d, e, u)
      BY <3>9, <3>11, FrameTrans DEF Sits
    <3>13. Settles(c)
      BY <3>7, <3>9
    <3>14. Settles(e)
      BY <3>7, <3>9, <3>11, <3>12
    <3>15. QED
      BY <3>1, <3>13, <3>14 DEF e
  <2>4. CASE ~Lost(a, u, t) /\ w.tsx[t].client # "calling"
    <3>1. x = c
      BY <2>1, <2>4 DEF UnlessLost
    <3>2. d = a
      BY <1>1, <1>2, <2>4 DEF d, Withdraw
    <3>3. Little(w, c)
      BY <2>4, <3>2, TurnLittle DEF a, c, u
    <3>4. c.tsx[t].client # "calling"
      <4>1. Sits(a, c, u)
        BY <1>1, <1>4, <3>2, ForgetSits DEF c
      <4>2. QED
        BY <1>2, <4>1 DEF Sits
    <3>5. Little(w, Forget(c, u, t))
      BY <1>1, <3>3, <3>4, ForgetLittle
    <3>6. QED
      BY <3>1, <3>3, <3>5, LittleSettles
  <2>5. QED
    BY <2>2, <2>3, <2>4
<1>8. CASE w.inv[u].state \notin {"CALLING", "EARLY", "CONFIRMED"}
  <2>1. x = a
    BY <1>5, <1>8
  <2>2. t = 1 /\ w.inv["caller"].state = "DISCONNECTED"
    <3>1. t = 1 /\ u = "caller"
      BY <1>1, <1>8
    <3>2. w.inv["caller"].state \in States
      <4>1. w.inv["caller"] \in Sessions(Nat, Nat)
        BY <1>1, SoundParts DEF Ends
      <4>2. QED
        BY <4>1 DEF Sessions
    <3>3. w.inv["caller"].state \notin {"NULL", "INCOMING", "CONNECTING"}
      BY Bearings DEF Live
    <3>4. QED
      BY <1>8, <3>1, <3>2, <3>3 DEF States
  <2>3. Little(w, a) /\ Little(w, Forget(a, u, t))
    <3>1. /\ Little(w, ClientEnters(w, t, client, code))
          /\ Little(w, Forget(ClientEnters(w, t, client, code), Client(w, t), t))
      BY <2>2, TurnLittle
    <3>2. QED
      BY <3>1 DEF a, u
  <2>4. QED
    BY <2>1, <2>3, LittleSettles
<1>9. QED
  BY <1>6, <1>7, <1>8

-----------------------------------------------------------------------------
(* The ACK *)

\* What inv_send_ack leaves before it confirms the call.
Acks(w, v, u, t, choice) ==
    LET n == w.neg[u]
        r == w.inv[u]
        s == v.inv[u]
    IN  /\ Frame(w, v, {u}, {t}) /\ s.state = r.state /\ s.invite_tsx = r.invite_tsx
        /\ SameServer(w.tsx[t], v.tsx[t]) /\ v.tsx[t].sdp = w.tsx[t].sdp
        /\ v.tsx[t].client = w.tsx[t].client
        /\ r.invite_tsx = 0 => v.tsx = w.tsx
        /\ s.last_ack_cseq = t /\ v.acks = w.acks \cup {[t |-> t, sdp |-> s.last_ack]}
        /\ \/ /\ r.last_ack_cseq = t \/ ~HasLocalAnswer(n)
              /\ v.neg = w.neg
              /\ s.last_ack = IF r.last_ack_cseq = t THEN r.last_ack ELSE 0
           \/ /\ r.last_ack_cseq # t /\ HasLocalAnswer(n)
              /\ IF choice # "mismatch"
                 THEN Done(w, v, u, n.local.sdp, n.remote.sdp) /\ s.last_ack = n.local.sdp
                 ELSE /\ Done(w, v, u, n.active_local.sdp, n.active_remote.sdp)
                      /\ s.last_ack = 0

\* An ACK goes out.
LEMMA AcksFrame ==
  ASSUME NEW w, Sound(w), NEW t \in Indices(w), NEW sdp \in Nat
  PROVE  LET v == [w EXCEPT !.acks = @ \cup {[t |-> t, sdp |-> sdp]}]
         IN  /\ Frame(w, v, {}, {}) /\ v.inv = w.inv /\ v.tsx = w.tsx /\ v.neg = w.neg
             /\ v.acks = w.acks \cup {[t |-> t, sdp |-> sdp]}
<1> DEFINE ack == [t |-> t, sdp |-> sdp]
           A == w.acks \cup {ack}
           v == [w EXCEPT !.acks = A]
<1>1. /\ w \in Worlds /\ w.acks \in SUBSET [t : Nat, sdp : Nat]
      /\ \A a \in w.acks : a.t \in 1..Len(w.tsx)
  BY DEF Worlds, Sound, Typed
<1>2. ack \in [t : Nat, sdp : Nat] /\ ack.t = t /\ t \in 1..Len(w.tsx)
  BY DEF Indices
<1>3. [w EXCEPT !.acks = @ \cup {[t |-> t, sdp |-> sdp]}] = v
  OBVIOUS
<1> HIDE DEF ack
<1>4. A \in SUBSET [t : Nat, sdp : Nat] /\ \A a \in A : a.t \in 1..Len(w.tsx)
  BY <1>1, <1>2
<1> HIDE DEF A
<1>5. Tame(w, v) /\ v.inv = w.inv /\ v.tsx = w.tsx /\ v.neg = w.neg
  BY <1>4, PutAcksTame
<1>6. v.acks = A
  BY <1>1 DEF Worlds
<1> HIDE DEF v
<1>7. Frame(w, v, {}, {})
  BY <1>5 DEF Tame, Frame, SameSession, SameDeal, Twin
<1>8. QED
  BY <1>3, <1>5, <1>6, <1>7 DEF A, ack

\* Either the cached one or one that is made now.
LEMMA SendAckDoes ==
  ASSUME NEW w, Sound(w), NEW t \in Indices(w), NEW u, w.tsx[t].from = u,
         w.inv[u].invite_tsx \in {0, t}, NEW choice
  PROVE  \E v : Acks(w, v, u, t, choice) /\ SendAck(w, t, choice) = AckSent(v, u)
<1> DEFINE i == w.inv[u].invite_tsx
           fits == choice # "mismatch"
           answers == HasLocalAnswer(w.neg[u])
           n == Negotiate(w, u, fits)
           marked == [n EXCEPT !.tsx[i].done = @ \/ fits]
           agreed == IF ~answers THEN w ELSE IF i = 0 THEN n ELSE marked
           sdp == IF answers /\ fits THEN agreed.neg[u].active_local.sdp ELSE 0
           fresh == [agreed EXCEPT !.inv[u].last_ack_cseq = t, !.inv[u].last_ack = sdp]
           created == IF w.inv[u].last_ack_cseq = t THEN w ELSE fresh
           sent == [created EXCEPT !.acks = @ \cup {[t |-> t, sdp |-> created.inv[u].last_ack]}]
<1>1. u \in Ends /\ t \in Nat /\ t \in 1..Len(w.tsx) /\ t # 0 /\ Client(w, t) = u
  BY SoundParts DEF Indices, Client
<1>2. SendAck(w, t, choice) = AckSent(sent, u)
  BY <1>1 DEF SendAck
<1>3. /\ Deals(w, n, u)
      /\ fits => Done(w, n, u, w.neg[u].local.sdp, w.neg[u].remote.sdp)
      /\ ~fits => Done(w, n, u, w.neg[u].active_local.sdp, w.neg[u].active_remote.sdp)
  <2>1. fits \in BOOLEAN
    OBVIOUS
  <2> HIDE DEF fits
  <2>2. QED
    BY <1>1, <2>1, NegotiateDeals
<1> HIDE DEF n
<1>4. /\ Deals2(w, n, u, t) /\ n.tsx = w.tsx /\ Sound(n) /\ t \in Indices(n)
  <2>1. Deals2(w, n, u, t) /\ n.tsx = w.tsx /\ Sound(n)
    BY <1>1, <1>3, DealsDeals2
  <2>2. QED
    BY <2>1 DEF Indices
<1>5. ASSUME i # 0
      PROVE  /\ Deals2(w, marked, u, t) /\ marked.neg = n.neg
             /\ SameServer(w.tsx[t], marked.tsx[t])
  <2> DEFINE b == n.tsx[i].done \/ fits
             d == [n EXCEPT !.tsx[t].done = b]
  <2>1. b \in BOOLEAN /\ i = t /\ marked = d
    <3>1. b \in BOOLEAN /\ i = t
      BY <1>5
    <3>2. QED
      BY <3>1
  <2> HIDE DEF b
  <2>2. /\ Frame(n, d, {}, {t}) /\ d.neg = n.neg /\ d.inv = n.inv /\ d.acks = n.acks
        /\ Twin([n.tsx[t] EXCEPT !.done = b], d.tsx[t])
    <3>1. Sound(n) /\ t \in Indices(n) /\ b \in BOOLEAN
      BY <1>4, <2>1
    <3>2. QED
      BY <3>1, MarkFrame, ZenonT(60)
  <2> HIDE DEF d
  <2>3. n.tsx[t] \in Transactions(Nat, Nat)
    BY <1>4, SoundParts DEF Indices
  <2>4. /\ d.tsx[t].sdp = n.tsx[t].sdp /\ d.tsx[t].client = n.tsx[t].client
        /\ SameServer(n.tsx[t], d.tsx[t])
    BY <2>2, <2>3 DEF Twin, SameServer, Transactions
  <2>5. Deals2(w, d, u, t)
    BY <1>4, <2>2, <2>4, Deals2Mark
  <2>6. QED
    BY <1>4, <2>1, <2>2, <2>4, <2>5
<1> HIDE DEF marked
<1>6. /\ Deals2(w, agreed, u, t) /\ SameServer(w.tsx[t], agreed.tsx[t])
      /\ agreed.tsx[t].client = w.tsx[t].client
      /\ ~answers => agreed.neg = w.neg
      /\ answers => agreed.neg = n.neg
      /\ i = 0 => agreed.tsx = w.tsx
  <2>1. CASE ~answers
    <3>1. Frame(w, w, {u}, {t})
      BY FrameRefl
    <3>2. QED
      BY <2>1, <3>1 DEF Deals2, SameServer, SameSession
  <2>2. CASE answers /\ i = 0
    BY <1>4, <2>2 DEF SameServer
  <2>3. CASE answers /\ i # 0
    BY <1>5, <2>3 DEF Deals2
  <2>4. QED
    BY <2>1, <2>2, <2>3
<1>7. answers => IF fits THEN /\ Done(w, agreed, u, w.neg[u].local.sdp, w.neg[u].remote.sdp)
                              /\ sdp = w.neg[u].local.sdp
                 ELSE /\ Done(w, agreed, u, w.neg[u].active_local.sdp, w.neg[u].active_remote.sdp)
                      /\ sdp = 0
  BY <1>3, <1>6 DEF Done
<1> HIDE DEF agreed
<1>8. ~answers => sdp = 0
  OBVIOUS
<1>9. sdp \in Nat /\ Sound(agreed)
  <2>1. w.neg[u].local.sdp \in Nat
    BY <1>1, SoundParts
  <2>2. sdp \in Nat
    BY <1>7, <1>8, <2>1
  <2>3. QED
    BY <1>6, <2>2 DEF Deals2, Frame
<1> HIDE DEF sdp
<1>10. /\ Sits(agreed, fresh, u) /\ fresh.inv[u].state = agreed.inv[u].state
       /\ fresh.inv[u].invite_tsx = agreed.inv[u].invite_tsx
       /\ fresh.inv[u].last_ack_cseq = t /\ fresh.inv[u].last_ack = sdp
  <2>1. Sound(agreed) /\ u \in Ends /\ t \in Nat /\ sdp \in Nat
    BY <1>1, <1>9
  <2>2. Cached(agreed, fresh, u, t, sdp)
    BY <2>1, CacheDoes
  <2> HIDE DEF fresh
  <2>3. QED
    BY <2>2 DEF Cached
<1> HIDE DEF fresh
<1>11. Frame(w, fresh, {u}, {t})
  <2>1. Frame(agreed, fresh, {u}, {t})
    BY <1>10, FrameWider DEF Sits
  <2>2. QED
    BY <1>6, <2>1, FrameTrans DEF Deals2
<1>12. /\ Frame(w, created, {u}, {t}) /\ created.acks = w.acks
       /\ created.inv[u].state = w.inv[u].state
       /\ created.inv[u].invite_tsx = i /\ created.inv[u].last_ack_cseq = t
       /\ SameServer(w.tsx[t], created.tsx[t]) /\ created.tsx[t].sdp = w.tsx[t].sdp
       /\ created.tsx[t].client = w.tsx[t].client
       /\ i = 0 => created.tsx = w.tsx
       /\ \/ /\ w.inv[u].last_ack_cseq = t \/ ~answers
             /\ created.neg = w.neg
             /\ created.inv[u].last_ack =
                   IF w.inv[u].last_ack_cseq = t THEN w.inv[u].last_ack ELSE 0
          \/ /\ w.inv[u].last_ack_cseq # t /\ answers
             /\ created.neg = agreed.neg /\ created.inv[u].last_ack = sdp
  <2>1. CASE w.inv[u].last_ack_cseq = t
    <3>1. Frame(w, w, {u}, {t})
      BY FrameRefl
    <3>2. QED
      BY <2>1, <3>1 DEF SameServer
  <2>2. CASE w.inv[u].last_ack_cseq # t
    <3>1. created = fresh
      BY <2>2
    <3>2. /\ fresh.neg = agreed.neg /\ fresh.tsx = agreed.tsx /\ fresh.acks = agreed.acks
      BY <1>10 DEF Sits
    <3>3. SameSession(w.inv[u], agreed.inv[u]) /\ agreed.acks = w.acks
          /\ agreed.tsx[t].sdp = w.tsx[t].sdp
      BY <1>6 DEF Deals2
    <3>4. /\ Frame(w, fresh, {u}, {t}) /\ fresh.acks = w.acks
          /\ fresh.inv[u].state = w.inv[u].state
          /\ fresh.inv[u].invite_tsx = i /\ fresh.inv[u].last_ack_cseq = t
          /\ SameServer(w.tsx[t], fresh.tsx[t]) /\ fresh.tsx[t].sdp = w.tsx[t].sdp
          /\ fresh.tsx[t].client = w.tsx[t].client
          /\ i = 0 => fresh.tsx = w.tsx
      BY <1>6, <1>10, <1>11, <3>2, <3>3 DEF SameSession
    <3>5. \/ ~answers /\ fresh.neg = w.neg /\ fresh.inv[u].last_ack = 0
          \/ answers /\ fresh.neg = agreed.neg /\ fresh.inv[u].last_ack = sdp
      BY <1>6, <1>8, <1>10, <3>2
    <3>6. QED
      BY <2>2, <3>1, <3>4, <3>5
  <2>3. QED
    BY <2>1, <2>2
<1> HIDE DEF created
<1>13. Sound(created) /\ created.inv[u].last_ack \in Nat /\ t \in Indices(created)
  <2>1. Sound(created) /\ t \in Indices(created)
    BY <1>12 DEF Frame, Indices
  <2>2. created.inv[u] \in Sessions(Nat, Nat)
    BY <1>1, <2>1, SoundParts
  <2>3. QED
    BY <2>1, <2>2 DEF Sessions
<1>14. /\ Frame(created, sent, {}, {}) /\ sent.inv = created.inv /\ sent.tsx = created.tsx
       /\ sent.neg = created.neg
       /\ sent.acks = created.acks \cup {[t |-> t, sdp |-> created.inv[u].last_ack]}
  BY <1>13, AcksFrame
<1> HIDE DEF sent
<1>15. Frame(w, sent, {u}, {t})
  <2>1. Frame(created, sent, {u}, {t})
    BY <1>14, FrameWider
  <2>2. QED
    BY <1>12, <2>1, FrameTrans
<1>16. \/ /\ w.inv[u].last_ack_cseq = t \/ ~answers
          /\ sent.neg = w.neg
          /\ sent.inv[u].last_ack =
                IF w.inv[u].last_ack_cseq = t THEN w.inv[u].last_ack ELSE 0
       \/ /\ w.inv[u].last_ack_cseq # t /\ answers
          /\ IF fits THEN /\ Done(w, sent, u, w.neg[u].local.sdp, w.neg[u].remote.sdp)
                          /\ sent.inv[u].last_ack = w.neg[u].local.sdp
             ELSE /\ Done(w, sent, u, w.neg[u].active_local.sdp, w.neg[u].active_remote.sdp)
                  /\ sent.inv[u].last_ack = 0
  BY <1>7, <1>12, <1>14 DEF Done
<1>17. Acks(w, sent, u, t, choice)
  BY <1>12, <1>14, <1>15, <1>16 DEF Acks
<1>18. QED
  BY <1>2, <1>17

-----------------------------------------------------------------------------
(* The final response to an INVITE *)

\* The end u changes its state or its negotiator.
Keeps(w, v, u) ==
    /\ Frame(w, v, {u}, {}) /\ v.tsx = w.tsx /\ v.acks = w.acks
    /\ v.inv[u].invite_tsx = w.inv[u].invite_tsx
    /\ v.inv[u].last_ack_cseq = w.inv[u].last_ack_cseq

\* The client of INVITE t is done and acknowledges the response.
Sent(w, v, u, t) ==
    /\ Frame(w, v, {u}, {t}) /\ SameServer(w.tsx[t], v.tsx[t]) /\ v.tsx[t].sdp = w.tsx[t].sdp
    /\ v.tsx[t].client = "terminated" /\ v.inv[u].invite_tsx = w.inv[u].invite_tsx
    /\ v.inv[u].last_ack_cseq = t
    /\ v.acks = w.acks \cup {[t |-> t, sdp |-> v.inv[u].last_ack]}
    /\ w.inv[u].last_ack_cseq # t

\* The client of t gets a response and negotiates, changes its state, and sends the ACK.
OkPath(w, a, b, c, x, u, t, choice) ==
    /\ Enters(w, a, t, "terminated")
    /\ Deals2(a, b, u, t) /\ SameServer(a.tsx[t], b.tsx[t])
    /\ Checks(a, b, u, w.tsx[t].body, a.tsx[t].done, b.tsx[t].done, choice)
    /\ Keeps(b, c, u) /\ Acks(c, x, u, t, choice)

\* The response with a description, and the ACK.
LEMMA OkSent ==
  ASSUME NEW w, Live(w), NEW t \in Indices(w), NEW u, w.tsx[t].from = u, NEW choice,
         w.tsx[t].client = "calling", NEW a, NEW b, NEW c, NEW x,
         OkPath(w, a, b, c, x, u, t, choice)
  PROVE  Sent(w, x, u, t)
<1>1. t # 0 /\ u \in Ends
  BY LiveParts
<1> USE DEF OkPath
<1>2. /\ Frame(w, a, {u}, {t}) /\ Frame(a, b, {u}, {t})
      /\ Frame(b, c, {u}, {t}) /\ Frame(c, x, {u}, {t})
  <2>1. Frame(w, a, {u}, {t})
    BY FrameWider DEF Enters
  <2>2. Frame(b, c, {u}, {t})
    BY FrameWider DEF Keeps
  <2>3. QED
    BY <2>1, <2>2 DEF Deals2, Acks
<1>3. Frame(w, x, {u}, {t})
  <2>1. Frame(w, b, {u}, {t})
    BY <1>2, FrameTrans
  <2>2. Frame(w, c, {u}, {t})
    BY <1>2, <2>1, FrameTrans
  <2>3. QED
    BY <1>2, <2>2, FrameTrans
<1>4. SameServer(w.tsx[t], x.tsx[t]) /\ x.tsx[t].sdp = w.tsx[t].sdp
      /\ x.tsx[t].client = "terminated"
  BY DEF Enters, Deals2, Keeps, Acks, SameServer
<1>5. /\ x.inv[u].invite_tsx = w.inv[u].invite_tsx
      /\ c.inv[u].last_ack_cseq = w.inv[u].last_ack_cseq /\ c.acks = w.acks
  BY DEF Enters, Deals2, Keeps, Acks, SameSession
<1>6. /\ x.inv[u].last_ack_cseq = t
      /\ x.acks = w.acks \cup {[t |-> t, sdp |-> x.inv[u].last_ack]}
  BY <1>5 DEF Acks
<1>7. w.inv[u].last_ack_cseq # t
  BY <1>1 DEF Live, Dealing, Notes
<1>8. QED
  BY <1>3, <1>4, <1>5, <1>6, <1>7 DEF Sent

\* A caller that gets a 2xx response has a callee that waits for the ACK.
LEMMA OkConnecting ==
  ASSUME NEW w, Live(w), w.tsx[1].status \in 200..299,
         w.inv["caller"].state \in {"CALLING", "EARLY"}
  PROVE  w.inv["callee"].state = "CONNECTING" /\ w.tsx[1].server = "completed"
<1>1. /\ Runs(w) /\ Dealing(w) /\ Ending(w) /\ Course(w) /\ Sound(w)
      /\ 1 \in Indices(w) /\ "callee" \in Ends /\ Peer("callee") = "caller"
      /\ w.tsx[1].status \in Nat /\ w.tsx[1].from = "caller" /\ Len(w.tsx) > 0
  BY Basics DEF Live, Runs, Begun
<1>2. w.inv["callee"].state # "DISCONNECTED"
  <2>1. SUFFICES ASSUME w.inv["callee"].state = "DISCONNECTED" PROVE FALSE
    OBVIOUS
  <2>2. Excused(w, "callee")
    BY <1>1, <2>1 DEF Ending, Together
  <2>3. ~Leaving(w, "callee") /\ ~Unanswered(w, "callee") /\ ~Calling(w, "caller")
    BY DEF Live, Parted, Leaving, Unanswered, Calling, Bye
  <2>4. ~Refused(w)
    <3>1. ~(w.tsx[1].status >= 300)
      OBVIOUS
    <3>2. QED
      BY <3>1 DEF Refused
  <2>5. GaveUp(w, "callee")
    BY <1>1, <2>2, <2>3, <2>4 DEF Excused
  <2>6. PICK t \in Indices(w) : w.tsx[t].from = "callee"
    BY <2>5 DEF GaveUp
  <2>7. t # 1 /\ w.tsx[t].method # "CANCEL" /\ w.tsx[t].from = "callee"
    <3>1. t # 1
      BY <1>1, <2>6
    <3>2. w.tsx[t].method # "CANCEL"
      BY <2>6, LiveParts
    <3>3. QED
      BY <2>6, <3>1, <3>2
  <2>8. w.inv["callee"].state = "CONFIRMED"
    BY <2>7, LiveParts
  <2>9. QED
    BY <2>1, <2>8
<1>3. w.inv["callee"].state \notin {"NULL", "CALLING", "CONFIRMED"}
  <2>1. w.inv["callee"].state \notin {"NULL", "CALLING"}
    BY <1>1 DEF Course
  <2>2. w.inv["callee"].state # "CONFIRMED"
    BY <1>1 DEF Dealing, CallerRings
  <2>3. QED
    BY <2>1, <2>2
<1>4. w.inv["callee"].state \notin {"INCOMING", "EARLY"}
  <2>1. w.tsx[1].server # "proceeding"
    <3>1. w.tsx[1].server = "proceeding" => w.tsx[1].status < 200
      BY <1>1 DEF Ending, Codes
    <3>2. w.tsx[1].status >= 200
      OBVIOUS
    <3>3. QED
      BY <1>1, <3>1, <3>2
  <2>2. QED
    BY <1>1, <2>1 DEF Course
<1>5. w.inv["callee"].state \in States
  <2>1. w.inv["callee"] \in Sessions(Nat, Nat)
    BY <1>1, SoundParts
  <2>2. QED
    BY <2>1 DEF Sessions
<1>6. w.inv["callee"].state = "CONNECTING"
  BY <1>2, <1>3, <1>4, <1>5 DEF States
<1>7. QED
  BY <1>1, <1>6 DEF Dealing, Connecting

-----------------------------------------------------------------------------
(* The 2xx response to the first INVITE *)

\* What the caller agrees on with it.
OkMedia(w, x) ==
    LET n == w.neg["caller"]
        m == x.neg["caller"]
        a == x.inv["caller"].last_ack
        body == w.tsx[1].body
    IN  /\ ~m.has_remote_answer
        /\ \/ /\ n.state = "LOCAL_OFFER" /\ body # 0 /\ a = 0
              /\ m.active_local.sdp = n.local.sdp /\ m.active_remote.sdp = body
           \/ /\ n.state \in {"DONE", "NULL", "WAIT_NEGO"} /\ a = 0
              /\ m.active_local.sdp = n.active_local.sdp
              /\ m.active_remote.sdp = n.active_remote.sdp
           \/ /\ n.state = "NULL" /\ body # 0 /\ a # 0
              /\ m.active_local.sdp = a /\ m.active_remote.sdp = body
           \/ /\ n.state = "WAIT_NEGO" /\ a # 0
              /\ m.active_local.sdp = a /\ m.active_remote.sdp = n.remote.sdp

\* The caller negotiates, in the response or for the ACK.
LEMMA OkAgrees ==
  ASSUME NEW w, Live(w), w.tsx[1].client = "calling", w.tsx[1].status \in 200..299,
         w.inv["caller"].state \in {"CALLING", "EARLY"}, NEW choice, choice # "decline",
         NEW a, NEW b, NEW c, NEW x, OkPath(w, a, b, c, x, "caller", 1, choice),
         c.neg = b.neg, c.inv["caller"].last_ack_cseq # 1, x.neg["caller"].state = "DONE"
  PROVE  OkMedia(w, x)
<1> DEFINE n == w.neg["caller"]
           k == b.neg["caller"]
           body == w.tsx[1].body
           m == x.neg["caller"]
           z == x.inv["caller"].last_ack
<1>1. /\ Runs(w) /\ Dealing(w) /\ Sound(w) /\ 1 \in Indices(w) /\ a.neg = w.neg
      /\ a.tsx[1].done = w.tsx[1].done /\ Sound(a)
  BY Basics DEF Live, Runs, Begun, OkPath, Enters, Frame
<1>2. body # 0 /\ ~n.has_remote_answer
  <2>1. CalleeRings(w) /\ w.inv["callee"].state = "CONNECTING"
    BY <1>1, OkConnecting DEF Dealing
  <2>2. ~n.has_remote_answer
    BY <1>1 DEF Dealing, Notes, Ends
  <2>3. QED
    BY <2>1, <2>2 DEF CalleeRings
<1>3. \/ n.state = "LOCAL_OFFER" /\ ~w.tsx[1].done
      \/ n.state = "DONE" /\ w.tsx[1].done
      \/ n.state = "NULL" /\ ~w.tsx[1].done
      \/ n.state = "WAIT_NEGO" /\ n.local.sdp # 0
      \/ n.state = "REMOTE_OFFER"
  BY <1>1 DEF Dealing, CallerRings
<1>4. \/ /\ n.state = "LOCAL_OFFER" /\ k.state = "DONE"
         /\ ~k.has_remote_answer
         /\ k.active_local.sdp = n.local.sdp /\ k.active_remote.sdp = body
      \/ n.state = "DONE" /\ k = n
      \/ /\ n.state = "NULL" /\ k.state = "WAIT_NEGO" /\ ~k.has_remote_answer
         /\ k.remote.sdp = body /\ k.local.sdp = a.sdps + 1
         /\ k.active_local = n.active_local /\ k.active_remote = n.active_remote
      \/ n.state \in {"WAIT_NEGO", "REMOTE_OFFER"} /\ k = n
  BY <1>1, <1>2, <1>3 DEF OkPath, Checks, Done
<1>5. a.sdps + 1 # 0
  <2>1. a.sdps \in Nat
    BY <1>1, SoundParts
  <2>2. QED
    BY <2>1
<1>6. \/ ~HasLocalAnswer(k) /\ m = k /\ z = 0
      \/ /\ HasLocalAnswer(k) /\ ~m.has_remote_answer
         /\ \/ /\ m.active_local.sdp = k.local.sdp /\ m.active_remote.sdp = k.remote.sdp
               /\ z = k.local.sdp
            \/ /\ m.active_local.sdp = k.active_local.sdp
               /\ m.active_remote.sdp = k.active_remote.sdp /\ z = 0
  BY DEF OkPath, Acks, Done
<1>7. m.state = "DONE"
  OBVIOUS
<1>8. CASE n.state = "LOCAL_OFFER"
  BY <1>2, <1>4, <1>6, <1>8 DEF OkMedia, HasLocalAnswer
<1>9. CASE n.state = "DONE"
  BY <1>2, <1>4, <1>6, <1>9 DEF OkMedia, HasLocalAnswer
<1>10. CASE n.state = "NULL"
  BY <1>2, <1>4, <1>5, <1>6, <1>7, <1>10 DEF OkMedia, HasLocalAnswer
<1>11. CASE n.state = "WAIT_NEGO"
  BY <1>2, <1>3, <1>4, <1>6, <1>7, <1>11 DEF OkMedia, HasLocalAnswer
<1>12. CASE n.state = "REMOTE_OFFER"
  BY <1>4, <1>6, <1>7, <1>12 DEF HasLocalAnswer
<1>13. QED
  BY <1>3, <1>8, <1>9, <1>10, <1>11, <1>12

\* The call is confirmed, or ended for want of an agreement.
LEMMA OkConfirms ==
  ASSUME NEW w, Live(w), w.tsx[1].method = "INVITE", w.tsx[1].client = "calling",
         w.tsx[1].status \in 200..299, w.inv["caller"].state \in {"CALLING", "EARLY"},
         NEW x, Sent(w, x, "caller", 1), x.inv["caller"].state = "CONNECTING",
         x.neg["caller"].state = "DONE" => OkMedia(w, x)
  PROVE  Settles(Forget(AckSent(x, "caller"), "caller", 1))
<1> DEFINE u == "caller"
<1>1. /\ u \in Ends /\ 1 \in Indices(w) /\ w.tsx[1].from = u /\ Runs(w) /\ Sound(w)
      /\ Frame(w, x, {u}, {1}) /\ Sound(x) /\ Len(x.tsx) = Len(w.tsx)
      /\ AckSent(x, u) = Confirm(x, u)
  BY Basics DEF Live, Runs, Begun, Sent, Frame, AckSent
<1>2. CASE x.neg[u].state # "DONE"
  <2>1. AckSent(x, u) = SendBye(x, u)
    BY <1>1, <1>2 DEF Confirm
  <2>2. Sound(SendBye(x, u)) /\ Parted(SendBye(x, u))
    BY <1>1, ByeParts
  <2> DEFINE v == SendBye(x, u)
  <2> HIDE DEF v
  <2>3. Settles(Forget(v, u, 1))
    BY <1>1, <2>2, ForgetParted DEF v
  <2>4. QED
    BY <2>1, <2>3 DEF v
<1>3. CASE x.neg[u].state = "DONE"
  <2> DEFINE y == SetState(x, u, "CONFIRMED")
             v == Forget(y, u, 1)
  <2>1. AckSent(x, u) = y
    BY <1>1, <1>3 DEF Confirm
  <2>2. /\ Sits(x, y, u) /\ y.inv[u].state = "CONFIRMED"
        /\ y.inv[u].invite_tsx = x.inv[u].invite_tsx
        /\ y.inv[u].last_ack_cseq = x.inv[u].last_ack_cseq
        /\ y.inv[u].last_ack = x.inv[u].last_ack
    <3>1. "CONFIRMED" \in States
      BY DEF States
    <3>2. QED
      BY <1>1, <3>1, StateSits
  <2> HIDE DEF y
  <2>3. Sound(y)
    BY <2>2 DEF Sits, Frame
  <2>4. /\ Sits(y, v, u) /\ v.inv[u].state = y.inv[u].state
        /\ v.inv[u].invite_tsx = IF y.inv[u].invite_tsx = 1 THEN 0 ELSE y.inv[u].invite_tsx
        /\ v.inv[u].last_ack_cseq = y.inv[u].last_ack_cseq
        /\ v.inv[u].last_ack = y.inv[u].last_ack
    BY <1>1, <2>3, ForgetSits
  <2> HIDE DEF v
  <2>5. v.tsx = x.tsx /\ v.neg = x.neg /\ v.acks = x.acks
    BY <2>2, <2>4 DEF Sits
  <2>6. Frame(w, v, {u}, {1})
    <3>1. Frame(x, y, {u}, {1}) /\ Frame(y, v, {u}, {1})
      <4>1. Frame(x, y, {u}, {}) /\ Frame(y, v, {u}, {})
        BY <2>2, <2>4 DEF Sits
      <4>2. QED
        BY <4>1, FrameWider
    <3>2. Frame(w, y, {u}, {1})
      BY <1>1, <3>1, FrameTrans
    <3>3. QED
      BY <3>1, <3>2, FrameTrans
  <2>7. SameServer(w.tsx[1], v.tsx[1]) /\ v.tsx[1].sdp = w.tsx[1].sdp
        /\ v.tsx[1].client = "terminated"
    BY <2>5 DEF Sent
  <2>8. Moves(w, v, u, 1) /\ Sound(v)
    <3>1. v.tsx[1].client = "calling" => w.tsx[1].client = "calling"
      OBVIOUS
    <3>2. QED
      BY <1>1, <2>6, <2>7, <3>1, ClientMoves
  <2>9. w.inv[u].invite_tsx = 1 /\ w.tsx[1].server = "completed"
    <3>1. Course(w)
      BY <1>1 DEF Runs, Begun
    <3>2. QED
      BY <3>1, OkConnecting DEF Course
  <2>10. /\ v.inv[u].invite_tsx = 0 /\ v.inv[u].last_ack_cseq = 1
         /\ v.inv[u].last_ack = x.inv[u].last_ack /\ v.inv[u].state = "CONFIRMED"
         /\ v.acks = w.acks \cup {[t |-> 1, sdp |-> v.inv[u].last_ack]}
    BY <2>2, <2>4, <2>5, <2>9 DEF Sent
  <2>11. Len(v.tsx) = Len(w.tsx) /\ v.neg[u].state = "DONE"
    BY <1>1, <1>3, <2>5
  <2>12. OkMedia(w, x)
    BY <1>3
  <2>13. Confirms(w, v)
    BY <2>5, <2>7, <2>9, <2>10, <2>11, <2>12 DEF Confirms, OkMedia
  <2>14. Dealing(v)
    BY <1>1, <2>8, <2>13, ConfirmsDealing DEF Live
  <2>15. QED
    BY <2>1, <2>8, <2>14 DEF v, Settles
<1>4. QED
  BY <1>2, <1>3

-----------------------------------------------------------------------------
(* The 2xx response to a re-INVITE *)

\* What the client of t agrees on with it, before it acknowledges it.
OkChecked(w, b, u, t) ==
    LET n == w.neg[u]
        k == b.neg[u]
        x == w.tsx[t]
    IN  /\ t # 1 /\ w.inv[u].invite_tsx = t
        /\ \/ /\ x.body # 0 /\ x.sdp # 0 /\ k.state = "DONE" /\ ~k.has_remote_answer
              /\ k.active_local.sdp = x.sdp /\ k.active_remote.sdp = x.body
           \/ /\ x.body = 0 /\ k = n /\ n.state \in {"DONE", "LOCAL_OFFER"}
              /\ ~n.has_remote_answer
           \/ /\ x.body # 0 /\ x.sdp = 0 /\ k.state = "WAIT_NEGO" /\ ~k.has_remote_answer
              /\ k.remote.sdp = x.body /\ k.local.sdp # 0
              /\ k.active_local = n.active_local /\ k.active_remote = n.active_remote

\* It has an answer to its offer, or an offer that it answers.
LEMMA OkChecks ==
  ASSUME NEW w, Live(w), NEW t \in Indices(w), NEW u, w.tsx[t].from = u,
         w.tsx[t].method = "INVITE", w.tsx[t].client = "calling", w.inv[u].state = "CONFIRMED",
         NEW choice, choice # "decline", NEW a, Enters(w, a, t, "terminated"), NEW b,
         Checks(a, b, u, w.tsx[t].body, a.tsx[t].done, b.tsx[t].done, choice)
  PROVE  OkChecked(w, b, u, t)
<1> DEFINE n == w.neg[u]
<1>1. /\ Runs(w) /\ Dealing(w) /\ u \in Ends /\ a.neg = w.neg
      /\ a.tsx[t].done = w.tsx[t].done /\ Sound(a)
  <2>1. /\ Runs(w) /\ Dealing(w) /\ u \in Ends
    BY LiveParts DEF Live
  <2>2. a.neg = w.neg /\ a.tsx[t].done = w.tsx[t].done /\ Sound(a)
    BY DEF Enters, Frame
  <2>3. QED
    BY <2>1, <2>2
<1>2. Open(w, t, u)
  BY DEF Open
<1>3. t # 1 /\ AsksFor(w, t, u)
  BY <1>1, <1>2, OpenWhen
<1>4. ~n.has_remote_answer
  BY <1>1 DEF Dealing, Notes
<1>5. /\ ~w.tsx[t].done /\ w.inv[u].invite_tsx = t
      /\ \/ n.state = "LOCAL_OFFER" /\ n.local.sdp = w.tsx[t].sdp /\ w.tsx[t].sdp # 0
         \/ n.state = "DONE" /\ w.tsx[t].sdp = 0
  BY <1>3 DEF AsksFor
<1>6. a.sdps + 1 # 0
  <2>1. a.sdps \in Nat
    BY <1>1, SoundParts
  <2>2. QED
    BY <2>1
<1>7. QED
  BY <1>1, <1>3, <1>4, <1>5, <1>6 DEF Checks, Done, OkChecked

\* What an end that has nothing to answer withdraws.
Withdrawn(b, c, u) ==
    LET k == b.neg[u]
    IN  /\ Deals(b, c, u)
        /\ IF k.state = "WAIT_NEGO" THEN c.neg = b.neg
           ELSE Done(b, c, u, k.active_local.sdp, k.active_remote.sdp)

\* Then the end has nothing open.
LEMMA OkConcludes ==
  ASSUME NEW w, Live(w), NEW t \in Indices(w), NEW u, w.tsx[t].from = u,
         w.tsx[t].method = "INVITE", w.tsx[t].client = "calling", w.tsx[t].status \in 200..299,
         w.inv[u].state = "CONFIRMED", NEW choice, choice # "decline",
         NEW a, NEW b, NEW c, NEW x, OkPath(w, a, b, c, x, u, t, choice),
         Withdrawn(b, c, u)
  PROVE  Settles(Forget(AckSent(x, u), u, t))
<1> DEFINE n == w.neg[u]
           k == b.neg[u]
           l == c.neg[u]
           m == x.neg[u]
           body == w.tsx[t].body
           z == x.inv[u].last_ack
           v == Forget(x, u, t)
<1>1. Sound(x) /\ u \in Ends /\ a.inv = w.inv
  <2>1. u \in Ends
    BY LiveParts
  <2>2. QED
    BY <2>1 DEF OkPath, Acks, Frame, Enters
<1>2. OkChecked(w, b, u, t) /\ t # 1 /\ Open(w, t, u) /\ w.inv[u].invite_tsx = t
  <2>1. /\ Enters(w, a, t, "terminated")
        /\ Checks(a, b, u, w.tsx[t].body, a.tsx[t].done, b.tsx[t].done, choice)
    BY DEF OkPath
  <2>2. OkChecked(w, b, u, t)
    BY <2>1, OkChecks
  <2>3. Open(w, t, u)
    BY DEF Open
  <2>4. QED
    BY <2>2, <2>3 DEF OkChecked
<1>10. Sent(w, x, u, t) /\ c.inv[u].last_ack_cseq # t
  <2>1. Sent(w, x, u, t)
    BY OkSent
  <2>2. c.inv[u].last_ack_cseq # t
    BY <2>1 DEF Sent, OkPath, Enters, Deals2, Keeps, SameSession
  <2>3. QED
    BY <2>1, <2>2
<1>11. \/ ~HasLocalAnswer(l) /\ m = l /\ z = 0
       \/ /\ HasLocalAnswer(l) /\ m.state = "DONE" /\ ~m.has_remote_answer
          /\ \/ /\ m.active_local.sdp = l.local.sdp /\ m.active_remote.sdp = l.remote.sdp
                /\ z = l.local.sdp
             \/ /\ m.active_local.sdp = l.active_local.sdp
                /\ m.active_remote.sdp = l.active_remote.sdp /\ z = 0
  BY <1>10 DEF OkPath, Acks, Done
<1>12. /\ m.state = "DONE" /\ ~m.has_remote_answer
       /\ \/ /\ w.tsx[t].sdp # 0 /\ body # 0 /\ z = 0
             /\ m.active_local.sdp = w.tsx[t].sdp /\ m.active_remote.sdp = body
          \/ /\ w.tsx[t].sdp = 0 \/ body = 0 \/ w.tsx[t].status >= 300
             /\ z = 0
             /\ m.active_local.sdp = n.active_local.sdp
             /\ m.active_remote.sdp = n.active_remote.sdp
          \/ /\ w.tsx[t].sdp = 0 /\ body # 0 /\ z # 0
             /\ m.active_local.sdp = z /\ m.active_remote.sdp = body
  <2>1. CASE k.state # "WAIT_NEGO"
    <3>1. Done(b, c, u, k.active_local.sdp, k.active_remote.sdp)
      BY <2>1 DEF Withdrawn
    <3>2. ~HasLocalAnswer(l) /\ m = l /\ z = 0
      BY <1>11, <3>1 DEF HasLocalAnswer, Done
    <3>3. QED
      BY <1>2, <2>1, <3>1, <3>2 DEF OkChecked, Done
  <2>2. CASE k.state = "WAIT_NEGO"
    <3>1. /\ body # 0 /\ w.tsx[t].sdp = 0 /\ l = k
          /\ k.remote.sdp = body /\ k.local.sdp # 0
          /\ k.active_local = n.active_local /\ k.active_remote = n.active_remote
          /\ HasLocalAnswer(l)
      BY <1>2, <2>2 DEF HasLocalAnswer, OkChecked, Withdrawn
    <3>2. QED
      BY <1>11, <3>1
  <2>3. QED
    BY <2>1, <2>2
<1>13. x.inv[u].state = "CONFIRMED"
  BY <1>1 DEF OkPath, Deals2, Withdrawn, Deals, SameSession, Acks
<1>14. AckSent(x, u) = x
  BY <1>13 DEF AckSent
<1>15. /\ Sits(x, v, u) /\ v.inv[u].state = x.inv[u].state
       /\ v.inv[u].invite_tsx = IF x.inv[u].invite_tsx = t THEN 0 ELSE x.inv[u].invite_tsx
       /\ v.inv[u].last_ack_cseq = x.inv[u].last_ack_cseq
       /\ v.inv[u].last_ack = x.inv[u].last_ack
  BY <1>1, ForgetSits
<1> HIDE DEF v
<1>16. v.tsx = x.tsx /\ v.neg = x.neg /\ v.acks = x.acks
  BY <1>15 DEF Sits
<1>17. Frame(w, v, {u}, {t})
  <2>1. Frame(x, v, {u}, {t})
    BY <1>15, FrameWider DEF Sits
  <2>2. Frame(w, x, {u}, {t})
    BY <1>10 DEF Sent
  <2>3. QED
    BY <2>1, <2>2, FrameTrans
<1>18. SameServer(w.tsx[t], v.tsx[t]) /\ v.tsx[t].sdp = w.tsx[t].sdp
       /\ v.tsx[t].client = "terminated"
  BY <1>10, <1>16 DEF Sent
<1>19. /\ v.inv[u].invite_tsx = 0 /\ v.inv[u].last_ack_cseq = t /\ v.inv[u].last_ack = z
       /\ v.inv[u].state = "CONFIRMED" /\ v.acks = w.acks \cup {[t |-> t, sdp |-> z]}
  BY <1>2, <1>10, <1>13, <1>15, <1>16 DEF Sent
<1>20. \A s \in Indices(v) : s \in Indices(w)
  BY <1>17 DEF Frame, Indices
<1>21. Concludes(w, v, u, t)
  <2>1. m = v.neg[u] /\ z = v.inv[u].last_ack
    BY <1>16, <1>19
  <2> HIDE DEF m, z
  <2>2. /\ v.neg[u].state = "DONE" /\ ~v.neg[u].has_remote_answer
        /\ \/ /\ w.tsx[t].sdp # 0 /\ body # 0 /\ v.inv[u].last_ack = 0
              /\ v.neg[u].active_local.sdp = w.tsx[t].sdp
              /\ v.neg[u].active_remote.sdp = body
           \/ /\ w.tsx[t].sdp = 0 \/ body = 0 \/ w.tsx[t].status >= 300
              /\ v.inv[u].last_ack = 0
              /\ v.neg[u].active_local.sdp = n.active_local.sdp
              /\ v.neg[u].active_remote.sdp = n.active_remote.sdp
           \/ /\ w.tsx[t].sdp = 0 /\ body # 0 /\ v.inv[u].last_ack # 0
              /\ v.neg[u].active_local.sdp = v.inv[u].last_ack
              /\ v.neg[u].active_remote.sdp = body
    BY <1>12, <2>1
  <2>3. /\ v.inv[u].state = "CONFIRMED" /\ v.inv[u].invite_tsx = 0
        /\ v.inv[u].last_ack_cseq = t
        /\ v.acks = w.acks \cup {[t |-> t, sdp |-> v.inv[u].last_ack]}
    BY <1>19, <2>1
  <2>4. QED
    BY <1>18, <1>20, <2>2, <2>3, ConcludesIf
<1>22. Settles(v)
  BY <1>2, <1>17, <1>18, <1>21, ConcludesSettles
<1>23. QED
  BY <1>14, <1>22 DEF v

\* A negotiator that has nothing to answer withdraws its offer.
LEMMA WithdrawKeeps ==
  ASSUME NEW b, Sound(b), NEW u \in Ends, ~b.neg[u].has_remote_answer,
         b.neg[u].state \in {"DONE", "LOCAL_OFFER", "WAIT_NEGO"}
  PROVE  Withdrawn(b, Withdraw(b, u), u)
<1>1. CASE b.neg[u].state \in {"DONE", "LOCAL_OFFER"}
  BY <1>1, WithdrawDeals DEF Withdrawn
<1>2. CASE b.neg[u].state = "WAIT_NEGO"
  <2>1. Withdraw(b, u) = b
    BY <1>2 DEF Withdraw
  <2>2. Frame(b, b, {u}, {})
    BY FrameRefl
  <2>3. QED
    BY <1>2, <2>1, <2>2 DEF Withdrawn, Deals, SameSession
<1>3. QED
  BY <1>1, <1>2

\* A 2xx response to an INVITE.
LEMMA OnInviteOkSettles ==
  ASSUME NEW w, Live(w), NEW t \in Indices(w), w.tsx[t].method = "INVITE",
         w.tsx[t].client = "calling", w.tsx[t].status \in 200..299, NEW choice,
         choice # "decline"
  PROVE  Settles(OnInviteOk(w, t, choice))
<1> DEFINE u == Client(w, t)
           a == ClientEnters(w, t, "terminated", 200)
           b == CheckSdpClient(a, t, w.tsx[t].body, choice)
           c == SetState(b, u, "CONNECTING")
           d == Withdraw(b, u)
<1>1. /\ Sound(w) /\ u \in Ends /\ w.tsx[t].from = u /\ w.tsx[t].body \in Nat /\ t # 0
      /\ t = 1 => u = "caller"
      /\ t # 1 => w.inv[u].state = "CONFIRMED"
      /\ Runs(w) /\ Dealing(w)
  <2>1. w.tsx[1].from = "caller" /\ Runs(w) /\ Dealing(w)
    BY Basics DEF Live
  <2>2. QED
    BY <2>1, LiveParts
<1>2. Enters(w, a, t, "terminated")
  BY <1>1, EnterSame
<1>3. /\ Sound(a) /\ t \in Indices(a) /\ Client(a, t) = u /\ a.inv = w.inv
  BY <1>1, <1>2 DEF Enters, Frame, Indices, Client
<1> HIDE DEF a
<1>4. /\ Deals2(a, b, u, t) /\ SameServer(a.tsx[t], b.tsx[t])
      /\ Checks(a, b, u, w.tsx[t].body, a.tsx[t].done, b.tsx[t].done, choice)
  BY <1>1, <1>3, CheckClientDeals
<1> HIDE DEF b
<1>5. /\ Sound(b) /\ t \in Indices(b) /\ b.tsx[t].from = u
      /\ b.inv[u].state = w.inv[u].state /\ b.inv[u].invite_tsx = w.inv[u].invite_tsx
  BY <1>1, <1>3, <1>4 DEF Deals2, Frame, SameSession, Indices, Client
<1>6. SUFFICES ASSUME NEW y,
                      y = (CASE w.inv[u].state \in {"CALLING", "EARLY"} -> SendAck(c, t, choice)
                             [] w.inv[u].state = "CONFIRMED" -> SendAck(d, t, choice)
                             [] OTHER -> a)
               PROVE  Settles(Forget(y, u, t))
  BY DEF OnInviteOk, a, b
<1> HIDE DEF c, d, u
<1>7. CASE w.inv[u].state \in {"CALLING", "EARLY"}
  <2>1. t = 1 /\ u = "caller" /\ y = SendAck(c, t, choice)
    BY <1>1, <1>6, <1>7
  <2>2. w.inv[u].invite_tsx = t
    <3>1. Course(w)
      BY <1>1 DEF Runs, Begun
    <3>2. QED
      BY <1>7, <2>1, <3>1 DEF Course
  <2>3. /\ Sits(b, c, u) /\ c.inv[u].state = "CONNECTING"
        /\ c.inv[u].invite_tsx = b.inv[u].invite_tsx
        /\ c.inv[u].last_ack_cseq = b.inv[u].last_ack_cseq
    <3>1. "CONNECTING" \in States
      BY DEF States
    <3>2. QED
      BY <1>1, <1>5, <3>1, StateSits DEF c
  <2>4. Keeps(b, c, u) /\ c.neg = b.neg
    BY <2>3 DEF Keeps, Sits
  <2>5. Sound(c) /\ t \in Indices(c) /\ c.tsx[t].from = u /\ c.inv[u].invite_tsx \in {0, t}
    BY <1>5, <2>2, <2>3, <2>4 DEF Sits, Frame, Indices
  <2>6. PICK x : Acks(c, x, u, t, choice) /\ SendAck(c, t, choice) = AckSent(x, u)
    BY <2>5, SendAckDoes
  <2>7. /\ OkPath(w, a, b, c, x, u, t, choice)
        /\ Sent(w, x, u, t) /\ c.inv[u].last_ack_cseq # t
    <3>1. OkPath(w, a, b, c, x, u, t, choice)
      BY <1>2, <1>4, <2>4, <2>6 DEF OkPath
    <3>2. Sent(w, x, u, t)
      BY <1>1, <3>1, OkSent
    <3>3. c.inv[u].last_ack_cseq # t
      BY <3>1, <3>2 DEF Sent, OkPath, Enters, Deals2, Keeps, SameSession
    <3>4. QED
      BY <3>1, <3>2, <3>3
  <2>8. x.inv[u].state = "CONNECTING"
    BY <2>3, <2>6 DEF Acks
  <2>9. x.neg["caller"].state = "DONE" => OkMedia(w, x)
    <3>1. /\ OkPath(w, a, b, c, x, "caller", 1, choice)
          /\ c.neg = b.neg /\ c.inv["caller"].last_ack_cseq # 1
          /\ w.tsx[1].client = "calling" /\ w.tsx[1].status \in 200..299
          /\ w.inv["caller"].state \in {"CALLING", "EARLY"}
      BY <1>7, <2>1, <2>4, <2>7
    <3>2. QED
      BY <3>1, OkAgrees
  <2>10. Settles(Forget(AckSent(x, "caller"), "caller", 1))
    <3>1. /\ Sent(w, x, "caller", 1) /\ x.inv["caller"].state = "CONNECTING"
          /\ w.tsx[1].method = "INVITE" /\ w.tsx[1].client = "calling"
          /\ w.tsx[1].status \in 200..299
          /\ w.inv["caller"].state \in {"CALLING", "EARLY"}
      BY <1>7, <2>1, <2>7, <2>8
    <3>2. QED
      BY <2>9, <3>1, OkConfirms
  <2>11. QED
    BY <2>1, <2>6, <2>10
<1>8. CASE w.inv[u].state = "CONFIRMED"
  <2>1. y = SendAck(d, t, choice)
    BY <1>6, <1>8
  <2>2. OkChecked(w, b, u, t) /\ w.inv[u].invite_tsx = t
    <3>1. Checks(a, b, u, w.tsx[t].body, a.tsx[t].done, b.tsx[t].done, choice)
      BY <1>4
    <3>2. OkChecked(w, b, u, t)
      BY <1>1, <1>2, <1>8, <3>1, OkChecks
    <3>3. QED
      BY <3>2 DEF OkChecked
  <2>3. Withdrawn(b, d, u)
    <3>1. /\ ~b.neg[u].has_remote_answer
          /\ b.neg[u].state \in {"DONE", "LOCAL_OFFER", "WAIT_NEGO"}
      BY <2>2 DEF OkChecked
    <3>2. QED
      BY <1>1, <1>5, <3>1, WithdrawKeeps DEF d
  <2>4. Deals(b, d, u)
    BY <2>3 DEF Withdrawn
  <2>5. Keeps(b, d, u)
    BY <2>4 DEF Keeps, Deals, SameSession
  <2>6. Sound(d) /\ t \in Indices(d) /\ d.tsx[t].from = u /\ d.inv[u].invite_tsx \in {0, t}
    BY <1>5, <2>2, <2>4, <2>5 DEF Deals, Keeps, Frame, Indices
  <2>7. PICK x : Acks(d, x, u, t, choice) /\ SendAck(d, t, choice) = AckSent(x, u)
    BY <2>6, SendAckDoes
  <2>8. OkPath(w, a, b, d, x, u, t, choice)
    BY <1>2, <1>4, <2>5, <2>7 DEF OkPath
  <2>9. Settles(Forget(AckSent(x, u), u, t))
    BY <1>1, <1>8, <2>3, <2>8, OkConcludes
  <2>10. QED
    BY <2>1, <2>7, <2>9
<1>9. CASE w.inv[u].state \notin {"CALLING", "EARLY", "CONFIRMED"}
  <2>1. y = a
    BY <1>6, <1>9
  <2>2. t = 1 /\ u = "caller" /\ w.inv["caller"].state = "DISCONNECTED"
    <3>1. t = 1 /\ u = "caller"
      BY <1>1, <1>9
    <3>2. w.inv["caller"].state \in {"CALLING", "EARLY", "DISCONNECTED"}
      BY <1>1, <3>1, Bearings
    <3>3. QED
      BY <1>9, <3>1, <3>2
  <2>3. Little(w, Forget(a, u, t))
    BY <2>2, TurnLittle, ZenonT(60) DEF a, u
  <2>4. QED
    BY <2>1, <2>3, LittleSettles
<1>10. QED
  BY <1>7, <1>8, <1>9

-----------------------------------------------------------------------------
(* Responses *)

\* The session u answers the INVITE t with the description its negotiator has, or refuses it.
HasReplied(w, v, u, t, status, fits) ==
    LET n == w.neg[u]
        m == v.neg[u]
        x == w.tsx[t]
        y == v.tsx[t]
    IN  /\ Frame(w, v, {u}, {t}) /\ v.acks = w.acks /\ SameSession(w.inv[u], v.inv[u])
        /\ SameClient(x, y) /\ y.sdp = x.sdp
        /\ y.server = (IF status < 200 THEN "proceeding" ELSE "completed")
        /\ IF HasLocalAnswer(n)
           THEN IF fits
                THEN /\ Done(w, v, u, n.local.sdp, n.remote.sdp)
                     /\ y.status = status /\ y.body = n.local.sdp /\ y.answered
                ELSE /\ Done(w, v, u, n.active_local.sdp, n.active_remote.sdp)
                     /\ y.status = 500 /\ y.body = 0 /\ ~y.answered
           ELSE /\ m = n /\ y.status = status /\ y.answered = x.answered
                /\ y.body = IF n.state = "LOCAL_OFFER" THEN n.local.sdp ELSE x.body

\* process_answer.
LEMMA RespondDoes ==
  ASSUME NEW w, Sound(w), NEW t \in Indices(w), NEW u, Server(w, t) = u,
         w.tsx[t].method = "INVITE", NEW status \in Nat, NEW fits \in BOOLEAN,
         ~fits => status >= 200
  PROVE  HasReplied(w, Respond(w, t, status, fits), u, t, status, fits)
<1> DEFINE n == Negotiate(w, u, fits)
           g == [n EXCEPT !.tsx[t].answered = fits]
           s == IF fits THEN status ELSE 500
           body == IF fits THEN g.neg[u].active_local.sdp ELSE 0
           plain == IF w.neg[u].state = "LOCAL_OFFER" THEN w.neg[u].local.sdp ELSE w.tsx[t].body
           p == SendResponse(w, t, status, plain)
           q == SendResponse(g, t, s, body)
<1>1. /\ u \in Ends /\ w.tsx[t] \in Transactions(Nat, Nat)
      /\ w.neg[u].local.sdp \in Nat /\ w.tsx[t].body \in Nat
      /\ w.neg[u] \in Negotiators(Nat)
  BY SoundParts DEF Indices
<1>2. Respond(w, t, status, fits) = IF HasLocalAnswer(w.neg[u]) THEN q ELSE p
  BY DEF Respond, HasLocalAnswer
<1>3. CASE ~HasLocalAnswer(w.neg[u])
  <2>1. plain \in Nat
    BY <1>1
  <2> HIDE DEF plain
  <2>2. Sends(w, p, t, status, plain)
    BY <2>1, SendsSame
  <2>3. Respond(w, t, status, fits) = p
    BY <1>2, <1>3
  <2> HIDE DEF p
  <2>4. Frame(w, p, {u}, {t})
    BY <2>2, FrameWider DEF Sends
  <2>5. p.tsx[t].server = (IF status < 200 THEN "proceeding" ELSE "completed")
    BY <2>2 DEF Sends
  <2>6. p.tsx[t].body = IF w.neg[u].state = "LOCAL_OFFER" THEN w.neg[u].local.sdp
                                                         ELSE w.tsx[t].body
    BY <2>2 DEF Sends, plain
  <2>7. HasReplied(w, p, u, t, status, fits)
    BY <1>3, <2>2, <2>4, <2>5, <2>6 DEF HasReplied, Sends, SameSession, SameClient
  <2>8. QED
    BY <2>3, <2>7
<1>4. CASE HasLocalAnswer(w.neg[u])
  <2>1. /\ Deals(w, n, u)
        /\ fits => Done(w, n, u, w.neg[u].local.sdp, w.neg[u].remote.sdp)
        /\ ~fits => Done(w, n, u, w.neg[u].active_local.sdp, w.neg[u].active_remote.sdp)
    BY <1>1, NegotiateDeals
  <2> HIDE DEF n
  <2>2. Frame(w, n, {u}, {}) /\ Sound(n) /\ t \in Indices(n) /\ n.tsx = w.tsx
        /\ n.acks = w.acks /\ SameSession(w.inv[u], n.inv[u])
    BY <2>1 DEF Deals, Frame, Indices
  <2>3. /\ Frame(n, g, {}, {t}) /\ g.neg = n.neg /\ g.inv = n.inv /\ g.acks = n.acks
        /\ Twin([n.tsx[t] EXCEPT !.answered = fits], g.tsx[t])
    BY <2>2, MarkFrame, ZenonT(60)
  <2> HIDE DEF g
  <2>4. /\ SameClient(w.tsx[t], g.tsx[t]) /\ g.tsx[t].sdp = w.tsx[t].sdp
        /\ g.tsx[t].answered = fits /\ g.tsx[t].method = "INVITE"
    BY <1>1, <2>2, <2>3 DEF Twin, SameClient, Transactions
  <2>5. Sound(g) /\ t \in Indices(g)
    BY <2>2, <2>3 DEF Frame, Indices
  <2>6. /\ body \in Nat /\ s \in Nat
        /\ fits => body = w.neg[u].local.sdp
        /\ ~fits => body = 0
    BY <1>1, <2>1, <2>3 DEF Done
  <2> HIDE DEF body
  <2>7. (s < 200) = (status < 200)
    OBVIOUS
  <2>8. s = IF fits THEN status ELSE 500
    OBVIOUS
  <2> HIDE DEF s
  <2>9. Sends(g, q, t, s, body)
    BY <2>5, <2>6, SendsSame
  <2>10. Respond(w, t, status, fits) = q
    BY <1>2, <1>4
  <2> HIDE DEF q
  <2>11. Frame(w, q, {u}, {t})
    <3>1. Frame(w, n, {u}, {t}) /\ Frame(n, g, {u}, {t}) /\ Frame(g, q, {u}, {t})
      BY <2>2, <2>3, <2>9, FrameWider DEF Sends
    <3>2. Frame(w, g, {u}, {t})
      BY <3>1, FrameTrans
    <3>3. QED
      BY <3>1, <3>2, FrameTrans
  <2>12. q.acks = w.acks /\ SameSession(w.inv[u], q.inv[u]) /\ q.neg = n.neg
    BY <2>2, <2>3, <2>9 DEF Sends
  <2>13. SameClient(w.tsx[t], q.tsx[t]) /\ q.tsx[t].sdp = w.tsx[t].sdp /\ q.tsx[t].answered = fits
    BY <2>4, <2>9 DEF Sends, SameClient
  <2>14. q.tsx[t].server = (IF status < 200 THEN "proceeding" ELSE "completed")
    BY <2>4, <2>7, <2>9 DEF Sends
  <2>15. q.tsx[t].status = s /\ q.tsx[t].body = body
    BY <2>9 DEF Sends
  <2>16. CASE fits
    <3>1. Done(w, q, u, w.neg[u].local.sdp, w.neg[u].remote.sdp)
      BY <2>1, <2>12, <2>16 DEF Done
    <3>2. HasReplied(w, q, u, t, status, fits)
      BY <1>4, <2>6, <2>8, <2>11, <2>12, <2>13, <2>14, <2>15, <2>16, <3>1 DEF HasReplied
    <3>3. QED
      BY <2>10, <3>2
  <2>17. CASE ~fits
    <3>1. Done(w, q, u, w.neg[u].active_local.sdp, w.neg[u].active_remote.sdp)
      BY <2>1, <2>12, <2>17 DEF Done
    <3>2. HasReplied(w, q, u, t, status, fits)
      BY <1>4, <2>6, <2>8, <2>11, <2>12, <2>13, <2>14, <2>15, <2>17, <3>1 DEF HasReplied
    <3>3. QED
      BY <2>10, <3>2
  <2>18. QED
    BY <2>16, <2>17
<1>5. QED
  BY <1>3, <1>4

\* The end u refuses request t, or answers a CANCEL.
Refuses(w, v, u, t) ==
    LET r == w.inv[u]
        s == v.inv[u]
        y == v.tsx[t]
    IN  /\ Frame(w, v, {u}, {t}) /\ v.acks = w.acks
        /\ s.state = r.state /\ s.last_ack_cseq = r.last_ack_cseq /\ s.last_ack = r.last_ack
        /\ s.invite_tsx = r.invite_tsx \/ (r.invite_tsx = 0 /\ s.invite_tsx = t)
        /\ Unoffered(w.neg[u], v.neg[u])
        /\ SameClient(w.tsx[t], y) /\ y.sdp = w.tsx[t].sdp
        /\ y.server \in {"completed", "terminated"} /\ y.body = 0 /\ ~y.answered
        /\ y.status >= 300 \/ (w.tsx[t].method = "CANCEL" /\ s.invite_tsx = r.invite_tsx)

\* That changes nothing.
LEMMA RefusesLittle ==
  ASSUME NEW w, Live(w), NEW t \in Indices(w), NEW u, Server(w, t) = u, t # 1,
         w.tsx[t].server = "none", NEW v, Refuses(w, v, u, t)
  PROVE  Little(w, v)
<1>1. /\ Runs(w) /\ u \in Ends /\ w.tsx[t].from = Peer(u) /\ ~w.tsx[t].answered
  BY LiveParts DEF Live
<1>2. Frame(w, v, {u}, {t}) /\ v.acks \subseteq w.acks
  BY DEF Refuses
<1>3. Remembers(w, v, u)
  BY <1>1 DEF Refuses, Remembers
<1>4. \A e \in Ends \cap {u} : Idle(w, v, e)
  BY <1>3 DEF Refuses, Idle
<1>5. v.tsx[t].method = w.tsx[t].method /\ v.tsx[t].from = w.tsx[t].from
  BY <1>2 DEF Frame
<1>6. Minor(w, v, t)
  <2>1. Sound(v) /\ t \in 1..Len(v.tsx)
    BY <1>2 DEF Frame, Indices
  <2>2. v.tsx[t].answered \in BOOLEAN /\ w.tsx[t].answered \in BOOLEAN
    <3>1. v.tsx[t] \in Transactions(Nat, Nat)
      BY <2>1, SoundParts
    <3>2. w.tsx[t].answered \in BOOLEAN
      BY LiveParts
    <3>3. QED
      BY <3>1, <3>2 DEF Transactions
  <2>3. v.tsx[t].answered = w.tsx[t].answered
    BY <1>1, <2>2 DEF Refuses
  <2>4. QED
    BY <1>5, <2>3 DEF Refuses, Minor, SameClient
<1>7. \A s \in Indices(w) \cap {t} : Minor(w, v, s)
  BY <1>6
<1>8. QED
  BY <1>1, <1>2, <1>4, <1>7, FrameLittle

-----------------------------------------------------------------------------
(* Requests *)

\* The end u looks at request t, which it may remember.
Begins(w, x, u, t) ==
    LET r == w.inv[u]
        s == x.inv[u]
    IN  /\ Frame(w, x, {u}, {}) /\ x.tsx = w.tsx /\ x.acks = w.acks /\ x.neg = w.neg
        /\ s.state = r.state /\ s.last_ack_cseq = r.last_ack_cseq /\ s.last_ack = r.last_ack
        /\ s.invite_tsx = r.invite_tsx \/ (r.invite_tsx = 0 /\ s.invite_tsx = t)

\* It refuses the request in the end.
LEMMA RefusesAfter ==
  ASSUME NEW w, Live(w), NEW t \in Indices(w), NEW u, Server(w, t) = u,
         NEW x, Begins(w, x, u, t),
         NEW q, Deals2(x, q, u, t), SameClient(x.tsx[t], q.tsx[t]), ~q.tsx[t].answered,
         Unoffered(w.neg[u], q.neg[u]),
         NEW status \in Nat, status >= 300, NEW v, Sends(q, v, t, status, 0)
  PROVE  Refuses(w, v, u, t)
<1>1. Frame(w, v, {u}, {t})
  <2>1. Frame(w, x, {u}, {t}) /\ Frame(x, q, {u}, {t}) /\ Frame(q, v, {u}, {t})
    <3>1. Frame(w, x, {u}, {t})
      BY FrameWider DEF Begins
    <3>2. Frame(q, v, {u}, {t})
      BY FrameWider DEF Sends
    <3>3. QED
      BY <3>1, <3>2 DEF Deals2
  <2>2. Frame(w, q, {u}, {t})
    BY <2>1, FrameTrans
  <2>3. QED
    BY <2>1, <2>2, FrameTrans
<1>2. v.acks = w.acks /\ v.neg = q.neg /\ SameSession(x.inv[u], v.inv[u])
  BY DEF Begins, Deals2, Sends
<1>3. SameClient(w.tsx[t], v.tsx[t]) /\ v.tsx[t].sdp = w.tsx[t].sdp
  BY DEF Begins, Deals2, Sends, SameClient
<1>4. ~(status < 200)
  OBVIOUS
<1>5. v.tsx[t].status = status /\ v.tsx[t].body = 0 /\ ~v.tsx[t].answered
      /\ v.tsx[t].server \in {"completed", "terminated"}
  BY <1>4 DEF Sends
<1>6. v.tsx[t].status >= 300
  BY <1>5
<1>7. QED
  BY <1>1, <1>2, <1>3, <1>5, <1>6 DEF Refuses, Begins, SameSession

\* ... or it accepts it.
LEMMA YieldsSettles ==
  ASSUME NEW w, Live(w), NEW t \in Indices(w), NEW u, Server(w, t) = u,
         NEW v, Frame(w, v, {u}, {t}), SameClient(w.tsx[t], v.tsx[t]),
         v.tsx[t].sdp = w.tsx[t].sdp, Yields(w, v, u, t)
  PROVE  Settles(v)
<1>1. Runs(w) /\ Dealing(w) /\ u \in Ends
  BY LiveParts DEF Live
<1>2. v.tsx[t].server # "none"
  BY DEF Yields
<1>3. Moves(w, v, u, t) /\ Sound(v)
  BY <1>2, ServerMoves
<1>4. Dealing(v)
  BY <1>1, <1>3, YieldsDealing
<1>5. QED
  BY <1>3, <1>4 DEF Settles

\* A request that its server only claims.
LEMMA IgnoreLittle ==
  ASSUME NEW w, Live(w), NEW t \in Indices(w), w.tsx[t].server = "none"
  PROVE  Little(w, Ignore(w, t))
<1> DEFINE v == Ignore(w, t)
<1>1. Runs(w) /\ Sound(w) /\ w.tsx[t] \in Transactions(Nat, Nat)
  BY LiveParts, SoundParts DEF Live, Indices
<1>2. /\ Frame(w, v, {}, {t}) /\ v.neg = w.neg /\ v.inv = w.inv /\ v.acks = w.acks
      /\ Twin([w.tsx[t] EXCEPT !.server = "trying"], v.tsx[t])
  <2>1. "trying" \in {"trying", "terminated"} /\ TRUE \in BOOLEAN
    OBVIOUS
  <2>2. QED
    BY <1>1, <2>1, MarkFrame DEF Ignore
<1> HIDE DEF v
<1>3. \A s \in Indices(w) \cap {t} : Minor(w, v, s)
  BY <1>1, <1>2 DEF Minor, Twin, Transactions
<1>4. \A e \in Ends \cap {} : Idle(w, v, e)
  OBVIOUS
<1>5. v.acks \subseteq w.acks
  BY <1>2
<1>6. QED
  BY <1>1, <1>2, <1>3, <1>4, <1>5, FrameLittle DEF v

\* What an end that is open makes of an offer: it has an answer or not.
HasOffer(x, q, u, t, sdp, choice) ==
    /\ Deals2(x, q, u, t) /\ SameClient(x.tsx[t], q.tsx[t])
    /\ q.tsx[t].server = x.tsx[t].server /\ ~q.tsx[t].answered
    /\ q.neg[u].state = (IF choice = "decline" THEN "REMOTE_OFFER" ELSE "WAIT_NEGO")
    /\ q.neg[u].remote.sdp = sdp /\ (choice # "decline" => q.neg[u].local.sdp # 0)
    /\ q.neg[u].active_local = x.neg[u].active_local
    /\ q.neg[u].active_remote = x.neg[u].active_remote
    /\ ~q.neg[u].has_remote_answer

\* inv_check_sdp_in_incoming_msg of an offer.
LEMMA OfferedDoes ==
  ASSUME NEW x, Sound(x), NEW t \in Indices(x), NEW u, Server(x, t) = u, NEW sdp \in Nat,
         sdp # 0, ~x.tsx[t].answered, x.neg[u].state = "DONE", ~x.neg[u].has_remote_answer,
         NEW choice
  PROVE  HasOffer(x, CheckSdpServer(x, t, sdp, choice), u, t, sdp, choice)
<1> DEFINE q == CheckSdpServer(x, t, sdp, choice)
<1>1. /\ Deals2(x, q, u, t) /\ SameClient(x.tsx[t], q.tsx[t])
      /\ q.tsx[t].server = x.tsx[t].server /\ q.tsx[t].status = x.tsx[t].status
      /\ q.tsx[t].body = x.tsx[t].body
      /\ Checks(x, q, u, sdp, x.tsx[t].answered, q.tsx[t].answered, choice)
  BY CheckServerDeals
<1> HIDE DEF q
<1>2. x.sdps + 1 # 0
  <2>1. x.sdps \in Nat
    BY SoundParts
  <2>2. QED
    BY <2>1
<1>3. HasOffer(x, q, u, t, sdp, choice)
  BY <1>1, <1>2 DEF Checks, HasOffer
<1>4. QED
  BY <1>3 DEF q

\* An offer that gets no answer is forgotten.
LEMMA CancelsOffer ==
  ASSUME NEW x, Sound(x), NEW t \in Indices(x), NEW u \in Ends, NEW sdp, NEW choice,
         NEW q, HasOffer(x, q, u, t, sdp, choice), x.neg[u].state = "DONE",
         ~x.neg[u].has_remote_answer,
         NEW p, Deals(q, p, u), Done(q, p, u, q.neg[u].active_local.sdp, q.neg[u].active_remote.sdp)
  PROVE  /\ Deals2(x, p, u, t) /\ SameClient(x.tsx[t], p.tsx[t]) /\ ~p.tsx[t].answered
         /\ Unoffered(x.neg[u], p.neg[u]) /\ Sound(p) /\ t \in Indices(p)
<1>1. Frame(q, p, {u}, {t}) /\ p.tsx = q.tsx /\ p.acks = q.acks
      /\ SameSession(q.inv[u], p.inv[u]) /\ Sound(p) /\ Len(p.tsx) = Len(q.tsx)
  <2>1. Frame(q, p, {u}, {})
    BY DEF Deals
  <2>2. Frame(q, p, {u}, {t})
    BY <2>1, FrameWider
  <2>3. QED
    BY <2>1, <2>2 DEF Deals, Frame
<1>2. Frame(x, q, {u}, {t}) /\ Len(q.tsx) = Len(x.tsx)
  BY DEF HasOffer, Deals2, Frame
<1>3. Frame(x, p, {u}, {t})
  BY <1>1, <1>2, FrameTrans
<1>4. Deals2(x, p, u, t)
  BY <1>1, <1>3 DEF HasOffer, Deals2, SameSession
<1>5. Unoffered(x.neg[u], p.neg[u])
  <2>1. /\ p.neg[u].state = "DONE" /\ ~p.neg[u].has_remote_answer
        /\ p.neg[u].active_local.sdp = x.neg[u].active_local.sdp
        /\ p.neg[u].active_remote.sdp = x.neg[u].active_remote.sdp
    BY DEF Done, HasOffer
  <2>2. p.neg[u].has_remote_answer \in BOOLEAN /\ x.neg[u].has_remote_answer \in BOOLEAN
    <3>1. p.neg[u] \in Negotiators(Nat) /\ x.neg[u] \in Negotiators(Nat)
      BY <1>1, SoundParts
    <3>2. QED
      BY <3>1 DEF Negotiators
  <2>3. QED
    BY <2>1, <2>2 DEF Unoffered
<1>6. QED
  BY <1>1, <1>2, <1>4, <1>5 DEF HasOffer, SameClient, Indices

\* What is known of a request that arrives, other than the first INVITE.
Arrived(w, t, u) ==
    /\ Runs(w) /\ Dealing(w) /\ Sound(w) /\ u \in Ends /\ w.tsx[t].from = Peer(u)
    /\ w.tsx[t].sdp \in Nat /\ ~w.tsx[t].answered /\ w.tsx[t].body = 0
    /\ ~w.neg[u].has_remote_answer /\ Peer(Peer(u)) = u
    /\ w.tsx[t].method \in {"INVITE", "UPDATE"} /\ w.tsx[t].client = "calling" =>
          /\ Open(w, t, Peer(u))
          /\ w.inv[u].state \in {"CONNECTING", "CONFIRMED", "DISCONNECTED"}
          /\ w.tsx[t].method = "UPDATE" => w.tsx[t].sdp # 0
    /\ w.inv[u].state \in {"CONNECTING", "CONFIRMED"} =>
          w.neg[u].state \in {"DONE", "LOCAL_OFFER"}

\* The other end is confirmed and asks for something.
LEMMA ArrivesAfter ==
  ASSUME NEW w, Live(w), NEW t \in Indices(w), NEW u, Server(w, t) = u, t # 1,
         w.tsx[t].server = "none"
  PROVE  Arrived(w, t, u)
<1>1. /\ Runs(w) /\ Dealing(w) /\ Sound(w) /\ u \in Ends /\ w.tsx[t].from = Peer(u)
      /\ w.tsx[t].sdp \in Nat /\ ~w.tsx[t].answered /\ w.tsx[t].body = 0 /\ Peer(Peer(u)) = u
      /\ Peer(u) \in Ends
  <2>1. Runs(w) /\ Dealing(w)
    BY DEF Live
  <2>2. QED
    BY <2>1, LiveParts, Basics
<1>2. ~w.neg[u].has_remote_answer
  BY <1>1 DEF Dealing, Notes
<1>3. ASSUME w.tsx[t].method \in {"INVITE", "UPDATE"}, w.tsx[t].client = "calling"
      PROVE  /\ Open(w, t, Peer(u))
             /\ w.inv[u].state \in {"CONNECTING", "CONFIRMED", "DISCONNECTED"}
             /\ w.tsx[t].method = "UPDATE" => w.tsx[t].sdp # 0
  <2>1. Open(w, t, Peer(u))
    BY <1>1, <1>3 DEF Open
  <2>2. AsksFor(w, t, Peer(u)) /\ w.inv[u].state \in {"CONNECTING", "CONFIRMED", "DISCONNECTED"}
    <3>1. AsksFor(w, t, Peer(u))
      BY <1>1, <2>1, OpenWhen
    <3>2. w.inv[Peer(Peer(u))].state \in {"CONNECTING", "CONFIRMED", "DISCONNECTED"}
      BY <1>1, <2>1, OpenWhen
    <3>3. QED
      BY <1>1, <3>1, <3>2
  <2>3. QED
    BY <2>1, <2>2 DEF AsksFor
<1>4. w.inv[u].state \in {"CONNECTING", "CONFIRMED"} => w.neg[u].state \in {"DONE", "LOCAL_OFFER"}
  <2>1. CASE w.inv[u].state = "CONFIRMED"
    <3>1. Steady(w, u)
      BY <1>1, <2>1 DEF Dealing
    <3>2. QED
      BY <3>1 DEF Steady
  <2>2. CASE w.inv[u].state = "CONNECTING"
    <3>1. u = "callee"
      BY <1>1, <2>2 DEF Dealing, Connecting
    <3>2. QED
      BY <1>1, <2>2, <3>1 DEF Dealing, CalleeRings
  <2>3. QED
    BY <2>1, <2>2
<1>5. w.tsx[t].method \in {"INVITE", "UPDATE"} /\ w.tsx[t].client = "calling" =>
         /\ Open(w, t, Peer(u))
         /\ w.inv[u].state \in {"CONNECTING", "CONFIRMED", "DISCONNECTED"}
         /\ (w.tsx[t].method = "UPDATE" => w.tsx[t].sdp # 0)
  BY <1>3
<1>6. Arrived(w, t, u)
  BY <1>1, <1>2, <1>4, <1>5 DEF Arrived
<1>7. QED
  BY <1>6

\* A request that is refused at once.
LEMMA RefusedSettles ==
  ASSUME NEW w, Live(w), NEW t \in Indices(w), NEW u, Server(w, t) = u, t # 1,
         w.tsx[t].server = "none", NEW x, Begins(w, x, u, t), NEW status \in Nat, status >= 300
  PROVE  /\ Refuses(w, SendResponse(x, t, status, 0), u, t)
         /\ Little(w, SendResponse(x, t, status, 0))
<1> DEFINE v == SendResponse(x, t, status, 0)
<1>0. Arrived(w, t, u)
  BY ArrivesAfter
<1>1. ~w.tsx[t].answered
  BY <1>0 DEF Arrived
<1>2. Sound(x) /\ t \in Indices(x)
  BY DEF Begins, Frame, Indices
<1>3. 0 \in Nat
  OBVIOUS
<1>4. Sends(x, v, t, status, 0)
  BY <1>2, <1>3, SendsSame
<1> HIDE DEF v
<1>5. Frame(x, x, {u}, {t})
  BY <1>2, FrameRefl
<1>6. /\ Deals2(x, x, u, t) /\ SameClient(x.tsx[t], x.tsx[t]) /\ ~x.tsx[t].answered
      /\ Unoffered(w.neg[u], x.neg[u])
  BY <1>1, <1>5 DEF Deals2, SameClient, SameSession, Unoffered, Begins
<1>7. Refuses(w, v, u, t)
  BY <1>4, <1>6, RefusesAfter
<1>8. Little(w, v)
  BY <1>7, RefusesLittle
<1>9. QED
  BY <1>7, <1>8 DEF v

\* An end looks at a request of the other one.
LEMMA BeginsAnyway ==
  ASSUME NEW w, Sound(w), NEW t \in Indices(w), NEW u \in Ends
  PROVE  /\ Begins(w, w, u, t)
         /\ w.inv[u].invite_tsx = 0 => Begins(w, [w EXCEPT !.inv[u].invite_tsx = t], u, t)
<1>1. Begins(w, w, u, t)
  <2>1. Frame(w, w, {u}, {})
    BY FrameRefl
  <2>2. QED
    BY <2>1 DEF Begins
<1> DEFINE v == [w EXCEPT !.inv[u].invite_tsx = t]
<1>2. /\ Sits(w, v, u) /\ v.inv[u].state = w.inv[u].state
      /\ v.inv[u].invite_tsx = t /\ v.inv[u].prov = w.inv[u].prov
      /\ v.inv[u].last_ack_cseq = w.inv[u].last_ack_cseq
      /\ v.inv[u].last_ack = w.inv[u].last_ack
  BY ServesSits
<1> HIDE DEF v
<1>3. w.inv[u].invite_tsx = 0 => Begins(w, v, u, t)
  BY <1>2 DEF Begins, Sits
<1>4. QED
  BY <1>1, <1>3 DEF v

\* The end u may accept request t.
Ready(w, x, u, t) ==
    /\ Live(w) /\ t \in Indices(w) /\ t # 1 /\ Server(w, t) = u /\ u \in Ends
    /\ Begins(w, x, u, t) /\ Open(w, t, Peer(u)) /\ w.tsx[t].server = "none"
    /\ ~w.tsx[t].answered /\ w.tsx[t].sdp \in Nat /\ w.tsx[t].method \in {"INVITE", "UPDATE"}
    /\ w.inv[u].state \in {"CONNECTING", "CONFIRMED"}
    /\ w.neg[u].state = "DONE" /\ ~w.neg[u].has_remote_answer
    /\ IF w.tsx[t].method = "INVITE"
       THEN w.inv[u].state = "CONFIRMED" /\ w.inv[u].invite_tsx = 0 /\ x.inv[u].invite_tsx = t
       ELSE x.inv[u].invite_tsx = w.inv[u].invite_tsx

\* What the end has done before it responds.
LEMMA ReadyParts ==
  ASSUME NEW w, NEW x, NEW u, NEW t, Ready(w, x, u, t)
  PROVE  /\ Sound(x) /\ Frame(w, x, {u}, {t}) /\ x.tsx = w.tsx /\ x.neg = w.neg /\ x.acks = w.acks
         /\ t \in Indices(x) /\ Server(x, t) = u /\ Len(x.tsx) = Len(w.tsx)
<1>1. Frame(w, x, {u}, {}) /\ x.tsx = w.tsx /\ x.neg = w.neg /\ x.acks = w.acks
  BY DEF Ready, Begins
<1>2. Frame(w, x, {u}, {t})
  BY <1>1, FrameWider
<1>3. QED
  BY <1>1, <1>2 DEF Frame, Ready, Server, Indices

\* It accepts the INVITE with an offer.
LEMMA OfferSettles ==
  ASSUME NEW w, NEW x, NEW u, NEW t, Ready(w, x, u, t), w.tsx[t].method = "INVITE",
         w.tsx[t].sdp = 0, NEW p, Deals(x, p, u), p.neg[u].state = "LOCAL_OFFER",
         ~p.neg[u].has_remote_answer, p.neg[u].active_local = x.neg[u].active_local,
         p.neg[u].active_remote = x.neg[u].active_remote,
         NEW v, HasReplied(p, v, u, t, 200, TRUE)
  PROVE  Settles(v)
<1>1. /\ Sound(x) /\ Frame(w, x, {u}, {t}) /\ x.tsx = w.tsx /\ x.neg = w.neg /\ x.acks = w.acks
      /\ t \in Indices(x) /\ Len(x.tsx) = Len(w.tsx)
  BY ReadyParts
<1>2. Frame(x, p, {u}, {t}) /\ p.tsx = x.tsx /\ p.acks = x.acks /\ SameSession(x.inv[u], p.inv[u])
  <2>1. Frame(x, p, {u}, {})
    BY DEF Deals
  <2>2. Frame(x, p, {u}, {t})
    BY <2>1, FrameWider
  <2>3. QED
    BY <2>2 DEF Deals
<1>3. Frame(w, p, {u}, {t})
  BY <1>1, <1>2, FrameTrans
<1>4. /\ Frame(p, v, {u}, {t}) /\ v.acks = p.acks /\ SameSession(p.inv[u], v.inv[u])
      /\ SameClient(p.tsx[t], v.tsx[t]) /\ v.tsx[t].sdp = p.tsx[t].sdp
      /\ v.tsx[t].server = "completed" /\ v.neg[u] = p.neg[u] /\ v.tsx[t].status = 200
      /\ v.tsx[t].answered = p.tsx[t].answered /\ v.tsx[t].body = p.neg[u].local.sdp
  BY DEF HasReplied, HasLocalAnswer
<1>5. Frame(w, v, {u}, {t})
  BY <1>3, <1>4, FrameTrans
<1>6. SameClient(w.tsx[t], v.tsx[t]) /\ v.tsx[t].sdp = w.tsx[t].sdp
  BY <1>1, <1>2, <1>4
<1>7. /\ v.inv[u].state = w.inv[u].state /\ v.inv[u].invite_tsx = t
      /\ v.inv[u].last_ack_cseq = w.inv[u].last_ack_cseq
      /\ v.inv[u].last_ack = w.inv[u].last_ack
  BY <1>2, <1>4 DEF SameSession, Ready, Begins
<1>8. \A s \in Indices(v) : s \in Indices(w)
  BY <1>5 DEF Frame, Indices
<1>9. Yields(w, v, u, t)
  BY <1>1, <1>2, <1>4, <1>7, <1>8 DEF Yields, Ready
<1>10. Live(w) /\ t \in Indices(w) /\ Server(w, t) = u
  BY DEF Ready
<1>11. QED
  BY <1>5, <1>6, <1>9, <1>10, YieldsSettles

\* It accepts an INVITE and answers the offer in it.
LEMMA TakesSettles ==
  ASSUME NEW w, NEW x, NEW u, NEW t, Ready(w, x, u, t), w.tsx[t].method = "INVITE",
         w.tsx[t].sdp # 0, NEW choice, choice # "decline",
         NEW q, HasOffer(x, q, u, t, w.tsx[t].sdp, choice),
         NEW v, HasReplied(q, v, u, t, 200, TRUE)
  PROVE  Settles(v)
<1>1. /\ Sound(x) /\ Frame(w, x, {u}, {t}) /\ x.tsx = w.tsx /\ x.neg = w.neg /\ x.acks = w.acks
      /\ t \in Indices(x) /\ Len(x.tsx) = Len(w.tsx)
  BY ReadyParts
<1>2. /\ Frame(x, q, {u}, {t}) /\ q.acks = x.acks /\ SameSession(x.inv[u], q.inv[u])
      /\ SameClient(x.tsx[t], q.tsx[t]) /\ q.tsx[t].sdp = x.tsx[t].sdp
      /\ q.neg[u].state = "WAIT_NEGO" /\ q.neg[u].local.sdp # 0
      /\ q.neg[u].remote.sdp = w.tsx[t].sdp /\ ~q.neg[u].has_remote_answer
  BY DEF HasOffer, Deals2
<1>3. Frame(w, q, {u}, {t})
  BY <1>1, <1>2, FrameTrans
<1>4. /\ Frame(q, v, {u}, {t}) /\ v.acks = q.acks /\ SameSession(q.inv[u], v.inv[u])
      /\ SameClient(q.tsx[t], v.tsx[t]) /\ v.tsx[t].sdp = q.tsx[t].sdp
      /\ v.tsx[t].server = "completed" /\ v.tsx[t].status = 200
      /\ v.tsx[t].answered /\ v.tsx[t].body = q.neg[u].local.sdp
      /\ Done(q, v, u, q.neg[u].local.sdp, q.neg[u].remote.sdp)
  BY <1>2 DEF HasReplied, HasLocalAnswer
<1>5. Frame(w, v, {u}, {t})
  BY <1>3, <1>4, FrameTrans
<1>6. SameClient(w.tsx[t], v.tsx[t]) /\ v.tsx[t].sdp = w.tsx[t].sdp
  BY <1>1, <1>2, <1>4 DEF SameClient
<1>7. /\ v.inv[u].state = w.inv[u].state /\ v.inv[u].invite_tsx = t
      /\ v.inv[u].last_ack_cseq = w.inv[u].last_ack_cseq
      /\ v.inv[u].last_ack = w.inv[u].last_ack
  BY <1>2, <1>4 DEF SameSession, Ready, Begins
<1>8. \A s \in Indices(v) : s \in Indices(w)
  BY <1>5 DEF Frame, Indices
<1>9. Yields(w, v, u, t)
  BY <1>1, <1>2, <1>4, <1>7, <1>8 DEF Yields, Ready, Done
<1>10. Live(w) /\ t \in Indices(w) /\ Server(w, t) = u
  BY DEF Ready
<1>11. QED
  BY <1>5, <1>6, <1>9, <1>10, YieldsSettles

\* It refuses an INVITE whose offer has nothing in common with the answer.
LEMMA MismatchRefuses ==
  ASSUME NEW w, NEW x, NEW u, NEW t, Ready(w, x, u, t),
         NEW choice, choice # "decline",
         NEW q, HasOffer(x, q, u, t, w.tsx[t].sdp, choice),
         NEW v, HasReplied(q, v, u, t, 200, FALSE)
  PROVE  Refuses(w, v, u, t)
<1>1. /\ Sound(x) /\ Frame(w, x, {u}, {t}) /\ x.tsx = w.tsx /\ x.neg = w.neg /\ x.acks = w.acks
      /\ t \in Indices(x) /\ Len(x.tsx) = Len(w.tsx)
  BY ReadyParts
<1>2. /\ Frame(x, q, {u}, {t}) /\ q.acks = x.acks /\ SameSession(x.inv[u], q.inv[u])
      /\ SameClient(x.tsx[t], q.tsx[t]) /\ q.tsx[t].sdp = x.tsx[t].sdp
      /\ q.neg[u].state = "WAIT_NEGO" /\ ~q.neg[u].has_remote_answer
      /\ q.neg[u].active_local = x.neg[u].active_local
      /\ q.neg[u].active_remote = x.neg[u].active_remote
  BY DEF HasOffer, Deals2
<1>3. Frame(w, q, {u}, {t})
  BY <1>1, <1>2, FrameTrans
<1>4. /\ Frame(q, v, {u}, {t}) /\ v.acks = q.acks /\ SameSession(q.inv[u], v.inv[u])
      /\ SameClient(q.tsx[t], v.tsx[t]) /\ v.tsx[t].sdp = q.tsx[t].sdp
      /\ v.tsx[t].server = "completed" /\ v.tsx[t].status = 500
      /\ ~v.tsx[t].answered /\ v.tsx[t].body = 0
      /\ Done(q, v, u, q.neg[u].active_local.sdp, q.neg[u].active_remote.sdp)
  BY <1>2 DEF HasReplied, HasLocalAnswer
<1>5. Frame(w, v, {u}, {t})
  BY <1>3, <1>4, FrameTrans
<1>6. SameClient(w.tsx[t], v.tsx[t]) /\ v.tsx[t].sdp = w.tsx[t].sdp
  BY <1>1, <1>2, <1>4 DEF SameClient
<1>7. /\ v.inv[u].state = w.inv[u].state
      /\ w.inv[u].invite_tsx = v.inv[u].invite_tsx \/
            (w.inv[u].invite_tsx = 0 /\ v.inv[u].invite_tsx = t)
      /\ v.inv[u].last_ack_cseq = w.inv[u].last_ack_cseq
      /\ v.inv[u].last_ack = w.inv[u].last_ack
  BY <1>2, <1>4 DEF SameSession, Ready, Begins
<1>8. Unoffered(w.neg[u], v.neg[u])
  <2>1. v.neg[u].has_remote_answer \in BOOLEAN /\ w.neg[u].has_remote_answer \in BOOLEAN
    <3>1. u \in Ends /\ Sound(w)
      BY LiveParts DEF Ready
    <3>2. Sound(v)
      BY <1>5 DEF Frame
    <3>3. v.neg[u] \in Negotiators(Nat) /\ w.neg[u] \in Negotiators(Nat)
      BY <3>1, <3>2, SoundParts
    <3>4. QED
      BY <3>3 DEF Negotiators
  <2>2. QED
    BY <1>1, <1>2, <1>4, <2>1 DEF Unoffered, Done, Ready
<1>9. QED
  BY <1>1, <1>2, <1>4, <1>5, <1>6, <1>7, <1>8 DEF Refuses

\* It refuses a request whose offer the application does not answer.
LEMMA DeclineRefuses ==
  ASSUME NEW w, NEW x, NEW u, NEW t, Ready(w, x, u, t), NEW choice, choice = "decline",
         NEW q, HasOffer(x, q, u, t, w.tsx[t].sdp, choice)
  PROVE  Refuses(w, SendResponse([q EXCEPT !.neg[u] = CancelOffer(@)], t, 488, 0), u, t)
<1> DEFINE p == [q EXCEPT !.neg[u] = CancelOffer(@)]
           v == SendResponse(p, t, 488, 0)
<1>1. /\ Sound(x) /\ x.neg = w.neg /\ t \in Indices(x) /\ u \in Ends /\ Live(w)
      /\ t \in Indices(w) /\ Server(w, t) = u /\ Begins(w, x, u, t)
      /\ x.neg[u].state = "DONE" /\ ~x.neg[u].has_remote_answer
  BY ReadyParts DEF Ready
<1>2. Sound(q) /\ q.neg[u].state = "REMOTE_OFFER"
  BY DEF HasOffer, Deals2, Frame
<1>3. Deals(q, p, u) /\ Done(q, p, u, q.neg[u].active_local.sdp, q.neg[u].active_remote.sdp)
  <2>1. /\ Deals(q, p, u)
        /\ q.neg[u].state \in {"LOCAL_OFFER", "REMOTE_OFFER"} =>
              Done(q, p, u, q.neg[u].active_local.sdp, q.neg[u].active_remote.sdp)
    BY <1>1, <1>2, CancelDeals
  <2>2. QED
    BY <1>2, <2>1
<1> HIDE DEF p
<1>4. /\ Deals2(x, p, u, t) /\ SameClient(x.tsx[t], p.tsx[t]) /\ ~p.tsx[t].answered
      /\ Unoffered(x.neg[u], p.neg[u]) /\ Sound(p) /\ t \in Indices(p)
  BY <1>1, <1>3, CancelsOffer
<1>5. Sends(p, v, t, 488, 0)
  <2>1. 488 \in Nat /\ 0 \in Nat
    OBVIOUS
  <2>2. QED
    BY <1>4, <2>1, SendsSame
<1> HIDE DEF v
<1>6. 488 \in Nat /\ 488 >= 300 /\ Unoffered(w.neg[u], p.neg[u])
  BY <1>1, <1>4
<1>7. Refuses(w, v, u, t)
  BY <1>1, <1>4, <1>5, <1>6, RefusesAfter
<1>8. QED
  BY <1>7 DEF v, p

\* Refusing a request leaves the offers alone.
LEMMA RefusesSettles ==
  ASSUME NEW w, Live(w), NEW t \in Indices(w), NEW u, Server(w, t) = u, t # 1,
         w.tsx[t].server = "none", NEW v, Refuses(w, v, u, t)
  PROVE  Settles(v)
<1>1. Little(w, v)
  BY RefusesLittle
<1>2. QED
  BY <1>1, LittleSettles

\* The active description is offered again.
LEMMA ActiveDeals ==
  ASSUME NEW x, Sound(x), NEW u \in Ends, NEW pool, pool = x.inv[u].prov
  PROVE  LET p == [x EXCEPT !.neg[u] = ActiveOffer(@, pool)]
         IN  /\ Deals(x, p, u) /\ p.neg[u].state = "LOCAL_OFFER"
             /\ p.neg[u].has_remote_answer = x.neg[u].has_remote_answer
             /\ p.neg[u].active_local = x.neg[u].active_local
             /\ p.neg[u].active_remote = x.neg[u].active_remote
<1> DEFINE n == x.neg[u]
           m == ActiveOffer(n, pool)
           p == [x EXCEPT !.neg[u] = m]
<1>1. /\ n \in Negotiators(Nat) /\ pool \in {"A", "B"} /\ Fits(n, pool)
      /\ n.active_local.sdp \in Nat
  BY SoundParts
<1>2. m \in Negotiators(Nat) /\ Fits(m, pool)
  BY <1>1, ActiveOfferFits
<1>3. /\ m.state = "LOCAL_OFFER" /\ m.has_remote_answer = n.has_remote_answer
      /\ m.active_local = n.active_local /\ m.active_remote = n.active_remote
  BY <1>1 DEF ActiveOffer, Negotiators
<1> HIDE DEF m
<1>4. Deals(x, p, u) /\ p.neg[u] = m
  BY <1>2, NegDeals
<1>5. [x EXCEPT !.neg[u] = ActiveOffer(@, pool)] = p
  BY DEF m
<1>6. QED
  BY <1>3, <1>4, <1>5

\* A re-INVITE is accepted, refused or only claimed.
LEMMA RxReinviteSettles ==
  ASSUME NEW w, Live(w), NEW t \in Indices(w), t # 1, w.tsx[t].method = "INVITE",
         w.tsx[t].server = "none", w.tsx[t].client = "calling", NEW choice
  PROVE  Settles(RxReinvite(w, t, choice))
<1> DEFINE u == Server(w, t)
           i == w.inv[u].invite_tsx
           sdp == w.tsx[t].sdp
           mine == [w EXCEPT !.inv[u].invite_tsx = t]
           asked == CheckSdpServer(mine, t, sdp, choice)
           offer == [mine EXCEPT !.neg[u] = ActiveOffer(@, w.inv[u].prov)]
           busy == IF w.tsx[i].from = u THEN 491 ELSE 500
<1>0. Arrived(w, t, u)
  BY ArrivesAfter
<1>1. /\ Runs(w) /\ Dealing(w) /\ Sound(w) /\ u \in Ends /\ sdp \in Nat /\ ~w.tsx[t].answered
      /\ ~w.neg[u].has_remote_answer /\ Open(w, t, Peer(u))
      /\ w.inv[u].state \in {"CONNECTING", "CONFIRMED", "DISCONNECTED"}
  BY <1>0 DEF Arrived
<1>2. Begins(w, w, u, t) /\ (i = 0 => Begins(w, mine, u, t))
  BY <1>1, BeginsAnyway
<1>3. CASE w.inv[u].state # "CONFIRMED"
  <2>1. Little(w, Ignore(w, t))
    BY IgnoreLittle
  <2>2. Settles(Ignore(w, t))
    BY <2>1, LittleSettles
  <2>3. RxReinvite(w, t, choice) = Ignore(w, t)
    BY <1>3 DEF RxReinvite
  <2>4. QED
    BY <2>2, <2>3
<1>4. CASE w.inv[u].state = "CONFIRMED" /\ i # 0
  <2> DEFINE v == SendResponse(w, t, busy, 0)
  <2>1. busy \in Nat /\ busy >= 300
    OBVIOUS
  <2> HIDE DEF busy
  <2>2. Little(w, v)
    BY <1>2, <2>1, RefusedSettles
  <2>3. Settles(v)
    BY <2>2, LittleSettles
  <2>4. RxReinvite(w, t, choice) = v
    BY <1>4 DEF RxReinvite, busy
  <2>5. QED
    BY <2>3, <2>4
<1>5. CASE w.inv[u].state = "CONFIRMED" /\ i = 0 /\ w.neg[u].state # "DONE"
  <2> DEFINE v == SendResponse(mine, t, 491, 0)
  <2>1. 491 \in Nat /\ 491 >= 300 /\ Begins(w, mine, u, t)
    BY <1>2, <1>5
  <2>2. RxReinvite(w, t, choice) = v
    BY <1>5 DEF RxReinvite
  <2> HIDE DEF mine
  <2>3. Little(w, v)
    BY <2>1, RefusedSettles
  <2>4. Settles(v)
    BY <2>3, LittleSettles
  <2>5. QED
    BY <2>2, <2>4
<1>6. ASSUME w.inv[u].state = "CONFIRMED", i = 0, w.neg[u].state = "DONE"
      PROVE  Settles(RxReinvite(w, t, choice))
  <2>1. mine.inv[u].invite_tsx = t /\ mine.inv[u].prov = w.inv[u].prov
    BY <1>1, ServesSits, ZenonT(60)
  <2>2. Ready(w, mine, u, t)
    <3> HIDE DEF mine
    <3>1. QED
      BY <1>1, <1>2, <1>6, <2>1 DEF Ready
  <2>3. /\ sdp = 0 => RxReinvite(w, t, choice) = Respond(offer, t, 200, TRUE)
        /\ sdp # 0 /\ asked.neg[u].state # "WAIT_NEGO" =>
              RxReinvite(w, t, choice) =
                SendResponse([asked EXCEPT !.neg[u] = CancelOffer(@)], t, 488, 0)
        /\ sdp # 0 /\ asked.neg[u].state = "WAIT_NEGO" =>
              RxReinvite(w, t, choice) = Respond(asked, t, 200, choice = "answer")
    BY <1>6 DEF RxReinvite
  <2> HIDE DEF mine
  <2>4. /\ Sound(mine) /\ mine.tsx = w.tsx /\ mine.neg = w.neg
        /\ t \in Indices(mine) /\ Server(mine, t) = u
    <3>1. /\ Begins(w, mine, u, t) /\ Server(w, t) = u /\ t \in Indices(w)
      BY <2>2 DEF Ready
    <3>2. Frame(w, mine, {u}, {}) /\ mine.tsx = w.tsx /\ mine.neg = w.neg
      BY <3>1 DEF Begins
    <3>3. QED
      BY <3>1, <3>2 DEF Frame, Indices, Server
  <2>5. CASE sdp = 0
    <3> DEFINE v == Respond(offer, t, 200, TRUE)
    <3>1. /\ Deals(mine, offer, u) /\ offer.neg[u].state = "LOCAL_OFFER"
          /\ offer.neg[u].has_remote_answer = mine.neg[u].has_remote_answer
          /\ offer.neg[u].active_local = mine.neg[u].active_local
          /\ offer.neg[u].active_remote = mine.neg[u].active_remote
      <4>1. w.inv[u].prov = mine.inv[u].prov
        BY <2>1
      <4>2. QED
        BY <1>1, <2>4, <4>1, ActiveDeals
    <3> HIDE DEF offer
    <3>2. Sound(offer) /\ t \in Indices(offer) /\ Server(offer, t) = u
          /\ offer.tsx[t].method = "INVITE" /\ ~offer.neg[u].has_remote_answer
      BY <1>1, <2>4, <3>1 DEF Deals, Frame, Indices, Server
    <3>3. HasReplied(offer, v, u, t, 200, TRUE)
      <4>1. 200 \in Nat /\ TRUE \in BOOLEAN /\ (~TRUE => 200 >= 200)
        OBVIOUS
      <4>2. QED
        BY <3>2, <4>1, RespondDoes
    <3> HIDE DEF v
    <3>4. Settles(v)
      BY <2>2, <2>5, <3>1, <3>2, <3>3, OfferSettles
    <3>5. QED
      BY <2>3, <2>5, <3>4 DEF v
  <2>6. CASE sdp # 0
    <3>1. HasOffer(mine, asked, u, t, sdp, choice)
      <4>1. ~mine.tsx[t].answered /\ mine.neg[u].state = "DONE" /\ ~mine.neg[u].has_remote_answer
        BY <1>1, <1>6, <2>4
      <4>2. QED
        BY <1>1, <2>4, <2>6, <4>1, OfferedDoes
    <3> HIDE DEF asked
    <3>2. /\ Sound(asked) /\ t \in Indices(asked) /\ Server(asked, t) = u
          /\ asked.tsx[t].method = "INVITE"
          /\ asked.neg[u].state = (IF choice = "decline" THEN "REMOTE_OFFER" ELSE "WAIT_NEGO")
      BY <2>4, <3>1 DEF HasOffer, Deals2, Frame, Indices, Server
    <3>3. CASE choice = "decline"
      <4> DEFINE v == SendResponse([asked EXCEPT !.neg[u] = CancelOffer(@)], t, 488, 0)
      <4>1. Refuses(w, v, u, t)
        BY <2>2, <3>1, <3>3, DeclineRefuses
      <4>2. RxReinvite(w, t, choice) = v
        BY <2>3, <2>6, <3>2, <3>3
      <4> HIDE DEF v
      <4>3. Settles(v)
        BY <4>1, RefusesSettles
      <4>4. QED
        BY <4>2, <4>3
    <3>4. CASE choice # "decline"
      <4> DEFINE fits == choice = "answer"
                 v == Respond(asked, t, 200, fits)
      <4>1. RxReinvite(w, t, choice) = v
        BY <2>3, <2>6, <3>2, <3>4
      <4>2. fits \in BOOLEAN
        OBVIOUS
      <4> HIDE DEF fits
      <4>3. HasReplied(asked, v, u, t, 200, fits)
        <5>1. 200 \in Nat /\ (~fits => 200 >= 200)
          OBVIOUS
        <5>2. QED
          BY <3>2, <4>2, <5>1, RespondDoes
      <4> HIDE DEF v
      <4>4. CASE fits = TRUE
        <5>1. HasReplied(asked, v, u, t, 200, TRUE)
          BY <4>3, <4>4
        <5>2. Settles(v)
          BY <2>2, <2>6, <3>1, <3>4, <5>1, TakesSettles
        <5>3. QED
          BY <4>1, <5>2
      <4>5. CASE fits = FALSE
        <5>1. HasReplied(asked, v, u, t, 200, FALSE)
          BY <4>3, <4>5
        <5>2. Refuses(w, v, u, t)
          BY <2>2, <3>1, <3>4, <5>1, MismatchRefuses
        <5>3. Settles(v)
          BY <5>2, RefusesSettles
        <5>4. QED
          BY <4>1, <5>3
      <4>6. QED
        BY <4>2, <4>4, <4>5
    <3>5. QED
      BY <3>3, <3>4
  <2>7. QED
    BY <2>5, <2>6
<1>7. QED
  BY <1>3, <1>4, <1>5, <1>6

\* An UPDATE is accepted with an answer.
LEMMA UpdateTakes ==
  ASSUME NEW w, NEW u, NEW t, Ready(w, w, u, t), w.tsx[t].method = "UPDATE",
         w.tsx[t].sdp # 0, NEW choice, choice # "decline",
         NEW q, HasOffer(w, q, u, t, w.tsx[t].sdp, choice),
         NEW p, Deals(q, p, u), Done(q, p, u, q.neg[u].local.sdp, q.neg[u].remote.sdp),
         NEW v, Sends(p, v, t, 200, p.neg[u].active_local.sdp)
  PROVE  Settles(v)
<1>2. /\ Frame(w, q, {u}, {t}) /\ q.acks = w.acks /\ SameSession(w.inv[u], q.inv[u])
      /\ SameClient(w.tsx[t], q.tsx[t]) /\ q.tsx[t].sdp = w.tsx[t].sdp
      /\ q.neg[u].state = "WAIT_NEGO" /\ q.neg[u].local.sdp # 0
      /\ q.neg[u].remote.sdp = w.tsx[t].sdp /\ ~q.neg[u].has_remote_answer
  BY DEF HasOffer, Deals2
<1>3. Frame(q, p, {u}, {t}) /\ p.tsx = q.tsx /\ p.acks = q.acks /\ SameSession(q.inv[u], p.inv[u])
  <2>1. Frame(q, p, {u}, {})
    BY DEF Deals
  <2>2. Frame(q, p, {u}, {t})
    BY <2>1, FrameWider
  <2>3. QED
    BY <2>2 DEF Deals
<1>4. Frame(w, p, {u}, {t})
  BY <1>2, <1>3, FrameTrans
<1>5. p.tsx[t].method = "UPDATE"
  BY <1>4 DEF Frame, Ready
<1>6. /\ Frame(p, v, {}, {t}) /\ v.acks = p.acks /\ v.inv = p.inv /\ v.neg = p.neg
      /\ SameClient(p.tsx[t], v.tsx[t]) /\ v.tsx[t].sdp = p.tsx[t].sdp
      /\ v.tsx[t].server = "terminated" /\ v.tsx[t].status = 200
      /\ v.tsx[t].body = p.neg[u].active_local.sdp
  BY <1>5 DEF Sends, SameClient
<1>7. Frame(w, v, {u}, {t})
  <2>1. Frame(p, v, {u}, {t})
    BY <1>6, FrameWider
  <2>2. QED
    BY <1>4, <2>1, FrameTrans
<1>8. SameClient(w.tsx[t], v.tsx[t]) /\ v.tsx[t].sdp = w.tsx[t].sdp
  BY <1>2, <1>3, <1>6 DEF SameClient
<1>9. /\ v.inv[u].state = w.inv[u].state /\ v.inv[u].invite_tsx = w.inv[u].invite_tsx
      /\ v.inv[u].last_ack_cseq = w.inv[u].last_ack_cseq
      /\ v.inv[u].last_ack = w.inv[u].last_ack
  BY <1>2, <1>3, <1>6 DEF SameSession
<1>10. \A s \in Indices(v) : s \in Indices(w)
  BY <1>7 DEF Frame, Indices
<1>11. Yields(w, v, u, t)
  BY <1>2, <1>3, <1>6, <1>9, <1>10 DEF Yields, Ready, Done
<1>12. Live(w) /\ t \in Indices(w) /\ Server(w, t) = u
  BY DEF Ready
<1>13. QED
  BY <1>7, <1>8, <1>11, <1>12, YieldsSettles

\* An UPDATE is refused after its offer was looked at.
LEMMA UpdateRefuses ==
  ASSUME NEW w, NEW u, NEW t, Ready(w, w, u, t),
         NEW choice, NEW q, HasOffer(w, q, u, t, w.tsx[t].sdp, choice),
         NEW p, Deals(q, p, u), Done(q, p, u, q.neg[u].active_local.sdp, q.neg[u].active_remote.sdp)
  PROVE  Refuses(w, SendResponse(p, t, 488, 0), u, t)
<1> DEFINE v == SendResponse(p, t, 488, 0)
<1>1. /\ Sound(w) /\ u \in Ends /\ Live(w)
      /\ t \in Indices(w) /\ Server(w, t) = u /\ Begins(w, w, u, t)
      /\ w.neg[u].state = "DONE" /\ ~w.neg[u].has_remote_answer
  BY ReadyParts DEF Ready
<1>2. /\ Deals2(w, p, u, t) /\ SameClient(w.tsx[t], p.tsx[t]) /\ ~p.tsx[t].answered
      /\ Unoffered(w.neg[u], p.neg[u]) /\ Sound(p) /\ t \in Indices(p)
  BY <1>1, CancelsOffer
<1>3. Sends(p, v, t, 488, 0)
  <2>1. 488 \in Nat /\ 0 \in Nat
    OBVIOUS
  <2>2. QED
    BY <1>2, <2>1, SendsSame
<1> HIDE DEF v
<1>4. 488 \in Nat /\ 488 >= 300
  OBVIOUS
<1>5. Refuses(w, v, u, t)
  BY <1>1, <1>2, <1>3, <1>4, RefusesAfter
<1>6. QED
  BY <1>5 DEF v

\* An UPDATE is accepted or refused.
LEMMA RxUpdateSettles ==
  ASSUME NEW w, Live(w), NEW t \in Indices(w), t # 1, w.tsx[t].method = "UPDATE",
         w.tsx[t].server = "none", w.tsx[t].client = "calling", NEW choice
  PROVE  Settles(RxUpdate(w, t, choice))
<1> DEFINE u == Server(w, t)
           state == w.neg[u].state
           sdp == w.tsx[t].sdp
           asked == CheckSdpServer(w, t, sdp, choice)
           agreed == Negotiate(asked, u, choice = "answer")
           up == w.inv[u].state \in {"EARLY", "CONNECTING", "CONFIRMED"}
<1>0. Arrived(w, t, u)
  BY ArrivesAfter
<1>1. /\ Runs(w) /\ Dealing(w) /\ Sound(w) /\ u \in Ends /\ sdp \in Nat /\ ~w.tsx[t].answered
      /\ ~w.neg[u].has_remote_answer /\ Open(w, t, Peer(u)) /\ sdp # 0
      /\ w.inv[u].state \in {"CONNECTING", "CONFIRMED", "DISCONNECTED"}
      /\ w.inv[u].state \in {"CONNECTING", "CONFIRMED"} => state \in {"DONE", "LOCAL_OFFER"}
  BY <1>0 DEF Arrived
<1>2. Begins(w, w, u, t)
  BY <1>1, BeginsAnyway
<1>3. ASSUME NEW status \in Nat, status >= 300
      PROVE  Settles(SendResponse(w, t, status, 0))
  <2>1. Little(w, SendResponse(w, t, status, 0))
    BY <1>2, <1>3, RefusedSettles
  <2>2. QED
    BY <2>1, LittleSettles
<1>4. CASE ~up
  <2>1. RxUpdate(w, t, choice) = SendResponse(w, t, 500, 0)
    BY <1>4 DEF RxUpdate
  <2>2. 500 \in Nat /\ 500 >= 300
    OBVIOUS
  <2>3. QED
    BY <1>3, <2>1, <2>2
<1>5. CASE up /\ state = "LOCAL_OFFER"
  <2>1. RxUpdate(w, t, choice) = SendResponse(w, t, 491, 0)
    BY <1>5 DEF RxUpdate
  <2>2. 491 \in Nat /\ 491 >= 300
    OBVIOUS
  <2>3. QED
    BY <1>3, <2>1, <2>2
<1>6. ASSUME up, state # "LOCAL_OFFER"
      PROVE  Settles(RxUpdate(w, t, choice))
  <2>1. state = "DONE" /\ w.inv[u].state \in {"CONNECTING", "CONFIRMED"}
    BY <1>1, <1>6
  <2>2. Ready(w, w, u, t)
    BY <1>1, <1>2, <2>1 DEF Ready
  <2>3. /\ asked.neg[u].state # "WAIT_NEGO" =>
              RxUpdate(w, t, choice) =
                SendResponse([asked EXCEPT !.neg[u] = CancelOffer(@)], t, 488, 0)
        /\ asked.neg[u].state = "WAIT_NEGO" /\ choice = "answer" =>
              RxUpdate(w, t, choice) = SendResponse(agreed, t, 200, agreed.neg[u].active_local.sdp)
        /\ asked.neg[u].state = "WAIT_NEGO" /\ choice # "answer" =>
              RxUpdate(w, t, choice) = SendResponse(agreed, t, 488, 0)
    BY <1>1, <1>6, <2>1, ZenonT(60) DEF RxUpdate
  <2>4. HasOffer(w, asked, u, t, sdp, choice)
    BY <1>1, <2>1, OfferedDoes
  <2> HIDE DEF asked
  <2>5. /\ Sound(asked) /\ t \in Indices(asked)
        /\ asked.neg[u].state = (IF choice = "decline" THEN "REMOTE_OFFER" ELSE "WAIT_NEGO")
    BY <1>1, <2>4 DEF HasOffer, Deals2, Frame, Indices
  <2>6. CASE choice = "decline"
    <3> DEFINE v == SendResponse([asked EXCEPT !.neg[u] = CancelOffer(@)], t, 488, 0)
    <3>1. Refuses(w, v, u, t)
      BY <2>2, <2>4, <2>6, DeclineRefuses
    <3>2. RxUpdate(w, t, choice) = v
      BY <2>3, <2>5, <2>6
    <3> HIDE DEF v
    <3>3. Settles(v)
      BY <3>1, RefusesSettles
    <3>4. QED
      BY <3>2, <3>3
  <2>7. ASSUME choice # "decline"
        PROVE  Settles(RxUpdate(w, t, choice))
    <3> DEFINE n == asked.neg[u]
               fits == choice = "answer"
    <3>1. fits \in BOOLEAN
      OBVIOUS
    <3> DEFINE p == Negotiate(asked, u, fits)
    <3>2. agreed = p
      OBVIOUS
    <3> HIDE DEF fits, agreed
    <3>3. /\ Deals(asked, p, u)
          /\ Done(asked, p, u, IF fits THEN n.local.sdp ELSE n.active_local.sdp,
                               IF fits THEN n.remote.sdp ELSE n.active_remote.sdp)
      BY <1>1, <2>5, <3>1, NegotiateDeals
    <3> HIDE DEF p
    <3>4. CASE fits = TRUE
      <4> DEFINE v == SendResponse(p, t, 200, p.neg[u].active_local.sdp)
      <4>1. RxUpdate(w, t, choice) = v
        BY <2>3, <2>5, <2>7, <3>2, <3>4 DEF fits
      <4>2. Done(asked, p, u, n.local.sdp, n.remote.sdp)
        BY <3>3, <3>4
      <4>3. Sends(p, v, t, 200, p.neg[u].active_local.sdp)
        <5>1. Sound(p) /\ t \in Indices(p)
          BY <2>5, <3>3 DEF Deals, Frame, Indices
        <5>2. p.neg[u].active_local.sdp \in Nat
          BY <1>1, <5>1, SoundParts
        <5>3. 200 \in Nat
          OBVIOUS
        <5>4. QED
          BY <5>1, <5>2, <5>3, SendsSame
      <4> HIDE DEF v
      <4>4. Settles(v)
        BY <1>1, <2>2, <2>4, <2>7, <3>3, <4>2, <4>3, UpdateTakes
      <4>5. QED
        BY <4>1, <4>4
    <3>5. CASE fits = FALSE
      <4> DEFINE v == SendResponse(p, t, 488, 0)
      <4>1. RxUpdate(w, t, choice) = v
        BY <2>3, <2>5, <2>7, <3>2, <3>5 DEF fits
      <4>2. Done(asked, p, u, n.active_local.sdp, n.active_remote.sdp)
        BY <3>3, <3>5
      <4>3. Refuses(w, v, u, t)
        BY <2>2, <2>4, <3>3, <4>2, UpdateRefuses, ZenonT(60)
      <4> HIDE DEF v
      <4>4. Settles(v)
        BY <4>3, RefusesSettles
      <4>5. QED
        BY <4>1, <4>4
    <3>6. QED
      BY <3>1, <3>4, <3>5
  <2>8. QED
    BY <2>6, <2>7
<1>7. QED
  BY <1>4, <1>5, <1>6

\* A CANCEL ends a call that is not answered, or comes too late.
LEMMA RxCancelSettles ==
  ASSUME NEW w, Live(w), NEW t \in Indices(w), w.tsx[t].method = "CANCEL",
         w.tsx[t].server = "none"
  PROVE  Settles(RxCancel(w, t))
<1> DEFINE u == Server(w, t)
           status == IF w.tsx[1].server = "terminated" THEN 481 ELSE 200
           y == SendResponse(w, t, status, 0)
           x == SendResponse(y, 1, 487, 0)
           v == Disconnect(x, u)
<1>1. /\ Runs(w) /\ Sound(w) /\ t # 1 /\ u = "callee" /\ w.tsx[t].of = 1 /\ ~w.tsx[t].answered
      /\ u \in Ends /\ 1 \in Indices(w) /\ w.tsx[1].method = "INVITE" /\ w.tsx[1].from = "caller"
      /\ w.tsx[t].from = "caller"
  <2>1. Runs(w)
    BY DEF Live
  <2>2. QED
    BY <2>1, LiveParts, Basics DEF Ends
<1>2. status \in Nat /\ 0 \in Nat /\ 487 \in Nat /\ status >= 200
  OBVIOUS
<1>3. RxCancel(w, t) = IF w.inv[u].state \in {"INCOMING", "EARLY"} /\ w.tsx[1].server = "proceeding"
                       THEN v ELSE y
  BY <1>1 DEF RxCancel
<1> HIDE DEF status
<1>4. Sends(w, y, t, status, 0)
  BY <1>1, <1>2, SendsSame
<1> HIDE DEF y
<1>5. /\ Frame(w, y, {}, {t}) /\ y.neg = w.neg /\ y.inv = w.inv /\ y.acks = w.acks
      /\ y.tsx[t].sdp = w.tsx[t].sdp /\ y.tsx[t].client = w.tsx[t].client
      /\ y.tsx[t].done = w.tsx[t].done /\ y.tsx[t].answered = w.tsx[t].answered
      /\ y.tsx[t].body = 0 /\ y.tsx[t].server = "terminated"
  BY <1>1, <1>2, <1>4 DEF Sends
<1>6. Refuses(w, y, u, t)
  <2>1. Frame(w, y, {u}, {t})
    BY <1>5, FrameWider
  <2>2. QED
    BY <1>1, <1>5, <2>1 DEF Refuses, Unoffered, SameClient
<1>7. Settles(y)
  BY <1>1, <1>6, RefusesSettles
<1>8. ASSUME w.inv[u].state \in {"INCOMING", "EARLY"}
      PROVE  Settles(v)
  <2>1. Sends(y, x, 1, 487, 0)
    <3>1. Sound(y) /\ 1 \in Indices(y)
      BY <1>1, <1>5 DEF Frame, Indices
    <3>2. QED
      BY <1>2, <3>1, SendsSame
  <2> HIDE DEF x
  <2>2. /\ Frame(y, x, {}, {1}) /\ x.acks = y.acks /\ x.tsx[1].sdp = y.tsx[1].sdp
        /\ x.tsx[1].client = y.tsx[1].client /\ x.tsx[1].done = y.tsx[1].done
        /\ x.tsx[1].status = 487 /\ x.tsx[1].server # "none"
    BY <2>1 DEF Sends
  <2> DEFINE T == {1, t}
  <2>3. Frame(w, x, {u}, T)
    <3>1. Frame(w, y, {u}, T)
      BY <1>5, FrameWider
    <3>2. Frame(y, x, {u}, T)
      BY <2>2, FrameWider
    <3>3. QED
      BY <3>1, <3>2, FrameTrans
  <2>4. Twin(w.tsx[1], y.tsx[1]) /\ Twin(y.tsx[t], x.tsx[t])
    BY <1>1, <1>5, <2>2 DEF Frame, Indices
  <2>5. \A s \in Indices(w) \cap T :
            /\ s = 1 \/ w.tsx[s].method = "CANCEL"
            /\ x.tsx[s].sdp = w.tsx[s].sdp
            /\ x.tsx[s].client = "calling" => w.tsx[s].client = "calling"
            /\ x.tsx[s].server = "none" => x.tsx[s].body = 0 /\ ~x.tsx[s].answered
            /\ w.tsx[s].method # "CANCEL" =>
                  IF w.tsx[s].from = u THEN SameServer(w.tsx[s], x.tsx[s])
                                       ELSE SameClient(w.tsx[s], x.tsx[s])
    <3>1. /\ x.tsx[1].sdp = w.tsx[1].sdp /\ SameClient(w.tsx[1], x.tsx[1])
          /\ x.tsx[1].client = w.tsx[1].client
      BY <2>2, <2>4 DEF Twin, SameClient
    <3>2. /\ x.tsx[t].sdp = w.tsx[t].sdp /\ x.tsx[t].client = w.tsx[t].client
          /\ x.tsx[t].server # "none"
      BY <1>5, <2>4 DEF Twin
    <3>3. w.tsx[1].from # u
      BY <1>1
    <3> HIDE DEF u
    <3>4. QED
      BY <1>1, <2>2, <3>1, <3>2, <3>3
  <2>6. x.acks = w.acks /\ x.tsx[1].status >= 300
    BY <1>5, <2>2
  <2> HIDE DEF u, T
  <2>7. Settles(v) /\ \A s : Settles(Forget(v, u, s))
    BY <1>1, <1>8, <2>3, <2>5, <2>6, LeavesSettles
  <2>8. QED
    BY <2>7
<1>9. QED
  BY <1>3, <1>7, <1>8

\* The session of a new call.
Incoming(w, v, u, t) ==
    /\ Sits(w, v, u) /\ v.inv[u].state = "INCOMING" /\ v.inv[u].invite_tsx = t
    /\ v.inv[u].last_ack_cseq = w.inv[u].last_ack_cseq

\* The callee makes it.
LEMMA IncomingSits ==
  ASSUME NEW w, Sound(w), NEW u \in Ends, NEW t \in Indices(w)
  PROVE  Incoming(w, [w EXCEPT !.inv[u].state = "INCOMING", !.inv[u].invite_tsx = t], u, t)
<1> DEFINE q == [w.inv[u] EXCEPT !.state = "INCOMING"]
           r == [q EXCEPT !.invite_tsx = t]
           v == [w EXCEPT !.inv[u] = r]
           a == [w EXCEPT !.inv[u] = q]
<1>1. /\ w.inv[u] \in Sessions(Nat, Nat) /\ w \in Worlds /\ t \in Nat /\ t \in 0..Len(w.tsx)
  BY SoundParts DEF Indices
<1>2. q \in Sessions(Nat, Nat) /\ q.state = "INCOMING" /\ q.prov = w.inv[u].prov
      /\ q.last_ack_cseq = w.inv[u].last_ack_cseq
  BY <1>1 DEF Sessions, States
<1> HIDE DEF q
<1>3. r \in Sessions(Nat, Nat) /\ r.state = "INCOMING" /\ r.prov = w.inv[u].prov
      /\ r.last_ack_cseq = w.inv[u].last_ack_cseq /\ r.invite_tsx = t
  BY <1>1, <1>2 DEF Sessions
<1>5. [w EXCEPT !.inv[u].state = "INCOMING", !.inv[u].invite_tsx = t] = v
  <2>1. a.inv[u] = q
    BY <1>1 DEF Worlds
  <2>2. [w EXCEPT !.inv[u].state = "INCOMING", !.inv[u].invite_tsx = t] = [a EXCEPT !.inv[u] = r]
    BY <2>1 DEF q
  <2>3. [a EXCEPT !.inv[u] = r] = v
    BY <1>1 DEF Worlds
  <2>4. QED
    BY <2>2, <2>3
<1> HIDE DEF r
<1>4. Sits(w, v, u) /\ v.inv[u] = r
  BY <1>1, <1>3, InvSits
<1>6. Incoming(w, v, u, t)
  BY <1>3, <1>4 DEF Incoming
<1>7. QED
  BY <1>5, <1>6

\* The caller's INVITE makes a session, whatever it offers.
LEMMA RxFirstInviteSettles ==
  ASSUME NEW w, Live(w), NEW t \in Indices(w), w.tsx[t].method = "INVITE",
         w.tsx[t].server = "none", w.inv[Server(w, t)].state = "NULL"
  PROVE  Settles(RxFirstInvite(w, t))
<1> DEFINE u == "callee"
           sdp == w.tsx[1].sdp
           m == RemoteOffer(w.neg[u], sdp, "long")
           w1 == IF sdp = 0 THEN w ELSE [w EXCEPT !.neg[u] = m]
           x == [w1 EXCEPT !.inv[u].state = "INCOMING", !.inv[u].invite_tsx = 1]
           v == SendResponse(x, 1, 100, 0)
<1>1. /\ Runs(w) /\ Dealing(w) /\ Sound(w) /\ u \in Ends /\ 1 \in Indices(w)
      /\ w.tsx[1].method = "INVITE" /\ w.tsx[1].from = "caller" /\ sdp \in Nat
      /\ w.neg[u] \in Negotiators(Nat) /\ w.inv[u].prov \in {"A", "B"}
      /\ Fits(w.neg[u], w.inv[u].prov)
  <2>1. Runs(w) /\ Dealing(w)
    BY DEF Live
  <2>2. Sound(w) /\ u \in Ends /\ 1 \in Indices(w) /\ w.tsx[1].method = "INVITE"
        /\ w.tsx[1].from = "caller"
    BY <2>1, LiveParts, Basics DEF Ends
  <2>3. sdp \in Nat
    BY <2>2, LiveParts
  <2>4. QED
    BY <2>1, <2>2, <2>3, SoundParts
<1>2. t = 1 /\ w.inv[u].state = "NULL" /\ Server(w, t) = u
  <2>1. w.inv["caller"].state # "NULL" /\ (w.inv["caller"].state = "CONFIRMED" =>
               w.inv["callee"].state \in {"CONNECTING", "CONFIRMED", "DISCONNECTED"})
    BY <1>1, Bearings
  <2>2. Server(w, t) \in Ends /\ w.tsx[t].from \in Ends /\ Server(w, t) = Peer(w.tsx[t].from)
        /\ (t # 1 /\ w.tsx[t].method # "CANCEL" => w.inv[w.tsx[t].from].state = "CONFIRMED")
    BY LiveParts
  <2>3. Server(w, t) = "callee" /\ w.tsx[t].from = "caller"
    BY <2>1, <2>2 DEF Ends, Peer
  <2>4. QED
    BY <2>1, <2>2, <2>3
<1>3. RxFirstInvite(w, t) = v
  BY <1>2 DEF RxFirstInvite
<1>4. ~w.neg[u].has_remote_answer /\ w.neg[u].state = "NULL" /\ ~w.tsx[1].answered
  BY <1>1, <1>2 DEF Dealing, Notes, Requests
<1>5. m \in Negotiators(Nat) /\ Fits(m, w.inv[u].prov)
  <2>1. "long" \in {"long", w.inv[u].prov}
    OBVIOUS
  <2>2. QED
    BY <1>1, <2>1, NegotiatorFits
<1>6. /\ m.state = "REMOTE_OFFER" /\ m.remote.sdp = sdp
      /\ m.active_local = w.neg[u].active_local /\ m.active_remote = w.neg[u].active_remote
      /\ m.has_remote_answer = w.neg[u].has_remote_answer
  BY <1>1 DEF RemoteOffer, Negotiators, Copy
<1> HIDE DEF m
<1>7. /\ Sound(w1) /\ Frame(w, w1, {u}, {}) /\ w1.acks = w.acks /\ w1.tsx = w.tsx
      /\ SameSession(w.inv[u], w1.inv[u])
      /\ w1.neg[u] = IF sdp = 0 THEN w.neg[u] ELSE m
  <2>1. CASE sdp = 0
    <3>1. Frame(w, w, {u}, {})
      BY <1>1, FrameRefl
    <3>2. QED
      BY <1>1, <2>1, <3>1 DEF SameSession
  <2>2. CASE sdp # 0
    <3> DEFINE k == [w EXCEPT !.neg[u] = m]
    <3>1. Deals(w, k, u) /\ k.neg[u] = m
      BY <1>1, <1>5, NegDeals
    <3>2. w1 = k
      BY <2>2
    <3> HIDE DEF k, w1
    <3>3. QED
      BY <2>2, <3>1, <3>2 DEF Deals, Frame
  <2>3. QED
    BY <2>1, <2>2
<1> HIDE DEF w1
<1>8. /\ Sits(w1, x, u) /\ x.inv[u].state = "INCOMING" /\ x.inv[u].invite_tsx = 1
      /\ x.inv[u].last_ack_cseq = w1.inv[u].last_ack_cseq
  <2>1. 1 \in Indices(w1)
    BY <1>1, <1>7 DEF Indices
  <2>2. Incoming(w1, x, u, 1)
    BY <1>1, <1>7, <2>1, IncomingSits
  <2>3. QED
    BY <2>2 DEF Incoming
<1> HIDE DEF x
<1>9. Sends(x, v, 1, 100, 0)
  <2>1. Sound(x) /\ 1 \in Indices(x)
    BY <1>1, <1>7, <1>8 DEF Sits, Frame, Indices
  <2>2. 100 \in Nat /\ 0 \in Nat
    OBVIOUS
  <2>3. QED
    BY <2>1, <2>2, SendsSame
<1> HIDE DEF v
<1>10. /\ Frame(x, v, {}, {1}) /\ v.neg = x.neg /\ v.inv = x.inv /\ v.acks = x.acks
       /\ SameClient(x.tsx[1], v.tsx[1]) /\ v.tsx[1].sdp = x.tsx[1].sdp
       /\ v.tsx[1].answered = x.tsx[1].answered
       /\ v.tsx[1].status = 100 /\ v.tsx[1].body = 0 /\ v.tsx[1].server = "proceeding"
  BY <1>9 DEF Sends, SameClient
<1>11. Frame(w1, x, {u}, {}) /\ x.tsx = w1.tsx /\ x.neg = w1.neg /\ x.acks = w1.acks
  BY <1>8 DEF Sits
<1>12. Frame(w, v, {u}, {1})
  <2>1. Frame(w, w1, {u}, {1})
    BY <1>7, FrameWider
  <2>2. Frame(w1, x, {u}, {1})
    BY <1>11, FrameWider
  <2>3. Frame(x, v, {u}, {1})
    BY <1>10, FrameWider
  <2>4. Frame(w, x, {u}, {1})
    BY <2>1, <2>2, FrameTrans
  <2>5. QED
    BY <2>3, <2>4, FrameTrans
<1>13. SameClient(w.tsx[1], v.tsx[1]) /\ v.tsx[1].sdp = w.tsx[1].sdp
       /\ v.tsx[1].answered = w.tsx[1].answered
  BY <1>7, <1>10, <1>11
<1>14. Moves(w, v, u, 1) /\ Sound(v) /\ Len(v.tsx) = Len(w.tsx)
  <2>1. Server(w, 1) = u /\ v.tsx[1].server # "none"
    BY <1>2, <1>10
  <2>2. QED
    BY <1>1, <1>12, <1>13, <2>1, ServerMoves
<1>15. Invited(w, v)
  BY <1>2, <1>4, <1>6, <1>7, <1>8, <1>10, <1>11, <1>13, <1>14 DEF Invited, SameSession
<1>16. Dealing(v)
  BY <1>1, <1>14, <1>15, InvitedDealing
<1>17. Settles(v)
  BY <1>14, <1>16 DEF Settles
<1>18. QED
  BY <1>3, <1>17

\* A request that the dialog gives to the session.
LEMMA RxRequestSettles ==
  ASSUME NEW w, Live(w), NEW t \in Indices(w), w.tsx[t].server = "none",
         w.tsx[t].client = "calling", NEW choice
  PROVE  Settles(RxRequest(w, t, choice))
<1>1. /\ w.tsx[t].method \in {"INVITE", "UPDATE", "CANCEL"}
      /\ w.tsx[t].method = "CANCEL" => t # 1
  BY LiveParts
<1>2. Runs(w) /\ Dealing(w) /\ w.tsx[1].method = "INVITE" /\ w.tsx[1].from = "caller"
  <2>1. Runs(w) /\ Dealing(w)
    BY DEF Live
  <2>2. QED
    BY <2>1, Basics
<1>3. CASE w.tsx[t].method = "INVITE" /\ w.inv[Server(w, t)].state = "NULL"
  <2>1. Settles(RxFirstInvite(w, t))
    BY <1>3, RxFirstInviteSettles
  <2>2. RxRequest(w, t, choice) = RxFirstInvite(w, t)
    BY <1>3 DEF RxRequest
  <2>3. QED
    BY <2>1, <2>2
<1>4. CASE w.tsx[t].method = "INVITE" /\ w.inv[Server(w, t)].state # "NULL"
  <2>1. t # 1
    <3>1. ASSUME t = 1
          PROVE  FALSE
      <4>1. Server(w, t) = "callee"
        BY <1>2, <3>1 DEF Server, Peer
      <4>2. w.inv["callee"].state # "NULL" /\ w.tsx[1].server = "none"
        BY <1>4, <3>1, <4>1
      <4>3. QED
        BY <1>2, <4>2 DEF Runs, Ending, First
    <3>2. QED
      BY <3>1
  <2>2. Settles(RxReinvite(w, t, choice))
    BY <1>4, <2>1, RxReinviteSettles
  <2>3. RxRequest(w, t, choice) = RxReinvite(w, t, choice)
    BY <1>4 DEF RxRequest
  <2>4. QED
    BY <2>2, <2>3
<1>5. CASE w.tsx[t].method = "UPDATE"
  <2>1. t # 1
    BY <1>2, <1>5
  <2>2. Settles(RxUpdate(w, t, choice))
    BY <1>5, <2>1, RxUpdateSettles
  <2>3. RxRequest(w, t, choice) = RxUpdate(w, t, choice)
    BY <1>5 DEF RxRequest
  <2>4. QED
    BY <2>2, <2>3
<1>6. CASE w.tsx[t].method = "CANCEL"
  <2>1. Settles(RxCancel(w, t))
    BY <1>6, RxCancelSettles
  <2>2. RxRequest(w, t, choice) = RxCancel(w, t)
    BY <1>6 DEF RxRequest
  <2>3. QED
    BY <2>1, <2>2
<1>7. QED
  BY <1>1, <1>3, <1>4, <1>5, <1>6

-----------------------------------------------------------------------------
(* A provisional response *)

\* One thing after another, when the first one may have sent a request.
LEMMA MovesFrame ==
  ASSUME NEW w, Runs(w), NEW u \in Ends, NEW t \in Indices(w), w.tsx[t].from = u,
         NEW v, Moves(w, v, u, t), NEW x, Frame(v, x, {u}, {t}), SameServer(v.tsx[t], x.tsx[t]),
         x.tsx[t].sdp = v.tsx[t].sdp,
         x.tsx[t].client = "calling" => v.tsx[t].client = "calling"
  PROVE  Moves(w, x, u, t)
<1>1. Peer(u) \in Ends /\ Peer(u) # u /\ Len(w.tsx) \in Nat /\ Len(v.tsx) \in Nat
      /\ Len(v.tsx) >= Len(w.tsx)
  BY Basics, SoundParts DEF Moves
<1>2. Indices(w) \subseteq Indices(v) /\ Indices(x) = Indices(v) /\ Len(x.tsx) = Len(v.tsx)
  BY <1>1 DEF Indices, Frame
<1>3. Sound(x) /\ Len(x.tsx) >= Len(w.tsx)
  BY <1>1, <1>2 DEF Frame
<1>4. SameSession(w.inv[Peer(u)], x.inv[Peer(u)]) /\ SameDeal(w.neg[Peer(u)], x.neg[Peer(u)])
  BY <1>1, ZenonT(60) DEF Moves, Frame, SameSession, SameDeal
<1>5. \A s \in Indices(v) \ {t} : Twin(v.tsx[s], x.tsx[s])
  BY DEF Frame
<1>6. \A s \in Indices(v) : s \notin Indices(w) => Fresh(x.tsx[s], u)
  BY <1>5 DEF Moves, Fresh, Twin
<1>7. \A s \in Indices(w) : v.tsx[s].method = x.tsx[s].method /\ v.tsx[s].from = x.tsx[s].from
  BY <1>2 DEF Frame
<1>8. ASSUME NEW s \in Indices(w)
      PROVE  /\ x.tsx[s].method = w.tsx[s].method /\ x.tsx[s].from = w.tsx[s].from
             /\ x.tsx[s].sdp = w.tsx[s].sdp
             /\ x.tsx[s].client = "calling" => w.tsx[s].client = "calling"
             /\ x.tsx[s].server = "none" => x.tsx[s].body = 0 /\ ~x.tsx[s].answered
             /\ s # t /\ w.tsx[s].method # "CANCEL" => Twin(w.tsx[s], x.tsx[s])
             /\ s = t /\ w.tsx[s].method # "CANCEL" =>
                   IF w.tsx[s].from = u THEN SameServer(w.tsx[s], x.tsx[s])
                                        ELSE SameClient(w.tsx[s], x.tsx[s])
  <2>1. CASE s = t
    BY <1>7, <1>8, <2>1 DEF Moves, SameServer
  <2>2. CASE s # t
    <3>1. Twin(v.tsx[s], x.tsx[s])
      BY <1>2, <1>5, <2>2
    <3>2. QED
      BY <1>7, <1>8, <2>2, <3>1 DEF Moves, Twin
  <2>3. QED
    BY <2>1, <2>2
<1>9. QED
  BY <1>2, <1>3, <1>4, <1>6, <1>8 DEF Moves

\* The caller notes a response, and sends the CANCEL that waits for it.
Notices(w, v) ==
    /\ Little(w, v) /\ Moves(w, v, "caller", 1) /\ v.neg = w.neg /\ v.acks = w.acks
    /\ \A e \in Ends : SameSession(w.inv[e], v.inv[e])
    /\ \A s \in Indices(w) : Twin(w.tsx[s], v.tsx[s])
    /\ \A s \in Indices(v) : s \notin Indices(w) =>
          v.tsx[s].method = "CANCEL" /\ v.tsx[s].body = 0 /\ ~v.tsx[s].answered

\* Nothing that concerns an offer changes.
LEMMA NoticesFrame ==
  ASSUME NEW w, Live(w), NEW v, Frame(w, v, {}, {}), v.neg = w.neg, v.acks = w.acks
  PROVE  Notices(w, v)
<1>1. Runs(w) /\ Dealing(w) /\ "caller" \in Ends /\ 1 \in Indices(w)
  BY Basics DEF Live
<1>2. Little(w, v)
  BY <1>1, FrameLittle
<1>3. Frame(w, v, {"caller"}, {})
  BY FrameWider
<1>4. Moves(w, v, "caller", 1)
  BY <1>1, <1>3, FrameMoves
<1>5. Indices(v) = Indices(w)
  BY DEF Frame, Indices
<1>6. QED
  BY <1>2, <1>4, <1>5 DEF Notices, Frame

\* A CANCEL goes out.
LEMMA NoticesCancel ==
  ASSUME NEW w, Live(w), NEW v, Notices(w, v), NEW x, Adds(v, x, "caller", "CANCEL", 0)
  PROVE  Notices(w, x)
<1>1. Runs(w) /\ Dealing(w) /\ "caller" \in Ends /\ 1 \in Indices(w)
  BY Basics DEF Live
<1>2. Little(w, v) /\ Moves(w, v, "caller", 1)
  BY DEF Notices
<1>3. Little(w, x)
  BY <1>1, <1>2, LittleAdds
<1>4. Moves(w, x, "caller", 1)
  BY <1>1, <1>2, MovesAdds
<1>5. \A e \in Ends : SameSession(w.inv[e], x.inv[e])
  BY DEF Notices, Adds, SameSession
<1>6. Len(v.tsx) \in Nat /\ Len(w.tsx) \in Nat /\ Len(v.tsx) >= Len(w.tsx)
  BY <1>1, <1>2, Basics, SoundParts DEF Little
<1>7. /\ Indices(w) \subseteq Indices(v)
      /\ \A s \in Indices(x) : s \in Indices(v) \/ s = Len(v.tsx) + 1
  BY <1>6 DEF Indices, Adds
<1>8. \A s \in Indices(w) : Twin(w.tsx[s], x.tsx[s])
  BY <1>7 DEF Notices, Adds
<1>9. \A s \in Indices(x) : s \notin Indices(w) =>
          x.tsx[s].method = "CANCEL" /\ x.tsx[s].body = 0 /\ ~x.tsx[s].answered
  BY <1>7 DEF Notices, Adds, Fresh
<1>10. QED
  BY <1>3, <1>4, <1>5, <1>8, <1>9 DEF Notices, Adds

\* pjsip_inv_end_session by a caller that rings: the CANCEL goes out at once.
LEMMA CancelsNotices ==
  ASSUME NEW w, Live(w), w.inv["caller"].invite_tsx = 1, NEW v, Frame(w, v, {}, {}),
         v.neg = w.neg, v.acks = w.acks
  PROVE  Notices(w, SendCancel(v, "caller"))
<1> DEFINE x == [v EXCEPT !.tsx[1].expires = TRUE]
           y == SendRequest(x, "caller", "CANCEL", 0, 1)
<1>1. Runs(w) /\ "caller" \in Ends /\ 1 \in Indices(w) /\ Sound(v) /\ 1 \in Indices(v)
  BY Basics DEF Live, Frame, Indices
<1>2. v.inv["caller"].invite_tsx = 1
  BY <1>1 DEF Frame, SameSession
<1>3. SendCancel(v, "caller") = y
  BY <1>2 DEF SendCancel
<1>4. /\ Frame(v, x, {}, {}) /\ x.neg = v.neg /\ x.inv = v.inv /\ x.acks = v.acks
  <2>1. TRUE \in BOOLEAN /\ "trying" \in {"trying", "terminated"}
    OBVIOUS
  <2>2. QED
    BY <1>1, <2>1, MarkFrame
<1> HIDE DEF x
<1>5. Frame(w, x, {}, {}) /\ x.neg = w.neg /\ x.acks = w.acks /\ Sound(x) /\ 1 \in Indices(x)
  <2>1. Frame(w, x, {}, {})
    BY <1>4, FrameTrans
  <2>2. QED
    BY <1>1, <1>4, <2>1 DEF Frame, Indices
<1>6. Notices(w, x)
  BY <1>5, NoticesFrame
<1>7. Adds(x, y, "caller", "CANCEL", 0)
  <2>1. 1 \in 0..Len(x.tsx) /\ 0 \in Nat /\ 1 > 0
        /\ "CANCEL" \in {"INVITE", "UPDATE", "BYE", "CANCEL"}
    BY <1>5, SoundParts DEF Indices
  <2>2. QED
    BY <1>1, <1>5, <2>1, RequestAdds
<1> HIDE DEF y
<1>8. QED
  BY <1>3, <1>6, <1>7, NoticesCancel

\* What the caller notes before it looks at the response.
LEMMA ProgressNotices ==
  ASSUME NEW w, Live(w), w.tsx[1].client = "calling"
  PROVE  LET w1 == ClientEnters(w, 1, "calling", w.tsx[1].status)
             w2 == IF w.inv["caller"].pending_cancel /\ w.inv["caller"].state = "CALLING"
                   THEN SendCancel([w1 EXCEPT !.inv["caller"].pending_cancel = FALSE], "caller")
                   ELSE w1
         IN  Notices(w, w2)
<1> DEFINE w1 == ClientEnters(w, 1, "calling", w.tsx[1].status)
           p == [w1 EXCEPT !.inv["caller"].pending_cancel = FALSE]
<1>1. /\ Runs(w) /\ "caller" \in Ends /\ 1 \in Indices(w) /\ Sound(w)
      /\ w.tsx[1].status \in Nat
  BY Basics DEF Live, Runs, Begun
<1>2. /\ Frame(w, w1, {}, {1}) /\ w1.neg = w.neg /\ w1.inv = w.inv /\ w1.acks = w.acks
      /\ Twin([w.tsx[1] EXCEPT !.client = "calling"], w1.tsx[1])
  <2>1. "calling" \in {"calling", "completed", "terminated"}
    OBVIOUS
  <2>2. QED
    BY <1>1, <2>1, EnterFrame
<1> HIDE DEF w1
<1>3. Twin(w.tsx[1], w1.tsx[1])
  <2>1. w.tsx[1] \in Transactions(Nat, Nat)
    BY <1>1, SoundParts DEF Indices
  <2>2. [w.tsx[1] EXCEPT !.client = "calling"] = w.tsx[1]
    BY <2>1 DEF Transactions
  <2>3. QED
    BY <1>2, <2>2
<1>4. Frame(w, w1, {}, {}) /\ Sound(w1)
  BY <1>2, <1>3 DEF Frame
<1>5. Notices(w, w1)
  BY <1>2, <1>4, NoticesFrame
<1>6. ASSUME w.inv["caller"].state = "CALLING"
      PROVE  Notices(w, SendCancel(p, "caller"))
  <2>1. Sits(w1, p, "caller") /\ SameSession(w1.inv["caller"], p.inv["caller"])
    <3>1. FALSE \in BOOLEAN /\ 0 \in Nat
      OBVIOUS
    <3>2. QED
      BY <1>1, <1>4, <3>1, NotesSits
  <2> HIDE DEF p
  <2>2. Frame(w1, p, {}, {}) /\ p.neg = w.neg /\ p.acks = w.acks
    BY <1>2, <2>1, SitsFrame DEF Sits
  <2>3. Frame(w, p, {}, {})
    BY <1>4, <2>2, FrameTrans
  <2>4. w.inv["caller"].invite_tsx = 1
    BY <1>1, <1>6 DEF Runs, Begun, Course
  <2>5. QED
    BY <2>2, <2>3, <2>4, CancelsNotices
<1>7. QED
  BY <1>5, <1>6 DEF w1, p

\* What the session of the caller sees of the response.
LEMMA ProgressSettles ==
  ASSUME NEW w, Live(w), w.tsx[1].server = "proceeding", w.tsx[1].client = "calling",
         w.inv["caller"].state \in {"CALLING", "EARLY"}, NEW v, Notices(w, v), NEW choice
  PROVE  Settles(CheckSdpClient(SetState(v, "caller", "EARLY"), 1, w.tsx[1].body, choice))
<1> DEFINE u == "caller"
           body == w.tsx[1].body
           x == SetState(v, u, "EARLY")
           y == CheckSdpClient(x, 1, body, choice)
<1>1. /\ Runs(w) /\ Dealing(w) /\ u \in Ends /\ 1 \in Indices(w) /\ Sound(w) /\ Sound(v)
      /\ w.tsx[1].method = "INVITE" /\ w.tsx[1].from = u /\ w.tsx[1].body \in Nat
      /\ Little(w, v) /\ Moves(w, v, u, 1)
  <2>1. Sound(v)
    BY DEF Notices, Little
  <2>2. 1 \in Indices(w)
    BY Basics DEF Live
  <2>3. w.tsx[1].body \in Nat
    BY <2>2, LiveParts
  <2>4. QED
    BY <2>1, <2>3, Basics DEF Live, Runs, Begun, Notices
<1>2. /\ Sits(v, x, u) /\ x.inv[u].state = "EARLY"
      /\ x.inv[u].invite_tsx = v.inv[u].invite_tsx
      /\ x.inv[u].last_ack_cseq = v.inv[u].last_ack_cseq
      /\ x.inv[u].last_ack = v.inv[u].last_ack
  <2>1. "EARLY" \in States
    BY DEF States
  <2>2. QED
    BY <1>1, <2>1, StateSits
<1> HIDE DEF x
<1>3. /\ 1 \in Indices(v) /\ Twin(w.tsx[1], v.tsx[1]) /\ v.tsx[1].from = u
      /\ Len(v.tsx) \in Nat /\ Len(w.tsx) \in Nat /\ Len(v.tsx) >= Len(w.tsx)
  <2>1. Len(v.tsx) \in Nat /\ Len(w.tsx) \in Nat /\ Len(v.tsx) >= Len(w.tsx)
    BY <1>1, SoundParts DEF Little
  <2>2. QED
    BY <1>1, <2>1 DEF Notices, Twin, Indices
<1>4. /\ Sound(x) /\ 1 \in Indices(x) /\ Client(x, 1) = u /\ x.tsx = v.tsx /\ x.neg = w.neg
      /\ x.acks = w.acks
  BY <1>2, <1>3 DEF Sits, Frame, Indices, Client, Notices
<1>5. /\ Deals2(x, y, u, 1) /\ SameServer(x.tsx[1], y.tsx[1])
      /\ Checks(x, y, u, body, x.tsx[1].done, y.tsx[1].done, choice)
  BY <1>1, <1>4, CheckClientDeals
<1> HIDE DEF y
<1>6. /\ Frame(x, y, {u}, {1}) /\ y.acks = w.acks /\ SameSession(x.inv[u], y.inv[u])
      /\ y.tsx[1].sdp = w.tsx[1].sdp /\ y.tsx[1].client = "calling"
      /\ SameServer(w.tsx[1], y.tsx[1]) /\ y.tsx[1].from = u
      /\ Sound(y) /\ Len(y.tsx) = Len(v.tsx)
  BY <1>3, <1>4, <1>5, ZenonT(60) DEF Deals2, Twin, SameServer, Frame
<1>7. /\ y.inv[u].state = "EARLY" /\ y.inv[u].invite_tsx = w.inv[u].invite_tsx
      /\ y.inv[u].last_ack_cseq = w.inv[u].last_ack_cseq
      /\ y.inv[u].last_ack = w.inv[u].last_ack
  BY <1>1, <1>2, <1>6 DEF SameSession, Notices
<1>8. \A s \in Indices(v) \ {1} : Twin(v.tsx[s], y.tsx[s])
  BY <1>4, <1>6 DEF Frame, Indices
<1>9. /\ \A s \in Indices(w) \ {1} : Twin(w.tsx[s], y.tsx[s])
      /\ \A s \in Indices(y) : s \notin Indices(w) =>
            y.tsx[s].method = "CANCEL" /\ y.tsx[s].body = 0 /\ ~y.tsx[s].answered
  <2>1. Indices(w) \subseteq Indices(v) /\ Indices(y) = Indices(v)
    BY <1>3, <1>6 DEF Indices
  <2>2. QED
    BY <1>1, <1>8, <2>1 DEF Notices, Twin
<1>10. w.neg[u].state \in {"DONE", "NULL", "LOCAL_OFFER", "REMOTE_OFFER", "WAIT_NEGO"}
       /\ (w.neg[u].state = "DONE" => w.tsx[1].done)
       /\ ~w.neg[u].has_remote_answer
  BY <1>1 DEF Dealing, CallerRings, Notes
<1>11. y.tsx[1].done \in BOOLEAN /\ w.tsx[1].done \in BOOLEAN /\ x.tsx[1].done = w.tsx[1].done
  <2>1. y.tsx[1] \in Transactions(Nat, Nat) /\ w.tsx[1] \in Transactions(Nat, Nat)
    BY <1>1, <1>3, <1>6, SoundParts DEF Indices
  <2>2. QED
    BY <1>3, <1>4, <2>1 DEF Transactions, Twin
<1>12. CASE y.neg[u] = w.neg[u] /\ y.tsx[1].done = w.tsx[1].done
  <2>1. \A s \in Indices(w) : Twin(w.tsx[s], y.tsx[s])
    <3>1. y.tsx[1].method = w.tsx[1].method
      BY <1>3, <1>4, <1>6 DEF Frame, Twin
    <3>2. w.tsx[1].client = "calling"
      OBVIOUS
    <3>3. Twin(w.tsx[1], y.tsx[1])
      BY <1>1, <1>6, <1>12, <3>1, <3>2 DEF Twin, SameServer
    <3>4. QED
      BY <1>9, <3>3
  <2>2. \A s \in Indices(w) : Minor(w, y, s)
    BY <2>1 DEF Minor, Twin
  <2>3. Idle(w, y, u)
    BY <1>7, <1>12 DEF Idle, Unoffered, Remembers
  <2>4. Idle(w, y, "callee")
    <3>1. /\ SameSession(w.inv["callee"], y.inv["callee"])
          /\ SameDeal(w.neg["callee"], y.neg["callee"])
      <4>1. "callee" \in Ends /\ "callee" \notin {u}
        BY DEF Ends
      <4>2. /\ SameSession(w.inv["callee"], v.inv["callee"])
            /\ SameSession(v.inv["callee"], x.inv["callee"])
        BY <1>2, <4>1 DEF Notices, Sits, Frame
      <4>3. /\ SameSession(x.inv["callee"], y.inv["callee"])
            /\ SameDeal(x.neg["callee"], y.neg["callee"])
        BY <1>6, <4>1 DEF Frame
      <4>4. QED
        BY <1>4, <4>2, <4>3 DEF SameSession
    <3>2. QED
      BY <3>1 DEF Idle, Unoffered, Remembers, SameSession, SameDeal
  <2>5. \A e \in Ends : Idle(w, y, e)
    BY <2>3, <2>4 DEF Ends
  <2>6. \A t \in Indices(y) : t > Len(w.tsx) =>
           y.tsx[t].method = "CANCEL" /\ y.tsx[t].body = 0 /\ ~y.tsx[t].answered
    BY <1>3, <1>9 DEF Indices
  <2>7. Little(w, y)
    BY <1>3, <1>6, <2>2, <2>5, <2>6 DEF Little
  <2>8. QED
    BY <2>7, LittleSettles DEF y, x
<1>13. CASE ~(y.neg[u] = w.neg[u] /\ y.tsx[1].done = w.tsx[1].done)
  <2>1. \/ /\ body # 0 /\ w.neg[u].state = "NULL"
           /\ y.neg[u].state \in {"WAIT_NEGO", "REMOTE_OFFER"}
           /\ y.neg[u].remote.sdp = body
           /\ y.neg[u].state = "WAIT_NEGO" => y.neg[u].local.sdp = x.sdps + 1
           /\ y.neg[u].active_local = w.neg[u].active_local
           /\ y.neg[u].active_remote = w.neg[u].active_remote
           /\ ~y.neg[u].has_remote_answer /\ y.tsx[1].done = w.tsx[1].done
        \/ /\ body # 0 /\ w.neg[u].state = "LOCAL_OFFER" /\ y.neg[u].state = "DONE"
           /\ ~y.neg[u].has_remote_answer /\ y.tsx[1].done
           /\ y.neg[u].active_local.sdp = w.neg[u].local.sdp
           /\ y.neg[u].active_remote.sdp = body
    BY <1>4, <1>5, <1>10, <1>11, <1>13 DEF Checks, Done
  <2>2. x.sdps + 1 # 0
    <3>1. x.sdps \in Nat
      BY <1>4, SoundParts
    <3>2. QED
      BY <3>1
  <2>3. Moves(w, y, u, 1)
    <3>1. Moves(w, x, u, 1)
      <4>1. Frame(v, x, {u}, {1}) /\ SameServer(v.tsx[1], x.tsx[1])
            /\ x.tsx[1].sdp = v.tsx[1].sdp
            /\ (x.tsx[1].client = "calling" => v.tsx[1].client = "calling")
        BY <1>2, <1>4, FrameWider DEF Sits, SameServer
      <4>2. QED
        BY <1>1, <4>1, MovesFrame
    <3>2. /\ SameServer(x.tsx[1], y.tsx[1]) /\ y.tsx[1].sdp = x.tsx[1].sdp
          /\ (y.tsx[1].client = "calling" => x.tsx[1].client = "calling")
      BY <1>5 DEF Deals2
    <3>3. QED
      BY <1>1, <1>6, <3>1, <3>2, MovesFrame
  <2>4. \A i \in Indices(y) : i \notin Indices(w) => y.tsx[i].method \notin {"INVITE", "UPDATE"}
    BY <1>9
  <2>5. Hears(w, y)
    BY <1>6, <1>7, <2>1, <2>2, <2>4 DEF Hears
  <2>6. Dealing(y)
    BY <1>1, <2>3, <2>5, HearsDealing
  <2>7. QED
    BY <1>6, <2>6 DEF Settles, y, x
<1>14. QED
  BY <1>12, <1>13

\* A provisional response.
LEMMA OnProgressSettles ==
  ASSUME NEW w, Live(w), NEW t \in Indices(w), w.tsx[t].server = "proceeding",
         w.tsx[t].client = "calling", NEW choice
  PROVE  Settles(OnProgress(w, t, choice))
<1> DEFINE w1 == ClientEnters(w, 1, "calling", w.tsx[1].status)
           w2 == IF w.inv["caller"].pending_cancel /\ w.inv["caller"].state = "CALLING"
                 THEN SendCancel([w1 EXCEPT !.inv["caller"].pending_cancel = FALSE], "caller")
                 ELSE w1
<1>1. t = 1 /\ Client(w, t) = "caller"
  <2>1. t = 1 /\ Client(w, t) = w.tsx[t].from
    BY LiveParts
  <2>2. QED
    BY <2>1, Basics DEF Live
<1>2. Notices(w, w2)
  BY <1>1, ProgressNotices
<1>3. OnProgress(w, t, choice) =
         IF Over(w, "caller") \/ w.tsx[1].status = 100 THEN w2
         ELSE CheckSdpClient(SetState(w2, "caller", "EARLY"), 1, w.tsx[1].body, choice)
  BY <1>1 DEF OnProgress
<1> HIDE DEF w2
<1>4. CASE Over(w, "caller") \/ w.tsx[1].status = 100
  <2>1. Settles(w2)
    BY <1>2, LittleSettles DEF Notices
  <2>2. QED
    BY <1>3, <1>4, <2>1
<1>5. CASE ~(Over(w, "caller") \/ w.tsx[1].status = 100)
  <2>1. w.inv["caller"].state \in {"CALLING", "EARLY"}
    BY <1>1, <1>5, Bearings DEF Live, Over
  <2>2. Settles(CheckSdpClient(SetState(w2, "caller", "EARLY"), 1, w.tsx[1].body, choice))
    BY <1>1, <1>2, <2>1, ProgressSettles
  <2>3. QED
    BY <1>3, <1>5, <2>2
<1>6. QED
  BY <1>4, <1>5

-----------------------------------------------------------------------------
(* The ACK arrives *)

\* What the server of INVITE t has when an ACK for it arrives in time.
Acknowledged(w, u, t, sdp) ==
    LET n == w.neg[u]
    IN  /\ Serving(w, t, u) /\ w.tsx[t].server = "completed" /\ w.tsx[t].client = "terminated"
        /\ w.inv[u].state \in {"CONNECTING", "CONFIRMED", "DISCONNECTED"}
        /\ w.inv[u].state # "DISCONNECTED" =>
              /\ w.tsx[t].answered => n.state = "DONE"
              /\ ~w.tsx[t].answered => n.state = "LOCAL_OFFER"
              /\ ~n.has_remote_answer
              /\ Joined(w) /\ ~w.tsx[t].answered => w.inv[Peer(u)].last_ack = sdp

\* It is the one that the cached ACK is for.
LEMMA AckArrives ==
  ASSUME NEW w, Live(w), NEW ack \in w.acks, NEW t, t = ack.t, NEW u, Server(w, t) = u,
         t \in Indices(w), w.inv[u].invite_tsx = t, w.tsx[t].server = "completed"
  PROVE  Acknowledged(w, u, t, ack.sdp)
<1>1. /\ Runs(w) /\ Dealing(w) /\ u \in Ends /\ w.tsx[t].from = Peer(u) /\ Sound(w)
      /\ w.tsx[t].answered \in BOOLEAN
  BY LiveParts DEF Live
<1>2. /\ w.tsx[t].method = "INVITE" /\ w.tsx[t].client = "terminated" /\ w.tsx[t].status < 300
  BY <1>1 DEF Dealing, Accepted
<1>3. Serving(w, t, u)
  BY <1>1, <1>2 DEF Serving
<1>4. t = 1 => u = "callee" /\ Peer(u) = "caller"
  BY <1>1, Basics DEF Ends
<1>5. w.inv[u].state \in {"CONNECTING", "CONFIRMED", "DISCONNECTED"}
  <2>1. CASE t # 1
    BY <1>1, <1>3, <2>1, ServingWhen
  <2>2. CASE t = 1
    <3>1. u = "callee" /\ Unheard(w) /\ w.inv[u].state \in States
      BY <1>1, <1>4, <2>2, SoundParts DEF Dealing, Sessions
    <3>2. w.inv[u].state \notin {"INCOMING", "EARLY", "CALLING"}
      BY <1>1, <2>2, <3>1, Bearings
    <3>3. w.inv[u].state # "NULL"
      BY <2>2, <3>1 DEF Unheard
    <3>4. QED
      BY <3>1, <3>2, <3>3 DEF States
  <2>3. QED
    BY <2>1, <2>2
<1>6. ASSUME w.inv[u].state # "DISCONNECTED"
      PROVE  /\ w.tsx[t].answered => w.neg[u].state = "DONE"
             /\ ~w.tsx[t].answered => w.neg[u].state = "LOCAL_OFFER"
  <2>1. CASE w.inv[u].state = "CONFIRMED"
    <3>1. Answers(w, t, u)
      BY <1>1, <1>3, <2>1 DEF Dealing, Steady
    <3>2. QED
      BY <3>1 DEF Answers
  <2>2. CASE w.inv[u].state = "CONNECTING"
    <3>1. u = "callee" /\ t = 1
      BY <1>1, <2>2 DEF Dealing, Connecting
    <3>2. CalleeRings(w)
      BY <1>1, <2>2, <3>1 DEF Dealing
    <3>3. QED
      BY <2>2, <3>1, <3>2 DEF CalleeRings
  <2>3. QED
    BY <1>5, <1>6, <2>1, <2>2
<1>7. ASSUME w.inv[u].state # "DISCONNECTED", Joined(w), ~w.tsx[t].answered
      PROVE  w.inv[Peer(u)].last_ack = ack.sdp
  <2>1. Agreed(w)
    BY <1>1, <1>7 DEF Dealing
  <2>2. Rests(w, t, u)
    BY <1>1, <2>1 DEF Agreed
  <2>3. Asked(w, t, u)
    BY <1>2, <1>3, <1>6, <1>7 DEF Asked
  <2>4. QED
    BY <2>2, <2>3 DEF Rests
<1>8. ~w.neg[u].has_remote_answer
  BY <1>1 DEF Dealing, Notes
<1>9. QED
  BY <1>2, <1>3, <1>5, <1>6, <1>7, <1>8 DEF Acknowledged

\* What the negotiator of u is left with by the ACK.
AckMedia(w, c, u, t) ==
    LET n == w.neg[u]
        k == c.neg[u]
        a == w.inv[Peer(u)].last_ack
    IN  /\ Frame(w, c, {u}, {t}) /\ SameSession(w.inv[u], c.inv[u]) /\ c.acks \subseteq w.acks
        /\ SameClient(w.tsx[t], c.tsx[t]) /\ c.tsx[t].sdp = w.tsx[t].sdp
        /\ c.tsx[t].status = w.tsx[t].status /\ ~k.has_remote_answer
        /\ w.inv[u].state = "CONFIRMED" => k.state = "DONE"
        /\ k.state = "DONE" /\ Joined(w) =>
              \/ /\ w.tsx[t].answered \/ a = 0
                 /\ k.active_local.sdp = n.active_local.sdp
                 /\ k.active_remote.sdp = n.active_remote.sdp
              \/ /\ ~w.tsx[t].answered /\ n.state = "LOCAL_OFFER" /\ a # 0
                 /\ k.active_local.sdp = n.local.sdp /\ k.active_remote.sdp = a

\* The answer in it is taken, or the offer that it does not answer is withdrawn.
LEMMA AckTaken ==
  ASSUME NEW w, Live(w), NEW t \in Indices(w), NEW u, Server(w, t) = u, NEW sdp \in Nat,
         Acknowledged(w, u, t, sdp), w.inv[u].state # "DISCONNECTED",
         NEW x, Frame(w, x, {}, {}), x.tsx = w.tsx, x.neg = w.neg, x.acks \subseteq w.acks,
         NEW choice
  PROVE  LET b == CheckSdpServer(x, t, sdp, choice)
             c == IF x.inv[u].state = "CONFIRMED" THEN Withdraw(b, u) ELSE b
         IN  AckMedia(w, c, u, t)
<1> DEFINE b == CheckSdpServer(x, t, sdp, choice)
           d == Withdraw(b, u)
           n == w.neg[u]
           k == b.neg[u]
<1>1. /\ u \in Ends /\ w.tsx[t].answered \in BOOLEAN /\ Sound(x) /\ t \in Indices(x)
      /\ Server(x, t) = u /\ SameSession(w.inv[u], x.inv[u])
  <2>1. u \in Ends /\ w.tsx[t].answered \in BOOLEAN
    BY LiveParts
  <2>2. QED
    BY <2>1 DEF Frame, Indices, Server
<1>2. /\ w.tsx[t].answered => n.state = "DONE"
      /\ ~w.tsx[t].answered => n.state = "LOCAL_OFFER"
      /\ ~n.has_remote_answer
      /\ Joined(w) /\ ~w.tsx[t].answered => w.inv[Peer(u)].last_ack = sdp
  BY DEF Acknowledged
<1>3. /\ Deals2(x, b, u, t) /\ SameClient(x.tsx[t], b.tsx[t])
      /\ b.tsx[t].status = x.tsx[t].status
      /\ Checks(x, b, u, sdp, x.tsx[t].answered, b.tsx[t].answered, choice)
  BY <1>1, CheckServerDeals
<1> HIDE DEF b
<1>4. \/ /\ k = n /\ (w.tsx[t].answered \/ sdp = 0)
      \/ /\ ~w.tsx[t].answered /\ sdp # 0 /\ k.state = "DONE" /\ ~k.has_remote_answer
         /\ k.active_local.sdp = n.local.sdp /\ k.active_remote.sdp = sdp
  BY <1>2, <1>3 DEF Checks, Done
<1>5. /\ Frame(w, b, {u}, {t}) /\ SameSession(w.inv[u], b.inv[u]) /\ b.acks \subseteq w.acks
      /\ SameClient(w.tsx[t], b.tsx[t]) /\ b.tsx[t].sdp = w.tsx[t].sdp
      /\ b.tsx[t].status = w.tsx[t].status
  <2>1. Frame(w, x, {u}, {t})
    BY FrameWider
  <2>2. Frame(x, b, {u}, {t})
    BY <1>3 DEF Deals2
  <2>3. Frame(w, b, {u}, {t})
    BY <2>1, <2>2, FrameTrans
  <2>4. QED
    BY <1>1, <1>3, <2>3 DEF Deals2, SameSession
<1>6. k.state \in {"DONE", "LOCAL_OFFER"} /\ ~k.has_remote_answer
  BY <1>1, <1>2, <1>4
<1>7. CASE x.inv[u].state # "CONFIRMED"
  <2>1. w.inv[u].state # "CONFIRMED"
    BY <1>1, <1>7 DEF SameSession
  <2>2. AckMedia(w, b, u, t)
    BY <1>2, <1>4, <1>5, <1>6, <2>1 DEF AckMedia
  <2>3. QED
    BY <1>7, <2>2 DEF b
<1>8. CASE x.inv[u].state = "CONFIRMED"
  <2>1. Sound(b)
    BY <1>5 DEF Frame
  <2>2. /\ Deals(b, d, u)
        /\ Done(b, d, u, k.active_local.sdp, k.active_remote.sdp)
    BY <1>1, <1>6, <2>1, WithdrawDeals
  <2> HIDE DEF d
  <2>3. Frame(w, d, {u}, {t}) /\ SameSession(w.inv[u], d.inv[u]) /\ d.tsx = b.tsx
        /\ d.acks = b.acks
    <3>1. Frame(b, d, {u}, {})
      BY <2>2 DEF Deals
    <3>2. Frame(b, d, {u}, {t})
      BY <3>1, FrameWider
    <3>3. Frame(w, d, {u}, {t})
      BY <1>5, <3>2, FrameTrans
    <3>4. QED
      BY <1>5, <2>2, <3>3 DEF Deals, SameSession
  <2>4. AckMedia(w, d, u, t)
    BY <1>2, <1>4, <1>5, <2>2, <2>3 DEF AckMedia, Done
  <2>5. QED
    BY <1>8, <2>4 DEF b, d
<1>9. QED
  BY <1>7, <1>8

\* What is left of c in e once the server of its INVITE t is done.
ServerDone(c, e, u, t) ==
  /\ Frame(c, e, {u}, {t}) /\ e.neg = c.neg /\ e.acks = c.acks
  /\ e.inv[u].state = c.inv[u].state
  /\ e.inv[u].invite_tsx = IF c.inv[u].invite_tsx = t THEN 0 ELSE c.inv[u].invite_tsx
  /\ e.inv[u].last_ack_cseq = c.inv[u].last_ack_cseq
  /\ e.inv[u].last_ack = c.inv[u].last_ack
  /\ Twin([c.tsx[t] EXCEPT !.server = "terminated"], e.tsx[t])

\* The server of INVITE t is done.
LEMMA EndsFrame ==
  ASSUME NEW c, Sound(c), NEW t \in Indices(c), NEW u \in Ends
  PROVE  ServerDone(c, Forget([c EXCEPT !.tsx[t].server = "terminated"], u, t), u, t)
<1> DEFINE d == [c EXCEPT !.tsx[t].server = "terminated"]
           e == Forget(d, u, t)
<1>1. /\ Frame(c, d, {}, {t}) /\ d.neg = c.neg /\ d.inv = c.inv /\ d.acks = c.acks
      /\ Twin([c.tsx[t] EXCEPT !.server = "terminated"], d.tsx[t])
  <2>1. TRUE \in BOOLEAN /\ "terminated" \in {"trying", "terminated"}
    OBVIOUS
  <2>2. QED
    BY <2>1, MarkFrame
<1> HIDE DEF d
<1>2. Sound(d)
  BY <1>1 DEF Frame
<1>3. /\ Sits(d, e, u) /\ e.inv[u].state = d.inv[u].state
      /\ e.inv[u].invite_tsx = IF d.inv[u].invite_tsx = t THEN 0 ELSE d.inv[u].invite_tsx
      /\ e.inv[u].last_ack_cseq = d.inv[u].last_ack_cseq
      /\ e.inv[u].last_ack = d.inv[u].last_ack
  BY <1>2, ForgetSits
<1> HIDE DEF e
<1>4. Frame(c, e, {u}, {t})
  <2>1. Frame(c, d, {u}, {t})
    BY <1>1, FrameWider
  <2>2. Frame(d, e, {u}, {t})
    BY <1>3, FrameWider DEF Sits
  <2>3. QED
    BY <2>1, <2>2, FrameTrans
<1>5. QED
  BY <1>1, <1>3, <1>4 DEF Sits, ServerDone, d, e

\* Then the call is confirmed, or it goes on.
LEMMA AckCloses ==
  ASSUME NEW w, Live(w), NEW t \in Indices(w), NEW u, Server(w, t) = u, NEW sdp,
         Acknowledged(w, u, t, sdp), w.inv[u].state # "DISCONNECTED",
         w.inv[u].invite_tsx = t, NEW c, AckMedia(w, c, u, t)
  PROVE  LET e == Forget([c EXCEPT !.tsx[t].server = "terminated"], u, t)
         IN  Settles(IF w.inv[u].state = "CONNECTING" THEN Confirm(e, u) ELSE e)
<1> DEFINE e == Forget([c EXCEPT !.tsx[t].server = "terminated"], u, t)
           f == SetState(e, u, "CONFIRMED")
<1>1. /\ u \in Ends /\ t \in Nat /\ t # 0 /\ Sound(c) /\ t \in Indices(c)
      /\ Frame(w, c, {u}, {t}) /\ Runs(w) /\ Dealing(w)
  BY LiveParts DEF AckMedia, Frame, Indices, Live
<1>a. Sound(c) /\ t \in Indices(c) /\ u \in Ends
  BY <1>1
<1>b. ServerDone(c, e, u, t)
  BY <1>a, EndsFrame
<1> HIDE DEF e
<1>2. /\ Frame(c, e, {u}, {t}) /\ e.neg = c.neg /\ e.acks = c.acks
      /\ e.inv[u].state = c.inv[u].state
      /\ e.inv[u].invite_tsx = IF c.inv[u].invite_tsx = t THEN 0 ELSE c.inv[u].invite_tsx
      /\ e.inv[u].last_ack_cseq = c.inv[u].last_ack_cseq
      /\ e.inv[u].last_ack = c.inv[u].last_ack
      /\ Twin([c.tsx[t] EXCEPT !.server = "terminated"], e.tsx[t])
  BY <1>b DEF ServerDone
<1>3. c.tsx[t] \in Transactions(Nat, Nat)
  BY <1>1, SoundParts DEF Indices
<1>4. /\ e.tsx[t].server = "terminated" /\ e.tsx[t].status = w.tsx[t].status
      /\ e.tsx[t].sdp = w.tsx[t].sdp /\ SameClient(w.tsx[t], e.tsx[t])
  BY <1>2, <1>3 DEF Twin, Transactions, AckMedia, SameClient
<1>5. /\ e.inv[u].state = w.inv[u].state /\ e.inv[u].invite_tsx = 0
      /\ e.inv[u].last_ack_cseq = w.inv[u].last_ack_cseq
      /\ e.inv[u].last_ack = w.inv[u].last_ack /\ e.acks \subseteq w.acks
  BY <1>2 DEF AckMedia, SameSession
<1>6. Frame(w, e, {u}, {t}) /\ Sound(e)
  <2>1. Frame(w, e, {u}, {t})
    BY <1>1, <1>2, FrameTrans
  <2>2. QED
    BY <2>1 DEF Frame
<1>7. w.inv[u].state \in {"CONNECTING", "CONFIRMED"}
  BY DEF Acknowledged
<1>8. ASSUME NEW v, Frame(w, v, {u}, {t}), v.tsx = e.tsx, v.neg = e.neg, v.acks = e.acks,
             v.inv[u].state = "CONFIRMED", v.inv[u].invite_tsx = 0, v.neg[u].state = "DONE",
             v.inv[u].last_ack_cseq = e.inv[u].last_ack_cseq,
             v.inv[u].last_ack = e.inv[u].last_ack
      PROVE  Settles(v)
  <2>1. Moves(w, v, u, t) /\ Sound(v) /\ Indices(v) = Indices(w)
    <3>1. /\ SameClient(w.tsx[t], v.tsx[t]) /\ v.tsx[t].sdp = w.tsx[t].sdp
          /\ v.tsx[t].server # "none"
      BY <1>4, <1>8
    <3>2. QED
      BY <1>8, <3>1, ServerMoves
  <2>2. \A s \in Indices(v) : s \in Indices(w)
    BY <2>1
  <2>3. Closes(w, v, u, t)
    BY <1>2, <1>4, <1>5, <1>7, <1>8, <2>2 DEF Closes, Acknowledged, AckMedia
  <2>4. Dealing(v)
    BY <1>1, <2>1, <2>3, ClosesDealing
  <2>5. QED
    BY <2>1, <2>4 DEF Settles
<1>9. CASE w.inv[u].state = "CONFIRMED"
  <2>1. e.neg[u].state = "DONE"
    BY <1>2, <1>9 DEF AckMedia
  <2>2. Settles(e)
    BY <1>5, <1>6, <1>8, <1>9, <2>1
  <2>3. QED
    BY <1>9, <2>2 DEF e
<1>10. CASE w.inv[u].state = "CONNECTING" /\ e.neg[u].state # "DONE"
  <2>1. Confirm(e, u) = SendBye(e, u)
    BY <1>10 DEF Confirm
  <2>2. Sound(SendBye(e, u)) /\ Parted(SendBye(e, u))
    BY <1>1, <1>6, ByeParts
  <2>3. Settles(Confirm(e, u))
    BY <2>1, <2>2 DEF Settles
  <2>4. QED
    BY <1>10, <2>3 DEF e
<1>11. CASE w.inv[u].state = "CONNECTING" /\ e.neg[u].state = "DONE"
  <2>1. Confirm(e, u) = f
    BY <1>11 DEF Confirm
  <2>2. /\ Sits(e, f, u) /\ f.inv[u].state = "CONFIRMED"
        /\ f.inv[u].invite_tsx = e.inv[u].invite_tsx
        /\ f.inv[u].last_ack_cseq = e.inv[u].last_ack_cseq
        /\ f.inv[u].last_ack = e.inv[u].last_ack
    <3>1. "CONFIRMED" \in States
      BY DEF States
    <3>2. QED
      BY <1>1, <1>6, <3>1, StateSits
  <2> HIDE DEF f
  <2>3. Frame(w, f, {u}, {t})
    <3>1. Frame(e, f, {u}, {t})
      BY <2>2, FrameWider DEF Sits
    <3>2. QED
      BY <1>6, <3>1, FrameTrans
  <2>4. Settles(f)
    BY <1>5, <1>8, <1>11, <2>2, <2>3 DEF Sits
  <2>5. QED
    BY <1>11, <2>1, <2>4 DEF e
<1>12. QED
  BY <1>7, <1>9, <1>10, <1>11

\* mod_inv_on_rx_request, for an ACK.
LEMMA RxAckSettles ==
  ASSUME NEW w, Live(w), NEW ack \in w.acks, NEW t, t = ack.t, t \in Indices(w),
         NEW u, Server(w, t) = u, ack.sdp \in Nat,
         NEW x, Frame(w, x, {}, {}), x.tsx = w.tsx, x.neg = w.neg, x.acks \subseteq w.acks,
         NEW choice
  PROVE  Settles(RxAck(x, t, ack.sdp, choice))
<1> DEFINE b == CheckSdpServer(x, t, ack.sdp, choice)
           c == IF x.inv[u].state = "CONFIRMED" THEN Withdraw(b, u) ELSE b
           e == Forget([c EXCEPT !.tsx[t].server = "terminated"], u, t)
           g == Forget([x EXCEPT !.tsx[t].server = "terminated"], u, t)
<1>1. /\ Runs(w) /\ Dealing(w) /\ u \in Ends /\ t \in Nat /\ t # 0 /\ Sound(x)
      /\ t \in Indices(x) /\ Server(x, t) = u /\ SameSession(w.inv[u], x.inv[u])
  <2>1. /\ Runs(w) /\ Dealing(w) /\ u \in Ends /\ t \in Nat /\ t # 0
    BY LiveParts DEF Live
  <2>2. QED
    BY <2>1 DEF Frame, Indices, Server
<1>2. Little(w, x)
  BY <1>1, FrameLittle
<1>3. CASE x.inv[u].invite_tsx # t \/ x.tsx[t].server # "completed"
  <2>1. RxAck(x, t, ack.sdp, choice) = x
    BY <1>1, <1>3 DEF RxAck
  <2>2. QED
    BY <1>2, <2>1, LittleSettles
<1>4. CASE x.inv[u].invite_tsx = t /\ x.tsx[t].server = "completed"
  <2>1. w.inv[u].invite_tsx = t /\ w.tsx[t].server = "completed"
    BY <1>1, <1>4 DEF SameSession
  <2>2. Acknowledged(w, u, t, ack.sdp)
    BY <2>1, AckArrives
  <2>3. CASE Over(x, u)
    <3>1. /\ w.inv[u].state = "DISCONNECTED" /\ x.inv[u].state = "DISCONNECTED"
      BY <1>1, <2>3 DEF Over, SameSession
    <3>2. RxAck(x, t, ack.sdp, choice) = g
      BY <1>1, <1>4, <2>3, <3>1 DEF RxAck
    <3>a. Sound(x) /\ t \in Indices(x) /\ u \in Ends
      BY <1>1
    <3>b. ServerDone(x, g, u, t)
      BY <3>a, EndsFrame
    <3> HIDE DEF g
    <3>3. /\ Frame(x, g, {u}, {t}) /\ g.neg = x.neg /\ g.acks = x.acks
          /\ g.inv[u].state = x.inv[u].state
          /\ g.inv[u].invite_tsx = IF x.inv[u].invite_tsx = t THEN 0 ELSE x.inv[u].invite_tsx
          /\ g.inv[u].last_ack_cseq = x.inv[u].last_ack_cseq
          /\ g.inv[u].last_ack = x.inv[u].last_ack
          /\ Twin([x.tsx[t] EXCEPT !.server = "terminated"], g.tsx[t])
      BY <3>b DEF ServerDone
    <3>4. Frame(w, g, {u}, {t})
      <4>1. Frame(w, x, {u}, {t})
        BY FrameWider
      <4>2. QED
        BY <3>3, <4>1, FrameTrans
    <3>5. Minor(w, g, t)
      <4>1. x.tsx[t] \in Transactions(Nat, Nat)
        BY <1>1, SoundParts DEF Indices
      <4>2. t = 1 => u = "callee"
        BY <1>1, Basics DEF Server
      <4>3. QED
        BY <2>1, <3>1, <3>3, <4>1, <4>2 DEF Minor, Twin, Transactions
    <3>6. Idle(w, g, u)
      <4>1. w.tsx[t].from = Peer(u) /\ g.tsx[t].server = "terminated"
        <5>1. x.tsx[t] \in Transactions(Nat, Nat)
          BY <1>1, SoundParts DEF Indices
        <5>2. w.tsx[t].from = Peer(u)
          BY LiveParts
        <5>3. QED
          BY <3>3, <5>1, <5>2 DEF Twin, Transactions
      <4>2. QED
        BY <1>1, <2>1, <3>1, <3>3, <4>1 DEF Idle, Unoffered, Remembers, SameSession
    <3>7. Little(w, g)
      BY <1>1, <3>3, <3>4, <3>5, <3>6, FrameLittle
    <3>8. QED
      BY <3>2, <3>7, LittleSettles
  <2>4. CASE ~Over(x, u)
    <3>1. w.inv[u].state = x.inv[u].state /\ w.inv[u].state # "DISCONNECTED"
      BY <1>1, <2>4 DEF Over, SameSession
    <3>2. AckMedia(w, c, u, t)
      BY <2>2, <3>1, AckTaken
    <3>3. RxAck(x, t, ack.sdp, choice) =
             IF w.inv[u].state = "CONNECTING" THEN Confirm(e, u) ELSE e
      BY <1>1, <1>4, <2>4, <3>1 DEF RxAck
    <3> HIDE DEF c
    <3>4. Settles(IF w.inv[u].state = "CONNECTING" THEN Confirm(e, u) ELSE e)
      BY <2>1, <2>2, <3>1, <3>2, AckCloses
    <3>5. QED
      BY <3>3, <3>4
  <2>5. QED
    BY <2>3, <2>4
<1>5. QED
  BY <1>3, <1>4

-----------------------------------------------------------------------------
(* The actions of the network *)

\* A handler leads to a world in which the invariant holds.
Onward == \E v : Settles(v) /\ Becomes(v)

\* The world before an action that concerns a transaction.
LEMMA LiveWorld ==
  ASSUME IInv, EndInv(World), DealInv(World), ~Parted(World), Len(World.tsx) > 0
  PROVE  Live(World)
<1>1. Runs(World)
  BY Running
<1>2. Len(World.tsx) # 0
  BY <1>1, SoundParts DEF Runs, Begun
<1>3. QED
  BY <1>1, <1>2 DEF DealInv, Live

\* A provisional response.
LEMMA ProgressOnward ==
  ASSUME Live(World), NEW t \in Indices(World), NEW choice, Progress(t, choice)
  PROVE  Onward
<1>1. /\ World.tsx[t].server = "proceeding" /\ World.tsx[t].client = "calling"
      /\ Becomes(OnProgress(World, t, choice))
  BY WorldIs DEF Progress, Waits
<1>2. Settles(OnProgress(World, t, choice))
  BY <1>1, OnProgressSettles
<1>3. QED
  BY <1>1, <1>2 DEF Onward

\* A final response.
LEMMA FinalOnward ==
  ASSUME Patient, Live(World), NEW t \in Indices(World), NEW choice, Final(t, choice)
  PROVE  Onward
<1> DEFINE code == tsx[t].status
           ok   == OnInviteOk(World, t, choice)
           no   == OnInviteFailure(World, t, "completed", code)
           upd  == OnUpdate(World, t, "completed", code, tsx[t].body, choice)
           bye  == OnBye(World, t, code)
           can  == OnCancel(World, t, code)
<1>1. /\ World.tsx[t] = tsx[t] /\ World.tsx[t].client = "calling" /\ choice # "decline"
      /\ code = World.tsx[t].status /\ code >= 200
  BY WorldIs DEF Final, Waits
<1>2. /\ code \in Nat /\ tsx[t].body \in Nat
      /\ tsx[t].method \in {"INVITE", "UPDATE", "CANCEL"}
  BY <1>1, LiveParts
<1>3. Becomes(CASE tsx[t].method = "INVITE" -> IF code < 300 THEN ok ELSE no
                [] tsx[t].method = "UPDATE" -> upd
                [] tsx[t].method = "BYE"    -> bye
                [] OTHER                    -> can)
  BY DEF Final
<1>4. "completed" \in {"calling", "completed", "terminated"} /\ "completed" # "calling"
  OBVIOUS
<1>5. CASE tsx[t].method = "INVITE" /\ code < 300
  <2>1. World.tsx[t].method = "INVITE" /\ World.tsx[t].status \in 200..299
    <3>1. World.tsx[t].status = code /\ World.tsx[t].method = "INVITE"
      BY <1>1, <1>5
    <3>2. code \in Nat /\ code >= 200 /\ code < 300
      BY <1>1, <1>2, <1>5
    <3> HIDE DEF code
    <3>3. code \in 200..299
      BY <3>2
    <3>4. QED
      BY <3>1, <3>3
  <2>2. Settles(ok)
    BY <1>1, <2>1, OnInviteOkSettles
  <2>3. Becomes(ok)
    BY <1>3, <1>5
  <2> HIDE DEF ok
  <2>4. QED
    BY <2>2, <2>3 DEF Onward
<1>6. CASE tsx[t].method = "INVITE" /\ ~(code < 300)
  <2>1. World.tsx[t].method = "INVITE" /\ World.tsx[t].status >= 300
    <3>1. World.tsx[t].status = code /\ World.tsx[t].method = "INVITE"
      BY <1>1, <1>6
    <3>2. code \in Nat /\ ~(code < 300)
      BY <1>2, <1>6
    <3> HIDE DEF code
    <3>3. code >= 300
      BY <3>2
    <3>4. QED
      BY <3>1, <3>3
  <2>2. Becomes(no)
    BY <1>3, <1>6
  <2> HIDE DEF code
  <2>3. Settles(no)
    BY <1>1, <1>2, <1>4, <2>1, OnInviteFailureSettles
  <2> HIDE DEF no
  <2>4. QED
    BY <2>2, <2>3 DEF Onward
<1>7. CASE tsx[t].method = "UPDATE"
  <2>1. World.tsx[t].method = "UPDATE" /\ tsx[t].body = World.tsx[t].body
    BY <1>1, <1>7
  <2>2. Becomes(upd)
    BY <1>3, <1>7
  <2> HIDE DEF code
  <2>3. Settles(upd)
    BY <1>1, <1>2, <1>4, <2>1, OnUpdateSettles
  <2> HIDE DEF upd
  <2>4. QED
    BY <2>2, <2>3 DEF Onward
<1>8. CASE tsx[t].method = "CANCEL"
  <2>1. World.tsx[t].method = "CANCEL"
    BY <1>1, <1>8
  <2>2. Becomes(can)
    BY <1>3, <1>8
  <2> HIDE DEF code
  <2>3. Settles(can)
    BY <1>1, <1>2, <2>1, OnCancelSettles
  <2> HIDE DEF can
  <2>4. QED
    BY <2>2, <2>3 DEF Onward
<1>9. QED
  BY <1>2, <1>5, <1>6, <1>7, <1>8

\* Timers D and K.
LEMMA ClientEndsOnward ==
  ASSUME ~LateTimers, Live(World), NEW t \in Indices(World), ClientEnds(t)
  PROVE  Onward
<1> DEFINE code == tsx[t].code
           no   == OnInviteFailure(World, t, "terminated", code)
           upd  == OnUpdate(World, t, "terminated", code, 0, "decline")
<1>1. Becomes(IF tsx[t].method = "INVITE" THEN no ELSE upd)
  BY DEF ClientEnds
<1>2. /\ World.tsx[t] = tsx[t] /\ World.tsx[t].client = "completed"
      /\ World.neg[World.tsx[t].from].state # "LOCAL_OFFER"
  BY WorldIs DEF ClientEnds
<1>3. code \in Nat /\ 0 \in Nat /\ tsx[t].method \in {"INVITE", "UPDATE", "CANCEL"}
  BY <1>2, LiveParts
<1>4. "terminated" \in {"calling", "completed", "terminated"} /\ "terminated" # "calling"
  OBVIOUS
<1> HIDE DEF code
<1>5. CASE tsx[t].method = "INVITE"
  <2>1. World.tsx[t].method = "INVITE"
    BY <1>2, <1>5
  <2>2. Settles(no)
    BY <1>2, <1>3, <1>4, <2>1, OnInviteFailureSettles
  <2>3. Becomes(no)
    BY <1>1, <1>5
  <2> HIDE DEF no
  <2>4. QED
    BY <2>2, <2>3 DEF Onward
<1>6. CASE tsx[t].method = "UPDATE"
  <2>1. World.tsx[t].method = "UPDATE"
    BY <1>2, <1>6
  <2>2. Settles(upd)
    BY <1>2, <1>3, <1>4, <2>1, OnUpdateSettles
  <2>3. Becomes(upd)
    BY <1>1, <1>6
  <2> HIDE DEF upd
  <2>4. QED
    BY <2>2, <2>3 DEF Onward
<1>7. CASE tsx[t].method = "CANCEL"
  <2> DEFINE u == Client(World, t)
             v == ClientEnters(World, t, "terminated", code)
  <2>1. /\ Sound(World) /\ u \in Ends /\ u = World.tsx[t].from
        /\ World.neg[u].state # "LOCAL_OFFER"
    BY <1>2, LiveParts
  <2>2. Little(World, v) /\ Sound(v)
    BY <1>2, <1>3, <1>4, TurnLittle
  <2>3. v.neg = World.neg
    BY <1>3, <1>4, <2>1, EnterFrame
  <2> HIDE DEF v
  <2>4. Settles(v)
    BY <2>2, LittleSettles
  <2>5. Settles(UnlessLost(v, u, t, v))
    BY <2>1, <2>2, <2>4, UnlessLostSettles
  <2>6. UpdateResponse(v, t, 0, "decline") = v
    <3>1. Client(v, t) = u
      <4>1. v.tsx[t].from = World.tsx[t].from
        BY <2>2 DEF Little, Minor
      <4>2. QED
        BY <4>1 DEF Client
    <3> HIDE DEF u
    <3>2. QED
      BY <2>1, <2>3, <3>1 DEF UpdateResponse
  <2>7. upd = v \/ upd = UnlessLost(v, u, t, v)
    BY <2>6 DEF OnUpdate, v
  <2>8. Becomes(upd)
    BY <1>1, <1>7
  <2> HIDE DEF upd, u
  <2>9. QED
    BY <2>4, <2>5, <2>7, <2>8 DEF Onward
<1>8. QED
  BY <1>3, <1>5, <1>6, <1>7

\* The server of a transaction is done, and it mattered to no offer.
LEMMA ServerDoneLittle ==
  ASSUME NEW w, Live(w), NEW t \in Indices(w), NEW u, Server(w, t) = u,
         NEW x, Frame(w, x, {}, {t}), x.neg = w.neg, x.inv = w.inv, x.acks = w.acks,
         NEW e, ServerDone(x, e, u, t), Minor(w, e, t)
  PROVE  Little(w, e)
<1>1. Runs(w) /\ u \in Ends /\ w.tsx[t].from = Peer(u)
  BY LiveParts DEF Live
<1>2. Frame(w, e, {u}, {t})
  <2>1. Frame(w, x, {u}, {t})
    BY FrameWider
  <2>2. Frame(x, e, {u}, {t})
    BY DEF ServerDone
  <2>3. QED
    BY <2>1, <2>2, FrameTrans
<1>3. e.tsx[t].server = "terminated"
  <2>1. x.tsx[t] \in Transactions(Nat, Nat)
    <3>1. Sound(x) /\ t \in Indices(x)
      BY DEF Frame, Indices
    <3>2. QED
      BY <3>1, SoundParts DEF Indices
  <2>2. QED
    BY <2>1 DEF ServerDone, Twin, Transactions
<1>4. Idle(w, e, u)
  BY <1>1, <1>3 DEF ServerDone, Idle, Unoffered, Remembers
<1>5. QED
  BY <1>1, <1>2, <1>4, FrameLittle DEF ServerDone

\* A request is refused, and nobody waits for what follows.
LEMMA RefusedEndsSettles ==
  ASSUME NEW w, Live(w), NEW t \in Indices(w), t # 1, w.tsx[t].server = "none",
         NEW status \in Nat, status >= 300
  PROVE  Settles(ServerEnds(SendResponse(w, t, status, 0), t))
<1> DEFINE u == Server(w, t)
           x == SendResponse(w, t, status, 0)
           e == Forget([x EXCEPT !.tsx[t].server = "terminated"], u, t)
<1>1. u \in Ends /\ Sound(w) /\ 0 \in Nat /\ w.tsx[t].body = 0
  BY LiveParts
<1>2. Sends(w, x, t, status, 0)
  BY <1>1, SendsSame
<1> HIDE DEF x
<1>3. /\ Frame(w, x, {}, {t}) /\ x.neg = w.neg /\ x.inv = w.inv /\ x.acks = w.acks
      /\ Sound(x) /\ t \in Indices(x) /\ x.tsx[t].from = w.tsx[t].from
  BY <1>2 DEF Sends, Frame, Indices
<1>4. ServerEnds(x, t) = e
  <2>1. Server(x, t) = u
    BY <1>3 DEF Server
  <2>2. QED
    BY <2>1 DEF ServerEnds
<1>5. ServerDone(x, e, u, t)
  BY <1>1, <1>3, EndsFrame
<1> HIDE DEF e
<1>6. Minor(w, e, t)
  <2>1. x.tsx[t] \in Transactions(Nat, Nat)
    BY <1>3, SoundParts DEF Indices
  <2>2. QED
    BY <1>1, <1>2, <1>5, <2>1, ZenonT(60) DEF Minor, Sends, ServerDone, Frame, Twin, Transactions
<1>7. Little(w, e)
  BY <1>3, <1>5, <1>6, ServerDoneLittle
<1>8. QED
  BY <1>4, <1>7, LittleSettles DEF x

\* The server of an INVITE is done, after a refusal or a call that goes on.
LEMMA ServerEndsSettles ==
  ASSUME NEW w, Live(w), NEW t \in Indices(w), w.tsx[t].server = "completed",
         t = 1 => w.inv["callee"].state # "CONNECTING"
  PROVE  Settles(ServerEnds(w, t))
<1> DEFINE u == Server(w, t)
           e == Forget([w EXCEPT !.tsx[t].server = "terminated"], u, t)
<1>1. u \in Ends /\ Sound(w)
  BY LiveParts
<1>2. ServerEnds(w, t) = e
  BY DEF ServerEnds
<1>3. ServerDone(w, e, u, t)
  BY <1>1, EndsFrame
<1> HIDE DEF e
<1>4. Minor(w, e, t)
  <2>1. w.tsx[t] \in Transactions(Nat, Nat)
    BY <1>1, SoundParts DEF Indices
  <2>2. QED
    BY <1>3, <2>1 DEF Minor, ServerDone, Frame, Twin, Transactions
<1>5. Little(w, e)
  <2>1. Frame(w, w, {}, {t})
    BY <1>1, FrameRefl
  <2>2. QED
    BY <1>3, <1>4, <2>1, ServerDoneLittle
<1>6. QED
  BY <1>2, <1>5, LittleSettles

\* No ACK comes.
LEMMA OnNoAckSettles ==
  ASSUME NEW w, Live(w), NEW t \in Indices(w), w.tsx[t].server = "completed"
  PROVE  Settles(OnNoAck(w, t))
<1> DEFINE u == Server(w, t)
           b == SendBye(w, u)
           e == Forget([b EXCEPT !.tsx[t].server = "terminated"], u, t)
<1>1. u \in Ends /\ Sound(w) /\ Runs(w) /\ Dealing(w)
  BY LiveParts DEF Live
<1>2. CASE w.inv[u].state = "CONNECTING" /\ w.inv[u].invite_tsx = t
  <2>1. OnNoAck(w, t) = ServerEnds(b, t)
    BY <1>2 DEF OnNoAck
  <2>2. Sound(b) /\ Parted(b)
    BY <1>1, ByeParts
  <2>3. t \in Indices(b) /\ b.tsx[t].from = w.tsx[t].from
    <3>1. 0 \in Nat /\ 0 \in 0..Len(w.tsx) /\ "BYE" \in {"INVITE", "UPDATE", "BYE", "CANCEL"}
      BY <1>1, SoundParts
    <3>2. Adds(w, SendRequest(w, u, "BYE", 0, 0), u, "BYE", 0)
      BY <1>1, <3>1, RequestAdds
    <3>3. Adds(w, b, u, "BYE", 0)
      BY <3>2 DEF SendBye
    <3> HIDE DEF b, u
    <3>4. QED
      BY <1>1, <3>3, SoundParts DEF Adds, Indices
  <2>4. ServerEnds(b, t) = e
    <3> HIDE DEF b
    <3>1. Server(b, t) = u
      BY <2>3 DEF Server
    <3>2. QED
      BY <3>1 DEF ServerEnds
  <2> HIDE DEF b
  <2>5. ServerDone(b, e, u, t)
    BY <1>1, <2>2, <2>3, EndsFrame
  <2> HIDE DEF e
  <2>6. Sound(e) /\ Parted(e)
    BY <2>2, <2>5 DEF ServerDone, Frame, Parted, Indices
  <2>7. QED
    BY <2>1, <2>4, <2>6 DEF Settles
<1>3. CASE ~(w.inv[u].state = "CONNECTING" /\ w.inv[u].invite_tsx = t)
  <2>1. OnNoAck(w, t) = ServerEnds(w, t)
    BY <1>3 DEF OnNoAck
  <2>2. t = 1 => w.inv["callee"].state # "CONNECTING"
    <3>1. t = 1 => u = "callee"
      BY <1>1, Basics DEF Server
    <3>2. w.inv["callee"].state = "CONNECTING" => w.inv["callee"].invite_tsx = 1
      BY <1>1 DEF Dealing, Connecting, Ends
    <3>3. QED
      BY <1>3, <3>1, <3>2
  <2>3. QED
    BY <2>1, <2>2, ServerEndsSettles
<1>4. QED
  BY <1>2, <1>3

\* A refusal is acknowledged.
LEMMA ReceiveNackOnward ==
  ASSUME Live(World), NEW t \in Indices(World), ReceiveNack(t)
  PROVE  Onward
<1>1. /\ World.tsx[t].server = "completed" /\ World.tsx[t].status >= 300
      /\ Becomes(ServerEnds(World, t))
  BY WorldIs DEF ReceiveNack
<1>2. t = 1 => World.inv["callee"].state # "CONNECTING"
  <2>1. World.tsx[t].status \in Nat
    BY LiveParts
  <2>2. World.inv["callee"].state = "CONNECTING" => World.tsx[1].status < 300
    BY DEF Live, Dealing, Connecting, Ends
  <2>3. QED
    BY <1>1, <2>1, <2>2
<1>3. Settles(ServerEnds(World, t))
  BY <1>1, <1>2, ServerEndsSettles
<1>4. QED
  BY <1>1, <1>3 DEF Onward

\* No ACK comes.
LEMMA NoAckOnward ==
  ASSUME Live(World), NEW t \in Indices(World), NoAck(t)
  PROVE  Onward
<1>1. World.tsx[t].server = "completed" /\ Becomes(OnNoAck(World, t))
  BY WorldIs DEF NoAck
<1>2. Settles(OnNoAck(World, t))
  BY <1>1, OnNoAckSettles
<1>3. QED
  BY <1>1, <1>2 DEF Onward

\* A 2xx response comes again.
LEMMA AgainOnward ==
  ASSUME Live(World), NEW t \in Indices(World), Again(t)
  PROVE  Onward
<1> DEFINE u == World.tsx[t].from
<1>1. /\ u \in Ends /\ Runs(World) /\ Dealing(World) /\ Sound(World) /\ t \in Nat
  BY LiveParts DEF Live
<1>2. /\ World.tsx[t].method = "INVITE" /\ World.tsx[t].server = "completed"
      /\ World.tsx[t].status = 200 /\ World.tsx[t].client = "terminated"
      /\ World.inv[u].invite_tsx = 0 /\ Becomes(SendAck(World, t, "answer"))
  BY WorldIs DEF Again
<1>3. World.inv[u].state \in {"CONFIRMED", "DISCONNECTED"}
  <2>1. CASE t # 1
    BY <1>2, <2>1, LiveParts
  <2>2. CASE t = 1
    <3>1. u = "caller" /\ World.tsx[1].client = "terminated" /\ Len(World.tsx) > 0
      BY <1>1, <1>2, <2>2, Basics DEF Runs, Begun
    <3>2. World.inv["caller"].state \notin {"NULL", "INCOMING", "CALLING", "EARLY"}
      BY <1>1, <3>1, SoundParts DEF Runs, Begun, Course
    <3>3. World.inv["caller"].state # "CONNECTING"
      BY <1>1 DEF Dealing, Connecting, Ends
    <3>4. World.inv["caller"].state \in States
      <4>1. World.inv["caller"] \in Sessions(Nat, Nat)
        BY <1>1, <3>1, SoundParts
      <4>2. QED
        BY <4>1 DEF Sessions
    <3>5. QED
      BY <3>1, <3>2, <3>3, <3>4 DEF States
  <2>3. QED
    BY <2>1, <2>2
<1> HIDE DEF u
<1>4. PICK v : /\ Acks(World, v, u, t, "answer")
               /\ SendAck(World, t, "answer") = AckSent(v, u)
  <2>1. World.tsx[t].from = u /\ World.inv[u].invite_tsx \in {0, t}
    BY <1>2 DEF u
  <2>2. QED
    BY <1>1, <2>1, SendAckDoes
<1>5. SendAck(World, t, "answer") = v
  <2>1. v.inv[u].state = World.inv[u].state
    BY <1>4 DEF Acks
  <2>2. QED
    BY <1>3, <1>4, <2>1 DEF AckSent
<1>6. ~HasLocalAnswer(World.neg[u])
  <2>1. World.neg[u].state \in {"DONE", "LOCAL_OFFER", "NULL"}
    BY <1>1, <1>3 DEF Dealing, Steady, Notes
  <2>2. QED
    BY <2>1 DEF HasLocalAnswer
<1>7. Moves(World, v, u, t) /\ Sound(v)
  <2>1. /\ Frame(World, v, {u}, {t}) /\ v.tsx = World.tsx
    BY <1>2, <1>4 DEF Acks
  <2>2. \A s \in Indices(World) : World.tsx[s].server = "none" =>
                                    World.tsx[s].body = 0 /\ ~World.tsx[s].answered
    BY <1>1 DEF Dealing, Requests
  <2>3. Moves(World, v, u, t)
    BY <1>1, <2>1, <2>2, FrameMoves DEF SameServer, SameClient
  <2>4. QED
    BY <2>1, <2>3 DEF Frame
<1>8. Repeats(World, v, u, t)
  <2>1. /\ v.tsx = World.tsx /\ Len(v.tsx) = Len(World.tsx)
        /\ \A i \in Indices(World) : Twin(World.tsx[i], v.tsx[i])
    BY <1>2, <1>4 DEF Acks, Frame, Twin
  <2>2. /\ v.neg = World.neg /\ SameDeal(World.neg[u], v.neg[u])
        /\ v.inv[u].last_ack = IF World.inv[u].last_ack_cseq = t THEN World.inv[u].last_ack
                                                                 ELSE 0
    BY <1>4, <1>6 DEF Acks, SameDeal
  <2>3. World.tsx[t].from = u
    BY DEF u
  <2>4. QED
    BY <1>2, <1>4, <2>1, <2>2, <2>3 DEF Repeats, Acks
<1>9. Settles(v)
  <2>1. Dealing(v)
    BY <1>1, <1>7, <1>8, RepeatsDealing
  <2>2. QED
    BY <1>7, <2>1 DEF Settles
<1>10. QED
  BY <1>2, <1>5, <1>9 DEF Onward

\* ACKs are taken out of the network.
Pulls(w, v) ==
    /\ Frame(w, v, {}, {}) /\ v.tsx = w.tsx /\ v.neg = w.neg /\ v.inv = w.inv
    /\ v.acks \subseteq w.acks

\* So they are when only some of them are left in the world.
LEMMA PullsAcks ==
  ASSUME NEW w, Sound(w), NEW A, A \subseteq w.acks
  PROVE  Pulls(w, [w EXCEPT !.acks = A])
<1> DEFINE v == [w EXCEPT !.acks = A]
<1>1. /\ A \in SUBSET [t : Nat, sdp : Nat] /\ \A a \in A : a.t \in 1..Len(w.tsx)
      /\ v.acks = A
  <2>1. w \in Worlds /\ w.acks \in SUBSET [t : Nat, sdp : Nat]
    BY SoundParts DEF Worlds
  <2>2. \A a \in w.acks : a.t \in 1..Len(w.tsx)
    BY DEF Sound, Typed
  <2>3. QED
    BY <2>1, <2>2 DEF Worlds
<1>2. Tame(w, v) /\ v.inv = w.inv /\ v.tsx = w.tsx /\ v.neg = w.neg
  BY <1>1, PutAcksTame
<1> HIDE DEF v
<1>3. Frame(w, v, {}, {})
  BY <1>2 DEF Tame, Frame, SameSession, SameDeal, Twin
<1>4. Pulls(w, v)
  BY <1>1, <1>2, <1>3 DEF Pulls
<1>5. QED
  BY <1>4 DEF v

\* An ACK is lost.
LEMMA LoseAckDeals ==
  ASSUME Live(World), NEW ack \in acks, LoseAck(ack)
  PROVE  DealInv(World')
<1> DEFINE v == [World EXCEPT !.acks = World.acks \ {ack}]
<1>1. World' = v
  BY DEF LoseAck, World
<1>2. Sound(World) /\ Runs(World) /\ Len(World.tsx) > 0 /\ Len(World.tsx) \in Nat
  BY SoundParts DEF Live, Runs, Begun
<1>3. Pulls(World, v)
  <2>1. World.acks \ {ack} \subseteq World.acks
    OBVIOUS
  <2>2. QED
    BY <1>2, <2>1, PullsAcks
<1> HIDE DEF v
<1>4. Little(World, v) /\ v.tsx = World.tsx
  BY <1>2, <1>3, FrameLittle DEF Pulls
<1>5. Settles(v)
  BY <1>4, LittleSettles
<1>6. QED
  BY <1>1, <1>2, <1>4, <1>5 DEF Settles, DealInv

\* The ACK for a 2xx response.
LEMMA ReceiveAckOnward ==
  ASSUME Live(World), NEW ack \in acks, NEW choice, ReceiveAck(ack, choice)
  PROVE  Onward
<1> DEFINE t == ack.t
           u == Server(World, t)
           y == [World EXCEPT !.acks = World.acks \ {ack}]
           x == [y EXCEPT !.inv[u].remote_cseq = t]
           v == RxAck(x, t, ack.sdp, choice)
<1>1. /\ Sound(World) /\ ack \in World.acks /\ t \in Indices(World)
      /\ t \in Nat /\ u \in Ends
  <2>1. ack \in World.acks
    BY WorldIs
  <2>2. t \in Indices(World)
    BY <2>1 DEF Live, Dealing, Accepted
  <2>3. QED
    BY <2>1, <2>2, LiveParts
<1>2. ack.sdp \in Nat
  <2>1. World \in Worlds
    BY <1>1, SoundParts
  <2>2. QED
    BY <1>1, <2>1 DEF Worlds
<1>3. Pulls(World, y)
  <2>1. World.acks \ {ack} \subseteq World.acks
    OBVIOUS
  <2>2. QED
    BY <1>1, <2>1, PullsAcks
<1>4. ASSUME y.inv = World.inv
      PROVE  Becomes(v)
  <2>1. [World EXCEPT !.acks = @ \ {ack}, !.inv[u].remote_cseq = ack.t] = x
    BY <1>4
  <2>2. Becomes(RxAck([World EXCEPT !.acks = @ \ {ack}, !.inv[u].remote_cseq = ack.t],
                      ack.t, ack.sdp, choice))
    BY DEF ReceiveAck
  <2> HIDE DEF u, x
  <2>3. QED
    BY <2>1, <2>2
<1>5. Becomes(v)
  BY <1>3, <1>4 DEF Pulls
<1>6. Server(World, t) = u
  OBVIOUS
<1> HIDE DEF y, t, u
<1>7. Sits(y, x, u) /\ SameSession(y.inv[u], x.inv[u])
  <2>1. Sound(y) /\ TRUE \in BOOLEAN
    BY <1>3 DEF Frame, Pulls
  <2>2. QED
    BY <1>1, <2>1, NotesSits
<1> HIDE DEF x
<1>8. /\ Frame(World, x, {}, {}) /\ x.tsx = World.tsx /\ x.neg = World.neg
      /\ x.acks \subseteq World.acks
  <2>1. Frame(y, x, {}, {})
    BY <1>7, SitsFrame
  <2>2. Frame(World, x, {}, {})
    BY <1>3, <2>1, FrameTrans DEF Pulls
  <2>3. QED
    BY <1>3, <1>7, <2>2 DEF Sits, Pulls
<1>9. Settles(v)
  <2>1. t = ack.t
    BY DEF t
  <2>2. QED
    BY <1>1, <1>2, <1>6, <1>8, <2>1, RxAckSettles
<1> HIDE DEF v
<1>10. QED
  BY <1>5, <1>9 DEF Onward

\* Timers B and F, and the timeout of an INVITE that is cancelled.
LEMMA TimeoutOnward ==
  ASSUME Live(World), NEW t \in Indices(World), Timeout(t)
  PROVE  Onward
<1> DEFINE no  == OnInviteFailure(World, t, "terminated", 408)
           upd == OnUpdate(World, t, "terminated", 408, 0, "decline")
           bye == OnBye(World, t, 408)
           can == OnCancel(World, t, 408)
<1>1. Becomes(CASE tsx[t].method = "INVITE" -> no
                [] tsx[t].method = "UPDATE" -> upd
                [] tsx[t].method = "BYE"    -> bye
                [] OTHER                    -> can)
  BY DEF Timeout
<1>2. World.tsx[t] = tsx[t] /\ World.tsx[t].client = "calling"
  BY WorldIs DEF Timeout, Waits
<1>3. 0 \in Nat /\ tsx[t].method \in {"INVITE", "UPDATE", "CANCEL"}
  BY <1>2, LiveParts
<1>4. "terminated" \in {"calling", "completed", "terminated"} /\ "terminated" # "calling"
  OBVIOUS
<1>5. PICK code \in Nat : code = 408
  OBVIOUS
<1>6. CASE tsx[t].method = "INVITE"
  <2>1. World.tsx[t].method = "INVITE"
    BY <1>2, <1>6
  <2>2. Settles(OnInviteFailure(World, t, "terminated", code))
    BY <1>2, <1>4, <1>5, <2>1, OnInviteFailureSettles
  <2>3. Becomes(no)
    BY <1>1, <1>6
  <2>4. Settles(no)
    BY <1>5, <2>2
  <2> HIDE DEF no
  <2>5. QED
    BY <2>3, <2>4 DEF Onward
<1>7. CASE tsx[t].method = "UPDATE"
  <2>1. World.tsx[t].method = "UPDATE"
    BY <1>2, <1>7
  <2>2. Settles(OnUpdate(World, t, "terminated", code, 0, "decline"))
    BY <1>2, <1>3, <1>4, <1>5, <2>1, OnUpdateSettles
  <2>3. Becomes(upd)
    BY <1>1, <1>7
  <2>4. Settles(upd)
    BY <1>5, <2>2
  <2> HIDE DEF upd
  <2>5. QED
    BY <2>3, <2>4 DEF Onward
<1>8. CASE tsx[t].method = "CANCEL"
  <2>1. World.tsx[t].method = "CANCEL"
    BY <1>2, <1>8
  <2>2. Settles(OnCancel(World, t, code))
    BY <1>2, <2>1, OnCancelSettles
  <2>3. Becomes(can)
    BY <1>1, <1>8
  <2>4. Settles(can)
    BY <1>5, <2>2
  <2> HIDE DEF can
  <2>5. QED
    BY <2>3, <2>4 DEF Onward
<1>9. QED
  BY <1>3, <1>6, <1>7, <1>8

\* An end notes something that no offer rests on.
LEMMA NotedLive ==
  ASSUME NEW w, Live(w), NEW v, Frame(w, v, {}, {}), v.tsx = w.tsx, v.acks = w.acks, Runs(v)
  PROVE  Live(v)
<1>1. Runs(w)
  BY DEF Live
<1>2. Little(w, v)
  BY <1>1, FrameLittle
<1>3. Settles(v)
  BY <1>2, LittleSettles
<1>4. ~Parted(v)
  BY DEF Live, Parted, Indices
<1>5. QED
  BY <1>3, <1>4 DEF Settles, Live

\* A request that others overtook is not the first one.
LEMMA OvertakenFirst ==
  ASSUME NEW w, Sound(w), Ending(w), Received(w), NEW t \in Indices(w),
         w.tsx[t].server = "none", t <= w.inv[Server(w, t)].remote_cseq
  PROVE  t # 1
<1> DEFINE u == Server(w, t)
           r == w.inv[u].remote_cseq
<1>1. u \in Ends /\ t \in Nat /\ t >= 1
  BY EndingParts DEF Indices
<1>2. r \in Nat /\ r # 0
  <2>1. w.inv[u] \in Sessions(Nat, Nat)
    BY <1>1, SoundParts
  <2>2. r \in Nat
    BY <2>1 DEF Sessions
  <2>3. t <= r
    OBVIOUS
  <2> HIDE DEF r
  <2>4. QED
    BY <1>1, <2>2, <2>3
<1>3. r \in Indices(w) /\ w.tsx[r].server # "none"
  BY <1>1, <1>2 DEF Received
<1>4. SUFFICES ASSUME t = 1
               PROVE  FALSE
  OBVIOUS
<1>5. Len(w.tsx) > 1
  <2>1. Len(w.tsx) \in Nat /\ r \in 1..Len(w.tsx) /\ r # 1
    BY <1>3, <1>4, SoundParts DEF Indices
  <2> HIDE DEF r
  <2>2. QED
    BY <2>1
<1>6. QED
  BY <1>4, <1>5 DEF Ending, First

\* A request that the dialog gives to the session, once its CSeq is noted.
LEMMA NotesLive ==
  ASSUME NEW w, Live(w), NEW u \in Ends, NEW k \in Nat
  PROVE  Live([w EXCEPT !.inv[u].remote_cseq = k])
<1> DEFINE v == [w EXCEPT !.inv[u].remote_cseq = k]
<1>1. Sound(w) /\ Begun(w) /\ Ending(w)
  BY DEF Live, Runs, Begun
<1>2. /\ Tame(w, v) /\ v.tsx = w.tsx /\ v.acks = w.acks
      /\ \A e \in Ends : v.inv[e].state = w.inv[e].state
  BY <1>1, CSeqTame
<1>3. Sits(w, v, u) /\ SameSession(w.inv[u], v.inv[u])
  <2>1. TRUE \in BOOLEAN
    OBVIOUS
  <2>2. QED
    BY <1>1, <2>1, NotesSits
<1> HIDE DEF v
<1>4. Frame(w, v, {}, {})
  BY <1>3, SitsFrame
<1>5. Runs(v)
  <2>1. Begun(v)
    BY <1>1, <1>2, TameFollows DEF Follows
  <2>2. Ending(v)
    <3>1. /\ Len(v.tsx) = Len(w.tsx)
          /\ \A e \in Ends : v.inv[e].state = w.inv[e].state
          /\ \A i \in Indices(w) : Alike(w.tsx[i], v.tsx[i])
      BY <1>2 DEF Alike
    <3>2. QED
      BY <1>1, <3>1, SameEnding
  <2>3. QED
    BY <2>1, <2>2 DEF Runs
<1>6. Live(v)
  BY <1>2, <1>4, <1>5, NotedLive
<1>7. QED
  BY <1>6 DEF v

\* pjsip_dlg_on_rx_request.
LEMMA ReceiveOnward ==
  ASSUME Live(World), Received(World), NEW t \in Indices(World), NEW choice,
         Receive(t, choice)
  PROVE  Onward
<1> DEFINE u    == Server(World, t)
           cseq == IF tsx[t].method = "CANCEL" THEN tsx[t].of ELSE t
           w    == [World EXCEPT !.inv[u].remote_cseq = cseq]
           late == ServerEnds(SendResponse(World, t, 500, 0), t)
           gone == ServerEnds(SendResponse(World, t, 481, 0), t)
           x    == RxRequest(w, t, choice)
<1>1. /\ Sound(World) /\ Ending(World) /\ u \in Ends /\ t \in Nat
      /\ World.tsx[t].of \in Nat
  <2>1. Sound(World) /\ u \in Ends /\ t \in Nat
    BY LiveParts
  <2>2. World.tsx[t] \in Transactions(Nat, Nat)
    BY <2>1, SoundParts DEF Indices
  <2>3. QED
    BY <2>1, <2>2 DEF Live, Runs, Transactions
<1>2. /\ World.tsx[t].server = "none" /\ World.tsx[t].client = "calling"
      /\ World.tsx[t] = tsx[t] /\ cseq \in Nat
  BY <1>1, WorldIs DEF Receive, Waits
<1>3. \/ Becomes(late) /\ t <= World.inv[u].remote_cseq
      \/ Becomes(x)
      \/ Becomes(gone) /\ World.inv[u].state = "DISCONNECTED"
  BY WorldIs DEF Receive, MayBeGone
<1>4. CASE Becomes(late) /\ t <= World.inv[u].remote_cseq
  <2>1. t # 1
    BY <1>1, <1>2, <1>4, OvertakenFirst
  <2>2. PICK status \in Nat : status = 500
    OBVIOUS
  <2>3. status >= 300
    BY <2>2
  <2>4. Settles(ServerEnds(SendResponse(World, t, status, 0), t))
    BY <1>2, <2>1, <2>3, RefusedEndsSettles
  <2>5. Settles(late)
    BY <2>2, <2>4
  <2> HIDE DEF late
  <2>6. QED
    BY <1>4, <2>5 DEF Onward
<1>5. CASE Becomes(gone) /\ World.inv[u].state = "DISCONNECTED"
  <2>1. t # 1
    <3>1. t = 1 => u = "callee"
      BY <1>1, EndingParts
    <3>2. QED
      BY <1>1, <1>2, <1>5, <3>1 DEF Ending, First
  <2>2. PICK status \in Nat : status = 481
    OBVIOUS
  <2>3. status >= 300
    BY <2>2
  <2>4. Settles(ServerEnds(SendResponse(World, t, status, 0), t))
    BY <1>2, <2>1, <2>3, RefusedEndsSettles
  <2>5. Settles(gone)
    BY <2>2, <2>4
  <2> HIDE DEF gone
  <2>6. QED
    BY <1>5, <2>5 DEF Onward
<1>6. CASE Becomes(x)
  <2> HIDE DEF cseq, u
  <2>1. Live(w)
    BY <1>1, <1>2, NotesLive
  <2>2. w.tsx = World.tsx
    BY <1>1, <1>2, CSeqTame
  <2> HIDE DEF w
  <2>3. /\ t \in Indices(w) /\ w.tsx[t].server = "none" /\ w.tsx[t].client = "calling"
    BY <1>2, <2>2 DEF Indices
  <2>4. Settles(x)
    BY <2>1, <2>3, RxRequestSettles
  <2> HIDE DEF x
  <2>5. QED
    BY <1>6, <2>4 DEF Onward
<1>7. QED
  BY <1>3, <1>4, <1>5, <1>6

-----------------------------------------------------------------------------
(* The actions of the application *)

\* The end u makes an offer of its own.
Makes(w, v, u, sdp) ==
    LET n == w.neg[u]
        m == v.neg[u]
    IN  /\ Deals(w, v, u) /\ m.state = "LOCAL_OFFER" /\ m.local.sdp = sdp
        /\ m.active_local.sdp = n.active_local.sdp /\ m.active_remote.sdp = n.active_remote.sdp
        /\ m.has_remote_answer = n.has_remote_answer

\* LocalOffer does that.
LEMMA MakesOffer ==
  ASSUME NEW w, Sound(w), NEW u \in Ends, NEW k \in Nat, NEW sdp \in Nat,
         NEW pool \in {"long", w.inv[u].prov}
  PROVE  Makes(w, [w EXCEPT !.sdps = k, !.neg[u] = LocalOffer(@, sdp, pool)], u, sdp)
<1> DEFINE n == w.neg[u]
           m == LocalOffer(n, sdp, pool)
           y == [w EXCEPT !.neg[u] = m]
           v == [y EXCEPT !.sdps = k]
<1>1. /\ n \in Negotiators(Nat) /\ Fits(n, w.inv[u].prov) /\ w.inv[u].prov \in {"A", "B"}
      /\ w \in Worlds
  BY SoundParts
<1>2. m \in Negotiators(Nat) /\ Fits(m, w.inv[u].prov)
  BY <1>1, NegotiatorFits
<1>3. /\ m.state = "LOCAL_OFFER" /\ m.local.sdp = sdp
      /\ m.has_remote_answer = n.has_remote_answer
      /\ m.active_local = n.active_local /\ m.active_remote = n.active_remote
  BY <1>1 DEF LocalOffer, Negotiators, Copy
<1>4. [w EXCEPT !.sdps = k, !.neg[u] = LocalOffer(@, sdp, pool)] = v
  BY <1>1 DEF Worlds
<1> HIDE DEF m
<1>5. Deals(w, y, u) /\ y.neg[u] = m
  BY <1>2, NegDeals
<1> HIDE DEF y
<1>6. Deals(w, v, u) /\ v.neg = y.neg
  BY <1>5, SdpsDeals
<1> HIDE DEF v
<1>7. Makes(w, v, u, sdp)
  BY <1>3, <1>5, <1>6 DEF Makes
<1>8. QED
  BY <1>4, <1>7

\* ... as the callee may before its first response.
LEMMA OfferedMakes ==
  ASSUME NEW w, Sound(w)
  PROVE  Makes(w, Offered(w, "callee"), "callee", w.sdps + 1)
<1> DEFINE k == w.sdps + 1
           o == Offered(w, "callee")
<1>1. o = [w EXCEPT !.sdps = k, !.neg["callee"] = LocalOffer(@, k, "long")]
  BY DEF Offered
<1>2. k \in Nat /\ "long" \in {"long", w.inv["callee"].prov} /\ "callee" \in Ends
  BY SoundParts DEF Ends
<1> HIDE DEF k, o
<1>3. Makes(w, [w EXCEPT !.sdps = k, !.neg["callee"] = LocalOffer(@, k, "long")], "callee", k)
  BY <1>2, MakesOffer
<1>4. Makes(w, o, "callee", k)
  BY <1>1, <1>3
<1>5. QED
  BY <1>4 DEF k, o

\* What the application of the callee gives.
Gives(w, v) ==
    LET n == w.neg["callee"]
        m == v.neg["callee"]
    IN  /\ Deals(w, v, "callee") /\ ~m.has_remote_answer
        /\ \/ SameDeal(n, m)
           \/ /\ n.state = "REMOTE_OFFER" /\ m.state = "WAIT_NEGO"
              /\ m.local.sdp # 0 /\ m.remote.sdp = n.remote.sdp
           \/ /\ n.state = "NULL" /\ m.state = "LOCAL_OFFER" /\ m.local.sdp # 0
              /\ m.active_local.sdp = n.active_local.sdp
              /\ m.active_remote.sdp = n.active_remote.sdp

\* Doing nothing does that, and so do an answer to the offer and an offer.
LEMMA GivesDoes ==
  ASSUME NEW w, Sound(w), ~w.neg["callee"].has_remote_answer
  PROVE  /\ Gives(w, w)
         /\ w.neg["callee"].state = "REMOTE_OFFER" => Gives(w, AnswerOffer(w, "callee"))
         /\ w.neg["callee"].state = "NULL" => Gives(w, Offered(w, "callee"))
<1> DEFINE a == AnswerOffer(w, "callee")
           o == Offered(w, "callee")
<1>1. "callee" \in Ends /\ w.sdps \in Nat /\ w.sdps + 1 \in Nat /\ w.sdps + 1 # 0
  BY SoundParts DEF Ends
<1>2. Gives(w, w)
  BY FrameRefl DEF Gives, Deals, SameSession, SameDeal
<1>3. /\ Deals(w, a, "callee")
      /\ a.neg["callee"].state = "WAIT_NEGO" /\ a.neg["callee"].local.sdp = w.sdps + 1
      /\ a.neg["callee"].remote = w.neg["callee"].remote
      /\ a.neg["callee"].has_remote_answer = w.neg["callee"].has_remote_answer
  BY <1>1, AnswerDeals
<1> HIDE DEF a
<1>4. w.neg["callee"].state = "REMOTE_OFFER" => Gives(w, a)
  BY <1>1, <1>3 DEF Gives
<1>5. Makes(w, o, "callee", w.sdps + 1)
  BY OfferedMakes
<1> HIDE DEF o
<1>6. w.neg["callee"].state = "NULL" => Gives(w, o)
  BY <1>1, <1>5 DEF Makes, Gives
<1>7. QED
  BY <1>2, <1>4, <1>6 DEF a, o

\* The callee rings, or accepts the call.
LEMMA RepliesSettles ==
  ASSUME NEW w, Live(w), w.inv["callee"].state \in {"INCOMING", "EARLY"},
         NEW v, Gives(w, v), NEW status \in Nat, status < 300, NEW s,
         \/ status < 200 /\ s = "EARLY"
         \/ /\ status >= 200 /\ s = "CONNECTING"
            /\ v.neg["callee"].state \notin {"NULL", "REMOTE_OFFER"}
  PROVE  Settles(SetState(Accept(v, 1, status), "callee", s))
<1> DEFINE u == "callee"
           r == Respond(v, 1, status, TRUE)
           z == SetState(r, u, s)
           n == w.neg["callee"]
           m == v.neg["callee"]
           x == w.tsx[1]
<1>1. /\ Runs(w) /\ Dealing(w) /\ Sound(w) /\ u \in Ends /\ 1 \in Indices(w)
      /\ x.method = "INVITE" /\ x.from = "caller" /\ Server(w, 1) = u
  <2>1. 1 \in Indices(w) /\ x.method = "INVITE" /\ x.from = "caller"
    BY Basics DEF Live
  <2>2. QED
    BY <2>1, LiveParts DEF Live, Server, Peer, Ends
<1>2. /\ w.inv[u].invite_tsx = 1 /\ x.server = "proceeding"
  BY <1>1 DEF Runs, Begun, Course
<1>3. /\ Frame(w, v, {u}, {}) /\ v.acks = w.acks /\ v.tsx = w.tsx
      /\ SameSession(w.inv[u], v.inv[u]) /\ Sound(v) /\ 1 \in Indices(v)
      /\ Server(v, 1) = u /\ v.tsx[1].method = "INVITE"
  BY <1>1 DEF Gives, Deals, Frame, Indices, Server
<1>4. HasReplied(v, r, u, 1, status, TRUE)
  <2>1. TRUE \in BOOLEAN /\ (~TRUE => status >= 200)
    OBVIOUS
  <2>2. QED
    BY <1>3, <2>1, RespondDoes
<1>5. Accept(v, 1, status) = r
  BY DEF Accept
<1> HIDE DEF r
<1>6. Sound(r) /\ s \in States
  BY <1>4 DEF HasReplied, Frame, States
<1>7. /\ Sits(r, z, u) /\ z.inv[u].state = s
      /\ z.inv[u].invite_tsx = r.inv[u].invite_tsx
      /\ z.inv[u].last_ack_cseq = r.inv[u].last_ack_cseq
      /\ z.inv[u].last_ack = r.inv[u].last_ack
  BY <1>1, <1>6, StateSits
<1> HIDE DEF z
<1>8. Frame(w, z, {u}, {1})
  <2>1. Frame(w, v, {u}, {1}) /\ Frame(r, z, {u}, {1})
    BY <1>3, <1>7, FrameWider DEF Sits
  <2>2. Frame(v, r, {u}, {1})
    BY <1>4 DEF HasReplied
  <2>3. Frame(w, r, {u}, {1})
    BY <2>1, <2>2, FrameTrans
  <2>4. QED
    BY <2>1, <2>3, FrameTrans
<1>9. /\ SameClient(x, z.tsx[1]) /\ z.tsx[1].sdp = x.sdp /\ z.tsx[1].status = status
      /\ z.tsx[1].server = (IF status < 200 THEN "proceeding" ELSE "completed")
      /\ z.neg = r.neg /\ z.acks = w.acks
  BY <1>3, <1>4, <1>7 DEF Sits, HasReplied
<1>10. Moves(w, z, u, 1) /\ Sound(z) /\ Len(z.tsx) = Len(w.tsx)
  <2>1. /\ z.tsx[1].server # "none" /\ SameClient(w.tsx[1], z.tsx[1])
        /\ z.tsx[1].sdp = w.tsx[1].sdp /\ 1 \in Indices(w) /\ Server(w, 1) = u
    BY <1>1, <1>9
  <2> HIDE DEF u, x, n, m
  <2>2. QED
    BY <1>8, <2>1, ServerMoves
<1>11. CalleeRings(w) /\ ~n.has_remote_answer
  BY <1>1 DEF Dealing, Notes
<1>12. /\ ~r.neg[u].has_remote_answer
       /\ \/ SameDeal(n, r.neg[u]) /\ z.tsx[1].body = x.body /\ z.tsx[1].answered = x.answered
             /\ r.neg[u].state = m.state
          \/ /\ n.state = "REMOTE_OFFER" /\ r.neg[u].state = "DONE" /\ z.tsx[1].answered
             /\ z.tsx[1].body # 0 /\ r.neg[u].active_local.sdp = z.tsx[1].body
             /\ r.neg[u].active_remote.sdp = n.remote.sdp
          \/ /\ n.state = "NULL" /\ r.neg[u].state = "LOCAL_OFFER"
             /\ z.tsx[1].answered = x.answered
             /\ r.neg[u].local.sdp = z.tsx[1].body /\ z.tsx[1].body # 0
             /\ r.neg[u].active_local.sdp = n.active_local.sdp
             /\ r.neg[u].active_remote.sdp = n.active_remote.sdp
  <2>1. z.tsx = r.tsx
    BY <1>7 DEF Sits
  <2>2. CASE SameDeal(n, m)
    <3>1. n.state # "WAIT_NEGO" /\ (n.state = "LOCAL_OFFER" => x.body = n.local.sdp)
      BY <1>11 DEF CalleeRings
    <3>2. ~HasLocalAnswer(m)
      BY <2>2, <3>1 DEF HasLocalAnswer, SameDeal
    <3>3. /\ r.neg[u] = m /\ r.tsx[1].answered = x.answered
          /\ r.tsx[1].body = IF m.state = "LOCAL_OFFER" THEN m.local.sdp ELSE x.body
      BY <1>3, <1>4, <3>2 DEF HasReplied
    <3>4. QED
      BY <1>11, <2>1, <2>2, <3>1, <3>3 DEF SameDeal
  <2>3. CASE /\ n.state = "REMOTE_OFFER" /\ m.state = "WAIT_NEGO"
             /\ m.local.sdp # 0 /\ m.remote.sdp = n.remote.sdp
    <3>1. HasLocalAnswer(m)
      BY <2>3 DEF HasLocalAnswer, Gives
    <3>2. /\ Done(v, r, u, m.local.sdp, m.remote.sdp)
          /\ r.tsx[1].body = m.local.sdp /\ r.tsx[1].answered
      BY <1>4, <3>1 DEF HasReplied
    <3>3. QED
      BY <2>1, <2>3, <3>2 DEF Done
  <2>4. CASE /\ n.state = "NULL" /\ m.state = "LOCAL_OFFER" /\ m.local.sdp # 0
             /\ m.active_local.sdp = n.active_local.sdp
             /\ m.active_remote.sdp = n.active_remote.sdp
    <3>1. ~HasLocalAnswer(m)
      BY <2>4 DEF HasLocalAnswer
    <3>2. r.neg[u] = m /\ r.tsx[1].answered = x.answered /\ r.tsx[1].body = m.local.sdp
      BY <1>3, <1>4, <2>4, <3>1 DEF HasReplied
    <3>3. QED
      BY <2>1, <2>4, <3>2 DEF Gives
  <2>5. QED
    BY <2>2, <2>3, <2>4 DEF Gives
<1>13. status >= 200 => r.neg[u].state \in {"DONE", "LOCAL_OFFER"}
  <2>1. n.state \in {"REMOTE_OFFER", "NULL", "DONE", "LOCAL_OFFER"}
    BY <1>11 DEF CalleeRings
  <2>2. status >= 200 => m.state \notin {"NULL", "REMOTE_OFFER"}
    OBVIOUS
  <2>3. QED
    BY <1>12, <2>1, <2>2 DEF SameDeal
<1>14. /\ z.inv[u].invite_tsx = 1 /\ z.inv[u].last_ack_cseq = w.inv[u].last_ack_cseq
  BY <1>2, <1>3, <1>4, <1>7 DEF HasReplied, SameSession
<1>15. \/ z.inv[u].state = "EARLY" /\ z.tsx[1].server = "proceeding"
       \/ /\ z.inv[u].state = "CONNECTING" /\ z.tsx[1].server = "completed"
          /\ z.neg[u].state \in {"DONE", "LOCAL_OFFER"}
  BY <1>7, <1>9, <1>13
<1>16. Replies(w, z)
  BY <1>9, <1>10, <1>12, <1>14, <1>15 DEF Replies
<1>17. Dealing(z)
  BY <1>1, <1>10, <1>16, RepliesDealing
<1>18. QED
  BY <1>5, <1>10, <1>17 DEF Settles, z

\* pjsip_inv_answer.
LEMMA AnswerOnward ==
  ASSUME Live(World), NEW status \in {183, 200, 486}, NEW give \in BOOLEAN,
         Answer(status, give)
  PROVE  Onward
<1> DEFINE t     == inv["callee"].invite_tsx
           state == neg["callee"].state
           given == IF ~give THEN World
                    ELSE IF state = "REMOTE_OFFER"
                         THEN AnswerOffer(World, "callee") ELSE Offered(World, "callee")
           x     == SendResponse(World, 1, 486, 0)
<1>1. /\ World.inv["callee"].state \in {"INCOMING", "EARLY"} /\ state = World.neg["callee"].state
      /\ Sound(World) /\ Runs(World) /\ Dealing(World)
  BY WorldIs DEF Answer, Live, Runs, Begun
<1>2. t = 1
  BY <1>1, WorldIs DEF Runs, Begun, Course
<1>3. Becomes(CASE status = 183 -> SetState(Accept(given, t, 183), "callee", "EARLY")
                [] status = 200 -> SetState(Accept(given, t, 200), "callee", "CONNECTING")
                [] OTHER        -> Disconnect(SendResponse(World, t, status, 0), "callee"))
  BY DEF Answer, Offered, Accept
<1>4. /\ give => state \in {"NULL", "REMOTE_OFFER"}
      /\ status = 200 /\ state \in {"NULL", "REMOTE_OFFER"} => give
  BY DEF Answer
<1>5. Gives(World, given)
  <2>1. ~World.neg["callee"].has_remote_answer
    BY <1>1 DEF Dealing, Notes, Ends
  <2>2. /\ Gives(World, World)
        /\ state = "REMOTE_OFFER" => Gives(World, AnswerOffer(World, "callee"))
        /\ state = "NULL" => Gives(World, Offered(World, "callee"))
    BY <1>1, <2>1, GivesDoes
  <2> HIDE DEF state
  <2>3. QED
    BY <1>4, <2>2
<1>6. status = 200 => given.neg["callee"].state \notin {"NULL", "REMOTE_OFFER"}
  <2>1. SUFFICES ASSUME status = 200
                 PROVE  given.neg["callee"].state \notin {"NULL", "REMOTE_OFFER"}
    OBVIOUS
  <2>2. CASE state = "REMOTE_OFFER"
    <3>1. given = AnswerOffer(World, "callee")
      BY <1>4, <2>1, <2>2
    <3>2. "callee" \in Ends
      BY DEF Ends
    <3> HIDE DEF given
    <3>3. AnswerOffer(World, "callee").neg["callee"].state = "WAIT_NEGO"
      BY <1>1, <3>2, AnswerDeals
    <3>4. QED
      BY <3>1, <3>3
  <2>3. CASE state = "NULL"
    <3>1. given = Offered(World, "callee")
      BY <1>4, <2>1, <2>3
    <3> HIDE DEF given
    <3>2. Makes(World, Offered(World, "callee"), "callee", World.sdps + 1)
      BY <1>1, OfferedMakes
    <3>3. QED
      BY <3>1, <3>2 DEF Makes
  <2>4. CASE state \notin {"NULL", "REMOTE_OFFER"}
    <3>1. given = World
      BY <1>4, <2>4
    <3>2. QED
      BY <1>1, <2>4, <3>1
  <2>5. QED
    BY <2>2, <2>3, <2>4
<1> HIDE DEF given, t, state
<1>7. CASE status = 183
  <2>1. Becomes(SetState(Accept(given, 1, status), "callee", "EARLY"))
    BY <1>2, <1>3, <1>7
  <2>2. PICK s : s = "EARLY"
    OBVIOUS
  <2>3. status \in Nat /\ status < 300 /\ status < 200
    BY <1>7
  <2>4. Settles(SetState(Accept(given, 1, status), "callee", s))
    BY <1>1, <1>5, <2>2, <2>3, RepliesSettles
  <2>5. QED
    BY <2>1, <2>2, <2>4 DEF Onward
<1>8. CASE status = 200
  <2>1. Becomes(SetState(Accept(given, 1, status), "callee", "CONNECTING"))
    BY <1>2, <1>3, <1>8
  <2>2. PICK s : s = "CONNECTING"
    OBVIOUS
  <2>3. status \in Nat /\ status < 300 /\ status >= 200
    BY <1>8
  <2>4. Settles(SetState(Accept(given, 1, status), "callee", s))
    BY <1>1, <1>5, <1>6, <1>8, <2>2, <2>3, RepliesSettles
  <2>5. QED
    BY <2>1, <2>2, <2>4 DEF Onward
<1>9. CASE status = 486
  <2>1. Becomes(Disconnect(x, "callee"))
    BY <1>2, <1>3, <1>9
  <2>2. /\ 1 \in Indices(World) /\ "callee" \in Ends /\ World.tsx[1].from = "caller"
        /\ World.tsx[1].method = "INVITE"
    BY <1>1, Basics DEF Ends
  <2>3. Sends(World, x, 1, 486, 0)
    <3>1. 486 \in Nat /\ 0 \in Nat
      OBVIOUS
    <3>2. QED
      BY <1>1, <2>2, <3>1, SendsSame
  <2> HIDE DEF x
  <2>4. /\ Frame(World, x, {"callee"}, {1}) /\ x.acks = World.acks /\ x.tsx[1].status >= 300
    <3>1. Frame(World, x, {}, {1}) /\ x.tsx[1].status = 486 /\ x.acks = World.acks
      BY <2>3 DEF Sends
    <3>2. Frame(World, x, {"callee"}, {1})
      BY <3>1, FrameWider
    <3>3. QED
      BY <3>1, <3>2
  <2>5. \A s \in Indices(World) \cap {1} :
           /\ s = 1 \/ World.tsx[s].method = "CANCEL"
           /\ x.tsx[s].sdp = World.tsx[s].sdp
           /\ x.tsx[s].client = "calling" => World.tsx[s].client = "calling"
           /\ x.tsx[s].server = "none" => x.tsx[s].body = 0 /\ ~x.tsx[s].answered
           /\ World.tsx[s].method # "CANCEL" =>
                 IF World.tsx[s].from = "callee" THEN SameServer(World.tsx[s], x.tsx[s])
                                              ELSE SameClient(World.tsx[s], x.tsx[s])
    BY <2>2, <2>3 DEF Sends, SameClient
  <2>6. World.inv["callee"].state \in {"CALLING", "INCOMING", "EARLY"}
    BY <1>1
  <2>7. Settles(Disconnect(x, "callee"))
    BY <2>2, <2>4, <2>5, <2>6, LeavesSettles, ZenonT(60)
  <2>8. QED
    BY <2>1, <2>7 DEF Onward
<1>10. QED
  BY <1>7, <1>8, <1>9

\* pjsip_inv_end_session.
LEMMA EndSessionOnward ==
  ASSUME Live(World), NEW u \in Ends, EndSession(u)
  PROVE  Onward
<1> DEFINE w == [World EXCEPT !.inv[u].hungup = TRUE]
           p == [w EXCEPT !.inv[u].pending_cancel = TRUE]
<1>1. Sound(World) /\ Runs(World) /\ Dealing(World) /\ TRUE \in BOOLEAN /\ 0 \in Nat
  BY DEF Live, Runs, Begun
<1>2. CASE /\ inv[u].state \in {"CALLING", "EARLY"} /\ u = "caller"
           /\ Becomes(IF tsx[inv[u].invite_tsx].code < 100 THEN p ELSE SendCancel(w, u))
  <2>1. Sits(World, w, u) /\ SameSession(World.inv[u], w.inv[u])
    BY <1>1, NotesSits
  <2> HIDE DEF w
  <2>2. Frame(World, w, {}, {}) /\ w.neg = World.neg /\ w.acks = World.acks /\ Sound(w)
    <3>1. Frame(World, w, {}, {})
      BY <2>1, SitsFrame
    <3>2. QED
      BY <2>1, <3>1 DEF Sits, Frame
  <2>3. Sits(w, p, u) /\ SameSession(w.inv[u], p.inv[u])
    BY <1>1, <2>2, NotesSits
  <2> HIDE DEF p
  <2>4. CASE tsx[inv[u].invite_tsx].code < 100
    <3>1. Frame(w, p, {}, {})
      BY <2>3, SitsFrame
    <3>2. Frame(World, p, {}, {})
      BY <2>2, <3>1, FrameTrans
    <3>3. p.acks \subseteq World.acks
      BY <2>2, <2>3 DEF Sits
    <3>4. Little(World, p)
      BY <1>1, <3>2, <3>3, FrameLittle
    <3>5. Settles(p)
      BY <3>4, LittleSettles
    <3>6. QED
      BY <1>2, <2>4, <3>5 DEF Onward
  <2>5. CASE ~(tsx[inv[u].invite_tsx].code < 100)
    <3>1. World.inv["caller"].invite_tsx = 1
      BY <1>1, <1>2, WorldIs DEF Runs, Begun, Course
    <3>2. Notices(World, SendCancel(w, "caller"))
      BY <2>2, <3>1, CancelsNotices
    <3>3. Settles(SendCancel(w, "caller"))
      BY <3>2, LittleSettles DEF Notices
    <3>4. QED
      BY <1>2, <2>5, <3>3 DEF Onward
  <2>6. QED
    BY <2>4, <2>5
<1>3. CASE Becomes(SendBye(World, u))
  <2>1. Settles(SendBye(World, u))
    BY <1>1, ByeParts DEF Settles
  <2>2. QED
    BY <1>3, <2>1 DEF Onward
<1>4. QED
  BY <1>2, <1>3 DEF EndSession

\* An end that waited sends an offer, or asks for one.
LEMMA OffersSettles ==
  ASSUME NEW w, Live(w), NEW u \in Ends, w.inv[u].state = "CONFIRMED",
         w.inv[u].invite_tsx = 0, w.neg[u].state = "DONE", \A s : ~Open(w, s, u),
         NEW made, NEW sdp \in Nat, NEW method \in {"INVITE", "UPDATE"},
         \/ Makes(w, made, u, sdp) /\ sdp # 0
         \/ made = w /\ sdp = 0 /\ method = "INVITE"
  PROVE  Settles(SendRequest(made, u, method, sdp, 0))
<1> DEFINE t == Len(w.tsx) + 1
           v == SendRequest(made, u, method, sdp, 0)
<1>1. /\ Runs(w) /\ Dealing(w) /\ Sound(w) /\ ~w.neg[u].has_remote_answer
      /\ Len(w.tsx) \in Nat
  BY SoundParts DEF Live, Dealing, Notes, Runs, Begun
<1>2. /\ Deals(w, made, u) /\ ~made.neg[u].has_remote_answer
      /\ made.neg[u].active_local.sdp = w.neg[u].active_local.sdp
      /\ made.neg[u].active_remote.sdp = w.neg[u].active_remote.sdp
      /\ \/ sdp # 0 /\ made.neg[u].state = "LOCAL_OFFER" /\ made.neg[u].local.sdp = sdp
         \/ sdp = 0 /\ made.neg[u].state = "DONE" /\ method = "INVITE"
  <2>1. Deals(w, w, u)
    BY <1>1, FrameRefl DEF Deals, SameSession
  <2>2. QED
    BY <1>1, <2>1 DEF Makes
<1>3. /\ Frame(w, made, {u}, {}) /\ made.acks = w.acks /\ made.tsx = w.tsx
      /\ SameSession(w.inv[u], made.inv[u]) /\ Sound(made)
  BY <1>2 DEF Deals, Frame
<1>4. Adds(made, v, u, method, sdp)
  <2>1. 0 \in 0..Len(made.tsx) /\ method # "CANCEL"
        /\ method \in {"INVITE", "UPDATE", "BYE", "CANCEL"}
    BY <1>1, <1>3
  <2>2. QED
    BY <1>3, <2>1, RequestAdds
<1> HIDE DEF v
<1>5. Moves(w, v, u, t)
  <2> HIDE DEF t
  <2>1. Moves(w, made, u, t)
    BY <1>1, <1>3, FrameMoves
  <2>2. QED
    BY <1>1, <1>4, <2>1, MovesAdds
<1>6. /\ t \in Indices(v) /\ Sound(v) /\ \A s \in Indices(v) : s \in Indices(w) \/ s = t
      /\ v.tsx[t].method = method /\ v.tsx[t].sdp = sdp /\ v.neg = made.neg
      /\ v.acks = w.acks
  <2>1. Len(v.tsx) = Len(w.tsx) + 1 /\ Len(made.tsx) = Len(w.tsx)
    BY <1>3, <1>4 DEF Adds
  <2>2. \A s \in Indices(v) : s \in Indices(w) \/ s = t
    BY <1>1, <2>1 DEF Indices
  <2>3. QED
    BY <1>3, <1>4, <2>1, <2>2 DEF Adds
<1>7. /\ v.inv[u].state = "CONFIRMED" /\ v.inv[u].last_ack_cseq = w.inv[u].last_ack_cseq
      /\ v.inv[u].last_ack = w.inv[u].last_ack
      /\ v.inv[u].invite_tsx = IF method = "INVITE" THEN t ELSE 0
  BY <1>3, <1>4 DEF Adds, SameSession
<1>8. Offers(w, v, u, t)
  <2>1. t = Len(w.tsx) + 1
    OBVIOUS
  <2> HIDE DEF t
  <2>2. QED
    BY <1>2, <1>6, <1>7, <2>1 DEF Offers
<1>9. Dealing(v)
  <2> HIDE DEF t
  <2>1. QED
    BY <1>1, <1>5, <1>8, OffersDealing
<1>10. Settles(v)
  BY <1>6, <1>9 DEF Settles
<1>11. QED
  BY <1>10 DEF v

\* An end that waits has no request that is not answered.
LEMMA WaitsFor ==
  ASSUME Patient, Live(World), NEW u \in Ends, MayOffer(u)
  PROVE  /\ World.inv[u].invite_tsx = 0 /\ World.neg[u].state = "DONE"
         /\ \A s : ~Open(World, s, u)
<1>1. /\ World.inv[u].invite_tsx = 0 /\ World.neg[u].state = "DONE"
      /\ \A s \in 1..Len(World.tsx) : World.tsx[s].from = u => World.tsx[s].client = "terminated"
  BY WorldIs DEF MayOffer
<1>2. QED
  BY <1>1 DEF Open, Indices

\* pjsip_inv_reinvite.
LEMMA ReinviteOnward ==
  ASSUME Patient, Live(World), NEW u \in Ends, NEW offer \in BOOLEAN, Reinvite(u, offer)
  PROVE  Onward
<1> DEFINE w     == World
           state == neg[u].state
           next  == w.sdps + 1
           pool  == inv[u].prov
           fresh == [w EXCEPT !.sdps = next, !.neg[u] = LocalOffer(@, next, pool)]
           made  == IF ~offer \/ state \in {"LOCAL_OFFER", "WAIT_NEGO"} THEN w
                    ELSE IF state = "REMOTE_OFFER" THEN AnswerOffer(w, u) ELSE fresh
           n     == made.neg[u]
           sdp   == IF n.state = "LOCAL_OFFER" \/ HasLocalAnswer(n) THEN n.local.sdp ELSE 0
           v     == SendRequest(made, u, "INVITE", sdp, 0)
<1>1. Becomes(v) /\ MayOffer(u)
  BY DEF Reinvite
<1>2. /\ World.inv[u].state = "CONFIRMED" /\ Sound(World)
      /\ World.inv[u].invite_tsx = 0 /\ World.neg[u].state = "DONE"
      /\ \A s : ~Open(World, s, u)
  BY <1>1, WaitsFor, WorldIs DEF Reinvite, Live, Runs, Begun
<1>3. state = "DONE"
  BY <1>2, WorldIs
<1>4. /\ next \in Nat /\ next # 0 /\ pool \in {"long", World.inv[u].prov}
  BY <1>2, WorldIs, SoundParts
<1> HIDE DEF next, pool
<1>5. Makes(World, fresh, u, next)
  BY <1>2, <1>4, MakesOffer
<1> HIDE DEF fresh
<1>6. made = IF offer THEN fresh ELSE World
  BY <1>3
<1> HIDE DEF made, state
<1>7. \/ Makes(World, made, u, sdp) /\ sdp # 0
      \/ made = World /\ sdp = 0
  <2>1. CASE offer
    <3>1. made = fresh /\ made.neg[u].state = "LOCAL_OFFER" /\ made.neg[u].local.sdp = next
      BY <1>5, <1>6, <2>1 DEF Makes
    <3>2. sdp = next
      BY <3>1
    <3> HIDE DEF sdp
    <3>3. QED
      BY <1>4, <1>5, <3>1, <3>2
  <2>2. CASE ~offer
    BY <1>2, <1>6, <2>2 DEF HasLocalAnswer
  <2>3. QED
    BY <2>1, <2>2
<1>8. sdp \in Nat /\ "INVITE" \in {"INVITE", "UPDATE"}
  <2>1. Sound(made)
    BY <1>2, <1>7 DEF Makes, Deals, Frame
  <2>2. QED
    BY <2>1, SoundParts
<1> HIDE DEF sdp
<1>9. PICK method \in {"INVITE", "UPDATE"} : method = "INVITE"
  OBVIOUS
<1>10. Settles(SendRequest(made, u, method, sdp, 0))
  BY <1>2, <1>7, <1>8, <1>9, OffersSettles
<1>11. QED
  BY <1>1, <1>9, <1>10 DEF Onward

\* pjsip_inv_update.  An end that waits is past the first INVITE.
LEMMA UpdateOnward ==
  ASSUME Patient, ~Refresh, Live(World), NEW u \in Ends, NEW offer \in BOOLEAN,
         Update(u, offer)
  PROVE  Onward
<1> DEFINE next == World.sdps + 1
           pool == World.inv[u].prov
           made == [World EXCEPT !.sdps = next, !.neg[u] = LocalOffer(@, next, pool)]
           v    == SendRequest(made, u, "UPDATE", next, 0)
<1>1. Becomes(v) /\ MayOffer(u)
  BY DEF Update
<1>2. /\ World.inv[u].state \in {"EARLY", "CONNECTING", "CONFIRMED"}
      /\ World.inv[u].invite_tsx = 0 /\ World.neg[u].state = "DONE"
      /\ \A s : ~Open(World, s, u)
  BY <1>1, WaitsFor, WorldIs DEF Update
<1>3. Sound(World) /\ Course(World) /\ Dealing(World)
  BY DEF Live, Runs, Begun
<1>4. World.inv[u].state = "CONFIRMED"
  BY <1>2, <1>3 DEF Course, Dealing, Connecting, Ends
<1>5. next \in Nat /\ next # 0 /\ pool \in {"long", World.inv[u].prov}
  BY <1>3, SoundParts
<1> HIDE DEF next, pool
<1>6. Makes(World, made, u, next)
  BY <1>3, <1>5, MakesOffer
<1> HIDE DEF made
<1>7. PICK method \in {"INVITE", "UPDATE"} : method = "UPDATE"
  OBVIOUS
<1>8. Settles(SendRequest(made, u, method, next, 0))
  BY <1>2, <1>4, <1>5, <1>6, <1>7, OffersSettles
<1>9. QED
  BY <1>1, <1>7, <1>8 DEF Onward

\* The first INVITE is sent.
LEMMA FirstSettles ==
  ASSUME NEW w, Sound(w), Len(w.tsx) = 0, w.acks = {},
         \A u \in Ends : w.inv[u] = NoSession /\ w.neg[u] = NoNegotiator,
         NEW made, made = w \/ Makes(w, made, "caller", 1),
         NEW sdp \in Nat, sdp = made.neg["caller"].local.sdp
  PROVE  LET x == SetState(SendRequest(made, "caller", "INVITE", sdp, 0), "caller", "CALLING")
         IN  Settles(x) /\ Len(x.tsx) > 0
<1> DEFINE r == SendRequest(made, "caller", "INVITE", sdp, 0)
           x == SetState(r, "caller", "CALLING")
<1>1. /\ "caller" \in Ends /\ "callee" \in Ends /\ "caller" # "callee"
      /\ Ends = {"caller", "callee"} /\ Peer("caller") = "callee" /\ Peer("callee") = "caller"
  BY DEF Ends, Peer
<1>2. /\ NoSession.state = "NULL" /\ NoSession.last_ack_cseq = 0 /\ NoSession.invite_tsx = 0
      /\ NoNegotiator.state = "NULL" /\ ~NoNegotiator.has_remote_answer
      /\ NoNegotiator.local.sdp = 0
      /\ NoNegotiator.active_local.sdp = 0 /\ NoNegotiator.active_remote.sdp = 0
  BY DEF NoSession, NoNegotiator, NoCopy, Copy
<1>3. Deals(w, made, "caller")
  <2>1. Deals(w, w, "caller")
    BY FrameRefl DEF Deals, SameSession
  <2>2. QED
    BY <2>1 DEF Makes
<1>4. /\ Sound(made) /\ Len(made.tsx) = 0 /\ made.acks = {}
      /\ \A u \in Ends : made.inv[u].last_ack_cseq = 0
      /\ made.inv["callee"].state = "NULL"
      /\ made.neg["callee"].state = "NULL" /\ ~made.neg["callee"].has_remote_answer
      /\ made.neg["callee"].active_local.sdp = 0 /\ made.neg["callee"].active_remote.sdp = 0
  BY <1>1, <1>2, <1>3 DEF Deals, Frame, SameSession, SameDeal
<1>5. LET m == made.neg["caller"]
      IN  /\ ~m.has_remote_answer /\ m.active_local.sdp = 0 /\ m.active_remote.sdp = 0
          /\ \/ m.state = "LOCAL_OFFER" /\ m.local.sdp = sdp /\ sdp # 0
             \/ m.state = "NULL" /\ sdp = 0
  BY <1>1, <1>2 DEF Makes
<1>6. Adds(made, r, "caller", "INVITE", sdp)
  <2>1. 0 \in 0..Len(made.tsx) /\ "INVITE" \in {"INVITE", "UPDATE", "BYE", "CANCEL"}
        /\ "INVITE" # "CANCEL"
    BY <1>4
  <2>2. QED
    BY <1>1, <1>4, <2>1, RequestAdds
<1> HIDE DEF r
<1>7. /\ Sound(r) /\ Len(r.tsx) = 1 /\ r.neg = made.neg /\ r.acks = {}
      /\ Fresh(r.tsx[1], "caller") /\ r.tsx[1].method = "INVITE" /\ r.tsx[1].sdp = sdp
      /\ r.inv["callee"] = made.inv["callee"] /\ r.inv["caller"].last_ack_cseq = 0
      /\ r.inv["caller"].invite_tsx = 1
  <2>1. Len(made.tsx) + 1 = 1
    BY <1>4
  <2>2. QED
    BY <1>1, <1>4, <1>6, <2>1 DEF Adds
<1>8. /\ Sits(r, x, "caller") /\ x.inv["caller"].state = "CALLING"
      /\ x.inv["caller"].invite_tsx = r.inv["caller"].invite_tsx
      /\ x.inv["caller"].last_ack_cseq = r.inv["caller"].last_ack_cseq
      /\ x.inv["caller"].last_ack = r.inv["caller"].last_ack
  <2>1. "CALLING" \in States
    BY DEF States
  <2>2. QED
    BY <1>1, <1>7, <2>1, StateSits
<1> HIDE DEF x
<1>9. /\ Sound(x) /\ Len(x.tsx) = 1 /\ x.neg = made.neg /\ x.acks = {} /\ x.tsx = r.tsx
      /\ Indices(x) = {1} /\ x.inv["callee"].state = "NULL"
      /\ \A u \in Ends : x.inv[u].last_ack_cseq = 0
      /\ Fresh(x.tsx[1], "caller") /\ x.tsx[1].method = "INVITE" /\ x.tsx[1].sdp = sdp
  <2>1. Sound(x) /\ x.neg = made.neg /\ x.acks = {} /\ x.tsx = r.tsx
        /\ SameSession(r.inv["callee"], x.inv["callee"])
    BY <1>1, <1>7, <1>8 DEF Sits, Frame
  <2>2. Len(x.tsx) = 1 /\ Indices(x) = {1}
    <3>1. Len(x.tsx) = 1
      BY <1>7, <2>1
    <3>2. Indices(x) = 1..1
      BY <3>1 DEF Indices
    <3>3. QED
      BY <3>1, <3>2
  <2>3. x.inv["callee"].state = "NULL" /\ x.inv["callee"].last_ack_cseq = 0
    BY <1>1, <1>4, <1>7, <1>8 DEF Sits, Frame, SameSession
  <2>4. x.inv["caller"].last_ack_cseq = 0
    BY <1>7, <1>8
  <2>5. \A u \in Ends : x.inv[u].last_ack_cseq = 0
    BY <1>1, <2>3, <2>4
  <2>6. Fresh(x.tsx[1], "caller") /\ x.tsx[1].method = "INVITE" /\ x.tsx[1].sdp = sdp
    BY <1>7, <2>1
  <2>7. QED
    BY <2>1, <2>2, <2>3, <2>5, <2>6
<1>10. /\ x.inv["caller"].state = "CALLING" /\ x.inv["caller"].invite_tsx = 1
       /\ x.tsx[1].server = "none" /\ x.tsx[1].body = 0 /\ ~x.tsx[1].answered
       /\ ~x.tsx[1].done /\ x.tsx[1].from = "caller" /\ x.tsx[1].status = 0
  BY <1>7, <1>8, <1>9 DEF Fresh
<1>11. Notes(x) /\ Accepted(x) /\ Requests(x) /\ Connecting(x) /\ Unheard(x)
  BY <1>1, <1>4, <1>5, <1>9, <1>10 DEF Notes, Accepted, Requests, Connecting, Unheard
<1>12. CallerRings(x)
  BY <1>5, <1>9, <1>10 DEF CallerRings
<1>13. Agreed(x)
  <2>1. Matched(x)
    BY <1>4, <1>5, <1>9 DEF Matched
  <2>2. \A u \in Ends : \A t : ~Carried(x, t, u) /\ ~Serving(x, t, u)
    BY <1>9, <1>10 DEF Carried, Open, Serving
  <2>3. \A u \in Ends : ~Due(x, u)
    BY <2>2 DEF Due, Acked, Asked
  <2>4. \A u \in Ends, t \in Indices(x) : Rests(x, t, u)
    BY <1>9, <1>10, <2>2 DEF Rests, Acked, Asked
  <2>5. QED
    BY <1>1, <2>1, <2>3, <2>4 DEF Agreed
<1>14. Dealing(x)
  BY <1>1, <1>9, <1>10, <1>11, <1>12, <1>13 DEF Dealing
<1>15. Settles(x) /\ Len(x.tsx) > 0
  <2>1. Sound(x) /\ Len(x.tsx) = 1
    BY <1>9
  <2>2. QED
    BY <1>14, <2>1 DEF Settles
<1>16. QED
  BY <1>15, ZenonT(60) DEF x, r

\* pjsip_inv_create_uac and pjsip_inv_invite.
LEMMA InviteDeals ==
  ASSUME IInv, IInv', DealInv(World), NEW offer \in BOOLEAN, Invite(offer)
  PROVE  DealInv(World')
<1> DEFINE fresh == [World EXCEPT !.sdps = 1, !.neg["caller"] = LocalOffer(@, 1, "long")]
           made == IF offer THEN fresh ELSE World
           sdp  == made.neg["caller"].local.sdp
           v    == SetState(SendRequest(made, "caller", "INVITE", sdp, 0), "caller", "CALLING")
<1>1. Becomes(v)
  BY DEF Invite
<1>2. /\ "caller" \in Ends /\ Sound(World) /\ Len(World.tsx) = 0 /\ World.acks = {}
      /\ \A u \in Ends : World.inv[u] = NoSession /\ World.neg[u] = NoNegotiator
  <2>1. World.inv["caller"].state = "NULL"
    BY WorldIs DEF Invite
  <2>2. Len(World.tsx) = 0
    BY <2>1 DEF IInv, Course
  <2>3. QED
    BY <2>2 DEF DealInv, IInv, Ends
<1>3. Makes(World, fresh, "caller", 1)
  <2>1. "long" \in {"long", World.inv["caller"].prov} /\ 1 \in Nat
    OBVIOUS
  <2>2. QED
    BY <1>2, <2>1, MakesOffer
<1> HIDE DEF fresh
<1>4. made = World \/ Makes(World, made, "caller", 1)
  BY <1>3
<1> HIDE DEF made
<1>5. sdp \in Nat
  <2>1. Sound(made)
    BY <1>2, <1>4 DEF Makes, Deals, Frame
  <2>2. QED
    BY <1>2, <2>1, SoundParts
<1>6. Settles(v) /\ Len(v.tsx) > 0
  <2>1. sdp = made.neg["caller"].local.sdp
    OBVIOUS
  <2> HIDE DEF sdp
  <2>2. QED
    BY <1>2, <1>4, <1>5, <2>1, FirstSettles
<1> HIDE DEF v
<1>7. QED
  BY <1>1, <1>6, DealsOn

-----------------------------------------------------------------------------
(* The theorem *)

\* A world to which an action leads is one in which the invariant holds.
LEMMA OnwardDeals ==
  ASSUME IInv', Len(World.tsx) > 0, Sound(World), Lasting(World), Onward
  PROVE  DealInv(World')
<1>1. PICK v : Settles(v) /\ Becomes(v)
  BY DEF Onward
<1>2. Sound(v) /\ Len(v.tsx) \in Nat
  BY <1>1, SoundParts DEF Settles
<1>3. Len(World'.tsx) = Len(v.tsx)
  <2>1. tsx' = [t \in 1..Len(v.tsx) |-> Tidy(v.tsx[t])]
    BY <1>1 DEF Becomes
  <2>2. World'.tsx = tsx'
    BY DEF World
  <2>3. QED
    BY <1>2, <2>1, <2>2
<1>4. 1 \in Indices(World')
  BY SoundParts DEF Lasting, Indices
<1>5. Len(v.tsx) > 0
  BY <1>2, <1>3, <1>4 DEF Indices
<1>6. QED
  BY <1>1, <1>5, DealsOn

\* A call that was ended stays so.
LEMMA PartedStays ==
  ASSUME IInv', Parted(World), Lasting(World)
  PROVE  DealInv(World')
<1>1. PICK t \in Indices(World) : World.tsx[t].method = "BYE"
  BY DEF Parted
<1>2. t \in Indices(World') /\ World'.tsx[t].method = "BYE"
  BY <1>1 DEF Lasting
<1>3. Len(World'.tsx) # 0
  BY <1>2 DEF Indices
<1>4. QED
  BY <1>2, <1>3 DEF DealInv, Parted

\* What an action of a patient call that goes on leads to, after the first INVITE.
LEMMA ActionOnward ==
  ASSUME Patient, ~Refresh, ~LateTimers, Live(World), Received(World), Next,
         ~(\E offer \in BOOLEAN : Invite(offer)), ~(\E ack \in acks : LoseAck(ack))
  PROVE  Onward
<1>1. Indices(World) = 1..Len(tsx)
  BY WorldIs DEF Indices
<1>2. CASE Application
  BY <1>2, AnswerOnward, EndSessionOnward, ReinviteOnward, UpdateOnward DEF Application
<1>3. CASE \E t \in 1..Len(tsx), choice \in Choices :
              Receive(t, choice) \/ Progress(t, choice) \/ Final(t, choice)
  BY <1>1, <1>3, ReceiveOnward, ProgressOnward, FinalOnward
<1>4. CASE \E t \in 1..Len(tsx) :
              ClientEnds(t) \/ Timeout(t) \/ ReceiveNack(t) \/ Again(t) \/ NoAck(t)
  BY <1>1, <1>4, ClientEndsOnward, TimeoutOnward, ReceiveNackOnward, AgainOnward, NoAckOnward
<1>5. CASE \E ack \in acks, choice \in Choices : ReceiveAck(ack, choice)
  BY <1>5, ReceiveAckOnward
<1>6. QED
  BY <1>2, <1>3, <1>4, <1>5 DEF Next, Network

\* Every step keeps the invariant.
LEMMA NextDeals ==
  ASSUME Patient, ~Refresh, ~LateTimers, IInv, IInv', EndInv(World), DealInv(World),
         [Next]_vars
  PROVE  DealInv(World')
<1>1. Lasting(World) /\ Sound(World)
  BY NextEnds DEF IInv
<1>2. CASE UNCHANGED vars
  <2>1. World' = World
    BY <1>2 DEF vars, World
  <2>2. QED
    BY <2>1
<1>3. CASE \E offer \in BOOLEAN : Invite(offer)
  BY <1>3, InviteDeals
<1>4. CASE Next /\ Parted(World)
  BY <1>1, <1>4, PartedStays
<1>5. CASE /\ Next /\ ~Parted(World) /\ Len(World.tsx) > 0
           /\ ~(\E offer \in BOOLEAN : Invite(offer))
  <2>1. Live(World) /\ Received(World)
    BY <1>5, LiveWorld, Running
  <2>2. CASE \E ack \in acks : LoseAck(ack)
    BY <2>1, <2>2, LoseAckDeals
  <2>3. CASE ~(\E ack \in acks : LoseAck(ack))
    <3>1. Onward
      BY <1>5, <2>1, <2>3, ActionOnward
    <3>2. QED
      BY <1>1, <1>5, <3>1, OnwardDeals
  <2>4. QED
    BY <2>2, <2>3
<1>6. CASE Next /\ ~(Len(World.tsx) > 0) /\ ~(\E offer \in BOOLEAN : Invite(offer))
  <2>1. Len(World.tsx) = 0 /\ Len(tsx) = 0
    BY <1>1, <1>6, SoundParts, WorldIs
  <2>2. acks = {} /\ \A u \in Ends : inv[u] = NoSession
    BY <2>1, WorldIs DEF DealInv
  <2>3. NoSession.state = "NULL" /\ "callee" \in Ends
    BY DEF NoSession, Ends
  <2>4. ~Network
    BY <2>1, <2>2 DEF Network
  <2>5. ~Application
    BY <1>6, <2>2, <2>3, ZenonT(60) DEF Application, Answer, EndSession, Reinvite, Update
  <2>6. QED
    BY <1>6, <2>4, <2>5 DEF Next
<1>7. QED
  BY <1>2, <1>3, <1>4, <1>5, <1>6

\* There is no call at first.
LEMMA InitDeals ==
  ASSUME Init
  PROVE  DealInv(World)
BY WorldIs DEF Init, DealInv

\* When nothing is under way, a call whose ends have both agreed is one in which they
\* have agreed on the same: no answer is due, and no offer is left open.
LEMMA QuietAgrees ==
  ASSUME IInv, EndInv(World), DealInv(World)
  PROVE  MediaAgree
<1>1. SUFFICES ASSUME Quiet, \A u \in Ends : inv[u].state = "CONFIRMED" /\ neg[u].state = "DONE"
               PROVE  Matched(World)
  BY WorldIs DEF MediaAgree, Matched
<1>2. \A u \in Ends : World.inv[u].state = "CONFIRMED" /\ World.neg[u].state = "DONE"
  BY <1>1, WorldIs
<1>3. Ending(World) /\ (Parted(World) \/ Dealing(World))
  <2>1. "caller" \in Ends /\ NoSession.state = "NULL"
    BY DEF Ends, NoSession
  <2>2. Len(World.tsx) # 0
    BY <1>2, <2>1 DEF DealInv
  <2>3. QED
    BY <2>2 DEF EndInv, DealInv
<1>4. \A t \in Indices(World) : World.tsx[t].client = "calling" =>
                                   World.tsx[t].server = "proceeding"
  BY <1>1, WorldIs DEF Quiet, Indices
<1>5. ~Parted(World)
  <2>1. SUFFICES ASSUME NEW t \in Indices(World), World.tsx[t].method = "BYE"
                 PROVE  FALSE
    BY DEF Parted
  <2>2. PICK u \in Ends : u = World.tsx[t].from
    BY <1>3, <2>1 DEF Ending, Shape
  <2>3. ByeOf(World, t, u)
    BY <1>3, <2>1, <2>2 DEF Ending, Byes, Bye
  <2>4. World.tsx[t].client = "calling"
    BY <1>2, <2>2, <2>3 DEF ByeOf
  <2>5. QED
    BY <1>4, <2>1, <2>3, <2>4 DEF ByeOf
<1>6. Agreed(World)
  BY <1>2, <1>3, <1>5 DEF Dealing, Joined
<1>7. \A u \in Ends : ~Stuck(World, u)
  BY <1>2 DEF Stuck
<1>8. \A u \in Ends : ~Due(World, u)
  <2>1. SUFFICES ASSUME NEW u \in Ends, NEW t \in Indices(World), Carried(World, t, u)
                 PROVE  FALSE
    BY <1>2 DEF Due, Acked, Asked, Carried, Open
  <2>2. AsksFor(World, t, u)
    BY <1>2, <1>3, <1>5, <2>1 DEF Dealing, Steady, Carried
  <2>3. QED
    BY <1>2, <2>1, <2>2 DEF AsksFor, Carried
<1>9. QED
  BY <1>6, <1>7, <1>8 DEF Agreed

\* The ends of a call send what each other expects, for any Budget, if the applications are
\* patient, no session timer refreshes the session and no timer of a transaction is late:
\* when nothing is under way any more and both ends have agreed, they have agreed on the
\* same, whatever offers crossed, whatever was refused and whichever ACK was lost
\* (inv_check_sdp_in_incoming_msg, inv_negotiate_sdp, process_answer).
THEOREM MediaAgrees ==
  ASSUME Patient, ~Refresh, ~LateTimers
  PROVE  Spec => []MediaAgree
<1>1. Init => EndInv(World) /\ DealInv(World)
  BY InitEnds, InitDeals
<1>2. IInv /\ IInv' /\ EndInv(World) /\ DealInv(World) /\ [Next]_vars
      => EndInv(World)' /\ DealInv(World)'
  <2>1. SUFFICES ASSUME IInv, IInv', EndInv(World), DealInv(World), [Next]_vars
                 PROVE  EndInv(World)' /\ DealInv(World)'
    OBVIOUS
  <2>2. EndInv(World)'
    BY <2>1, NextEnds DEF Lasting
  <2>3. DealInv(World')
    BY <2>1, NextDeals
  <2>4. QED
    BY <2>2, <2>3 DEF DealInv
<1>3. IInv /\ EndInv(World) /\ DealInv(World) => MediaAgree
  BY QuietAgrees
<1>4. QED
  BY <1>1, <1>2, <1>3, Invariant, PTL DEF Spec

=============================================================================
